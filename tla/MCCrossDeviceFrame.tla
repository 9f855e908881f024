------------------------- MODULE MCCrossDeviceFrame -------------------------
\* Two devices of either type, two frames in flight.
EXTENDS CrossDeviceFrame
=============================================================================
