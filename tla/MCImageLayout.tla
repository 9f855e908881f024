---------------------------- MODULE MCImageLayout ----------------------------
(* Small instances of ImageLayout for TLC.                                  *)
EXTENDS ImageLayout

\* Submissions that are over matter to no action and no property.
Relevant ==
    <<cpuVars, gpuLayout, pipeVars, commitVars, chainMutex, inFlight, commits, frames,
      retargets,
      [e \in Everyone |-> Before(waits[e] \cup {last[e]})], {chain} \cap Flying,
      [e \in Everyone |-> {last[e]} \cap Flying]>>
=============================================================================
