-------------------------- MODULE CrossDeviceFrame --------------------------
(***************************************************************************)
(* displayFrame for a window on another device than the main one.  Main-   *)
(* DeviceExecutor copies the image into host memory, displayDeviceExecutor *)
(* copies it from there and blits: one block of host memory, imported as a *)
(* buffer by both devices.  No semaphore is shared by devices (the call of *)
(* setupCrossDeviceSemaphores is commented out), so wait(other) across     *)
(* devices is a wait on the CPU that gives up after 5 s.                   *)
(*                                                                         *)
(* HardwareContext gives the devices, importHostBuffer the buffers, and    *)
(* cleanUpDisplayManager takes all of it down.  What a frame does with its *)
(* swapchain is in DisplayFrame, what a commit does in ExecutorSubmit: here*)
(* submissions of one executor run in order and a frame has a fence.       *)
(***************************************************************************)
EXTENDS Integers, Sequences

CONSTANTS
    DeviceCount,    \* entries of HardwareContext::hardwareUtils
    FrameCount,     \* fences of the swapchain
    None,
    MaxFrames,      \* bound: displayFrame calls
    MaxCommits,     \* bound: submissions of the executor waited for
    MaxTimeouts,    \* bound: waits on the CPU that give up
    MaxFailures     \* bound: steps of the set-up that fail

ASSUME CountAssumption ==
    DeviceCount \in Nat \ {0} /\ FrameCount \in Nat \ {0} /\ None \notin Nat
ASSUME BoundAssumption == {MaxFrames, MaxCommits, MaxTimeouts, MaxFailures} \subseteq Nat

VARIABLES
    pc,
    deviceType,         \* device -> priority of its type
    presentable,        \* the devices with a queue that can present to the window
    displayDevice,
    displaySurface,     \* is it the window's
    hostBufferPtr,      \* "none", "live" or "freed"
    srcStaging, dstStaging,     \* is the wrapper a buffer
    objects,            \* what exists on the devices for this window
    staged,             \* what is in the host memory: frame, work it shows
    acquireFences,      \* frame -> signaled
    currentFrame,
    frame,              \* number of the frame in progress
    late,               \* the wait for its copy gave up
    waitedExecutor,     \* lastSignalValue of the copied executor
    waitSemaphores,     \* what mainDeviceExecutor will wait for
    mainSignal,         \* lastSignalValue of mainDeviceExecutor
    mainReached,        \* the value the main device has reached for it
    mainCopies,         \* copies into host memory not completed
    displayCopies,      \* copies from host memory, with their blits
    produced, completed,    \* of the application's executor
    timeouts, failures

hostVars   == <<hostBufferPtr, srcStaging, dstStaging, objects>>
deviceVars == <<deviceType, presentable>>
mainVars   == <<mainSignal, mainReached, mainCopies, staged>>
frameVars  == <<frame, late, currentFrame>>
appVars    == <<produced, completed>>
vars == <<pc, deviceVars, displayDevice, displaySurface, hostVars, mainVars, frameVars,
          acquireFences, displayCopies, waitedExecutor, waitSemaphores, appVars, timeouts,
          failures>>

Device == 1..DeviceCount

\* Where importHostBuffer can fail, the step after the last one included.
ImportStage == {"pointer", "create", "types", "allocate", "bind", "done"}

-----------------------------------------------------------------------------
\* Helpers.

\* chooseMainDevice: min_element, the first of the best type.
MainDevice ==
    CHOOSE d \in Device : \A e \in Device :
        deviceType[d] < deviceType[e] \/ (deviceType[d] = deviceType[e] /\ d <= e)

\* choosePresentDevice: the first that can present and is not the main device.
PresentDevice ==
    LET others == presentable \ {MainDevice}
    IN  CHOOSE d \in others : \A e \in others : d <= e

\* What importHostBuffer has created when it comes to a stage, ...
CreatedBy(stage) ==
    CASE stage \in {"pointer", "create"}   -> {}
      [] stage \in {"types", "allocate"}   -> {"buffer"}
      [] stage \in {"bind", "done"}        -> {"buffer", "memory"}

\* Mutant: the memory is freed, the buffer forgotten.
FreesMemoryOnly(stage) == IF stage = "done" THEN {} ELSE CreatedBy(stage) \ {"buffer"}

\* ... and what its error path destroys if it fails there.
UndoneBy(stage) == IF stage = "done" THEN {} ELSE CreatedBy(stage)

Import(device, of, stage) ==
    [device : {device}, kind : CreatedBy(stage) \ UndoneBy(stage), of : {of}]

Owned(device, of, exists) ==
    IF exists THEN [device : {device}, kind : {"buffer", "memory"}, of : {of}] ELSE {}

\* Mutant: the point taken before the commit.
SignalBeforeCommit == mainSignal - 1

\* The point displayDeviceExecutor->wait(*mainDeviceExecutor) waits for.
BridgeValue == mainSignal

\* Mutant: destroyBuffer does not wait.
AtOnce == TRUE

\* destroyBuffer waits for every submission of its device.
SourceIdle == mainCopies = <<>>

MergedWait(old, new) == IF old < new THEN new ELSE old

\* The CPU wait returns: the point is reached, or 5 s have passed.
CpuWait(reached) ==
    \/ reached /\ UNCHANGED timeouts
    \/ ~reached /\ timeouts < MaxTimeouts /\ timeouts' = timeouts + 1

Fail == failures < MaxFailures /\ failures' = failures + 1

-----------------------------------------------------------------------------
Init ==
    /\ pc = "idle"
    /\ deviceType \in [Device -> 0..1]
    /\ presentable \in SUBSET Device /\ presentable \ {MainDevice} # {}
    /\ displayDevice = None
    /\ displaySurface = FALSE
    /\ hostBufferPtr = "none" /\ srcStaging = FALSE /\ dstStaging = FALSE
    /\ objects = {}
    /\ staged = [frame |-> 0, work |-> 0]
    /\ acquireFences = [f \in 0..(FrameCount - 1) |-> FALSE]
    /\ currentFrame = 0 /\ frame = 0 /\ late = FALSE
    /\ waitedExecutor = 0 /\ waitSemaphores = 0
    /\ mainSignal = 0 /\ mainReached = 0 /\ mainCopies = <<>> /\ displayCopies = <<>>
    /\ produced = 0 /\ completed = 0 /\ timeouts = 0 /\ failures = 0

-----------------------------------------------------------------------------
\* Calls on the displayer.

WaitExecutor ==
    /\ pc = "idle"
    /\ waitedExecutor # produced
    /\ waitedExecutor' = produced
    /\ UNCHANGED <<pc, deviceVars, displayDevice, displaySurface, hostVars, mainVars,
                   frameVars, acquireFences, displayCopies, waitSemaphores, appVars,
                   timeouts, failures>>

DisplayFrame ==
    /\ pc = "idle" /\ frame < MaxFrames
    /\ frame' = frame + 1
    /\ late' = FALSE
    /\ displaySurface' = TRUE
    /\ pc' = IF displaySurface THEN "wait" ELSE "init"
    /\ UNCHANGED <<deviceVars, displayDevice, hostVars, mainVars, currentFrame,
                   acquireFences, displayCopies, waitedExecutor, waitSemaphores, appVars,
                   timeouts, failures>>

-----------------------------------------------------------------------------
\* The set-up, by the first frame of the window.

Initialize ==
    /\ pc = "init"
    /\ displayDevice' = PresentDevice
    /\ acquireFences' = [f \in DOMAIN acquireFences |-> TRUE]
    /\ pc' = "host"
    /\ UNCHANGED <<deviceVars, displaySurface, hostVars, mainVars, frameVars,
                   displayCopies, waitedExecutor, waitSemaphores, appVars, timeouts,
                   failures>>

\* initDisplayManager cleans up; the executor to wait for is forgotten.
InitializeFails ==
    /\ pc = "init" /\ Fail
    /\ displaySurface' = FALSE
    /\ waitedExecutor' = 0
    /\ pc' = "idle"
    /\ UNCHANGED <<deviceVars, displayDevice, hostVars, mainVars, frameVars,
                   acquireFences, displayCopies, waitSemaphores, appVars, timeouts>>

\* The display device's image and the host memory, either of which may not be had.
AllocateHost ==
    /\ pc = "host"
    /\ LET image == [device |-> displayDevice, kind |-> "image", of |-> "display"]
       IN  \/ /\ objects' = objects \cup {image}
              /\ hostBufferPtr' = "live"
              /\ pc' = "src"
              /\ UNCHANGED failures
           \/ /\ Fail
              /\ objects' \in {objects, objects \cup {image}}
              /\ pc' = "idle"
              /\ UNCHANGED hostBufferPtr
    /\ UNCHANGED <<deviceVars, displayDevice, displaySurface, srcStaging, dstStaging,
                   mainVars, frameVars, acquireFences, displayCopies, waitedExecutor,
                   waitSemaphores, appVars, timeouts>>

\* Outcome of importHostBuffer: at "done" the wrapper is assigned, else it throws out
\* of displayFrame, which returns false with displaySurface set.
Imports(device, of, stage) ==
    /\ objects' = objects \cup Import(device, of, stage)
    /\ IF stage = "done" THEN UNCHANGED failures ELSE Fail

ImportSource(stage) ==
    /\ pc = "src"
    /\ Imports(MainDevice, "src", stage)
    /\ srcStaging' = (stage = "done")
    /\ pc' = IF stage = "done" THEN "dst" ELSE "idle"
    /\ UNCHANGED <<deviceVars, displayDevice, displaySurface, hostBufferPtr, dstStaging,
                   mainVars, frameVars, acquireFences, displayCopies, waitedExecutor,
                   waitSemaphores, appVars, timeouts>>

ImportDestination(stage) ==
    /\ pc = "dst"
    /\ Imports(displayDevice, "dst", stage)
    /\ dstStaging' = (stage = "done")
    /\ pc' = IF stage = "done" THEN "wait" ELSE "idle"
    /\ UNCHANGED <<deviceVars, displayDevice, displaySurface, hostBufferPtr, srcStaging,
                   mainVars, frameVars, acquireFences, displayCopies, waitedExecutor,
                   waitSemaphores, appVars, timeouts>>

-----------------------------------------------------------------------------
\* A frame.

\* mainDeviceExecutor waits for the executor on the GPU, displayDeviceExecutor on
\* the CPU.  A minimised window ends the frame here.
WaitForExecutor ==
    /\ pc = "wait"
    /\ waitSemaphores' = MergedWait(waitSemaphores, waitedExecutor)
    /\ CpuWait(completed >= waitedExecutor)
    /\ pc' \in {"fence", "idle"}
    /\ UNCHANGED <<deviceVars, displayDevice, displaySurface, hostVars, mainVars,
                   frameVars, acquireFences, displayCopies, waitedExecutor, appVars,
                   failures>>

WaitFence ==
    /\ pc = "fence"
    /\ acquireFences[currentFrame]
    /\ acquireFences' = [acquireFences EXCEPT ![currentFrame] = FALSE]
    /\ pc' = "copyOut"
    /\ UNCHANGED <<deviceVars, displayDevice, displaySurface, hostVars, mainVars,
                   frameVars, displayCopies, waitedExecutor, waitSemaphores, appVars,
                   timeouts, failures>>

\* The copy from the image to host memory.
CopyOut ==
    /\ pc = "copyOut" /\ srcStaging
    /\ mainSignal' = mainSignal + 1
    /\ mainCopies' = Append(mainCopies, [frame |-> frame, signal |-> mainSignal',
                                         after |-> waitSemaphores])
    /\ waitSemaphores' = 0
    /\ pc' = "bridge"
    /\ UNCHANGED <<deviceVars, displayDevice, displaySurface, hostVars, mainReached, staged,
                   frameVars, acquireFences, displayCopies, waitedExecutor, appVars,
                   timeouts, failures>>

\* displayDeviceExecutor->wait(*mainDeviceExecutor): what it returns is ignored.
Bridge ==
    /\ pc = "bridge"
    /\ CpuWait(mainReached >= BridgeValue)
    /\ late' = (mainReached < BridgeValue)
    /\ pc' = "copyIn"
    /\ UNCHANGED <<deviceVars, displayDevice, displaySurface, hostVars, mainVars, frame,
                   currentFrame, acquireFences, displayCopies, waitedExecutor,
                   waitSemaphores, appVars, failures>>

\* The copy from host memory and the blit, in one commit, then the present.
CopyIn ==
    /\ pc = "copyIn" /\ dstStaging
    /\ displayCopies' = Append(displayCopies, [frame |-> frame, fence |-> currentFrame,
                                               waited |-> waitedExecutor, late |-> late])
    /\ currentFrame' = (currentFrame + 1) % FrameCount
    /\ pc' = "idle"
    /\ UNCHANGED <<deviceVars, displayDevice, displaySurface, hostVars, mainVars, frame,
                   late, acquireFences, waitedExecutor, waitSemaphores, appVars, timeouts,
                   failures>>

\* A frame after a set-up that threw copies through a null buffer: undefined.
CopyNothing ==
    /\ \/ pc = "copyOut" /\ ~srcStaging
       \/ pc = "copyIn" /\ ~dstStaging
    /\ pc' = "undefined"
    /\ UNCHANGED <<deviceVars, displayDevice, displaySurface, hostVars, mainVars,
                   frameVars, acquireFences, displayCopies, waitedExecutor, waitSemaphores,
                   appVars, timeouts, failures>>

-----------------------------------------------------------------------------
\* cleanUpDisplayManager, by the destructor.

Destroys(from, to) ==
    /\ pc = from
    /\ pc' = to
    /\ UNCHANGED <<deviceVars, displayDevice, displaySurface, mainVars, frameVars,
                   acquireFences, displayCopies, waitedExecutor, waitSemaphores, appVars,
                   timeouts, failures>>

\* vkDeviceWaitIdle of the display device.
Destroy ==
    /\ Destroys("idle", "destroySrc")
    /\ displayCopies = <<>>
    /\ UNCHANGED hostVars

DestroySource ==
    /\ Destroys("destroySrc", "destroyDst")
    /\ srcStaging => SourceIdle
    /\ srcStaging' = FALSE
    /\ objects' = objects \ Owned(MainDevice, "src", srcStaging)
    /\ UNCHANGED <<hostBufferPtr, dstStaging>>

DestroyDestination ==
    /\ Destroys("destroyDst", "freeHost")
    /\ dstStaging' = FALSE
    /\ objects' = objects \ Owned(displayDevice, "dst", dstStaging)
    /\ UNCHANGED <<hostBufferPtr, srcStaging>>

FreeHost ==
    /\ Destroys("freeHost", "gone")
    /\ hostBufferPtr' = IF hostBufferPtr = "none" THEN "none" ELSE "freed"
    /\ UNCHANGED <<srcStaging, dstStaging, objects>>

-----------------------------------------------------------------------------
\* The two GPUs and the application's executor.

ExecuteMainCopy ==
    /\ mainCopies # <<>> /\ completed >= Head(mainCopies).after
    /\ staged' = [frame |-> Head(mainCopies).frame, work |-> completed]
    /\ mainReached' = Head(mainCopies).signal
    /\ mainCopies' = Tail(mainCopies)
    /\ UNCHANGED <<pc, deviceVars, displayDevice, displaySurface, hostVars, mainSignal,
                   frameVars, acquireFences, displayCopies, waitedExecutor, waitSemaphores,
                   appVars, timeouts, failures>>

ExecuteDisplayCopy ==
    /\ displayCopies # <<>>
    /\ acquireFences' = [acquireFences EXCEPT ![Head(displayCopies).fence] = TRUE]
    /\ displayCopies' = Tail(displayCopies)
    /\ UNCHANGED <<pc, deviceVars, displayDevice, displaySurface, hostVars, mainVars,
                   frameVars, waitedExecutor, waitSemaphores, appVars, timeouts, failures>>

Application ==
    /\ \/ produced < MaxCommits /\ produced' = produced + 1 /\ UNCHANGED completed
       \/ completed < produced /\ completed' = completed + 1 /\ UNCHANGED produced
    /\ UNCHANGED <<pc, deviceVars, displayDevice, displaySurface, hostVars, mainVars,
                   frameVars, acquireFences, displayCopies, waitedExecutor, waitSemaphores,
                   timeouts, failures>>

Next ==
    \/ WaitExecutor \/ DisplayFrame
    \/ Initialize \/ InitializeFails \/ AllocateHost
    \/ \E s \in ImportStage : ImportSource(s) \/ ImportDestination(s)
    \/ WaitForExecutor \/ WaitFence \/ CopyOut \/ Bridge \/ CopyIn \/ CopyNothing
    \/ Destroy \/ DestroySource \/ DestroyDestination \/ FreeHost
    \/ ExecuteMainCopy \/ ExecuteDisplayCopy \/ Application

Spec == Init /\ [][Next]_vars

-----------------------------------------------------------------------------
(***************************************************************************)
(* Properties                                                              *)
(***************************************************************************)

\* What the display device copies out of host memory is the frame it was submitted
\* for, or a newer one, and shows the work that frame waited for: unless the 5 s wait
\* gave up.  Nothing but the wait on the CPU orders the two devices.
CopiesCarryTheFrame ==
    \A n \in DOMAIN displayCopies :
        LET c == displayCopies[n]
        IN  ~c.late => staged.frame >= c.frame /\ staged.work >= c.waited

\* The host memory is there as long as a buffer of a device is bound to it or a copy
\* uses it, although a wait that gave up lets the destructor come while the main
\* device has still to write it (cleanUpDisplayManager, destroyBuffer).
HostMemoryOutlivesUse ==
    hostBufferPtr # "live" =>
        /\ \A o \in objects : o.kind # "memory"
        /\ mainCopies = <<>> /\ displayCopies = <<>>

\* Whichever step of the set-up fails, every buffer and every memory belongs to one of
\* the staging wrappers, which the destructor destroys; the image of the display
\* device is the exception, its destroyImage is commented out (cleanupDisplayImage).
NothingOrphaned ==
    /\ {o \in objects : o.kind # "image"} =
           Owned(MainDevice, "src", srcStaging) \cup Owned(displayDevice, "dst", dstStaging)
    /\ pc = "gone" => hostBufferPtr # "live" /\ ~srcStaging /\ ~dstStaging
=============================================================================
