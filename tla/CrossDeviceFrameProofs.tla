----------------------- MODULE CrossDeviceFrameProofs -----------------------
(***************************************************************************)
(* The invariants of CrossDeviceFrame, for any number of devices, fences,  *)
(* frames, failures and waits that give up.                                *)
(*                                                                         *)
(* Three parts, each inductive with those before it: Lifecycle says which  *)
(* of the host memory and the two wrappers exist at each step, Staging     *)
(* what is on the devices, Copies what the copies carry.                   *)
(***************************************************************************)
EXTENDS CrossDeviceFrame, TLAPS

MainCopy == [frame : Nat, signal : Nat, after : Nat]
DisplayCopy == [frame : Nat, fence : Nat, waited : Nat, late : BOOLEAN]

Teardown == {"destroySrc", "destroyDst", "freeHost", "gone"}
InFrame  == {"wait", "fence", "copyOut", "bridge", "copyIn"}
SetUp    == {"init", "host", "src", "dst"}

\* A wrapper has the host memory, a copy has its wrapper.
Lifecycle ==
    /\ pc \in {"idle", "undefined"} \cup SetUp \cup InFrame \cup Teardown
    /\ srcStaging \in BOOLEAN /\ dstStaging \in BOOLEAN /\ displaySurface \in BOOLEAN
    /\ late \in BOOLEAN
    /\ hostBufferPtr \in {"none", "live", "freed"}
    /\ mainCopies \in Seq(MainCopy) /\ displayCopies \in Seq(DisplayCopy)
    /\ srcStaging \/ dstStaging => hostBufferPtr = "live"
    /\ pc \in {"init", "host"} => displaySurface /\ hostBufferPtr = "none"
    /\ ~displaySurface => hostBufferPtr = "none"
    /\ pc = "src" => hostBufferPtr = "live" /\ ~srcStaging /\ ~dstStaging
    /\ pc = "dst" => hostBufferPtr = "live" /\ ~dstStaging
    /\ pc \in {"destroyDst", "freeHost", "gone"} => ~srcStaging
    /\ pc \in {"freeHost", "gone"} => ~dstStaging
    /\ pc = "gone" => hostBufferPtr # "live"
    /\ hostBufferPtr = "freed" => pc = "gone"
    /\ mainCopies # <<>> => srcStaging
    /\ displayCopies # <<>> => dstStaging /\ pc \notin Teardown

\* The buffers and memories are those of the two wrappers.
Staging ==
    {o \in objects : o.kind # "image"} =
        Owned(MainDevice, "src", srcStaging) \cup Owned(displayDevice, "dst", dstStaging)

\* The frame in progress is in host memory, with the work it waited for.
Carried == staged.frame >= frame /\ staged.work >= waitedExecutor

Counters ==
    /\ frame \in Nat /\ currentFrame \in Nat
    /\ waitedExecutor \in Nat /\ waitSemaphores \in Nat
    /\ mainSignal \in Nat /\ mainReached \in Nat
    /\ produced \in Nat /\ completed \in Nat
    /\ staged \in [frame : Nat, work : Nat]
    /\ staged.work <= completed /\ staged.frame <= frame

\* The copies of the main device run in the order of their frames and signals.
CopyOrder ==
    /\ mainSignal = mainReached + Len(mainCopies)
    /\ \A i \in DOMAIN mainCopies :
           /\ mainCopies[i].signal = mainReached + i
           /\ staged.frame <= mainCopies[i].frame /\ mainCopies[i].frame <= frame
           /\ \A j \in DOMAIN mainCopies : i < j => mainCopies[i].frame <= mainCopies[j].frame

\* At "bridge" the last of them is the one of the frame in progress.
FrameOrder ==
    /\ pc \in {"fence", "copyOut"} => waitSemaphores >= waitedExecutor
    /\ pc = "bridge" =>
           IF mainCopies = <<>> THEN Carried
           ELSE LET c == mainCopies[Len(mainCopies)]
                IN  c.frame = frame /\ c.after >= waitedExecutor
    /\ pc = "copyIn" /\ ~late => Carried

Copies == Counters /\ CopyOrder /\ FrameOrder /\ CopiesCarryTheFrame

IInv == Lifecycle /\ Staging /\ Copies

-----------------------------------------------------------------------------
(***************************************************************************)
(* Lemmas                                                                  *)
(***************************************************************************)

\* A failed importHostBuffer leaves nothing, a complete one a buffer and a memory.
LEMMA ImportLeaves ==
    ASSUME NEW device, NEW of, NEW s \in ImportStage
    PROVE  Import(device, of, s) = Owned(device, of, s = "done")
<1>1. CASE s = "done"
    <2>1. CreatedBy(s) \ UndoneBy(s) = {"buffer", "memory"}
        BY <1>1 DEF CreatedBy, UndoneBy
    <2> QED BY <1>1, <2>1 DEF Import, Owned
<1>2. CASE s # "done"
    <2>1. CreatedBy(s) \ UndoneBy(s) = {}
        BY <1>2 DEF UndoneBy
    <2>2. Import(device, of, s) = {}
        BY <2>1 DEF Import
    <2> QED BY <1>2, <2>2 DEF Owned
<1> QED BY <1>1, <1>2

\* What a wrapper owns is no image and has the wrapper's name.
LEMMA OwnedIs ==
    ASSUME NEW device, NEW of, NEW exists \in BOOLEAN, NEW o \in Owned(device, of, exists)
    PROVE  exists /\ o.kind \in {"buffer", "memory"} /\ o.of = of
BY DEF Owned


-----------------------------------------------------------------------------
(***************************************************************************)
(* Lifecycle                                                               *)
(***************************************************************************)

LEMMA LifecycleInit == Init => Lifecycle
<1>1. <<>> \in Seq(MainCopy) /\ <<>> \in Seq(DisplayCopy)
    OBVIOUS
<1>2. ASSUME Init
      PROVE  /\ pc = "idle" /\ hostBufferPtr = "none" /\ mainCopies = <<>> /\ displayCopies = <<>>
             /\ srcStaging = FALSE /\ dstStaging = FALSE /\ displaySurface = FALSE /\ late = FALSE
    BY <1>2 DEF Init
<1> QED BY <1>1, <1>2 DEF Lifecycle

\* Counters types what a copy carries.
LEMMA LifecycleStep ==
    ASSUME Lifecycle, Counters, [Next]_vars
    PROVE  Lifecycle'
<1> USE CountAssumption
    DEF Lifecycle, SetUp, InFrame, Teardown, hostVars, deviceVars, mainVars, frameVars,
        appVars
<1>1. ASSUME WaitExecutor PROVE Lifecycle'
    BY <1>1 DEF WaitExecutor
<1>2. ASSUME DisplayFrame PROVE Lifecycle'
    BY <1>2 DEF DisplayFrame
<1>3. ASSUME Initialize PROVE Lifecycle'
    BY <1>3 DEF Initialize
<1>4. ASSUME InitializeFails PROVE Lifecycle'
    BY <1>4 DEF InitializeFails
<1>5. ASSUME AllocateHost PROVE Lifecycle'
    BY <1>5 DEF AllocateHost
<1>6. ASSUME NEW s \in ImportStage, ImportSource(s) PROVE Lifecycle'
    BY <1>6 DEF ImportSource, Imports
<1>7. ASSUME NEW s \in ImportStage, ImportDestination(s) PROVE Lifecycle'
    BY <1>7 DEF ImportDestination, Imports
<1>8. ASSUME WaitForExecutor PROVE Lifecycle'
    BY <1>8 DEF WaitForExecutor
<1>9. ASSUME WaitFence PROVE Lifecycle'
    BY <1>9 DEF WaitFence
<1>10. ASSUME CopyOut PROVE Lifecycle'
    BY <1>10 DEF CopyOut, Counters, MainCopy
<1>11. ASSUME Bridge PROVE Lifecycle'
    BY <1>11 DEF Bridge
<1>12. ASSUME CopyIn PROVE Lifecycle'
    BY <1>12 DEF CopyIn, Counters, DisplayCopy
<1>13. ASSUME CopyNothing PROVE Lifecycle'
    BY <1>13 DEF CopyNothing
<1>14. ASSUME Destroy PROVE Lifecycle'
    BY <1>14 DEF Destroy, Destroys
<1>15. ASSUME DestroySource PROVE Lifecycle'
    BY <1>15 DEF DestroySource, Destroys, SourceIdle
<1>16. ASSUME DestroyDestination PROVE Lifecycle'
    BY <1>16 DEF DestroyDestination, Destroys
<1>17. ASSUME FreeHost PROVE Lifecycle'
    BY <1>17 DEF FreeHost, Destroys
<1>18. ASSUME ExecuteMainCopy PROVE Lifecycle'
    BY <1>18 DEF ExecuteMainCopy
<1>19. ASSUME ExecuteDisplayCopy PROVE Lifecycle'
    BY <1>19 DEF ExecuteDisplayCopy
<1>20. ASSUME Application PROVE Lifecycle'
    BY <1>20 DEF Application
<1>21. ASSUME UNCHANGED vars PROVE Lifecycle'
    BY <1>21 DEF vars
<1> QED BY <1>1, <1>2, <1>3, <1>4, <1>5, <1>6, <1>7, <1>8, <1>9, <1>10, <1>11, <1>12,
       <1>13, <1>14, <1>15, <1>16, <1>17, <1>18, <1>19, <1>20, <1>21 DEF Next

-----------------------------------------------------------------------------
(***************************************************************************)
(* Staging                                                                 *)
(***************************************************************************)

LEMMA StagingInit == Init => Staging
BY DEF Init, Staging, Owned

\* What Staging reads.
stagingVars == <<objects, deviceType, displayDevice, srcStaging, dstStaging>>

LEMMA StagingSame ==
    ASSUME Staging, UNCHANGED stagingVars
    PROVE  Staging'
BY DEF Staging, stagingVars, Owned, MainDevice, Device

LEMMA StagingStep ==
    ASSUME Lifecycle, Staging, [Next]_vars
    PROVE  Staging'
<1> USE DEF hostVars, deviceVars, mainVars, frameVars, appVars
<1>same. UNCHANGED stagingVars => Staging'
    BY StagingSame
<1>main. UNCHANGED deviceVars => MainDevice' = MainDevice
    BY DEF MainDevice, Device
<1>1. ASSUME WaitExecutor PROVE Staging'
    BY <1>1, <1>same DEF WaitExecutor, stagingVars
<1>2. ASSUME DisplayFrame PROVE Staging'
    BY <1>2, <1>same DEF DisplayFrame, stagingVars
<1>3. ASSUME Initialize PROVE Staging'
    BY <1>3, <1>main DEF Initialize, Lifecycle, Staging, Owned
<1>4. ASSUME InitializeFails PROVE Staging'
    BY <1>4, <1>same DEF InitializeFails, stagingVars
<1>5. ASSUME AllocateHost PROVE Staging'
    <2>1. MainDevice' = MainDevice /\ UNCHANGED <<displayDevice, srcStaging, dstStaging>>
        BY <1>5, <1>main DEF AllocateHost
    <2>2. {o \in objects' : o.kind # "image"} = {o \in objects : o.kind # "image"}
        BY <1>5 DEF AllocateHost
    <2> QED BY <2>1, <2>2 DEF Staging, Owned
<1>6. ASSUME NEW s \in ImportStage, ImportSource(s) PROVE Staging'
    <2>1. /\ ~srcStaging /\ srcStaging' = (s = "done")
          /\ MainDevice' = MainDevice /\ UNCHANGED <<displayDevice, dstStaging>>
          /\ objects' = objects \cup Owned(MainDevice, "src", s = "done")
        BY <1>6, <1>main, ImportLeaves DEF ImportSource, Imports, Lifecycle
    <2> QED BY <2>1 DEF Staging, Owned
<1>7. ASSUME NEW s \in ImportStage, ImportDestination(s) PROVE Staging'
    <2>1. /\ ~dstStaging /\ dstStaging' = (s = "done")
          /\ MainDevice' = MainDevice /\ UNCHANGED <<displayDevice, srcStaging>>
          /\ objects' = objects \cup Owned(displayDevice, "dst", s = "done")
        BY <1>7, <1>main, ImportLeaves DEF ImportDestination, Imports, Lifecycle
    <2> QED BY <2>1 DEF Staging, Owned
<1>8. ASSUME WaitForExecutor PROVE Staging'
    BY <1>8, <1>same DEF WaitForExecutor, stagingVars
<1>9. ASSUME WaitFence PROVE Staging'
    BY <1>9, <1>same DEF WaitFence, stagingVars
<1>10. ASSUME CopyOut PROVE Staging'
    BY <1>10, <1>same DEF CopyOut, stagingVars
<1>11. ASSUME Bridge PROVE Staging'
    BY <1>11, <1>same DEF Bridge, stagingVars
<1>12. ASSUME CopyIn PROVE Staging'
    BY <1>12, <1>same DEF CopyIn, stagingVars
<1>13. ASSUME CopyNothing PROVE Staging'
    BY <1>13, <1>same DEF CopyNothing, stagingVars
<1>14. ASSUME Destroy PROVE Staging'
    BY <1>14, <1>same DEF Destroy, stagingVars, Destroys
<1>15. ASSUME DestroySource PROVE Staging'
    <2>1. /\ srcStaging' = FALSE
          /\ MainDevice' = MainDevice /\ UNCHANGED <<displayDevice, dstStaging>>
          /\ objects' = objects \ Owned(MainDevice, "src", srcStaging)
        BY <1>15, <1>main DEF DestroySource, Destroys
    <2> QED BY <2>1 DEF Staging, Owned
<1>16. ASSUME DestroyDestination PROVE Staging'
    <2>1. /\ dstStaging' = FALSE
          /\ MainDevice' = MainDevice /\ UNCHANGED <<displayDevice, srcStaging>>
          /\ objects' = objects \ Owned(displayDevice, "dst", dstStaging)
        BY <1>16, <1>main DEF DestroyDestination, Destroys
    <2> QED BY <2>1 DEF Staging, Owned
<1>17. ASSUME FreeHost PROVE Staging'
    BY <1>17, <1>same DEF FreeHost, stagingVars, Destroys
<1>18. ASSUME ExecuteMainCopy PROVE Staging'
    BY <1>18, <1>same DEF ExecuteMainCopy, stagingVars
<1>19. ASSUME ExecuteDisplayCopy PROVE Staging'
    BY <1>19, <1>same DEF ExecuteDisplayCopy, stagingVars
<1>20. ASSUME Application PROVE Staging'
    BY <1>20, <1>same DEF Application, stagingVars
<1>21. ASSUME UNCHANGED vars PROVE Staging'
    BY <1>21, <1>same DEF vars, stagingVars
<1> QED BY <1>1, <1>2, <1>3, <1>4, <1>5, <1>6, <1>7, <1>8, <1>9, <1>10, <1>11, <1>12,
       <1>13, <1>14, <1>15, <1>16, <1>17, <1>18, <1>19, <1>20, <1>21 DEF Next

-----------------------------------------------------------------------------
(***************************************************************************)
(* The copies                                                              *)
(***************************************************************************)

LEMMA CopiesInit == Init => Copies
<1> SUFFICES ASSUME Init PROVE Copies
    OBVIOUS
<1>1. mainCopies = <<>> /\ displayCopies = <<>> /\ mainSignal = 0 /\ mainReached = 0
    BY DEF Init
<1>2. Counters
    <2>1. /\ frame = 0 /\ currentFrame = 0 /\ waitedExecutor = 0
          /\ waitSemaphores = 0 /\ produced = 0 /\ completed = 0
          /\ staged = [frame |-> 0, work |-> 0]
        BY DEF Init
    <2> QED BY <1>1, <2>1 DEF Counters
<1>3. CopyOrder /\ CopiesCarryTheFrame
    BY <1>1 DEF CopyOrder, CopiesCarryTheFrame
<1>4. FrameOrder
    BY DEF Init, FrameOrder
<1> QED BY <1>2, <1>3, <1>4 DEF Copies

\* What Copies reads, but for the step: only a step into a frame depends on it.
copyVars == <<frame, late, currentFrame, waitedExecutor, waitSemaphores, mainSignal,
              mainReached, produced, completed, staged, mainCopies, displayCopies>>

LEMMA CopiesSame ==
    ASSUME Copies, UNCHANGED copyVars,
           pc' = pc \/ pc' \notin {"fence", "copyOut", "bridge", "copyIn"}
    PROVE  Copies'
BY DEF Copies, Counters, CopyOrder, FrameOrder, Carried, CopiesCarryTheFrame, copyVars

LEMMA CopiesStep ==
    ASSUME Lifecycle, Copies, [Next]_vars
    PROVE  Copies'
<1> USE DEF hostVars, deviceVars, mainVars, frameVars, appVars
<1>same. UNCHANGED copyVars /\ (pc' = pc \/ pc' \notin {"fence", "copyOut", "bridge", "copyIn"})
             => Copies'
    BY CopiesSame
<1>types. /\ mainCopies \in Seq(MainCopy) /\ displayCopies \in Seq(DisplayCopy)
          /\ \A i \in DOMAIN mainCopies : mainCopies[i] \in MainCopy
          /\ \A i \in DOMAIN displayCopies : displayCopies[i] \in DisplayCopy
    BY DEF Lifecycle
<1>fields. /\ \A c \in MainCopy : c.frame \in Nat /\ c.signal \in Nat /\ c.after \in Nat
           /\ \A c \in DisplayCopy : c.frame \in Nat /\ c.waited \in Nat
    BY DEF MainCopy, DisplayCopy
<1>1. ASSUME WaitExecutor PROVE Copies'
    BY <1>1, <1>types, <1>fields, CountAssumption
    DEF WaitExecutor, Copies, Counters, CopyOrder, FrameOrder, Carried,
        CopiesCarryTheFrame
<1>2. ASSUME DisplayFrame PROVE Copies'
    <2>1. /\ frame' = frame + 1
          /\ pc' \notin {"fence", "copyOut", "bridge", "copyIn"}
          /\ UNCHANGED <<currentFrame, waitedExecutor, waitSemaphores, mainVars,
                         appVars, displayCopies>>
        BY <1>2 DEF DisplayFrame
    <2>2. Counters'
        BY <2>1 DEF Copies, Counters
    <2>3. CopyOrder'
        BY <2>1, <1>types, <1>fields DEF Copies, Counters, CopyOrder
    <2>4. FrameOrder' /\ CopiesCarryTheFrame'
        BY <2>1 DEF Copies, FrameOrder, CopiesCarryTheFrame
    <2> QED BY <2>2, <2>3, <2>4 DEF Copies
<1>3. ASSUME Initialize PROVE Copies'
    BY <1>3, <1>same DEF Initialize, copyVars
<1>4. ASSUME InitializeFails PROVE Copies'
    BY <1>4, <1>types, <1>fields, CountAssumption
    DEF InitializeFails, Copies, Counters, CopyOrder, FrameOrder, Carried,
        CopiesCarryTheFrame
<1>5. ASSUME AllocateHost PROVE Copies'
    BY <1>5, <1>same DEF AllocateHost, copyVars
<1>6. ASSUME NEW s \in ImportStage, ImportSource(s) PROVE Copies'
    BY <1>6, <1>same DEF ImportSource, copyVars, Imports
<1>7. ASSUME NEW s \in ImportStage, ImportDestination(s) PROVE Copies'
    BY <1>7, <1>same DEF ImportDestination, copyVars, Imports
<1>8. ASSUME WaitForExecutor PROVE Copies'
    BY <1>8, <1>types, <1>fields, CountAssumption
    DEF WaitForExecutor, MergedWait, Copies, Counters, CopyOrder, FrameOrder, Carried,
        CopiesCarryTheFrame
<1>9. ASSUME WaitFence PROVE Copies'
    BY <1>9, <1>types, <1>fields, CountAssumption
    DEF WaitFence, Copies, Counters, CopyOrder, FrameOrder, Carried, CopiesCarryTheFrame
<1>10. ASSUME CopyOut PROVE Copies'
    <2> DEFINE copy == [frame |-> frame, signal |-> mainSignal + 1, after |-> waitSemaphores]
    <2>1. /\ mainSignal' = mainSignal + 1 /\ mainCopies' = Append(mainCopies, copy)
          /\ waitSemaphores' = 0 /\ pc = "copyOut" /\ pc' = "bridge"
          /\ UNCHANGED <<mainReached, staged, frameVars, displayCopies, waitedExecutor, appVars>>
        BY <1>10 DEF CopyOut
    <2>2. Counters'
        BY <2>1 DEF Copies, Counters
    <2>3. /\ Len(mainCopies) \in Nat /\ Len(mainCopies') = Len(mainCopies) + 1
          /\ DOMAIN mainCopies' = 1 .. Len(mainCopies) + 1
          /\ DOMAIN mainCopies = 1 .. Len(mainCopies)
          /\ \A i \in DOMAIN mainCopies : mainCopies'[i] = mainCopies[i]
          /\ mainCopies'[Len(mainCopies) + 1] = copy
        BY <2>1, <1>types
    <2>4. CopyOrder'
        <3>1. ASSUME NEW i \in DOMAIN mainCopies'
              PROVE  /\ mainCopies'[i].signal = mainReached' + i
                     /\ staged'.frame <= mainCopies'[i].frame /\ mainCopies'[i].frame <= frame'
            <4>1. CASE i \in DOMAIN mainCopies
                BY <2>1, <2>3, <4>1 DEF Copies, CopyOrder
            <4>2. CASE i = Len(mainCopies) + 1
                <5>1. mainCopies'[i].signal = mainSignal + 1 /\ mainCopies'[i].frame = frame
                    BY <2>3, <4>2
                <5>2. staged.frame \in Nat /\ staged.frame <= frame /\ frame \in Nat
                    BY DEF Copies, Counters
                <5>3. mainSignal = mainReached + Len(mainCopies) /\ mainReached \in Nat
                    BY DEF Copies, Counters, CopyOrder
                <5> QED BY <2>1, <2>3, <4>2, <5>1, <5>2, <5>3
            <4> QED BY <2>3, <4>1, <4>2
        <3>2. ASSUME NEW i \in DOMAIN mainCopies', NEW j \in DOMAIN mainCopies', i < j
              PROVE  mainCopies'[i].frame <= mainCopies'[j].frame
            <4>1. i \in DOMAIN mainCopies
                BY <2>3, <3>2
            <4>2. CASE j \in DOMAIN mainCopies
                BY <2>3, <3>2, <4>1, <4>2 DEF Copies, CopyOrder
            <4>3. CASE j = Len(mainCopies) + 1
                BY <2>3, <4>1, <4>3 DEF Copies, CopyOrder
            <4> QED BY <2>3, <4>2, <4>3
        <3>3. mainSignal' = mainReached' + Len(mainCopies')
            BY <2>1, <2>3 DEF Copies, Counters, CopyOrder
        <3> QED BY <3>1, <3>2, <3>3 DEF CopyOrder
    <2>5. FrameOrder'
        <3>1. mainCopies' # <<>> /\ mainCopies'[Len(mainCopies')] = copy
            BY <2>3
        <3> QED BY <2>1, <3>1 DEF Copies, FrameOrder
    <2>6. CopiesCarryTheFrame'
        BY <2>1 DEF Copies, CopiesCarryTheFrame
    <2> QED BY <2>2, <2>4, <2>5, <2>6 DEF Copies
<1>11. ASSUME Bridge PROVE Copies'
    <2>1. /\ pc = "bridge" /\ pc' = "copyIn" /\ (~late' => ~(mainReached < mainSignal))
          /\ UNCHANGED <<mainVars, frame, currentFrame, displayCopies, waitedExecutor,
                         waitSemaphores, appVars>>
        BY <1>11 DEF Bridge, BridgeValue
    <2>2. Counters' /\ CopyOrder' /\ CopiesCarryTheFrame'
        BY <2>1 DEF Copies, Counters, CopyOrder, CopiesCarryTheFrame
    <2>3. ASSUME ~late' PROVE mainCopies = <<>>
        <3>1. Len(mainCopies) = 0
            BY <2>1, <2>3, <1>types DEF Copies, Counters, CopyOrder
        <3> QED BY <3>1, <1>types
    <2>4. FrameOrder'
        BY <2>1, <2>3 DEF Copies, FrameOrder, Carried
    <2> QED BY <2>2, <2>4 DEF Copies
<1>12. ASSUME CopyIn PROVE Copies'
    BY <1>12, <1>types, <1>fields, CountAssumption
    DEF CopyIn, Copies, Counters, CopyOrder, FrameOrder, Carried, CopiesCarryTheFrame
<1>13. ASSUME CopyNothing PROVE Copies'
    BY <1>13, <1>same DEF CopyNothing, copyVars
<1>14. ASSUME Destroy PROVE Copies'
    BY <1>14, <1>same DEF Destroy, copyVars, Destroys
<1>15. ASSUME DestroySource PROVE Copies'
    BY <1>15, <1>same DEF DestroySource, copyVars, Destroys
<1>16. ASSUME DestroyDestination PROVE Copies'
    BY <1>16, <1>same DEF DestroyDestination, copyVars, Destroys
<1>17. ASSUME FreeHost PROVE Copies'
    BY <1>17, <1>same DEF FreeHost, copyVars, Destroys
<1>18. ASSUME ExecuteMainCopy PROVE Copies'
    <2>1. /\ mainCopies # <<>> /\ mainCopies' = Tail(mainCopies)
          /\ completed >= Head(mainCopies).after
          /\ staged' = [frame |-> Head(mainCopies).frame, work |-> completed]
          /\ mainReached' = Head(mainCopies).signal
          /\ UNCHANGED <<pc, mainSignal, frameVars, displayCopies, waitedExecutor,
                         waitSemaphores, appVars>>
        BY <1>18 DEF ExecuteMainCopy
    <2>2. /\ Len(mainCopies) \in Nat \ {0} /\ Len(mainCopies') = Len(mainCopies) - 1
          /\ DOMAIN mainCopies = 1 .. Len(mainCopies)
          /\ DOMAIN mainCopies' = 1 .. Len(mainCopies) - 1
          /\ \A i \in DOMAIN mainCopies' : mainCopies'[i] = mainCopies[i + 1]
          /\ Head(mainCopies) = mainCopies[1]
        BY <2>1, <1>types
    <2>3. /\ mainReached' = mainReached + 1
          /\ staged'.frame = mainCopies[1].frame /\ staged'.work = completed
          /\ staged.frame <= staged'.frame /\ staged.work <= staged'.work
          /\ staged'.frame \in Nat /\ staged'.frame <= frame
        <3>1. /\ mainCopies[1].signal = mainReached + 1
              /\ staged.frame <= mainCopies[1].frame /\ mainCopies[1].frame <= frame
            BY <2>2 DEF Copies, CopyOrder
        <3>2. mainCopies[1].frame \in Nat
            BY <2>2, <1>types, <1>fields
        <3> QED BY <2>1, <2>2, <3>1, <3>2 DEF Copies, Counters
    <2>4. Counters'
        BY <2>1, <2>3 DEF Copies, Counters
    <2>5. CopyOrder'
        <3>1. \A i \in DOMAIN mainCopies' : i \in Nat /\ 1 < i + 1 /\ i + 1 \in DOMAIN mainCopies
            BY <2>2
        <3>2. 1 \in DOMAIN mainCopies
            BY <2>2
        <3>3. ASSUME NEW i \in DOMAIN mainCopies'
              PROVE  /\ mainCopies'[i].signal = mainReached' + i
                     /\ staged'.frame <= mainCopies'[i].frame /\ mainCopies'[i].frame <= frame'
            <4>1. mainCopies'[i] = mainCopies[i + 1] /\ i \in Nat /\ i + 1 \in DOMAIN mainCopies
                BY <2>2, <3>1
            <4>2. mainCopies[i + 1].signal = mainReached + (i + 1) /\ mainCopies[i + 1].frame <= frame
                BY <4>1 DEF Copies, CopyOrder
            <4>3. mainCopies[1].frame <= mainCopies[i + 1].frame
                BY <4>1, <3>1, <3>2 DEF Copies, CopyOrder
            <4>4. mainReached \in Nat
                BY DEF Copies, Counters
            <4> QED BY <2>1, <2>3, <4>1, <4>2, <4>3, <4>4
        <3>4. ASSUME NEW i \in DOMAIN mainCopies', NEW j \in DOMAIN mainCopies', i < j
              PROVE  mainCopies'[i].frame <= mainCopies'[j].frame
            BY <2>2, <3>1, <3>4 DEF Copies, CopyOrder
        <3>5. mainSignal' = mainReached' + Len(mainCopies')
            BY <2>1, <2>2, <2>3 DEF Copies, Counters, CopyOrder
        <3> QED BY <3>3, <3>4, <3>5 DEF CopyOrder
    <2>6. FrameOrder'
        <3>1. CASE pc = "bridge" /\ mainCopies' = <<>>
            <4>1. Len(mainCopies) = 1
                BY <2>2, <3>1
            <4> QED BY <2>1, <2>2, <2>3, <3>1, <4>1, <1>types, <1>fields
                    DEF Copies, Counters, FrameOrder, Carried
        <3>2. CASE pc = "bridge" /\ mainCopies' # <<>>
            <4>1. Len(mainCopies') \in DOMAIN mainCopies'
                BY <2>1, <2>2, <3>2, <1>types
            <4>2. mainCopies'[Len(mainCopies')] = mainCopies[Len(mainCopies)]
                BY <2>2, <4>1
            <4> QED BY <2>1, <3>2, <4>2 DEF Copies, FrameOrder
        <3>3. CASE pc # "bridge"
            BY <2>1, <2>3, <3>3 DEF Copies, Counters, FrameOrder, Carried
        <3> QED BY <3>1, <3>2, <3>3
    <2>7. CopiesCarryTheFrame'
        BY <2>1, <2>3, <1>types, <1>fields DEF Copies, Counters, CopiesCarryTheFrame
    <2> QED BY <2>4, <2>5, <2>6, <2>7 DEF Copies
<1>19. ASSUME ExecuteDisplayCopy PROVE Copies'
    BY <1>19, <1>types, <1>fields, CountAssumption
    DEF ExecuteDisplayCopy, Copies, Counters, CopyOrder, FrameOrder, Carried,
        CopiesCarryTheFrame
<1>20. ASSUME Application PROVE Copies'
    BY <1>20, <1>types, <1>fields, CountAssumption
    DEF Application, Copies, Counters, CopyOrder, FrameOrder, Carried,
        CopiesCarryTheFrame
<1>21. ASSUME UNCHANGED vars PROVE Copies'
    BY <1>21, <1>same DEF vars, copyVars
<1> QED BY <1>1, <1>2, <1>3, <1>4, <1>5, <1>6, <1>7, <1>8, <1>9, <1>10, <1>11, <1>12,
       <1>13, <1>14, <1>15, <1>16, <1>17, <1>18, <1>19, <1>20, <1>21 DEF Next

-----------------------------------------------------------------------------
(***************************************************************************)
(* The theorems                                                            *)
(***************************************************************************)

LEMMA Implied ==
    ASSUME IInv
    PROVE  HostMemoryOutlivesUse /\ NothingOrphaned
<1> USE DEF IInv
<1>1. srcStaging \in BOOLEAN /\ dstStaging \in BOOLEAN
    BY DEF Lifecycle
<1>2. ASSUME hostBufferPtr # "live"
      PROVE  ~srcStaging /\ ~dstStaging /\ mainCopies = <<>> /\ displayCopies = <<>>
    BY <1>2 DEF Lifecycle
<1>3. ASSUME hostBufferPtr # "live" PROVE \A o \in objects : o.kind # "memory"
    <2>1. {o \in objects : o.kind # "image"} = {}
        BY <1>2, <1>3 DEF Staging, Owned
    <2> QED BY <2>1
<1>4. HostMemoryOutlivesUse
    BY <1>2, <1>3 DEF HostMemoryOutlivesUse
<1>5. pc = "gone" => hostBufferPtr # "live" /\ ~srcStaging /\ ~dstStaging
    BY DEF Lifecycle
<1>6. NothingOrphaned
    BY <1>5 DEF NothingOrphaned, Staging
<1> QED BY <1>4, <1>6

\* The invariant holds in every behaviour of displayFrame across devices.
THEOREM Invariance == Spec => []IInv
<1>1. Init => IInv
    BY LifecycleInit, StagingInit, CopiesInit DEF IInv
<1>2. IInv /\ [Next]_vars => IInv'
    BY LifecycleStep, StagingStep, CopiesStep DEF IInv, Copies
<1> QED BY <1>1, <1>2, PTL DEF Spec

\* What the display device copies out of host memory is the frame it was submitted
\* for, with the work it waited for, unless the 5 s wait gave up.
THEOREM FramesCrossInOrder == Spec => []CopiesCarryTheFrame
<1>1. IInv => CopiesCarryTheFrame
    BY DEF IInv, Copies
<1> QED BY <1>1, Invariance, PTL

\* No buffer is bound to freed host memory and no copy uses it, whatever fails.
THEOREM HostMemoryIsThere == Spec => []HostMemoryOutlivesUse
BY Implied, Invariance, PTL

\* Whichever step of the set-up fails, the destructor reaches every buffer and
\* every memory.
THEOREM SetUpLeaksNothing == Spec => []NothingOrphaned
BY Implied, Invariance, PTL
=============================================================================
