------------------------- MODULE DisplayFrameProofs -------------------------
(***************************************************************************)
(* Proofs about DisplayFrame for any number of images, window sizes and    *)
(* bounds, when nothing fails but what a minimised window makes fail       *)
(* (Spec).  The invariant IndInv says when a frame's objects are unused    *)
(* (FenceInv), who has each image and where its signal is (ImageInv), when *)
(* the sync objects exist (LifeInv) and what a frame waits for (WaitInv).  *)
(***************************************************************************)
EXTENDS DisplayFrame, TLAPS

-----------------------------------------------------------------------------
\* The inductive invariant.

\* Neither a pending signal nor a submission uses the objects of frame f.
FrameUnused(f) ==
    /\ imageAvailable[f] = "unsignaled"
    /\ \A n \in DOMAIN blits : blits[n].frame # f

\* A signaled fence means that its frame is unused; the frame in progress has
\* reset its fence, and a frame has one submission at most.
FenceInv ==
    /\ \A m, n \in DOMAIN blits : blits[m].frame = blits[n].frame => m = n
    /\ \A f \in Frame : acquireFences[f] => FrameUnused(f)
    /\ pc \in {"acquire", "blit"} => ~acquireFences[currentFrame]
    /\ pc = "acquire" => FrameUnused(currentFrame)
    /\ pc = "blit" => \A n \in DOMAIN blits : blits[n].frame # currentFrame

\* Only the frame in progress has an acquired image; a renderFinished semaphore is
\* signaled between the blit of its image and the present.
ImageInv ==
    /\ \A m, n \in DOMAIN blits : blits[m].image = blits[n].image => m = n
    /\ \A n \in DOMAIN blits : imageState[blits[n].image] \in {"acquired", "queued"}
    /\ pc \in {"blit", "present"} => imageIndex \in Image
    /\ \A i \in Image :
          imageState[i] = "acquired" <=> pc \in {"blit", "present"} /\ i = imageIndex
    /\ \A i \in Image : i \in presents <=> imageState[i] = "queued"
    /\ pc = "blit" => \A n \in DOMAIN blits : blits[n].image # imageIndex
    /\ \A i \in Image : renderFinished[i] # "pending"
    /\ \A i \in Image : renderFinished[i] = "signaled" =>
          /\ i \in presents \/ (pc = "present" /\ i = imageIndex)
          /\ \A n \in DOMAIN blits : blits[n].image # i

\* Nothing is in flight before the first initialisation.  Sync objects are missing
\* only while displaySize is 0, which no size of a shown window equals.
LifeInv ==
    /\ ~initialized => pc \in {"idle", "init", "gone"} /\ blits = <<>> /\ presents = {}
    /\ pc = "init" => ~initialized
    /\ pc \in {"fence", "acquire", "outOfDate", "blit", "present"} => hasSyncObjects
    /\ pc # "gone" /\ ~hasSyncObjects => displaySize = 0

\* What a frame will wait for covers the executor given to displayer.wait.
WaitInv ==
    /\ \A n \in DOMAIN blits : blits[n].after >= blits[n].waited
    /\ pc \in {"resize", "fence", "acquire", "blit"} => waitSemaphores >= waitedExecutor

IndInv == TypeOK /\ FenceInv /\ ImageInv /\ LifeInv /\ WaitInv

-----------------------------------------------------------------------------
\* Facts about the queue of blits and the steps.

\* The steps after which no blit, image or semaphore has changed.
Quiet ==
    \/ WaitExecutor \/ DisplayFrame \/ CheckSize \/ OutOfDate
    \/ (\E size \in Extent \cup {0} : Resize(size)) \/ ProducerCommit \/ ProducerComplete
    \/ UNCHANGED vars

LEMMA Steps ==
    ASSUME [Normal]_vars
    PROVE  \/ Quiet \/ Destroy \/ RecreateMinimised \/ Initialize \/ Recreate \/ WaitFence
           \/ (\E i \in Image : Acquire(i)) \/ SubmitBlit \/ Present
           \/ (\E f \in Frame : SignalAvailable(f)) \/ CompleteBlit
           \/ (\E i \in Image : ExecutePresent(i)) \/ (\E i \in Image : ReleaseImage(i))
BY DEF Normal, Call, FrameStep, DeviceStep, Environment, Quiet

LEMMA Submitted ==
    ASSUME TypeOK, SubmitBlit, imageIndex \in Image
    PROVE  LET job == [frame |-> currentFrame, image |-> imageIndex,
                       after |-> waitSemaphores, waited |-> waitedExecutor]
           IN  /\ job \in Blit
               /\ blits' \in Seq(Blit)
               /\ DOMAIN blits' = DOMAIN blits \cup {Len(blits) + 1}
               /\ DOMAIN blits = 1..Len(blits) /\ Len(blits) \in Nat
               /\ \A n \in DOMAIN blits : blits'[n] = blits[n]
               /\ blits'[Len(blits) + 1] = job
<1> DEFINE job == [frame |-> currentFrame, image |-> imageIndex,
                   after |-> waitSemaphores, waited |-> waitedExecutor]
<1>1. job \in Blit
  BY DEF TypeOK, Blit
<1>2. blits' = Append(blits, job) /\ blits \in Seq(Blit)
  BY DEF SubmitBlit, TypeOK
<1> HIDE DEF job
<1>3. /\ blits' \in Seq(Blit)
      /\ DOMAIN blits' = DOMAIN blits \cup {Len(blits) + 1}
      /\ DOMAIN blits = 1..Len(blits) /\ Len(blits) \in Nat
      /\ \A n \in DOMAIN blits : blits'[n] = blits[n]
      /\ blits'[Len(blits) + 1] = job
  BY <1>1, <1>2
<1> QED
  BY <1>1, <1>3 DEF job

LEMMA Completed ==
    ASSUME TypeOK, CompleteBlit
    PROVE  /\ Head(blits) = blits[1] /\ 1 \in DOMAIN blits /\ blits[1] \in Blit
           /\ blits' \in Seq(Blit)
           /\ \A n \in DOMAIN blits' :
                 n \in Nat /\ n + 1 \in DOMAIN blits /\ blits'[n] = blits[n + 1] /\ n + 1 # 1
<1>1. blits \in Seq(Blit) /\ blits # <<>> /\ blits' = Tail(blits)
  BY DEF TypeOK, CompleteBlit
<1> QED
  BY <1>1

LEMMA InFlightTypes ==
    TypeOK => \A n \in DOMAIN blits : blits[n].frame \in Frame /\ blits[n].image \in Image
<1> SUFFICES ASSUME TypeOK, NEW n \in DOMAIN blits
             PROVE  blits[n].frame \in Frame /\ blits[n].image \in Image
  OBVIOUS
<1>1. blits[n] \in Blit
  BY DEF TypeOK
<1> QED
  BY <1>1 DEF Blit

-----------------------------------------------------------------------------
\* Type correctness.

LEMMA TypeInit == Init => TypeOK
BY ImageAssumption DEF Init, TypeOK, PcState, Frame, Image, SemaphoreState, ImageState

LEMMA FreshTypes ==
    ASSUME FreshSyncObjects
    PROVE  /\ hasSyncObjects' \in BOOLEAN
           /\ acquireFences' \in [Frame -> BOOLEAN]
           /\ imageAvailable' \in [Frame -> SemaphoreState]
           /\ renderFinished' \in [Image -> SemaphoreState]
           /\ imageState' \in [Image -> ImageState]
BY DEF FreshSyncObjects, InitialFence, SemaphoreState, ImageState

LEMMA NextFrameType == currentFrame \in Frame => NextFrame(currentFrame) \in Frame
BY ImageAssumption DEF Frame, NextFrame

LEMMA TypeStep == ASSUME IndInv, [Normal]_vars PROVE TypeOK'
<1> USE DEF TypeOK, syncVars, engineVars, waitVars, appVars, sizeVars
<1>t. TypeOK
  BY DEF IndInv
<1>1. CASE Quiet
  BY <1>t, <1>1 DEF Quiet, WaitExecutor, DisplayFrame, CheckSize, OutOfDate, Resize,
     ProducerCommit, ProducerComplete, vars, PcState, MergedWait
<1>2. CASE Destroy
  BY <1>t, <1>2 DEF Destroy, PcState
<1>3. CASE RecreateMinimised
  BY <1>t, <1>3 DEF RecreateMinimised, RecreateThrows, SizeWhenFailed, Throw, PcState
<1>4. CASE Initialize
  <2>1. 0 \in Frame
    BY ImageAssumption DEF Frame
  <2>2. CASE window # 0
    BY <1>t, <1>4, <2>2, FreshTypes DEF Initialize, PcState
  <2>3. CASE window = 0
    BY <1>t, <1>4, <2>1, <2>3 DEF Initialize, PcState
  <2> QED
    BY <2>2, <2>3
<1>5. CASE Recreate
  BY <1>t, <1>5, FreshTypes DEF Recreate, PcState
<1>6. CASE WaitFence
  BY <1>t, <1>6 DEF WaitFence, PcState
<1>7. ASSUME NEW i \in Image, Acquire(i) PROVE TypeOK'
  BY <1>t, <1>7 DEF Acquire, PcState, ImageState, SemaphoreState
<1>8. CASE SubmitBlit
  <2>1. imageIndex \in Image
    BY <1>8 DEF IndInv, ImageInv, SubmitBlit
  <2>2. blits' \in Seq(Blit)
    BY <1>t, <1>8, <2>1, Submitted
  <2> QED
    BY <1>t, <1>8, <2>2 DEF SubmitBlit, PcState
<1>9. CASE Present
  <2>1. imageIndex \in Image
    BY <1>9 DEF IndInv, ImageInv, Present
  <2> QED
    BY <1>t, <1>9, <2>1, NextFrameType DEF Present, PcState, ImageState
<1>10. ASSUME NEW f \in Frame, SignalAvailable(f) PROVE TypeOK'
  BY <1>t, <1>10 DEF SignalAvailable, SemaphoreState
<1>11. CASE CompleteBlit
  BY <1>t, <1>11, Completed DEF CompleteBlit, SemaphoreState, FinishedOf, Blit
<1>12. ASSUME NEW i \in Image, ExecutePresent(i) \/ ReleaseImage(i) PROVE TypeOK'
  BY <1>t, <1>12 DEF ExecutePresent, ReleaseImage, SemaphoreState, ImageState, FinishedOf
<1> QED
  BY <1>1, <1>2, <1>3, <1>4, <1>5, <1>6, <1>7, <1>8, <1>9, <1>10, <1>11, <1>12, Steps

-----------------------------------------------------------------------------
\* Fences and frames.

LEMMA FenceStep == ASSUME IndInv, [Normal]_vars PROVE FenceInv'
<1> USE DEF FenceInv, FrameUnused
<1>t. TypeOK /\ FenceInv /\ (pc = "init" => blits = <<>>)
  BY DEF IndInv, LifeInv
<1>1. CASE Quiet
  BY <1>t, <1>1 DEF Quiet, WaitExecutor, DisplayFrame, CheckSize, OutOfDate, Resize,
     ProducerCommit, ProducerComplete, vars, syncVars
<1>2. CASE Destroy
  BY <1>t, <1>2 DEF Destroy
<1>3. CASE RecreateMinimised
  BY <1>t, <1>3 DEF RecreateMinimised, RecreateThrows, Throw
<1>4. CASE Initialize
  <2>1. CASE window # 0
    BY <1>t, <1>4, <2>1 DEF Initialize, FreshSyncObjects
  <2>2. CASE window = 0
    BY <1>t, <1>4, <2>2 DEF Initialize, syncVars
  <2> QED
    BY <2>1, <2>2
<1>5. CASE Recreate
  BY <1>t, <1>5 DEF Recreate, FreshSyncObjects, DeviceIdle
<1>6. CASE WaitFence
  BY <1>t, <1>6 DEF WaitFence, FenceSignaled, TypeOK
<1>7. ASSUME NEW i \in Image, Acquire(i) PROVE FenceInv'
  BY <1>t, <1>7 DEF Acquire, TypeOK
<1>8. CASE SubmitBlit
  <2>1. imageIndex \in Image
    BY <1>8 DEF IndInv, ImageInv, SubmitBlit
  <2>2. /\ DOMAIN blits' = DOMAIN blits \cup {Len(blits) + 1}
        /\ \A n \in DOMAIN blits : blits'[n] = blits[n]
        /\ blits'[Len(blits) + 1].frame = currentFrame
    BY <1>t, <1>8, <2>1, Submitted
  <2> QED
    BY <1>t, <1>8, <2>2 DEF SubmitBlit, syncVars
<1>9. CASE Present
  BY <1>t, <1>9 DEF Present, syncVars
<1>10. ASSUME NEW f \in Frame, SignalAvailable(f) PROVE FenceInv'
  BY <1>t, <1>10 DEF SignalAvailable, TypeOK
<1>11. CASE CompleteBlit
  <2>1. /\ 1 \in DOMAIN blits /\ Head(blits) = blits[1] /\ blits[1].frame \in Frame
        /\ \A n \in DOMAIN blits' :
              n \in Nat /\ n + 1 \in DOMAIN blits /\ blits'[n] = blits[n + 1] /\ n + 1 # 1
    BY <1>t, <1>11, Completed DEF Blit
  <2>2. /\ \A n \in DOMAIN blits' : blits'[n].frame # blits[1].frame
        /\ \A m, n \in DOMAIN blits' : blits'[m].frame = blits'[n].frame => m = n
    BY <1>t, <2>1
  <2>3. /\ acquireFences' = [acquireFences EXCEPT ![blits[1].frame] = TRUE]
        /\ imageAvailable' = [imageAvailable EXCEPT ![blits[1].frame] = "unsignaled"]
        /\ UNCHANGED <<pc, currentFrame>>
    BY <1>11, <2>1 DEF CompleteBlit
  <2>4. \A f \in Frame : acquireFences'[f] => FrameUnused(f)'
    BY <1>t, <2>1, <2>2, <2>3 DEF TypeOK
  <2>5. /\ pc = "acquire" => FrameUnused(currentFrame)'
        /\ pc = "blit" => \A n \in DOMAIN blits' : blits'[n].frame # currentFrame
    BY <1>t, <2>1, <2>2, <2>3 DEF TypeOK
  <2>6. pc \in {"acquire", "blit"} => ~acquireFences'[currentFrame]
    BY <1>t, <2>1, <2>3 DEF TypeOK
  <2> QED
    BY <2>2, <2>3, <2>4, <2>5, <2>6
<1>12. ASSUME NEW i \in Image, ExecutePresent(i) \/ ReleaseImage(i) PROVE FenceInv'
  BY <1>t, <1>12 DEF ExecutePresent, ReleaseImage, syncVars
<1> QED
  BY <1>1, <1>2, <1>3, <1>4, <1>5, <1>6, <1>7, <1>8, <1>9, <1>10, <1>11, <1>12, Steps

-----------------------------------------------------------------------------
\* Images and their semaphores.

LEMMA ImageStep == ASSUME IndInv, [Normal]_vars PROVE ImageInv'
<1> USE DEF ImageInv, engineVars
<1>t. TypeOK /\ ImageInv /\ (pc = "init" => blits = <<>> /\ presents = {})
  BY DEF IndInv, LifeInv
<1>b. \A n \in DOMAIN blits : blits[n].image \in Image
  BY <1>t, InFlightTypes
<1>1. CASE Quiet
  BY <1>t, <1>1 DEF Quiet, WaitExecutor, DisplayFrame, CheckSize, OutOfDate, Resize,
     ProducerCommit, ProducerComplete, vars, syncVars
<1>2. CASE Destroy
  BY <1>t, <1>2 DEF Destroy
<1>3. CASE RecreateMinimised
  BY <1>t, <1>3 DEF RecreateMinimised, RecreateThrows, Throw
<1>4. CASE Initialize
  <2>1. CASE window # 0
    BY <1>t, <1>4, <2>1 DEF Initialize, FreshSyncObjects
  <2>2. CASE window = 0
    BY <1>t, <1>4, <2>2 DEF Initialize, syncVars
  <2> QED
    BY <2>1, <2>2
<1>5. CASE Recreate
  BY <1>t, <1>5 DEF Recreate, FreshSyncObjects, DeviceIdle
<1>6. CASE WaitFence
  BY <1>t, <1>6 DEF WaitFence
<1>7. ASSUME NEW i \in Image, Acquire(i) PROVE ImageInv'
  <2>1. \A n \in DOMAIN blits : blits[n].image # i
    BY <1>t, <1>7 DEF Acquire
  <2> QED
    BY <1>t, <1>b, <1>7, <2>1 DEF Acquire, TypeOK
<1>8. CASE SubmitBlit
  <2>1. imageIndex \in Image /\ imageState[imageIndex] = "acquired"
    BY <1>t, <1>8 DEF SubmitBlit
  <2>2. /\ DOMAIN blits' = DOMAIN blits \cup {Len(blits) + 1}
        /\ \A n \in DOMAIN blits : blits'[n] = blits[n]
        /\ blits'[Len(blits) + 1].image = imageIndex
    BY <1>t, <1>8, <2>1, Submitted
  <2>3. renderFinished[imageIndex] # "signaled"
    BY <1>t, <1>8, <2>1 DEF SubmitBlit
  <2> QED
    BY <1>t, <1>8, <2>1, <2>2, <2>3 DEF SubmitBlit, syncVars
<1>9. CASE Present
  BY <1>t, <1>b, <1>9 DEF Present, syncVars, TypeOK
<1>10. ASSUME NEW f \in Frame, SignalAvailable(f) PROVE ImageInv'
  BY <1>t, <1>10 DEF SignalAvailable
<1>11. CASE CompleteBlit
  <2>1. /\ 1 \in DOMAIN blits /\ Head(blits) = blits[1] /\ blits[1].image \in Image
        /\ \A n \in DOMAIN blits' :
              n \in Nat /\ n + 1 \in DOMAIN blits /\ blits'[n] = blits[n + 1] /\ n + 1 # 1
    BY <1>t, <1>11, Completed DEF Blit
  <2>2. /\ \A n \in DOMAIN blits' : blits'[n].image # blits[1].image
        /\ \A m, n \in DOMAIN blits' : blits'[m].image = blits'[n].image => m = n
        /\ \A n \in DOMAIN blits' : imageState[blits'[n].image] \in {"acquired", "queued"}
        /\ pc = "blit" => \A n \in DOMAIN blits' : blits'[n].image # imageIndex
    BY <1>t, <2>1
  <2>3. /\ renderFinished' = [renderFinished EXCEPT ![blits[1].image] = "signaled"]
        /\ UNCHANGED <<pc, imageIndex, imageState, presents>>
    BY <1>11, <2>1 DEF CompleteBlit, FinishedOf
  <2>4. blits[1].image \in presents \/ (pc = "present" /\ blits[1].image = imageIndex)
    BY <1>t, <2>1
  <2>5. \A i \in Image : renderFinished'[i] = "signaled" =>
           /\ i \in presents \/ (pc = "present" /\ i = imageIndex)
           /\ \A n \in DOMAIN blits' : blits'[n].image # i
    BY <1>t, <2>1, <2>2, <2>3, <2>4 DEF TypeOK
  <2>6. \A i \in Image : renderFinished'[i] # "pending"
    BY <1>t, <2>3 DEF TypeOK
  <2> QED
    BY <1>t, <2>2, <2>3, <2>5, <2>6
<1>12. ASSUME NEW i \in Image, ExecutePresent(i) PROVE ImageInv'
  <2>1. \A n \in DOMAIN blits : blits[n].image # i
    BY <1>t, <1>12 DEF ExecutePresent, PresentReady, FinishedOf
  <2> QED
    BY <1>t, <1>b, <1>12, <2>1 DEF ExecutePresent, FinishedOf, TypeOK
<1>13. ASSUME NEW i \in Image, ReleaseImage(i) PROVE ImageInv'
  <2>1. \A n \in DOMAIN blits : blits[n].image # i
    BY <1>t, <1>13 DEF ReleaseImage
  <2> QED
    BY <1>t, <1>b, <1>13, <2>1 DEF ReleaseImage, syncVars, TypeOK
<1> QED
  BY <1>1, <1>2, <1>3, <1>4, <1>5, <1>6, <1>7, <1>8, <1>9, <1>10, <1>11, <1>12, <1>13, Steps

-----------------------------------------------------------------------------
\* The life of the sync objects.

LEMMA LifeStep == ASSUME IndInv, [Normal]_vars PROVE LifeInv'
<1> USE DEF LifeInv, engineVars, syncVars, sizeVars
<1>t. TypeOK /\ LifeInv
  BY DEF IndInv
<1>1. CASE Quiet
  <2>1. CASE CheckSize
    BY <1>t, <2>1 DEF CheckSize, NeedsRecreation
  <2>2. CASE ~CheckSize
    BY <1>t, <1>1, <2>2 DEF Quiet, WaitExecutor, DisplayFrame, OutOfDate, Resize,
       ProducerCommit, ProducerComplete, vars
  <2> QED
    BY <2>1, <2>2
<1>2. CASE Destroy
  BY <1>t, <1>2 DEF Destroy
<1>3. CASE RecreateMinimised
  BY <1>t, <1>3 DEF RecreateMinimised, RecreateThrows, Throw, SizeWhenFailed
<1>4. CASE Initialize
  <2>1. CASE window # 0
    BY <1>t, <1>4, <2>1 DEF Initialize, FreshSyncObjects
  <2>2. CASE window = 0
    BY <1>t, <1>4, <2>2 DEF Initialize
  <2> QED
    BY <2>1, <2>2
<1>5. CASE Recreate
  BY <1>t, <1>5 DEF Recreate, FreshSyncObjects
<1>6. CASE WaitFence
  BY <1>t, <1>6 DEF WaitFence
<1>7. ASSUME NEW i \in Image, Acquire(i) PROVE LifeInv'
  BY <1>t, <1>7 DEF Acquire
<1>8. CASE SubmitBlit
  BY <1>t, <1>8 DEF SubmitBlit
<1>9. CASE Present
  BY <1>t, <1>9 DEF Present
<1>10. ASSUME NEW f \in Frame, SignalAvailable(f) PROVE LifeInv'
  BY <1>t, <1>10 DEF SignalAvailable
<1>11. CASE CompleteBlit
  BY <1>t, <1>11 DEF CompleteBlit
<1>12. ASSUME NEW i \in Image, ExecutePresent(i) \/ ReleaseImage(i) PROVE LifeInv'
  BY <1>t, <1>12 DEF ExecutePresent, ReleaseImage
<1> QED
  BY <1>1, <1>2, <1>3, <1>4, <1>5, <1>6, <1>7, <1>8, <1>9, <1>10, <1>11, <1>12, Steps

-----------------------------------------------------------------------------
\* What a frame waits for.

LEMMA WaitStep == ASSUME IndInv, [Normal]_vars PROVE WaitInv'
<1> USE DEF WaitInv, waitVars
<1>t. TypeOK /\ WaitInv
  BY DEF IndInv
<1>1. CASE Quiet
  <2>1. CASE CheckSize
    BY <1>t, <2>1 DEF CheckSize, MergedWait, TypeOK
  <2>2. CASE ~CheckSize
    BY <1>t, <1>1, <2>2 DEF Quiet, WaitExecutor, DisplayFrame, OutOfDate, Resize,
       ProducerCommit, ProducerComplete, vars
  <2> QED
    BY <2>1, <2>2
<1>2. CASE Destroy
  BY <1>t, <1>2 DEF Destroy
<1>3. CASE RecreateMinimised
  BY <1>t, <1>3 DEF RecreateMinimised, RecreateThrows, Throw
<1>4. CASE Initialize
  BY <1>t, <1>4 DEF Initialize
<1>5. CASE Recreate
  BY <1>t, <1>5 DEF Recreate
<1>6. CASE WaitFence
  BY <1>t, <1>6 DEF WaitFence
<1>7. ASSUME NEW i \in Image, Acquire(i) PROVE WaitInv'
  BY <1>t, <1>7 DEF Acquire
<1>8. CASE SubmitBlit
  <2>1. imageIndex \in Image
    BY <1>8 DEF IndInv, ImageInv, SubmitBlit
  <2>2. /\ DOMAIN blits' = DOMAIN blits \cup {Len(blits) + 1}
        /\ \A n \in DOMAIN blits : blits'[n] = blits[n]
        /\ blits'[Len(blits) + 1].after = waitSemaphores
        /\ blits'[Len(blits) + 1].waited = waitedExecutor
    BY <1>t, <1>8, <2>1, Submitted
  <2> QED
    BY <1>t, <1>8, <2>2 DEF SubmitBlit
<1>9. CASE Present
  BY <1>t, <1>9 DEF Present
<1>10. ASSUME NEW f \in Frame, SignalAvailable(f) PROVE WaitInv'
  BY <1>t, <1>10 DEF SignalAvailable
<1>11. CASE CompleteBlit
  BY <1>t, <1>11, Completed DEF CompleteBlit
<1>12. ASSUME NEW i \in Image, ExecutePresent(i) \/ ReleaseImage(i) PROVE WaitInv'
  BY <1>t, <1>12 DEF ExecutePresent, ReleaseImage
<1> QED
  BY <1>1, <1>2, <1>3, <1>4, <1>5, <1>6, <1>7, <1>8, <1>9, <1>10, <1>11, <1>12, Steps

-----------------------------------------------------------------------------
\* The theorems.

LEMMA InitInv == Init => IndInv
<1> SUFFICES ASSUME Init PROVE IndInv
  OBVIOUS
<1>1. TypeOK
  BY TypeInit
<1>2. FenceInv
  BY DEF Init, FenceInv
<1>3. ImageInv
  BY DEF Init, ImageInv
<1>4. LifeInv /\ WaitInv
  BY DEF Init, LifeInv, WaitInv
<1> QED
  BY <1>1, <1>2, <1>3, <1>4 DEF IndInv

\* IndInv holds whatever the number of images, the sizes of the window and the bounds,
\* in every order of displayFrame, the GPU, the presentation engine and the window.
THEOREM Invariance == Spec => []IndInv
<1>1. IndInv /\ [Normal]_vars => IndInv'
  BY TypeStep, FenceStep, ImageStep, LifeStep, WaitStep DEF IndInv
<1> QED
  BY InitInv, <1>1, PTL DEF Spec

\* Every variable of displayFrame keeps its type.
THEOREM TypeCorrect == Spec => []TypeOK
<1>1. IndInv => TypeOK
  BY DEF IndInv
<1> QED
  BY Invariance, <1>1, PTL

\* vkAcquireNextImageKHR gets a semaphore that is unsignaled and that no submission
\* still waits for.
THEOREM AcquireSemaphoreIsFree == Spec => []AcquireSemaphoreFree
<1>1. IndInv => AcquireSemaphoreFree
  BY DEF IndInv, FenceInv, FrameUnused, AcquireSemaphoreFree, InFlight
<1> QED
  BY Invariance, <1>1, PTL

\* The blit of an image signals a renderFinished semaphore that holds no signal.
THEOREM FinishedSemaphoreIsFree == Spec => []FinishedSemaphoreFree
<1>1. ASSUME IndInv PROVE FinishedSemaphoreFree
  <2> SUFFICES ASSUME blits # <<>>
               PROVE  renderFinished[FinishedOf(Head(blits).image)] = "unsignaled"
    BY DEF FinishedSemaphoreFree
  <2>1. 1 \in DOMAIN blits /\ Head(blits) = blits[1]
    BY <1>1 DEF IndInv, TypeOK
  <2>2. blits[1].image \in Image
    BY <1>1, <2>1, InFlightTypes DEF IndInv
  <2>3. renderFinished[blits[1].image] \in SemaphoreState \ {"pending", "signaled"}
    BY <1>1, <2>1, <2>2 DEF IndInv, TypeOK, ImageInv
  <2> QED
    BY <2>1, <2>3 DEF FinishedOf, SemaphoreState
<1> QED
  BY Invariance, <1>1, PTL

\* The presentation engine never has back an image that a blit in flight writes.
THEOREM BlitsOwnImages == Spec => []BlitsOwnTheirImages
<1>1. IndInv => BlitsOwnTheirImages
  BY DEF IndInv, ImageInv, BlitsOwnTheirImages, InFlight
<1> QED
  BY Invariance, <1>1, PTL

\* A frame blits only after what the executor given to displayer.wait had submitted.
THEOREM FramesShowFinishedWork == Spec => []ShowsFinishedWork
<1>1. IndInv => ShowsFinishedWork
  BY DEF IndInv, WaitInv, ShowsFinishedWork, InFlight
<1> QED
  BY Invariance, <1>1, PTL

\* A frame that reaches its fence finds the sync objects in place, whatever minimised
\* windows did to earlier frames.
THEOREM SyncObjectsAreThere == Spec => []SyncObjectsExist
<1>1. IndInv => SyncObjectsExist
  BY DEF IndInv, LifeInv, SyncObjectsExist
<1> QED
  BY Invariance, <1>1, PTL
=============================================================================
