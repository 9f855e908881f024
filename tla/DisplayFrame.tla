---------------------------- MODULE DisplayFrame ----------------------------
(***************************************************************************)
(* DisplayManager::displayFrame: one window, its swapchain, and the sync   *)
(* objects of its frames.  A frame waits for its fence, acquires an image, *)
(* submits a blit that waits for the acquire and for the executor given to *)
(* displayer.wait, presents the image and advances currentFrame.           *)
(*                                                                         *)
(* One thread calls one displayer, another commits to the executor it waits*)
(* for; the GPU, the presentation engine and the window run on their own.  *)
(* The display device is the main device.  Submissions are those of        *)
(* ExecutorSubmit: the blits of a device complete in order (Implements     *)
(* there) and picking a queue ends (CommitReturns there).  The presentation*)
(* engine is external.                                                     *)
(***************************************************************************)
EXTENDS Integers, Sequences

CONSTANTS
    ImageCount,     \* images the driver gives every swapchain
    Extent,         \* sizes the window may have, other than minimised
    None,
    MaxFrames,      \* bound: displayFrame calls
    MaxResizes,     \* bound: changes of the window
    MaxCommits,     \* bound: submissions of the executor waited for
    MaxFailures     \* bound: faults injected

ASSUME ImageAssumption == ImageCount \in Nat /\ ImageCount >= 2
ASSUME ExtentAssumption == Extent \subseteq Nat \ {0} /\ None \notin Nat
ASSUME BoundAssumption ==
    {MaxFrames, MaxResizes, MaxCommits, MaxFailures} \subseteq Nat

VARIABLES
    pc,
    window,             \* the surface's current extent
    initialized,        \* displaySurface is the surface of the window
    displaySize,        \* the extent createSwapChain last read
    hasSyncObjects,     \* the three vectors are not empty
    currentFrame,
    acquireFences,      \* frame -> signaled
    imageAvailable,     \* frame -> state of its semaphore
    renderFinished,     \* image -> state of its semaphore
    imageIndex,         \* the image acquired by the frame in progress
    imageState,         \* image -> who has it
    front,              \* the image presented last
    blits,              \* blits submitted and not completed
    presents,           \* images with a present that has not executed
    waitedExecutor,     \* lastSignalValue of the copied executor, 0 for none
    waitSemaphores,     \* the value displayDeviceExecutor will wait for
    produced,           \* lastSignalValue of the application's executor
    completed,          \* the value the GPU has reached for it
    calls, resizes, failures

syncVars   == <<hasSyncObjects, acquireFences, imageAvailable, renderFinished>>
engineVars == <<imageState, front, presents>>
waitVars   == <<waitedExecutor, waitSemaphores>>
appVars    == <<produced, completed>>
sizeVars   == <<window, displaySize>>
vars == <<pc, sizeVars, initialized, syncVars, currentFrame, imageIndex, engineVars,
          blits, waitVars, appVars, calls, resizes, failures>>

Frame == 0..(ImageCount - 1)
Image == 0..(ImageCount - 1)

\* A binary semaphore: a signal may be on its way.
SemaphoreState == {"unsignaled", "pending", "signaled"}

ImageState == {"free", "acquired", "queued", "shown"}

\* after is what the submission waits for; waited what displayer.wait had copied.
Blit == [frame : Frame, image : Image, after : Nat, waited : Nat]

PcState == {"idle", "init", "size", "resize", "fence", "acquire", "outOfDate", "blit",
            "present", "gone"}

-----------------------------------------------------------------------------
\* Helpers.

\* Mutant: fences that the first frames would wait for.
UnsignaledFence == FALSE

\* createSyncObjects: fences start signaled.
InitialFence == TRUE

FreshSyncObjects ==
    /\ hasSyncObjects' = TRUE
    /\ acquireFences' = [f \in Frame |-> InitialFence]
    /\ imageAvailable' = [f \in Frame |-> "unsignaled"]
    /\ renderFinished' = [i \in Image |-> "unsignaled"]
    /\ imageState' = [i \in Image |-> "free"]

\* Mutant: the size is stored once the swapchain exists.
OldSize == displaySize

\* createSwapChain stores the size before anything can fail.
SizeWhenFailed == window

\* Mutant: the first wait is kept.
KeepsFirstWait(old, new) == IF old = 0 THEN new ELSE old

\* wait(other) appends; the merge before the submission keeps the largest value.
MergedWait(old, new) == IF old < new THEN new ELSE old

NeedsRecreation(newSize) == newSize # displaySize

\* Mutant: the fence is reset without being waited for.
NoFenceWait == TRUE

\* vkWaitForFences, without a timeout, returns.
FenceSignaled == acquireFences[currentFrame]

\* Mutant: one renderFinished semaphore for all images.
OneFinished(image) == 0

\* The renderFinished semaphore between the blit and the present of an image.
FinishedOf(image) == image

NextFrame(frame) == (frame + 1) % ImageCount

\* Mutant: presents without a wait semaphore.
PresentsAtOnce(image) == TRUE

\* A present executes once its wait semaphore is signaled.
PresentReady(image) == renderFinished[FinishedOf(image)] = "signaled"

BlitReady(job) ==
    imageAvailable[job.frame] = "signaled" /\ completed >= job.after

\* vkDeviceWaitIdle returns.
DeviceIdle == blits = <<>> /\ presents = {}

InFlight == {blits[n] : n \in DOMAIN blits}

Throw == pc' = "idle"

-----------------------------------------------------------------------------
Init ==
    /\ pc = "idle"
    /\ window \in Extent
    /\ initialized = FALSE
    /\ displaySize = 0
    /\ hasSyncObjects = FALSE
    /\ currentFrame = 0
    /\ acquireFences = [f \in Frame |-> FALSE]
    /\ imageAvailable = [f \in Frame |-> "unsignaled"]
    /\ renderFinished = [i \in Image |-> "unsignaled"]
    /\ imageIndex = None
    /\ imageState = [i \in Image |-> "free"]
    /\ front = None
    /\ blits = <<>>
    /\ presents = {}
    /\ waitedExecutor = 0 /\ waitSemaphores = 0
    /\ produced = 0 /\ completed = 0
    /\ calls = 0 /\ resizes = 0 /\ failures = 0

-----------------------------------------------------------------------------
\* Calls on the displayer.

\* displayer.wait(executor) copies the executor.
WaitExecutor ==
    /\ pc = "idle"
    /\ waitedExecutor # produced
    /\ waitedExecutor' = produced
    /\ UNCHANGED <<pc, sizeVars, initialized, syncVars, currentFrame, imageIndex,
                   engineVars, blits, waitSemaphores, appVars, calls, resizes, failures>>

\* displayer << image.
DisplayFrame ==
    /\ pc = "idle" /\ calls < MaxFrames
    /\ calls' = calls + 1
    /\ pc' = IF initialized THEN "size" ELSE "init"
    /\ UNCHANGED <<sizeVars, initialized, syncVars, currentFrame, imageIndex,
                   engineVars, blits, waitVars, appVars, resizes, failures>>

\* The destructor waits for the device, then destroys everything.
Destroy ==
    /\ pc = "idle" /\ DeviceIdle
    /\ pc' = "gone"
    /\ hasSyncObjects' = FALSE
    /\ UNCHANGED <<sizeVars, initialized, acquireFences, imageAvailable, renderFinished,
                   currentFrame, imageIndex, engineVars, blits, waitVars, appVars,
                   calls, resizes, failures>>

-----------------------------------------------------------------------------
\* The steps of displayFrame.

\* initDisplayManager.  A failure cleans up, and forgets the executor waited for.
Initialize ==
    /\ pc = "init"
    /\ \/ /\ window # 0
          /\ initialized' = TRUE
          /\ displaySize' = window
          /\ FreshSyncObjects
          /\ pc' = "size"
          /\ UNCHANGED <<currentFrame, waitVars>>
       \/ /\ window = 0
          /\ displaySize' = 0
          /\ waitedExecutor' = 0 /\ waitSemaphores' = 0
          /\ currentFrame' = 0
          /\ pc' = "idle"
          /\ UNCHANGED <<initialized, syncVars, imageState>>
    /\ UNCHANGED <<window, imageIndex, front, presents, blits, appVars, calls, resizes,
                   failures>>

\* The wait for the executor, then the window's size.
CheckSize ==
    /\ pc = "size"
    /\ waitSemaphores' = MergedWait(waitSemaphores, waitedExecutor)
    /\ pc' = IF window = 0 THEN "idle"
             ELSE IF NeedsRecreation(window) THEN "resize" ELSE "fence"
    /\ UNCHANGED <<sizeVars, initialized, syncVars, currentFrame, imageIndex, engineVars,
                   blits, waitedExecutor, appVars, calls, resizes, failures>>

\* recreateSwapChain, before the frame or after an acquire that found the
\* swapchain out of date.  currentFrame stays as it was.
Recreate ==
    /\ pc \in {"resize", "outOfDate"}
    /\ window # 0
    /\ DeviceIdle
    /\ FreshSyncObjects
    /\ front' = None
    /\ displaySize' = window
    /\ pc' = IF pc = "resize" THEN "fence" ELSE "idle"
    /\ UNCHANGED <<window, initialized, currentFrame, imageIndex, presents, blits,
                   waitVars, appVars, calls, resizes, failures>>

\* createSwapChain throws once the old objects are destroyed.
RecreateThrows ==
    /\ DeviceIdle
    /\ hasSyncObjects' = FALSE
    /\ displaySize' = SizeWhenFailed
    /\ Throw
    /\ UNCHANGED <<window, initialized, acquireFences, imageAvailable, renderFinished,
                   currentFrame, imageIndex, engineVars, blits, waitVars, appVars,
                   calls, resizes>>

\* A minimised window has no extent to create a swapchain with.
RecreateMinimised ==
    /\ pc \in {"resize", "outOfDate"}
    /\ window = 0
    /\ RecreateThrows
    /\ UNCHANGED failures

\* vkWaitForFences, then vkResetFences.
WaitFence ==
    /\ pc = "fence"
    /\ FenceSignaled
    /\ acquireFences' = [acquireFences EXCEPT ![currentFrame] = FALSE]
    /\ pc' = "acquire"
    /\ UNCHANGED <<sizeVars, initialized, hasSyncObjects, imageAvailable, renderFinished,
                   currentFrame, imageIndex, engineVars, blits, waitVars, appVars,
                   calls, resizes, failures>>

\* vkAcquireNextImageKHR, which will signal imageAvailable later.
Acquire(i) ==
    /\ pc = "acquire"
    /\ imageState[i] = "free"
    /\ imageState' = [imageState EXCEPT ![i] = "acquired"]
    /\ imageAvailable' = [imageAvailable EXCEPT ![currentFrame] = "pending"]
    /\ imageIndex' = i
    /\ pc' = "blit"
    /\ UNCHANGED <<sizeVars, initialized, hasSyncObjects, acquireFences, renderFinished,
                   currentFrame, front, presents, blits, waitVars, appVars, calls,
                   resizes, failures>>

OutOfDate ==
    /\ pc = "acquire"
    /\ window # displaySize
    /\ pc' = "outOfDate"
    /\ UNCHANGED <<sizeVars, initialized, syncVars, currentFrame, imageIndex, engineVars,
                   blits, waitVars, appVars, calls, resizes, failures>>

\* The commit of the blit: it carries the frame's fence.  The wait it leaves for
\* the next submission is consumed by the present's own submission.
SubmitBlit ==
    /\ pc = "blit"
    /\ blits' = Append(blits, [frame |-> currentFrame, image |-> imageIndex,
                               after |-> waitSemaphores, waited |-> waitedExecutor])
    /\ waitSemaphores' = 0
    /\ pc' = "present"
    /\ UNCHANGED <<sizeVars, initialized, syncVars, currentFrame, imageIndex, engineVars,
                   waitedExecutor, appVars, calls, resizes, failures>>

\* vkQueuePresentKHR, whose wait executes even if it reports out of date.
Present ==
    /\ pc = "present"
    /\ presents' = presents \cup {imageIndex}
    /\ imageState' = [imageState EXCEPT ![imageIndex] = "queued"]
    /\ imageIndex' = None
    /\ currentFrame' = NextFrame(currentFrame)
    /\ pc' = "idle"
    /\ UNCHANGED <<sizeVars, initialized, syncVars, front, blits, waitVars, appVars,
                   calls, resizes, failures>>

-----------------------------------------------------------------------------
\* The GPU, the presentation engine, the window and the application's executor.

SignalAvailable(f) ==
    /\ imageAvailable[f] = "pending"
    /\ imageAvailable' = [imageAvailable EXCEPT ![f] = "signaled"]
    /\ UNCHANGED <<pc, sizeVars, initialized, hasSyncObjects, acquireFences,
                   renderFinished, currentFrame, imageIndex, engineVars, blits, waitVars,
                   appVars, calls, resizes, failures>>

\* The oldest blit takes its waits, and signals its semaphore and its fence.
CompleteBlit ==
    /\ blits # <<>>
    /\ BlitReady(Head(blits))
    /\ LET job == Head(blits)
       IN  /\ imageAvailable' = [imageAvailable EXCEPT ![job.frame] = "unsignaled"]
           /\ renderFinished' = [renderFinished EXCEPT
                                     ![FinishedOf(job.image)] = "signaled"]
           /\ acquireFences' = [acquireFences EXCEPT ![job.frame] = TRUE]
    /\ blits' = Tail(blits)
    /\ UNCHANGED <<pc, sizeVars, initialized, hasSyncObjects, currentFrame, imageIndex,
                   engineVars, waitVars, appVars, calls, resizes, failures>>

ExecutePresent(i) ==
    /\ i \in presents
    /\ PresentReady(i)
    /\ presents' = presents \ {i}
    /\ renderFinished' = [renderFinished EXCEPT ![FinishedOf(i)] = "unsignaled"]
    /\ imageState' = [imageState EXCEPT ![i] = "shown"]
    /\ front' = i
    /\ UNCHANGED <<pc, sizeVars, initialized, hasSyncObjects, acquireFences,
                   imageAvailable, currentFrame, imageIndex, blits, waitVars, appVars,
                   calls, resizes, failures>>

\* The engine gives back an image once a later one replaces it.
ReleaseImage(i) ==
    /\ imageState[i] = "shown" /\ i # front
    /\ imageState' = [imageState EXCEPT ![i] = "free"]
    /\ UNCHANGED <<pc, sizeVars, initialized, syncVars, currentFrame, imageIndex, front,
                   presents, blits, waitVars, appVars, calls, resizes, failures>>

\* The user resizes, minimises or restores the window.
Resize(size) ==
    /\ resizes < MaxResizes /\ size # window
    /\ resizes' = resizes + 1
    /\ window' = size
    /\ UNCHANGED <<pc, displaySize, initialized, syncVars, currentFrame, imageIndex,
                   engineVars, blits, waitVars, appVars, calls, failures>>

ProducerCommit ==
    /\ produced < MaxCommits
    /\ produced' = produced + 1
    /\ UNCHANGED <<pc, sizeVars, initialized, syncVars, currentFrame, imageIndex,
                   engineVars, blits, waitVars, completed, calls, resizes, failures>>

ProducerComplete ==
    /\ completed < produced
    /\ completed' = completed + 1
    /\ UNCHANGED <<pc, sizeVars, initialized, syncVars, currentFrame, imageIndex,
                   engineVars, blits, waitVars, produced, calls, resizes, failures>>

-----------------------------------------------------------------------------
\* Faults the code handles.

\* An error that is neither success, suboptimal nor out of date.
AcquireError ==
    /\ pc = "acquire"
    /\ Throw
    /\ UNCHANGED <<sizeVars, initialized, syncVars, currentFrame, imageIndex, engineVars,
                   blits, waitVars, appVars, calls, resizes>>

\* The commit of the blit submits nothing; the frame presents all the same.
BlitError ==
    /\ pc = "blit"
    /\ waitSemaphores' = 0
    /\ pc' = "present"
    /\ UNCHANGED <<sizeVars, initialized, syncVars, currentFrame, imageIndex, engineVars,
                   blits, waitedExecutor, appVars, calls, resizes>>

RecreateError == pc \in {"resize", "outOfDate"} /\ window # 0 /\ RecreateThrows

-----------------------------------------------------------------------------
Call == WaitExecutor \/ DisplayFrame \/ Destroy

FrameStep ==
    \/ Initialize \/ CheckSize \/ Recreate \/ RecreateMinimised \/ WaitFence
    \/ (\E i \in Image : Acquire(i)) \/ OutOfDate \/ SubmitBlit \/ Present

DeviceStep ==
    \/ \E f \in Frame : SignalAvailable(f)
    \/ CompleteBlit
    \/ \E i \in Image : ExecutePresent(i) \/ ReleaseImage(i)

Environment ==
    \/ \E size \in Extent \cup {0} : Resize(size)
    \/ ProducerCommit \/ ProducerComplete

Normal == Call \/ FrameStep \/ DeviceStep \/ Environment

Fault ==
    /\ failures < MaxFailures
    /\ failures' = failures + 1
    /\ AcquireError \/ BlitError \/ RecreateError

Next == Normal \/ Fault

\* Nothing fails but what a minimised window makes fail.
Spec == Init /\ [][Normal]_vars

\* The frame keeps running, the device and the engine keep working, and the GPU
\* finishes what the application submitted.
Fairness == WF_vars(FrameStep) /\ WF_vars(DeviceStep) /\ WF_vars(ProducerComplete)

FairSpec == Spec /\ Fairness

FairFaultSpec == Init /\ [][Next]_vars /\ Fairness

-----------------------------------------------------------------------------
\* Properties.

\* Every variable has its type: the fields of DisplayManager.h, and what the
\* device and the engine hold.
TypeOK ==
    /\ pc \in PcState
    /\ window \in Extent \cup {0} /\ displaySize \in Extent \cup {0}
    /\ initialized \in BOOLEAN /\ hasSyncObjects \in BOOLEAN
    /\ currentFrame \in Frame
    /\ acquireFences \in [Frame -> BOOLEAN]
    /\ imageAvailable \in [Frame -> SemaphoreState]
    /\ renderFinished \in [Image -> SemaphoreState]
    /\ imageIndex \in Image \cup {None}
    /\ imageState \in [Image -> ImageState]
    /\ front \in Image \cup {None}
    /\ blits \in Seq(Blit)
    /\ presents \in SUBSET Image
    /\ waitedExecutor \in Nat /\ waitSemaphores \in Nat
    /\ produced \in Nat /\ completed \in Nat
    /\ calls \in Nat /\ resizes \in Nat /\ failures \in Nat

\* The semaphore an acquire will signal is unsignaled, and no submission that
\* waits for it is pending: the fence that the blit of ImageCount frames ago
\* carries is what guarantees it.
AcquireSemaphoreFree ==
    pc = "acquire" => /\ imageAvailable[currentFrame] = "unsignaled"
                      /\ \A job \in InFlight : job.frame # currentFrame

\* A blit never signals a renderFinished semaphore that still holds a signal: one
\* semaphore for each image is enough because the image itself comes back only
\* after its present.
FinishedSemaphoreFree ==
    blits # <<>> /\ BlitReady(Head(blits))
        => renderFinished[FinishedOf(Head(blits).image)] = "unsignaled"

\* A blit in flight writes an image the engine has not taken back, and no two
\* blits write one image: the present waits for the blit on the GPU.
BlitsOwnTheirImages ==
    /\ \A job \in InFlight : imageState[job.image] \in {"acquired", "queued"}
    /\ \A m, n \in DOMAIN blits : blits[m].image = blits[n].image => m = n

\* A blit reads the image only after everything the executor had submitted when it
\* was given to displayer.wait, whatever frames returned early in between.
ShowsFinishedWork ==
    \A job \in InFlight : job.after >= job.waited

\* A frame that gets as far as its fence has sync objects, even if an earlier frame
\* destroyed them and could not create new ones for a minimised window.
SyncObjectsExist == pc \in {"fence", "acquire", "blit", "present"} => hasSyncObjects

\* Every call of displayFrame returns: the fence, the acquire and the idle device
\* it waits for all come, whatever the window does.
FrameReturns == pc \notin {"idle", "gone"} ~> pc \in {"idle", "gone"}

\* Every image queued for presentation reaches the screen.
FramesShown == \A i \in Image : imageState[i] = "queued" ~> imageState[i] # "queued"
=============================================================================
