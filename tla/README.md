# Verification of CabbageHardware

CabbageHardware is a C++ layer over Vulkan: reference-counted handles (`HardwareBuffer`,
`HardwareImage`, `HardwareExecutor`, `HardwareDisplayer`, pipelines, push constants), executors
that turn recorded commands into submissions on shared device queues, a display path that blits an
image into a window, and Helicon, a shader language embedded in C++. Its README lists as open work
"多线程内存泄漏、多线程死锁、多线程 crash" (leaks, deadlocks and crashes with several threads) and
"交换链逻辑错误" (swapchain logic errors). Those are the parts modelled first.

Contents: 1 the system, 2 the modules, 3 the runs, 4 the proofs, 5 disagreements with the code's
comments, 6 what is not modelled, 7 what could come next.

Short names for source files: *Executor* is `src/Src/HardwareWrapperVulkan/HardwareVulkan/HardwareExecutorVulkan.cpp`
(and `.h`), *Resources* is `ResourceManager.cpp` beside it, *Display* is
`src/Src/HardwareWrapperVulkan/DisplayVulkan/DisplayManager.cpp`, *the wrapper* is `src/Src/HardwareWrapper/`,
*Helicon* is `src/Src/Helicon/`.
`PROJECT.json` maps every definition to its lines and lists every hazard at the line where it bites.

## 1. The system

### Threads

`examples/main.cpp` shows the use the library is built for: for each window a thread that builds
meshes, a thread that records and commits to one executor, and a thread that calls
`displayer.wait(*executor) << *image` for every frame. Handles are copied, assigned and destroyed by
all of them. Pipelines are compiled from C++ lambdas, by any thread, each with a parser of its own. The GPU and the
presentation engine run on their own.

### Components

| Component | State | Operations | What makes it correct |
|---|---|---|---|
| Executor submission (*Executor*) | recorded commands, objects to keep alive, deferred releases, waits for the next submission, the last (queue, value) pair | `<<`, `wait`, `commit`, `cleanupDeferredResources`, `waitForDeferredResources`, destructor | a command buffer is not reused in flight; no wait that nobody signals; commits of one executor complete in order; objects live as long as the GPU uses them |
| Device queues (`DeviceManager::QueueUtils`) | per queue: mutex, one command buffer, timeline semaphore, atomic `timelineValue` | try_lock and counter check, `fetch_add`, `fetch_sub`, submit | every signal raises its semaphore; a failure loses no value |
| Graphics chain (`gGraphicsSubmitChains`) | last graphics submission of a device, a mutex | wait for it, publish the next | graphics submissions complete in submission order |
| Buffer destruction (`destroyBuffer`) | the timeline values it read, without the mutexes | read, timed wait, `vkDeviceWaitIdle` | frees only after every submission that was in flight; never waits for itself |
| Handles (the wrapper) | an atomic id and a mutex for each handle | construct, copy, move, assign, destroy | counts are exact, no handle names a freed slot, nothing leaks, no deadlock |
| Storages (`ResourcePool`) | slots with a lock each, entry with object and `refCount` | allocate, acquire_read, acquire_write, deallocate | all calls take slot locks in one order |
| Commands and executor wrapper | none of their own | `getCommandRecord`, `<<`, `wait`, `commit` | the locks of two slots, or of a slot and a queue, cannot form a cycle |
| Window display (*Display*) | swapchain, fences and semaphores of each frame and image, `currentFrame`, the copied executor, the size | `initDisplayManager`, `displayFrame`, `waitExecutor`, `recreateSwapChain`, clean up | sync objects are reused only when unused; a frame shows finished work; every frame returns |
| Images, descriptors, memory (*Resources*) | layout of each image, bindless elements, imported host memory | transitions, `storeDescriptor`, create, import and destroy | a layout matches what the GPU will find; a bindless element is not reused in flight; a failed import leaves nothing behind |
| Pipelines | uniform buffer, push constants, recorded meshes, framebuffer, dirty flag | bind, `record`, `commitCommand` | what a commit reads is what was recorded, and lives until the GPU has read it |
| Vulkan commands | none | barriers, copies, blits | barriers ask for the states the images are in |
| Hardware context | list of devices, the main one | choose the main device, the one that presents | a window of another device shows the frames of the main one |
| Helicon syntax tree | parser of a thread: statements, counters, flags; globals with permissions and target locations | run a lambda, close a stage, generate | every text declares what it names; one pipeline leaves nothing to the next |
| Helicon compiler | hardcode files of the process, outputs of a compilation | compile, append, look up | a release build serves what this compilation made |
| Offline shader tool | reflections of the shaders given | detect the stage, generate fields | what a pipeline can bind has a field and a key |
| Examples | two queues for each window, errors, scenarios | mesh, render and display ticks, stop, join | nothing shown goes back; the first error is reported; the program returns |
| Build | - | - | - |

### Interactions

- A wrapper call locks storage slots, then calls the Vulkan object of the entry with the locks held.
- `commit` of a graphics command list holds the executor's slot, then the chain mutex, then the mutex
  of a queue. With all three held it drops objects whose work is done, which may run `destroyBuffer`,
  and records commands, which locks the slots of buffers and images.
- `wait(other)` copies the pair (queue, value) of another executor into the waits of this one.
- `displayFrame` uses two executors of its own, which go through the same queues, and copies the
  executor the application waits for.
- For a window of another device `displayFrame` copies the image into host memory with an executor of the main device and
  out of it with one of the display's; a wait of the CPU orders the two.
- A pipeline keeps handles of the buffers it draws from in its record, hands them to the executor at the commit, and reads
  bound buffers through an index that is the number of their storage slot.
- Running a lambda over proxies records statements in the parser of the thread. Both pipeline classes run every lambda once
  or, with bindless descriptors, twice; the texts go to the compiler, and its results to the hardcode files.
- The GPU connects executors only through the timeline semaphores, and the presentation engine
  connects frames only through binary semaphores and fences.

### What is hard

Submissions of several executors on shared queues with one command buffer each; pairs of fields that
an error path updates by halves; atomics read without the mutex that orders their writers; destructors
that wait for the GPU while locks are held; locks of two storages in two orders; a ring of frame
objects indexed by a counter that early returns do not advance, and a ring of images indexed by what
the driver returns; swapchain recreation that may fail after the old objects are gone; one uniform buffer for all submissions
of a pipeline; indices that are slot numbers; a wait that gives up; parsers, permissions and flags that outlive a compilation,
also one that threw; threads that fail while others are started, asleep in a queue or already stopping.

## 2. The modules

| Module | Models | Used by |
|---|---|---|
| `SubmissionOrder` | the abstract specification: submissions of one executor run in order, and so do graphics submissions | `ExecutorSubmit` |
| `ExecutorSubmit` | executors, device queues, graphics chain, deferred release, `destroyBuffer`, the GPU's timeline semaphores | `MCExecutorSubmit`, `ExecutorSubmitProofs` |
| `HandlePool` | handles and their storage, down to each slot lock | `MCHandlePool`, `HandlePoolProofs` |
| `LockOrder` | the locks every wrapper call holds while it waits for the next one | `MCLockOrder`, `ThreadProofs` |
| `DisplayFrame` | one window: `displayFrame`, the swapchain, the presentation engine | `MCDisplayFrame`, `DisplayFrameProofs` |
| `ImageLayout` | the layout field of images, what each command records about it, and the layouts the GPU finds | `MCImageLayout`, `ImageLayoutProofs` |
| `PipelineCommit` | what pipelines record and read at a commit, and what the GPU reads later | `MCPipelineCommit`, `PipelineCommitProofs` |
| `CrossDeviceFrame` | `displayFrame` for a window of another device | `MCCrossDeviceFrame`, `CrossDeviceFrameProofs` |
| `ShaderTexts` | what a lambda records, and the text generated from it | `ShaderPipeline` |
| `ShaderPipeline` | threads that compile pipelines from lambdas | `MCShaderPipeline`, `ShaderPipelineProofs` |
| `ShaderCompiler` | the algorithms of the compiler, the control flow loops and the offline tool | `MCShaderPipeline` |
| `DropOldestQueue` | the bounded queue of the examples | `FrameLoop` |
| `FrameLoop` | the threads of the example program | `MCFrameLoop`, `ThreadProofs` |
| `ExampleAssets` | the pure functions of the examples | `MCFrameLoop` |

How they fit together: `LockOrder` takes the locks of all components and asks only whether calls can
block each other, so the other modules may treat one slot lock or one mutex as uncontended where
nothing else is taken under it. `DisplayFrame` uses two results of `ExecutorSubmit`: blits complete in
the order they were submitted (`Implements`) and picking a queue ends (`CommitReturns`).
`ImageLayout` takes a submission of `ExecutorSubmit` to be one id that others wait for: `SubmissionOrder` is its premise.
`CrossDeviceFrame` uses the same order for the executor of each device, and the fence of `DisplayFrame`.
`PipelineCommit` needs less, its submissions may complete in any order; it opens up what `ExecutorSubmit` calls the
object a command keeps alive. `FrameLoop` uses what a `commit` of `ExecutorSubmit` gives: work a displayer can wait for.
The assumption of `ExecutorSubmit` that no thread is inside an executor while another reads it in
`wait(other)` is the two slot locks of `ExecutorWait` in `LockOrder`.

### ExecutorSubmit

One action for each call on an idle executor (`AddCopy`, `AddPipeline`, `WaitFor`, `CommitEmpty`,
`BeginCommit`, `CleanupDeferred`, `WaitForDeferred`, `Destroy`) and one for each point of `commit`
where another thread can come in between: `LockChain` (*Executor* 640-660), `Pick` (try_lock, counter
check and sweep, 330-400), `DrainInPick` (destroyBuffer inside the sweep), `Record` (403-452:
`currentRecordQueue`, the `fetch_add`, the wait for the old value), `Submit` (454-555: submission,
`lastSignalValue`, binding of kept objects, unlock) and `Finish` (the rest of `commit`). `pc` is the
position of each executor.

- A timeline semaphore is `counter[q]`; a submission is a record in `inFlight` that may complete when
  its waits are reached and then sets the counter. The GPU may run submissions in any order the waits allow.
- The adjustment "signal must exceed wait" is `SignalValue`. The proof shows it never changes a value
  when nothing fails.
- Commands are abstracted to their executor type and the object they keep alive. The round-robin
  cursor of a pool is a free choice among its queues.
- `destroyBuffer` is called by `Destroyer` threads and inside `Pick`. It reads all `timelineValue`s in
  one step; a later read sees larger values, which only makes the wait longer. What it must wait for is fixed at the
  first read (`witness`).
- `Order` is `SubmissionOrder` with the submissions in flight as `executing` and `stamp` as `submitted`; `Submit` implements `Accept`,
  `Complete` implements `Execute`, every other step is a stutter.
- Faults are in `Next` only: the counter query fails (`PickError`), the submission fails
  (`SubmitError`), the destructor's wait times out (`DestroyTimeout`).

### HandlePool

Six handle classes of the wrapper share one protocol; the module states it once. A handle has an `id`
(0 for none) and a `mutex`; a slot has a `slotLock`, `refCount` and its Vulkan object (`present`). The
constructors are `Create` then `InitSlot`, `CopyConstruct` then `Increment`, `MoveConstruct`; the destructor
takes only slot locks; copy assignment has the three branches of the code, the third locking two slots
in id order (`LockFirst`, `Exchange`). Deallocation happens after the locks are released
(`Deallocate`), as the note "不要修改写法，避免死锁" in `~HardwareBuffer` demands, and `Return` does the last stores.

As in C++, one thread constructs or destroys a handle while no other uses it; every other overlap is allowed.

### LockOrder

A call is a sequence of requests. Each asks for one lock of a set (any queue of a pool, one slot of a
storage) to read or write. `Acquire` grants the next request, `Release` ends the call. Where the code
locks and unlocks several objects in turn under the same outer locks, the call picks one of them,
since only the locks held while waiting matter. `OrderedCall` has every call that takes locks in one
order; `UnorderedCall` has four that do not: image-to-buffer copies, copies of a resource to itself,
display on a device other than the image's, and `HardwarePushConstant::operator=`. They are
enabled by the constant `Unordered`, and only in `AllSpec`. The specification of the ordered calls is `LockSpec`,
not `Spec`, since `ThreadProofs` extends this module and `FrameLoop`.

The storages are a library that is not in the repository. From the code that uses them:
`acquire_write` is exclusive, `acquire_read` is shared, neither is recursive, and `allocate` gives an entry
whose `refCount` is 1.

### DisplayFrame

`pc` is the position in `displayFrame`. `Initialize` is `initDisplayManager`, `CheckSize` the wait for
the executor and the size check (*Display* 561-584), `WaitFence` the fence wait and reset (586-595),
`Acquire` and `OutOfDate` the two results of `vkAcquireNextImageKHR`, `SubmitBlit` the commit that
carries the fence, `Present` the present and the step of `currentFrame`. `Recreate` and
`RecreateMinimised` are `recreateSwapChain`, which destroys the old objects before `createSwapChain` can throw.

- A binary semaphore is unsignaled, pending or signaled. The acquire makes `imageAvailable` pending and the
  engine signals it later; the blit takes it and signals `renderFinished` and the fence; the present takes
  `renderFinished`.
- An image is free, acquired, queued or shown. The engine may give back any image that is not the
  last one shown, and may execute presents in any order their semaphores allow (presents may go to different queues).
- The window changes size, is minimised (extent 0) or restored at any moment; `displaySize` is what
  `createSwapChain` last read.
- `waitedExecutor` is the value in the executor copied by `displayer.wait`, and `waitSemaphores` what the
  display executor has collected; early returns of `displayFrame` leave it for the next frame.
- Assumed: one display thread for each displayer, as in the examples; the image and the window are on one device;
  the driver gives every swapchain of a surface the same number of images; `vkDeviceWaitIdle` covers queued
  presents; a present that reports out of date still executes its wait.

### ImageLayout

`imageLayout` is the field of `ImageHardwareWrap`, `gpuLayout` what each subresource of the image is in. A
command is an operator (`CopyImage`, `CopyBufferToImage`, `CopyImageToBuffer`, `BlitToScreen`, `Draw`, `Shade`) that gives the
transitions it puts into the command buffer, with the old layout read from the field then, and the fields
afterwards. `Record` is one round of the loop in `commit` (*Executor* 582-606), so other executors record in between;
`LockChain` and `Submit` are the chain's two ends; `Execute` applies the transitions of a submission whose waits are over.
`BeginDisplay` is `displayFrame` up to its commit, with the copy of the image's entry it takes for the first frame (*Display*
557) and uses ever after.

- Part of the application, since no code enforces it: an executor that uses an image another one has used waits for it
  (`Synchronised`; two graphics commits need not); a shader reads what was written before (`Written`); the pipeline's target is
  not changed in the middle of a draw; the first frame comes when the image has been recorded to and no commit is copying it.
- An application cannot wait for the displayer's executor. A commit that writes the displayed image without graphics
  commands starts only when no blit of the image is in flight; the code does not see to that.
- Only storage images are displayed, as in the examples. A render target without the storage bit rests in the
  attachment layout, the copy's field then says so for ever after the first blit has moved the image to GENERAL.
- `Execute` is one step for a whole submission. Submissions that may overlap share no image (the application's part above
  and the chain see to it), so no other order of their barriers can be told apart.
- The copies of one commit are all between images of one format, for which `CopyImageCommand` does not return early.

### PipelineCommit

A call of the wrapper is one action, `CreateBuffer`, `ReleaseBuffer`, `SetResource`, `SetUniform`, `Record` and `Push`; `commit` is
`Pick`, `Cleanup` for each object the sweep drops, `CommitCommand` for each pipeline of the list, `Submit`. A buffer is
held by the application (`held`), by a record, by `pendingResources` and by `deferredReleaseQueue`; the last handle to go runs
`destroyBuffer`, which waits for what was in flight when it was called (`DestroyBuffer` inside the calls that drop, `FinishDestroy`) and
then frees the slot.
`element` is the bindless array, `slot` the number of the buffer's slot and so its index. Push constants are blocks: a
recorded mesh takes the block of the pipeline, which goes on with a fresh one (`FreshBlock`). `uboBuffer` is overwritten
by `CommitCommand` (`Upload`) at once; a submission remembers in `uniforms` what it was committed with. `wants` is what the application
had set when it recorded, and `first` how many meshes of each pipeline were submitted before a submission; both are history, for the
property that says in which order meshes are drawn.

### CrossDeviceFrame

`MainDevice` and `PresentDevice` are the choices of `HardwareContext` and `initDisplayManager`. `Initialize`, `AllocateHost`,
`ImportSource`, `ImportDestination` are the set-up, any of which may fail; `importHostBuffer` is the sequence of its steps,
of which a failure undoes what the code undoes (`UndoneBy`). A frame is `WaitForExecutor`, `WaitFence`, `CopyOut`, `Bridge` (the wait
on the CPU of *Display* 627, which may give up), `CopyIn`; `CopyNothing` is a frame after a set-up that threw, which copies
through a null buffer: undefined, and the model ends there. `Destroy` to `FreeHost` are the destructor.
`staged` is what the memory holds, and from which work.

### ShaderTexts, ShaderPipeline and ShaderCompiler

A lambda is a record of what it does to proxies: reads, writes, elements, targets, calls, and proxies it only names (`bare`: a
condition, an argument). Running it is one action with every outcome: it ends, throws after any part (`LambdaThrows`), or returns
a value where none is allowed (`RefuseReturn`). The parser of a thread, its flag, `numthreads` and the permissions of the globals are
state that the next compilation finds. A text is what it names and what it declares, with the state its
stage was closed in. `compile()` of both classes is `Begin`, `RunStage` for each stage, `EndPipelineParse`, `CompileStage` for
each text, and the same again in the bindless pass; `Collect` reads the target locations.

- The SPIR-V of an imported function goes to the text that calls it when its process-wide flag is still false (`built`, `spv`; `VariateProxy.h`
  899-903, 939-943), and so to no later stage and no later compilation. The flag is not synchronised: several threads may find it false.
- The link lists are taken from the texts of the first pass and used for both (`link`; `RasterizedPipelineObject.h` 34-58,
  `ComputePipelineObject.h` 43-56). Without a list Slang links the program, which may fail for a function without a body
  (`CompileFails`); with one the SPIR-V goes through `spirvLinker`, and if that resolves less than the text calls there is no
  SPIR-V and nothing is stored (`Stored`).
- `hardcode` is the sequence of items appended to, each a text with what it is linked with; `Served` is what a release build finds in it,
  the first item of a key. `Meaning` is what a text does when it is linked with a list: of the functions it calls, which have a body.
- `textures` is the order of a thread's globals. `BoundTargets` is the list `Collect` makes in that order, with the location every texture
  was given last, by whichever pipeline; `LastAt` is the entry that `setResourceDirect` leaves at a location.
  Every texture has an image: the entry of one without is skipped (`RasterizerPipeline.cpp` 260 in the wrapper).

`ShaderCompiler` has no state: conversions as chains of steps that may fail, the reflection that is stored with each target, type
names, the loops behind `$IF` and `$WHILE`, stage detection, duplicates, fields and keys of the tool. `MCShaderPipeline`
checks it as assumptions against what it should compute, over all inputs of bounded size, and states where it does not:
`ReflectionsShifted` (after a failed link, and on Windows), `UnnamedTextures`, `NestedWhileHangs`.

### FrameLoop, DropOldestQueue and ExampleAssets

`main` creates scenarios, starts `3 * WindowCount` threads one by one, polls, stops, joins in its order and shuts the scenarios down; each
thread is the loop of its lambda with the places where a call may fail or block. An operation of the queue is one step, since it
holds the queue's mutex; `pop_wait` sleeps in between (`asleep`). `Throw` is a failing tick: `SetError` is the compare-exchange,
`SetMessage` the write after it. `MCFrameLoop` checks `ExampleAssets` over bounded inputs, as above.

## 3. The runs

| Run | Bounds | States | Question and answer |
|---|---|---|---|
| `submit` | 2 executors, 2 graphics queues, 1 object, 3 commits in all, 1 command per commit | 361 thousand | With no failing call: waits, kept objects and tail points are right in every interleaving; `ExecutorSubmit` implements `SubmissionOrder`; every commit returns, also one that spins for a queue or runs a `destroyBuffer` that waits. |
| `submit_faults` | 2 executors, 1 destroyer, 2 queues, 2 commits in all, 1 fault | 1.1 million | One failure anywhere leaves the queues usable and values consistent, and `destroyBuffer` right. |
| `submit_failed` | 1 executor, 2 queues, 3 commits, 1 fault | violation | After a failed submission an executor waits for a value nobody signals. |
| `handles` | 2 threads, 4 handles, 2 slots, 3 operations | 108 thousand | Counts, validity, leaks, and that every operation returns. |
| `slot_locks` | 3 threads, 2 slots per storage, 1 queue | 2.6 million | No set of threads deadlocks. |
| `display` | 2 images, 2 sizes, 5 frames, 2 resizes, 2 commits | 309 thousand | Fences, semaphores and images are reused only when unused; frames show finished work; every frame returns and every presented image is shown. |
| `display_failed` | 2 images, 3 frames, 1 fault | violation | After a failed acquire or blit a later frame never returns. |
| `layouts` | 2 images, 1 application executor and the displayer's, 2 commits of at most 2 commands, 2 frames | 547 thousand | Every barrier names the layout the GPU finds; afterwards every field is right; the screen can be presented. |
| `pipelines` | a rasterizer and a compute pipeline, 2 queues, 2 buffers, 1 slot, 2 meshes, 2 commits | 630 thousand | What a submission reads is held, is what was recorded, in the order it was recorded in, and changes under it only across queues. |
| `cross_device` | 2 devices, 2 fences, 4 frames, 1 wait that gives up, 1 failing step | 350 thousand | The staging memory carries each frame in time, outlives its users; failed imports leave nothing. |
| `shaders` | 2 threads, 5 pipelines, 5 proxies, 2 functions, 3 and 1 compilations | 1.5 million | Texts declare what they name; pipelines get their own stages and are linked with their own functions, or it is said what an aborted compilation spoils; what is served is what each compilation made, with at least its functions; at a colour's location stays the texture drawn to, or it is said which other. |
| `frames` | 1 window, queues of 2, the texture scenario, 3 frames, 2 errors | 191 thousand | Nothing shown goes back; ticks find their objects; the first error is reported; the program returns. |

### Why the bounds are enough

- `submit*`: two executors on two queues are the least that interleave in the chain and on one queue. `MaxCommits` counts the commits of
  all executors. Two are the least of one executor whose tail wait points at another queue, and that race for a queue. In `submit` there are
  three: with both queues taken by submissions in flight the third has to spin for one, and a sweep it runs then may find
  a `destroyBuffer` that waits, with the mutexes of queue and chain held, for the submission of the other executor.
  So that three commits stay small enough for liveness, the callers of `submit` record copies and draws that keep the object (`BusySpec`): a dispatch
  is committed like a copy that keeps nothing, and with these pools both go to the same queues. `submit_faults` has all calls, and a destroyer.
  `submit_failed` needs the third commit as well. `MaxCommands = 1` loses only mixed command lists,
  whose type is computed by `QueueType`; a list's length plays no other role. The safety properties are proved for any number of all of them.
- `handles`: four handles over two slots start in every assignment of ids, so shared, moved and null
  handles, and both orders of ids, are in the initial states. Three operations, two of them at once,
  reach every branch. Races are between two operations on one handle or slot at a time.
- `slot_locks`: a cycle needs as many threads as locks in it; three threads
  cover cycles through executor, chain and queue, and any longer one is covered by the proof.
- `display`: five frames on two images wrap both rings twice, with a resize and a return to the old size in between.
  Two resizes are the least that minimise and restore a window. The safety properties are proved for any number of images.
- `layouts`: two executors are the least that interleave, one of them the displayer with a copy of its own; two commands are
  the least that make a graphics commit with a copy in it; two frames are the first, which copies, and a later one.
  Images have one subresource: with two mip levels or layers `LayoutsMatch` fails, see section 6.
  The view `Relevant` replaces the numbers of submissions by what is still in flight: no guard and no property asks for more
  (the numbers change only in `Submit`, in a step the view sees).
- `pipelines`: one slot makes every new buffer take the index of the last one; two queues let two submissions of a pipeline
  be in flight, and one makes the second wait; two meshes are the least that have an order. A second executor shares nothing with
  the first but queues, which the two commits already compete for.
- `cross_device`: four frames on two fences go round twice, so a frame finds its fence used and the memory written by the
  one before; one wait that gives up is enough for every way to be late.
- `shaders`: the pipelines have one stage or two, bindless descriptors or not; one is refused, one belongs to the other thread. `draw` and `sketch`
  draw to two textures at one location, each the first and the second to be constructed in some behaviour, so both the right and the
  stale entry can be the last. `fade` is called by both stages of `draw` and by `paint`, `noise` by `paint` and by the other thread: a function
  is called for the first time and again by a stage, a recompilation, another pipeline, another thread. Three compilations let one follow a
  broken and a good one, and repeat a call site.
- `frames`: queues of two drop at the third frame; two errors are the least that race to be first; one window has all
  three threads, and windows share nothing but the error, the flag to stop and the main thread, which goes through them in turn.

### Symmetry

Executors and objects are permuted in `submit_faults`, threads in `slot_locks`, queues and buffers in `pipelines`. None of
these runs has a liveness property, and no definition names a member of a permuted set.

### Deadlock check

All runs but one stop when the bounds are used up, or when every executor is destroyed,
so they set `CHECK_DEADLOCK FALSE`; that nobody stops inside a call is what `CommitReturns`, `OperationReturns`,
`FrameReturns` and `ProgramReturns` check. `slot_locks` has no bound and keeps the check on.

### Fairness

- `ExecutorSubmit!FairSpec`: weak fairness for each thread inside a call and for the GPU. A thread the
  OS keeps running and a GPU that makes progress justify it. Nobody is obliged to call. A
  `try_lock` in a spin, or a mutex, could in principle be lost for ever to other threads; weak fairness is enough here because
  commits are bounded, so the result is the absence of a cycle of waits, not of starvation under unending load.
- `HandlePool!FairSpec`: weak fairness for each thread inside an operation, with the same remark on slot locks.
- `DisplayFrame!FairSpec`: weak fairness for the frame in progress, for the device and engine together, and for the
  completion of what the application submitted (that it completes is part of `Implements`). The window and the application are
  free to do nothing.
- `MCExecutorSubmit!BusySpec`: the fairness of `ExecutorSubmit!FairSpec`, nothing added.
- `FrameLoop!FairSpec`: weak fairness for each thread, for the main one while it starts, stops and joins others, and for its poll once
  the program is to stop. A thread asleep in a queue goes on once it was notified; a spurious wake only checks the queue again.

### Properties

`ExecutorSubmit`: `CommandBufferFree`, `SignalsAdvance`, `NoOrphanWait`, `HeldWhileInFlight`, `TailCovers`, `DestroyAfterUse`,
`DrainWillEnd`, `QueueReusable`, `CommitReturns`, `Implements`.
`HandlePool`: `RefCountExact`, `HandlesValid`, `NoLeak`, `OperationReturns`. `LockOrder`: `NoDeadlock`.
`DisplayFrame`: `AcquireSemaphoreFree`, `FinishedSemaphoreFree`, `BlitsOwnTheirImages`, `ShowsFinishedWork`,
`SyncObjectsExist`, `FrameReturns`, `FramesShown`. `ImageLayout`: `LayoutsMatch`, `BookkeepingExact`,
`ScreenPresentable`. `PipelineCommit`: `MeshesHeld`, `IndicesNameTheirBuffers`, `UniformsStableOnQueue`, `DrawnOnceAsRecorded`.
`CrossDeviceFrame`: `CopiesCarryTheFrame`, `HostMemoryOutlivesUse`, `NothingOrphaned`. `ShaderPipeline`: `TextsStandAlone`, `OwnStages`,
`ReleaseServesTheSame`, `TargetsBound`. `FrameLoop`: `FramesAdvance`, `TicksFindTheirObjects`, `FirstErrorReported`, `ProgramReturns`.
Each is stated in words where it is defined, and each comes with a
plausible bug in a mapped definition that breaks it (the operators commented "Mutant", listed in `PROJECT.json`).

## 4. The proofs

All theorems hold for every value of the constants under the named assumptions of the module (distinct kinds of
constants are disjoint, bounds are naturals, `ImageCount >= 2`, finitely many handle objects, a lambda draws to a texture of its
thread and to each once).

`ExecutorSubmitProofs` (specification `Spec`: no failing call). The properties are not inductive: that a command buffer is free
depends on who holds the queue's mutex and on how far `timelineValue` is ahead of the semaphore. `IndInv` adds
`MutexInv` (who owns which queue at which position), `TimelineInv` (a held queue has nothing in flight; the atomic is one ahead
exactly while a submission is in flight or its value is allocated; one submission for each queue), `StampInv`
(submissions are numbered in order), `CoverInv` (every point collected, offered to others or published is reached or will be
signalled) and `DrainInv` (what a `destroyBuffer` call has read covers what it must wait for). From it follow `TypeOK`,
`CommandBufferFree`, `NoOrphanWait`, `QueueReusable`, `DrainWillEnd`, `SignalsAdvance` and `DestroyAfterUse`.

The second half of that module is about order, on top of `IndInv`. `OrderInv` says which points guard which work: the waits of a
submission guard the older ones of its executor and, for graphics, the older ones of the chain; so do the waits collected before, the tail pair
and the published point that become such waits. To guard a set of submissions is to wait for one that is at least as young as any given
member: the wait for the last one is enough, since by `OrderInv` it in turn waits for the others. `ChainInv` says
how long a graphics commit has the chain mutex, `HoldInv` in which vector the objects of a command are at each position of `commit`. From them
follow `HeldWhileInFlight`, `TailCovers` and `SubmissionsInOrder`, the safety part of `Implements`: a submission that may complete is older than every
other it is ordered with.

`HandlePoolProofs` (specification `Spec`, any threads and slots, finitely many handle objects). `ExclusiveInv` says that no
two operations under way share a handle, which the handle mutexes and the C++ lifetime rules see to; `OpInv` what an operation may still
rely on of the ids it read under the locks. With them every handle has one `Stake`, the slot it is counted for, that no step of another
thread changes. `CountInv` says that a slot's `refCount` is the cardinality of those that have their stake in it, `FreeInv` that a slot
with count zero is being returned by exactly one thread, `PresentInv` that the object exists while the slot is counted, except in a
constructor that has not filled it. From them follow `RefCountExact`, `HandlesValid` and `NoLeak`.

`ThreadProofs`, first half (specification `LockSpec`: the ordered calls). Every call's request list ascends in the order (class,
id); `Acquire` keeps what is held below what is left. So `OrderKept`, and `NoDeadlock`: in a set of threads that waits only for
its members take the highest lock any of them holds; its owner waits for a lock that is held in the set and is
higher still. The argument is by well-founded choice over the finitely many lock ranks and needs no bound on threads.

`ThreadProofs`, second half (`Spec` of `FrameLoop`, any number of windows, frames and failures, any depth of the queues). A thread's
`Seat` is its position in the order in which `main` starts and joins. `Control` says which threads are there: those up to `started` run,
those up to `joined` are over, and the scenarios exist from before the first start to after the last join (`Attended`, `Furnished`); and that a failure
nobody has reported is in the hands of the thread it befell, while the one that reported first owns the message (`Reported`). `FrameInv` is the
order of a window's frames at any moment: the numbers ascend from the frame shown over the queue to the display, the
hands of the render thread and the queue to it, to the frame the mesh thread builds, and `committed` is no less than what the display's queue holds.
Two bounded queues that drop their oldest keep that order, which is what the lemmas on `Push` and `PopAllLatest` say. From
them follow `TicksFindTheirObjects`, `FirstErrorReported` and the action property `FramesAdvance`; the run `frames` checks them for one window.

`DisplayFrameProofs` (specification `Spec`: nothing fails but what a minimised window makes fail). `IndInv` adds
`FenceInv` (a signaled fence means that neither the engine nor a blit uses the frame's objects; the frame in progress has
reset its fence), `ImageInv` (only the frame in progress has an acquired image, an image is queued exactly while its present is
outstanding, and a signaled `renderFinished` lies between the blit and the present of its image), `LifeInv` (sync objects are
missing only while `displaySize` is 0, which no shown window's size equals, so the next frame recreates them) and `WaitInv`.
From it follow the six invariants of the run `display`.

`CrossDeviceFrameProofs` (specification `Spec`, any number of devices, fences, frames, failed steps and waits that give up).
`Lifecycle` says which of the host memory and the two wrappers exist at each step and that a copy in flight has its
wrapper; `Staging` that what is on the devices is what the wrappers own; `Copies` that the main device's copies carry consecutive
signals up to `mainSignal` and frames in order, so a wait that did not give up at `bridge` means the frame in progress is in host memory, with
the work it waited for. From them follow `CopiesCarryTheFrame`, `HostMemoryOutlivesUse` and `NothingOrphaned`.

`PipelineCommitProofs` (specification `Spec`, any pipelines, executors, queues, buffers and slots). `Blocks` says that a push
constant block belongs to one record or to what is set next; `Slotted` that two buffers have two slots, what a handle refers to exists, and
`destroyBuffer` runs once and for a buffer nothing refers to; `Holds` in which vector of the executor the handle of a drawn mesh is;
`Indices` that an index names a held buffer up to the submission, and afterwards one whose `destroyBuffer` waits for that submission;
`Uniforms` that an executor has its queue alone, with nothing executing there. From them follow `MeshesHeld`,
`IndicesNameTheirBuffers` and `UniformsStableOnQueue`. For `DrawnOnceAsRecorded` the entries are counted: `Counted` says that the meshes of a
pipeline are submitted, in the command buffer of its executor or in its record, `Numbered` that a record ends with the last mesh, `Ordered` that the
entries of a pipeline in a command buffer are numbered from what was submitted before, in order and none twice, `Wanted` that a
mesh's block keeps the index it had at `record()`, since the application writes to a later block by then.

`ImageLayoutProofs` (specification `Spec`, any images, executors, commits, command lists and frames) has three results. The first is `OrderedUse`: two
submissions in flight that touch the same image are ordered by what they wait for. It is the premise under which `ImageLayout` lets the GPU
execute a submission in one step, and no run checks it on its own. The caller waits when its commit begins, the submission comes later: `Awaited` and `Apart`
carry what was true at the beginning over everything others submit and the GPU completes in between, `Chained` says who has the chain mutex and that the
last entry of the chain is behind all graphics work in flight, `Numbered` that ids are not used twice.

The second rests on it: `LayoutsMatch` and `BookkeepingExact`. What a barrier was recorded with is a fact about the past, what the GPU meets one about the
future, and between them are the submissions in flight. `Linked` has the two meet: for every image there is a sequence of layouts `f` with `f[0]` the
layout it is in and `f[n]` the one submission `n` leaves it in; a submission that is over or does not touch the image changes nothing, each of the
others runs (`Runs`) from `f[n - 1]` to `f[n]`, and the command buffer under way runs from the last one to what the field says. `Submit` adds an element,
`Execute` replaces those that are reached, which is right because a submission that can start is the oldest of its images (`ReadyFirst`, from
`OrderedUse`), and one executor at a time records an image (`Alone`). `EffectFits` shows that each command records steps that start from the fields and end
in the fields it leaves; for that, `Fields` says that a displayed image stays in `GENERAL`, so that the displayer's copy of its field is right, `Pass`
that the framebuffer is the target's, and `WrittenFirst` that a shader reads what was written. Both theorems have the hypothesis `Single`: one mip
level and layer, and no target set after the first draw. It is not for the proof's convenience: TLC finds both properties violated with `Mips = 2`, with
`Layers = 2` and with `MaxRetargets = 1` (sections 5 and 6).

The third, `ScreenPresentable`, has no hypothesis: `Frames` says that only the displayer names the image of the swapchain and that each frame ends
with the transition to the presentation, `Own` that the last submission of an executor is behind its others.

`ShaderPipelineProofs` (specification `Spec`, any threads, pipelines, lambdas, functions and throws) has three invariants. The first, `IInv`, is about
the texts. Two compilations of a call site give the same text only if nothing outlives the first one, and most of it says what does not. A
compilation is clean when it began with the parser closed or is in its second pass; of a clean one `CleanInv` says at each point that the open
statements and the texts so far are those of its own lambdas, and that finished they mean, but for their link list (`Bare`), `MeaningOf`, a function of
the call site and of the proxies that are local. For that, `PermInv` says that permissions are empty between compilations and otherwise those of
the lambdas run so far, `NumInv` that `numthreads` is one unless a compute stage is about to be printed, `ShapeInv` where the parser is open.
`TargetInv` carries the locations of the last fragment lambda from its run to `Collect`; `StandInv` and `OutputsInv` that what a text names has
been constructed and will be declared, also in a spoilt compilation, whose own texts are still its own. `SettledInv` and `Grown` are for
the other threads: a proxy or a function that is declared stays declared, so `Frame` leaves the invariants of a thread alone whatever another
one does. `Entered` says that each name in the hardcode files has a first item, which is the one served. `TextsStandAlone` follows.

The second, `LinkInv`, is about what texts are linked with. The claim is that the first item of a call site has the SPIR-V any later one has. A
function's SPIR-V is handed out once to a thread, at its first call (`CalledInv`), so while it waits in the parser or in a link list no item of the
thread calls that function, but for items of the same compilation (`PendingInv`). Hence an earlier item that calls a function a later
item is linked with is of the same compilation (`ItemsInv`), and the items of one stage in one compilation have one list (`NumberInv`). For clean compilations
`OwnInv` and `CompiledInv` carry the lists from the lambdas to the items, and `FreshInv` says that a function nothing had called at the
beginning is in them by the stage that calls it. From `IInv` and `LinkInv` follow `OwnStages` and `ReleaseServesTheSame`.

The third, `BoundInv`, is about locations. `TexturesInv` says that a texture that is constructed is in the order of its thread, `LocatedInv` that a location was
given by some pipeline of the thread that draws there. At `Collect` the texture drawn to is therefore an entry, by `TargetInv` at the shader's location; the last entry
there, which exists since some index has it and indices are finitely many, is that texture or a later one of another pipeline: `TargetsBound`.

Only model-checked: everything
under the faults of `ExecutorSubmit` and `DisplayFrame`, and all liveness (`CommitReturns`, the fairness part of `Implements`, `OperationReturns`, `FrameReturns`, `FramesShown`,
`ProgramReturns`), which the proof system's backends do not reach, as they do not reach ENABLED or induction over data. The recursive
functions of `ShaderCompiler` and `ExampleAssets` are evaluated over bounded inputs for the same reason.

## 5. Disagreements with comments of the code

1. `submit_failed`: a failed submission keeps the new queue in `currentRecordQueue` and the old value, of another
   queue, in `lastSignalValue` (*Executor* 403, 537). `commit` then waits for that pair, and hands it to others, though
   no submission may ever signal it. The comment at *Executor* 527 says the rollback avoids a deadlock ("避免死锁").
2. `display_failed`: `displayFrame` resets the frame's fence (*Display* 595) before an acquire and a commit that can
   fail; then nobody signals it and the frame that next uses it waits without a timeout (589). The comment at 597 says the fence
   is bound to the submission "以保证 binary semaphore 的 wait 完成" (to guarantee the wait completes).

These two are runs. Other places where the models show what the code does and a comment says otherwise, or where a property
holds only because of a bound that is named:

- The destructor logs a timeout of its 5 s wait (*Executor* 101-110) and drops everything (127) under the
  comment "此时 GPU 已完成，安全释放" (the GPU has finished by now, releasing is safe): `HeldWhileInFlight` fails under `FaultSpec`.
- Buffer-to-image copies lock buffer then image, image-to-buffer copies image then buffer
  (`HardwareCommands.cpp` 82 and 193), while the comments at 41 and 139 state an order "以避免死锁" (to avoid deadlock): `NoDeadlock`
  fails under `AllSpec` with `Unordered = {"imageToBuffer"}`.
- `pipeline[output] = image` changes a render target at any time (`RasterizerPipeline.cpp` 771), while
  render pass and framebuffer are made by the first commit only (967-997); the comment at 886 says the field is set to the finalLayout of
  the render pass: `BookkeepingExact` fails with `MaxRetargets = 1`.
- A comment at *Display* 626 counts on a semaphore imported by the display device; its set-up is commented out
  (`HardwareContext.cpp` 62), and what orders the two devices is a wait of the CPU that may give up (`CrossDeviceFrame`, `late`).
- The frame after a set-up that threw copies through a null buffer, because `displaySurface` is assigned before (*Display* 535): `CopyNothing`.
- `numthreads` is reset by the first text of a compute pipeline (`SlangGenerator.cpp` 98), so the bindless text has groups of 1.
- A variable that is only a condition or an argument is not declared in the text that names it, nor is a function that another thread
  declared: `TextsStandAlone` says `accessed` and `built[f]`. A compilation that is aborted in a lambda spoils the texts of
  the first pass of the next one (`Spoilt` in `OwnStages` and `ReleaseServesTheSame`), and the link lists of both its passes, since the second pass takes the
  list of the first (`RasterizedPipelineObject.h` 34-58, `ComputePipelineObject.h` 43-56): `OwnStages` speaks of links only without `dirty`.
- A function's SPIR-V is inserted at its first call in the process (`VariateProxy.h` 899-903, 939-943). A call site that is compiled again, and a second
  stage that calls the same function, is linked without it: its SPIR-V has a call without a body, or, beside functions that do have
  theirs, the linker fails, which `ShaderCodeCompiler.cpp` 189-194 does not look at, and nothing is stored. So `ReleaseServesTheSame` compares
  everything but the link lists and says of those that what is served has no less; that they are equal would fail.
- Render target locations are never reset, and of the entries of one location the last wins (`RasterizerPipeline.cpp` 258-263 in the wrapper, 763-774 of
  the Vulkan one). The comment at `RasterizedPipelineObject.h` 98 says "Textures with renderTargetLocation >= 0 were used as render target outputs", which
  they were, but perhaps of another pipeline: if that texture was constructed later it is bound instead of this pipeline's. `TargetsBound` says
  exactly when.
- A `$WHILE` inside a `$WHILE` takes the end of the outer loop for its own (`NestedWhileHangs` of `MCShaderPipeline`).

## 6. What is not modelled, and why

- Semaphores shared by devices (never set up) and, with them, the early return of `wait(other)`. On two devices the copy of the next
  frame may overwrite the memory while the display device still reads it: `CopiesCarryTheFrame` allows the newer frame.
- Counter values near 2^64 (`timelineValue` is 64 bits wide and grows by one for each submission) and statistics.
- `HardwarePushConstant`'s copy assignment with its sub-ranges, and the readers that load an id without the handle's
  mutex: what a stale id does is decided by the storage library.
- Slots that no other thread can name yet (`HardwareImage`'s constructors, `operator[]`) in `LockOrder`.
- With faults, `RecreateError` may leave no sync objects while the size is unchanged, so `SyncObjectsExist` is claimed only without them.
- Several mip levels or layers, in the run of `ImageLayout`: an upload moves one level, a download, a draw or a blit
  one subresource, and the transition back names all of them with one old layout (`ResourceCommand.cpp` 258, 1466 in *Resources*). The
  module has the parameters `Mips` and `Layers`, and `LayoutsMatch` and `BookkeepingExact` fail as soon as one is 2;
  `ScreenPresentable` is proved for any.
- Failed submissions in `ImageLayout` (the fields stay as recorded), entries made by `HardwareImage::operator[]` (a field of
  their own for the same image, `HardwareImage.cpp` 380), and several images in a swapchain: each has its own field and goes
  through the steps `Screen` does.
- Constructors of handles that throw after they allocated a slot (`HardwareBuffer.cpp` 60, 80: the slot stays allocated), and
  destroyed images, whose display copy is never freed (*Display* 150, commented out).
- Pipelines destroyed or rebuilt while a list holds a pointer to them (`HardwareExecutor.cpp` 183), or in flight (`RasterizerPipeline.cpp` 1002),
  scissors that stay set for the meshes after (1098), and index and vertex buffers that are not the same buffer.
- Memory pools and allocation, which are VMA's (one pool keeps a pointer to a local variable, *Resources* 391), and memory exported
  to other processes.
- Instance and device creation, feature chains, the debug messenger, the name tables of bindings, vertex attributes derived from
  signatures, the text of expressions, the layout of reflections: straight-line code or calls into drivers and compilers.
- The flag of an imported function is one for the process (`VariateProxy.h` 899): modelled as `built`. Libraries given as
  `compilerOption.spvLinkBinary` are not: they are in every link list alike.
- `examples/unorganized` is commented out from the first line to the last, the Slang and GLSL conversions are third-party code, and
  build files do not run.

## 7. What could come next

`ImageLayout` with failed submissions, entries of `operator[]` and the levels callers upload; handles of several threads in `PipelineCommit`
(what `HandlePool` shows of each handle, composed with what a record holds); semaphores shared by devices, if the code sets them up.
