--------------------------- MODULE PipelineCommit ---------------------------
(***************************************************************************)
(* What a pipeline reads when an executor commits it, and what the GPU     *)
(* reads when it executes the submission: the push constants, the one      *)
(* uniform buffer of the pipeline, the recorded meshes, and the bindless   *)
(* index of a bound buffer, which is the number of its storage slot.       *)
(*                                                                         *)
(* Each executor belongs to one application thread, which owns some of the *)
(* pipelines; an executor's list holds pointers to them.  Submissions may  *)
(* complete in any order (the timeline and the chain of ExecutorSubmit     *)
(* would only remove behaviours).  The vertex and the index buffer of a    *)
(* mesh are one buffer; no call fails.                                     *)
(***************************************************************************)
EXTENDS Integers, Sequences, FiniteSets

CONSTANTS
    Pipeline, Raster,   \* pipelines, and those that rasterize
    Executor, Owner,    \* executors; pipeline -> the executor that commits it
    Queue, Buffer, None,
    Slots,              \* the buffer storage has slots 1 .. Slots
    MaxRecords,         \* bound: meshes recorded per pipeline
    MaxList,            \* bound: pipelines in a list
    MaxUniforms,        \* bound: uniform values the application writes
    MaxCommits          \* bound: no commit begins after this many submissions

ASSUME PipelineAssumption ==
    /\ Raster \subseteq Pipeline
    /\ Owner \in [Pipeline -> Executor]
    /\ None \notin Buffer \cup Queue

ASSUME PipelineBounds ==
    Slots \in Nat /\ MaxRecords \in Nat /\ MaxList \in Nat /\ MaxUniforms \in Nat /\ MaxCommits \in Nat

VARIABLES
    held,           \* buffers the application has a handle of
    slot,           \* the storage slot of each buffer, 0 when it does not exist
    element,        \* the descriptor array: slot -> the buffer last written there
    data,           \* push constant blocks: the index stored in each
    pushConstant,   \* pipeline -> its current block (pushConstant, tempPushConstant)
    tempUBO, uboBuffer, uploadedBy,  \* uniforms: CPU copy, GPU copy, who wrote it
    geomMeshesRecord,
    recorded,       \* history: the number of meshes recorded
    commandList, queue, position, draws,  \* an executor's list, and its commit()
    pendingResources, deferredReleaseQueue, releasing,
    destroying,     \* per executor: the destroyBuffer call its thread is in
    jobs,           \* submissions the GPU has not completed; first is history: how
                    \* many meshes of each pipeline were submitted before
    drawn,          \* history: the number of meshes submitted
    commits         \* submissions made

slotVars == <<held, slot, element>>
pipeVars == <<data, pushConstant, tempUBO, geomMeshesRecord, recorded>>
uboVars  == <<uboBuffer, uploadedBy>>
execVars == <<commandList, queue, position, draws>>
heldVars == <<pendingResources, deferredReleaseQueue, releasing, destroying>>
vars == <<slotVars, pipeVars, uboVars, execVars, heldVars, jobs, drawn, commits>>

Index == 0 .. Slots

\* A push constant block; every record() starts another one.
Block == Pipeline \X (1 .. MaxRecords + 1)

\* wants is history: the index the application had bound at record().
Mesh == [number : 1 .. MaxRecords, buffer : Buffer, block : Block, wants : Index]

\* The index is in the command buffer.  The uniforms and the descriptor element
\* are read when the submission executes; here is what they were at the commit.
Draw == [pipeline : Pipeline, number : 0 .. MaxRecords, mesh : Buffer \cup {None},
         wants : Index, index : Index, bound : Buffer \cup {None},
         uniforms : 0 .. MaxUniforms]

-----------------------------------------------------------------------------
\* Handles of buffers: whoever drops the last one calls destroyBuffer.

Recorded(p) == {geomMeshesRecord[p][i] : i \in DOMAIN geomMeshesRecord[p]}

Kept(e) == pendingResources[e] \cup releasing[e]
               \cup UNION {d.buffers : d \in deferredReleaseQueue[e]}

Referenced(b) ==
    \/ b \in held
    \/ \E p \in Pipeline : \E m \in Recorded(p) : m.buffer = b
    \/ \E e \in Executor : b \in Kept(e)

Completed(d) == \A j \in jobs : j.stamp # d.stamp

\* Mutant: destroyBuffer does not wait.
DestroyAtOnce(b) == [buffer |-> b, waits |-> {}]

\* destroyBuffer reads the timeline values: what must have completed.
DestroyBuffer(b) == [buffer |-> b, waits |-> {j.stamp : j \in jobs}]

\* After a handle of b went away.
DropLast(e, b) ==
    destroying' = IF Referenced(b)' THEN destroying
                  ELSE [destroying EXCEPT ![e] = DestroyBuffer(b)]

\* Outside any call.
Idle(e) == queue[e] = None /\ destroying[e] = None

\* Binding stores an index and no handle.  The application keeps a bound buffer
\* until the commit that reads the index, and binds again before the next use.
Unread(b) ==
    \/ \E p \in Pipeline : \E m \in Recorded(p) : data[m.block] = slot[b]
    \/ \E e \in Executor :
           \/ \E i \in DOMAIN commandList[e] : data[pushConstant[commandList[e][i]]] = slot[b]
           \/ \E i \in DOMAIN draws[e] : draws[e][i].bound = b

Bound(p) ==
    LET i == data[pushConstant[p]]
    IN  i # 0 => element[i] \in held /\ slot[element[i]] = i

-----------------------------------------------------------------------------
\* The constructor gives a pipeline a block and a uniform buffer.
FirstBlock(p) == <<p, 1>>

Init ==
    /\ held = {} /\ slot = [b \in Buffer |-> 0]
    /\ element = [i \in 1 .. Slots |-> None]
    /\ data = [k \in Block |-> 0]
    /\ pushConstant = [p \in Pipeline |-> FirstBlock(p)]
    /\ tempUBO = [p \in Pipeline |-> 0]
    /\ uboBuffer = [p \in Pipeline |-> 0]
    /\ uploadedBy = [p \in Pipeline |-> None]
    /\ geomMeshesRecord = [p \in Pipeline |-> <<>>]
    /\ recorded = [p \in Pipeline |-> 0]
    /\ commandList = [e \in Executor |-> <<>>]
    /\ queue = [e \in Executor |-> None]
    /\ position = [e \in Executor |-> 0]
    /\ draws = [e \in Executor |-> <<>>]
    /\ pendingResources = [e \in Executor |-> {}]
    /\ deferredReleaseQueue = [e \in Executor |-> {}]
    /\ releasing = [e \in Executor |-> {}]
    /\ destroying = [e \in Executor |-> None]
    /\ jobs = {}
    /\ drawn = [p \in Pipeline |-> 0]
    /\ commits = 0

-----------------------------------------------------------------------------
\* Buffers.

CreateBuffer(e, b) ==
    /\ Idle(e) /\ slot[b] = 0
    /\ \E i \in 1 .. Slots :
        /\ \A c \in Buffer : slot[c] # i
        /\ slot' = [slot EXCEPT ![b] = i]
    /\ held' = held \cup {b}
    /\ UNCHANGED <<element, pipeVars, uboVars, execVars, heldVars, jobs, drawn, commits>>

ReleaseBuffer(e, b) ==
    /\ Idle(e) /\ b \in held /\ ~Unread(b)
    /\ held' = held \ {b}
    /\ UNCHANGED <<slot, element, pipeVars, uboVars, execVars, pendingResources,
                   deferredReleaseQueue, releasing, jobs, drawn, commits>>
    /\ DropLast(e, b)

\* The wait is over: the buffer is destroyed and its slot given back, while the
\* array element keeps naming it.
FinishDestroy(e) ==
    /\ destroying[e] # None
    /\ \A j \in jobs : j.stamp \notin destroying[e].waits
    /\ slot' = [slot EXCEPT ![destroying[e].buffer] = 0]
    /\ destroying' = [destroying EXCEPT ![e] = None]
    /\ UNCHANGED <<held, element, pipeVars, uboVars, execVars, pendingResources,
                   deferredReleaseQueue, releasing, jobs, drawn, commits>>

-----------------------------------------------------------------------------
\* Calls on a pipeline.

\* storeDescriptor writes the array element of the slot, at every call; the index
\* is the number of the slot.
StoreDescriptor(b) == [element EXCEPT ![slot[b]] = b]

WriteIndex(p, i) == [data EXCEPT ![pushConstant[p]] = i]

\* pipeline[name] = buffer.
SetResource(p, b) ==
    /\ Idle(Owner[p]) /\ b \in held
    /\ element' = StoreDescriptor(b)
    /\ data' = WriteIndex(p, slot[b])
    /\ UNCHANGED <<held, slot, pushConstant, tempUBO, geomMeshesRecord, recorded,
                   uboVars, execVars, heldVars, jobs, drawn, commits>>

SetUniform(p) ==
    /\ Idle(Owner[p]) /\ tempUBO[p] < MaxUniforms
    /\ tempUBO' = [tempUBO EXCEPT ![p] = @ + 1]
    /\ UNCHANGED <<slotVars, data, pushConstant, geomMeshesRecord, recorded,
                   uboVars, execVars, heldVars, jobs, drawn, commits>>

\* A new block, with nothing the application wrote.
FreshBlock(p) == <<p, recorded[p] + 2>>

Record(p, b) ==
    /\ p \in Raster /\ Idle(Owner[p]) /\ b \in held /\ Bound(p)
    /\ recorded[p] < MaxRecords
    /\ LET mesh == [number |-> recorded[p] + 1, buffer |-> b,
                    block |-> pushConstant[p], wants |-> data[pushConstant[p]]]
       IN  geomMeshesRecord' = [geomMeshesRecord EXCEPT ![p] = Append(@, mesh)]
    /\ recorded' = [recorded EXCEPT ![p] = @ + 1]
    /\ pushConstant' = [pushConstant EXCEPT ![p] = FreshBlock(p)]
    /\ UNCHANGED <<slotVars, data, tempUBO, uboVars, execVars, heldVars, jobs,
                   drawn, commits>>

\* executor << pipeline(...): the pointer.
Push(e, p) ==
    /\ Idle(e) /\ Owner[p] = e /\ Bound(p)
    /\ Len(commandList[e]) < MaxList
    /\ commandList' = [commandList EXCEPT ![e] = Append(@, p)]
    /\ UNCHANGED <<slotVars, pipeVars, uboVars, queue, position, draws, heldVars,
                   jobs, drawn, commits>>

-----------------------------------------------------------------------------
\* commit().

\* Mutant: takes a queue that is still executing.
Unlocked(q) == \A e \in Executor : queue[e] # q

\* pickQueueAndCommit: the queue's mutex is free and its timeline has come to rest.
QueueIdle(q) == /\ \A e \in Executor : queue[e] # q
                /\ \A j \in jobs : j.queue # q

Pick(e, q) ==
    /\ Idle(e) /\ commandList[e] # <<>> /\ commits < MaxCommits
    /\ QueueIdle(q)
    /\ queue' = [queue EXCEPT ![e] = q]
    /\ position' = [position EXCEPT ![e] = 1]
    /\ LET done == {d \in deferredReleaseQueue[e] : Completed(d)}
       IN  /\ deferredReleaseQueue' = [deferredReleaseQueue EXCEPT ![e] = @ \ done]
           /\ releasing' = [releasing EXCEPT ![e] = UNION {d.buffers : d \in done}]
    /\ UNCHANGED <<slotVars, pipeVars, uboVars, commandList, draws,
                   pendingResources, destroying, jobs, drawn, commits>>

\* cleanupCompletedResources drops the handles of completed submissions.
Cleanup(e, b) ==
    /\ b \in releasing[e] /\ destroying[e] = None
    /\ releasing' = [releasing EXCEPT ![e] = @ \ {b}]
    /\ UNCHANGED <<slotVars, pipeVars, uboVars, execVars, pendingResources,
                   deferredReleaseQueue, jobs, drawn, commits>>
    /\ DropLast(e, b)

Recording(e) == queue[e] # None /\ releasing[e] = {} /\ destroying[e] = None

\* tempUBO is copied into the mapped uniform buffer, which the pipeline's own
\* descriptor set names.
Upload(p) == tempUBO[p]

DrawOf(p, number, mesh, block, wants) ==
    LET i == data[block]
    IN  [pipeline |-> p, number |-> number, mesh |-> mesh, wants |-> wants, index |-> i,
         bound |-> IF i = 0 THEN None ELSE element[i], uniforms |-> Upload(p)]

\* A compute pipeline dispatches once, with what is set at the commit.
Dispatch(p) == <<DrawOf(p, 0, None, pushConstant[p], data[pushConstant[p]])>>

\* Mutant: the loop draws the first mesh every time.
DrawFirstMesh(p) ==
    [i \in DOMAIN geomMeshesRecord[p] |->
        LET m == geomMeshesRecord[p][1] IN DrawOf(p, m.number, m.buffer, m.block, m.wants)]

\* A rasterizer draws what was recorded.
DrawMeshes(p) ==
    [i \in DOMAIN geomMeshesRecord[p] |->
        LET m == geomMeshesRecord[p][i] IN DrawOf(p, m.number, m.buffer, m.block, m.wants)]

\* Mutant: no ResourceHolderCommand.
NoHolder(p) == {}

\* The ResourceHolderCommand of a rasterizer.
Holder(p) == {m.buffer : m \in Recorded(p)}

RecordAfter(p) == <<>>

\* The blocks that go with the record.
FreedBlocks(p) == {m.block : m \in Recorded(p)} \ {pushConstant[p]}

\* getRequiredBarriers and commitCommand of the next pipeline of the list; it is
\* created by its first commit.
CommitCommand(e) ==
    /\ Recording(e) /\ position[e] <= Len(commandList[e])
    /\ LET p == commandList[e][position[e]]
       IN  /\ draws' = [draws EXCEPT ![e] = @ \o (IF p \in Raster THEN DrawMeshes(p) ELSE Dispatch(p))]
           /\ uboBuffer' = [uboBuffer EXCEPT ![p] = Upload(p)]
           /\ uploadedBy' = [uploadedBy EXCEPT ![p] = queue[e]]
           /\ pendingResources' = [pendingResources EXCEPT ![e] = @ \cup Holder(p)]
           /\ geomMeshesRecord' = [geomMeshesRecord EXCEPT ![p] = RecordAfter(p)]
           /\ data' = [k \in Block |-> IF k \in FreedBlocks(p) THEN 0 ELSE data[k]]
    /\ position' = [position EXCEPT ![e] = @ + 1]
    /\ UNCHANGED <<slotVars, pushConstant, tempUBO, recorded, commandList,
                   queue, deferredReleaseQueue, releasing, destroying, jobs,
                   drawn, commits>>

\* Where in a command buffer a pipeline draws a mesh.
MeshesOf(p, s) == {i \in DOMAIN s : s[i].pipeline = p /\ s[i].number # 0}

\* vkQueueSubmit; the holders wait for the signalled value.
Submit(e) ==
    /\ Recording(e) /\ position[e] > Len(commandList[e])
    /\ jobs' = jobs \cup {[stamp |-> commits, queue |-> queue[e], draws |-> draws[e], first |-> drawn]}
    /\ deferredReleaseQueue' = [deferredReleaseQueue EXCEPT ![e] =
           @ \cup {[stamp |-> commits, buffers |-> pendingResources[e]]}]
    /\ pendingResources' = [pendingResources EXCEPT ![e] = {}]
    /\ drawn' = [p \in Pipeline |-> drawn[p] + Cardinality(MeshesOf(p, draws[e]))]
    /\ draws' = [draws EXCEPT ![e] = <<>>]
    /\ queue' = [queue EXCEPT ![e] = None]
    /\ commandList' = [commandList EXCEPT ![e] = <<>>]
    /\ position' = [position EXCEPT ![e] = 0]
    /\ commits' = commits + 1
    /\ UNCHANGED <<slotVars, pipeVars, uboVars, releasing, destroying>>

\* The GPU.
Complete(j) ==
    /\ jobs' = jobs \ {j}
    /\ UNCHANGED <<slotVars, pipeVars, uboVars, execVars, heldVars, drawn, commits>>

-----------------------------------------------------------------------------
Next ==
    \/ \E e \in Executor :
        \/ \E b \in Buffer : CreateBuffer(e, b) \/ ReleaseBuffer(e, b) \/ Cleanup(e, b)
        \/ \E p \in Pipeline : Push(e, p)
        \/ \E q \in Queue : Pick(e, q)
        \/ FinishDestroy(e) \/ CommitCommand(e) \/ Submit(e)
    \/ \E p \in Pipeline :
        \/ SetUniform(p)
        \/ \E b \in Buffer : SetResource(p, b) \/ Record(p, b)
    \/ \E j \in jobs : Complete(j)

Spec == Init /\ [][Next]_vars

-----------------------------------------------------------------------------
(***************************************************************************)
(* Properties                                                              *)
(***************************************************************************)

\* A buffer that a submission draws from has a handle somewhere until the GPU is
\* done with it, whatever the application drops after record(): the handle goes
\* from the record to pendingResources to deferredReleaseQueue and is dropped only
\* for a completed submission.
MeshesHeld ==
    \A j \in jobs : \A i \in DOMAIN j.draws :
        LET b == j.draws[i].mesh IN b # None => Referenced(b) /\ slot[b] # 0

\* While a submission executes, an index it reads names the buffer it named at the
\* commit, although the slot numbers are reused: destroyBuffer gives the slot back
\* after its wait, and a new buffer in the slot rewrites the element only then.
IndicesNameTheirBuffers ==
    \A j \in jobs : \A i \in DOMAIN j.draws :
        LET d == j.draws[i]
        IN  d.index # 0 => element[d.index] = d.bound /\ slot[d.bound] = d.index

\* A pipeline has one uniform buffer and a commit overwrites it at once: it may do
\* so under a submission that still executes, but only when it runs on another
\* queue (ComputePipeline.cpp:370); on one queue a submission sees its uniforms.
UniformsStableOnQueue ==
    \A j \in jobs : \A i \in DOMAIN j.draws :
        LET d == j.draws[i]
        IN  uboBuffer[d.pipeline] = d.uniforms \/ uploadedBy[d.pipeline] # j.queue

\* In command buffer s pipeline p draws the meshes it recorded after the first n,
\* from the next one on, in order and none twice.
InOrder(p, s, n) ==
    \A i \in MeshesOf(p, s) : s[i].number = n + Cardinality({k \in MeshesOf(p, s) : k <= i})

\* The meshes of a pipeline are submitted in the order they were recorded, each
\* once: a submission goes on where the ones before it ended, and what is recorded
\* and not submitted is the rest.  Each is drawn with the push constants the
\* application had set when it recorded it (also when the pipeline is twice in a
\* list, and when more is set before commit).
DrawnOnceAsRecorded ==
    /\ \A j \in jobs :
           /\ \A p \in Pipeline : InOrder(p, j.draws, j.first[p])
           /\ \A i \in DOMAIN j.draws : j.draws[i].index = j.draws[i].wants
    /\ \A p \in Pipeline : queue[Owner[p]] = None =>
           /\ drawn[p] + Len(geomMeshesRecord[p]) = recorded[p]
           /\ \A i \in DOMAIN geomMeshesRecord[p] :
                  geomMeshesRecord[p][i].number = drawn[p] + i

=============================================================================
