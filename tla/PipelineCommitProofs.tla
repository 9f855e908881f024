------------------------ MODULE PipelineCommitProofs ------------------------
(***************************************************************************)
(* What a submission reads while it executes, for any pipelines, threads,  *)
(* queues, buffers and slots: its meshes exist, its indices name their     *)
(* buffers, and on one queue its uniforms are what it was recorded with.   *)
(*                                                                         *)
(* IInv treats a sequence as the set of its entries.  On top of it OnceInv *)
(* counts them: each mesh is drawn once, in order and as it was recorded.  *)
(***************************************************************************)
EXTENDS PipelineCommit, SequenceTheorems, FiniteSetTheorems, TLAPS

Entries(s) == {s[i] : i \in DOMAIN s}

Holding == [stamp : Nat, buffers : SUBSET Buffer]
Destruction == [buffer : Buffer, waits : SUBSET Nat]
Job == [stamp : Nat, queue : Queue, draws : Seq(Draw), first : [Pipeline -> Nat]]

Types ==
    /\ held \in SUBSET Buffer
    /\ slot \in [Buffer -> Index]
    /\ element \in [1 .. Slots -> Buffer \cup {None}]
    /\ data \in [Block -> Index]
    /\ recorded \in [Pipeline -> 0 .. MaxRecords]
    /\ pushConstant = [p \in Pipeline |-> <<p, recorded[p] + 1>>]
    /\ geomMeshesRecord \in [Pipeline -> Seq(Mesh)]
    /\ tempUBO \in [Pipeline -> 0 .. MaxUniforms]
    /\ uboBuffer \in [Pipeline -> 0 .. MaxUniforms]
    /\ uploadedBy \in [Pipeline -> Queue \cup {None}]
    /\ commandList \in [Executor -> Seq(Pipeline)]
    /\ queue \in [Executor -> Queue \cup {None}]
    /\ position \in [Executor -> Nat]
    /\ \A e \in Executor : queue[e] # None => position[e] # 0
    /\ draws \in [Executor -> Seq(Draw)]
    /\ pendingResources \in [Executor -> SUBSET Buffer]
    /\ releasing \in [Executor -> SUBSET Buffer]
    /\ deferredReleaseQueue \in [Executor -> SUBSET Holding]
    /\ destroying \in [Executor -> Destruction \cup {None}]
    /\ jobs \in SUBSET Job
    /\ drawn \in [Pipeline -> Nat]
    /\ commits \in Nat

\* A block belongs to one pipeline, and to its record or to what is set next.
Blocks ==
    /\ \A p \in Pipeline : \A m \in Recorded(p) : m.block[1] = p /\ m.block[2] <= recorded[p]
    /\ \A k \in Block : k[2] > recorded[k[1]] + 1 => data[k] = 0

Destroys(e, b) == destroying[e] # None /\ destroying[e].buffer = b

\* Two buffers have two slots; what has a handle exists; destroyBuffer is called once,
\* for a buffer nothing refers to.
Slotted ==
    /\ \A b, c \in Buffer : slot[b] = slot[c] /\ slot[b] # 0 => b = c
    /\ \A b \in Buffer : Referenced(b) => slot[b] # 0
    /\ \A e \in Executor, b \in Buffer : Destroys(e, b) =>
           /\ ~Referenced(b) /\ slot[b] # 0
           /\ \A f \in Executor : Destroys(f, b) => f = e

\* The handle of a mesh goes from the record to the executor's vectors.
Holds ==
    /\ \A e \in Executor : \A w \in Entries(draws[e]) :
           w.mesh # None => w.mesh \in pendingResources[e]
    /\ \A j \in jobs : \E e \in Executor : \E d \in deferredReleaseQueue[e] :
           d.stamp = j.stamp /\ \A w \in Entries(j.draws) : w.mesh # None => w.mesh \in d.buffers

Names(i, b) == element[i] = b /\ b \in Buffer /\ slot[b] = i

NamesHeld(i) == i # 0 => element[i] \in held /\ slot[element[i]] = i

\* An index names a buffer the application keeps until the submission, ...
RecordedIndices == \A p \in Pipeline : \A m \in Recorded(p) : NamesHeld(data[m.block])

ListedIndices ==
    \A e \in Executor : \A p \in Entries(commandList[e]) : NamesHeld(data[pushConstant[p]])

DrawnIndices ==
    \A e \in Executor : \A w \in Entries(draws[e]) :
        w.index # 0 => Names(w.index, w.bound) /\ w.bound \in held

\* ... and afterwards a destroyBuffer of that buffer waits for the submission.
ReadIndices ==
    \A j \in jobs : \A w \in Entries(j.draws) : w.index # 0 =>
        /\ Names(w.index, w.bound)
        /\ \A e \in Executor : Destroys(e, w.bound) => j.stamp \in destroying[e].waits

Indices == RecordedIndices /\ ListedIndices /\ DrawnIndices /\ ReadIndices

Owned == \A e \in Executor : \A p \in Entries(commandList[e]) : Owner[p] = e

\* An executor that has a queue has it alone, with nothing executing there.
QueueAlone ==
    \A e \in Executor : queue[e] # None =>
        /\ \A j \in jobs : j.queue # queue[e]
        /\ \A f \in Executor : queue[f] = queue[e] => f = e

\* What is being recorded has the uniforms that are set, and uploaded.
DrawnUniforms ==
    \A e \in Executor : \A w \in Entries(draws[e]) :
        /\ queue[e] # None /\ Owner[w.pipeline] = e
        /\ w.uniforms = uboBuffer[w.pipeline] /\ w.uniforms = tempUBO[w.pipeline]
        /\ uploadedBy[w.pipeline] = queue[e]

ReadUniforms ==
    \A j \in jobs : \A w \in Entries(j.draws) :
        uboBuffer[w.pipeline] = w.uniforms \/ uploadedBy[w.pipeline] # j.queue

Uniforms == Owned /\ QueueAlone /\ DrawnUniforms /\ ReadUniforms

IInv == Types /\ Blocks /\ Slotted /\ Holds /\ Indices /\ Uniforms

-----------------------------------------------------------------------------
(***************************************************************************)
(* Lemmas                                                                  *)
(***************************************************************************)

LEMMA EntriesAppend ==
    ASSUME NEW S, NEW s \in Seq(S), NEW x \in S
    PROVE  Entries(Append(s, x)) = Entries(s) \cup {x}
<1>1. /\ DOMAIN Append(s, x) = 1 .. Len(s) + 1 /\ DOMAIN s = 1 .. Len(s) /\ Len(s) \in Nat
      /\ \A i \in DOMAIN s : Append(s, x)[i] = s[i]
      /\ Append(s, x)[Len(s) + 1] = x
    OBVIOUS
<1>2. 1 .. Len(s) + 1 = (1 .. Len(s)) \cup {Len(s) + 1}
    BY <1>1
<1> QED BY <1>1, <1>2 DEF Entries

LEMMA EntriesConcat ==
    ASSUME NEW S, NEW s \in Seq(S), NEW t \in Seq(S)
    PROVE  Entries(s \o t) = Entries(s) \cup Entries(t)
<1>1. /\ DOMAIN (s \o t) = 1 .. Len(s) + Len(t) /\ Len(s) \in Nat /\ Len(t) \in Nat
      /\ DOMAIN s = 1 .. Len(s) /\ DOMAIN t = 1 .. Len(t)
      /\ \A i \in 1 .. Len(s) + Len(t) :
             (s \o t)[i] = IF i <= Len(s) THEN s[i] ELSE t[i - Len(s)]
    OBVIOUS
<1>2. ASSUME NEW x \in Entries(s \o t) PROVE x \in Entries(s) \cup Entries(t)
    <2>1. PICK i \in 1 .. Len(s) + Len(t) : x = (s \o t)[i]
        BY <1>1 DEF Entries
    <2>2. CASE i <= Len(s)
        BY <1>1, <2>1, <2>2 DEF Entries
    <2>3. CASE ~(i <= Len(s))
        <3>1. i - Len(s) \in DOMAIN t /\ x = t[i - Len(s)]
            BY <1>1, <2>1, <2>3
        <3> QED BY <3>1 DEF Entries
    <2> QED BY <2>2, <2>3
<1>3. ASSUME NEW i \in DOMAIN s PROVE s[i] \in Entries(s \o t)
    <2>1. i \in DOMAIN (s \o t) /\ (s \o t)[i] = s[i]
        BY <1>1
    <2> QED BY <2>1 DEF Entries
<1>4. ASSUME NEW i \in DOMAIN t PROVE t[i] \in Entries(s \o t)
    <2>1. i + Len(s) \in DOMAIN (s \o t) /\ (s \o t)[i + Len(s)] = t[i]
        BY <1>1
    <2> QED BY <2>1 DEF Entries
<1> QED BY <1>2, <1>3, <1>4 DEF Entries

LEMMA EntriesEmpty == Entries(<<>>) = {}
BY DEF Entries

LEMMA EntriesOf ==
    ASSUME NEW S, NEW s \in Seq(S), NEW x \in Entries(s)
    PROVE  x \in S
BY DEF Entries

LEMMA BlockIs ==
    ASSUME NEW p \in Pipeline, NEW n \in 1 .. MaxRecords + 1
    PROVE  <<p, n>> \in Block /\ <<p, n>>[1] = p /\ <<p, n>>[2] = n
BY DEF Block

LEMMA CurrentBlock ==
    ASSUME Types, NEW p \in Pipeline
    PROVE  /\ pushConstant[p] \in Block /\ pushConstant[p][1] = p
           /\ pushConstant[p][2] = recorded[p] + 1 /\ recorded[p] \in Nat
           /\ data[pushConstant[p]] \in Index
<1>1. recorded[p] + 1 \in 1 .. MaxRecords + 1 /\ recorded[p] \in Nat
    BY PipelineBounds DEF Types
<1>2. pushConstant[p] = <<p, recorded[p] + 1>>
    BY DEF Types
<1>3. pushConstant[p] \in Block
    BY <1>1, <1>2, BlockIs
<1> QED BY <1>1, <1>2, <1>3, BlockIs DEF Types

\* What the pipeline at a position of the list adds to the command buffer.
DrawsOf(p) == IF p \in Raster THEN DrawMeshes(p) ELSE Dispatch(p)

LEMMA DrawType ==
    ASSUME Types, NEW p \in Pipeline, NEW number \in 0 .. MaxRecords,
           NEW mesh \in Buffer \cup {None}, NEW block \in Block, NEW wants \in Index
    PROVE  DrawOf(p, number, mesh, block, wants) \in Draw
<1>1. data[block] \in Index /\ tempUBO[p] \in 0 .. MaxUniforms
    BY DEF Types
<1>2. (IF data[block] = 0 THEN None ELSE element[data[block]]) \in Buffer \cup {None}
    BY <1>1, PipelineBounds DEF Types, Index
<1> QED BY <1>1, <1>2 DEF DrawOf, Draw, Upload

LEMMA RecordedMesh ==
    ASSUME Types, NEW p \in Pipeline, NEW m \in Recorded(p)
    PROVE  /\ m \in Mesh /\ m.number \in 1 .. MaxRecords /\ m.buffer \in Buffer
           /\ m.block \in Block /\ m.wants \in Index /\ data[m.block] \in Index
<1>1. m \in Mesh
    BY DEF Types, Recorded
<1> QED BY <1>1 DEF Mesh, Types

LEMMA DrawsType ==
    ASSUME Types, NEW p \in Pipeline
    PROVE  DrawsOf(p) \in Seq(Draw)
<1>1. CASE p \in Raster
    <2> DEFINE s == geomMeshesRecord[p]
    <2>1. s \in Seq(Mesh) /\ Len(s) \in Nat /\ DOMAIN s = 1 .. Len(s)
        BY DEF Types
    <2>2. ASSUME NEW i \in DOMAIN s
          PROVE  DrawOf(p, s[i].number, s[i].buffer, s[i].block, s[i].wants) \in Draw
        <3>1. s[i] \in Recorded(p)
            BY DEF Recorded
        <3>2. s[i].number \in 0 .. MaxRecords
            BY <3>1, RecordedMesh
        <3> QED BY <3>1, <3>2, RecordedMesh, DrawType
    <2>3. DrawMeshes(p) \in [1 .. Len(s) -> Draw]
        BY <2>1, <2>2 DEF DrawMeshes
    <2>4. DrawMeshes(p) \in Seq(Draw)
        BY <2>1, <2>3, SeqDef
    <2> QED BY <1>1, <2>4 DEF DrawsOf
<1>2. CASE p \notin Raster
    <2>1. DrawOf(p, 0, None, pushConstant[p], data[pushConstant[p]]) \in Draw
        <3>1. 0 \in 0 .. MaxRecords
            BY PipelineBounds
        <3> QED BY <3>1, CurrentBlock, DrawType
    <2> QED BY <1>2, <2>1 DEF DrawsOf, Dispatch
<1> QED BY <1>1, <1>2

\* Each reads the block of a recorded mesh, or the current one.
LEMMA DrawsRead ==
    ASSUME Types, NEW p \in Pipeline, NEW w \in Entries(DrawsOf(p))
    PROVE  /\ w.pipeline = p /\ w.uniforms = tempUBO[p]
           /\ w.mesh # None => p \in Raster /\ w.mesh \in Holder(p)
           /\ \E k \in Block :
                 /\ k = pushConstant[p] \/ \E m \in Recorded(p) : k = m.block
                 /\ w.index = data[k]
                 /\ w.bound = IF data[k] = 0 THEN None ELSE element[data[k]]
<1>1. CASE p \in Raster
    <2>1. PICK i \in DOMAIN geomMeshesRecord[p] :
              LET m == geomMeshesRecord[p][i]
              IN  w = DrawOf(p, m.number, m.buffer, m.block, m.wants)
        BY <1>1 DEF DrawsOf, DrawMeshes, Entries
    <2>2. geomMeshesRecord[p][i] \in Recorded(p)
        BY DEF Recorded
    <2>3. geomMeshesRecord[p][i].block \in Block
        BY <2>2, RecordedMesh
    <2> QED BY <1>1, <2>1, <2>2, <2>3 DEF DrawOf, Upload, Holder
<1>2. CASE p \notin Raster
    <2>1. w = DrawOf(p, 0, None, pushConstant[p], data[pushConstant[p]])
        BY <1>2 DEF DrawsOf, Dispatch, Entries
    <2> QED BY <2>1, CurrentBlock DEF DrawOf, Upload
<1> QED BY <1>1, <1>2

-----------------------------------------------------------------------------
(***************************************************************************)
(* Types                                                                   *)
(***************************************************************************)

LEMMA TypesInit == Init => Types
<1> SUFFICES ASSUME Init PROVE Types
    OBVIOUS
<1>1. 0 \in Index /\ 0 \in 0 .. MaxRecords /\ 0 \in 0 .. MaxUniforms
    BY PipelineBounds DEF Index
<1>2. pushConstant = [p \in Pipeline |-> <<p, recorded[p] + 1>>]
    BY DEF Init, FirstBlock
<1> QED BY <1>1, <1>2 DEF Init, Types

LEMMA DestroyType ==
    ASSUME Types, NEW b \in Buffer
    PROVE  DestroyBuffer(b) \in Destruction
<1>1. {j.stamp : j \in jobs} \in SUBSET Nat
    BY DEF Types, Job
<1> QED BY <1>1 DEF DestroyBuffer, Destruction

LEMMA NextOf ==
    ASSUME Types, NEW e \in Executor, CommitCommand(e)
    PROVE  /\ commandList[e][position[e]] \in Pipeline
           /\ commandList[e][position[e]] \in Entries(commandList[e])
<1>1. commandList[e] \in Seq(Pipeline) /\ position[e] \in Nat /\ position[e] # 0
    BY DEF CommitCommand, Recording, Types
<1>2. position[e] <= Len(commandList[e])
    BY DEF CommitCommand
<1>3. position[e] \in DOMAIN commandList[e]
    BY <1>1, <1>2
<1> QED BY <1>1, <1>3 DEF Entries

LEMMA MeshesFinite ==
    ASSUME NEW p, NEW s \in Seq(Draw)
    PROVE  IsFiniteSet(MeshesOf(p, s)) /\ Cardinality(MeshesOf(p, s)) \in Nat
<1>1. DOMAIN s = 1 .. Len(s) /\ Len(s) \in Nat
    OBVIOUS
<1>2. IsFiniteSet(1 .. Len(s))
    BY <1>1, FS_Interval
<1>3. MeshesOf(p, s) \in SUBSET (1 .. Len(s))
    BY <1>1 DEF MeshesOf
<1>4. IsFiniteSet(MeshesOf(p, s))
    BY <1>2, <1>3, FS_Subset
<1> QED BY <1>4, FS_CardinalityType

LEMMA TypesStep ==
    ASSUME Types, [Next]_vars
    PROVE  Types'
<1> USE DEF slotVars, pipeVars, uboVars, execVars, heldVars
<1>1. ASSUME NEW e \in Executor, NEW b \in Buffer, CreateBuffer(e, b) PROVE Types'
    <2>1. PICK i \in 1 .. Slots : slot' = [slot EXCEPT ![b] = i]
        BY <1>1 DEF CreateBuffer
    <2>2. i \in Index
        BY PipelineBounds DEF Index
    <2>3. slot' \in [Buffer -> Index] /\ held' \in SUBSET Buffer
        BY <1>1, <2>1, <2>2 DEF CreateBuffer, Types
    <2> QED BY <1>1, <2>3 DEF CreateBuffer, Types
<1>2. ASSUME NEW e \in Executor, NEW b \in Buffer, ReleaseBuffer(e, b) PROVE Types'
    BY <1>2, DestroyType DEF ReleaseBuffer, DropLast, Types
<1>3. ASSUME NEW e \in Executor, NEW b \in Buffer, Cleanup(e, b) PROVE Types'
    BY <1>3, DestroyType DEF Cleanup, DropLast, Types
<1>4. ASSUME NEW e \in Executor, NEW p \in Pipeline, Push(e, p) PROVE Types'
    <2>1. commandList[e] \in Seq(Pipeline) /\ Append(commandList[e], p) \in Seq(Pipeline)
        BY DEF Types
    <2>2. commandList' \in [Executor -> Seq(Pipeline)]
        BY <1>4, <2>1 DEF Push, Types
    <2> QED BY <1>4, <2>2 DEF Push, Types
<1>5. ASSUME NEW e \in Executor, NEW q \in Queue, Pick(e, q) PROVE Types'
    <2>1. UNION {d.buffers : d \in {c \in deferredReleaseQueue[e] : Completed(c)}} \in SUBSET Buffer
        BY DEF Types, Holding
    <2>2. deferredReleaseQueue' \in [Executor -> SUBSET Holding] /\ releasing' \in [Executor -> SUBSET Buffer]
        BY <1>5, <2>1 DEF Pick, Types
    <2>3. /\ queue' \in [Executor -> Queue \cup {None}] /\ position' \in [Executor -> Nat]
          /\ \A f \in Executor : queue'[f] # None => position'[f] # 0
        BY <1>5 DEF Pick, Types
    <2> QED BY <1>5, <2>2, <2>3 DEF Pick, Types
<1>6. ASSUME NEW e \in Executor, FinishDestroy(e) PROVE Types'
    <2>1. 0 \in Index
        BY PipelineBounds DEF Index
    <2> QED BY <1>6, <2>1 DEF FinishDestroy, Types
<1>7. ASSUME NEW e \in Executor, CommitCommand(e) PROVE Types'
    <2> DEFINE p == commandList[e][position[e]]
    <2>1. p \in Pipeline
        BY <1>7, NextOf
    <2>2. Holder(p) \in SUBSET Buffer
        BY <2>1, RecordedMesh DEF Holder
    <2>3. DrawsOf(p) \in Seq(Draw)
        BY <2>1, DrawsType
    <2>4. draws' = [draws EXCEPT ![e] = @ \o DrawsOf(p)]
        BY <1>7 DEF CommitCommand, DrawsOf
    <2>5. draws[e] \in Seq(Draw)
        BY DEF Types
    <2>6. draws[e] \o DrawsOf(p) \in Seq(Draw)
        BY <2>3, <2>5
    <2>7. draws' \in [Executor -> Seq(Draw)]
        BY <2>4, <2>6 DEF Types
    <2>8. data' \in [Block -> Index]
        <3>1. 0 \in Index
            BY PipelineBounds DEF Index
        <3> QED BY <1>7, <3>1 DEF CommitCommand, Types
    <2>9. /\ uboBuffer' \in [Pipeline -> 0 .. MaxUniforms]
          /\ uploadedBy' \in [Pipeline -> Queue \cup {None}]
          /\ pendingResources' \in [Executor -> SUBSET Buffer]
        BY <1>7, <2>1, <2>2 DEF CommitCommand, Upload, Types
    <2>10. geomMeshesRecord' \in [Pipeline -> Seq(Mesh)]
        <3>1. RecordAfter(p) \in Seq(Mesh)
            BY DEF RecordAfter
        <3> QED BY <1>7, <2>1, <3>1 DEF CommitCommand, Types
    <2>11. position' \in [Executor -> Nat] /\ \A f \in Executor : queue'[f] # None => position'[f] # 0
        BY <1>7 DEF CommitCommand, Types
    <2> QED BY <1>7, <2>7, <2>8, <2>9, <2>10, <2>11 DEF CommitCommand, Types
<1>8. ASSUME NEW e \in Executor, Submit(e) PROVE Types'
    <2>1. queue[e] \in Queue
        BY <1>8 DEF Submit, Recording, Types
    <2>2. [stamp |-> commits, queue |-> queue[e], draws |-> draws[e], first |-> drawn] \in Job
        BY <2>1 DEF Types, Job
    <2>4. drawn' \in [Pipeline -> Nat]
        <3>1. \A p \in Pipeline : Cardinality(MeshesOf(p, draws[e])) \in Nat
            BY MeshesFinite DEF Types
        <3> QED BY <1>8, <3>1 DEF Submit, Types
    <2>3. [stamp |-> commits, buffers |-> pendingResources[e]] \in Holding
        BY DEF Types, Holding
    <2> QED BY <1>8, <2>2, <2>3, <2>4 DEF Submit, Types
<1>9. ASSUME NEW p \in Pipeline, SetUniform(p) PROVE Types'
    BY <1>9, PipelineBounds DEF SetUniform, Types
<1>10. ASSUME NEW p \in Pipeline, NEW b \in Buffer, SetResource(p, b) PROVE Types'
    BY <1>10 DEF SetResource, StoreDescriptor, WriteIndex, Types
<1>11. ASSUME NEW p \in Pipeline, NEW b \in Buffer, Record(p, b) PROVE Types'
    <2> DEFINE mesh == [number |-> recorded[p] + 1, buffer |-> b, block |-> pushConstant[p],
                        wants |-> data[pushConstant[p]]]
    <2>1. recorded[p] + 1 \in 1 .. MaxRecords /\ recorded[p] \in Nat
        BY <1>11, PipelineBounds DEF Record, Types
    <2>2. mesh \in Mesh
        BY <2>1, CurrentBlock DEF Mesh
    <2>3. geomMeshesRecord' = [geomMeshesRecord EXCEPT ![p] = Append(@, mesh)]
        BY <1>11 DEF Record
    <2>4. geomMeshesRecord' \in [Pipeline -> Seq(Mesh)]
        BY <2>2, <2>3 DEF Types
    <2>5. recorded' \in [Pipeline -> 0 .. MaxRecords]
        BY <1>11, <2>1 DEF Record, Types
    <2>6. pushConstant' = [r \in Pipeline |-> <<r, recorded'[r] + 1>>]
        <3>1. recorded'[p] + 1 = recorded[p] + 2
            BY <1>11, <2>1 DEF Record, Types
        <3>2. \A r \in Pipeline : r # p => recorded'[r] = recorded[r]
            BY <1>11 DEF Record, Types
        <3>3. pushConstant' = [pushConstant EXCEPT ![p] = <<p, recorded[p] + 2>>]
            BY <1>11 DEF Record, FreshBlock
        <3> QED BY <3>1, <3>2, <3>3 DEF Types
    <2> QED BY <1>11, <2>4, <2>5, <2>6 DEF Record, Types
<1>12. ASSUME NEW j \in jobs, Complete(j) PROVE Types'
    BY <1>12 DEF Complete, Types
<1>13. ASSUME UNCHANGED vars PROVE Types'
    BY <1>13 DEF vars, Types
<1> QED BY <1>1, <1>2, <1>3, <1>4, <1>5, <1>6, <1>7, <1>8, <1>9, <1>10, <1>11, <1>12, <1>13
    DEF Next

-----------------------------------------------------------------------------
(***************************************************************************)
(* Blocks                                                                  *)
(***************************************************************************)

LEMMA BlocksInit == Init => Blocks
BY EntriesEmpty DEF Init, Blocks, Recorded

\* The one mesh that record() adds.
LEMMA RecordAdds ==
    ASSUME Types, NEW p \in Pipeline, NEW b \in Buffer, Record(p, b),
           NEW r \in Pipeline, NEW m \in Recorded(r)'
    PROVE  \/ m \in Recorded(r)
           \/ r = p /\ m.block = pushConstant[p] /\ m.buffer = b /\ m.wants = data[pushConstant[p]]
<1> DEFINE mesh == [number |-> recorded[p] + 1, buffer |-> b, block |-> pushConstant[p],
                    wants |-> data[pushConstant[p]]]
<1>1. recorded[p] + 1 \in 1 .. MaxRecords /\ recorded[p] \in Nat
    BY PipelineBounds DEF Record, Types
<1>2. mesh \in Mesh
    BY <1>1, CurrentBlock DEF Mesh
<1>3. geomMeshesRecord' = [geomMeshesRecord EXCEPT ![p] = Append(@, mesh)]
    BY DEF Record
<1>4. CASE r = p
    <2>1. geomMeshesRecord'[p] = Append(geomMeshesRecord[p], mesh)
        BY <1>3 DEF Types
    <2>2. geomMeshesRecord[p] \in Seq(Mesh)
        BY DEF Types
    <2>3. Entries(Append(geomMeshesRecord[p], mesh)) = Entries(geomMeshesRecord[p]) \cup {mesh}
        BY <1>2, <2>2, EntriesAppend
    <2>4. Recorded(p)' = Recorded(p) \cup {mesh}
        BY <2>1, <2>3 DEF Recorded, Entries
    <2> QED BY <1>4, <2>4
<1>5. CASE r # p
    BY <1>3, <1>5 DEF Recorded, Types
<1> QED BY <1>4, <1>5

\* commitCommand empties the record of its pipeline.
LEMMA RecordCleared ==
    ASSUME Types, NEW e \in Executor, CommitCommand(e), NEW r \in Pipeline
    PROVE  Recorded(r)' = IF r = commandList[e][position[e]] THEN {} ELSE Recorded(r)
<1> DEFINE p == commandList[e][position[e]]
<1>1. geomMeshesRecord' = [geomMeshesRecord EXCEPT ![p] = <<>>]
    BY DEF CommitCommand, RecordAfter
<1>2. CASE r = p
    <2>1. geomMeshesRecord'[r] = <<>>
        BY <1>1, <1>2 DEF Types
    <2> QED BY <1>2, <2>1 DEF Recorded
<1>3. CASE r # p
    <2>1. geomMeshesRecord'[r] = geomMeshesRecord[r]
        BY <1>1, <1>3 DEF Types
    <2> QED BY <1>3, <2>1 DEF Recorded
<1> QED BY <1>2, <1>3

LEMMA BlocksStep ==
    ASSUME Types, Types', Blocks, [Next]_vars
    PROVE  Blocks'
<1> USE DEF slotVars, pipeVars, uboVars, execVars, heldVars
<1>same. UNCHANGED <<geomMeshesRecord, recorded, data>> => Blocks'
    BY DEF Blocks, Recorded
<1>1. ASSUME NEW e \in Executor, NEW b \in Buffer,
             CreateBuffer(e, b) \/ ReleaseBuffer(e, b) \/ Cleanup(e, b)
      PROVE  Blocks'
    BY <1>1, <1>same DEF CreateBuffer, ReleaseBuffer, Cleanup
<1>2. ASSUME NEW e \in Executor, \/ \E p \in Pipeline : Push(e, p)
                                 \/ \E q \in Queue : Pick(e, q)
                                 \/ FinishDestroy(e) \/ Submit(e)
      PROVE  Blocks'
    BY <1>2, <1>same DEF Push, Pick, FinishDestroy, Submit
<1>3. ASSUME NEW e \in Executor, CommitCommand(e) PROVE Blocks'
    <2> DEFINE p == commandList[e][position[e]]
    <2>1. p \in Pipeline
        BY <1>3, NextOf
    <2>2. recorded' = recorded /\ \A k \in Block : data'[k] \in {0, data[k]}
        BY <1>3 DEF CommitCommand
    <2>3. \A r \in Pipeline : Recorded(r)' \in {{}, Recorded(r)}
        BY <1>3, RecordCleared
    <2> QED BY <2>2, <2>3 DEF Blocks
<1>4. ASSUME NEW p \in Pipeline, NEW b \in Buffer, SetResource(p, b) PROVE Blocks'
    <2>1. UNCHANGED <<geomMeshesRecord, recorded>>
        BY <1>4 DEF SetResource
    <2>2. \A k \in Block : k[2] > recorded[k[1]] + 1 => data'[k] = data[k]
        <3>1. ASSUME NEW k \in Block, k[2] > recorded[k[1]] + 1 PROVE k # pushConstant[p]
            BY <3>1, CurrentBlock
        <3>2. \A k \in Block : k # pushConstant[p] => data'[k] = data[k]
            BY <1>4 DEF SetResource, WriteIndex, Types
        <3> QED BY <3>1, <3>2
    <2>3. \A k \in Block : k[2] > recorded'[k[1]] + 1 => data'[k] = 0
        BY <2>1, <2>2 DEF Blocks
    <2>4. \A r \in Pipeline : Recorded(r)' = Recorded(r)
        BY <2>1 DEF Recorded
    <2> QED BY <2>1, <2>3, <2>4 DEF Blocks
<1>5. ASSUME NEW p \in Pipeline, NEW b \in Buffer, Record(p, b) PROVE Blocks'
    <2>1. /\ data' = data /\ recorded[p] \in Nat
          /\ recorded' = [recorded EXCEPT ![p] = @ + 1]
        BY <1>5, CurrentBlock DEF Record
    <2>2. \A r \in Pipeline : recorded[r] \in Nat /\ recorded'[r] \in Nat /\ recorded[r] <= recorded'[r]
        <3>1. \A r \in Pipeline : recorded[r] \in Nat
            BY PipelineBounds DEF Types
        <3>2. recorded'[p] = recorded[p] + 1 /\ \A r \in Pipeline : r # p => recorded'[r] = recorded[r]
            BY <2>1 DEF Types
        <3> QED BY <3>1, <3>2
    <2>3. \A k \in Block : k[2] > recorded'[k[1]] + 1 => data'[k] = 0
        <3>1. \A k \in Block : k[1] \in Pipeline /\ k[2] \in Nat
            BY PipelineBounds DEF Block
        <3> QED BY <2>1, <2>2, <3>1 DEF Blocks
    <2>4. ASSUME NEW r \in Pipeline, NEW m \in Recorded(r)'
          PROVE  m.block[1] = r /\ m.block[2] <= recorded'[r]
        <3>1. CASE m \in Recorded(r)
            <4>1. m.block \in Block
                BY <3>1, RecordedMesh
            <4>2. m.block[2] \in Nat /\ m.block[2] <= recorded[r] /\ m.block[1] = r
                BY <3>1, <4>1, PipelineBounds DEF Blocks, Block
            <4> QED BY <2>2, <4>2
        <3>2. CASE m \notin Recorded(r)
            <4>1. r = p /\ m.block = pushConstant[p]
                BY <1>5, <3>2, RecordAdds
            <4>2. recorded'[p] = recorded[p] + 1
                BY <2>1 DEF Types
            <4> QED BY <2>1, <4>1, <4>2, CurrentBlock
        <3> QED BY <3>1, <3>2
    <2> QED BY <2>3, <2>4 DEF Blocks
<1>6. ASSUME NEW p \in Pipeline, SetUniform(p) PROVE Blocks'
    BY <1>6, <1>same DEF SetUniform
<1>7. ASSUME NEW j \in jobs, Complete(j) PROVE Blocks'
    BY <1>7, <1>same DEF Complete
<1>8. ASSUME UNCHANGED vars PROVE Blocks'
    BY <1>8, <1>same DEF vars
<1> QED BY <1>1, <1>2, <1>3, <1>4, <1>5, <1>6, <1>7, <1>8 DEF Next

-----------------------------------------------------------------------------
(***************************************************************************)
(* Slots and handles                                                       *)
(***************************************************************************)

\* Where a handle may be.
LEMMA ReferencedIs ==
    ASSUME NEW b
    PROVE  Referenced(b) <=>
               \/ b \in held
               \/ \E p \in Pipeline : \E m \in Recorded(p) : m.buffer = b
               \/ \E e \in Executor : \/ b \in pendingResources[e] \/ b \in releasing[e]
                                      \/ \E d \in deferredReleaseQueue[e] : b \in d.buffers
BY DEF Referenced, Kept

LEMMA SlottedInit == Init => Slotted
<1> SUFFICES ASSUME Init PROVE Slotted
    OBVIOUS
<1>1. \A p \in Pipeline : geomMeshesRecord[p] = <<>>
    BY DEF Init
<1>2. ASSUME NEW b \in Buffer PROVE ~Referenced(b)
    <2>1. \A p \in Pipeline : \A m \in Recorded(p) : FALSE
        BY <1>1 DEF Recorded
    <2> QED BY <2>1, ReferencedIs DEF Init
<1> QED BY <1>2 DEF Init, Slotted, Destroys

\* No slot and no destroyBuffer call changes, no handle comes from nowhere.
LEMMA SlottedSame ==
    ASSUME Slotted, slot' = slot, destroying' = destroying,
           \A c \in Buffer : Referenced(c)' => Referenced(c)
    PROVE  Slotted'
BY DEF Slotted, Destroys

\* A handle of b goes away.
LEMMA SlottedDrop ==
    ASSUME Types, Slotted, NEW e \in Executor, NEW b \in Buffer,
           Referenced(b), slot' = slot, destroying[e] = None, DropLast(e, b),
           \A c \in Buffer : Referenced(c)' => Referenced(c)
    PROVE  Slotted'
<1>1. CASE Referenced(b)'
    <2>1. destroying' = destroying
        BY <1>1 DEF DropLast
    <2> QED BY <2>1, SlottedSame
<1>2. CASE ~Referenced(b)'
    <2>1. /\ destroying'[e].buffer = b
          /\ \A f \in Executor : f # e => destroying'[f] = destroying[f]
        BY <1>2 DEF DropLast, DestroyBuffer, Types
    <2>2. \A f \in Executor : ~Destroys(f, b)
        BY DEF Slotted
    <2>3. \A f \in Executor, c \in Buffer :
              Destroys(f, c)' => (f = e /\ c = b) \/ (f # e /\ c # b /\ Destroys(f, c))
        BY <2>1, <2>2 DEF Destroys
    <2>4. slot[b] # 0
        BY DEF Slotted
    <2> QED BY <1>2, <2>3, <2>4 DEF Slotted
<1> QED BY <1>1, <1>2

\* A handle moves from one place to another, or one more is made of a live buffer.
LEMMA SlottedStep ==
    ASSUME Types, Slotted, [Next]_vars
    PROVE  Slotted'
<1> USE DEF slotVars, pipeVars, uboVars, execVars, heldVars
<1>same. UNCHANGED <<held, slot, geomMeshesRecord, pendingResources, releasing,
                     deferredReleaseQueue, destroying>> => Slotted'
    BY SlottedSame DEF Referenced, Kept, Recorded
<1>1. ASSUME NEW e \in Executor, NEW b \in Buffer, CreateBuffer(e, b) PROVE Slotted'
    <2>1. PICK i \in 1 .. Slots : /\ \A c \in Buffer : slot[c] # i
                                 /\ slot' = [slot EXCEPT ![b] = i]
        BY <1>1 DEF CreateBuffer
    <2>2. i # 0 /\ slot'[b] = i /\ slot[b] = 0 /\ \A c \in Buffer : c # b => slot'[c] = slot[c]
        BY <1>1, <2>1 DEF CreateBuffer, Types
    <2>3. \A c \in Buffer : Referenced(c)' => c = b \/ Referenced(c)
        BY <1>1 DEF CreateBuffer, Referenced, Kept, Recorded
    <2>4. destroying' = destroying
        BY <1>1 DEF CreateBuffer
    <2> QED BY <2>1, <2>2, <2>3, <2>4 DEF Slotted, Destroys
<1>2. ASSUME NEW e \in Executor, NEW b \in Buffer, ReleaseBuffer(e, b) PROVE Slotted'
    <2>1. Referenced(b)
        BY <1>2 DEF ReleaseBuffer, Referenced
    <2>2. \A c \in Buffer : Referenced(c)' => Referenced(c)
        BY <1>2 DEF ReleaseBuffer, Referenced, Kept, Recorded
    <2> QED BY <1>2, <2>1, <2>2, SlottedDrop DEF ReleaseBuffer, Idle
<1>3. ASSUME NEW e \in Executor, NEW b \in Buffer, Cleanup(e, b) PROVE Slotted'
    <2>1. Referenced(b)
        BY <1>3, ReferencedIs DEF Cleanup
    <2>2. \A f \in Executor : releasing'[f] \subseteq releasing[f]
        BY <1>3 DEF Cleanup, Types
    <2>3. \A c \in Buffer : Referenced(c)' => Referenced(c)
        BY <1>3, <2>2 DEF Cleanup, Referenced, Kept, Recorded
    <2> QED BY <1>3, <2>1, <2>3, SlottedDrop DEF Cleanup
<1>4. ASSUME NEW e \in Executor, NEW q \in Queue, Pick(e, q) PROVE Slotted'
    <2>1. /\ deferredReleaseQueue'[e] \subseteq deferredReleaseQueue[e]
          /\ \A b \in releasing'[e] : \E d \in deferredReleaseQueue[e] : b \in d.buffers
          /\ \A f \in Executor \ {e} : /\ releasing'[f] = releasing[f]
                                       /\ deferredReleaseQueue'[f] = deferredReleaseQueue[f]
        BY <1>4 DEF Pick, Types
    <2>2. UNCHANGED <<held, slot, geomMeshesRecord, pendingResources, destroying>>
        BY <1>4 DEF Pick
    <2>3. \A c \in Buffer : Referenced(c)' => Referenced(c)
        BY <2>1, <2>2 DEF Referenced, Kept, Recorded
    <2> QED BY <2>2, <2>3, SlottedSame
<1>5. ASSUME NEW e \in Executor, FinishDestroy(e) PROVE Slotted'
    <2> DEFINE b == destroying[e].buffer
    <2>1. b \in Buffer /\ Destroys(e, b)
        BY <1>5 DEF FinishDestroy, Types, Destruction, Destroys
    <2>2. slot'[b] = 0 /\ \A c \in Buffer : c # b => slot'[c] = slot[c]
        BY <1>5, <2>1 DEF FinishDestroy, Types
    <2>3. \A c \in Buffer : Referenced(c)' => Referenced(c) /\ c # b
        BY <1>5, <2>1 DEF FinishDestroy, Referenced, Kept, Recorded, Slotted
    <2>4. \A f \in Executor, c \in Buffer : Destroys(f, c)' => Destroys(f, c) /\ f # e /\ c # b
        BY <1>5, <2>1 DEF FinishDestroy, Destroys, Slotted, Types
    <2>5. \A c \in Buffer : Referenced(c)' <=> Referenced(c)
        BY <1>5 DEF FinishDestroy, Referenced, Kept, Recorded
    <2> QED BY <2>1, <2>2, <2>3, <2>4, <2>5 DEF Slotted
<1>6. ASSUME NEW e \in Executor, CommitCommand(e) PROVE Slotted'
    <2> DEFINE p == commandList[e][position[e]]
    <2>1. p \in Pipeline /\ \A r \in Pipeline : Recorded(r)' \subseteq Recorded(r)
        BY <1>6, NextOf, RecordCleared
    <2>2. /\ pendingResources'[e] = pendingResources[e] \cup Holder(p)
          /\ \A f \in Executor \ {e} : pendingResources'[f] = pendingResources[f]
          /\ UNCHANGED <<held, slot, releasing, deferredReleaseQueue, destroying>>
        BY <1>6 DEF CommitCommand, Types
    <2>3. \A c \in Holder(p) : \E m \in Recorded(p) : m.buffer = c
        BY DEF Holder
    <2>4. \A c \in Buffer : Referenced(c)' => Referenced(c)
        BY <2>1, <2>2, <2>3 DEF Referenced, Kept
    <2> QED BY <2>2, <2>4, SlottedSame
<1>7. ASSUME NEW e \in Executor, Submit(e) PROVE Slotted'
    <2>1. /\ pendingResources'[e] = {}
          /\ deferredReleaseQueue'[e] =
                 deferredReleaseQueue[e] \cup {[stamp |-> commits, buffers |-> pendingResources[e]]}
          /\ \A f \in Executor \ {e} : /\ pendingResources'[f] = pendingResources[f]
                                       /\ deferredReleaseQueue'[f] = deferredReleaseQueue[f]
          /\ UNCHANGED <<held, slot, geomMeshesRecord, releasing, destroying>>
        BY <1>7 DEF Submit, Types
    <2>2. ASSUME NEW c \in Buffer, Referenced(c)' PROVE Referenced(c)
        <3>1. \A f \in Executor : c \in Kept(f)' => c \in Kept(f)
            BY <2>1 DEF Kept
        <3> QED BY <2>1, <2>2, <3>1 DEF Referenced, Recorded
    <2> QED BY <2>1, <2>2, SlottedSame
<1>8. ASSUME NEW p \in Pipeline, NEW b \in Buffer, Record(p, b) PROVE Slotted'
    <2>1. Referenced(b)
        BY <1>8 DEF Record, Referenced
    <2>2. UNCHANGED <<held, slot, pendingResources, releasing, deferredReleaseQueue, destroying>>
        BY <1>8 DEF Record
    <2>3. \A r \in Pipeline : \A m \in Recorded(r)' : m \in Recorded(r) \/ m.buffer = b
        BY <1>8, RecordAdds
    <2>4. \A c \in Buffer : Referenced(c)' => Referenced(c)
        BY <2>1, <2>2, <2>3 DEF Referenced, Kept
    <2> QED BY <2>2, <2>4, SlottedSame
<1>9. ASSUME NEW e \in Executor, NEW p \in Pipeline, Push(e, p) PROVE Slotted'
    BY <1>9, <1>same DEF Push
<1>10. ASSUME NEW p \in Pipeline, NEW b \in Buffer, SetResource(p, b) PROVE Slotted'
    BY <1>10, <1>same DEF SetResource
<1>11. ASSUME NEW p \in Pipeline, SetUniform(p) PROVE Slotted'
    BY <1>11, <1>same DEF SetUniform
<1>12. ASSUME NEW j \in jobs, Complete(j) PROVE Slotted'
    BY <1>12, <1>same DEF Complete
<1>13. ASSUME UNCHANGED vars PROVE Slotted'
    BY <1>13, <1>same DEF vars
<1> QED BY <1>1, <1>2, <1>3, <1>4, <1>5, <1>6, <1>7, <1>8, <1>9, <1>10, <1>11, <1>12, <1>13
    DEF Next

-----------------------------------------------------------------------------
(***************************************************************************)
(* The handles of what is drawn                                            *)
(***************************************************************************)

LEMMA HoldsInit == Init => Holds
BY DEF Init, Holds, Entries

\* What commitCommand adds to the command buffer.
LEMMA Committed ==
    ASSUME Types, NEW e \in Executor, CommitCommand(e)
    PROVE  LET p == commandList[e][position[e]]
           IN  /\ Entries(draws'[e]) = Entries(draws[e]) \cup Entries(DrawsOf(p))
               /\ \A f \in Executor : f # e => draws'[f] = draws[f]
<1> DEFINE p == commandList[e][position[e]]
<1>1. draws' = [draws EXCEPT ![e] = @ \o DrawsOf(p)]
    BY DEF CommitCommand, DrawsOf
<1>2. draws'[e] = draws[e] \o DrawsOf(p) /\ \A f \in Executor : f # e => draws'[f] = draws[f]
    BY <1>1 DEF Types
<1>3. p \in Pipeline
    BY NextOf
<1>4. draws[e] \in Seq(Draw) /\ DrawsOf(p) \in Seq(Draw)
    BY <1>3, DrawsType DEF Types
<1>5. Entries(draws[e] \o DrawsOf(p)) = Entries(draws[e]) \cup Entries(DrawsOf(p))
    BY <1>4, EntriesConcat
<1>6. Entries(draws'[e]) = Entries(draws[e] \o DrawsOf(p))
    BY <1>2 DEF Entries
<1> QED BY <1>2, <1>5, <1>6

\* vkQueueSubmit makes one submission of what was recorded.
LEMMA Submitted ==
    ASSUME Types, NEW e \in Executor, Submit(e)
    PROVE  /\ \A j \in jobs' : \/ j \in jobs
                              \/ /\ j.stamp = commits /\ j.queue = queue[e]
                                 /\ Entries(j.draws) = Entries(draws[e])
           /\ queue[e] \in Queue /\ queue[e] # None
           /\ queue'[e] = None /\ \A f \in Executor : f # e => queue'[f] = queue[f]
           /\ \A w : w \notin Entries(draws'[e])
           /\ \A f \in Executor : f # e => draws'[f] = draws[f]
<1>1. queue[e] # None /\ queue[e] \in Queue
    BY DEF Submit, Recording, Types
<1>2. draws'[e] = <<>> /\ \A f \in Executor : f # e => draws'[f] = draws[f]
    BY DEF Submit, Types
<1>3. \A w : w \notin Entries(draws'[e])
    BY <1>2 DEF Entries
<1> QED BY <1>1, <1>2, <1>3 DEF Submit, Types, Entries

LEMMA HoldsStep ==
    ASSUME Types, Holds, [Next]_vars
    PROVE  Holds'
<1> USE DEF slotVars, pipeVars, uboVars, execVars, heldVars
<1>same. UNCHANGED <<draws, pendingResources, deferredReleaseQueue, jobs>> => Holds'
    BY DEF Holds, Entries
<1>1. ASSUME NEW e \in Executor, NEW b \in Buffer,
             CreateBuffer(e, b) \/ ReleaseBuffer(e, b) \/ Cleanup(e, b)
      PROVE  Holds'
    BY <1>1, <1>same DEF CreateBuffer, ReleaseBuffer, Cleanup
<1>2. ASSUME NEW e \in Executor, NEW p \in Pipeline, Push(e, p) PROVE Holds'
    BY <1>2, <1>same DEF Push
<1>3. ASSUME NEW e \in Executor, NEW q \in Queue, Pick(e, q) PROVE Holds'
    <2>1. /\ deferredReleaseQueue'[e] = deferredReleaseQueue[e] \ {d \in deferredReleaseQueue[e] : Completed(d)}
          /\ \A f \in Executor : f # e => deferredReleaseQueue'[f] = deferredReleaseQueue[f]
          /\ UNCHANGED <<draws, pendingResources, jobs>>
        BY <1>3 DEF Pick, Types
    <2>2. \A f \in Executor : \A d \in deferredReleaseQueue[f] : \A j \in jobs :
              d.stamp = j.stamp => d \in deferredReleaseQueue'[f]
        BY <2>1 DEF Completed
    <2>3. ASSUME NEW j \in jobs'
          PROVE  \E f \in Executor : \E d \in deferredReleaseQueue'[f] :
                     d.stamp = j.stamp /\ \A w \in Entries(j.draws) : w.mesh # None => w.mesh \in d.buffers
        <3>1. j \in jobs
            BY <2>1
        <3>2. PICK f \in Executor : \E d \in deferredReleaseQueue[f] :
                  d.stamp = j.stamp /\ \A w \in Entries(j.draws) : w.mesh # None => w.mesh \in d.buffers
            BY <3>1 DEF Holds
        <3>3. PICK d \in deferredReleaseQueue[f] :
                  d.stamp = j.stamp /\ \A w \in Entries(j.draws) : w.mesh # None => w.mesh \in d.buffers
            BY <3>2
        <3>4. d \in deferredReleaseQueue'[f]
            BY <2>2, <3>1, <3>3
        <3> QED BY <3>3, <3>4
    <2>4. \A f \in Executor : Entries(draws'[f]) = Entries(draws[f])
        BY <2>1 DEF Entries
    <2> QED BY <2>1, <2>3, <2>4 DEF Holds
<1>4. ASSUME NEW e \in Executor, FinishDestroy(e) PROVE Holds'
    BY <1>4, <1>same DEF FinishDestroy
<1>5. ASSUME NEW e \in Executor, CommitCommand(e) PROVE Holds'
    <2> DEFINE p == commandList[e][position[e]]
    <2>1. p \in Pipeline
        BY <1>5, NextOf
    <2>2. /\ pendingResources'[e] = pendingResources[e] \cup Holder(p)
          /\ \A f \in Executor : f # e => pendingResources'[f] = pendingResources[f]
          /\ UNCHANGED <<deferredReleaseQueue, jobs>>
        BY <1>5 DEF CommitCommand, Types
    <2>3. Entries(draws'[e]) = Entries(draws[e]) \cup Entries(DrawsOf(p))
        BY <1>5, Committed
    <2>4. \A f \in Executor : f # e => Entries(draws'[f]) = Entries(draws[f])
        BY <1>5, Committed DEF Entries
    <2>5. \A w \in Entries(DrawsOf(p)) : w.mesh # None => w.mesh \in Holder(p)
        BY <2>1, DrawsRead
    <2>6. ASSUME NEW f \in Executor, NEW w \in Entries(draws'[f]), w.mesh # None
          PROVE  w.mesh \in pendingResources'[f]
        BY <2>2, <2>3, <2>4, <2>5, <2>6 DEF Holds
    <2> QED BY <2>2, <2>6 DEF Holds
<1>6. ASSUME NEW e \in Executor, Submit(e) PROVE Holds'
    <2> DEFINE d == [stamp |-> commits, buffers |-> pendingResources[e]]
    <2>1. /\ deferredReleaseQueue'[e] = deferredReleaseQueue[e] \cup {d}
          /\ \A f \in Executor : f # e => /\ deferredReleaseQueue'[f] = deferredReleaseQueue[f]
                                         /\ pendingResources'[f] = pendingResources[f]
        BY <1>6 DEF Submit, Types
    <2>2. ASSUME NEW f \in Executor, NEW w \in Entries(draws'[f]), w.mesh # None
          PROVE  w.mesh \in pendingResources'[f]
        <3>1. f # e /\ draws'[f] = draws[f]
            BY <1>6, <2>2, Submitted
        <3>2. w \in Entries(draws[f])
            BY <2>2, <3>1 DEF Entries
        <3> QED BY <2>1, <2>2, <3>1, <3>2 DEF Holds
    <2>3. ASSUME NEW j \in jobs'
          PROVE  \E f \in Executor : \E c \in deferredReleaseQueue'[f] :
                     c.stamp = j.stamp /\ \A w \in Entries(j.draws) : w.mesh # None => w.mesh \in c.buffers
        <3>1. CASE j \in jobs
            <4>1. PICK f \in Executor : \E c \in deferredReleaseQueue[f] :
                      c.stamp = j.stamp /\ \A w \in Entries(j.draws) : w.mesh # None => w.mesh \in c.buffers
                BY <3>1 DEF Holds
            <4>2. deferredReleaseQueue[f] \subseteq deferredReleaseQueue'[f]
                BY <2>1
            <4> QED BY <4>1, <4>2
        <3>2. CASE j \notin jobs
            <4>1. j.stamp = commits /\ Entries(j.draws) = Entries(draws[e])
                BY <1>6, <3>2, Submitted
            <4>2. d \in deferredReleaseQueue'[e] /\ d.stamp = j.stamp /\ d.buffers = pendingResources[e]
                BY <2>1, <4>1
            <4> QED BY <4>1, <4>2 DEF Holds
        <3> QED BY <3>1, <3>2
    <2> QED BY <2>2, <2>3 DEF Holds
<1>7. ASSUME NEW p \in Pipeline, NEW b \in Buffer, SetResource(p, b) \/ Record(p, b) PROVE Holds'
    BY <1>7, <1>same DEF SetResource, Record
<1>8. ASSUME NEW p \in Pipeline, SetUniform(p) PROVE Holds'
    BY <1>8, <1>same DEF SetUniform
<1>9. ASSUME NEW j \in jobs, Complete(j) PROVE Holds'
    <2>1. jobs' \subseteq jobs /\ UNCHANGED <<draws, pendingResources, deferredReleaseQueue>>
        BY <1>9 DEF Complete
    <2> QED BY <2>1 DEF Holds, Entries
<1>10. ASSUME UNCHANGED vars PROVE Holds'
    BY <1>10, <1>same DEF vars
<1> QED BY <1>1, <1>2, <1>3, <1>4, <1>5, <1>6, <1>7, <1>8, <1>9, <1>10 DEF Next

-----------------------------------------------------------------------------
(***************************************************************************)
(* Indices                                                                 *)
(***************************************************************************)

LEMMA IndicesInit == Init => Indices
<1> SUFFICES ASSUME Init PROVE Indices
    OBVIOUS
<1>1. /\ \A p \in Pipeline : geomMeshesRecord[p] = <<>>
      /\ \A e \in Executor : commandList[e] = <<>> /\ draws[e] = <<>>
      /\ jobs = {}
    BY DEF Init
<1> QED BY <1>1 DEF Indices, RecordedIndices, ListedIndices, DrawnIndices, ReadIndices,
                    Recorded, Entries

\* destroyBuffer waits for every submission there is when it is called.
LEMMA DropWaits ==
    ASSUME Types, NEW e \in Executor, NEW b \in Buffer, DropLast(e, b),
           NEW f \in Executor, NEW c, Destroys(f, c)', NEW j \in jobs,
           Destroys(f, c) => j.stamp \in destroying[f].waits
    PROVE  j.stamp \in destroying'[f].waits
<1>1. CASE destroying' = destroying
    BY <1>1 DEF Destroys
<1>2. CASE destroying' = [destroying EXCEPT ![e] = DestroyBuffer(b)]
    <2>1. CASE f = e
        <3>1. destroying'[f] = DestroyBuffer(b)
            BY <1>2, <2>1 DEF Types
        <3> QED BY <3>1 DEF DestroyBuffer
    <2>2. CASE f # e
        <3>1. destroying'[f] = destroying[f]
            BY <1>2, <2>2 DEF Types
        <3> QED BY <3>1 DEF Destroys
    <2> QED BY <2>1, <2>2
<1> QED BY <1>1, <1>2 DEF DropLast

LEMMA IndicesStep ==
    ASSUME Types, Blocks, Slotted, Indices, [Next]_vars
    PROVE  Indices'
<1> USE DEF slotVars, pipeVars, uboVars, execVars, heldVars
<1>parts. RecordedIndices /\ ListedIndices /\ DrawnIndices /\ ReadIndices
    BY DEF Indices
<1>same. UNCHANGED <<data, pushConstant, geomMeshesRecord, commandList, draws, jobs,
                     held, slot, element, destroying>> => Indices'
    BY DEF Indices, RecordedIndices, ListedIndices, DrawnIndices, ReadIndices, NamesHeld,
           Names, Destroys, Recorded
<1>1. ASSUME NEW e \in Executor, NEW b \in Buffer, CreateBuffer(e, b) PROVE Indices'
    <2>1. /\ slot[b] = 0 /\ \A c \in Buffer : c # b => slot'[c] = slot[c]
          /\ held' = held \cup {b}
          /\ UNCHANGED <<data, pushConstant, geomMeshesRecord, commandList, draws, jobs, element,
                         destroying>>
        BY <1>1 DEF CreateBuffer, Types
    <2>2. \A i : NamesHeld(i) => NamesHeld(i)'
        BY <2>1 DEF NamesHeld, Types
    <2>3. \A i, c : i # 0 /\ Names(i, c) => Names(i, c)'
        BY <2>1 DEF Names
    <2> QED BY <2>1, <2>2, <2>3, <1>parts
            DEF Indices, RecordedIndices, ListedIndices, DrawnIndices, ReadIndices, Recorded, Destroys
<1>2. ASSUME NEW e \in Executor, NEW b \in Buffer, ReleaseBuffer(e, b) PROVE Indices'
    <2>1. /\ ~Unread(b) /\ held' = held \ {b} /\ DropLast(e, b)
          /\ UNCHANGED <<data, pushConstant, geomMeshesRecord, commandList, draws, jobs, element, slot>>
        BY <1>2 DEF ReleaseBuffer
    <2>2. \A i : NamesHeld(i) /\ slot[b] # i => NamesHeld(i)'
        BY <2>1 DEF NamesHeld
    <2>3. RecordedIndices'
        BY <2>1, <2>2, <1>parts DEF RecordedIndices, Unread, Recorded
    <2>4. ListedIndices'
        <3>1. \A f \in Executor : \A p \in Entries(commandList[f]) : data[pushConstant[p]] # slot[b]
            BY <2>1 DEF Unread, Entries
        <3> QED BY <2>1, <2>2, <3>1, <1>parts DEF ListedIndices
    <2>5. DrawnIndices'
        <3>1. \A f \in Executor : \A w \in Entries(draws[f]) : w.bound # b
            BY <2>1 DEF Unread, Entries
        <3> QED BY <2>1, <3>1, <1>parts DEF DrawnIndices, Names
    <2>6. ReadIndices'
        BY <2>1, DropWaits, <1>parts DEF ReadIndices, Names
    <2> QED BY <2>3, <2>4, <2>5, <2>6 DEF Indices
<1>3. ASSUME NEW e \in Executor, NEW b \in Buffer, Cleanup(e, b) PROVE Indices'
    <2>1. /\ DropLast(e, b)
          /\ UNCHANGED <<data, pushConstant, geomMeshesRecord, commandList, draws, jobs, element, slot,
                         held>>
        BY <1>3 DEF Cleanup
    <2>2. RecordedIndices' /\ ListedIndices' /\ DrawnIndices'
        BY <2>1, <1>parts
        DEF RecordedIndices, ListedIndices, DrawnIndices, NamesHeld, Names, Recorded
    <2>3. ReadIndices'
        BY <2>1, DropWaits, <1>parts DEF ReadIndices, Names
    <2> QED BY <2>2, <2>3 DEF Indices
<1>4. ASSUME NEW e \in Executor, NEW p \in Pipeline, Push(e, p) PROVE Indices'
    <2>1. /\ NamesHeld(data[pushConstant[p]])
          /\ commandList' = [commandList EXCEPT ![e] = Append(@, p)]
          /\ UNCHANGED <<data, pushConstant, geomMeshesRecord, draws, jobs, element, slot, held,
                         destroying>>
        BY <1>4 DEF Push, Bound, NamesHeld
    <2>2. ASSUME NEW f \in Executor, NEW r \in Entries(commandList'[f])
          PROVE  NamesHeld(data[pushConstant[r]])
        <3>1. CASE f = e
            <4>1. commandList'[f] = Append(commandList[e], p) /\ commandList[e] \in Seq(Pipeline)
                BY <2>1, <3>1 DEF Types
            <4>2. r \in Entries(commandList[e]) \cup {p}
                BY <4>1, EntriesAppend, <2>2
            <4> QED BY <2>1, <4>2, <1>parts DEF ListedIndices
        <3>2. CASE f # e
            BY <2>1, <2>2, <3>2, <1>parts DEF ListedIndices, Types
        <3> QED BY <3>1, <3>2
    <2>3. ListedIndices'
        BY <2>1, <2>2 DEF ListedIndices, NamesHeld
    <2>4. RecordedIndices' /\ DrawnIndices' /\ ReadIndices'
        BY <2>1, <1>parts
        DEF RecordedIndices, DrawnIndices, ReadIndices, NamesHeld, Names, Recorded, Destroys
    <2> QED BY <2>3, <2>4 DEF Indices
<1>5. ASSUME NEW e \in Executor, NEW q \in Queue, Pick(e, q) PROVE Indices'
    BY <1>5, <1>same DEF Pick
<1>6. ASSUME NEW e \in Executor, FinishDestroy(e) PROVE Indices'
    <2> DEFINE b == destroying[e].buffer
    <2>1. b \in Buffer /\ Destroys(e, b) /\ b \notin held
        BY <1>6 DEF FinishDestroy, Types, Destruction, Destroys, Slotted, Referenced
    <2>2. /\ \A c \in Buffer : c # b => slot'[c] = slot[c]
          /\ \A j \in jobs : j.stamp \notin destroying[e].waits
          /\ \A f \in Executor, c \in Buffer : Destroys(f, c)' => Destroys(f, c) /\ destroying'[f] = destroying[f]
          /\ UNCHANGED <<data, pushConstant, geomMeshesRecord, commandList, draws, jobs, element, held>>
        BY <1>6, <2>1 DEF FinishDestroy, Types, Destroys
    <2>3. \A i : NamesHeld(i) => NamesHeld(i)'
        BY <2>1, <2>2 DEF NamesHeld, Types
    <2>4. \A i, c : Names(i, c) /\ c # b => Names(i, c)'
        BY <2>2 DEF Names
    <2>5. \A j \in jobs : \A w \in Entries(j.draws) : w.index # 0 => w.bound # b
        BY <2>1, <2>2, <1>parts DEF ReadIndices
    <2>6. RecordedIndices' /\ ListedIndices'
        BY <2>2, <2>3, <1>parts DEF RecordedIndices, ListedIndices, Recorded
    <2>7. DrawnIndices'
        BY <2>1, <2>2, <2>4, <1>parts DEF DrawnIndices
    <2>8. ReadIndices'
        BY <2>2, <2>4, <2>5, <1>parts DEF ReadIndices, Names
    <2> QED BY <2>6, <2>7, <2>8 DEF Indices
<1>7. ASSUME NEW e \in Executor, CommitCommand(e) PROVE Indices'
    <2> DEFINE p == commandList[e][position[e]]
    <2>1. p \in Pipeline /\ p \in Entries(commandList[e])
        BY <1>7, NextOf
    <2>2. /\ \A k \in Block : data'[k] \in {0, data[k]}
          /\ UNCHANGED <<held, slot, element, pushConstant, commandList, jobs, destroying>>
        BY <1>7 DEF CommitCommand
    <2>3. \A i : NamesHeld(i)' <=> NamesHeld(i)
        BY <2>2 DEF NamesHeld
    <2>4. RecordedIndices'
        <3>1. ASSUME NEW r \in Pipeline, NEW m \in Recorded(r)' PROVE NamesHeld(data'[m.block])
            <4>1. m \in Recorded(r) /\ m.block \in Block
                BY <1>7, <3>1, RecordCleared, RecordedMesh
            <4> QED BY <2>2, <4>1, <1>parts DEF RecordedIndices, NamesHeld
        <3> QED BY <2>3, <3>1 DEF RecordedIndices
    <2>5. ListedIndices'
        <3>1. ASSUME NEW f \in Executor, NEW r \in Entries(commandList[f])
              PROVE  NamesHeld(data'[pushConstant[r]])
            <4>1. commandList[f] \in Seq(Pipeline)
                BY DEF Types
            <4>2. r \in Pipeline
                BY <4>1, EntriesOf
            <4>3. pushConstant[r] \in Block
                BY <4>2, CurrentBlock
            <4> QED BY <2>2, <4>3, <1>parts DEF ListedIndices, NamesHeld
        <3> QED BY <2>2, <2>3, <3>1 DEF ListedIndices
    <2>6. ASSUME NEW w \in Entries(DrawsOf(p)), w.index # 0
          PROVE  Names(w.index, w.bound) /\ w.bound \in held
        <3>1. PICK k \in Block : /\ k = pushConstant[p] \/ \E m \in Recorded(p) : k = m.block
                                /\ w.index = data[k]
                                /\ w.bound = IF data[k] = 0 THEN None ELSE element[data[k]]
            BY <2>1, DrawsRead
        <3>2. NamesHeld(data[k])
            BY <2>1, <3>1, <1>parts DEF RecordedIndices, ListedIndices
        <3> QED BY <2>6, <3>1, <3>2 DEF NamesHeld, Names, Types
    <2>7. DrawnIndices'
        <3>1. ASSUME NEW f \in Executor, NEW w \in Entries(draws'[f]), w.index # 0
              PROVE  Names(w.index, w.bound) /\ w.bound \in held
            <4>1. CASE w \in Entries(draws[f])
                BY <3>1, <4>1, <1>parts DEF DrawnIndices
            <4>2. CASE w \notin Entries(draws[f])
                <5>1. w \in Entries(DrawsOf(p))
                    BY <1>7, <3>1, <4>2, Committed
                <5> QED BY <2>6, <3>1, <5>1
            <4> QED BY <4>1, <4>2
        <3> QED BY <2>2, <3>1 DEF DrawnIndices, Names
    <2>8. ReadIndices'
        BY <2>2, <1>parts DEF ReadIndices, Names, Destroys
    <2> QED BY <2>4, <2>5, <2>7, <2>8 DEF Indices
<1>8. ASSUME NEW e \in Executor, Submit(e) PROVE Indices'
    <2>1. /\ UNCHANGED <<held, slot, element, data, pushConstant, geomMeshesRecord, destroying>>
          /\ commandList'[e] = <<>> /\ \A f \in Executor : f # e => commandList'[f] = commandList[f]
        BY <1>8 DEF Submit, Types
    <2>2. RecordedIndices'
        BY <2>1, <1>parts DEF RecordedIndices, NamesHeld, Recorded
    <2>3. ListedIndices'
        <3>1. \A f \in Executor : Entries(commandList'[f]) \subseteq Entries(commandList[f])
            BY <2>1 DEF Entries
        <3> QED BY <2>1, <3>1, <1>parts DEF ListedIndices, NamesHeld
    <2>4. DrawnIndices'
        <3>1. \A f \in Executor : Entries(draws'[f]) \subseteq Entries(draws[f])
            BY <1>8, Submitted DEF Entries
        <3> QED BY <2>1, <3>1, <1>parts DEF DrawnIndices, Names
    <2>5. ASSUME NEW j \in jobs', NEW w \in Entries(j.draws), w.index # 0
          PROVE  /\ Names(w.index, w.bound)
                 /\ \A f \in Executor : Destroys(f, w.bound) => j.stamp \in destroying[f].waits
        <3>1. CASE j \in jobs
            BY <2>5, <3>1, <1>parts DEF ReadIndices
        <3>2. CASE j \notin jobs
            <4>1. w \in Entries(draws[e])
                BY <1>8, <2>5, <3>2, Submitted
            <4>2. Names(w.index, w.bound) /\ w.bound \in held
                BY <2>5, <4>1, <1>parts DEF DrawnIndices
            <4>3. \A f \in Executor : ~Destroys(f, w.bound)
                BY <4>2 DEF Slotted, Referenced, Names
            <4> QED BY <4>2, <4>3
        <3> QED BY <3>1, <3>2
    <2>6. ReadIndices'
        BY <2>1, <2>5 DEF ReadIndices, Names, Destroys
    <2> QED BY <2>2, <2>3, <2>4, <2>6 DEF Indices
<1>9. ASSUME NEW p \in Pipeline, NEW b \in Buffer, SetResource(p, b) PROVE Indices'
    <2>1. /\ b \in held /\ element' = [element EXCEPT ![slot[b]] = b]
          /\ data' = [data EXCEPT ![pushConstant[p]] = slot[b]]
          /\ UNCHANGED <<held, slot, pushConstant, geomMeshesRecord, commandList, draws, jobs, destroying>>
        BY <1>9 DEF SetResource, StoreDescriptor, WriteIndex
    <2>2. slot[b] # 0 /\ slot[b] \in 1 .. Slots
        BY <2>1, PipelineBounds DEF Slotted, Referenced, Types, Index
    <2>3. /\ element'[slot[b]] = b
          /\ \A i : i # slot[b] => element'[i] = element[i]
        BY <2>1, <2>2 DEF Types
    <2>4. \A i : NamesHeld(i) => NamesHeld(i)'
        BY <2>1, <2>3 DEF NamesHeld
    <2>5. NamesHeld(slot[b])'
        BY <2>1, <2>3 DEF NamesHeld
    <2>6. \A i, c : i # 0 /\ Names(i, c) => Names(i, c)'
        BY <2>1, <2>3 DEF Names, Slotted
    <2>7. \A k \in Block : data'[k] \in {slot[b], data[k]}
        BY <2>1 DEF Types
    <2>8. RecordedIndices'
        <3>1. ASSUME NEW r \in Pipeline, NEW m \in Recorded(r) PROVE NamesHeld(data[m.block])'
            <4>1. m.block \in Block /\ NamesHeld(data[m.block])
                BY <3>1, RecordedMesh, <1>parts DEF RecordedIndices
            <4>2. data'[m.block] = data[m.block] \/ data'[m.block] = slot[b]
                BY <2>7, <4>1
            <4> QED BY <2>1, <2>4, <2>5, <4>1, <4>2 DEF NamesHeld
        <3> QED BY <2>1, <3>1 DEF RecordedIndices, Recorded
    <2>9. ListedIndices'
        <3>1. ASSUME NEW f \in Executor, NEW r \in Entries(commandList[f])
              PROVE  NamesHeld(data[pushConstant[r]])'
            <4>1. commandList[f] \in Seq(Pipeline)
                BY DEF Types
            <4>2. r \in Pipeline
                BY <4>1, EntriesOf
            <4>3. pushConstant[r] \in Block /\ NamesHeld(data[pushConstant[r]])
                BY <4>2, CurrentBlock, <1>parts DEF ListedIndices
            <4>4. data'[pushConstant[r]] = data[pushConstant[r]] \/ data'[pushConstant[r]] = slot[b]
                BY <2>7, <4>3
            <4> QED BY <2>1, <2>4, <2>5, <4>3, <4>4 DEF NamesHeld
        <3> QED BY <2>1, <3>1 DEF ListedIndices
    <2>10. DrawnIndices' /\ ReadIndices'
        BY <2>1, <2>6, <1>parts DEF DrawnIndices, ReadIndices, Destroys
    <2> QED BY <2>8, <2>9, <2>10 DEF Indices
<1>10. ASSUME NEW p \in Pipeline, NEW b \in Buffer, Record(p, b) PROVE Indices'
    <2>1. /\ NamesHeld(data[pushConstant[p]])
          /\ UNCHANGED <<held, slot, element, data, commandList, draws, jobs, destroying>>
          /\ pushConstant' = [pushConstant EXCEPT ![p] = <<p, recorded[p] + 2>>]
        BY <1>10 DEF Record, Bound, NamesHeld, FreshBlock
    <2>2. RecordedIndices'
        <3>1. ASSUME NEW r \in Pipeline, NEW m \in Recorded(r)' PROVE NamesHeld(data[m.block])
            BY <1>10, <2>1, <3>1, RecordAdds, <1>parts DEF RecordedIndices
        <3> QED BY <2>1, <3>1 DEF RecordedIndices, NamesHeld
    <2>3. data[<<p, recorded[p] + 2>>] = 0
        <3>1. recorded[p] \in Nat /\ recorded[p] + 2 \in 1 .. MaxRecords + 1
            BY <1>10, PipelineBounds DEF Record, Types
        <3>2. <<p, recorded[p] + 2>> \in Block
            BY <3>1, BlockIs
        <3> QED BY <3>1, <3>2 DEF Blocks
    <2>4. ListedIndices'
        <3>1. ASSUME NEW f \in Executor, NEW r \in Entries(commandList[f])
              PROVE  NamesHeld(data[pushConstant'[r]])
            <4>1. commandList[f] \in Seq(Pipeline)
                BY DEF Types
            <4>2. r \in Pipeline
                BY <4>1, EntriesOf
            <4>3. CASE r = p
                BY <2>1, <2>3, <4>2, <4>3 DEF NamesHeld, Types
            <4>4. CASE r # p
                BY <2>1, <4>2, <4>4, <1>parts DEF ListedIndices, Types
            <4> QED BY <4>3, <4>4
        <3> QED BY <2>1, <3>1 DEF ListedIndices, NamesHeld
    <2>5. DrawnIndices' /\ ReadIndices'
        BY <2>1, <1>parts DEF DrawnIndices, ReadIndices, Names, Destroys
    <2> QED BY <2>2, <2>4, <2>5 DEF Indices
<1>11. ASSUME NEW p \in Pipeline, SetUniform(p) PROVE Indices'
    BY <1>11, <1>same DEF SetUniform
<1>12. ASSUME NEW j \in jobs, Complete(j) PROVE Indices'
    <2>1. /\ jobs' \subseteq jobs
          /\ UNCHANGED <<data, pushConstant, geomMeshesRecord, commandList, draws, held, slot, element,
                         destroying>>
        BY <1>12 DEF Complete
    <2> QED BY <2>1 DEF Indices, RecordedIndices, ListedIndices, DrawnIndices, ReadIndices,
                        NamesHeld, Names, Destroys, Recorded
<1>13. ASSUME UNCHANGED vars PROVE Indices'
    BY <1>13, <1>same DEF vars
<1> QED BY <1>1, <1>2, <1>3, <1>4, <1>5, <1>6, <1>7, <1>8, <1>9, <1>10, <1>11, <1>12, <1>13
    DEF Next

-----------------------------------------------------------------------------
(***************************************************************************)
(* Uniforms                                                                *)
(***************************************************************************)

LEMMA UniformsInit == Init => Uniforms
<1> SUFFICES ASSUME Init PROVE Uniforms
    OBVIOUS
<1>1. /\ jobs = {}
      /\ \A e \in Executor : commandList[e] = <<>> /\ draws[e] = <<>> /\ queue[e] = None
    BY DEF Init
<1> QED BY <1>1 DEF Uniforms, Owned, QueueAlone, DrawnUniforms, ReadUniforms, Entries

LEMMA DrawnPipelines ==
    ASSUME Types
    PROVE  /\ \A e \in Executor : \A w \in Entries(draws[e]) : w.pipeline \in Pipeline
           /\ \A j \in jobs : \A w \in Entries(j.draws) : w.pipeline \in Pipeline
<1>1. \A w \in Draw : w.pipeline \in Pipeline
    BY DEF Draw
<1>2. /\ \A e \in Executor : draws[e] \in Seq(Draw)
      /\ \A j \in jobs : j.draws \in Seq(Draw)
    BY DEF Types, Job
<1> QED BY <1>1, <1>2, EntriesOf

LEMMA UniformsStep ==
    ASSUME Types, Uniforms, [Next]_vars
    PROVE  Uniforms'
<1> USE DEF slotVars, pipeVars, uboVars, execVars, heldVars
<1>parts. Owned /\ QueueAlone /\ DrawnUniforms /\ ReadUniforms
    BY DEF Uniforms
<1>same. UNCHANGED <<commandList, queue, draws, jobs, uboVars, tempUBO>> => Uniforms'
    BY DEF Uniforms, Owned, QueueAlone, DrawnUniforms, ReadUniforms
<1>1. ASSUME NEW e \in Executor, NEW b \in Buffer,
             CreateBuffer(e, b) \/ ReleaseBuffer(e, b) \/ Cleanup(e, b)
      PROVE  Uniforms'
    BY <1>1, <1>same DEF CreateBuffer, ReleaseBuffer, Cleanup
<1>2. ASSUME NEW e \in Executor, FinishDestroy(e) PROVE Uniforms'
    BY <1>2, <1>same DEF FinishDestroy
<1>3. ASSUME NEW e \in Executor, NEW p \in Pipeline, Push(e, p) PROVE Uniforms'
    <2>1. /\ Owner[p] = e /\ commandList' = [commandList EXCEPT ![e] = Append(@, p)]
          /\ UNCHANGED <<queue, draws, jobs, uboVars, tempUBO>>
        BY <1>3 DEF Push
    <2>2. ASSUME NEW f \in Executor, NEW r \in Entries(commandList'[f]) PROVE Owner[r] = f
        <3>1. CASE f = e
            <4>1. commandList'[f] = Append(commandList[e], p) /\ commandList[e] \in Seq(Pipeline)
                BY <2>1, <3>1 DEF Types
            <4>2. r \in Entries(commandList[e]) \cup {p}
                BY <4>1, EntriesAppend, <2>2
            <4> QED BY <2>1, <3>1, <4>2, <1>parts DEF Owned
        <3>2. CASE f # e
            BY <2>1, <2>2, <3>2, <1>parts DEF Owned, Types
        <3> QED BY <3>1, <3>2
    <2>3. Owned'
        BY <2>2 DEF Owned
    <2> QED BY <2>1, <2>3, <1>parts DEF Uniforms, QueueAlone, DrawnUniforms, ReadUniforms
<1>4. ASSUME NEW e \in Executor, NEW q \in Queue, Pick(e, q) PROVE Uniforms'
    <2>1. /\ queue[e] = None /\ q # None
          /\ queue'[e] = q /\ \A f \in Executor : f # e => queue'[f] = queue[f]
          /\ \A f \in Executor : queue[f] # q
          /\ \A j \in jobs : j.queue # q
          /\ UNCHANGED <<commandList, draws, jobs, uboVars, tempUBO>>
        BY <1>4, PipelineAssumption DEF Pick, Idle, QueueIdle, Types
    <2>2. QueueAlone'
        BY <2>1, <1>parts DEF QueueAlone
    <2>3. DrawnUniforms'
        BY <2>1, <1>parts DEF DrawnUniforms
    <2> QED BY <2>1, <2>2, <2>3, <1>parts DEF Uniforms, Owned, ReadUniforms
<1>5. ASSUME NEW e \in Executor, CommitCommand(e) PROVE Uniforms'
    <2> DEFINE p == commandList[e][position[e]]
    <2>1. p \in Pipeline /\ p \in Entries(commandList[e]) /\ Owner[p] = e
        BY <1>5, NextOf, <1>parts DEF Owned
    <2>2. /\ queue[e] # None
          /\ uboBuffer'[p] = tempUBO[p] /\ uploadedBy'[p] = queue[e]
          /\ \A r \in Pipeline : r # p => uboBuffer'[r] = uboBuffer[r] /\ uploadedBy'[r] = uploadedBy[r]
          /\ UNCHANGED <<queue, commandList, jobs, tempUBO>>
        BY <1>5, <2>1 DEF CommitCommand, Recording, Upload, Types
    <2>3. DrawnUniforms'
        <3>1. ASSUME NEW f \in Executor, NEW w \in Entries(draws'[f])
              PROVE  /\ queue[f] # None /\ Owner[w.pipeline] = f
                     /\ w.uniforms = uboBuffer'[w.pipeline] /\ w.uniforms = tempUBO[w.pipeline]
                     /\ uploadedBy'[w.pipeline] = queue[f]
            <4>1. CASE w \in Entries(draws[f])
                <5>1. w.pipeline \in Pipeline
                    BY <4>1, DrawnPipelines
                <5>2. CASE w.pipeline = p
                    BY <2>1, <2>2, <4>1, <5>2, <1>parts DEF DrawnUniforms
                <5>3. CASE w.pipeline # p
                    BY <2>2, <4>1, <5>1, <5>3, <1>parts DEF DrawnUniforms
                <5> QED BY <5>2, <5>3
            <4>2. CASE w \notin Entries(draws[f])
                <5>1. f = e /\ w \in Entries(DrawsOf(p))
                    BY <1>5, <3>1, <4>2, Committed
                <5>2. w.pipeline = p /\ w.uniforms = tempUBO[p]
                    BY <2>1, <5>1, DrawsRead
                <5> QED BY <2>1, <2>2, <5>1, <5>2
            <4> QED BY <4>1, <4>2
        <3> QED BY <2>2, <3>1 DEF DrawnUniforms
    <2>4. ReadUniforms'
        <3>1. ASSUME NEW j \in jobs, NEW w \in Entries(j.draws)
              PROVE  uboBuffer'[w.pipeline] = w.uniforms \/ uploadedBy'[w.pipeline] # j.queue
            <4>1. w.pipeline \in Pipeline
                BY <3>1, DrawnPipelines
            <4>2. CASE w.pipeline = p
                BY <2>2, <4>2, <1>parts DEF QueueAlone
            <4>3. CASE w.pipeline # p
                BY <2>2, <3>1, <4>1, <4>3, <1>parts DEF ReadUniforms
            <4> QED BY <4>2, <4>3
        <3> QED BY <2>2, <3>1 DEF ReadUniforms
    <2> QED BY <2>2, <2>3, <2>4, <1>parts DEF Uniforms, Owned, QueueAlone
<1>6. ASSUME NEW e \in Executor, Submit(e) PROVE Uniforms'
    <2>1. /\ UNCHANGED <<uboVars, tempUBO>>
          /\ commandList'[e] = <<>> /\ \A f \in Executor : f # e => commandList'[f] = commandList[f]
        BY <1>6 DEF Submit, Types
    <2>2. Owned'
        <3>1. \A f \in Executor : Entries(commandList'[f]) \subseteq Entries(commandList[f])
            BY <2>1 DEF Entries
        <3> QED BY <3>1, <1>parts DEF Owned
    <2>3. QueueAlone'
        <3>1. ASSUME NEW f \in Executor, queue'[f] # None
              PROVE  /\ \A j \in jobs' : j.queue # queue'[f]
                     /\ \A g \in Executor : queue'[g] = queue'[f] => g = f
            <4>1. f # e /\ queue'[f] = queue[f] /\ queue[f] # queue[e]
                BY <1>6, <3>1, Submitted, <1>parts DEF QueueAlone
            <4>2. \A j \in jobs' : j.queue # queue[f]
                BY <1>6, <3>1, <4>1, Submitted, <1>parts DEF QueueAlone
            <4>3. \A g \in Executor : queue'[g] = queue'[f] => g = f
                BY <1>6, <3>1, <4>1, Submitted, <1>parts DEF QueueAlone
            <4> QED BY <4>1, <4>2, <4>3
        <3> QED BY <3>1 DEF QueueAlone
    <2>4. DrawnUniforms'
        <3>1. ASSUME NEW f \in Executor, NEW w \in Entries(draws'[f])
              PROVE  w \in Entries(draws[f]) /\ queue'[f] = queue[f]
            BY <1>6, <3>1, Submitted
        <3> QED BY <2>1, <3>1, <1>parts DEF DrawnUniforms
    <2>5. ReadUniforms'
        <3>1. ASSUME NEW j \in jobs', NEW w \in Entries(j.draws)
              PROVE  uboBuffer[w.pipeline] = w.uniforms \/ uploadedBy[w.pipeline] # j.queue
            <4>1. CASE j \in jobs
                BY <3>1, <4>1, <1>parts DEF ReadUniforms
            <4>2. CASE j \notin jobs
                <5>1. w \in Entries(draws[e])
                    BY <1>6, <3>1, <4>2, Submitted
                <5> QED BY <5>1, <1>parts DEF DrawnUniforms
            <4> QED BY <4>1, <4>2
        <3> QED BY <2>1, <3>1 DEF ReadUniforms
    <2> QED BY <2>2, <2>3, <2>4, <2>5 DEF Uniforms
<1>7. ASSUME NEW p \in Pipeline, SetUniform(p) PROVE Uniforms'
    <2>1. /\ queue[Owner[p]] = None
          /\ \A r \in Pipeline : r # p => tempUBO'[r] = tempUBO[r]
          /\ UNCHANGED <<commandList, queue, draws, jobs, uboVars>>
        BY <1>7 DEF SetUniform, Idle, Types
    <2>2. \A e \in Executor : \A w \in Entries(draws[e]) : w.pipeline \in Pipeline /\ w.pipeline # p
        BY <2>1, DrawnPipelines, <1>parts DEF DrawnUniforms
    <2>3. DrawnUniforms'
        BY <2>1, <2>2, <1>parts DEF DrawnUniforms
    <2> QED BY <2>1, <2>3, <1>parts DEF Uniforms, Owned, QueueAlone, ReadUniforms
<1>8. ASSUME NEW p \in Pipeline, NEW b \in Buffer, SetResource(p, b) \/ Record(p, b) PROVE Uniforms'
    BY <1>8, <1>same DEF SetResource, Record
<1>9. ASSUME NEW j \in jobs, Complete(j) PROVE Uniforms'
    <2>1. jobs' \subseteq jobs /\ UNCHANGED <<commandList, queue, draws, uboVars, tempUBO>>
        BY <1>9 DEF Complete
    <2> QED BY <2>1 DEF Uniforms, Owned, QueueAlone, DrawnUniforms, ReadUniforms
<1>10. ASSUME UNCHANGED vars PROVE Uniforms'
    BY <1>10, <1>same DEF vars
<1> QED BY <1>1, <1>2, <1>3, <1>4, <1>5, <1>6, <1>7, <1>8, <1>9, <1>10 DEF Next

-----------------------------------------------------------------------------
(***************************************************************************)
(* The theorems                                                            *)
(***************************************************************************)

LEMMA Implied ==
    ASSUME IInv
    PROVE  MeshesHeld /\ IndicesNameTheirBuffers /\ UniformsStableOnQueue
<1>1. Types /\ Slotted /\ Holds /\ ReadIndices /\ ReadUniforms
    BY DEF IInv, Indices, Uniforms
<1> SUFFICES ASSUME NEW j \in jobs, NEW i \in DOMAIN j.draws
             PROVE  LET d == j.draws[i]
                    IN  /\ d.mesh # None => Referenced(d.mesh) /\ slot[d.mesh] # 0
                        /\ d.index # 0 => element[d.index] = d.bound /\ slot[d.bound] = d.index
                        /\ uboBuffer[d.pipeline] = d.uniforms \/ uploadedBy[d.pipeline] # j.queue
    BY DEF MeshesHeld, IndicesNameTheirBuffers, UniformsStableOnQueue
<1> DEFINE d == j.draws[i]
<1>2. d \in Entries(j.draws)
    BY DEF Entries
<1>3. d \in Draw
    <2>1. j.draws \in Seq(Draw)
        BY <1>1 DEF Types, Job
    <2> QED BY <1>2, <2>1, EntriesOf
<1>4. ASSUME d.mesh # None PROVE Referenced(d.mesh) /\ slot[d.mesh] # 0
    <2>1. PICK e \in Executor : \E h \in deferredReleaseQueue[e] : d.mesh \in h.buffers
        BY <1>1, <1>2, <1>4 DEF Holds
    <2>2. Referenced(d.mesh)
        BY <2>1, ReferencedIs
    <2>3. d.mesh \in Buffer
        BY <1>3, <1>4 DEF Draw
    <2> QED BY <1>1, <2>2, <2>3 DEF Slotted
<1>5. d.index # 0 => element[d.index] = d.bound /\ slot[d.bound] = d.index
    BY <1>1, <1>2 DEF ReadIndices, Names
<1>6. uboBuffer[d.pipeline] = d.uniforms \/ uploadedBy[d.pipeline] # j.queue
    BY <1>1, <1>2 DEF ReadUniforms
<1> QED BY <1>4, <1>5, <1>6

\* The invariant holds in every behaviour: any pipelines, threads, queues and slots.
THEOREM Invariance == Spec => []IInv
<1>1. Init => IInv
    BY TypesInit, BlocksInit, SlottedInit, HoldsInit, IndicesInit, UniformsInit DEF IInv
<1>2. IInv /\ [Next]_vars => IInv'
    BY TypesStep, BlocksStep, SlottedStep, HoldsStep, IndicesStep, UniformsStep DEF IInv
<1> QED BY <1>1, <1>2, PTL DEF Spec

\* A mesh that was recorded has a handle, and its buffer a slot, until the GPU is done
\* with every submission that draws it.
THEOREM MeshesOutliveTheirUse == Spec => []MeshesHeld
BY Implied, Invariance, PTL

\* An index a submission reads names what it named at the commit, although slots are
\* used again.
THEOREM IndicesStayValid == Spec => []IndicesNameTheirBuffers
BY Implied, Invariance, PTL

\* On one queue a submission reads the uniforms it was recorded with.
THEOREM UniformsStay == Spec => []UniformsStableOnQueue
BY Implied, Invariance, PTL

-----------------------------------------------------------------------------
(***************************************************************************)
(* What is drawn once and in order.  Here the order of the entries counts: *)
(* a record is numbered up to the last mesh recorded, and every mesh is in *)
(* the record, in the command buffer, or submitted.  A mesh keeps the index*)
(* its block had at record(), because every record() starts a new block.   *)
(***************************************************************************)

\* The numbers of a record end with the last mesh recorded; only a rasterizer has one.
Numbered ==
    \A p \in Pipeline :
        /\ p \notin Raster => geomMeshesRecord[p] = <<>>
        /\ \A i \in DOMAIN geomMeshesRecord[p] :
               geomMeshesRecord[p][i].number + Len(geomMeshesRecord[p]) = recorded[p] + i

\* No mesh is lost or drawn twice.
Counted ==
    \A p \in Pipeline :
        /\ drawn[p] \in Nat
        /\ drawn[p] + Cardinality(MeshesOf(p, draws[Owner[p]])) + Len(geomMeshesRecord[p]) = recorded[p]

\* No block is written after the mesh it was given to.
Wanted ==
    /\ \A p \in Pipeline : \A m \in Recorded(p) : m.wants = data[m.block]
    /\ \A e \in Executor : \A w \in Entries(draws[e]) : w.index = w.wants
    /\ \A j \in jobs : \A w \in Entries(j.draws) : w.index = w.wants

\* What is in a command buffer or submitted goes on from what was submitted before.
Ordered ==
    /\ \A p \in Pipeline : InOrder(p, draws[Owner[p]], drawn[p])
    /\ \A j \in jobs : \A p \in Pipeline : InOrder(p, j.draws, j.first[p])

OnceInv == Numbered /\ Counted /\ Wanted /\ Ordered

Shifted(B, n) == {i + n : i \in B}

LEMMA ShiftedSame ==
    ASSUME NEW B \in SUBSET Nat, IsFiniteSet(B), NEW n \in Nat
    PROVE  IsFiniteSet(Shifted(B, n)) /\ Cardinality(Shifted(B, n)) = Cardinality(B)
<1> DEFINE f == [i \in B |-> i + n]
<1>1. f \in Bijection(B, Shifted(B, n))
    <2>1. f \in [B -> Shifted(B, n)]
        BY DEF Shifted
    <2>2. ASSUME NEW i \in B, NEW k \in B, f[i] = f[k] PROVE i = k
        <3>1. i + n = k + n /\ i \in Nat /\ k \in Nat
            BY <2>2
        <3> QED BY <3>1
    <2>3. \A k \in Shifted(B, n) : \E i \in B : f[i] = k
        BY DEF Shifted
    <2> QED BY <2>1, <2>2, <2>3 DEF Bijection, Injection, Surjection, IsInjective
<1>2. ExistsBijection(B, Shifted(B, n))
    BY <1>1 DEF ExistsBijection
<1> QED BY <1>2, FS_Bijection

LEMMA DisjointCount ==
    ASSUME NEW A, NEW C, IsFiniteSet(A), IsFiniteSet(C), A \cap C = {}
    PROVE  Cardinality(A \cup C) = Cardinality(A) + Cardinality(C)
<1>1. Cardinality(A \cup C) = Cardinality(A) + Cardinality(C) - Cardinality(A \cap C)
    BY FS_Union
<1>2. Cardinality(A \cap C) = 0 /\ Cardinality(A) \in Nat /\ Cardinality(C) \in Nat
    BY FS_EmptySet, FS_CardinalityType
<1> QED BY <1>1, <1>2

\* The meshes of two command buffers one after the other.
LEMMA MeshesOfBoth ==
    ASSUME NEW p, NEW s \in Seq(Draw), NEW t \in Seq(Draw)
    PROVE  /\ MeshesOf(p, s \o t) = MeshesOf(p, s) \cup Shifted(MeshesOf(p, t), Len(s))
           /\ MeshesOf(p, s) \subseteq 1 .. Len(s) /\ MeshesOf(p, t) \subseteq 1 .. Len(t)
           /\ Len(s) \in Nat /\ Len(t) \in Nat
           /\ MeshesOf(p, s) \cap Shifted(MeshesOf(p, t), Len(s)) = {}
           /\ \A i \in MeshesOf(p, s) : (s \o t)[i] = s[i]
           /\ \A i \in MeshesOf(p, t) : (s \o t)[i + Len(s)] = t[i]
<1> DEFINE A == MeshesOf(p, s)
           B == MeshesOf(p, t)
           n == Len(s)
           C == Shifted(B, n)
<1>1. /\ n \in Nat /\ Len(t) \in Nat /\ DOMAIN s = 1 .. n /\ DOMAIN t = 1 .. Len(t)
      /\ DOMAIN (s \o t) = 1 .. n + Len(t)
      /\ \A i \in 1 .. n + Len(t) : (s \o t)[i] = IF i <= n THEN s[i] ELSE t[i - n]
    OBVIOUS
<1>2. A \subseteq 1 .. n /\ B \subseteq 1 .. Len(t)
    BY <1>1 DEF MeshesOf
<1>3. MeshesOf(p, s \o t) = A \cup C
    <2>1. ASSUME NEW i \in MeshesOf(p, s \o t) PROVE i \in A \cup C
        <3>1. i \in 1 .. n + Len(t) /\ (s \o t)[i].pipeline = p /\ (s \o t)[i].number # 0
            BY <1>1 DEF MeshesOf
        <3>2. CASE i <= n
            BY <1>1, <3>1, <3>2 DEF MeshesOf
        <3>3. CASE ~(i <= n)
            <4>1. i - n \in 1 .. Len(t) /\ (s \o t)[i] = t[i - n] /\ i = (i - n) + n
                BY <1>1, <3>1, <3>3
            <4>2. i - n \in B
                BY <1>1, <3>1, <4>1 DEF MeshesOf
            <4> QED BY <4>1, <4>2 DEF Shifted
        <3> QED BY <3>2, <3>3
    <2>2. ASSUME NEW i \in A PROVE i \in MeshesOf(p, s \o t)
        <3>1. i \in 1 .. n /\ s[i].pipeline = p /\ s[i].number # 0
            BY <1>1 DEF MeshesOf
        <3>2. i \in DOMAIN (s \o t) /\ (s \o t)[i] = s[i]
            BY <1>1, <3>1
        <3> QED BY <3>1, <3>2 DEF MeshesOf
    <2>3. ASSUME NEW i \in B PROVE i + n \in MeshesOf(p, s \o t)
        <3>1. i \in 1 .. Len(t) /\ t[i].pipeline = p /\ t[i].number # 0
            BY <1>1 DEF MeshesOf
        <3>2. i + n \in DOMAIN (s \o t) /\ (s \o t)[i + n] = t[i]
            BY <1>1, <3>1
        <3> QED BY <3>1, <3>2 DEF MeshesOf
    <2> QED BY <2>1, <2>2, <2>3 DEF Shifted
<1>4. A \cap C = {}
    BY <1>1, <1>2 DEF Shifted
<1>5. \A i \in A : (s \o t)[i] = s[i]
    BY <1>1, <1>2
<1>6. \A i \in B : (s \o t)[i + n] = t[i]
    BY <1>1, <1>2
<1> QED BY <1>1, <1>2, <1>3, <1>4, <1>5, <1>6

LEMMA MeshesConcat ==
    ASSUME NEW p, NEW s \in Seq(Draw), NEW t \in Seq(Draw)
    PROVE  Cardinality(MeshesOf(p, s \o t)) = Cardinality(MeshesOf(p, s)) + Cardinality(MeshesOf(p, t))
<1> DEFINE A == MeshesOf(p, s)
           B == MeshesOf(p, t)
           C == Shifted(B, Len(s))
<1>1. MeshesOf(p, s \o t) = A \cup C /\ A \cap C = {} /\ Len(s) \in Nat /\ B \in SUBSET Nat
    BY MeshesOfBoth
<1>2. IsFiniteSet(A) /\ IsFiniteSet(B)
    BY MeshesFinite
<1>3. IsFiniteSet(C) /\ Cardinality(C) = Cardinality(B)
    BY <1>1, <1>2, ShiftedSame
<1> QED BY <1>1, <1>2, <1>3, DisjointCount

\* A command buffer that goes on where another ends.
LEMMA OrderConcat ==
    ASSUME NEW p, NEW s \in Seq(Draw), NEW t \in Seq(Draw), NEW n \in Nat,
           InOrder(p, s, n), InOrder(p, t, n + Cardinality(MeshesOf(p, s)))
    PROVE  InOrder(p, s \o t, n)
<1> DEFINE A == MeshesOf(p, s)
           B == MeshesOf(p, t)
           l == Len(s)
           C == Shifted(B, l)
           M == MeshesOf(p, s \o t)
<1>1. /\ M = A \cup C /\ A \cap C = {} /\ l \in Nat /\ A \subseteq 1 .. l /\ B \subseteq 1 .. Len(t)
      /\ Len(t) \in Nat
      /\ \A i \in A : (s \o t)[i] = s[i]
      /\ \A i \in B : (s \o t)[i + l] = t[i]
    BY MeshesOfBoth
<1>2. IsFiniteSet(A) /\ IsFiniteSet(B) /\ Cardinality(A) \in Nat
    BY MeshesFinite
<1>3. \A i \in A : s[i].number = n + Cardinality({k \in A : k <= i})
    BY DEF InOrder
<1>4. \A i \in B : t[i].number = n + Cardinality(A) + Cardinality({k \in B : k <= i})
    BY DEF InOrder
<1> HIDE DEF A, B, l, M
<1>5. ASSUME NEW i \in A
      PROVE  (s \o t)[i].number = n + Cardinality({k \in M : k <= i})
    <2>1. {k \in M : k <= i} = {k \in A : k <= i}
        BY <1>1 DEF Shifted
    <2> QED BY <1>1, <1>3, <2>1
<1>6. ASSUME NEW i \in B
      PROVE  (s \o t)[i + l].number = n + Cardinality({k \in M : k <= i + l})
    <2> DEFINE D == {k \in B : k <= i}
    <2>1. {k \in M : k <= i + l} = A \cup Shifted(D, l)
        <3>1. i \in Nat /\ l \in Nat /\ B \subseteq Nat /\ \A k \in A : k \in Nat /\ k <= l
            BY <1>1
        <3>2. \A k \in A : k \in M /\ k <= i + l
            BY <1>1, <3>1
        <3>3. \A k \in B : k + l <= i + l <=> k <= i
            BY <3>1
        <3>4. C = {k + l : k \in B} /\ Shifted(D, l) = {k + l : k \in D}
            BY DEF Shifted
        <3>5. ASSUME NEW k \in M, k <= i + l PROVE k \in A \cup Shifted(D, l)
            BY <1>1, <3>3, <3>4, <3>5
        <3>6. ASSUME NEW k \in Shifted(D, l) PROVE k \in M /\ k <= i + l
            BY <1>1, <3>3, <3>4, <3>6
        <3> QED BY <3>2, <3>5, <3>6
    <2>2. IsFiniteSet(D) /\ D \in SUBSET Nat
        <3>1. D \in SUBSET B /\ B \subseteq Nat
            BY <1>1
        <3> HIDE DEF D
        <3> QED BY <1>2, <3>1, FS_Subset
    <2>3. A \cap Shifted(D, l) = {}
        BY <1>1 DEF Shifted
    <2> HIDE DEF D
    <2>4. IsFiniteSet(Shifted(D, l)) /\ Cardinality(Shifted(D, l)) = Cardinality(D)
        BY <1>1, <2>2, ShiftedSame
    <2>5. Cardinality(A \cup Shifted(D, l)) = Cardinality(A) + Cardinality(D)
        BY <1>2, <2>3, <2>4, DisjointCount
    <2>6. Cardinality(D) \in Nat
        BY <2>2, FS_CardinalityType
    <2>7. (s \o t)[i + l].number = n + Cardinality(A) + Cardinality(D)
        BY <1>1, <1>4 DEF D
    <2>8. n + Cardinality(A) + Cardinality(D) = n + (Cardinality(A) + Cardinality(D))
        BY <1>2, <2>6
    <2> QED BY <2>1, <2>5, <2>7, <2>8
<1>7. ASSUME NEW i \in M PROVE (s \o t)[i].number = n + Cardinality({k \in M : k <= i})
    <2>1. CASE i \in A
        BY <1>5, <2>1
    <2>2. CASE i \in C
        <3>1. PICK k \in B : i = k + l
            BY <2>2 DEF Shifted
        <3> QED BY <1>6, <3>1
    <2> QED BY <1>1, <2>1, <2>2
<1> QED BY <1>7 DEF InOrder, M

LEMMA MeshesCounted ==
    ASSUME Types, NEW p \in Pipeline, NEW e \in Executor
    PROVE  Cardinality(MeshesOf(p, draws[e])) \in Nat
<1>1. draws[e] \in Seq(Draw)
    BY DEF Types
<1> QED BY <1>1, MeshesFinite

LEMMA RecordIs ==
    ASSUME Types, NEW p \in Pipeline
    PROVE  /\ Len(geomMeshesRecord[p]) \in Nat
           /\ DOMAIN geomMeshesRecord[p] = 1 .. Len(geomMeshesRecord[p])
           /\ \A i \in DOMAIN geomMeshesRecord[p] : i \in Nat /\ geomMeshesRecord[p][i].number \in Nat
<1>1. geomMeshesRecord[p] \in Seq(Mesh)
    BY DEF Types
<1>2. ASSUME NEW i \in DOMAIN geomMeshesRecord[p] PROVE geomMeshesRecord[p][i].number \in Nat
    <2>1. geomMeshesRecord[p][i] \in Recorded(p)
        BY DEF Recorded
    <2>2. geomMeshesRecord[p][i].number \in 1 .. MaxRecords
        BY <2>1, RecordedMesh
    <2> QED BY <2>2, PipelineBounds
<1> QED BY <1>1, <1>2

LEMMA MeshesNone ==
    ASSUME NEW p, NEW s, MeshesOf(p, s) = {}
    PROVE  Cardinality(MeshesOf(p, s)) = 0
BY FS_EmptySet

\* A rasterizer's part of the command buffer has each mesh of its record, in the
\* record's order; no other pipeline has one there.
LEMMA DrawsCount ==
    ASSUME Types, Numbered, NEW p \in Pipeline, NEW r \in Pipeline
    PROVE  Cardinality(MeshesOf(r, DrawsOf(p))) = IF r = p THEN Len(geomMeshesRecord[p]) ELSE 0
<1>1. \A w \in Entries(DrawsOf(p)) : w.pipeline = p
    BY DrawsRead
<1>2. CASE r # p
    <2>1. MeshesOf(r, DrawsOf(p)) = {}
        BY <1>1, <1>2 DEF MeshesOf, Entries
    <2> QED BY <1>2, <2>1, MeshesNone
<1>3. CASE r = p /\ p \in Raster
    <2> DEFINE s == geomMeshesRecord[p]
    <2>1. s \in Seq(Mesh) /\ DOMAIN s = 1 .. Len(s) /\ Len(s) \in Nat
        BY DEF Types
    <2>2. DOMAIN DrawsOf(p) = 1 .. Len(s)
        BY <1>3, <2>1 DEF DrawsOf, DrawMeshes
    <2>3. ASSUME NEW i \in 1 .. Len(s)
          PROVE  DrawsOf(p)[i].pipeline = p /\ DrawsOf(p)[i].number # 0
        <3>1. s[i] \in Recorded(p)
            BY <2>1 DEF Recorded
        <3>2. s[i].number # 0
            BY <3>1, RecordedMesh
        <3> QED BY <1>3, <2>1, <3>2 DEF DrawsOf, DrawMeshes, DrawOf
    <2>4. MeshesOf(p, DrawsOf(p)) = 1 .. Len(s)
        BY <2>2, <2>3 DEF MeshesOf
    <2>5. Cardinality(1 .. Len(s)) = Len(s)
        <3>1. Cardinality(1 .. Len(s)) = IF 1 > Len(s) THEN 0 ELSE Len(s) - 1 + 1
            BY <2>1, FS_Interval
        <3> QED BY <2>1, <3>1
    <2> QED BY <1>3, <2>4, <2>5
<1>4. CASE r = p /\ p \notin Raster
    <2>1. MeshesOf(p, DrawsOf(p)) = {}
        BY <1>4 DEF MeshesOf, DrawsOf, Dispatch, DrawOf
    <2>2. Len(geomMeshesRecord[p]) = 0
        BY <1>4 DEF Numbered
    <2> QED BY <1>4, <2>1, <2>2, MeshesNone
<1> QED BY <1>2, <1>3, <1>4

LEMMA DrawsOrdered ==
    ASSUME Types, Numbered, NEW p \in Pipeline, NEW r \in Pipeline, NEW n \in Nat,
           r = p => n + Len(geomMeshesRecord[p]) = recorded[p]
    PROVE  InOrder(r, DrawsOf(p), n)
<1>1. CASE r # p \/ p \notin Raster
    <2>1. \A w \in Entries(DrawsOf(p)) : w.pipeline = p
        BY DrawsRead
    <2>2. p \notin Raster => \A w \in Entries(DrawsOf(p)) : w.number = 0
        BY DEF DrawsOf, Dispatch, DrawOf, Entries
    <2>3. MeshesOf(r, DrawsOf(p)) = {}
        BY <1>1, <2>1, <2>2 DEF MeshesOf, Entries
    <2> QED BY <2>3 DEF InOrder
<1>2. CASE r = p /\ p \in Raster
    <2> DEFINE s == geomMeshesRecord[p]
               l == Len(s)
    <2>1. s \in Seq(Mesh) /\ DOMAIN s = 1 .. l /\ l \in Nat /\ recorded[p] \in Nat
        BY PipelineBounds DEF Types
    <2>2. DOMAIN DrawsOf(p) = 1 .. l
        BY <1>2, <2>1 DEF DrawsOf, DrawMeshes
    <2>3. ASSUME NEW i \in 1 .. l
          PROVE  DrawsOf(p)[i].pipeline = p /\ DrawsOf(p)[i].number = s[i].number /\ s[i].number \in Nat \ {0}
        <3>1. s[i] \in Recorded(p)
            BY <2>1 DEF Recorded
        <3>2. s[i].number \in Nat \ {0}
            BY <3>1, RecordedMesh, PipelineBounds
        <3> QED BY <1>2, <2>1, <3>2 DEF DrawsOf, DrawMeshes, DrawOf
    <2>4. MeshesOf(p, DrawsOf(p)) = 1 .. l
        BY <2>2, <2>3 DEF MeshesOf
    <2>5. ASSUME NEW i \in 1 .. l
          PROVE  DrawsOf(p)[i].number = n + Cardinality({k \in 1 .. l : k <= i})
        <3>1. {k \in 1 .. l : k <= i} = 1 .. i
            BY <2>1
        <3>2. Cardinality(1 .. i) = i
            <4>1. Cardinality(1 .. i) = IF 1 > i THEN 0 ELSE i - 1 + 1
                BY <2>1, FS_Interval
            <4> QED BY <2>1, <4>1
        <3>3. s[i].number + l = recorded[p] + i
            BY <2>1 DEF Numbered
        <3>4. n + l = recorded[p]
            BY <1>2
        <3> HIDE DEF s, l
        <3>5. s[i].number = n + i
            <4>1. s[i].number \in Nat /\ i \in Nat
                BY <2>1, <2>3
            <4> QED BY <2>1, <3>3, <3>4, <4>1
        <3> QED BY <2>3, <3>1, <3>2, <3>5
    <2> QED BY <1>2, <2>4, <2>5 DEF InOrder
<1> QED BY <1>1, <1>2

LEMMA DrawsWanted ==
    ASSUME Types, Wanted, NEW p \in Pipeline, NEW w \in Entries(DrawsOf(p))
    PROVE  w.index = w.wants
<1>1. CASE p \in Raster
    <2>1. PICK i \in DOMAIN geomMeshesRecord[p] :
              LET m == geomMeshesRecord[p][i]
              IN  w = DrawOf(p, m.number, m.buffer, m.block, m.wants)
        BY <1>1 DEF DrawsOf, DrawMeshes, Entries
    <2>2. geomMeshesRecord[p][i] \in Recorded(p)
        BY DEF Recorded
    <2> QED BY <2>1, <2>2 DEF Wanted, DrawOf
<1>2. CASE p \notin Raster
    <2>1. w = DrawOf(p, 0, None, pushConstant[p], data[pushConstant[p]])
        BY <1>2 DEF DrawsOf, Dispatch, Entries
    <2> QED BY <2>1 DEF DrawOf
<1> QED BY <1>1, <1>2

LEMMA OnceInit == Init => OnceInv
<1> SUFFICES ASSUME Init PROVE OnceInv
    OBVIOUS
<1>1. Numbered /\ Wanted
    BY DEF Init, Numbered, Wanted, Recorded, Entries
<1>2. ASSUME NEW p \in Pipeline
      PROVE  /\ drawn[p] \in Nat
             /\ drawn[p] + Cardinality(MeshesOf(p, draws[Owner[p]])) + Len(geomMeshesRecord[p]) = recorded[p]
    <2>1. draws[Owner[p]] = <<>> /\ drawn[p] = 0 /\ recorded[p] = 0 /\ geomMeshesRecord[p] = <<>>
        BY PipelineAssumption DEF Init
    <2>2. Cardinality(MeshesOf(p, draws[Owner[p]])) = 0
        <3>1. MeshesOf(p, draws[Owner[p]]) = {}
            BY <2>1 DEF MeshesOf
        <3> QED BY <3>1, MeshesNone
    <2> QED BY <2>1, <2>2
<1>3. Ordered
    <2>1. \A p \in Pipeline : MeshesOf(p, draws[Owner[p]]) = {}
        BY PipelineAssumption DEF Init, MeshesOf
    <2> QED BY <2>1 DEF Init, Ordered, InOrder
<1> QED BY <1>1, <1>2, <1>3 DEF OnceInv, Counted

LEMMA OnceRecord ==
    ASSUME IInv, OnceInv, NEW p \in Pipeline, NEW b \in Buffer, Record(p, b)
    PROVE  OnceInv'
<1> DEFINE mesh == [number |-> recorded[p] + 1, buffer |-> b, block |-> pushConstant[p],
                    wants |-> data[pushConstant[p]]]
<1>1. Types
    BY DEF IInv
<1>2. recorded[p] \in Nat /\ recorded'[p] = recorded[p] + 1 /\ p \in Raster
      /\ \A r \in Pipeline : r # p => recorded'[r] = recorded[r]
    BY <1>1 DEF Record, Types
<1>3. /\ geomMeshesRecord'[p] = Append(geomMeshesRecord[p], mesh)
      /\ \A r \in Pipeline : r # p => geomMeshesRecord'[r] = geomMeshesRecord[r]
      /\ UNCHANGED <<data, draws, jobs, drawn>>
    BY <1>1 DEF Record, Types, slotVars, execVars
<1>4. /\ geomMeshesRecord[p] \in Seq(Mesh) /\ mesh \in Mesh
    <2>1. recorded[p] + 1 \in 1 .. MaxRecords
        BY <1>1, PipelineBounds DEF Record, Types
    <2> QED BY <1>1, <2>1, CurrentBlock DEF Mesh, Types
<1> DEFINE n == Len(geomMeshesRecord[p])
<1>5. /\ n \in Nat /\ DOMAIN geomMeshesRecord[p] = 1 .. n
      /\ DOMAIN geomMeshesRecord'[p] = 1 .. n + 1 /\ Len(geomMeshesRecord'[p]) = n + 1
      /\ geomMeshesRecord'[p][n + 1] = mesh
      /\ \A i \in 1 .. n : geomMeshesRecord'[p][i] = geomMeshesRecord[p][i]
    BY <1>3, <1>4
<1>6. mesh.number = recorded[p] + 1
    OBVIOUS
<1>7. \A i \in 1 .. n : geomMeshesRecord[p][i].number \in Nat
    BY <1>1, RecordIs
<1> HIDE DEF mesh, n
<1>8. Numbered'
    <2>1. ASSUME NEW i \in 1 .. n + 1
          PROVE  geomMeshesRecord'[p][i].number + (n + 1) = recorded'[p] + i
        <3>1. CASE i = n + 1
            BY <1>2, <1>5, <1>6, <3>1
        <3>2. CASE i # n + 1
            <4>1. i \in 1 .. n
                BY <1>5, <3>2
            <4>2. geomMeshesRecord[p][i].number + n = recorded[p] + i
                BY <1>5, <4>1 DEF OnceInv, Numbered, n
            <4>3. PICK k \in Nat : k = geomMeshesRecord[p][i].number /\ k = geomMeshesRecord'[p][i].number
                BY <1>5, <1>7, <4>1
            <4>4. k + (n + 1) = recorded[p] + 1 + i
                <5>1. k + n = recorded[p] + i
                    BY <4>2, <4>3
                <5>2. n \in Nat /\ i \in Nat /\ recorded[p] \in Nat
                    BY <1>2, <1>5, <4>1
                <5> QED BY <5>1, <5>2
            <4> QED BY <1>2, <4>3, <4>4
        <3> QED BY <3>1, <3>2
    <2>2. ASSUME NEW r \in Pipeline
          PROVE  /\ r \notin Raster => geomMeshesRecord'[r] = <<>>
                 /\ \A i \in DOMAIN geomMeshesRecord'[r] :
                       geomMeshesRecord'[r][i].number + Len(geomMeshesRecord'[r]) = recorded'[r] + i
        <3>1. CASE r = p
            BY <1>2, <1>5, <2>1, <3>1
        <3>2. CASE r # p
            BY <1>2, <1>3, <3>2 DEF OnceInv, Numbered
        <3> QED BY <3>1, <3>2
    <2> QED BY <2>2 DEF Numbered
<1>9. Counted'
    <2>1. ASSUME NEW r \in Pipeline
          PROVE  /\ drawn'[r] \in Nat
                 /\ drawn'[r] + Cardinality(MeshesOf(r, draws'[Owner[r]])) + Len(geomMeshesRecord'[r])
                        = recorded'[r]
        <3>1. /\ drawn[r] \in Nat
              /\ drawn[r] + Cardinality(MeshesOf(r, draws[Owner[r]])) + Len(geomMeshesRecord[r]) = recorded[r]
            BY DEF OnceInv, Counted
        <3>2. CASE r = p
            <4> DEFINE k == Cardinality(MeshesOf(r, draws[Owner[r]]))
            <4>1. k \in Nat
                BY <1>1, MeshesCounted, PipelineAssumption
            <4>2. drawn[r] \in Nat /\ drawn[r] + k + n = recorded[p] /\ draws' = draws /\ drawn' = drawn
                BY <1>3, <3>1, <3>2 DEF n
            <4>3. Len(geomMeshesRecord'[r]) = n + 1
                BY <1>5, <3>2
            <4> HIDE DEF k
            <4>4. drawn[r] + k + (n + 1) = recorded'[r]
                BY <1>2, <1>5, <3>2, <4>1, <4>2
            <4> QED BY <4>2, <4>3, <4>4 DEF k
        <3>3. CASE r # p
            BY <1>2, <1>3, <3>1, <3>3
        <3> QED BY <3>2, <3>3
    <2> QED BY <2>1 DEF Counted
<1>10. Wanted'
    <2>1. ASSUME NEW r \in Pipeline, NEW m \in Recorded(r)' PROVE m.wants = data[m.block]
        BY <1>1, RecordAdds DEF OnceInv, Wanted
    <2> QED BY <1>3, <2>1 DEF OnceInv, Wanted
<1>11. Ordered'
    BY <1>3 DEF OnceInv, Ordered, InOrder
<1> QED BY <1>8, <1>9, <1>10, <1>11 DEF OnceInv

LEMMA OnceCommitCommand ==
    ASSUME IInv, OnceInv, NEW e \in Executor, CommitCommand(e)
    PROVE  OnceInv'
<1> DEFINE p == commandList[e][position[e]]
<1>1. Types /\ Blocks
    BY DEF IInv
<1>2. p \in Pipeline /\ Owner[p] = e
    BY <1>1, NextOf DEF IInv, Uniforms, Owned
<1>3. /\ draws' = [draws EXCEPT ![e] = @ \o DrawsOf(p)]
      /\ geomMeshesRecord' = [geomMeshesRecord EXCEPT ![p] = <<>>]
      /\ data' = [k \in Block |-> IF k \in FreedBlocks(p) THEN 0 ELSE data[k]]
      /\ UNCHANGED <<recorded, drawn, jobs>>
    BY DEF CommitCommand, DrawsOf, RecordAfter
<1>4. Numbered'
    BY <1>1, <1>3 DEF OnceInv, Numbered, Types
<1>5. Counted'
    <2>1. ASSUME NEW r \in Pipeline
          PROVE  /\ drawn'[r] \in Nat
                 /\ drawn'[r] + Cardinality(MeshesOf(r, draws'[Owner[r]])) + Len(geomMeshesRecord'[r])
                        = recorded'[r]
        <3>1. /\ drawn[r] \in Nat
              /\ drawn[r] + Cardinality(MeshesOf(r, draws[Owner[r]])) + Len(geomMeshesRecord[r]) = recorded[r]
            BY DEF OnceInv, Counted
        <3>2. CASE Owner[r] # e
            <4>1. draws'[Owner[r]] = draws[Owner[r]] /\ geomMeshesRecord'[r] = geomMeshesRecord[r]
                BY <1>1, <1>2, <1>3, <3>2, PipelineAssumption DEF Types
            <4> QED BY <1>3, <3>1, <4>1
        <3>3. CASE Owner[r] = e
            <4>1. draws[e] \in Seq(Draw) /\ DrawsOf(p) \in Seq(Draw)
                BY <1>1, <1>2, DrawsType DEF Types
            <4>2. draws'[e] = draws[e] \o DrawsOf(p)
                BY <1>1, <1>3 DEF Types
            <4>3. Cardinality(MeshesOf(r, draws'[e]))
                      = Cardinality(MeshesOf(r, draws[e])) + Cardinality(MeshesOf(r, DrawsOf(p)))
                BY <4>1, <4>2, MeshesConcat
            <4>4. Cardinality(MeshesOf(r, DrawsOf(p))) = IF r = p THEN Len(geomMeshesRecord[p]) ELSE 0
                BY <1>1, <1>2, DrawsCount DEF OnceInv
            <4>5. Len(geomMeshesRecord'[r]) = IF r = p THEN 0 ELSE Len(geomMeshesRecord[r])
                BY <1>1, <1>3 DEF Types
            <4>6. Cardinality(MeshesOf(r, draws[e])) \in Nat /\ Len(geomMeshesRecord[r]) \in Nat
                BY <1>1, MeshesCounted, RecordIs
            <4> HIDE DEF p
            <4> QED BY <1>3, <3>1, <3>3, <4>3, <4>4, <4>5, <4>6
        <3> QED BY <3>2, <3>3
    <2> QED BY <2>1 DEF Counted
<1>6. Wanted'
    <2>1. ASSUME NEW r \in Pipeline, NEW m \in Recorded(r)' PROVE m.wants = data'[m.block]
        <3>1. r # p /\ m \in Recorded(r)
            BY <1>1, RecordCleared, <2>1
        <3>2. m.block \in Block /\ m.block[1] = r
            BY <1>1, <3>1, RecordedMesh DEF Blocks
        <3>3. m.block \notin FreedBlocks(p)
            BY <1>1, <1>2, <3>1, <3>2 DEF FreedBlocks, Blocks
        <3> QED BY <1>3, <3>1, <3>2, <3>3 DEF OnceInv, Wanted
    <2>2. ASSUME NEW f \in Executor, NEW w \in Entries(draws'[f]) PROVE w.index = w.wants
        <3>1. CASE w \in Entries(draws[f])
            BY <3>1 DEF OnceInv, Wanted
        <3>2. CASE w \notin Entries(draws[f])
            <4>1. w \in Entries(DrawsOf(p))
                BY <1>1, <2>2, <3>2, Committed
            <4> QED BY <1>1, <1>2, <4>1, DrawsWanted DEF OnceInv
        <3> QED BY <3>1, <3>2
    <2> QED BY <1>3, <2>1, <2>2 DEF OnceInv, Wanted
<1>7. Ordered'
    <2>1. ASSUME NEW r \in Pipeline PROVE InOrder(r, draws'[Owner[r]], drawn[r])
        <3>1. CASE Owner[r] # e
            <4>1. draws'[Owner[r]] = draws[Owner[r]]
                BY <1>1, <1>3, <3>1, PipelineAssumption DEF Types
            <4> QED BY <4>1 DEF OnceInv, Ordered
        <3>2. CASE Owner[r] = e
            <4> DEFINE k == Cardinality(MeshesOf(r, draws[e]))
            <4>1. draws[e] \in Seq(Draw) /\ DrawsOf(p) \in Seq(Draw) /\ draws'[e] = draws[e] \o DrawsOf(p)
                BY <1>1, <1>2, <1>3, DrawsType DEF Types
            <4>2. InOrder(r, draws[e], drawn[r])
                BY <3>2 DEF OnceInv, Ordered
            <4>3. drawn[r] \in Nat /\ k \in Nat /\ drawn[r] + k + Len(geomMeshesRecord[r]) = recorded[r]
                BY <1>1, <3>2, MeshesCounted DEF OnceInv, Counted
            <4> HIDE DEF k, p
            <4>4. InOrder(r, DrawsOf(p), drawn[r] + k)
                BY <1>1, <1>2, <4>3, DrawsOrdered DEF OnceInv
            <4> QED BY <3>2, <4>1, <4>2, <4>3, <4>4, OrderConcat DEF k
        <3> QED BY <3>1, <3>2
    <2> QED BY <1>3, <2>1 DEF OnceInv, Ordered, InOrder
<1> QED BY <1>4, <1>5, <1>6, <1>7 DEF OnceInv

LEMMA OnceSubmit ==
    ASSUME IInv, OnceInv, NEW e \in Executor, Submit(e)
    PROVE  OnceInv'
<1>1. Types
    BY DEF IInv
<1>2. /\ drawn' = [p \in Pipeline |-> drawn[p] + Cardinality(MeshesOf(p, draws[e]))]
      /\ draws'[e] = <<>> /\ \A f \in Executor : f # e => draws'[f] = draws[f]
      /\ UNCHANGED <<geomMeshesRecord, recorded, data>>
    BY <1>1 DEF Submit, pipeVars, Types
<1>3. Numbered'
    BY <1>2 DEF OnceInv, Numbered
<1>4. Counted'
    <2>1. ASSUME NEW r \in Pipeline
          PROVE  /\ drawn'[r] \in Nat
                 /\ drawn'[r] + Cardinality(MeshesOf(r, draws'[Owner[r]])) + Len(geomMeshesRecord'[r])
                        = recorded'[r]
        <3>1. /\ drawn[r] \in Nat
              /\ drawn[r] + Cardinality(MeshesOf(r, draws[Owner[r]])) + Len(geomMeshesRecord[r]) = recorded[r]
            BY DEF OnceInv, Counted
        <3>2. drawn'[r] = drawn[r] + Cardinality(MeshesOf(r, draws[e]))
            BY <1>2
        <3>3. /\ draws[e] \in Seq(Draw) /\ Cardinality(MeshesOf(r, draws[e])) \in Nat
              /\ Len(geomMeshesRecord[r]) \in Nat
            BY <1>1, MeshesFinite DEF Types
        <3>4. CASE Owner[r] = e
            <4>1. Cardinality(MeshesOf(r, draws'[e])) = 0
                <5>1. MeshesOf(r, draws'[e]) = {}
                    BY <1>2 DEF MeshesOf
                <5> QED BY <5>1, MeshesNone
            <4> QED BY <1>2, <3>1, <3>2, <3>3, <3>4, <4>1
        <3>5. CASE Owner[r] # e
            <4>1. Cardinality(MeshesOf(r, draws[e])) = 0
                <5>1. \A w \in Entries(draws[e]) : w.pipeline # r
                    BY <3>5 DEF IInv, Uniforms, DrawnUniforms
                <5>2. MeshesOf(r, draws[e]) = {}
                    BY <5>1 DEF MeshesOf, Entries
                <5> QED BY <5>2, MeshesNone
            <4>2. draws'[Owner[r]] = draws[Owner[r]]
                BY <1>2, <3>5, PipelineAssumption
            <4> QED BY <1>2, <3>1, <3>2, <3>3, <4>1, <4>2
        <3> QED BY <3>4, <3>5
    <2> QED BY <2>1 DEF Counted
<1>5. Wanted'
    <2>1. ASSUME NEW f \in Executor, NEW w \in Entries(draws'[f]) PROVE w.index = w.wants
        <3>1. f # e /\ draws'[f] = draws[f]
            BY <1>2, <2>1 DEF Entries
        <3> QED BY <2>1, <3>1 DEF OnceInv, Wanted
    <2>2. ASSUME NEW j \in jobs', NEW w \in Entries(j.draws) PROVE w.index = w.wants
        <3>1. j \in jobs \/ Entries(j.draws) = Entries(draws[e])
            BY <1>1, <2>2, Submitted
        <3> QED BY <2>2, <3>1 DEF OnceInv, Wanted
    <2>3. \A r \in Pipeline : Recorded(r)' = Recorded(r)
        BY <1>2 DEF Recorded
    <2> QED BY <1>2, <2>1, <2>2, <2>3 DEF OnceInv, Wanted
<1>6. Ordered'
    <2>1. ASSUME NEW r \in Pipeline PROVE InOrder(r, draws'[Owner[r]], drawn'[r])
        <3>1. CASE Owner[r] = e
            BY <1>2, <3>1 DEF InOrder, MeshesOf
        <3>2. CASE Owner[r] # e
            <4>1. drawn'[r] = drawn[r] /\ draws'[Owner[r]] = draws[Owner[r]]
                <5>1. MeshesOf(r, draws[e]) = {}
                    BY <3>2 DEF IInv, Uniforms, DrawnUniforms, MeshesOf, Entries
                <5>2. drawn[r] \in Nat /\ drawn'[r] = drawn[r] + 0
                    BY <1>1, <1>2, <5>1, MeshesNone DEF Types
                <5> QED BY <1>2, <3>2, <5>2, PipelineAssumption
            <4> QED BY <4>1 DEF OnceInv, Ordered
        <3> QED BY <3>1, <3>2
    <2>2. ASSUME NEW j \in jobs', NEW r \in Pipeline PROVE InOrder(r, j.draws, j.first[r])
        <3>1. CASE j \in jobs
            BY <3>1 DEF OnceInv, Ordered
        <3>2. CASE j \notin jobs
            <4>1. j.draws = draws[e] /\ j.first = drawn
                BY <2>2, <3>2 DEF Submit
            <4>2. CASE Owner[r] = e
                BY <4>1, <4>2 DEF OnceInv, Ordered
            <4>3. CASE Owner[r] # e
                <5>1. MeshesOf(r, draws[e]) = {}
                    BY <4>3 DEF IInv, Uniforms, DrawnUniforms, MeshesOf, Entries
                <5> QED BY <4>1, <5>1 DEF InOrder
            <4> QED BY <4>2, <4>3
        <3> QED BY <3>1, <3>2
    <2> QED BY <2>1, <2>2 DEF Ordered, InOrder
<1> QED BY <1>3, <1>4, <1>5, <1>6 DEF OnceInv

LEMMA OnceSetResource ==
    ASSUME IInv, OnceInv, NEW p \in Pipeline, NEW b \in Buffer, SetResource(p, b)
    PROVE  OnceInv'
<1>1. Types /\ Blocks
    BY DEF IInv
<1>2. /\ UNCHANGED <<geomMeshesRecord, recorded, draws, drawn, jobs>>
      /\ data' = [data EXCEPT ![pushConstant[p]] = slot[b]]
    BY DEF SetResource, WriteIndex, execVars
<1>3. ASSUME NEW r \in Pipeline, NEW m \in Recorded(r)
      PROVE  m.wants = data'[m.block]
    <2>1. m.block \in Block /\ m.block[1] = r /\ m.block[2] <= recorded[r] /\ recorded[r] \in Nat
        <3>1. recorded[r] \in Nat
            BY <1>1, PipelineBounds DEF Types
        <3>2. m.block \in Block
            BY <1>1, <1>3, RecordedMesh
        <3> QED BY <1>1, <1>3, <3>1, <3>2 DEF Blocks
    <2>2. m.block # pushConstant[p]
        BY <1>1, <2>1, CurrentBlock
    <2>3. m.wants = data[m.block]
        BY DEF OnceInv, Wanted
    <2> QED BY <1>1, <1>2, <2>1, <2>2, <2>3 DEF Types
<1>4. \A r \in Pipeline : Recorded(r)' = Recorded(r)
    BY <1>2 DEF Recorded
<1> QED BY <1>2, <1>3, <1>4 DEF OnceInv, Numbered, Counted, Wanted, Ordered, InOrder

LEMMA OnceStep ==
    ASSUME IInv, OnceInv, [Next]_vars
    PROVE  OnceInv'
<1>same. UNCHANGED <<geomMeshesRecord, recorded, draws, drawn, data>> /\ jobs' \subseteq jobs => OnceInv'
    <2> SUFFICES ASSUME UNCHANGED <<geomMeshesRecord, recorded, draws, drawn, data>> /\ jobs' \subseteq jobs
                 PROVE  OnceInv'
        OBVIOUS
    <2>1. Numbered' /\ Counted' /\ Wanted'
        BY DEF OnceInv, Numbered, Counted, Wanted, Recorded
    <2>2. Ordered'
        BY DEF OnceInv, Ordered, InOrder
    <2> QED BY <2>1, <2>2 DEF OnceInv
<1> USE DEF slotVars, pipeVars, uboVars, execVars, heldVars
<1>1. ASSUME NEW e \in Executor, NEW b \in Buffer,
             CreateBuffer(e, b) \/ ReleaseBuffer(e, b) \/ Cleanup(e, b)
      PROVE  OnceInv'
    BY <1>1, <1>same DEF CreateBuffer, ReleaseBuffer, Cleanup
<1>2. ASSUME NEW e \in Executor, FinishDestroy(e) PROVE OnceInv'
    BY <1>2, <1>same DEF FinishDestroy
<1>3. ASSUME NEW e \in Executor, NEW p \in Pipeline, Push(e, p) PROVE OnceInv'
    BY <1>3, <1>same DEF Push
<1>4. ASSUME NEW e \in Executor, NEW q \in Queue, Pick(e, q) PROVE OnceInv'
    BY <1>4, <1>same DEF Pick
<1>5. ASSUME NEW e \in Executor, CommitCommand(e) PROVE OnceInv'
    BY <1>5, OnceCommitCommand
<1>6. ASSUME NEW e \in Executor, Submit(e) PROVE OnceInv'
    BY <1>6, OnceSubmit
<1>7. ASSUME NEW p \in Pipeline, SetUniform(p) PROVE OnceInv'
    BY <1>7, <1>same DEF SetUniform
<1>8. ASSUME NEW p \in Pipeline, NEW b \in Buffer, SetResource(p, b) \/ Record(p, b) PROVE OnceInv'
    BY <1>8, OnceSetResource, OnceRecord
<1>9. ASSUME NEW j \in jobs, Complete(j) PROVE OnceInv'
    BY <1>9, <1>same DEF Complete
<1>10. ASSUME UNCHANGED vars PROVE OnceInv'
    BY <1>10, <1>same DEF vars
<1> QED BY <1>1, <1>2, <1>3, <1>4, <1>5, <1>6, <1>7, <1>8, <1>9, <1>10 DEF Next

\* A submission draws the meshes of each pipeline from the first one not yet
\* submitted on, in the order of record(), none twice and none left out, each with
\* the index that was bound at record(), also when the pipeline is twice in a list
\* and bound again before the commit (RasterizerPipeline.cpp:814-850, 1096-1215).
THEOREM MeshesDrawnOnce == Spec => []DrawnOnceAsRecorded
<1>1. Init => OnceInv
    BY OnceInit
<1>2. IInv /\ OnceInv /\ [Next]_vars => OnceInv'
    BY OnceStep
<1>3. ASSUME IInv, OnceInv PROVE DrawnOnceAsRecorded
    <2>1. ASSUME NEW j \in jobs, NEW i \in DOMAIN j.draws PROVE j.draws[i].index = j.draws[i].wants
        BY <1>3 DEF OnceInv, Wanted, Entries
    <2>3. ASSUME NEW j \in jobs, NEW p \in Pipeline PROVE InOrder(p, j.draws, j.first[p])
        BY <1>3 DEF OnceInv, Ordered
    <2>2. ASSUME NEW p \in Pipeline, queue[Owner[p]] = None
          PROVE  /\ drawn[p] + Len(geomMeshesRecord[p]) = recorded[p]
                 /\ \A i \in DOMAIN geomMeshesRecord[p] : geomMeshesRecord[p][i].number = drawn[p] + i
        <3> DEFINE s == geomMeshesRecord[p]
        <3>1. MeshesOf(p, draws[Owner[p]]) = {}
            BY <1>3, <2>2, PipelineAssumption DEF IInv, Uniforms, DrawnUniforms, MeshesOf, Entries
        <3>2. Cardinality(MeshesOf(p, draws[Owner[p]])) = 0
            BY <3>1, MeshesNone
        <3>3. s \in Seq(Mesh) /\ Len(s) \in Nat /\ drawn[p] \in Nat
            BY <1>3 DEF IInv, Types, OnceInv, Counted
        <3>4. drawn[p] + Len(s) = recorded[p]
            BY <1>3, <3>2, <3>3 DEF OnceInv, Counted
        <3>5. ASSUME NEW i \in DOMAIN s PROVE s[i].number = drawn[p] + i
            <4>1. s[i].number \in Nat /\ i \in Nat
                BY <1>3, RecordIs DEF IInv
            <4>2. s[i].number + Len(s) = recorded[p] + i
                BY <1>3 DEF OnceInv, Numbered
            <4>3. Len(s) \in Nat /\ drawn[p] \in Nat /\ drawn[p] + Len(s) = recorded[p]
                BY <3>3, <3>4
            <4> HIDE DEF s
            <4> QED BY <4>1, <4>2, <4>3
        <3> QED BY <3>4, <3>5
    <2> QED BY <2>1, <2>2, <2>3 DEF DrawnOnceAsRecorded
<1> QED BY <1>1, <1>2, <1>3, Invariance, PTL DEF Spec
=============================================================================
