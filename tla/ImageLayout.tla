----------------------------- MODULE ImageLayout -----------------------------
(***************************************************************************)
(* imageLayout, the layout the CPU believes an image has.  It is read and  *)
(* written when a command is recorded; the image itself changes when the   *)
(* GPU executes the barrier.  The two agree only if submissions execute in *)
(* the order in which they were recorded, and if everything that touches   *)
(* an image keeps the one field of it up to date.  The displayer does not: *)
(* it keeps a copy of the image it was first given.                        *)
(*                                                                         *)
(* Submissions are those of ExecutorSubmit: an executor's own are in order *)
(* (Implements there), graphics ones too, and these are recorded under     *)
(* the chain mutex.  The display device is the main device.                *)
(***************************************************************************)
EXTENDS Integers, Sequences, FiniteSets

CONSTANTS
    Image,          \* the application's images
    StorageImage,   \* those with VK_IMAGE_USAGE_STORAGE_BIT
    Target,         \* those the pipeline may render to
    Mips, Layers,   \* of every application image
    Executor,       \* the application's executors
    Display,        \* displayDeviceExecutor
    Copy,           \* the slot DisplayManager::displayImage
    Screen,         \* an image of the swapchain
    Depth,          \* the depth image of the pipeline
    None,
    MaxCommits,     \* bound: commits of the application
    MaxFrames,      \* bound: frames displayed
    MaxCommands,    \* bound: commands of one commit
    MaxRetargets    \* bound: render targets set after the first draw

ASSUME ImageAssumption ==
    /\ StorageImage \subseteq Image /\ Target \subseteq Image
    /\ {Copy, Screen, Depth, None} \cap Image = {}
    /\ Cardinality({Copy, Screen, Depth, None}) = 4
ASSUME ExecutorAssumption == Display \notin Executor /\ None \notin Executor \cup {Display}
ASSUME NumberAssumption ==
    /\ {Mips, Layers} \subseteq Nat \ {0}
    /\ {MaxCommits, MaxFrames, MaxCommands, MaxRetargets} \subseteq Nat

VARIABLES
    imageLayout,    \* slot -> the field of its ImageHardwareWrap
    gpuLayout,      \* image -> subresource -> its layout
    displayed,      \* the image displayImage is a copy of
    renderTarget,   \* of the pipeline
    framebuffer,    \* the image its framebuffer was made for
    passLayout,     \* finalLayout of its render pass
    depthImage,     \* Depth once the pipeline has one
    pc,             \* executor -> where its commit is
    commandList,    \* executor -> the commands of its commit
    recorded,       \* executor -> how many of them are recorded
    steps,          \* executor -> the content of its command buffer
    waits,          \* executor -> submissions its next one waits for
    last,           \* executor -> its last submission, 0 for none
    chainMutex,
    chain,          \* the last graphics submission, 0 for none
    inFlight,       \* submissions the GPU has not completed
    issued,         \* submissions so far
    commits, frames, retargets

cpuVars    == <<imageLayout, displayed>>
pipeVars   == <<renderTarget, framebuffer, passLayout, depthImage>>
commitVars == <<pc, commandList, recorded, steps>>
orderVars  == <<waits, last, chainMutex, chain>>
vars == <<cpuVars, gpuLayout, pipeVars, commitVars, orderVars, inFlight, issued,
                   commits, frames, retargets>>

Everyone == Executor \cup {Display}

\* The slots that have a field, and the images that have a layout.
Slot == Image \cup {Copy, Screen, Depth}
GpuImage == Image \cup {Screen, Depth}

Layout == {"UNDEFINED", "GENERAL", "TRANSFER_SRC", "TRANSFER_DST", "COLOR", "DEPTH",
           "PRESENT"}

Subresource == (0..(Mips - 1)) \X (0..(Layers - 1))

\* The subresource the barriers of draws, blits and downloads name.
First == {<<0, 0>>}

PartsOf(image) == IF image \in Image THEN Subresource ELSE First

Handle(s) == IF s = Copy THEN displayed ELSE s

-----------------------------------------------------------------------------
\* What commands record.  A step is the set of transitions of one barrier call,
\* or the layouts a command expects; then old and new are the same.

Transition(s, parts, old, new) ==
    [image |-> Handle(s), parts |-> parts, old |-> old, new |-> new]

Barrier(s, parts, new) == Transition(s, parts, imageLayout[s], new)

Access(s, parts, layout) == Transition(s, parts, layout, layout)

\* transitionImageLayout covers the whole image.  Every image a copy or a blit meets
\* has the sampled bit, so that it is left in GENERAL: createImage adds it, and the
\* images of a swapchain keep the default of imageUsage, which has every bit.
Restore(s, old) == Transition(s, PartsOf(Handle(s)), old, "GENERAL")

Effect(sequence, fields) == [steps |-> sequence, fields |-> fields]

\* The field names what the image will be in when the command is over.
Becomes(slots, layout) == [s \in Slot |-> IF s \in slots THEN layout ELSE imageLayout[s]]

\* CopyImageCommand.
CopyImage(c) ==
    Effect(<<{Barrier(c.src, Subresource, "TRANSFER_SRC"),
              Barrier(c.dst, Subresource, "TRANSFER_DST")},
             {Access(c.src, First, "TRANSFER_SRC"), Access(c.dst, {c.part}, "TRANSFER_DST")},
             {Restore(c.src, "TRANSFER_SRC"), Restore(c.dst, "TRANSFER_DST")}>>,
           Becomes({c.src, c.dst}, "GENERAL"))

\* The layers of one mip level.
LayersOf(mip) == {q \in Subresource : q[1] = mip}

\* CopyBufferToImageCommand: one mip level, all layers.
CopyBufferToImage(c) ==
    Effect(<<{Barrier(c.dst, LayersOf(c.part[1]), "TRANSFER_DST")},
             {Access(c.dst, LayersOf(c.part[1]), "TRANSFER_DST")},
             {Restore(c.dst, "TRANSFER_DST")}>>,
           Becomes({c.dst}, "GENERAL"))

\* CopyImageToBufferCommand: the barrier names one layer, the copy reads all.
CopyImageToBuffer(c) ==
    Effect(<<{Barrier(c.src, First, "TRANSFER_SRC")},
             {Access(c.src, LayersOf(0), "TRANSFER_SRC")},
             {Restore(c.src, "TRANSFER_SRC")}>>,
           Becomes({c.src}, "GENERAL"))

\* Mutant: a frame without its TransitionImageLayoutCommand.
BlitLayout == "GENERAL"

\* The layout displayFrame asks for after the blit.
ScreenLayout == "PRESENT"

\* BlitImageCommand and TransitionImageLayoutCommand, the two of displayFrame.
BlitToScreen ==
    Effect(<<{Barrier(Copy, First, "TRANSFER_SRC"), Barrier(Screen, First, "TRANSFER_DST")},
             {Access(Copy, First, "TRANSFER_SRC"), Access(Screen, First, "TRANSFER_DST")},
             {Restore(Copy, "TRANSFER_SRC"), Restore(Screen, "TRANSFER_DST")},
             {Transition(Screen, First, "GENERAL", ScreenLayout)}>>,
           [Becomes({Copy}, "GENERAL") EXCEPT ![Screen] = ScreenLayout])

\* A dispatch or a draw whose shader uses an image through its descriptor, which
\* says GENERAL.  Pipelines record no barrier for such an image.
Shade(c) == Effect(<<{Access(c.src, Subresource, "GENERAL")}>>, imageLayout)

\* The layout a render pass leaves its target in.
FinalLayout(image) == IF image \in StorageImage THEN "GENERAL" ELSE "COLOR"

\* Mutant: the layout of the barrier.
BarrierLayout(image) == "COLOR"

\* The field of a render target once the barriers of a draw are recorded.
TargetLayout(image) == FinalLayout(image)

\* The first draw makes the render pass and the framebuffer, later ones keep them.
FramebufferOf == IF framebuffer = None THEN renderTarget ELSE framebuffer
PassLayout == IF framebuffer = None THEN FinalLayout(renderTarget) ELSE passLayout

\* The first draw also transitions the depth image, and makes it if there is none.
DepthSteps ==
    IF framebuffer # None THEN << >>
    ELSE <<{Transition(Depth, First, IF depthImage = None THEN "UNDEFINED" ELSE "DEPTH",
                       "DEPTH")}>>

\* RasterizerPipelineVulkan: barriers for the targets it has now, and a render pass
\* on those of its framebuffer.
Draw ==
    Effect(<<{Barrier(renderTarget, First, "COLOR")} \cup
                 (IF depthImage = None THEN {} ELSE {Barrier(Depth, First, "DEPTH")})>>
           \o DepthSteps \o
           <<{Transition(FramebufferOf, First, "COLOR", PassLayout),
              Access(Depth, First, "DEPTH")}>>,
           [imageLayout EXCEPT ![renderTarget] = TargetLayout(renderTarget),
                               ![Depth] = "DEPTH"])

EffectOf(c) ==
    CASE c.kind = "copyImage"         -> CopyImage(c)
      [] c.kind = "copyBufferToImage" -> CopyBufferToImage(c)
      [] c.kind = "copyImageToBuffer" -> CopyImageToBuffer(c)
      [] c.kind = "blit"              -> BlitToScreen
      [] c.kind = "shade"             -> Shade(c)
      [] c.kind = "draw"              -> Draw

-----------------------------------------------------------------------------
\* Commands, and what the application may ask for.

Command(kind, src, dst, part) == [kind |-> kind, src |-> src, dst |-> dst, part |-> part]

CopyCommand ==
         {Command("copyImage", i, j, q) : i \in Image, j \in Image, q \in Subresource}
    \cup {Command("copyBufferToImage", None, i, q) : i \in Image, q \in Subresource}
    \cup {Command("copyImageToBuffer", i, None, <<0, 0>>) : i \in Image}

DrawCommand == Command("draw", None, None, <<0, 0>>)
BlitCommand == Command("blit", Copy, Screen, <<0, 0>>)

\* A shader uses storage images, and textures nothing renders to.
ShadeCommand ==
    {Command("shade", i, None, <<0, 0>>) : i \in StorageImage \cup (Image \ Target)}

AppCommand ==
    {c \in CopyCommand : c.src # c.dst} \cup ShadeCommand \cup {DrawCommand}

GraphicsKind == {"draw", "blit"}

IsGraphics(list) == \E n \in DOMAIN list : list[n].kind \in GraphicsKind

\* The images a command touches.
Touches(c) ==
    CASE c.kind = "draw" -> {renderTarget, FramebufferOf, Depth}
      [] c.kind = "blit" -> {displayed, Screen}
      [] OTHER           -> {c.src, c.dst} \ {None}

TouchedBy(list) == UNION {Touches(list[n]) : n \in DOMAIN list}

Flying == {s.id : s \in inFlight}

\* The submissions that complete before one that waits for ids can start.
Before(ids) ==
    (ids \cap Flying) \cup UNION {s.after : s \in {t \in inFlight : t.id \in ids}}

\* The caller's part: an executor that uses an image another one has used waits for
\* that one.  Graphics commits need not wait for each other.
Synchronised(e, images, graphics) ==
    /\ \A s \in inFlight :
           \/ s.images \cap images = {}
           \/ s.id \in Before(waits[e] \cup {last[e]})
           \/ s.graphics /\ graphics
    /\ \A f \in Everyone \ {e} :
           \/ pc[f] = "idle"
           \/ TouchedBy(commandList[f]) \cap images = {}
           \/ IsGraphics(commandList[f]) /\ graphics

\* Also the caller's: a shader reads what some command was recorded to write.
Written(list) ==
    \A n \in DOMAIN list : list[n].kind = "shade" =>
        \/ imageLayout[list[n].src] # "UNDEFINED"
        \/ \E m \in 1..(n - 1) : list[n].src \in Touches(list[m])

AppList == UNION {[1..n -> AppCommand] : n \in 1..MaxCommands}

-----------------------------------------------------------------------------
Init ==
    /\ imageLayout = [s \in Slot |-> "UNDEFINED"]
    /\ gpuLayout = [i \in GpuImage |-> [q \in PartsOf(i) |-> "UNDEFINED"]]
    /\ displayed = None
    /\ renderTarget \in Target
    /\ framebuffer = None
    /\ passLayout = None
    /\ depthImage \in {None, Depth}
    /\ pc = [e \in Everyone |-> "idle"]
    /\ commandList = [e \in Everyone |-> << >>]
    /\ recorded = [e \in Everyone |-> 0]
    /\ steps = [e \in Everyone |-> << >>]
    /\ waits = [e \in Everyone |-> {}]
    /\ last = [e \in Everyone |-> 0]
    /\ chainMutex = None
    /\ chain = 0
    /\ inFlight = {}
    /\ issued = 0
    /\ commits = 0 /\ frames = 0
    /\ retargets = 0

-----------------------------------------------------------------------------
\* The application.

\* pipeline[output] = image.
SetTarget(i) ==
    /\ i \in Target \ {renderTarget}
    /\ \A e \in Everyone : \A n \in DOMAIN commandList[e] : commandList[e][n].kind # "draw"
    /\ framebuffer # None => retargets < MaxRetargets
    /\ retargets' = IF framebuffer = None THEN retargets ELSE retargets + 1
    /\ renderTarget' = i
    /\ UNCHANGED <<cpuVars, gpuLayout, framebuffer, passLayout, depthImage, commitVars,
                   orderVars, inFlight, issued, commits, frames>>

\* executor.wait(other), and the wait of displayFrame for the executor it was given.
\* Nobody can wait for the displayer's own executor.
Wait(e, f) ==
    /\ f \in Executor \ {e} /\ pc[e] = "idle" /\ pc[f] = "idle"
    /\ last[f] \in Flying \ Before(waits[e] \cup {last[e]})
    /\ waits' = [waits EXCEPT ![e] = @ \cup {last[f]}]
    /\ UNCHANGED <<cpuVars, gpuLayout, pipeVars, commitVars, last, chainMutex, chain,
                   inFlight, issued, commits, frames, retargets>>

Start(e, list) ==
    /\ pc[e] = "idle"
    /\ commandList' = [commandList EXCEPT ![e] = list]
    /\ pc' = [pc EXCEPT ![e] = IF IsGraphics(list) THEN "chain" ELSE "record"]
    /\ UNCHANGED <<gpuLayout, pipeVars, recorded, steps, orderVars, inFlight, issued,
                   retargets>>

BeginCommit(e) ==
    /\ e \in Executor
    /\ commits < MaxCommits
    /\ commits' = commits + 1
    /\ \E list \in AppList :
           /\ Synchronised(e, TouchedBy(list), IsGraphics(list))
           /\ Written(list)
           /\ Start(e, list)
    /\ UNCHANGED <<cpuVars, frames>>

\* displayFrame.  The first one copies the wrap of its image, later ones use the copy
\* whatever image they are given.  The first frame comes when the image has been
\* recorded to, and no commit is in the middle of copying it.
BeginDisplay(i) ==
    /\ i \in StorageImage
    /\ frames < MaxFrames
    /\ frames' = frames + 1
    /\ displayed = None =>
           /\ imageLayout[i] # "UNDEFINED"
           /\ \A e \in Executor : \A n \in DOMAIN commandList[e] :
                  commandList[e][n].kind # "draw" => i \notin Touches(commandList[e][n])
    /\ displayed' = IF displayed = None THEN i ELSE displayed
    /\ imageLayout' = IF displayed = None
                      THEN [imageLayout EXCEPT ![Copy] = imageLayout[i]] ELSE imageLayout
    /\ Synchronised(Display, {displayed', Screen}, TRUE)
    /\ Start(Display, <<BlitCommand>>)
    /\ UNCHANGED commits

\* recreateSwapChain waits for the device and gets images nothing has been done to.
RecreateSwapChain ==
    /\ pc[Display] = "idle" /\ inFlight = {}
    /\ gpuLayout[Screen][<<0, 0>>] = "PRESENT"
    /\ imageLayout' = [imageLayout EXCEPT ![Screen] = "UNDEFINED"]
    /\ gpuLayout' = [gpuLayout EXCEPT ![Screen] = [q \in First |-> "UNDEFINED"]]
    /\ UNCHANGED <<displayed, pipeVars, commitVars, orderVars, inFlight, issued,
                   commits, frames, retargets>>

-----------------------------------------------------------------------------
\* The steps of a commit.

\* Mutant: no lock around graphics commits.
NoLock(e) == TRUE

ChainFree(e) == chainMutex = None

ChainWait == {chain} \cap Flying

LockChain(e) ==
    /\ pc[e] = "chain"
    /\ ChainFree(e)
    /\ chainMutex' = e
    /\ waits' = [waits EXCEPT ![e] = @ \cup ChainWait]
    /\ pc' = [pc EXCEPT ![e] = "record"]
    /\ UNCHANGED <<cpuVars, gpuLayout, pipeVars, commandList, recorded, steps, last, chain,
                   inFlight, issued, commits, frames, retargets>>

\* Barriers, then the command itself.  Nothing locks the slots meanwhile.
Record(e) ==
    /\ pc[e] = "record" /\ recorded[e] < Len(commandList[e])
    /\ LET c == commandList[e][recorded[e] + 1]
           effect == EffectOf(c)
       IN  /\ steps' = [steps EXCEPT ![e] = @ \o effect.steps]
           /\ imageLayout' = effect.fields
           /\ IF c.kind = "draw"
              THEN /\ framebuffer' = FramebufferOf
                   /\ passLayout' = PassLayout
                   /\ depthImage' = Depth
              ELSE UNCHANGED <<framebuffer, passLayout, depthImage>>
    /\ recorded' = [recorded EXCEPT ![e] = @ + 1]
    /\ UNCHANGED <<gpuLayout, displayed, renderTarget, pc, commandList, orderVars,
                   inFlight, issued, commits, frames, retargets>>

\* The submission waits for what its executor waits for, the tail wait included.
Submission(e) ==
    [id |-> issued + 1, executor |-> e, steps |-> steps[e],
     after |-> Before(waits[e] \cup {last[e]}),
     images |-> TouchedBy(commandList[e]), graphics |-> IsGraphics(commandList[e])]

\* lastSignalValue, the one value of the submission.
Signalled == issued + 1

\* vkQueueSubmit2, the entry in the chain, and the end of commit().
Submit(e) ==
    /\ pc[e] = "record" /\ recorded[e] = Len(commandList[e])
    /\ inFlight' = inFlight \cup {Submission(e)}
    /\ issued' = issued + 1
    /\ last' = [last EXCEPT ![e] = Signalled]
    /\ waits' = [waits EXCEPT ![e] = {}]
    /\ chain' = IF IsGraphics(commandList[e]) THEN Signalled ELSE chain
    /\ chainMutex' = IF chainMutex = e THEN None ELSE chainMutex
    /\ pc' = [pc EXCEPT ![e] = "idle"]
    /\ commandList' = [commandList EXCEPT ![e] = << >>]
    /\ recorded' = [recorded EXCEPT ![e] = 0]
    /\ steps' = [steps EXCEPT ![e] = << >>]
    /\ UNCHANGED <<cpuVars, gpuLayout, pipeVars, commits, frames, retargets>>

-----------------------------------------------------------------------------
\* The GPU.

Ready == {s \in inFlight : s.after \cap Flying = {}}

\* The transition of a step that names a subresource.  There is at most one.
Names(t, i, q) == t.image = i /\ q \in t.parts

\* The layout of a subresource when the first n steps of a submission are over.
LayoutAfter(s, n, i, q) ==
    LET hits == {m \in 1..n : \E t \in s.steps[m] : Names(t, i, q)}
        step == s.steps[CHOOSE m \in hits : \A k \in hits : k <= m]
    IN  IF hits = {} THEN gpuLayout[i][q]
        ELSE (CHOOSE t \in step : Names(t, i, q)).new

\* A submission runs to its end.  One step is enough: submissions that may overlap
\* share no image (OrderedUse).
Execute(s) ==
    /\ s \in Ready
    /\ gpuLayout' = [i \in GpuImage |-> [q \in PartsOf(i) |->
                         LayoutAfter(s, Len(s.steps), i, q)]]
    /\ inFlight' = inFlight \ {s}
    /\ UNCHANGED <<cpuVars, pipeVars, commitVars, orderVars, issued, commits, frames,
                   retargets>>

GpuStep == \E s \in inFlight : Execute(s)

Next ==
    \/ \E i \in Target : SetTarget(i)
    \/ \E e \in Everyone, f \in Executor : Wait(e, f)
    \/ \E e \in Executor : BeginCommit(e)
    \/ \E i \in Image : BeginDisplay(i)
    \/ RecreateSwapChain
    \/ \E e \in Everyone : LockChain(e)
    \/ \E e \in Everyone : Record(e)
    \/ \E e \in Everyone : Submit(e)
    \/ GpuStep

Spec == Init /\ [][Next]_vars

-----------------------------------------------------------------------------
\* Properties.

Step == [image : GpuImage, parts : SUBSET Subresource, old : Layout, new : Layout]

\* Every variable has the type the code gives it: a field and a GPU layout for each
\* image, a commit that has recorded a prefix of its commands, submissions that wait
\* for submissions before them.
TypeOK ==
    /\ imageLayout \in [Slot -> Layout]
    /\ DOMAIN gpuLayout = GpuImage
    /\ \A i \in GpuImage : gpuLayout[i] \in [PartsOf(i) -> Layout]
    /\ displayed \in Image \cup {None}
    /\ renderTarget \in Target /\ framebuffer \in Target \cup {None}
    /\ passLayout \in {"GENERAL", "COLOR", None}
    /\ depthImage \in {None, Depth}
    /\ pc \in [Everyone -> {"idle", "chain", "record"}]
    /\ \A e \in Everyone :
           /\ commandList[e] \in Seq(AppCommand \cup {BlitCommand})
           /\ recorded[e] \in 0..Len(commandList[e])
           /\ steps[e] \in Seq(SUBSET Step)
           /\ waits[e] \subseteq 1..issued
    /\ last \in [Everyone -> 0..issued]
    /\ chainMutex \in Everyone \cup {None}
    /\ chain \in 0..issued
    /\ \A s \in inFlight :
           /\ s.id \in 1..issued /\ s.executor \in Everyone
           /\ s.after \subseteq 1..(s.id - 1)
           /\ s.steps # << >> /\ s.steps \in Seq(SUBSET Step)
    /\ issued \in 0..(commits + frames)
    /\ commits \in 0..MaxCommits /\ frames \in 0..MaxFrames
    /\ retargets \in 0..MaxRetargets

\* Two submissions in flight that touch the same image are ordered by what they wait
\* for, whoever recorded them: the chain does it for graphics, the caller for the rest.
OrderedUse ==
    \A s, t \in inFlight :
        s # t /\ s.images \cap t.images # {} => s.id \in t.after \/ t.id \in s.after

\* The old layout of every barrier the GPU comes to, and the layout every command
\* expects, is the layout the image is in: what was recorded is still true when it is
\* executed, although other executors and the displayer record and submit meanwhile.
LayoutsMatch ==
    \A s \in Ready : \A n \in DOMAIN s.steps : \A t \in s.steps[n] : \A q \in t.parts :
        LayoutAfter(s, n - 1, t.image, q) = t.old

\* Once nothing is recorded or in flight, the field of every slot, the displayer's copy
\* and the pipeline's target included, says what its image is in.
BookkeepingExact ==
    inFlight = {} /\ (\A e \in Everyone : pc[e] = "idle") =>
        \A s \in Slot : Handle(s) # None =>
            \A q \in PartsOf(Handle(s)) : gpuLayout[Handle(s)][q] = imageLayout[s]

\* A present is queued behind the blit: with no blit in flight, the image of the
\* swapchain is one that can be presented.
ScreenPresentable ==
    last[Display] \notin Flying /\ displayed # None =>
        gpuLayout[Screen][<<0, 0>>] \in {"PRESENT", "UNDEFINED"}
=============================================================================
