------------------------------ MODULE FrameLoop ------------------------------
(***************************************************************************)
(* The example program: for each window a mesh thread, a render thread and *)
(* a display thread, joined by two queues, and the main thread, which      *)
(* creates the windows and their scenarios, starts the threads, polls the  *)
(* windows, and stops and joins everything when a window closes or a thread*)
(* fails.                                                                  *)
(*                                                                         *)
(* A frame is its number.  What a scenario draws is ExecutorSubmit's and   *)
(* PipelineCommit's; here it is the set of objects its ticks need, and a   *)
(* tick may throw.                                                         *)
(***************************************************************************)
EXTENDS DropOldestQueue

CONSTANTS
    WindowCount,    \* RuntimeConfig.window_count
    QueueDepth,     \* RuntimeConfig.queue_depth
    Scenario,       \* RuntimeConfig.scenario
    None,
    MaxFrames,      \* bound: frames a mesh thread produces
    MaxErrors       \* bound: calls that fail

ASSUME FrameLoopAssumption ==
    /\ WindowCount \in Nat \ {0} /\ QueueDepth \in Nat
    /\ Scenario \in {"default", "triangle", "texture"}
    /\ MaxFrames \in Nat /\ MaxErrors \in Nat /\ None \notin Int

Window == 1 .. WindowCount

Stage == {"mesh", "render", "display"}

Worker == Window \X Stage

Main == <<0, "main">>

Thread == Worker \cup {Main}

VARIABLES
    pc, frame,          \* per thread: where it is, the frame in its hands
    mesh_to_render, render_to_display,
    frame_id,           \* the last number of each mesh thread
    committed,          \* history: the last frame each render thread committed
    latest_frame,       \* of each display thread
    latest_frame_id,    \* WindowStats: the last new frame presented
    running, has_error, error_message,
    first_error,        \* history: who won the exchange of has_error
    toClose,            \* the queues a request_stop() in progress still closes
    objects,            \* what each scenario owns
    created, started, joined, result,  \* of main()
    errors              \* calls that failed

queueVars == <<mesh_to_render, render_to_display>>
frameVars == <<frame, frame_id, committed, latest_frame, latest_frame_id>>
errorVars == <<has_error, error_message, first_error>>
mainVars  == <<objects, created, started, joined, result>>
vars == <<pc, queueVars, frameVars, running, errorVars, toClose, mainVars, errors>>

-----------------------------------------------------------------------------
\* The scenarios: what they own after init() and after a render_tick().

DefaultPipelines == {"index_buffer", "rasterizer", "compute"}

TrianglePipelines == {"index_buffer", "rasterizer"}

TexturePipelines == {"index_buffer", "rasterizer"}

DefaultTick(owned) == owned \cup DefaultPipelines

TriangleTick(owned) == owned \cup TrianglePipelines

\* Makes what is missing, except for the texture.
TextureTick(owned) == owned \cup IF "texture_image" \in owned THEN TexturePipelines ELSE {}

DefaultInit == DefaultPipelines \cup {"initialized"}

TriangleInit == TrianglePipelines \cup {"initialized"}

TextureInit == TexturePipelines \cup {"texture_image", "initialized"}

Objects == CASE Scenario = "default" -> DefaultInit
             [] Scenario = "triangle" -> TriangleInit
             [] Scenario = "texture" -> TextureInit

AfterTick(owned) == CASE Scenario = "default" -> DefaultTick(owned)
                      [] Scenario = "triangle" -> TriangleTick(owned)
                      [] Scenario = "texture" -> TextureTick(owned)

\* Only the texture scenario returns false (no file, one it cannot read, or no
\* image); it has at most its texture by then.
LeftByFailedInit == IF Scenario = "texture" THEN {{}, {"texture_image"}} ELSE {}

\* mesh_tick() and render_tick() return without a payload or a commit.
MeshRefused(owned) == "initialized" \notin owned

RenderRefused(owned) == Scenario = "texture" /\ "texture_image" \notin owned

-----------------------------------------------------------------------------
Workers == [i \in 1 .. 3 * WindowCount |->
               <<((i - 1) \div 3) + 1, <<"mesh", "render", "display">>[((i - 1) % 3) + 1]>>]

\* request_stop() closes the queues of one window after the other.
AllQueues == [i \in 1 .. 2 * WindowCount |->
                 <<((i - 1) \div 2) + 1, <<"mesh_to_render", "render_to_display">>[((i - 1) % 2) + 1]>>]

Init ==
    /\ pc = [t \in Thread |-> IF t = Main THEN "create" ELSE "off"]
    /\ frame = [w \in Window |-> [mesh |-> 0, render |-> 0]]
    /\ mesh_to_render = [w \in Window |-> EmptyQueue]
    /\ render_to_display = [w \in Window |-> EmptyQueue]
    /\ frame_id = [w \in Window |-> 0]
    /\ committed = [w \in Window |-> 0]
    /\ latest_frame = [w \in Window |-> 0]
    /\ latest_frame_id = [w \in Window |-> 0]
    /\ running = TRUE /\ has_error = FALSE /\ error_message = None
    /\ first_error = None
    /\ toClose = [t \in Thread |-> <<>>]
    /\ objects = [w \in Window |-> {}]
    /\ created = 0 /\ started = 0 /\ joined = 0 /\ result = None
    /\ errors = 0

Goto(t, where) == pc' = [pc EXCEPT ![t] = where]

Fails == errors < MaxErrors /\ errors' = errors + 1

-----------------------------------------------------------------------------
\* set_error_and_stop() and request_stop(); afterwards a worker leaves its loop.

\* Mutant: tests has_error and sets it, instead of exchanging.
AlwaysFirst == TRUE

FirstError == ~has_error

\* The exchange of has_error.
SetError(t) ==
    /\ pc[t] = "error"
    /\ has_error' = TRUE
    /\ first_error' = IF has_error THEN first_error ELSE t
    /\ Goto(t, IF FirstError THEN "message" ELSE "stop")
    /\ UNCHANGED <<queueVars, frameVars, running, error_message, toClose, mainVars, errors>>

SetMessage(t) ==
    /\ pc[t] = "message"
    /\ error_message' = t
    /\ Goto(t, "stop")
    /\ UNCHANGED <<queueVars, frameVars, running, has_error, first_error, toClose,
                   mainVars, errors>>

RequestStop(t) ==
    /\ pc[t] = "stop"
    /\ running' = FALSE
    /\ toClose' = [toClose EXCEPT ![t] = AllQueues]
    /\ Goto(t, "closing")
    /\ UNCHANGED <<queueVars, frameVars, errorVars, mainVars, errors>>

CloseOf(queues, w) == [queues EXCEPT ![w] = Close(@)]

CloseNext(t) ==
    /\ pc[t] = "closing" /\ toClose[t] # <<>>
    /\ LET w == Head(toClose[t])[1]
       IN  IF Head(toClose[t])[2] = "mesh_to_render"
           THEN mesh_to_render' = CloseOf(mesh_to_render, w) /\ UNCHANGED render_to_display
           ELSE render_to_display' = CloseOf(render_to_display, w) /\ UNCHANGED mesh_to_render
    /\ toClose' = [toClose EXCEPT ![t] = Tail(@)]
    /\ UNCHANGED <<pc, frameVars, running, errorVars, mainVars, errors>>

StopRequested(t) ==
    /\ pc[t] = "closing" /\ toClose[t] = <<>>
    /\ Goto(t, IF t = Main THEN "join" ELSE "end")
    /\ UNCHANGED <<queueVars, frameVars, running, errorVars, toClose, mainVars, errors>>

Stopping(t) ==
    SetError(t) \/ SetMessage(t) \/ RequestStop(t) \/ CloseNext(t) \/ StopRequested(t)

\* A call of a worker throws or fails.
Throw(t, where) ==
    /\ pc[t] = where /\ Fails
    /\ Goto(t, "error")
    /\ UNCHANGED <<queueVars, frameVars, running, errorVars, toClose, mainVars>>

-----------------------------------------------------------------------------
\* The mesh thread.

Mesh(w) == <<w, "mesh">>

MeshLoop(w) ==
    /\ pc[Mesh(w)] = "loop"
    /\ \/ /\ running /\ frame_id[w] < MaxFrames
          /\ frame_id' = [frame_id EXCEPT ![w] = @ + 1]
          /\ frame' = [frame EXCEPT ![w].mesh = frame_id'[w]]
          /\ Goto(Mesh(w), "tick")
       \/ /\ ~running
          /\ Goto(Mesh(w), "end")
          /\ UNCHANGED <<frame, frame_id>>
    /\ UNCHANGED <<queueVars, committed, latest_frame, latest_frame_id, running,
                   errorVars, toClose, mainVars, errors>>

MeshTick(w) ==
    /\ pc[Mesh(w)] = "tick"
    /\ Goto(Mesh(w), IF MeshRefused(objects[w]) THEN "error" ELSE "push")
    /\ UNCHANGED <<queueVars, frameVars, running, errorVars, toClose, mainVars, errors>>

MeshPush(w) ==
    /\ pc[Mesh(w)] = "push"
    /\ IF mesh_to_render[w].closed
       THEN Goto(Mesh(w), "end") /\ UNCHANGED mesh_to_render
       ELSE /\ mesh_to_render' =
                 [mesh_to_render EXCEPT ![w] = Push(@, QueueDepth, frame[w].mesh)]
            /\ Goto(Mesh(w), "loop")
    /\ UNCHANGED <<render_to_display, frameVars, running, errorVars, toClose,
                   mainVars, errors>>

MeshEnd(w) ==
    /\ pc[Mesh(w)] = "end"
    /\ mesh_to_render' = CloseOf(mesh_to_render, w)
    /\ Goto(Mesh(w), "done")
    /\ UNCHANGED <<render_to_display, frameVars, running, errorVars, toClose,
                   mainVars, errors>>

MeshThread(w) == MeshLoop(w) \/ MeshTick(w) \/ MeshPush(w) \/ MeshEnd(w)

-----------------------------------------------------------------------------
\* The render thread.

Render(w) == <<w, "render">>

RenderLoop(w) ==
    /\ pc[Render(w)] = "loop"
    /\ Goto(Render(w), IF running \/ ~IsClosedAndEmpty(mesh_to_render[w])
                       THEN "pop" ELSE "end")
    /\ UNCHANGED <<queueVars, frameVars, running, errorVars, toClose, mainVars, errors>>

\* pop_wait() looks, sleeps until it is notified, and looks again.
RenderSleep(w) ==
    /\ pc[Render(w)] = "pop" /\ ~CanReturn(mesh_to_render[w])
    /\ mesh_to_render' = [mesh_to_render EXCEPT ![w].asleep = TRUE]
    /\ Goto(Render(w), "asleep")
    /\ UNCHANGED <<render_to_display, frameVars, running, errorVars, toClose,
                   mainVars, errors>>

RenderWake(w) ==
    /\ pc[Render(w)] = "asleep" /\ ~mesh_to_render[w].asleep
    /\ Goto(Render(w), "pop")
    /\ UNCHANGED <<queueVars, frameVars, running, errorVars, toClose, mainVars, errors>>

RenderPop(w) ==
    /\ pc[Render(w)] = "pop" /\ CanReturn(mesh_to_render[w])
    /\ IF mesh_to_render[w].queue = <<>>
       THEN Goto(Render(w), "end") /\ UNCHANGED <<mesh_to_render, frame>>
       ELSE /\ frame' = [frame EXCEPT ![w].render = Head(mesh_to_render[w].queue)]
            /\ mesh_to_render' = [mesh_to_render EXCEPT ![w] = PopFront(@)]
            /\ Goto(Render(w), "tick")
    /\ UNCHANGED <<render_to_display, frame_id, committed, latest_frame,
                   latest_frame_id, running, errorVars, toClose, mainVars, errors>>

\* render_tick() records and commits with the window's executor.
RenderTick(w) ==
    /\ pc[Render(w)] = "tick"
    /\ IF RenderRefused(objects[w])
       THEN Goto(Render(w), "error") /\ UNCHANGED <<committed, objects>>
       ELSE /\ committed' = [committed EXCEPT ![w] = frame[w].render]
            /\ objects' = [objects EXCEPT ![w] = AfterTick(@)]
            /\ Goto(Render(w), "push")
    /\ UNCHANGED <<queueVars, frame, frame_id, latest_frame, latest_frame_id,
                   running, errorVars, toClose, created, started, joined, result,
                   errors>>

RenderPush(w) ==
    /\ pc[Render(w)] = "push"
    /\ IF render_to_display[w].closed
       THEN Goto(Render(w), "end") /\ UNCHANGED render_to_display
       ELSE /\ render_to_display' =
                 [render_to_display EXCEPT ![w] = Push(@, QueueDepth, frame[w].render)]
            /\ Goto(Render(w), "loop")
    /\ UNCHANGED <<mesh_to_render, frameVars, running, errorVars, toClose, mainVars, errors>>

RenderEnd(w) ==
    /\ pc[Render(w)] = "end"
    /\ render_to_display' = CloseOf(render_to_display, w)
    /\ Goto(Render(w), "done")
    /\ UNCHANGED <<mesh_to_render, frameVars, running, errorVars, toClose, mainVars, errors>>

RenderThread(w) ==
    \/ RenderLoop(w) \/ RenderSleep(w) \/ RenderWake(w) \/ RenderPop(w)
    \/ RenderTick(w) \/ RenderPush(w) \/ RenderEnd(w)

-----------------------------------------------------------------------------
\* The display thread.

Display(w) == <<w, "display">>

\* It makes its displayer before its loop.
DisplayBegin(w) ==
    /\ pc[Display(w)] = "begin"
    /\ Goto(Display(w), "loop")
    /\ UNCHANGED <<queueVars, frameVars, running, errorVars, toClose, mainVars, errors>>

DisplayLoop(w) ==
    /\ pc[Display(w)] = "loop"
    /\ Goto(Display(w), IF running \/ ~IsClosedAndEmpty(render_to_display[w])
                        THEN "pop" ELSE "end")
    /\ UNCHANGED <<queueVars, frameVars, running, errorVars, toClose, mainVars, errors>>

\* The newest frame there is, or the one it has, or nothing yet.
DisplayPop(w) ==
    /\ pc[Display(w)] = "pop"
    /\ IF render_to_display[w].queue = <<>>
       THEN /\ Goto(Display(w), IF latest_frame[w] = 0 THEN "loop" ELSE "tick")
            /\ UNCHANGED <<render_to_display, latest_frame>>
       ELSE /\ latest_frame' = [latest_frame EXCEPT ![w] = PopAllLatest(render_to_display[w])]
            /\ render_to_display' = [render_to_display EXCEPT ![w] = PopAll(@)]
            /\ Goto(Display(w), "tick")
    /\ UNCHANGED <<mesh_to_render, frame, frame_id, committed, latest_frame_id,
                   running, errorVars, toClose, mainVars, errors>>

\* displayer.wait(executor) << image, and display_tick().
DisplayTick(w) ==
    /\ pc[Display(w)] = "tick"
    /\ latest_frame_id' = [latest_frame_id EXCEPT ![w] = latest_frame[w]]
    /\ Goto(Display(w), "loop")
    /\ UNCHANGED <<queueVars, frame, frame_id, committed, latest_frame, running,
                   errorVars, toClose, mainVars, errors>>

DisplayEnd(w) ==
    /\ pc[Display(w)] = "end"
    /\ Goto(Display(w), "done")
    /\ UNCHANGED <<queueVars, frameVars, running, errorVars, toClose, mainVars, errors>>

DisplayThread(w) ==
    DisplayBegin(w) \/ DisplayLoop(w) \/ DisplayPop(w) \/ DisplayTick(w) \/ DisplayEnd(w)

-----------------------------------------------------------------------------
\* main().

CreateScenario ==
    /\ pc[Main] = "create" /\ created < WindowCount
    /\ created' = created + 1
    /\ objects' = [objects EXCEPT ![created'] = Objects]
    /\ UNCHANGED <<pc, queueVars, frameVars, running, errorVars, toClose, started,
                   joined, result, errors>>

\* No window, or no scenario of that name: the windows go, main returns -1.
CreateWindowFails ==
    /\ pc[Main] = "create" /\ created < WindowCount /\ Fails
    /\ Goto(Main, "terminate") /\ result' = -1
    /\ UNCHANGED <<queueVars, frameVars, running, errorVars, toClose, objects,
                   created, started, joined>>

InitFails ==
    /\ pc[Main] = "create" /\ created < WindowCount /\ Fails
    /\ \E left \in LeftByFailedInit : objects' = [objects EXCEPT ![created + 1] = left]
    /\ created' = created + 1
    /\ Goto(Main, "shutdown") /\ result' = -1
    /\ UNCHANGED <<queueVars, frameVars, running, errorVars, toClose, started, joined>>

\* The threads are started one after the other; the first may stop everything
\* before the last is there.
StartNext ==
    /\ pc[Main] = "create" /\ created = WindowCount
    /\ LET t == Workers[started + 1]
           there == [pc EXCEPT ![t] = IF t[2] = "display" THEN "begin" ELSE "loop"]
       IN  pc' = IF started + 1 = Len(Workers) THEN [there EXCEPT ![Main] = "poll"] ELSE there
    /\ started' = started + 1
    /\ UNCHANGED <<queueVars, frameVars, running, errorVars, toClose, objects,
                   created, joined, result, errors>>

\* A window is closed, or a thread asked to stop.  (The second of two requests in
\* a row changes nothing and is left out.)
Poll ==
    /\ pc[Main] = "poll"
    /\ Goto(Main, "stop")
    /\ UNCHANGED <<queueVars, frameVars, running, errorVars, toClose, mainVars, errors>>

\* Mutant: main does not wait for the display threads.
JoinOthers(t) == pc[t] = "done" \/ t[2] = "display"

Joinable(t) == pc[t] = "done"

JoinNext ==
    /\ pc[Main] = "join" /\ Joinable(Workers[joined + 1])
    /\ joined' = joined + 1
    /\ Goto(Main, IF joined' = Len(Workers) THEN "shutdown" ELSE "join")
    /\ UNCHANGED <<queueVars, frameVars, running, errorVars, toClose, objects,
                   created, started, result, errors>>

\* shutdown() of every scenario.
ShutdownScenarios ==
    /\ pc[Main] = "shutdown"
    /\ objects' = [w \in Window |-> {}]
    /\ Goto(Main, "terminate")
    /\ UNCHANGED <<queueVars, frameVars, running, errorVars, toClose, created,
                   started, joined, result, errors>>

\* Windows and GLFW go, then main returns.
Terminate ==
    /\ pc[Main] = "terminate"
    /\ result' = IF has_error THEN -1 ELSE IF result = None THEN 0 ELSE result
    /\ Goto(Main, "done")
    /\ UNCHANGED <<queueVars, frameVars, running, errorVars, toClose, objects,
                   created, started, joined, errors>>

MainThread ==
    \/ CreateScenario \/ CreateWindowFails \/ InitFails \/ StartNext
    \/ JoinNext \/ ShutdownScenarios \/ Terminate

-----------------------------------------------------------------------------
WorkerStep(t) ==
    \/ t[2] = "mesh" /\ MeshThread(t[1])
    \/ t[2] = "render" /\ RenderThread(t[1])
    \/ t[2] = "display" /\ DisplayThread(t[1])

Next ==
    \/ MainThread \/ Poll \/ Stopping(Main)
    \/ \E t \in Worker :
        \/ WorkerStep(t) \/ Stopping(t)
        \/ \E where \in {"begin", "tick"} : Throw(t, where)

Spec == Init /\ [][Next]_vars

\* Every thread keeps running; nobody has to close a window, but main notices that
\* the program is stopping.
Fairness ==
    /\ WF_vars(MainThread \/ Stopping(Main))
    /\ WF_vars(Poll /\ ~running)
    /\ \A t \in Worker : WF_vars(WorkerStep(t) \/ Stopping(t))

FairSpec == Spec /\ Fairness

-----------------------------------------------------------------------------
(***************************************************************************)
(* Properties                                                              *)
(***************************************************************************)

\* What a window shows never goes back, though frames are dropped at both queues:
\* the new frames of a display thread have growing numbers, and the executor it
\* waits for has committed each of them (drop_oldest_queue.h, try_pop_all_latest).
FramesAdvance ==
    [][\A w \in Window :
          /\ latest_frame_id[w] <= latest_frame_id'[w]
          /\ latest_frame'[w] # latest_frame[w] =>
                /\ latest_frame'[w] > latest_frame[w]
                /\ latest_frame'[w] <= committed[w]]_vars

\* A tick finds everything its scenario owns: shutdown() comes after the last tick
\* of every thread, also when a thread fails while others are being started.
TicksFindTheirObjects ==
    \A t \in Worker : pc[t] \notin {"off", "done"} => objects[t[1]] = Objects

\* main returns -1 exactly if something failed, and what it prints is the message
\* of the thread that failed first (set_error_and_stop, main.cpp:494).
FirstErrorReported ==
    pc[Main] = "done" =>
        /\ result = -1 <=> errors > 0
        /\ error_message = first_error

\* Once it is to stop, the program returns, although a consumer may be asleep, and
\* queues may be full and threads not yet started.
ProgramReturns == ~running ~> pc[Main] = "done"
=============================================================================
