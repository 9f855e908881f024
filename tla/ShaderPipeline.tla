--------------------------- MODULE ShaderPipeline ---------------------------
(***************************************************************************)
(* Threads that compile pipelines from C++ lambdas: RasterizedPipelineObject *)
(* and ComputePipelineObject drive the thread's own parser, once without    *)
(* and once with bindless descriptors, the compiler translates the texts   *)
(* and appends them to the hardcode files a release build serves them from.*)
(* Any lambda may throw.                                                   *)
(*                                                                         *)
(* The parser, the flags of ParseHelper and numthreads are thread local;   *)
(* the imported functions, which the offline tool emits as static objects, *)
(* and the hardcode files belong to the process.  A thread uses the proxies*)
(* it constructed: the globals of another thread are not in its parser.    *)
(***************************************************************************)
EXTENDS ShaderTexts, FiniteSets

CONSTANTS
    Thread, Owner,          \* proxy -> the thread that constructs it
    Function,               \* imported functions
    Pipeline, User,         \* call sites, and the thread of each
    Stages,                 \* pipeline -> its stages: "vertex", "fragment", "compute"
    LambdaOf,               \* pipeline -> the lambda of each stage
    Threads,                \* pipeline -> its numthreads
    Bindless,               \* pipeline -> enableBindless
    MaxCompiles             \* bound: compilations a thread begins

ASSUME PipelineTypes ==
    /\ Owner \in [Proxy -> Thread] /\ User \in [Pipeline -> Thread]
    /\ Stages \in [Pipeline -> {<<"vertex", "fragment">>, <<"compute">>}]
    /\ \A p \in Pipeline : LambdaOf[p] \in [DOMAIN Stages[p] -> LambdaType(Function)]
    /\ Threads \in [Pipeline -> Nat \ {0}] /\ Bindless \in [Pipeline -> BOOLEAN]
    /\ \A p \in Pipeline : \A i \in DOMAIN Stages[p] :
           \A x \in Named(LambdaOf[p][i]) : Owner[x] = User[p]

\* operator<< belongs to Texture2DProxy.  A lambda sends a texture one colour: of
\* two the code keeps the last one's location, which Located does not tell.  Only
\* a fragment lambda has colours to send.
ASSUME TargetTypes ==
    \A p \in Pipeline : \A i \in DOMAIN Stages[p] :
        LET drawn == LambdaOf[p][i].targets
        IN  \A k \in DOMAIN drawn :
                /\ Stages[p][i] = "fragment"
                /\ Kind[drawn[k]] = "texture" /\ Owner[drawn[k]] = User[p]
                /\ \A j \in DOMAIN drawn : drawn[j] = drawn[k] => j = k

ASSUME CompileBound == MaxCompiles \in [Thread -> Nat]

VARIABLES
    declared,       \* proxy -> "no", "global", or "local" of some text
    textures,       \* thread -> its textures, in the order of its globals
    permissions, target,    \* fields of the global variables
    built,          \* function -> the threads that found isBuildDeclaration false
    parser,         \* thread -> Parser::currentParser
    inLambda,       \* thread -> bIsInShaderCodeLambda
    numthreads,     \* thread -> SlangGenerator::numthreads
    call,           \* thread -> the compile() it is in
    hardcode,       \* the items of the hardcode files, in order
    finished,       \* history: the pipelines compiled
    begun           \* thread -> compilations begun

globalVars == <<declared, textures, permissions, target, built>>
vars == <<globalVars, parser, inLambda, numthreads, call, hardcode, finished, begun>>

NoCall == [pc |-> "idle", pipeline |-> CHOOSE p \in Pipeline : TRUE, pass |-> 1, i |-> 1,
           dirty |-> FALSE, fresh |-> {}, outputs |-> <<>>, link |-> <<>>, sources |-> <<>>]

Init ==
    /\ declared = [x \in Proxy |-> "no"]
    /\ textures = [t \in Thread |-> <<>>]
    /\ permissions = [x \in Proxy |-> {}]
    /\ target = [x \in Proxy |-> -1]
    /\ built = [f \in Function |-> {}]
    /\ parser = [t \in Thread |-> [isInShaderParse |-> FALSE, stage |-> "vertex", bindless |-> FALSE,
                                   parseOutputs |-> <<>>, structure |-> NoStatements]]
    /\ inLambda = [t \in Thread |-> FALSE]
    /\ numthreads = [t \in Thread |-> 1]
    /\ call = [t \in Thread |-> NoCall]
    /\ hardcode = <<>> /\ finished = {}
    /\ begun = [t \in Thread |-> 0]

\* The global statements of a thread's parser.
Globals(t) == {x \in Proxy : declared[x] = "global" /\ Owner[x] = t}
FunctionsOf(t) == {f \in Function : t \in built[f]}
Locals == {x \in Proxy : declared[x] = "local"}

Goto(t, pc) == call' = [call EXCEPT ![t].pc = pc]
Leave(t) == call' = [call EXCEPT ![t] = NoCall]

-----------------------------------------------------------------------------
\* Constructing a proxy outside a lambda defines a global variable.  A uniform
\* asks the flag of ParseHelper, which a lambda that threw has left set.  A
\* sampler waits for its first use.
Declare(t, x) ==
    /\ call[t].pc = "idle" /\ Owner[x] = t /\ declared[x] = "no" /\ Kind[x] # "sampler"
    /\ declared' = [declared EXCEPT ![x] =
                        IF Kind[x] = "uniform" /\ inLambda[t] THEN "local" ELSE "global"]
    /\ textures' = IF Kind[x] = "texture" THEN [textures EXCEPT ![t] = Append(@, x)] ELSE textures
    /\ UNCHANGED <<permissions, target, built, parser, inLambda, numthreads, call, hardcode, finished, begun>>

\* compile(): the first pass is without bindless descriptors.  dirty and fresh are
\* history: an aborted compilation left its stage open, and the functions that
\* nothing has called yet.
Begin(t, p) ==
    /\ call[t].pc = "idle" /\ User[p] = t /\ begun[t] < MaxCompiles[t]
    /\ \A i \in DOMAIN Stages[p] : \A x \in Named(LambdaOf[p][i]) \cup
           {LambdaOf[p][i].targets[k] : k \in DOMAIN LambdaOf[p][i].targets} :
           Kind[x] = "sampler" \/ declared[x] # "no"
    /\ begun' = [begun EXCEPT ![t] = @ + 1]
    /\ numthreads' = IF Stages[p] = <<"compute">> THEN [numthreads EXCEPT ![t] = Threads[p]] ELSE numthreads
    /\ parser' = [parser EXCEPT ![t].bindless = FALSE]
    /\ call' = [call EXCEPT ![t] = [NoCall EXCEPT !.pc = "stage", !.pipeline = p,
                                                  !.dirty = parser[t].isInShaderParse,
                                                  !.fresh = {f \in Function : built[f] = {}}]]
    /\ UNCHANGED <<globalVars, inLambda, hardcode, finished>>

-----------------------------------------------------------------------------
\* The parser.

\* Mutant: reset() leaves the next render target location alone.
ResetKeepingLocation(structure) == [NoStatements EXCEPT !.next = structure.next]

Reset(structure) == NoStatements

\* Closing the open stage, in beginShaderParse and in endPipelineParse.
Closed(q, threads) ==
    IF q.isInShaderParse
    THEN [q EXCEPT !.isInShaderParse = FALSE, !.structure = Reset(@),
                   !.parseOutputs = Append(@, Text(q.structure, q.stage, q.bindless, threads))]
    ELSE q

\* getShaderOutput of a compute stage sets numthreads back to one.
ThreadsAfter(q, threads) == IF q.isInShaderParse /\ q.stage = "compute" THEN 1 ELSE threads

\* beginShaderParse.
Opened(q, stage, threads) == [Closed(q, threads) EXCEPT !.isInShaderParse = TRUE, !.stage = stage]

Stage(c) == Stages[c.pipeline][c.i]
Lambda(c) == LambdaOf[c.pipeline][c.i]

\* The statements a run of l adds; done is FALSE when it threw.
Recorded(t, q, l, new, done) ==
    LET before == q.structure
    IN  [q EXCEPT !.structure =
            [from |-> begun[t], lambda |-> Lambda(call[t]), complete |-> done,
             uses |-> before.uses \cup UsesOf(l, q.bindless, Locals), calls |-> before.calls \cup l.calls,
             spv |-> before.spv \cup new, next |-> before.next + Len(l.targets)]]

\* beginShaderParse, the parameters, callLambda.  The first call ever of an
\* imported function declares it and brings its SPIR-V; the flag is not synchronised, and a thread may
\* still read it false after another one has set it.
Run(t, l, done) ==
    LET c == call[t]
        q == Opened(parser[t], Stage(c), numthreads[t])
    IN  \E late \in SUBSET {f \in l.calls : built[f] # {} /\ t \notin built[f]} :
            LET new == late \cup {f \in l.calls : built[f] = {}}
            IN  /\ parser' = [parser EXCEPT ![t] = Recorded(t, q, l, new, done)]
                /\ numthreads' = [numthreads EXCEPT ![t] = ThreadsAfter(parser[t], @)]
                /\ built' = [f \in Function |-> built[f] \cup (IF f \in new THEN {t} ELSE {})]
                /\ declared' = [x \in Proxy |->
                       IF x \in Named(l) /\ Kind[x] = "sampler" THEN "global" ELSE declared[x]]
                /\ permissions' = Permitted(permissions, l)
                /\ target' = Located(target, l, q.structure.next)
                /\ UNCHANGED <<textures, hardcode, finished, begun>>

\* A compute lambda that returns a value is refused, with the stage open.
Refused(c) == Stage(c) = "compute" /\ Lambda(c).returns

RunStage(t) ==
    LET c == call[t]
    IN  /\ c.pc = "stage" /\ ~Refused(c)
        /\ Run(t, Lambda(c), TRUE)
        /\ inLambda' = [inLambda EXCEPT ![t] = FALSE]
        /\ call' = [call EXCEPT ![t] = IF c.i < Len(Stages[c.pipeline])
                                       THEN [c EXCEPT !.i = @ + 1] ELSE [c EXCEPT !.pc = "end"]]

\* The exception leaves compile() with the flag set and the stage open.
LambdaThrows(t) ==
    /\ call[t].pc = "stage" /\ ~Refused(call[t])
    /\ \E l \in {Nothing, Lambda(call[t])} : Run(t, l, FALSE)
    /\ inLambda' = [inLambda EXCEPT ![t] = TRUE]
    /\ Leave(t)

RefuseReturn(t) ==
    /\ call[t].pc = "stage" /\ Refused(call[t])
    /\ parser' = [parser EXCEPT ![t] = Opened(@, Stage(call[t]), numthreads[t])]
    /\ numthreads' = [numthreads EXCEPT ![t] = ThreadsAfter(parser[t], @)]
    /\ Leave(t)
    /\ UNCHANGED <<globalVars, inLambda, hardcode, finished, begun>>

\* Mutant: the permissions of one pipeline are those of the next, too.
KeepPermissions(t) == permissions

\* resetAccessPermissions of every global of the thread.
ResetPermissions(t) == [x \in Proxy |-> IF x \in Globals(t) THEN {} ELSE permissions[x]]

\* endPipelineParse: the globals are printed after the last stage.  The SPIR-V
\* that the stages of the first pass call is what both passes are linked with.
EndPipelineParse(t) ==
    LET c == call[t]
        q == Closed(parser[t], numthreads[t])
        decls == Declarations(Globals(t), permissions, q.bindless)
        outputs == [k \in DOMAIN q.parseOutputs |->
                        WithGlobals(q.parseOutputs[k], decls, FunctionsOf(t))]
    IN  /\ c.pc = "end"
        /\ parser' = [parser EXCEPT ![t] = [q EXCEPT !.parseOutputs = <<>>]]
        /\ numthreads' = [numthreads EXCEPT ![t] = ThreadsAfter(parser[t], @)]
        /\ permissions' = ResetPermissions(t)
        /\ call' = [call EXCEPT ![t] =
               [c EXCEPT !.pc = "compile", !.i = 1, !.outputs = outputs,
                         !.link = IF c.pass = 1 THEN [i \in DOMAIN Stages[c.pipeline] |-> outputs[i].spv] ELSE @]]
        /\ UNCHANGED <<declared, textures, target, built, inLambda, hardcode, finished, begun>>

-----------------------------------------------------------------------------
\* The compiler.

Item(c) == <<c.pipeline, c.i, c.pass>>

\* Mutant: the last text of the list is this stage's.
LastText(c) == c.outputs[Len(c.outputs)]

\* The texts are taken by their position.
StageText(c) == c.outputs[c.i]

\* The link list of the stage, of both passes.
Library(c) == c.link[c.i]

\* spirvLinker resolves every function the text calls.
Linked(c) == StageText(c).calls \subseteq Library(c)

\* Without a list Slang's SPIR-V is kept as it is; a linker that fails leaves none,
\* and what it returns is not looked at.
Stored(c) == Library(c) = {} \/ Linked(c)

\* addTarget writes one more item at the end of the stage's file: the SPIR-V of
\* the text and of the functions it was linked with.  number is history.
Appended(t, c) ==
    IF Stored(c)
    THEN Append(hardcode, [item |-> Item(c), text |-> StageText(c), link |-> Library(c),
                           dirty |-> c.dirty, number |-> begun[t]])
    ELSE hardcode

\* A module that does not load throws, and one whose functions have no body may
\* when Slang links it; the parser is closed by now.
CompileFails(t) ==
    /\ call[t].pc = "compile"
    /\ \/ ~Loads(StageText(call[t]))
       \/ Library(call[t]) = {} /\ StageText(call[t]).calls # {}
    /\ Leave(t)
    /\ UNCHANGED <<globalVars, parser, inLambda, numthreads, hardcode, finished, begun>>

\* After the last stage: a second pass with bindless descriptors, once.
NextPass(c) ==
    CASE c.i < Len(Stages[c.pipeline]) -> [c EXCEPT !.i = @ + 1]
      [] c.pass = 1 /\ Bindless[c.pipeline] /\ c.i = Len(Stages[c.pipeline]) ->
             [c EXCEPT !.pc = "stage", !.pass = 2, !.i = 1, !.outputs = <<>>]
      [] OTHER -> [c EXCEPT !.pc = "collect"]

CompileStage(t) ==
    LET c == call[t]
        d == NextPass([c EXCEPT !.sources = Append(@, [item |-> Item(c), text |-> StageText(c),
                                                       link |-> Library(c), spirv |-> Stored(c)])])
    IN  /\ c.pc = "compile" /\ Loads(StageText(c))
        /\ hardcode' = Appended(t, c)
        /\ call' = [call EXCEPT ![t] = d]
        /\ parser' = IF d.pass # c.pass THEN [parser EXCEPT ![t].bindless = TRUE] ELSE parser
        /\ UNCHANGED <<globalVars, inLambda, numthreads, finished, begun>>

\* The auto-bind entries.  Textures the SPIR-V of the last pass names:
BoundTextures(t, c) ==
    {x \in Globals(t) : Kind[x] = "texture" /\
        \E k \in DOMAIN c.sources : \E u \in c.sources[k].text.uses :
            c.sources[k].item[3] = c.pass /\ c.sources[k].spirv /\ u.proxy = x /\ u.space # "local"}

\* And the render targets: every texture of the thread with the location it was
\* given last, by whichever pipeline, in the order of the globals.  Location -1
\* is no entry.
BoundTargets(t, c) ==
    IF Stages[c.pipeline] = <<"compute">> THEN <<>>
    ELSE [k \in DOMAIN textures[t] |-> [texture |-> textures[t][k], location |-> target[textures[t][k]]]]

\* setResourceDirect, for one entry after the other: the last one of a location
\* stays.
LastAt(entries, location) ==
    {k \in DOMAIN entries : /\ entries[k].location = location
                            /\ \A j \in DOMAIN entries : entries[j].location = location => j <= k}

Collect(t) ==
    LET c == call[t]
    IN  /\ c.pc = "collect"
        /\ finished' = finished \cup
               {[pipeline |-> c.pipeline, number |-> begun[t], dirty |-> c.dirty, fresh |-> c.fresh,
                 sources |-> c.sources, textures |-> BoundTextures(t, c), targets |-> BoundTargets(t, c)]}
        /\ Leave(t)
        /\ UNCHANGED <<globalVars, parser, inLambda, numthreads, hardcode, begun>>

Next ==
    \E t \in Thread :
        \/ \E x \in Proxy : Declare(t, x)
        \/ \E p \in Pipeline : Begin(t, p)
        \/ RunStage(t) \/ LambdaThrows(t) \/ RefuseReturn(t)
        \/ EndPipelineParse(t) \/ CompileFails(t) \/ CompileStage(t) \/ Collect(t)

Spec == Init /\ [][Next]_vars

-----------------------------------------------------------------------------
\* Mutant: of the items of one name the map keeps the last.
ServedLast(item) == hardcode[CHOOSE i \in DOMAIN hardcode :
                                /\ hardcode[i].item = item
                                /\ \A j \in DOMAIN hardcode : hardcode[j].item = item => j <= i]

\* getHardcodeShader: of the items of one name the map keeps the first.
Served(item) == hardcode[CHOOSE i \in DOMAIN hardcode :
                            /\ hardcode[i].item = item
                            /\ \A j \in 1 .. i - 1 : hardcode[j].item # item]

\* A compilation that follows one aborted in a lambda takes that one's texts
\* for its own in the first pass.
Spoilt(dirty, item) == dirty /\ item[3] = 1

\* No thread but this one has declared g.
Own(t, g) == built[g] \subseteq {t}

\* Every text of the compilation under way declares what it names: the
\* variables where the text looks for them and writable when it writes them,
\* and the functions it calls.  Not so for a variable that is only a condition
\* or an argument, for a uniform constructed after a lambda threw, and for a
\* function that another thread declared (SlangGenerator.cpp:246-303).
TextsStandAlone ==
    \A t \in Thread : \A k \in DOMAIN call[t].outputs :
        LET text == call[t].outputs[k]
        IN  text.from = begun[t] =>
                /\ \A u \in text.uses : u.accessed /\ u.space # "local" => Declares(text, u)
                /\ \A f \in text.calls : Own(t, f) => f \in text.functions

\* A compiled pipeline was made of its own lambdas, each run to its end, in the
\* order of its stages, and both passes were linked with functions of its own:
\* with all that nothing had called before, except in a stage after the one that
\* called them first, which got their SPIR-V (VariateProxy.h:899-903).  A
\* compilation aborted in a lambda spoils the texts of the first pass of the next
\* one, and what both passes of the next one are linked with (Parser.cpp:26-63).
OwnStages ==
    \A f \in finished : \A k \in DOMAIN f.sources :
        LET s == f.sources[k]
            i == s.item[2]
            lambda == LambdaOf[f.pipeline][i]
        IN  /\ ~Spoilt(f.dirty, s.item) =>
                   /\ s.text.from = f.number /\ s.text.complete
                   /\ s.text.lambda = lambda
                   /\ s.text.stage = Stages[f.pipeline][i]
                   /\ s.text.bindless = (s.item[3] = 2)
            /\ ~f.dirty =>
                   /\ s.link \subseteq lambda.calls
                   /\ \A g \in lambda.calls \cap f.fresh : Own(User[f.pipeline], g) =>
                          g \in s.link \/ \E j \in 1 .. i - 1 : g \in LambdaOf[f.pipeline][j].calls

\* What a release build serves for a pipeline is what any compilation of the same
\* call site made of it, after whatever other pipelines, but for the functions it
\* is linked with; and of those it serves at least what that compilation had.
\* A function's SPIR-V is in the compilation that called it first only, so a later
\* one has less than is served (ShaderCodeCompiler.cpp:58-80, 189-194).
ReleaseServesTheSame ==
    \A f \in finished : \A k \in DOMAIN f.sources :
        LET s == f.sources[k]
            e == Served(s.item)
            made == Meaning(s.text, s.link)
            served == Meaning(e.text, e.link)
        IN  s.spirv /\ ~Spoilt(f.dirty, s.item) /\ ~Spoilt(e.dirty, s.item) =>
                /\ [served EXCEPT !.bodies = made.bodies] = made
                /\ \A g \in made.bodies : Own(User[f.pipeline], g) => g \in served.bodies

\* Where a fragment shader writes a colour, the texture it draws to is bound, in
\* whichever pass the location was given; or else one that another pipeline of the
\* thread has drawn to at that location, that this one does not draw to, and that
\* was constructed later: its stale entry comes last (RasterizedPipelineObject.h:98-114).
TargetsBound ==
    \A f \in finished : Stages[f.pipeline] # <<"compute">> =>
        LET drawn == LambdaOf[f.pipeline][2].targets
            Stale(x, k) == /\ \A i \in DOMAIN drawn : drawn[i] # x
                           /\ \E p \in Pipeline \ {f.pipeline} :
                                  /\ User[p] = User[f.pipeline] /\ Stages[p] # <<"compute">>
                                  /\ k \in DOMAIN LambdaOf[p][2].targets /\ LambdaOf[p][2].targets[k] = x
        IN  \A k \in DOMAIN drawn : \E last \in LastAt(f.targets, k - 1) :
                \/ f.targets[last].texture = drawn[k]
                \/ /\ Stale(f.targets[last].texture, k)
                   /\ \E j \in 1 .. last - 1 : f.targets[j] = [texture |-> drawn[k], location |-> k - 1]
=============================================================================
