------------------------ MODULE ShaderPipelineProofs ------------------------
(***************************************************************************)
(* The invariants of ShaderPipeline, for any threads, pipelines, lambdas   *)
(* and imported functions, and lambdas that throw anywhere.                *)
(*                                                                         *)
(* A compilation is clean when no text of an aborted one can be among its  *)
(* own: when it began with the parser closed, or is in its second pass.    *)
(* IInv says of a clean one, point by point of the control, that what it   *)
(* has so far is a function of its call site alone: MeaningOf.  For that   *)
(* every permission must have been taken back, numthreads be one again and *)
(* every proxy stay what it was when it was first named.  For             *)
(* TextsStandAlone it carries what the open stage and the texts closed     *)
(* before need to be declared in the end.                                  *)
(*                                                                         *)
(* What a text is linked with depends on the compilations before it, so    *)
(* two more invariants are inductive beside IInv.  LinkInv follows a       *)
(* function's SPIR-V from the first call through the parser to the link    *)
(* lists and the items, and BoundInv the order of a thread's textures and  *)
(* the locations its pipelines have given them.                            *)
(***************************************************************************)
EXTENDS ShaderPipeline, SequenceTheorems, WellFoundedInduction, TLAPS

\* How a statement names a proxy; "late" is left to the printing of the text.
Space == {"local", "late", "ubo", "push_constant", "parameter_block"}

Use == [proxy : Proxy, write : BOOLEAN, accessed : BOOLEAN, space : Space]

Declaration == [proxy : Proxy, space : Space, rw : BOOLEAN]

StageName == {"vertex", "fragment", "compute"}

Statements ==
    [from : Nat, lambda : LambdaType(Function), complete : BOOLEAN, uses : SUBSET Use,
     calls : SUBSET Function, spv : SUBSET Function, next : Nat]

TextType ==
    [from : Nat, lambda : LambdaType(Function), complete : BOOLEAN, stage : StageName,
     bindless : BOOLEAN, threads : Nat, uses : SUBSET Use, calls : SUBSET Function,
     spv : SUBSET Function, decls : SUBSET Declaration, functions : SUBSET Function]

ParserType ==
    [isInShaderParse : BOOLEAN, stage : StageName, bindless : BOOLEAN,
     parseOutputs : Seq(TextType), structure : Statements]

ItemType == Pipeline \X {1, 2} \X {1, 2}

SourceType == [item : ItemType, text : TextType, link : SUBSET Function, spirv : BOOLEAN]

EntryType == [item : ItemType, text : TextType, link : SUBSET Function, dirty : BOOLEAN, number : Nat]

CallType ==
    [pc : {"idle", "stage", "end", "compile", "collect"}, pipeline : Pipeline \cup {NoCall.pipeline},
     pass : {1, 2}, i : {1, 2}, dirty : BOOLEAN, fresh : SUBSET Function, outputs : Seq(TextType),
     link : Seq(SUBSET Function), sources : Seq(SourceType)]

TypeInv ==
    /\ declared \in [Proxy -> {"no", "global", "local"}]
    /\ permissions \in [Proxy -> SUBSET {"read", "write"}]
    /\ target \in [Proxy -> Int]
    /\ built \in [Function -> SUBSET Thread]
    /\ parser \in [Thread -> ParserType]
    /\ inLambda \in [Thread -> BOOLEAN]
    /\ numthreads \in [Thread -> Nat]
    /\ call \in [Thread -> CallType]
    /\ hardcode \in Seq(EntryType)
    /\ begun \in [Thread -> Nat]

\* No text of a compilation that was aborted can be taken for one of this.
Clean(c) == c.pass = 2 \/ ~c.dirty

\* The group size printed: the first text of a compilation resets it.
ThreadsOf(p, bindless) == IF Stages[p] = <<"compute">> /\ ~bindless THEN Threads[p] ELSE 1

\* The uses of a text that has been printed.
FinalUses(l, bindless, locals) ==
    {[proxy |-> x, write |-> x \in l.writes, accessed |-> x \in Accessed(l),
      space |-> IF x \in locals THEN "local" ELSE NamedIn(x, bindless)] : x \in Named(l)}

\* What the first n lambdas of a pipeline do with a global.
PermissionsOf(p, n, x) ==
       {a \in {"read"} : \E j \in DOMAIN Stages[p] : j <= n /\ x \in LambdaOf[p][j].reads}
  \cup {a \in {"write"} : \E j \in DOMAIN Stages[p] : j <= n /\ x \in LambdaOf[p][j].writes}

\* What a text means, whatever it is linked with.
Bare(text) == Meaning(text, {})

\* The shader that a stage's text means, as a function of the call site; what its
\* functions are linked with is not.
MeaningOf(p, i, bindless, locals) ==
    [stage |-> Stages[p][i], threads |-> ThreadsOf(p, bindless),
     uses |-> FinalUses(LambdaOf[p][i], bindless, locals), calls |-> LambdaOf[p][i].calls,
     bodies |-> {},
     decls |-> {[proxy |-> x, space |-> DeclaredIn(x, bindless), rw |-> PermissionsOf(p, 2, x) # {"read"}] :
                   x \in {y \in Named(LambdaOf[p][i]) \ locals : PermissionsOf(p, 2, y) # {}}}]

\* The statements of a lambda that ran to its end, in compilation n.
Ran(s, p, i, bindless, n, locals) ==
    /\ s.from = n /\ s.complete /\ s.lambda = LambdaOf[p][i]
    /\ s.uses = UsesOf(LambdaOf[p][i], bindless, locals) /\ s.calls = LambdaOf[p][i].calls

\* The text of a stage whose lambda ran to its end, in compilation n.
Printed(x, p, i, bindless, n, locals) ==
    /\ x.from = n /\ x.complete /\ x.lambda = LambdaOf[p][i]
    /\ x.stage = Stages[p][i] /\ x.bindless = bindless /\ x.threads = ThreadsOf(p, bindless)
    /\ x.uses = FinalUses(LambdaOf[p][i], bindless, locals) /\ x.calls = LambdaOf[p][i].calls

\* What a lambda names has been constructed; a sampler may wait.
Settled(l, variables) == \A x \in Named(l) : Kind[x] = "sampler" \/ variables[x] # "no"

\* What is named as a global is one, with the permissions it was used with.
Backed(uses, bindless, globals, rights) ==
    \A u \in uses : u.accessed /\ u.space # "local" =>
        /\ u.proxy \in globals /\ rights[u.proxy] # {}
        /\ u.write => "write" \in rights[u.proxy]
        /\ u.space \in {"late", NamedIn(u.proxy, bindless)}

\* A source of compilation n: it is an item of the hardcode files, if its link
\* was made, and unspoilt it is the text of its own stage.
Made(s, p, dirty, n, items, variables, locals) ==
    LET i == s.item[2]
        b == (s.item[3] = 2)
    IN  /\ s.item[1] = p /\ p \in Pipeline /\ i \in DOMAIN Stages[p]
        /\ Settled(LambdaOf[p][i], variables)
        /\ s.spirv => \E j \in DOMAIN items :
                         items[j].item = s.item /\ items[j].text = s.text /\ items[j].link = s.link
        /\ ~Spoilt(dirty, s.item) => /\ Printed(s.text, p, i, b, n, locals)
                                     /\ Bare(s.text) = MeaningOf(p, i, b, locals)

\* An item of the hardcode files; of each name there is a first one.
Entered(j, items, variables, locals) ==
    LET e == items[j]
        p == e.item[1]
        i == e.item[2]
    IN  /\ i \in DOMAIN Stages[p] /\ Settled(LambdaOf[p][i], variables)
        /\ ~Spoilt(e.dirty, e.item) => Bare(e.text) = MeaningOf(p, i, e.item[3] = 2, locals)
        /\ \E k \in DOMAIN items : /\ items[k].item = e.item
                                   /\ \A n \in 1 .. k - 1 : items[n].item # e.item

\* From the end of the first pass on there are link lists, one for each stage.
Linking(c) == c.pc \in {"compile", "collect"} \/ (c.pc # "idle" /\ c.pass = 2)

\* Where a thread is in compile() tells whether its parser has a stage open.
ShapeInv(t) ==
    LET q == parser[t]
        c == call[t]
        p == c.pipeline
    IN  /\ ~q.isInShaderParse => q.structure = NoStatements
        /\ c.pc # "idle" => p \in Pipeline /\ User[p] = t /\ c.i \in DOMAIN Stages[p]
        /\ c.pc \in {"idle", "compile", "collect"} /\ ~q.isInShaderParse => q.parseOutputs = <<>>
        /\ c.pc \in {"compile", "collect"} => ~q.isInShaderParse
        /\ c.pc = "stage" /\ c.i = 2 => q.isInShaderParse
        /\ c.pc = "end" => q.isInShaderParse /\ c.i = Len(Stages[p]) /\ (c.i = 2 => q.parseOutputs # <<>>)
        /\ c.pc \in {"stage", "end"} => q.bindless = (c.pass = 2)
        /\ c.pc = "compile" => Len(c.outputs) >= Len(Stages[p])
        /\ Linking(c) => DOMAIN c.link = DOMAIN Stages[p]

\* A clean compilation has the texts of its own stages and no other.
CleanInv(t) ==
    LET q == parser[t]
        c == call[t]
        p == c.pipeline
        b == (c.pass = 2)
    IN  Clean(c) =>
        /\ c.pc = "stage" =>
             /\ q.parseOutputs = <<>>
             /\ c.i = 1 => ~q.isInShaderParse
             /\ c.i = 2 => q.stage = Stages[p][1] /\ Ran(q.structure, p, 1, b, begun[t], Locals)
        /\ c.pc = "end" =>
             /\ q.stage = Stages[p][c.i] /\ Ran(q.structure, p, c.i, b, begun[t], Locals)
             /\ c.i = 1 => q.parseOutputs = <<>>
             /\ c.i = 2 => Len(q.parseOutputs) = 1 /\ Printed(q.parseOutputs[1], p, 1, b, begun[t], Locals)
        /\ c.pc = "compile" =>
             \A i \in DOMAIN Stages[p] : /\ Printed(c.outputs[i], p, i, b, begun[t], Locals)
                                         /\ Bare(c.outputs[i]) = MeaningOf(p, i, b, Locals)

\* What has been compiled so far.
SourceInv(t) ==
    LET c == call[t]
    IN  \A k \in DOMAIN c.sources :
            c.pc # "idle" /\ Made(c.sources[k], c.pipeline, c.dirty, begun[t], hardcode, declared, Locals)

\* Between two compilations no global has a permission, unless one was aborted
\* with its stage open; in a clean one, those of the lambdas run so far.
PermInv(t) ==
    LET c == call[t]
        p == c.pipeline
    IN  /\ \/ c.pc \in {"idle", "stage"} /\ ~parser[t].isInShaderParse
           \/ c.pc \in {"compile", "collect"}
           => \A x \in Globals(t) : permissions[x] = {}
        /\ c.pc = "stage" /\ c.i = 2 /\ Clean(c) => \A x \in Globals(t) : permissions[x] = PermissionsOf(p, 1, x)
        /\ c.pc = "end" /\ Clean(c) => \A x \in Globals(t) : permissions[x] = PermissionsOf(p, 2, x)

\* numthreads is one again once a compute stage has been printed.
NumInv(t) ==
    LET q == parser[t]
        c == call[t]
        p == c.pipeline
        once == Stages[p] = <<"compute">> /\ c.pass = 1
    IN  /\ \/ numthreads[t] = 1
           \/ q.isInShaderParse /\ q.stage = "compute"
           \/ c.pc = "stage" /\ once
        /\ c.pc \in {"stage", "end"} /\ Clean(c) => numthreads[t] = ThreadsOf(p, c.pass = 2)

\* The fragment shader's locations count from zero, in each pass.
TargetInv(t) ==
    LET c == call[t]
        p == c.pipeline
        drawn == LambdaOf[p][2].targets
    IN  c.pc \in {"end", "compile", "collect"} /\ Stages[p] # <<"compute">> =>
            \A k \in DOMAIN drawn : target[drawn[k]] = k - 1

\* A proxy of a pipeline being compiled exists, a sampler from its first use on.
SettledInv(t) ==
    LET c == call[t]
        p == c.pipeline
    IN  c.pc # "idle" => \A i \in DOMAIN Stages[p] :
            /\ Settled(LambdaOf[p][i], declared)
            /\ \A k \in DOMAIN LambdaOf[p][i].targets :
                   declared[LambdaOf[p][i].targets[k]] # "no"
            /\ c.pc \in {"end", "compile", "collect"} \/ (c.pc = "stage" /\ i < c.i) \/ c.pass = 2 =>
                   \A x \in Named(LambdaOf[p][i]) : declared[x] # "no"

\* Of this compilation, the open stage and the texts closed before it use only
\* what can be declared after the last stage.
StandInv(t) ==
    LET q == parser[t]
        c == call[t]
    IN  /\ q.structure.from <= begun[t]
        /\ \A k \in DOMAIN q.parseOutputs : q.parseOutputs[k].from <= begun[t]
        /\ c.pc \in {"stage", "end"} =>
             /\ \A k \in DOMAIN q.parseOutputs :
                   LET text == q.parseOutputs[k]
                   IN  text.from = begun[t] => /\ Backed(text.uses, q.bindless, Globals(t), permissions)
                                               /\ \A u \in text.uses : u.space # "late"
                                               /\ \A f \in text.calls : built[f] # {}
             /\ q.structure.from = begun[t] => /\ Backed(q.structure.uses, q.bindless, Globals(t), permissions)
                                               /\ \A f \in q.structure.calls : built[f] # {}

\* And was declared, in the texts handed to the compiler.
OutputsInv(t) ==
    LET c == call[t]
    IN  /\ c.pc = "idle" => c.outputs = <<>>
        /\ \A k \in DOMAIN c.outputs :
             LET text == c.outputs[k]
             IN  text.from = begun[t] =>
                   /\ \A u \in text.uses : u.accessed /\ u.space # "local" => Declares(text, u)
                   /\ \A f \in text.calls : Own(t, f) => f \in text.functions

\* Only a uniform is ever local; what was never constructed has no permission.
GlobalInv ==
    \A x \in Proxy :
        /\ declared[x] = "local" => Kind[x] = "uniform"
        /\ declared[x] = "no" => permissions[x] = {}

\* The hardcode files.
HardcodeInv == \A j \in DOMAIN hardcode : Entered(j, hardcode, declared, Locals)

\* The pipelines compiled.
FinishedInv ==
    \A f \in finished : \A k \in DOMAIN f.sources :
        Made(f.sources[k], f.pipeline, f.dirty, f.number, hardcode, declared, Locals)

ThreadInv(t) ==
    /\ ShapeInv(t) /\ CleanInv(t) /\ SourceInv(t) /\ PermInv(t) /\ NumInv(t)
    /\ TargetInv(t) /\ SettledInv(t) /\ StandInv(t) /\ OutputsInv(t)

\* The inductive invariant.
IInv == TypeInv /\ GlobalInv /\ HardcodeInv /\ FinishedInv /\ \A t \in Thread : ThreadInv(t)

-----------------------------------------------------------------------------
\* Types, and what the operators of the parser return.
LEMMA StageFacts ==
    ASSUME NEW p \in Pipeline
    PROVE  /\ User[p] \in Thread
           /\ \/ Stages[p] = <<"compute">> /\ DOMAIN Stages[p] = {1} /\ Len(Stages[p]) = 1
                 /\ Stages[p][1] = "compute"
              \/ /\ Stages[p] = <<"vertex", "fragment">> /\ DOMAIN Stages[p] = {1, 2} /\ Len(Stages[p]) = 2
                 /\ Stages[p][1] = "vertex" /\ Stages[p][2] = "fragment" /\ Stages[p] # <<"compute">>
           /\ \A i \in DOMAIN Stages[p] : LambdaOf[p][i] \in LambdaType(Function)
           /\ \A i \in DOMAIN Stages[p] : \A x \in Named(LambdaOf[p][i]) : Owner[x] = User[p]
           /\ Threads[p] \in Nat
<1>1. Stages[p] \in {<<"vertex", "fragment">>, <<"compute">>}
    BY PipelineTypes
<1>2. \A i \in DOMAIN Stages[p] : LambdaOf[p][i] \in LambdaType(Function)
    BY PipelineTypes
<1> QED BY <1>1, <1>2, PipelineTypes

LEMMA StageCount ==
    ASSUME NEW p \in Pipeline
    PROVE  \/ Len(Stages[p]) = 1 /\ DOMAIN Stages[p] = {1}
           \/ Len(Stages[p]) = 2 /\ DOMAIN Stages[p] = {1, 2}
BY StageFacts

LEMMA LambdaFacts ==
    ASSUME NEW l \in LambdaType(Function)
    PROVE  /\ l.reads \subseteq Proxy /\ l.writes \subseteq Proxy /\ l.bare \subseteq Proxy
           /\ Named(l) \subseteq Proxy /\ Accessed(l) \subseteq Named(l) /\ l.calls \subseteq Function
           /\ Len(l.targets) \in Nat /\ DOMAIN l.targets = 1 .. Len(l.targets)
           /\ \A k \in DOMAIN l.targets : l.targets[k] \in Proxy /\ k \in Nat
<1>1. PICK n \in 0 .. 2 : l.targets \in [1 .. n -> Proxy]
    BY DEF LambdaType
<1>2. l.targets \in Seq(Proxy)
    BY <1>1
<1> QED BY <1>1, <1>2 DEF LambdaType, Named, Accessed

LEMMA NothingFacts ==
    /\ Nothing \in LambdaType(Function) /\ Named(Nothing) = {} /\ Nothing.calls = {}
    /\ Nothing.targets = <<>> /\ Accessed(Nothing) = {}
<1>1. <<>> \in [1 .. 0 -> Proxy]
    OBVIOUS
<1>2. <<>> \in UNION {[1 .. n -> Proxy] : n \in 0 .. 2}
    BY <1>1
<1> QED BY <1>2 DEF Nothing, LambdaType, Named, Accessed

LEMMA UsesType ==
    ASSUME NEW l \in LambdaType(Function), NEW b \in BOOLEAN, NEW locals
    PROVE  UsesOf(l, b, locals) \subseteq Use
<1> SUFFICES ASSUME NEW x \in Named(l)
             PROVE  [proxy |-> x, write |-> x \in l.writes, accessed |-> x \in Accessed(l),
                     space |-> IF x \in locals THEN "local"
                               ELSE IF x \in l.elements \/ Kind[x] = "sampler" THEN NamedIn(x, b)
                               ELSE "late"] \in Use
    BY DEF UsesOf
<1>1. NamedIn(x, b) \in Space
    BY DEF NamedIn, Space
<1>2. (IF x \in locals THEN "local"
       ELSE IF x \in l.elements \/ Kind[x] = "sampler" THEN NamedIn(x, b)
       ELSE "late") \in Space
    BY <1>1 DEF Space
<1>3. x \in Proxy
    BY LambdaFacts
<1> QED BY <1>2, <1>3 DEF Use

LEMMA TextFacts ==
    ASSUME NEW s \in Statements, NEW stage \in StageName, NEW b \in BOOLEAN, NEW n \in Nat
    PROVE  /\ Text(s, stage, b, n) \in TextType
           /\ \A u \in Text(s, stage, b, n).uses : u.space # "late"
<1>1. ASSUME NEW u \in s.uses
      PROVE  /\ (IF u.space = "late" THEN [u EXCEPT !.space = NamedIn(u.proxy, b)] ELSE u) \in Use
             /\ (IF u.space = "late" THEN [u EXCEPT !.space = NamedIn(u.proxy, b)] ELSE u).space # "late"
    <2>1. u \in Use
        BY DEF Statements
    <2>2. NamedIn(u.proxy, b) \in Space \ {"late"}
        BY DEF NamedIn, Space
    <2> QED BY <2>1, <2>2 DEF Use
<1> QED BY <1>1 DEF Text, TextType, Statements

LEMMA NoStatementsType == NoStatements \in Statements
BY NothingFacts DEF NoStatements, Statements

LEMMA ClosedFacts ==
    ASSUME NEW q \in ParserType, NEW n \in Nat
    PROVE  LET r == Closed(q, n)
           IN  /\ r \in ParserType /\ ~r.isInShaderParse /\ r.stage = q.stage /\ r.bindless = q.bindless
               /\ q.isInShaderParse =>
                     /\ r.structure = NoStatements
                     /\ r.parseOutputs = Append(q.parseOutputs, Text(q.structure, q.stage, q.bindless, n))
               /\ ~q.isInShaderParse => r = q
<1>1. CASE q.isInShaderParse
    <2>1. Text(q.structure, q.stage, q.bindless, n) \in TextType
        BY TextFacts DEF ParserType
    <2>2. Append(q.parseOutputs, Text(q.structure, q.stage, q.bindless, n)) \in Seq(TextType)
        BY <2>1 DEF ParserType
    <2>3. Closed(q, n) = [q EXCEPT !.isInShaderParse = FALSE, !.structure = NoStatements,
                           !.parseOutputs = Append(q.parseOutputs, Text(q.structure, q.stage, q.bindless, n))]
        BY <1>1 DEF Closed, Reset
    <2> QED BY <1>1, <2>2, <2>3, NoStatementsType DEF ParserType
<1>2. CASE ~q.isInShaderParse
    BY <1>2 DEF Closed
<1> QED BY <1>1, <1>2

LEMMA OpenedFacts ==
    ASSUME NEW q \in ParserType, NEW n \in Nat, NEW stage \in StageName
    PROVE  LET r == Opened(q, stage, n)
               d == Closed(q, n)
           IN  /\ r \in ParserType /\ r.isInShaderParse /\ r.stage = stage /\ r.bindless = q.bindless
               /\ r.structure = d.structure /\ r.parseOutputs = d.parseOutputs
BY ClosedFacts DEF Opened, ParserType

\* The statements after a run.
Added(n, l, done, uses, calls, new, m) ==
    [from |-> n, lambda |-> l, complete |-> done, uses |-> uses, calls |-> calls, spv |-> new, next |-> m]

LEMMA AddedFacts ==
    ASSUME NEW n \in Nat, NEW l \in LambdaType(Function), NEW done \in BOOLEAN, NEW uses \in SUBSET Use,
           NEW calls \in SUBSET Function, NEW new \in SUBSET Function, NEW m \in Nat
    PROVE  LET s == Added(n, l, done, uses, calls, new, m)
           IN  /\ s \in Statements /\ s.from = n /\ s.lambda = l /\ s.complete = done
               /\ s.uses = uses /\ s.calls = calls /\ s.spv = new
BY DEF Added, Statements

\* What a run of a lambda changes.
LEMMA RunFacts ==
    ASSUME TypeInv, NEW t \in Thread, NEW p \in Pipeline, NEW i \in DOMAIN Stages[p],
           call[t].pipeline = p, call[t].i = i, ShapeInv(t),
           NEW l \in {Nothing, LambdaOf[p][i]}, NEW done \in BOOLEAN, Run(t, l, done)
    PROVE  LET q == parser[t]
               r == parser'[t]
           IN  /\ parser' \in [Thread -> ParserType] /\ \A u \in Thread : u # t => parser'[u] = parser[u]
               /\ r.isInShaderParse /\ r.stage = Stages[p][i] /\ r.bindless = q.bindless
               /\ r.parseOutputs = Closed(q, numthreads[t]).parseOutputs
               /\ r.structure.from = begun[t] /\ r.structure.lambda = LambdaOf[p][i]
               /\ r.structure.complete = done
               /\ r.structure.uses = UsesOf(l, q.bindless, Locals) /\ r.structure.calls = l.calls
               /\ r.structure.spv \subseteq l.calls
               /\ \A f \in Function : built'[f] = built[f] \cup (IF f \in r.structure.spv THEN {t} ELSE {})
               /\ \A f \in l.calls : built[f] = {} => f \in r.structure.spv
               /\ \A f \in r.structure.spv : t \notin built[f]
               /\ numthreads' = [numthreads EXCEPT ![t] = ThreadsAfter(q, @)]
               /\ built' \in [Function -> SUBSET Thread]
               /\ \A f \in Function : built[f] \subseteq built'[f]
               /\ \A f \in l.calls : built'[f] # {}
               /\ \A x \in Proxy : declared'[x] = IF x \in Named(l) /\ Kind[x] = "sampler"
                                                  THEN "global" ELSE declared[x]
               /\ declared' \in [Proxy -> {"no", "global", "local"}]
               /\ permissions' = Permitted(permissions, l)
               /\ permissions' \in [Proxy -> SUBSET {"read", "write"}]
               /\ target' = Located(target, l, 0) /\ target' \in [Proxy -> Int]
               /\ UNCHANGED <<textures, hardcode, finished, begun>>
<1> DEFINE q == parser[t]
           o == Opened(q, Stages[p][i], numthreads[t])
<1>1. /\ q \in ParserType /\ numthreads[t] \in Nat /\ begun[t] \in Nat /\ Stages[p][i] \in StageName
      /\ l \in LambdaType(Function) /\ LambdaOf[p][i] \in LambdaType(Function)
    <2>1. Stages[p][i] \in StageName
        BY StageFacts DEF StageName
    <2> QED BY <2>1, StageFacts, NothingFacts DEF TypeInv
<1>2. o \in ParserType /\ o.isInShaderParse /\ o.stage = Stages[p][i] /\ o.bindless = q.bindless
      /\ o.parseOutputs = Closed(q, numthreads[t]).parseOutputs /\ o.structure = NoStatements
    <2>1. Closed(q, numthreads[t]).structure = NoStatements
        <3>1. ~q.isInShaderParse => q.structure = NoStatements
            BY DEF ShapeInv
        <3> QED BY <1>1, <3>1, ClosedFacts
    <2> QED BY <1>1, <2>1, OpenedFacts
<1>3. Stage(call[t]) = Stages[p][i] /\ Lambda(call[t]) = LambdaOf[p][i]
    BY DEF Stage, Lambda
<1>4. PICK late \in SUBSET {f \in l.calls : built[f] # {} /\ t \notin built[f]} :
          LET new == late \cup {f \in l.calls : built[f] = {}}
          IN  /\ parser' = [parser EXCEPT ![t] = Recorded(t, o, l, new, done)]
              /\ numthreads' = [numthreads EXCEPT ![t] = ThreadsAfter(parser[t], @)]
              /\ built' = [f \in Function |-> built[f] \cup (IF f \in new THEN {t} ELSE {})]
              /\ declared' = [x \in Proxy |->
                     IF x \in Named(l) /\ Kind[x] = "sampler" THEN "global" ELSE declared[x]]
              /\ permissions' = Permitted(permissions, l)
              /\ target' = Located(target, l, o.structure.next)
              /\ UNCHANGED <<textures, hardcode, finished, begun>>
    BY <1>3 DEF Run
<1> DEFINE new == late \cup {f \in l.calls : built[f] = {}}
           r == Recorded(t, o, l, new, done)
<1>5. new \subseteq l.calls /\ l.calls \subseteq Function
    BY <1>1, LambdaFacts
<1>6. r \in ParserType /\ r.isInShaderParse /\ r.stage = Stages[p][i] /\ r.bindless = q.bindless
      /\ r.parseOutputs = o.parseOutputs
      /\ r.structure.from = begun[t] /\ r.structure.lambda = LambdaOf[p][i] /\ r.structure.complete = done
      /\ r.structure.uses = UsesOf(l, q.bindless, Locals) /\ r.structure.calls = l.calls
      /\ r.structure.spv = new
    <2> DEFINE uses == UsesOf(l, q.bindless, Locals)
               m == 0 + Len(l.targets)
               s == Added(begun[t], LambdaOf[p][i], done, uses, l.calls, new, m)
    <2>1. uses \in SUBSET Use /\ m \in Nat /\ new \in SUBSET Function /\ l.calls \in SUBSET Function
        BY <1>1, <1>5, UsesType, LambdaFacts DEF ParserType
    <2>2. r = [o EXCEPT !.structure = s]
        <3>1. /\ NoStatements.uses \cup UsesOf(l, q.bindless, Locals) = uses
              /\ NoStatements.calls \cup l.calls = l.calls /\ NoStatements.spv \cup new = new
              /\ NoStatements.next + Len(l.targets) = m
            BY DEF NoStatements
        <3> HIDE DEF uses, m, new
        <3> QED BY <1>2, <1>3, <3>1 DEF Recorded, Added, r
    <2> HIDE DEF uses, m
    <2>3. /\ s \in Statements /\ s.from = begun[t] /\ s.lambda = LambdaOf[p][i] /\ s.complete = done
          /\ s.uses = uses /\ s.calls = l.calls /\ s.spv = new
        BY <1>1, <2>1, AddedFacts
    <2> HIDE DEF s, new
    <2>4. /\ r \in ParserType /\ r.structure = s
          /\ r.isInShaderParse /\ r.stage = Stages[p][i] /\ r.bindless = q.bindless
          /\ r.parseOutputs = o.parseOutputs
        BY <1>2, <2>2, <2>3 DEF ParserType
    <2> HIDE DEF r
    <2> QED BY <2>3, <2>4 DEF uses
<1> HIDE DEF r, o, new
<1>7. parser' \in [Thread -> ParserType] /\ parser'[t] = r /\ \A u \in Thread : u # t => parser'[u] = parser[u]
    BY <1>4, <1>6 DEF TypeInv, r, new
<1>8. /\ built' \in [Function -> SUBSET Thread] /\ \A f \in Function : built[f] \subseteq built'[f]
      /\ \A f \in l.calls : built'[f] # {}
    BY <1>4, <1>5 DEF TypeInv, new
<1>81. /\ r.structure.spv \subseteq l.calls
       /\ \A f \in Function : built'[f] = built[f] \cup (IF f \in r.structure.spv THEN {t} ELSE {})
       /\ \A f \in l.calls : built[f] = {} => f \in r.structure.spv
       /\ \A f \in r.structure.spv : t \notin built[f]
    <2>1. /\ \A f \in Function : built'[f] = built[f] \cup (IF f \in new THEN {t} ELSE {})
          /\ \A f \in l.calls : built[f] = {} => f \in new
          /\ \A f \in new : t \notin built[f]
        BY <1>4, <1>5 DEF new
    <2> QED BY <1>5, <1>6, <2>1
<1>9. /\ \A x \in Proxy : declared'[x] = IF x \in Named(l) /\ Kind[x] = "sampler" THEN "global" ELSE declared[x]
      /\ declared' \in [Proxy -> {"no", "global", "local"}]
    BY <1>4 DEF TypeInv
<1>10. permissions' \in [Proxy -> SUBSET {"read", "write"}]
    BY <1>4 DEF TypeInv, Permitted
<1>11. target' = Located(target, l, 0) /\ target' \in [Proxy -> Int]
    <2>1. target' = Located(target, l, 0)
        BY <1>2, <1>4 DEF NoStatements, o
    <2>2. ASSUME NEW x \in Proxy, \E k \in DOMAIN l.targets : l.targets[k] = x
          PROVE  0 + (CHOOSE k \in DOMAIN l.targets : l.targets[k] = x) - 1 \in Int
        <3>1. (CHOOSE k \in DOMAIN l.targets : l.targets[k] = x) \in DOMAIN l.targets
            BY <2>2
        <3> QED BY <1>1, <3>1, LambdaFacts
    <2> QED BY <2>1, <2>2 DEF Located, TypeInv
<1> QED BY <1>2, <1>4, <1>6, <1>7, <1>8, <1>81, <1>9, <1>10, <1>11

LEMMA MapType ==
    ASSUME NEW S, NEW R, NEW s \in Seq(S), NEW f, DOMAIN f = DOMAIN s, f = [k \in DOMAIN f |-> f[k]],
           \A k \in DOMAIN s : f[k] \in R
    PROVE  f \in Seq(R) /\ Len(f) = Len(s)
<1>1. Len(s) \in Nat /\ DOMAIN s = 1 .. Len(s)
    OBVIOUS
<1>2. f \in [1 .. Len(s) -> R]
    BY <1>1
<1> QED BY <1>1, <1>2, SeqDef

LEMMA DeclarationsType ==
    ASSUME NEW globals \in SUBSET Proxy, NEW b \in BOOLEAN, NEW rights
    PROVE  Declarations(globals, rights, b) \subseteq Declaration
<1>1. \A x \in Proxy : DeclaredIn(x, b) \in Space
    BY DEF DeclaredIn, Space
<1>2. ASSUME NEW x \in globals
      PROVE  [proxy |-> x, space |-> DeclaredIn(x, b), rw |-> rights[x] # {"read"}] \in Declaration
    BY <1>1 DEF Declaration
<1> QED BY <1>2 DEF Declarations

\* The texts endPipelineParse returns.
Outputs(t) ==
    LET q == Closed(parser[t], numthreads[t])
    IN  [k \in DOMAIN q.parseOutputs |->
            WithGlobals(q.parseOutputs[k], Declarations(Globals(t), permissions, q.bindless), FunctionsOf(t))]

\* The call after endPipelineParse, with the texts and what is to be linked.
LEMMA EndedCall ==
    ASSUME NEW t \in Thread, EndPipelineParse(t)
    PROVE  \E link :
              /\ link = IF call[t].pass = 1
                        THEN [i \in DOMAIN Stages[call[t].pipeline] |-> Outputs(t)[i].spv] ELSE call[t].link
              /\ call' = [call EXCEPT ![t] = [call[t] EXCEPT !.pc = "compile", !.i = 1,
                                                             !.outputs = Outputs(t), !.link = link]]
<1> DEFINE c == call[t]
           link == IF c.pass = 1 THEN [i \in DOMAIN Stages[c.pipeline] |-> Outputs(t)[i].spv] ELSE c.link
<1>1. call' = [call EXCEPT ![t] = [c EXCEPT !.pc = "compile", !.i = 1, !.outputs = Outputs(t), !.link = link]]
    BY DEF EndPipelineParse, Outputs
<1> QED BY <1>1

LEMMA OutputsType ==
    ASSUME TypeInv, NEW t \in Thread
    PROVE  /\ Outputs(t) \in Seq(TextType)
           /\ Len(Outputs(t)) = Len(Closed(parser[t], numthreads[t]).parseOutputs)
           /\ DOMAIN Outputs(t) = DOMAIN Closed(parser[t], numthreads[t]).parseOutputs
<1> DEFINE q == Closed(parser[t], numthreads[t])
           decls == Declarations(Globals(t), permissions, q.bindless)
<1>1. q \in ParserType
    BY ClosedFacts DEF TypeInv
<1>2. decls \in SUBSET Declaration /\ FunctionsOf(t) \in SUBSET Function
    BY <1>1, DeclarationsType DEF ParserType, Globals, FunctionsOf
<1> HIDE DEF decls
<1>3. \A x \in TextType : WithGlobals(x, decls, FunctionsOf(t)) \in TextType
    BY <1>2 DEF WithGlobals, TextType
<1>4. q.parseOutputs \in Seq(TextType)
    BY <1>1 DEF ParserType
<1> HIDE DEF q
<1>5. \A k \in DOMAIN q.parseOutputs : q.parseOutputs[k] \in TextType
    BY <1>4
<1>6. Outputs(t) = [k \in DOMAIN q.parseOutputs |-> WithGlobals(q.parseOutputs[k], decls, FunctionsOf(t))]
    BY DEF Outputs, q, decls
<1> QED BY <1>3, <1>4, <1>5, <1>6, MapType DEF q

\* endPipelineParse has a text for each stage.
LEMMA OutputsCount ==
    ASSUME TypeInv, NEW t \in Thread, ShapeInv(t), call[t].pc = "end", NEW p \in Pipeline, call[t].pipeline = p
    PROVE  Len(Outputs(t)) >= Len(Stages[p]) /\ DOMAIN Stages[p] \subseteq DOMAIN Outputs(t)
<1> DEFINE q == Closed(parser[t], numthreads[t])
<1>1. /\ parser[t].isInShaderParse /\ call[t].i = Len(Stages[p])
      /\ call[t].i = 2 => parser[t].parseOutputs # <<>>
    BY DEF ShapeInv
<1>2. parser[t] \in ParserType /\ numthreads[t] \in Nat
    BY DEF TypeInv
<1>3. PICK x : q.parseOutputs = Append(parser[t].parseOutputs, x)
    <2>1. q.parseOutputs = Append(parser[t].parseOutputs,
              Text(parser[t].structure, parser[t].stage, parser[t].bindless, numthreads[t]))
        BY <1>1, <1>2, ClosedFacts
    <2> QED BY <2>1
<1>4. parser[t].parseOutputs \in Seq(TextType) /\ q.parseOutputs \in Seq(TextType)
    <2>1. q \in ParserType
        BY <1>2, ClosedFacts
    <2> HIDE DEF q
    <2> QED BY <1>2, <2>1 DEF ParserType
<1>5. Len(q.parseOutputs) >= Len(Stages[p])
    <2>1. Len(q.parseOutputs) = Len(parser[t].parseOutputs) + 1 /\ Len(parser[t].parseOutputs) \in Nat
          /\ (call[t].i = 2 => Len(parser[t].parseOutputs) # 0)
        BY <1>1, <1>3, <1>4
    <2>2. CASE Len(Stages[p]) = 1
        BY <2>1, <2>2
    <2>3. CASE Len(Stages[p]) = 2
        BY <1>1, <2>1, <2>3
    <2> QED BY <2>2, <2>3, StageCount
<1>6. DOMAIN Outputs(t) = 1 .. Len(q.parseOutputs) /\ Len(q.parseOutputs) \in Nat
    BY <1>4, OutputsType
<1>7. DOMAIN Stages[p] \subseteq 1 .. Len(q.parseOutputs)
    BY <1>5, <1>6, StageCount
<1> QED BY <1>5, <1>6, <1>7, OutputsType

LEMMA NoCallFacts ==
    /\ NoCall \in CallType /\ NoCall.pc = "idle" /\ NoCall.pass = 1 /\ NoCall.i = 1 /\ ~NoCall.dirty
    /\ NoCall.outputs = <<>> /\ NoCall.link = <<>> /\ NoCall.sources = <<>>
<1> DEFINE someone == CHOOSE p \in Pipeline : TRUE
<1>1. NoCall = [pc |-> "idle", pipeline |-> someone, pass |-> 1, i |-> 1, dirty |-> FALSE, fresh |-> {},
                outputs |-> <<>>, link |-> <<>>, sources |-> <<>>]
    BY DEF NoCall
<1> HIDE DEF someone
<1>2. NoCall.pipeline = someone
    BY <1>1
<1> QED BY <1>1, <1>2 DEF CallType

\* After a stage was compiled: the next stage, a second pass, or the end.
LEMMA NextPassFacts ==
    ASSUME NEW c \in CallType, NEW p \in Pipeline, c.pipeline = p, c.i \in DOMAIN Stages[p]
    PROVE  LET d == NextPass(c)
           IN  /\ d \in CallType /\ d.pipeline = p /\ d.dirty = c.dirty /\ d.fresh = c.fresh
               /\ d.link = c.link /\ d.sources = c.sources
               /\ d.i \in DOMAIN Stages[p]
               /\ \/ d.pc = c.pc /\ d.pass = c.pass /\ d.outputs = c.outputs
                  \/ d.pc = "stage" /\ d.pass = 2 /\ c.pass = 1 /\ d.i = 1 /\ d.outputs = <<>>
                  \/ d.pc = "collect" /\ d.pass = c.pass /\ d.outputs = c.outputs
<1>1. CASE Len(Stages[p]) = 2 /\ c.i = 1
    <2>1. 2 \in DOMAIN Stages[p]
        BY <1>1, StageCount
    <2>2. NextPass(c) = [c EXCEPT !.i = 2]
        BY <1>1 DEF NextPass
    <2> QED BY <2>1, <2>2 DEF CallType
<1>2. CASE ~(c.i < Len(Stages[p]))
    <2>1. NextPass(c) \in {[c EXCEPT !.pc = "stage", !.pass = 2, !.i = 1, !.outputs = <<>>],
                           [c EXCEPT !.pc = "collect"]}
          /\ (NextPass(c) # [c EXCEPT !.pc = "collect"] => c.pass = 1)
        BY <1>2 DEF NextPass
    <2>2. 1 \in DOMAIN Stages[p]
        BY StageCount
    <2>3. CASE c.pass = 1 /\ NextPass(c) = [c EXCEPT !.pc = "stage", !.pass = 2, !.i = 1, !.outputs = <<>>]
        <3>1. <<>> \in Seq(TextType)
            OBVIOUS
        <3> QED BY <2>2, <2>3, <3>1 DEF CallType
    <2>4. CASE NextPass(c) = [c EXCEPT !.pc = "collect"]
        BY <2>4 DEF CallType
    <2> QED BY <2>1, <2>3, <2>4
<1>3. c.i < Len(Stages[p]) => Len(Stages[p]) = 2 /\ c.i = 1
    <2>1. CASE c.i = 1
        <3>1. CASE Len(Stages[p]) = 1
            BY <2>1, <3>1
        <3> QED BY <2>1, <3>1, StageCount
    <2>2. CASE c.i = 2 /\ Len(Stages[p]) = 2
        BY <2>2
    <2> QED BY <2>1, <2>2, StageCount
<1> QED BY <1>1, <1>2, <1>3

LEMMA TypeStep ==
    ASSUME TypeInv, \A t \in Thread : ShapeInv(t), [Next]_vars
    PROVE  TypeInv'
<1>1. ASSUME NEW t \in Thread, NEW x \in Proxy, Declare(t, x) PROVE TypeInv'
    BY <1>1 DEF Declare, TypeInv
<1>2. ASSUME NEW t \in Thread, NEW p \in Pipeline, Begin(t, p) PROVE TypeInv'
    <2>1. [NoCall EXCEPT !.pc = "stage", !.pipeline = p, !.dirty = parser[t].isInShaderParse,
                         !.fresh = {f \in Function : built[f] = {}}] \in CallType
        BY <1>2, NoCallFacts DEF CallType, TypeInv, ParserType
    <2>2. [parser[t] EXCEPT !.bindless = FALSE] \in ParserType
        BY <1>2 DEF TypeInv, ParserType
    <2>3. Threads[p] \in Nat
        BY StageFacts
    <2>4. /\ begun' = [begun EXCEPT ![t] = @ + 1]
          /\ numthreads' = IF Stages[p] = <<"compute">> THEN [numthreads EXCEPT ![t] = Threads[p]] ELSE numthreads
          /\ parser' = [parser EXCEPT ![t] = [parser[t] EXCEPT !.bindless = FALSE]]
          /\ call' = [call EXCEPT ![t] = [NoCall EXCEPT !.pc = "stage", !.pipeline = p,
                                                        !.dirty = parser[t].isInShaderParse,
                                                        !.fresh = {f \in Function : built[f] = {}}]]
          /\ UNCHANGED <<declared, permissions, target, built, inLambda, hardcode, finished>>
        BY <1>2 DEF Begin, globalVars, TypeInv
    <2> QED BY <2>1, <2>2, <2>3, <2>4 DEF TypeInv
<1>3. ASSUME NEW t \in Thread, RunStage(t) PROVE TypeInv'
    <2>1. PICK p \in Pipeline : p = call[t].pipeline
        BY <1>3 DEF RunStage, ShapeInv
    <2>2. PICK i \in DOMAIN Stages[p] : i = call[t].i
        BY <1>3, <2>1 DEF RunStage, ShapeInv
    <2>3. Run(t, LambdaOf[p][i], TRUE) /\ inLambda' = [inLambda EXCEPT ![t] = FALSE]
          /\ call' = [call EXCEPT ![t] = IF i < Len(Stages[p]) THEN [call[t] EXCEPT !.i = @ + 1]
                                                              ELSE [call[t] EXCEPT !.pc = "end"]]
        BY <1>3, <2>1, <2>2 DEF RunStage, Lambda
    <2>4. call' \in [Thread -> CallType]
        <3>1. i \in {1, 2} /\ (i < Len(Stages[p]) => i + 1 \in {1, 2})
            <4>1. CASE i = 1
                BY <4>1
            <4>2. CASE i = 2 /\ Len(Stages[p]) = 2
                BY <4>2
            <4> QED BY <4>1, <4>2, StageCount
        <3>2. call[t] \in CallType
            BY DEF TypeInv
        <3>3. /\ i < Len(Stages[p]) => [call[t] EXCEPT !.i = @ + 1] \in CallType
              /\ [call[t] EXCEPT !.pc = "end"] \in CallType
            BY <2>2, <3>1, <3>2 DEF CallType
        <3> QED BY <2>3, <3>3 DEF TypeInv
    <2>5. /\ parser' \in [Thread -> ParserType] /\ built' \in [Function -> SUBSET Thread]
          /\ declared' \in [Proxy -> {"no", "global", "local"}]
          /\ permissions' \in [Proxy -> SUBSET {"read", "write"}] /\ target' \in [Proxy -> Int]
          /\ numthreads' = [numthreads EXCEPT ![t] = ThreadsAfter(parser[t], @)]
          /\ UNCHANGED <<hardcode, begun>>
        BY <2>1, <2>2, <2>3, RunFacts
    <2> QED BY <2>3, <2>4, <2>5 DEF TypeInv, ThreadsAfter
<1>4. ASSUME NEW t \in Thread, LambdaThrows(t) PROVE TypeInv'
    <2>1. PICK p \in Pipeline : p = call[t].pipeline
        BY <1>4 DEF LambdaThrows, ShapeInv
    <2>2. PICK i \in DOMAIN Stages[p] : i = call[t].i
        BY <1>4, <2>1 DEF LambdaThrows, ShapeInv
    <2>3. PICK l \in {Nothing, LambdaOf[p][i]} : Run(t, l, FALSE)
        BY <1>4, <2>1, <2>2 DEF LambdaThrows, Lambda
    <2>4. inLambda' = [inLambda EXCEPT ![t] = TRUE] /\ call' = [call EXCEPT ![t] = NoCall]
        BY <1>4 DEF LambdaThrows, Leave
    <2>5. /\ parser' \in [Thread -> ParserType] /\ built' \in [Function -> SUBSET Thread]
          /\ declared' \in [Proxy -> {"no", "global", "local"}]
          /\ permissions' \in [Proxy -> SUBSET {"read", "write"}] /\ target' \in [Proxy -> Int]
          /\ numthreads' = [numthreads EXCEPT ![t] = ThreadsAfter(parser[t], @)]
          /\ UNCHANGED <<hardcode, begun>>
        <3>1. CASE l = Nothing
            BY <2>1, <2>2, <2>3, <3>1, RunFacts
        <3>2. CASE l = LambdaOf[p][i]
            BY <2>1, <2>2, <2>3, <3>2, RunFacts
        <3> QED BY <3>1, <3>2
    <2> QED BY <2>4, <2>5, NoCallFacts DEF TypeInv, ThreadsAfter
<1>5. ASSUME NEW t \in Thread, RefuseReturn(t) PROVE TypeInv'
    <2>1. PICK p \in Pipeline : p = call[t].pipeline /\ call[t].i \in DOMAIN Stages[p]
        BY <1>5 DEF RefuseReturn, ShapeInv
    <2>2. Stage(call[t]) \in StageName
        BY <2>1, StageFacts DEF Stage, StageName
    <2>3. Opened(parser[t], Stage(call[t]), numthreads[t]) \in ParserType
        BY <2>2, OpenedFacts DEF TypeInv
    <2>4. /\ parser' = [parser EXCEPT ![t] = Opened(parser[t], Stage(call[t]), numthreads[t])]
          /\ numthreads' = [numthreads EXCEPT ![t] = ThreadsAfter(parser[t], @)]
          /\ call' = [call EXCEPT ![t] = NoCall]
          /\ UNCHANGED <<globalVars, inLambda, hardcode, begun>>
        BY <1>5 DEF RefuseReturn, Leave, TypeInv
    <2> QED BY <2>3, <2>4, NoCallFacts DEF TypeInv, ThreadsAfter, globalVars
<1>6. ASSUME NEW t \in Thread, EndPipelineParse(t) PROVE TypeInv'
    <2> DEFINE q == Closed(parser[t], numthreads[t])
    <2>1. PICK p \in Pipeline : p = call[t].pipeline
        BY <1>6 DEF EndPipelineParse, ShapeInv
    <2>2. PICK link : /\ parser' = [parser EXCEPT ![t] = [q EXCEPT !.parseOutputs = <<>>]]
                      /\ numthreads' = [numthreads EXCEPT ![t] = ThreadsAfter(parser[t], @)]
                      /\ permissions' = ResetPermissions(t)
                      /\ call' = [call EXCEPT ![t] = [call[t] EXCEPT !.pc = "compile", !.i = 1,
                                                       !.outputs = Outputs(t), !.link = link]]
                      /\ link = IF call[t].pass = 1 THEN [i \in DOMAIN Stages[p] |-> Outputs(t)[i].spv]
                                                    ELSE call[t].link
                      /\ UNCHANGED <<declared, target, built, inLambda, hardcode, begun>>
        <3>1. PICK link :
                 /\ call' = [call EXCEPT ![t] = [call[t] EXCEPT !.pc = "compile", !.i = 1,
                                                       !.outputs = Outputs(t), !.link = link]]
                 /\ link = IF call[t].pass = 1 THEN [i \in DOMAIN Stages[p] |-> Outputs(t)[i].spv]
                                               ELSE call[t].link
            BY <1>6, <2>1, EndedCall
        <3>2. /\ parser' = [parser EXCEPT ![t] = [q EXCEPT !.parseOutputs = <<>>]]
              /\ numthreads' = [numthreads EXCEPT ![t] = ThreadsAfter(parser[t], @)]
              /\ permissions' = ResetPermissions(t)
              /\ UNCHANGED <<declared, target, built, inLambda, hardcode, begun>>
            BY <1>6 DEF EndPipelineParse
        <3> QED BY <3>1, <3>2
    <2>3. q \in ParserType /\ [q EXCEPT !.parseOutputs = <<>>] \in ParserType
        <3>1. q \in ParserType
            BY ClosedFacts DEF TypeInv
        <3>2. ASSUME NEW x \in ParserType PROVE [x EXCEPT !.parseOutputs = <<>>] \in ParserType
            <4>1. <<>> \in Seq(TextType)
                OBVIOUS
            <4> QED BY <4>1 DEF ParserType
        <3> QED BY <3>1, <3>2
    <2>4. Outputs(t) \in Seq(TextType) /\ DOMAIN Stages[p] \subseteq DOMAIN Outputs(t)
        <3>1. call[t].pc = "end" /\ call[t].pipeline = p
            BY <1>6, <2>1 DEF EndPipelineParse
        <3> QED BY <3>1, OutputsType, OutputsCount
    <2>5. link \in Seq(SUBSET Function)
        <3>1. CASE call[t].pass = 1
            <4>1. ASSUME NEW i \in DOMAIN Stages[p] PROVE Outputs(t)[i].spv \in SUBSET Function
                <5>1. Outputs(t)[i] \in TextType
                    BY <2>4
                <5> QED BY <5>1 DEF TextType
            <4>2. DOMAIN Stages[p] = 1 .. Len(Stages[p]) /\ Len(Stages[p]) \in Nat
                BY StageCount
            <4>3. link \in [1 .. Len(Stages[p]) -> SUBSET Function]
                BY <2>2, <3>1, <4>1, <4>2
            <4> QED BY <4>2, <4>3, SeqDef
        <3>2. CASE call[t].pass # 1
            BY <2>2, <3>2 DEF TypeInv, CallType
        <3> QED BY <3>1, <3>2
    <2>6. [call[t] EXCEPT !.pc = "compile", !.i = 1, !.outputs = Outputs(t), !.link = link] \in CallType
        <3>1. call[t] \in CallType
            BY DEF TypeInv
        <3> QED BY <2>4, <2>5, <3>1 DEF CallType
    <2>7. permissions' \in [Proxy -> SUBSET {"read", "write"}]
        BY <2>2 DEF ResetPermissions, TypeInv
    <2> HIDE DEF q
    <2> QED BY <2>2, <2>3, <2>6, <2>7 DEF TypeInv, ThreadsAfter
<1>7. ASSUME NEW t \in Thread, CompileFails(t) PROVE TypeInv'
    BY <1>7, NoCallFacts DEF CompileFails, Leave, TypeInv, globalVars
<1>8. ASSUME NEW t \in Thread, CompileStage(t) PROVE TypeInv'
    <2> DEFINE c == call[t]
    <2>1. PICK p \in Pipeline : p = c.pipeline /\ c.i \in DOMAIN Stages[p] /\ Len(c.outputs) >= Len(Stages[p])
        BY <1>8 DEF CompileStage, ShapeInv
    <2>2. c \in CallType
        BY DEF TypeInv
    <2>3. Item(c) \in ItemType /\ StageText(c) \in TextType
        <3>1. c.i \in DOMAIN c.outputs
            <4>1. Len(c.outputs) \in Nat /\ DOMAIN c.outputs = 1 .. Len(c.outputs)
                BY <2>2 DEF CallType
            <4>2. CASE Len(Stages[p]) = 1
                BY <2>1, <4>1, <4>2, StageCount
            <4>3. CASE Len(Stages[p]) = 2
                BY <2>1, <4>1, <4>3, StageCount
            <4> QED BY <4>2, <4>3, StageCount
        <3>2. c.outputs \in Seq(TextType) /\ c.i \in {1, 2} /\ c.pass \in {1, 2}
            BY <2>2 DEF CallType
        <3> QED BY <2>1, <3>1, <3>2 DEF Item, ItemType, StageText
    <2>31. Library(c) \in SUBSET Function
        <3>1. DOMAIN c.link = DOMAIN Stages[p]
            BY <1>8, <2>1 DEF CompileStage, ShapeInv, Linking
        <3>2. c.link \in Seq(SUBSET Function)
            BY <2>2 DEF CallType
        <3> HIDE DEF c
        <3> QED BY <2>1, <3>1, <3>2 DEF Library
    <2>4. Appended(t, c) \in Seq(EntryType)
        <3>1. [item |-> Item(c), text |-> StageText(c), link |-> Library(c), dirty |-> c.dirty, number |-> begun[t]]
                  \in EntryType
            BY <2>2, <2>3, <2>31 DEF CallType, EntryType, TypeInv
        <3>2. hardcode \in Seq(EntryType)
            BY DEF TypeInv
        <3> HIDE DEF c
        <3> QED BY <3>1, <3>2 DEF Appended
    <2> DEFINE next == Append(c.sources, [item |-> Item(c), text |-> StageText(c), link |-> Library(c),
                                          spirv |-> Stored(c)])
               e == [c EXCEPT !.sources = next]
    <2>5. next \in Seq(SourceType)
        <3>1. [item |-> Item(c), text |-> StageText(c), link |-> Library(c), spirv |-> Stored(c)] \in SourceType
            BY <2>3, <2>31 DEF SourceType, Stored
        <3> QED BY <2>2, <3>1 DEF CallType
    <2>6. e \in CallType /\ e.pipeline = p /\ e.i = c.i
        <3> HIDE DEF next
        <3> QED BY <2>1, <2>2, <2>5 DEF CallType
    <2>7. NextPass(e) \in CallType
        BY <2>1, <2>6, NextPassFacts
    <2>8. /\ hardcode' = Appended(t, c) /\ call' = [call EXCEPT ![t] = NextPass(e)]
          /\ parser' = IF NextPass(e).pass # c.pass THEN [parser EXCEPT ![t].bindless = TRUE] ELSE parser
          /\ UNCHANGED <<globalVars, inLambda, numthreads, begun>>
        BY <1>8 DEF CompileStage
    <2>9. [parser[t] EXCEPT !.bindless = TRUE] \in ParserType
        BY DEF TypeInv, ParserType
    <2>10. parser' \in [Thread -> ParserType]
        BY <2>8, <2>9 DEF TypeInv
    <2> HIDE DEF e, c
    <2> QED BY <2>4, <2>7, <2>8, <2>10 DEF TypeInv, globalVars
<1>9. ASSUME NEW t \in Thread, Collect(t) PROVE TypeInv'
    BY <1>9, NoCallFacts DEF Collect, Leave, TypeInv, globalVars
<1>10. CASE UNCHANGED vars
    BY <1>10 DEF vars, globalVars, TypeInv
<1> QED BY <1>1, <1>2, <1>3, <1>4, <1>5, <1>6, <1>7, <1>8, <1>9, <1>10 DEF Next

-----------------------------------------------------------------------------
\* What no step undoes.
Grown ==
    /\ \A x \in Proxy : declared[x] # "no" => declared'[x] = declared[x]
    /\ \A f \in Function : built[f] \subseteq built'[f]
    /\ Len(hardcode) <= Len(hardcode') /\ \A j \in DOMAIN hardcode : hardcode'[j] = hardcode[j]

LEMMA Quiet ==
    ASSUME TypeInv, UNCHANGED <<declared, built, hardcode>>
    PROVE  Grown
BY DEF Grown, TypeInv

LEMMA RunGrows ==
    ASSUME TypeInv, GlobalInv, NEW t \in Thread, NEW p \in Pipeline, NEW i \in DOMAIN Stages[p],
           call[t].pipeline = p, call[t].i = i, call[t].pc = "stage", ShapeInv(t), SettledInv(t),
           NEW l \in {Nothing, LambdaOf[p][i]}, NEW done \in BOOLEAN, Run(t, l, done)
    PROVE  Grown /\ GlobalInv'
<1>1. l \in LambdaType(Function)
    BY StageFacts, NothingFacts
<1>2. \A x \in Named(l) : Kind[x] = "sampler" \/ declared[x] # "no"
    BY StageFacts, NothingFacts DEF SettledInv, Settled
<1>3. /\ \A f \in Function : built[f] \subseteq built'[f]
      /\ \A x \in Proxy : declared'[x] = IF x \in Named(l) /\ Kind[x] = "sampler" THEN "global" ELSE declared[x]
      /\ permissions' = Permitted(permissions, l) /\ UNCHANGED hardcode
    BY RunFacts
<1>4. Grown
    <2>1. \A x \in Proxy : declared[x] # "no" => declared'[x] = declared[x]
        <3>1. \A x \in Proxy : Kind[x] = "sampler" /\ declared[x] # "no" => declared[x] = "global"
            BY DEF GlobalInv, TypeInv
        <3> QED BY <1>3, <3>1
    <2>2. Len(hardcode) \in Nat
        BY DEF TypeInv
    <2> QED BY <1>3, <2>1, <2>2 DEF Grown
<1>5. ASSUME NEW x \in Proxy
      PROVE  (declared'[x] = "local" => Kind[x] = "uniform") /\ (declared'[x] = "no" => permissions'[x] = {})
    <2>1. CASE x \in Named(l)
        BY <1>2, <1>3, <2>1 DEF GlobalInv
    <2>2. CASE x \notin Named(l)
        <3>1. permissions'[x] = permissions[x] /\ declared'[x] = declared[x]
            BY <1>3, <2>2 DEF Permitted, Named, Accessed
        <3> QED BY <3>1 DEF GlobalInv
    <2> QED BY <2>1, <2>2
<1> QED BY <1>4, <1>5 DEF GlobalInv

LEMMA GrowthStep ==
    ASSUME TypeInv, GlobalInv, \A t \in Thread : ShapeInv(t) /\ SettledInv(t), [Next]_vars
    PROVE  Grown /\ GlobalInv'
<1>1. ASSUME NEW t \in Thread, NEW x \in Proxy, Declare(t, x) PROVE Grown /\ GlobalInv'
    <2>1. /\ declared[x] = "no"
          /\ declared' = [declared EXCEPT ![x] = IF Kind[x] = "uniform" /\ inLambda[t] THEN "local" ELSE "global"]
          /\ UNCHANGED <<permissions, built, hardcode>>
        BY <1>1 DEF Declare
    <2>2. Len(hardcode) \in Nat
        BY DEF TypeInv
    <2> QED BY <2>1, <2>2 DEF Grown, GlobalInv, TypeInv
<1>2. ASSUME NEW t \in Thread, NEW p \in Pipeline, Begin(t, p) PROVE Grown /\ GlobalInv'
    BY <1>2, Quiet DEF Begin, GlobalInv, globalVars
<1>3. ASSUME NEW t \in Thread, RunStage(t) PROVE Grown /\ GlobalInv'
    <2>1. PICK p \in Pipeline : p = call[t].pipeline /\ call[t].i \in DOMAIN Stages[p] /\ call[t].pc = "stage"
        BY <1>3 DEF RunStage, ShapeInv
    <2>2. Run(t, LambdaOf[p][call[t].i], TRUE)
        BY <1>3, <2>1 DEF RunStage, Lambda
    <2> QED BY <2>1, <2>2, RunGrows
<1>4. ASSUME NEW t \in Thread, LambdaThrows(t) PROVE Grown /\ GlobalInv'
    <2>1. PICK p \in Pipeline : p = call[t].pipeline /\ call[t].i \in DOMAIN Stages[p] /\ call[t].pc = "stage"
        BY <1>4 DEF LambdaThrows, ShapeInv
    <2>2. PICK l \in {Nothing, LambdaOf[p][call[t].i]} : Run(t, l, FALSE)
        BY <1>4, <2>1 DEF LambdaThrows, Lambda
    <2>3. CASE l = Nothing
        BY <2>1, <2>2, <2>3, RunGrows
    <2>4. CASE l = LambdaOf[p][call[t].i]
        BY <2>1, <2>2, <2>4, RunGrows
    <2> QED BY <2>3, <2>4
<1>5. ASSUME NEW t \in Thread, RefuseReturn(t) PROVE Grown /\ GlobalInv'
    BY <1>5, Quiet DEF RefuseReturn, GlobalInv, globalVars
<1>6. ASSUME NEW t \in Thread, EndPipelineParse(t) PROVE Grown /\ GlobalInv'
    BY <1>6, Quiet DEF EndPipelineParse, ResetPermissions, GlobalInv
<1>7. ASSUME NEW t \in Thread, CompileFails(t) PROVE Grown /\ GlobalInv'
    BY <1>7, Quiet DEF CompileFails, GlobalInv, globalVars
<1>8. ASSUME NEW t \in Thread, CompileStage(t) PROVE Grown /\ GlobalInv'
    <2>1. /\ hardcode' = Appended(t, call[t])
          /\ UNCHANGED globalVars
        BY <1>8 DEF CompileStage
    <2>2. Len(hardcode) <= Len(hardcode') /\ \A j \in DOMAIN hardcode : hardcode'[j] = hardcode[j]
        BY <2>1 DEF Appended, TypeInv
    <2> QED BY <2>1, <2>2 DEF Grown, GlobalInv, globalVars
<1>9. ASSUME NEW t \in Thread, Collect(t) PROVE Grown /\ GlobalInv'
    BY <1>9, Quiet DEF Collect, GlobalInv, globalVars
<1>10. CASE UNCHANGED vars
    BY <1>10, Quiet DEF vars, globalVars, GlobalInv
<1> QED BY <1>1, <1>2, <1>3, <1>4, <1>5, <1>6, <1>7, <1>8, <1>9, <1>10 DEF Next

\* A variable that is named before it is local stays what it was.
LEMMA SameNames ==
    ASSUME NEW p \in Pipeline, NEW i, NEW A, NEW B, NEW b,
           \A x \in Named(LambdaOf[p][i]) : x \in A <=> x \in B
    PROVE  /\ UsesOf(LambdaOf[p][i], b, A) = UsesOf(LambdaOf[p][i], b, B)
           /\ FinalUses(LambdaOf[p][i], b, A) = FinalUses(LambdaOf[p][i], b, B)
           /\ MeaningOf(p, i, b, A) = MeaningOf(p, i, b, B)
<1> DEFINE l == LambdaOf[p][i]
           spaceOf(x, S) == IF x \in S THEN "local"
                            ELSE IF x \in l.elements \/ Kind[x] = "sampler" THEN NamedIn(x, b)
                            ELSE "late"
           finalOf(x, S) == IF x \in S THEN "local" ELSE NamedIn(x, b)
<1>1. \A x \in Named(l) : spaceOf(x, A) = spaceOf(x, B) /\ finalOf(x, A) = finalOf(x, B)
    OBVIOUS
<1>2. /\ UsesOf(l, b, A) = {[proxy |-> x, write |-> x \in l.writes, accessed |-> x \in Accessed(l),
                             space |-> spaceOf(x, A)] : x \in Named(l)}
      /\ UsesOf(l, b, B) = {[proxy |-> x, write |-> x \in l.writes, accessed |-> x \in Accessed(l),
                             space |-> spaceOf(x, B)] : x \in Named(l)}
    BY DEF UsesOf
<1>3. /\ FinalUses(l, b, A) = {[proxy |-> x, write |-> x \in l.writes, accessed |-> x \in Accessed(l),
                                space |-> finalOf(x, A)] : x \in Named(l)}
      /\ FinalUses(l, b, B) = {[proxy |-> x, write |-> x \in l.writes, accessed |-> x \in Accessed(l),
                                space |-> finalOf(x, B)] : x \in Named(l)}
    BY DEF FinalUses
<1>4. Named(l) \ A = Named(l) \ B
    OBVIOUS
<1> HIDE DEF spaceOf, finalOf
<1>5. UsesOf(l, b, A) = UsesOf(l, b, B) /\ FinalUses(l, b, A) = FinalUses(l, b, B)
    BY <1>1, <1>2, <1>3
<1> QED BY <1>4, <1>5 DEF MeaningOf

LEMMA NamesStay ==
    ASSUME TypeInv, TypeInv', GlobalInv, GlobalInv', Grown, NEW p \in Pipeline, NEW i \in DOMAIN Stages[p],
           Settled(LambdaOf[p][i], declared)
    PROVE  /\ Settled(LambdaOf[p][i], declared')
           /\ \A b : MeaningOf(p, i, b, Locals') = MeaningOf(p, i, b, Locals)
           /\ \A s, b, n : Ran(s, p, i, b, n, Locals') <=> Ran(s, p, i, b, n, Locals)
           /\ \A x, b, n : Printed(x, p, i, b, n, Locals') <=> Printed(x, p, i, b, n, Locals)
<1>1. Named(LambdaOf[p][i]) \subseteq Proxy
    BY StageFacts, LambdaFacts
<1>2. \A x \in Named(LambdaOf[p][i]) : x \in Locals' <=> x \in Locals
    <2> TAKE x \in Named(LambdaOf[p][i])
    <2>1. CASE Kind[x] = "sampler"
        BY <1>1, <2>1 DEF GlobalInv, Locals
    <2>2. CASE declared[x] # "no"
        BY <1>1, <2>2 DEF Grown, Locals
    <2> QED BY <2>1, <2>2 DEF Settled
<1>3. Settled(LambdaOf[p][i], declared')
    BY <1>1 DEF Settled, Grown
<1>4. \A b : /\ UsesOf(LambdaOf[p][i], b, Locals') = UsesOf(LambdaOf[p][i], b, Locals)
             /\ FinalUses(LambdaOf[p][i], b, Locals') = FinalUses(LambdaOf[p][i], b, Locals)
             /\ MeaningOf(p, i, b, Locals') = MeaningOf(p, i, b, Locals)
    BY <1>2, SameNames
<1> QED BY <1>3, <1>4 DEF Ran, Printed

LEMMA ParserParts ==
    ASSUME TypeInv, NEW t \in Thread
    PROVE  /\ parser[t] \in ParserType /\ parser[t].structure \in Statements /\ parser[t].stage \in StageName
           /\ parser[t].bindless \in BOOLEAN /\ parser[t].isInShaderParse \in BOOLEAN
           /\ parser[t].parseOutputs \in Seq(TextType)
           /\ \A k \in DOMAIN parser[t].parseOutputs : parser[t].parseOutputs[k] \in TextType
<1>1. parser[t] \in ParserType
    BY DEF TypeInv
<1>2. parser[t].parseOutputs \in Seq(TextType)
    BY <1>1 DEF ParserType
<1>3. \A k \in DOMAIN parser[t].parseOutputs : parser[t].parseOutputs[k] \in TextType
    BY <1>2
<1> QED BY <1>1, <1>2, <1>3 DEF ParserType

LEMMA HardcodeParts ==
    ASSUME TypeInv, NEW j \in DOMAIN hardcode
    PROVE  /\ hardcode[j].item \in ItemType /\ hardcode[j].text \in TextType
           /\ hardcode[j].link \in SUBSET Function /\ hardcode[j].number \in Nat
<1>1. hardcode[j] \in EntryType
    BY DEF TypeInv
<1> QED BY <1>1 DEF EntryType

LEMMA MadeStays ==
    ASSUME TypeInv, TypeInv', GlobalInv, GlobalInv', Grown,
           NEW s, NEW p, NEW dirty, NEW n, Made(s, p, dirty, n, hardcode, declared, Locals)
    PROVE  Made(s, p, dirty, n, hardcode', declared', Locals')
<1> DEFINE i == s.item[2]
           b == (s.item[3] = 2)
<1>1. \A j \in DOMAIN hardcode : j \in DOMAIN hardcode' /\ hardcode'[j] = hardcode[j]
    BY DEF Grown, TypeInv
<1>2. /\ s.item[1] = p /\ p \in Pipeline /\ i \in DOMAIN Stages[p] /\ Settled(LambdaOf[p][i], declared)
      /\ ~Spoilt(dirty, s.item) => /\ Printed(s.text, p, i, b, n, Locals)
                                   /\ Bare(s.text) = MeaningOf(p, i, b, Locals)
    BY DEF Made
<1>3. /\ Settled(LambdaOf[p][i], declared')
      /\ ~Spoilt(dirty, s.item) => /\ Printed(s.text, p, i, b, n, Locals')
                                   /\ Bare(s.text) = MeaningOf(p, i, b, Locals')
    <2> HIDE DEF i, b
    <2> QED BY <1>2, NamesStay
<1>4. s.spirv => \E j \in DOMAIN hardcode' : /\ hardcode'[j].item = s.item /\ hardcode'[j].text = s.text
                                              /\ hardcode'[j].link = s.link
    BY <1>1 DEF Made
<1> QED BY <1>2, <1>3, <1>4 DEF Made

LEMMA SourcesStay ==
    ASSUME TypeInv, TypeInv', GlobalInv, GlobalInv', Grown, NEW t \in Thread, SourceInv(t),
           UNCHANGED begun[t], UNCHANGED call[t].sources,
           call[t].pc # "idle" => /\ UNCHANGED <<call[t].pipeline, call[t].dirty>> /\ call'[t].pc # "idle"
    PROVE  SourceInv(t)'
<1> SUFFICES ASSUME NEW k \in DOMAIN call[t].sources
             PROVE  /\ call'[t].pc # "idle"
                    /\ Made(call[t].sources[k], call'[t].pipeline, call'[t].dirty, begun'[t],
                            hardcode', declared', Locals')
    BY DEF SourceInv
<1>1. /\ call[t].pc # "idle"
      /\ Made(call[t].sources[k], call[t].pipeline, call[t].dirty, begun[t], hardcode, declared, Locals)
    BY DEF SourceInv
<1>2. Made(call[t].sources[k], call[t].pipeline, call[t].dirty, begun[t], hardcode', declared', Locals')
    BY <1>1, MadeStays
<1> QED BY <1>1, <1>2

LEMMA BackedGrows ==
    ASSUME NEW uses, NEW b, NEW G, NEW H, NEW R, NEW S, G \subseteq H, \A x \in G : R[x] \subseteq S[x],
           Backed(uses, b, G, R)
    PROVE  Backed(uses, b, H, S)
BY DEF Backed

LEMMA OutputsStay ==
    ASSUME Grown, NEW t \in Thread, OutputsInv(t), \A k \in DOMAIN call[t].outputs : call[t].outputs[k] \in TextType,
           UNCHANGED <<begun[t], call[t].outputs>>, call'[t].pc = "idle" => call[t].pc = "idle"
    PROVE  OutputsInv(t)'
<1>1. \A k \in DOMAIN call[t].outputs : call[t].outputs[k].calls \subseteq Function
    BY DEF TextType
<1> QED BY <1>1 DEF OutputsInv, Own, Grown

\* What another thread does leaves a thread's invariants alone.
LEMMA Frame ==
    ASSUME TypeInv, TypeInv', GlobalInv, GlobalInv', HardcodeInv, Grown, NEW t \in Thread, ThreadInv(t),
           UNCHANGED <<parser[t], call[t], numthreads[t], begun[t]>>,
           \A x \in Proxy : Owner[x] = t => UNCHANGED <<declared[x], permissions[x], target[x]>>
    PROVE  ThreadInv(t)'
<1> DEFINE c == call[t]
           p == c.pipeline
<1>1. Globals(t)' = Globals(t) /\ \A x \in Globals(t) : permissions'[x] = permissions[x]
    BY DEF Globals
<1>2. ASSUME c.pc # "idle"
      PROVE  /\ p \in Pipeline /\ User[p] = t
             /\ \A i \in DOMAIN Stages[p] : /\ LambdaOf[p][i] \in LambdaType(Function)
                                             /\ \A x \in Named(LambdaOf[p][i]) : x \in Proxy /\ Owner[x] = t
                                             /\ Settled(LambdaOf[p][i], declared)
    <2>1. p \in Pipeline /\ User[p] = t
        BY <1>2 DEF ThreadInv, ShapeInv
    <2> QED BY <1>2, <2>1, StageFacts, LambdaFacts DEF ThreadInv, SettledInv
<1>3. ShapeInv(t)'
    BY DEF ThreadInv, ShapeInv
<1>4. CleanInv(t)'
    <2>1. CASE c.pc = "idle"
        BY <2>1 DEF CleanInv
    <2>2. CASE c.pc # "idle"
        <3>1. \A i \in DOMAIN Stages[p] :
                 /\ \A b : MeaningOf(p, i, b, Locals') = MeaningOf(p, i, b, Locals)
                 /\ \A s, b, n : Ran(s, p, i, b, n, Locals') <=> Ran(s, p, i, b, n, Locals)
                 /\ \A x, b, n : Printed(x, p, i, b, n, Locals') <=> Printed(x, p, i, b, n, Locals)
            <4> TAKE i \in DOMAIN Stages[p]
            <4>1. p \in Pipeline /\ Settled(LambdaOf[p][i], declared)
                <5>1. p \in Pipeline
                    BY <1>2, <2>2
                <5>2. Settled(LambdaOf[p][i], declared)
                    BY <2>2 DEF ThreadInv, SettledInv
                <5> QED BY <5>1, <5>2
            <4> HIDE DEF p
            <4>2. /\ \A b : MeaningOf(p, i, b, Locals') = MeaningOf(p, i, b, Locals)
                  /\ \A s, b, n : Ran(s, p, i, b, n, Locals') <=> Ran(s, p, i, b, n, Locals)
                  /\ \A x, b, n : Printed(x, p, i, b, n, Locals') <=> Printed(x, p, i, b, n, Locals)
                BY <4>1, NamesStay
            <4> QED BY <4>2
        <3>2. 1 \in DOMAIN Stages[p] /\ c.i \in DOMAIN Stages[p]
            BY <1>2, <2>2, StageCount DEF ThreadInv, ShapeInv
        <3> QED BY <3>1, <3>2 DEF ThreadInv, CleanInv
    <2> QED BY <2>1, <2>2
<1>5. SourceInv(t)'
    BY SourcesStay DEF ThreadInv
<1>6. PermInv(t)'
    BY <1>1 DEF ThreadInv, PermInv
<1>7. NumInv(t)'
    BY DEF ThreadInv, NumInv
<1>8. TargetInv(t)'
    <2>1. CASE c.pc # "idle" /\ Stages[p] # <<"compute">>
        <3>1. 2 \in DOMAIN Stages[p]
            BY <1>2, <2>1, StageFacts
        <3>2. \A k \in DOMAIN LambdaOf[p][2].targets : Owner[LambdaOf[p][2].targets[k]] = t
            BY <1>2, <2>1, <3>1, TargetTypes
        <3>3. \A k \in DOMAIN LambdaOf[p][2].targets : LambdaOf[p][2].targets[k] \in Proxy
            BY <1>2, <2>1, <3>1, LambdaFacts
        <3> QED BY <3>2, <3>3 DEF ThreadInv, TargetInv
    <2>2. CASE ~(c.pc # "idle" /\ Stages[p] # <<"compute">>)
        BY <2>2 DEF TargetInv
    <2> QED BY <2>1, <2>2
<1>9. SettledInv(t)'
    <2>1. CASE c.pc = "idle"
        BY <2>1 DEF SettledInv
    <2>2. CASE c.pc # "idle"
        <3>1. \A i \in DOMAIN Stages[p] : \A k \in DOMAIN LambdaOf[p][i].targets : LambdaOf[p][i].targets[k] \in Proxy
            BY <1>2, <2>2, LambdaFacts
        <3> QED BY <1>2, <2>2, <3>1 DEF ThreadInv, SettledInv, Settled, Grown
    <2> QED BY <2>1, <2>2
<1>10. StandInv(t)'
    <2>1. \A uses, b : Backed(uses, b, Globals(t), permissions) => Backed(uses, b, Globals(t)', permissions')
        BY <1>1, BackedGrows
    <2>2. parser[t].structure.calls \subseteq Function
          /\ \A k \in DOMAIN parser[t].parseOutputs : parser[t].parseOutputs[k].calls \subseteq Function
        BY ParserParts DEF Statements, TextType
    <2> QED BY <2>1, <2>2 DEF ThreadInv, StandInv, Grown
<1>11. OutputsInv(t)'
    <2>1. \A k \in DOMAIN call[t].outputs : call[t].outputs[k] \in TextType
        BY DEF TypeInv, CallType
    <2> QED BY <2>1, OutputsStay DEF ThreadInv
<1> QED BY <1>3, <1>4, <1>5, <1>6, <1>7, <1>8, <1>9, <1>10, <1>11 DEF ThreadInv

-----------------------------------------------------------------------------
\* Texts: of the statements of a lambda that ran, of the globals in front.
LEMMA NamedDeclared == \A x \in Proxy : \A b \in BOOLEAN : NamedIn(x, b) = DeclaredIn(x, b)
BY KindAssumption DEF NamedIn, DeclaredIn

LEMMA TextFields ==
    ASSUME NEW s, NEW stage, NEW b, NEW n
    PROVE  LET x == Text(s, stage, b, n)
           IN  /\ x.from = s.from /\ x.complete = s.complete /\ x.lambda = s.lambda /\ x.stage = stage
               /\ x.bindless = b /\ x.threads = n /\ x.calls = s.calls /\ x.spv = s.spv
               /\ x.uses = {IF u.space = "late" THEN [u EXCEPT !.space = NamedIn(u.proxy, b)] ELSE u : u \in s.uses}
BY DEF Text

LEMMA UsesSettle ==
    ASSUME NEW l \in LambdaType(Function), NEW b \in BOOLEAN, NEW L
    PROVE  {IF u.space = "late" THEN [u EXCEPT !.space = NamedIn(u.proxy, b)] ELSE u : u \in UsesOf(l, b, L)}
               = FinalUses(l, b, L)
<1> DEFINE first(x) == [proxy |-> x, write |-> x \in l.writes, accessed |-> x \in Accessed(l),
                        space |-> IF x \in L THEN "local"
                                  ELSE IF x \in l.elements \/ Kind[x] = "sampler" THEN NamedIn(x, b)
                                  ELSE "late"]
           last(x) == [proxy |-> x, write |-> x \in l.writes, accessed |-> x \in Accessed(l),
                       space |-> IF x \in L THEN "local" ELSE NamedIn(x, b)]
           resolved(u) == IF u.space = "late" THEN [u EXCEPT !.space = NamedIn(u.proxy, b)] ELSE u
<1>1. \A x : NamedIn(x, b) # "late"
    BY DEF NamedIn
<1>2. ASSUME NEW x PROVE resolved(first(x)) = last(x)
    <2>1. CASE x \in L
        BY <2>1
    <2>2. CASE x \notin L /\ (x \in l.elements \/ Kind[x] = "sampler")
        BY <1>1, <2>2
    <2>3. CASE x \notin L /\ ~(x \in l.elements \/ Kind[x] = "sampler")
        BY <2>3
    <2> QED BY <2>1, <2>2, <2>3
<1>3. UsesOf(l, b, L) = {first(x) : x \in Named(l)}
    BY DEF UsesOf
<1>4. FinalUses(l, b, L) = {last(x) : x \in Named(l)}
    BY DEF FinalUses
<1>5. {resolved(u) : u \in UsesOf(l, b, L)} = FinalUses(l, b, L)
    <2> HIDE DEF first, last, resolved
    <2> QED BY <1>2, <1>3, <1>4
<1> QED BY <1>5

LEMMA TextPrinted ==
    ASSUME NEW p \in Pipeline, NEW i \in DOMAIN Stages[p], NEW b \in BOOLEAN, NEW n, NEW L, NEW s,
           Ran(s, p, i, b, n, L)
    PROVE  Printed(Text(s, Stages[p][i], b, ThreadsOf(p, b)), p, i, b, n, L)
<1>1. LambdaOf[p][i] \in LambdaType(Function)
    BY StageFacts
<1> DEFINE l == LambdaOf[p][i]
           x == Text(s, Stages[p][i], b, ThreadsOf(p, b))
<1>2. /\ s.from = n /\ s.complete /\ s.lambda = l /\ s.uses = UsesOf(l, b, L) /\ s.calls = l.calls
    BY DEF Ran
<1>3. /\ x.from = s.from /\ x.complete = s.complete /\ x.lambda = s.lambda /\ x.stage = Stages[p][i]
      /\ x.bindless = b /\ x.threads = ThreadsOf(p, b) /\ x.calls = s.calls
      /\ x.uses = {IF u.space = "late" THEN [u EXCEPT !.space = NamedIn(u.proxy, b)] ELSE u : u \in s.uses}
    BY TextFields
<1>4. x.uses = FinalUses(l, b, L)
    BY <1>1, <1>2, <1>3, UsesSettle
<1> QED BY <1>2, <1>3, <1>4 DEF Printed

LEMMA TextBacked ==
    ASSUME NEW s \in Statements, NEW stage, NEW b \in BOOLEAN, NEW n, NEW G, NEW R, Backed(s.uses, b, G, R)
    PROVE  Backed(Text(s, stage, b, n).uses, b, G, R)
<1> SUFFICES ASSUME NEW u \in s.uses,
                    NEW v, v = IF u.space = "late" THEN [u EXCEPT !.space = NamedIn(u.proxy, b)] ELSE u,
                    v.accessed, v.space # "local"
             PROVE  /\ v.proxy \in G /\ R[v.proxy] # {}
                    /\ v.write => "write" \in R[v.proxy]
                    /\ v.space \in {"late", NamedIn(v.proxy, b)}
    BY TextFields DEF Backed
<1>1. u \in Use
    BY DEF Statements
<1>2. v.proxy = u.proxy /\ v.write = u.write /\ v.accessed = u.accessed /\ u.space # "local"
      /\ v.space \in {u.space, NamedIn(u.proxy, b)}
    BY <1>1 DEF Use
<1> QED BY <1>2 DEF Backed

LEMMA RanBacked ==
    ASSUME NEW l, NEW b, NEW L, NEW G, NEW R,
           \A x \in Accessed(l) : x \notin L => x \in G,
           \A x \in l.reads : "read" \in R[x], \A x \in l.writes : "write" \in R[x]
    PROVE  Backed(UsesOf(l, b, L), b, G, R)
<1> DEFINE first(x) == [proxy |-> x, write |-> x \in l.writes, accessed |-> x \in Accessed(l),
                        space |-> IF x \in L THEN "local"
                                  ELSE IF x \in l.elements \/ Kind[x] = "sampler" THEN NamedIn(x, b)
                                  ELSE "late"]
<1>1. UsesOf(l, b, L) = {first(x) : x \in Named(l)}
    BY DEF UsesOf
<1>2. ASSUME NEW x, first(x).accessed, first(x).space # "local"
      PROVE  /\ x \in G /\ R[x] # {} /\ (x \in l.writes => "write" \in R[x])
    <2>1. x \in Accessed(l) /\ x \notin L
        BY <1>2
    <2> QED BY <2>1 DEF Accessed
<1>3. \A x : /\ first(x).proxy = x /\ (first(x).write => x \in l.writes)
             /\ first(x).space \in {"local", "late", NamedIn(x, b)}
    OBVIOUS
<1> HIDE DEF first
<1> SUFFICES ASSUME NEW u \in UsesOf(l, b, L), u.accessed, u.space # "local"
             PROVE  /\ u.proxy \in G /\ R[u.proxy] # {} /\ (u.write => "write" \in R[u.proxy])
                    /\ u.space \in {"late", NamedIn(u.proxy, b)}
    BY DEF Backed
<1>4. PICK x \in Named(l) : u = first(x)
    BY <1>1
<1> QED BY <1>2, <1>3, <1>4

LEMMA BackedDeclares ==
    ASSUME NEW x \in TextType, NEW b \in BOOLEAN, NEW G \in SUBSET Proxy, NEW R, NEW F,
           Backed(x.uses, b, G, R), NEW u \in x.uses, u.accessed, u.space # "local", u.space # "late"
    PROVE  Declares(WithGlobals(x, Declarations(G, R, b), F), u)
<1>1. /\ u.proxy \in G /\ R[u.proxy] # {} /\ (u.write => R[u.proxy] # {"read"})
      /\ u.space = DeclaredIn(u.proxy, b)
    BY NamedDeclared DEF Backed
<1> DEFINE d == [proxy |-> u.proxy, space |-> DeclaredIn(u.proxy, b), rw |-> R[u.proxy] # {"read"}]
<1>2. d \in Declarations(G, R, b)
    BY <1>1 DEF Declarations
<1>3. WithGlobals(x, Declarations(G, R, b), F).decls = Declarations(G, R, b)
    BY DEF WithGlobals, TextType
<1>4. /\ d.proxy = u.proxy /\ d.space = u.space
      /\ u.write /\ Kind[u.proxy] \in {"texture", "array"} => d.rw
    BY <1>1
<1> HIDE DEF d
<1> QED BY <1>2, <1>3, <1>4 DEF Declares

LEMMA PrintedMeaning ==
    ASSUME NEW p \in Pipeline, NEW i \in DOMAIN Stages[p], NEW b \in BOOLEAN, NEW n, NEW L,
           NEW G \in SUBSET Proxy, NEW R, NEW F, NEW x \in TextType, Printed(x, p, i, b, n, L),
           \A y \in Named(LambdaOf[p][i]) : y \in G <=> y \notin L,
           \A y \in G : R[y] = PermissionsOf(p, 2, y)
    PROVE  LET y == WithGlobals(x, Declarations(G, R, b), F)
           IN  Printed(y, p, i, b, n, L) /\ Bare(y) = MeaningOf(p, i, b, L)
<1> DEFINE l == LambdaOf[p][i]
           decls == Declarations(G, R, b)
           d(z) == [proxy |-> z, space |-> DeclaredIn(z, b), rw |-> PermissionsOf(p, 2, z) # {"read"}]
           w == WithGlobals(x, decls, F)
<1>1. /\ w.from = x.from /\ w.complete = x.complete /\ w.lambda = x.lambda /\ w.stage = x.stage
      /\ w.bindless = x.bindless /\ w.threads = x.threads /\ w.uses = x.uses /\ w.calls = x.calls
      /\ w.decls = decls
    BY DEF WithGlobals, TextType
<1>2. Printed(w, p, i, b, n, L)
    BY <1>1 DEF Printed
<1>3. {e \in decls : \E u \in w.uses : u.proxy = e.proxy}
          = {d(z) : z \in {y \in Named(l) \ L : PermissionsOf(p, 2, y) # {}}}
    <2>1. decls = {d(z) : z \in {y \in G : PermissionsOf(p, 2, y) # {}}}
        <3>1. \A z \in G : [proxy |-> z, space |-> DeclaredIn(z, b), rw |-> R[z] # {"read"}] = d(z)
            OBVIOUS
        <3>2. {y \in G : R[y] # {}} = {y \in G : PermissionsOf(p, 2, y) # {}}
            OBVIOUS
        <3> HIDE DEF d
        <3> QED BY <3>1, <3>2 DEF Declarations
    <2>2. ASSUME NEW z PROVE (\E u \in w.uses : u.proxy = z) <=> z \in Named(l)
        <3> DEFINE last(y) == [proxy |-> y, write |-> y \in l.writes, accessed |-> y \in Accessed(l),
                               space |-> IF y \in L THEN "local" ELSE NamedIn(y, b)]
        <3>1. w.uses = {last(y) : y \in Named(l)}
            BY <1>2 DEF Printed, FinalUses
        <3>2. \A y : last(y).proxy = y
            OBVIOUS
        <3> HIDE DEF last
        <3> QED BY <3>1, <3>2
    <2>3. \A z : d(z).proxy = z
        OBVIOUS
    <2> HIDE DEF d, decls, w
    <2> QED BY <2>1, <2>2, <2>3
<1>4. Bare(w) = MeaningOf(p, i, b, L)
    <2>1. /\ w.stage = Stages[p][i] /\ w.threads = ThreadsOf(p, b) /\ w.calls = l.calls
          /\ w.uses = FinalUses(l, b, L)
        BY <1>2 DEF Printed
    <2>2. Bare(w) = [stage |-> w.stage, threads |-> w.threads, uses |-> w.uses, calls |-> w.calls,
                            bodies |-> w.calls \cap {},
                            decls |-> {e \in w.decls : \E u \in w.uses : u.proxy = e.proxy}]
        BY DEF Bare, Meaning
    <2>3. {e \in w.decls : \E u \in w.uses : u.proxy = e.proxy}
              = {d(z) : z \in {y \in Named(l) \ L : PermissionsOf(p, 2, y) # {}}}
        BY <1>1, <1>3
    <2>4. MeaningOf(p, i, b, L) = [stage |-> Stages[p][i], threads |-> ThreadsOf(p, b),
                                   uses |-> FinalUses(l, b, L), calls |-> l.calls, bodies |-> {},
                                   decls |-> {d(z) : z \in {y \in Named(l) \ L : PermissionsOf(p, 2, y) # {}}}]
        BY DEF MeaningOf
    <2>5. w.calls \cap {} = {}
        OBVIOUS
    <2> HIDE DEF w, d
    <2> QED BY <2>1, <2>2, <2>3, <2>4, <2>5
<1> QED BY <1>2, <1>4

-----------------------------------------------------------------------------
\* What a thread's own steps leave, action by action.
\* Out of compile(), a thread keeps these and they are all it needs.
Idle(t) ==
    LET q == parser[t]
        c == call[t]
    IN  /\ c.pc = "idle" /\ c.outputs = <<>> /\ c.sources = <<>>
        /\ ~q.isInShaderParse => /\ q.structure = NoStatements /\ q.parseOutputs = <<>>
                                 /\ \A x \in Globals(t) : permissions[x] = {}
        /\ numthreads[t] = 1 \/ (q.isInShaderParse /\ q.stage = "compute")
        /\ q.structure.from <= begun[t] /\ \A k \in DOMAIN q.parseOutputs : q.parseOutputs[k].from <= begun[t]

LEMMA IdleEnough == \A t \in Thread : Idle(t) => ThreadInv(t)
<1> SUFFICES ASSUME NEW t \in Thread, Idle(t)
             PROVE  ThreadInv(t)
    OBVIOUS
<1>1. DOMAIN call[t].outputs = {} /\ DOMAIN call[t].sources = {}
    BY DEF Idle
<1>2. ShapeInv(t)
    BY DEF Idle, ShapeInv, Linking
<1>3. CleanInv(t) /\ TargetInv(t) /\ SettledInv(t)
    BY DEF Idle, CleanInv, TargetInv, SettledInv
<1>4. PermInv(t)
    BY DEF Idle, PermInv
<1>5. NumInv(t)
    BY DEF Idle, NumInv
<1>6. SourceInv(t) /\ OutputsInv(t)
    BY <1>1 DEF Idle, SourceInv, OutputsInv
<1>7. StandInv(t)
    BY DEF Idle, StandInv
<1> QED BY <1>2, <1>3, <1>4, <1>5, <1>6, <1>7 DEF ThreadInv

LEMMA IdleEnoughNext == (\A t \in Thread : Idle(t) => ThreadInv(t))'
BY IdleEnough, PTL

LEMMA IdleNow ==
    ASSUME TypeInv, NEW t \in Thread, ThreadInv(t), call[t].pc = "idle"
    PROVE  Idle(t)
<1>1. call[t].sources = <<>>
    <2>1. DOMAIN call[t].sources = {}
        BY DEF ThreadInv, SourceInv
    <2>2. call[t].sources \in Seq(SourceType)
        BY DEF TypeInv, CallType
    <2> QED BY <2>1, <2>2, EmptySeq
<1>2. call[t].outputs = <<>>
    BY DEF ThreadInv, OutputsInv
<1>3. ~parser[t].isInShaderParse => /\ parser[t].structure = NoStatements /\ parser[t].parseOutputs = <<>>
                                   /\ \A x \in Globals(t) : permissions[x] = {}
    BY DEF ThreadInv, ShapeInv, PermInv
<1>4. numthreads[t] = 1 \/ (parser[t].isInShaderParse /\ parser[t].stage = "compute")
    BY DEF ThreadInv, NumInv
<1>5. /\ parser[t].structure.from <= begun[t]
      /\ \A k \in DOMAIN parser[t].parseOutputs : parser[t].parseOutputs[k].from <= begun[t]
    BY DEF ThreadInv, StandInv
<1> QED BY <1>1, <1>2, <1>3, <1>4, <1>5 DEF Idle

LEMMA DeclareStep ==
    ASSUME TypeInv, GlobalInv, NEW t \in Thread, NEW x \in Proxy, ThreadInv(t), Declare(t, x)
    PROVE  ThreadInv(t)'
<1>1. Idle(t)
    BY IdleNow DEF Declare
<1>2. \A y \in Globals(t)' : y \in Globals(t) \/ permissions[y] = {}
    BY DEF Declare, Globals, GlobalInv, TypeInv
<1>3. Idle(t)'
    BY <1>1, <1>2 DEF Idle, Declare
<1> QED BY <1>3, IdleEnoughNext

\* Closing the open stage leaves texts of no later compilation.
LEMMA ClosedFrom ==
    ASSUME TypeInv, NEW t \in Thread, StandInv(t), NEW r, r = Closed(parser[t], numthreads[t])
    PROVE  r.structure.from <= begun[t] /\ \A k \in DOMAIN r.parseOutputs : r.parseOutputs[k].from <= begun[t]
<1> DEFINE q == parser[t]
           x == Text(q.structure, q.stage, q.bindless, numthreads[t])
<1>1. q.structure.from <= begun[t] /\ \A k \in DOMAIN q.parseOutputs : q.parseOutputs[k].from <= begun[t]
    BY DEF StandInv
<1>2. q \in ParserType /\ q.parseOutputs \in Seq(TextType) /\ numthreads[t] \in Nat /\ begun[t] \in Nat
    BY ParserParts DEF TypeInv
<1>3. CASE q.isInShaderParse
    <2>1. r.structure = NoStatements /\ r.parseOutputs = Append(q.parseOutputs, x)
        BY <1>2, <1>3, ClosedFacts
    <2>2. x.from = q.structure.from
        BY TextFields
    <2>3. NoStatements.from <= begun[t]
        BY <1>2 DEF NoStatements
    <2> HIDE DEF x
    <2> QED BY <1>1, <1>2, <2>1, <2>2, <2>3
<1>4. CASE ~q.isInShaderParse
    BY <1>1, <1>2, <1>4, ClosedFacts
<1> QED BY <1>3, <1>4

LEMMA RefuseReturnStep ==
    ASSUME TypeInv, NEW t \in Thread, ThreadInv(t), RefuseReturn(t)
    PROVE  ThreadInv(t)'
<1> DEFINE q == parser[t]
           r == Closed(q, numthreads[t])
<1>1. PICK p \in Pipeline : p = call[t].pipeline /\ call[t].i \in DOMAIN Stages[p] /\ call[t].pc = "stage"
    BY DEF RefuseReturn, ThreadInv, ShapeInv
<1>2. Stage(call[t]) = "compute" /\ Stages[p] = <<"compute">>
    BY <1>1, StageFacts DEF RefuseReturn, Refused, Stage
<1>3. /\ parser'[t] = Opened(q, "compute", numthreads[t]) /\ call'[t] = NoCall /\ begun'[t] = begun[t]
    BY <1>2 DEF RefuseReturn, Leave, TypeInv
<1>4. /\ parser'[t].isInShaderParse /\ parser'[t].stage = "compute"
      /\ parser'[t].structure = r.structure /\ parser'[t].parseOutputs = r.parseOutputs
    <2>1. q \in ParserType /\ numthreads[t] \in Nat /\ "compute" \in StageName
        BY DEF TypeInv, StageName
    <2> QED BY <1>3, <2>1, OpenedFacts
<1>5. r.structure.from <= begun[t] /\ \A k \in DOMAIN r.parseOutputs : r.parseOutputs[k].from <= begun[t]
    BY ClosedFrom DEF ThreadInv
<1>6. Idle(t)'
    BY <1>3, <1>4, <1>5, NoCallFacts DEF Idle
<1> QED BY <1>6, IdleEnoughNext

\* Outside a compute stage numthreads is one when a stage has been opened.
LEMMA OpenedThreads ==
    ASSUME TypeInv, NEW t \in Thread, NumInv(t), ShapeInv(t), call[t].pc = "stage",
           numthreads' = [numthreads EXCEPT ![t] = ThreadsAfter(parser[t], @)]
    PROVE  numthreads'[t] = 1 \/ Stage(call[t]) = "compute"
<1>1. PICK p \in Pipeline : p = call[t].pipeline /\ call[t].i \in DOMAIN Stages[p]
    BY DEF ShapeInv
<1>2. CASE Stages[p] = <<"compute">>
    BY <1>1, <1>2, StageFacts DEF Stage
<1>3. CASE Stages[p] # <<"compute">>
    <2>1. numthreads[t] = 1 \/ (parser[t].isInShaderParse /\ parser[t].stage = "compute")
        BY <1>1, <1>3 DEF NumInv
    <2>2. numthreads'[t] = ThreadsAfter(parser[t], numthreads[t])
        BY DEF TypeInv
    <2> QED BY <2>1, <2>2 DEF ThreadsAfter
<1> QED BY <1>2, <1>3

LEMMA LambdaThrowsStep ==
    ASSUME TypeInv, NEW t \in Thread, ThreadInv(t), LambdaThrows(t)
    PROVE  ThreadInv(t)'
<1> DEFINE q == parser[t]
           r == Closed(q, numthreads[t])
<1>0. PICK p \in Pipeline : p = call[t].pipeline /\ call[t].i \in DOMAIN Stages[p] /\ call[t].pc = "stage"
    BY DEF LambdaThrows, ThreadInv, ShapeInv
<1>1. PICK i \in DOMAIN Stages[p] : p = call[t].pipeline /\ call[t].i = i /\ call[t].pc = "stage"
    BY <1>0
<1>2. PICK l \in {Nothing, LambdaOf[p][i]} : Run(t, l, FALSE)
    BY <1>1 DEF LambdaThrows, Lambda
<1>3. /\ parser'[t].isInShaderParse /\ parser'[t].stage = Stages[p][i]
      /\ parser'[t].parseOutputs = r.parseOutputs /\ parser'[t].structure.from = begun[t]
      /\ numthreads' = [numthreads EXCEPT ![t] = ThreadsAfter(q, @)] /\ begun' = begun
    <2>1. ShapeInv(t)
        BY DEF ThreadInv
    <2>2. PICK done \in BOOLEAN : done = FALSE
        OBVIOUS
    <2>3. Run(t, l, done) /\ call[t].pipeline = p /\ call[t].i = i
        BY <1>1, <1>2, <2>2
    <2> QED BY <2>1, <2>3, RunFacts
<1>4. numthreads'[t] = 1 \/ parser'[t].stage = "compute"
    BY <1>1, <1>3, OpenedThreads DEF ThreadInv, Stage
<1>5. \A k \in DOMAIN r.parseOutputs : r.parseOutputs[k].from <= begun[t]
    BY ClosedFrom DEF ThreadInv
<1>6. begun[t] <= begun[t] /\ call'[t] = NoCall
    BY DEF TypeInv, LambdaThrows, Leave
<1>7. Idle(t)'
    BY <1>3, <1>4, <1>5, <1>6, NoCallFacts DEF Idle
<1> QED BY <1>7, IdleEnoughNext

\* Leaving the compiler, with the parser closed.
LEMMA LeaveStep ==
    ASSUME TypeInv, NEW t \in Thread, ThreadInv(t), call[t].pc \in {"compile", "collect"}, Leave(t),
           UNCHANGED <<declared, permissions, parser, numthreads, begun>>
    PROVE  ThreadInv(t)'
<1>1. /\ ~parser[t].isInShaderParse /\ parser[t].structure = NoStatements /\ parser[t].parseOutputs = <<>>
      /\ \A x \in Globals(t) : permissions[x] = {}
    BY DEF ThreadInv, ShapeInv, PermInv
<1>2. numthreads[t] = 1
    BY <1>1 DEF ThreadInv, NumInv
<1>3. /\ parser[t].structure.from <= begun[t]
      /\ \A k \in DOMAIN parser[t].parseOutputs : parser[t].parseOutputs[k].from <= begun[t]
    BY DEF ThreadInv, StandInv
<1>4. call'[t] = NoCall /\ Globals(t)' = Globals(t)
    BY DEF TypeInv, Leave, Globals
<1>5. Idle(t)'
    BY <1>1, <1>2, <1>3, <1>4, NoCallFacts DEF Idle
<1> QED BY <1>5, IdleEnoughNext

LEMMA BeginStep ==
    ASSUME TypeInv, GlobalInv, NEW t \in Thread, NEW p \in Pipeline, ThreadInv(t), Begin(t, p)
    PROVE  ThreadInv(t)'
<1> DEFINE q == parser[t]
           r == parser'[t]
           c == call'[t]
<1>1. Idle(t) /\ User[p] = t
    BY IdleNow DEF Begin
<1>2. /\ r.isInShaderParse = q.isInShaderParse /\ r.stage = q.stage /\ r.bindless = FALSE
      /\ r.parseOutputs = q.parseOutputs /\ r.structure = q.structure
    BY DEF Begin, TypeInv, ParserType
<1>3. /\ c.pc = "stage" /\ c.pipeline = p /\ c.pass = 1 /\ c.i = 1 /\ c.dirty = q.isInShaderParse
      /\ c.outputs = <<>> /\ c.sources = <<>>
    <2>1. c = [NoCall EXCEPT !.pc = "stage", !.pipeline = p, !.dirty = parser[t].isInShaderParse,
                             !.fresh = {f \in Function : built[f] = {}}]
        BY DEF Begin, TypeInv
    <2> QED BY <2>1, NoCallFacts DEF CallType
<1>4. begun'[t] = begun[t] + 1 /\ begun[t] \in Nat /\ UNCHANGED <<declared, permissions, target, built>>
    BY DEF Begin, TypeInv, globalVars
<1>5. 1 \in DOMAIN Stages[p]
    BY StageCount
<1> HIDE DEF q, r, c
<1>6. ShapeInv(t)'
    <2>1. (c.pass = 2) = FALSE
        BY <1>3
    <2>2. r.bindless = (c.pass = 2)
        BY <1>2, <2>1
    <2>3. ~r.isInShaderParse => r.structure = NoStatements /\ r.parseOutputs = <<>>
        BY <1>1, <1>2 DEF Idle, q
    <2>4. c.pc \notin {"idle", "end", "compile", "collect"} /\ c.i # 2
        BY <1>3
    <2> QED BY <1>1, <1>3, <1>5, <2>2, <2>3, <2>4 DEF ShapeInv, Linking, r, c
<1>7. CleanInv(t)'
    BY <1>1, <1>2, <1>3 DEF CleanInv, Clean, Idle, q, r, c
<1>8. SourceInv(t)'
    BY <1>3 DEF SourceInv, c
<1>9. PermInv(t)'
    BY <1>1, <1>2, <1>3, <1>4 DEF PermInv, Idle, Globals, q, r, c
<1>10. NumInv(t)'
    <2>1. CASE Stages[p] = <<"compute">>
        <3>1. numthreads'[t] = Threads[p]
            BY <2>1 DEF Begin, TypeInv
        <3> QED BY <1>3, <2>1, <3>1 DEF NumInv, ThreadsOf, c
    <2>2. CASE Stages[p] # <<"compute">>
        <3>1. numthreads' = numthreads
            BY <2>2 DEF Begin
        <3> QED BY <1>1, <1>2, <1>3, <2>2, <3>1 DEF NumInv, ThreadsOf, Clean, Idle, q, r, c
    <2> QED BY <2>1, <2>2
<1>11. TargetInv(t)'
    BY <1>3 DEF TargetInv, c
<1>12. SettledInv(t)'
    <2>1. ASSUME NEW i \in DOMAIN Stages[p]
          PROVE  /\ Settled(LambdaOf[p][i], declared)
                 /\ \A k \in DOMAIN LambdaOf[p][i].targets : declared[LambdaOf[p][i].targets[k]] # "no"
                 /\ ~(i < 1)
        <3>1. Settled(LambdaOf[p][i], declared)
            BY DEF Begin, Settled
        <3>2. \A k \in DOMAIN LambdaOf[p][i].targets : declared[LambdaOf[p][i].targets[k]] # "no"
            BY TargetTypes DEF Begin
        <3>3. ~(i < 1)
            BY StageCount
        <3> QED BY <3>1, <3>2, <3>3
    <2> QED BY <1>3, <1>4, <2>1 DEF SettledInv, c
<1>13. StandInv(t)'
    <2>1. /\ r.structure.from <= begun[t] /\ r.structure.from \in Nat
          /\ \A k \in DOMAIN r.parseOutputs : r.parseOutputs[k].from <= begun[t] /\ r.parseOutputs[k].from \in Nat
        BY <1>1, <1>2, ParserParts DEF Idle, Statements, TextType, q, r
    <2>2. /\ r.structure.from <= begun'[t] /\ r.structure.from # begun'[t]
          /\ \A k \in DOMAIN r.parseOutputs : r.parseOutputs[k].from <= begun'[t] /\ r.parseOutputs[k].from # begun'[t]
        BY <1>4, <2>1
    <2> QED BY <2>2 DEF StandInv, r
<1>14. OutputsInv(t)'
    BY <1>3 DEF OutputsInv, c
<1> QED BY <1>6, <1>7, <1>8, <1>9, <1>10, <1>11, <1>12, <1>13, <1>14 DEF ThreadInv

LEMMA PermissionsGrow ==
    ASSUME NEW p \in Pipeline, NEW x
    PROVE  /\ 1 \in DOMAIN Stages[p]
           /\ PermissionsOf(p, 1, x) = (IF x \in LambdaOf[p][1].reads THEN {"read"} ELSE {})
                                           \cup (IF x \in LambdaOf[p][1].writes THEN {"write"} ELSE {})
           /\ DOMAIN Stages[p] = {1} => PermissionsOf(p, 2, x) = PermissionsOf(p, 1, x)
           /\ DOMAIN Stages[p] = {1, 2} =>
                 PermissionsOf(p, 2, x) = PermissionsOf(p, 1, x)
                                              \cup (IF x \in LambdaOf[p][2].reads THEN {"read"} ELSE {})
                                              \cup (IF x \in LambdaOf[p][2].writes THEN {"write"} ELSE {})
           /\ x \notin Named(LambdaOf[p][1]) => PermissionsOf(p, 1, x) = {}
<1>1. 1 \in DOMAIN Stages[p] /\ (DOMAIN Stages[p] = {1} \/ DOMAIN Stages[p] = {1, 2})
    BY StageCount
<1>2. PermissionsOf(p, 1, x) = (IF x \in LambdaOf[p][1].reads THEN {"read"} ELSE {})
                                  \cup (IF x \in LambdaOf[p][1].writes THEN {"write"} ELSE {})
    BY <1>1 DEF PermissionsOf
<1>3. DOMAIN Stages[p] = {1} => PermissionsOf(p, 2, x) = PermissionsOf(p, 1, x)
    BY DEF PermissionsOf
<1>4. DOMAIN Stages[p] = {1, 2} =>
          PermissionsOf(p, 2, x) = PermissionsOf(p, 1, x)
                                       \cup (IF x \in LambdaOf[p][2].reads THEN {"read"} ELSE {})
                                       \cup (IF x \in LambdaOf[p][2].writes THEN {"write"} ELSE {})
    BY DEF PermissionsOf
<1>5. x \notin Named(LambdaOf[p][1]) => PermissionsOf(p, 1, x) = {}
    BY <1>2 DEF Named, Accessed
<1> QED BY <1>1, <1>2, <1>3, <1>4, <1>5

\* The texts the thread has of the compilation it is in can be declared.
LEMMA ClosedStands ==
    ASSUME TypeInv, NEW t \in Thread, StandInv(t), call[t].pc \in {"stage", "end"},
           NEW r, r = Closed(parser[t], numthreads[t]),
           NEW k \in DOMAIN r.parseOutputs, r.parseOutputs[k].from = begun[t]
    PROVE  /\ Backed(r.parseOutputs[k].uses, parser[t].bindless, Globals(t), permissions)
           /\ \A u \in r.parseOutputs[k].uses : u.space # "late"
           /\ \A f \in r.parseOutputs[k].calls : built[f] # {}
<1> DEFINE q == parser[t]
           x == Text(q.structure, q.stage, q.bindless, numthreads[t])
<1>1. /\ q \in ParserType /\ q.parseOutputs \in Seq(TextType) /\ q.structure \in Statements /\ q.stage \in StageName
      /\ q.bindless \in BOOLEAN /\ numthreads[t] \in Nat
    BY ParserParts DEF TypeInv
<1>2. CASE q.isInShaderParse
    <2>1. r.parseOutputs = Append(q.parseOutputs, x)
        BY <1>1, <1>2, ClosedFacts
    <2>2. CASE k \in DOMAIN q.parseOutputs
        <3>1. r.parseOutputs[k] = q.parseOutputs[k]
            <4> HIDE DEF x
            <4> QED BY <1>1, <2>1, <2>2
        <3> QED BY <2>2, <3>1 DEF StandInv
    <2>3. CASE k \notin DOMAIN q.parseOutputs
        <3>1. r.parseOutputs[k] = x
            <4> HIDE DEF x
            <4> QED BY <1>1, <2>1, <2>3
        <3>2. x.from = q.structure.from /\ x.calls = q.structure.calls
            BY TextFields
        <3>3. /\ Backed(q.structure.uses, q.bindless, Globals(t), permissions)
              /\ \A f \in q.structure.calls : built[f] # {}
            BY <3>1, <3>2 DEF StandInv
        <3>4. Backed(x.uses, q.bindless, Globals(t), permissions)
            BY <1>1, <3>3, TextBacked
        <3>5. \A u \in x.uses : u.space # "late"
            BY <1>1, TextFacts
        <3> HIDE DEF x
        <3> QED BY <3>1, <3>2, <3>3, <3>4, <3>5
    <2> QED BY <2>2, <2>3
<1>3. CASE ~q.isInShaderParse
    <2>1. r = q
        BY <1>1, <1>3, ClosedFacts
    <2> QED BY <2>1 DEF StandInv
<1> QED BY <1>2, <1>3

LEMMA RunStageStep ==
    ASSUME TypeInv, TypeInv', GlobalInv, GlobalInv', HardcodeInv, Grown, NEW t \in Thread, ThreadInv(t), RunStage(t)
    PROVE  ThreadInv(t)'
<1> DEFINE q == parser[t]
           r == parser'[t]
           c == call[t]
           d == call'[t]
           z == Closed(q, numthreads[t])
           b == (c.pass = 2)
<1>1. PICK p \in Pipeline : c.pipeline = p /\ User[p] = t /\ c.i \in DOMAIN Stages[p] /\ c.pc = "stage"
    BY DEF RunStage, ThreadInv, ShapeInv
<1>2. PICK i \in DOMAIN Stages[p] : c.i = i
    BY <1>1
<1> DEFINE l == LambdaOf[p][i]
<1>3. /\ r \in ParserType /\ r.isInShaderParse /\ r.stage = Stages[p][i] /\ r.bindless = q.bindless
      /\ r.parseOutputs = z.parseOutputs
      /\ r.structure.from = begun[t] /\ r.structure.lambda = l /\ r.structure.complete
      /\ r.structure.uses = UsesOf(l, q.bindless, Locals) /\ r.structure.calls = l.calls
      /\ numthreads' = [numthreads EXCEPT ![t] = ThreadsAfter(q, @)]
      /\ \A f \in Function : built[f] \subseteq built'[f]
      /\ \A f \in l.calls : built'[f] # {}
      /\ \A x \in Proxy : declared'[x] = IF x \in Named(l) /\ Kind[x] = "sampler" THEN "global" ELSE declared[x]
      /\ permissions' = Permitted(permissions, l) /\ target' = Located(target, l, 0) /\ begun' = begun
    <2>1. PICK done \in BOOLEAN : done = TRUE
        OBVIOUS
    <2>2. Run(t, l, done) /\ c.pipeline = p /\ c.i = i /\ ShapeInv(t)
        BY <1>1, <1>2, <2>1 DEF RunStage, Lambda, ThreadInv
    <2>3. r \in ParserType
        BY DEF TypeInv
    <2>4. /\ r.stage = Stages[p][i] /\ r.bindless = q.bindless
          /\ r.parseOutputs = z.parseOutputs
          /\ r.structure.from = begun[t] /\ r.structure.lambda = l
          /\ r.structure.uses = UsesOf(l, q.bindless, Locals) /\ r.structure.calls = l.calls
        BY <2>2, RunFacts
    <2>5. (\A f \in Function : built[f] \subseteq built'[f]) /\ \A f \in l.calls : built'[f] # {}
        <3>1. \A f \in Function : built[f] \subseteq built'[f]
            BY <2>2, RunFacts
        <3>2. \A f \in l.calls : built'[f] # {}
            <4>1. l \in {Nothing, LambdaOf[p][i]} /\ call[t].pipeline = p /\ call[t].i = i
                BY <2>2
            <4> HIDE DEF l
            <4> QED BY <2>2, <4>1, RunFacts
        <3> QED BY <3>1, <3>2
    <2>6. \A x \in Proxy : declared'[x] = IF x \in Named(l) /\ Kind[x] = "sampler" THEN "global" ELSE declared[x]
        BY <2>2, RunFacts
    <2>7. permissions' = Permitted(permissions, l) /\ target' = Located(target, l, 0) /\ begun' = begun
          /\ numthreads' = [numthreads EXCEPT ![t] = ThreadsAfter(q, @)]
        BY <2>2, RunFacts
    <2>8. r.structure.complete
        <3>1. r.structure.complete = done
            BY <2>2, RunFacts
        <3> QED BY <2>1, <3>1
    <2>9. r.isInShaderParse
        BY <2>2, RunFacts
    <2> QED BY <2>3, <2>4, <2>5, <2>6, <2>7, <2>8, <2>9
<1>4. /\ d.pipeline = p /\ d.pass = c.pass /\ d.dirty = c.dirty /\ d.outputs = c.outputs /\ d.sources = c.sources
      /\ d.link = c.link
      /\ \/ i = 1 /\ DOMAIN Stages[p] = {1, 2} /\ d.pc = "stage" /\ d.i = 2
         \/ i = 1 /\ DOMAIN Stages[p] = {1} /\ Len(Stages[p]) = 1 /\ d.pc = "end" /\ d.i = 1
         \/ i = 2 /\ DOMAIN Stages[p] = {1, 2} /\ Len(Stages[p]) = 2 /\ d.pc = "end" /\ d.i = 2
    <2>1. c \in CallType /\ call \in [Thread -> CallType]
        BY DEF TypeInv
    <2>2. call' = [call EXCEPT ![t] = IF i < Len(Stages[p]) THEN [c EXCEPT !.i = @ + 1] ELSE [c EXCEPT !.pc = "end"]]
        BY <1>1, <1>2 DEF RunStage
    <2> HIDE DEF c
    <2>3. CASE i = 1 /\ Len(Stages[p]) = 1 /\ DOMAIN Stages[p] = {1}
        <3>1. d = [c EXCEPT !.pc = "end"]
            BY <2>1, <2>2, <2>3
        <3> QED BY <1>1, <1>2, <2>1, <2>3, <3>1 DEF CallType
    <2>4. CASE i = 1 /\ Len(Stages[p]) = 2 /\ DOMAIN Stages[p] = {1, 2}
        <3>1. d = [c EXCEPT !.i = @ + 1]
            BY <2>1, <2>2, <2>4
        <3> QED BY <1>1, <1>2, <2>1, <2>4, <3>1 DEF CallType
    <2>5. CASE i = 2 /\ Len(Stages[p]) = 2 /\ DOMAIN Stages[p] = {1, 2}
        <3>1. d = [c EXCEPT !.pc = "end"]
            BY <2>1, <2>2, <2>5
        <3> QED BY <1>1, <1>2, <2>1, <2>5, <3>1 DEF CallType
    <2> QED BY <2>3, <2>4, <2>5, StageCount
<1>5. /\ l \in LambdaType(Function) /\ l.calls \subseteq Function
      /\ \A x \in Named(l) : x \in Proxy /\ Owner[x] = t
      /\ Settled(l, declared)
    <2>1. l \in LambdaType(Function) /\ Settled(l, declared)
        BY <1>1, StageFacts DEF ThreadInv, SettledInv
    <2> QED BY <1>1, <2>1, LambdaFacts, StageFacts
<1>6. \A x \in Named(l) : declared'[x] # "no"
    BY <1>3, <1>5 DEF Settled
<1>7. \A j \in DOMAIN Stages[p] : j < i => \A x \in Named(LambdaOf[p][j]) : declared[x] # "no"
    BY <1>1, <1>2 DEF ThreadInv, SettledInv
<1>8. q.bindless = b /\ r.bindless = (d.pass = 2)
    BY <1>1, <1>3, <1>4 DEF ThreadInv, ShapeInv
<1>9. /\ Globals(t) \subseteq Globals(t)'
      /\ \A x \in Globals(t)' : x \in Globals(t) \/ (declared[x] = "no" /\ permissions[x] = {})
    <2>1. \A x \in Proxy : declared[x] = declared'[x] \/ declared[x] = "no"
        BY DEF Grown
    <2> QED BY <2>1 DEF Globals, GlobalInv
<1>10. \A x \in Proxy : permissions'[x] = permissions[x] \cup (IF x \in l.reads THEN {"read"} ELSE {})
                                                         \cup (IF x \in l.writes THEN {"write"} ELSE {})
    BY <1>3 DEF Permitted
<1> HIDE DEF r, d, q, z, b, c, l
<1>11. ShapeInv(t)'
    <2>1. i = 2 => r.parseOutputs # <<>>
        <3>1. ASSUME i = 2 PROVE q.isInShaderParse
            BY <1>1, <1>2, <3>1 DEF ThreadInv, ShapeInv, q, c
        <3>2. q.parseOutputs \in Seq(TextType) /\ q \in ParserType /\ numthreads[t] \in Nat
            BY ParserParts DEF TypeInv, q
        <3>3. \A x : Append(q.parseOutputs, x) # <<>>
            BY <3>2
        <3> QED BY <1>3, <3>1, <3>2, <3>3, ClosedFacts DEF z
    <2>2. Linking(d) => DOMAIN d.link = DOMAIN Stages[p]
        <3>1. Linking(d) => Linking(c)
            BY <1>1, <1>4 DEF Linking
        <3> QED BY <1>1, <1>4, <3>1 DEF ThreadInv, ShapeInv, c
    <2> QED BY <1>1, <1>3, <1>4, <1>8, <2>1, <2>2 DEF ShapeInv, r, d
<1>12. CleanInv(t)'
    <2>1. SUFFICES ASSUME Clean(c) PROVE CleanInv(t)'
        BY <1>4 DEF CleanInv, Clean, d
    <2>2. Ran(r.structure, p, i, b, begun[t], Locals')
        <3>1. Ran(r.structure, p, i, b, begun[t], Locals)
            BY <1>3, <1>8 DEF Ran, l
        <3> QED BY <1>5, <3>1, NamesStay DEF l
    <2>3. i = 1 => z.parseOutputs = <<>>
        <3>1. ASSUME i = 1 PROVE ~q.isInShaderParse /\ q.parseOutputs = <<>>
            BY <1>1, <1>2, <2>1, <3>1 DEF ThreadInv, CleanInv, q, c
        <3>2. q \in ParserType /\ numthreads[t] \in Nat
            BY DEF TypeInv, q
        <3> QED BY <3>1, <3>2, ClosedFacts DEF z
    <2>4. ASSUME i = 2
          PROVE  Len(z.parseOutputs) = 1 /\ Printed(z.parseOutputs[1], p, 1, b, begun[t], Locals')
        <3>1. /\ q.parseOutputs = <<>> /\ q.stage = Stages[p][1] /\ Ran(q.structure, p, 1, b, begun[t], Locals)
              /\ q.isInShaderParse
            BY <1>1, <1>2, <2>1, <2>4 DEF ThreadInv, CleanInv, ShapeInv, q, c, b
        <3>2. q \in ParserType /\ numthreads[t] \in Nat /\ q.structure \in Statements /\ q.stage \in StageName
              /\ q.bindless \in BOOLEAN
            BY ParserParts DEF TypeInv, q
        <3>3. numthreads[t] = ThreadsOf(p, b)
            BY <1>1, <2>1 DEF ThreadInv, NumInv, c, b
        <3> DEFINE x == Text(q.structure, q.stage, q.bindless, numthreads[t])
        <3>4. z.parseOutputs = Append(<<>>, x)
            BY <3>1, <3>2, ClosedFacts DEF z
        <3>5. 1 \in DOMAIN Stages[p] /\ Settled(LambdaOf[p][1], declared)
            BY <1>1, StageCount DEF ThreadInv, SettledInv, c
        <3>6. Printed(x, p, 1, b, begun[t], Locals)
            BY <1>8, <3>1, <3>2, <3>3, <3>5, TextPrinted
        <3>7. Printed(x, p, 1, b, begun[t], Locals')
            BY <3>5, <3>6, NamesStay
        <3> HIDE DEF x
        <3> QED BY <3>4, <3>7
    <2>5. b = (d.pass = 2) /\ begun' = begun
        BY <1>3, <1>4 DEF b
    <2>6. i = 1 => CleanInv(t)'
        BY <1>3, <1>4, <2>2, <2>3, <2>5 DEF CleanInv, r, d
    <2>7. i = 2 => CleanInv(t)'
        BY <1>3, <1>4, <2>2, <2>4, <2>5 DEF CleanInv, r, d
    <2> QED BY <1>4, <2>6, <2>7
<1>13. SourceInv(t)'
    <2>1. begun'[t] = begun[t] /\ d.pc # "idle"
        BY <1>3, <1>4
    <2> QED BY <1>1, <1>4, <2>1, SourcesStay DEF ThreadInv, c, d
<1>14. PermInv(t)'
    <2>1. /\ d.pc \in {"stage", "end"} /\ r.isInShaderParse
        BY <1>3, <1>4
    <2>2. ASSUME Clean(c), NEW x \in Globals(t)'
          PROVE  permissions'[x] = PermissionsOf(p, i, x)
        <3>1. x \in Proxy
            BY DEF Globals
        <3>2. CASE i = 1
            <4>1. ~q.isInShaderParse
                BY <1>1, <1>2, <2>2, <3>2 DEF ThreadInv, CleanInv, q, c
            <4>2. permissions[x] = {}
                BY <1>1, <1>9, <4>1 DEF ThreadInv, PermInv, q, c
            <4>3. permissions'[x] = (IF x \in LambdaOf[p][1].reads THEN {"read"} ELSE {})
                                       \cup (IF x \in LambdaOf[p][1].writes THEN {"write"} ELSE {})
                BY <1>10, <3>1, <3>2, <4>2 DEF l
            <4> QED BY <3>2, <4>3, PermissionsGrow
        <3>3. CASE i = 2
            <4>1. DOMAIN Stages[p] = {1, 2}
                BY <1>4, <3>3
            <4>2. permissions[x] = PermissionsOf(p, 1, x)
                <5>1. CASE x \in Globals(t)
                    BY <1>1, <1>2, <2>2, <3>3, <5>1 DEF ThreadInv, PermInv, c
                <5>2. CASE declared[x] = "no" /\ permissions[x] = {}
                    <6>1. x \notin Named(LambdaOf[p][1])
                        BY <1>7, <3>3, <4>1, <5>2
                    <6> QED BY <5>2, <6>1, PermissionsGrow
                <5> QED BY <1>9, <5>1, <5>2
            <4> QED BY <1>10, <3>1, <3>3, <4>1, <4>2, PermissionsGrow DEF l
        <3> QED BY <1>4, <3>2, <3>3
    <2>3. ASSUME NEW x, DOMAIN Stages[p] = {1}
          PROVE  PermissionsOf(p, 2, x) = PermissionsOf(p, 1, x)
        BY <2>3, PermissionsGrow
    <2>4. Clean(d) => Clean(c)
        BY <1>4 DEF Clean
    <2> QED BY <1>4, <2>1, <2>2, <2>3, <2>4 DEF PermInv, r, d
<1>15. NumInv(t)'
    <2>1. numthreads'[t] = 1 \/ r.stage = "compute"
        BY <1>1, <1>2, <1>3, OpenedThreads DEF ThreadInv, Stage, q, c
    <2>2. ASSUME Clean(c) PROVE numthreads'[t] = ThreadsOf(p, b)
        <3>1. numthreads[t] = ThreadsOf(p, b)
            BY <1>1, <2>2 DEF ThreadInv, NumInv, c, b
        <3>2. ~(q.isInShaderParse /\ q.stage = "compute")
            <4>1. i = 1 => ~q.isInShaderParse
                BY <1>1, <1>2, <2>2 DEF ThreadInv, CleanInv, q, c
            <4>2. i = 2 => q.stage = Stages[p][1]
                BY <1>1, <1>2, <2>2 DEF ThreadInv, CleanInv, q, c
            <4>3. i = 2 => Stages[p][1] = "vertex"
                BY <1>4, StageFacts
            <4> QED BY <1>4, <4>1, <4>2, <4>3
        <3>3. numthreads'[t] = ThreadsAfter(q, numthreads[t])
            BY <1>3 DEF TypeInv
        <3> QED BY <3>1, <3>2, <3>3 DEF ThreadsAfter
    <2>3. b = (d.pass = 2) /\ (Clean(d) => Clean(c))
        BY <1>4 DEF Clean, b
    <2> QED BY <1>3, <1>4, <2>1, <2>2, <2>3 DEF NumInv, r, d
<1>16. TargetInv(t)'
    <2>1. SUFFICES ASSUME Stages[p] # <<"compute">>, d.pc = "end", NEW k \in DOMAIN LambdaOf[p][2].targets
                   PROVE  target'[LambdaOf[p][2].targets[k]] = k - 1
        BY <1>4 DEF TargetInv, d
    <2>2. i = 2
        BY <1>4, <2>1, StageFacts
    <2> DEFINE drawn == l.targets
    <2>3. k \in DOMAIN drawn /\ drawn[k] \in Proxy /\ k \in Nat /\ \A j \in DOMAIN drawn : drawn[j] = drawn[k] => j = k
        BY <1>5, <2>1, <2>2, LambdaFacts, TargetTypes DEF l
    <2>4. (CHOOSE j \in DOMAIN drawn : drawn[j] = drawn[k]) = k
        BY <2>3
    <2>5. target'[drawn[k]] = 0 + (CHOOSE j \in DOMAIN drawn : drawn[j] = drawn[k]) - 1
        BY <1>3, <2>3 DEF Located
    <2> QED BY <2>2, <2>3, <2>4, <2>5 DEF l
<1>17. SettledInv(t)'
    <2>1. ASSUME NEW j \in DOMAIN Stages[p]
          PROVE  /\ Settled(LambdaOf[p][j], declared')
                 /\ \A k \in DOMAIN LambdaOf[p][j].targets : declared'[LambdaOf[p][j].targets[k]] # "no"
                 /\ d.pc = "end" \/ (d.pc = "stage" /\ j < d.i) \/ d.pass = 2 =>
                        \A x \in Named(LambdaOf[p][j]) : declared'[x] # "no"
        <3>1. LambdaOf[p][j] \in LambdaType(Function) /\ Named(LambdaOf[p][j]) \subseteq Proxy
              /\ \A k \in DOMAIN LambdaOf[p][j].targets : LambdaOf[p][j].targets[k] \in Proxy
            BY StageFacts, LambdaFacts
        <3>2. /\ Settled(LambdaOf[p][j], declared)
              /\ \A k \in DOMAIN LambdaOf[p][j].targets : declared[LambdaOf[p][j].targets[k]] # "no"
              /\ c.pass = 2 => \A x \in Named(LambdaOf[p][j]) : declared[x] # "no"
            BY <1>1 DEF ThreadInv, SettledInv, c
        <3>3. Settled(LambdaOf[p][j], declared')
              /\ \A k \in DOMAIN LambdaOf[p][j].targets : declared'[LambdaOf[p][j].targets[k]] # "no"
            BY <3>1, <3>2 DEF Settled, Grown
        <3>4. ASSUME d.pc = "end" \/ (d.pc = "stage" /\ j < d.i) \/ d.pass = 2, NEW x \in Named(LambdaOf[p][j])
              PROVE  declared'[x] # "no"
            <4>1. CASE d.pass = 2
                BY <1>4, <3>1, <3>2, <4>1 DEF Grown
            <4>2. CASE j = i
                BY <1>6, <4>2 DEF l
            <4>3. CASE j < i
                BY <1>7, <3>1, <4>3 DEF Grown
            <4>4. d.pass = 2 \/ j = i \/ j < i
                BY <1>4, <3>4
            <4> QED BY <4>1, <4>2, <4>3, <4>4
        <3> QED BY <3>3, <3>4
    <2> QED BY <1>4, <2>1 DEF SettledInv, d
<1>18. StandInv(t)'
    <2>1. \A x \in Globals(t) : permissions[x] \subseteq permissions'[x]
        BY <1>10 DEF Globals
    <2>2. \A uses : Backed(uses, b, Globals(t), permissions) => Backed(uses, b, Globals(t)', permissions')
        BY <1>9, <2>1, BackedGrows
    <2>3. ASSUME NEW k \in DOMAIN r.parseOutputs, r.parseOutputs[k].from = begun[t]
          PROVE  /\ Backed(r.parseOutputs[k].uses, b, Globals(t)', permissions')
                 /\ \A u \in r.parseOutputs[k].uses : u.space # "late"
                 /\ \A f \in r.parseOutputs[k].calls : built'[f] # {}
        <3>1. /\ Backed(r.parseOutputs[k].uses, b, Globals(t), permissions)
              /\ \A u \in r.parseOutputs[k].uses : u.space # "late"
              /\ \A f \in r.parseOutputs[k].calls : built[f] # {}
            <4>1. k \in DOMAIN z.parseOutputs /\ z.parseOutputs[k].from = begun[t] /\ z = Closed(parser[t], numthreads[t])
                BY <1>3, <2>3 DEF z, q
            <4>2. StandInv(t) /\ call[t].pc \in {"stage", "end"}
                BY <1>1 DEF ThreadInv, c
            <4>3. /\ Backed(z.parseOutputs[k].uses, parser[t].bindless, Globals(t), permissions)
                  /\ \A u \in z.parseOutputs[k].uses : u.space # "late"
                  /\ \A f \in z.parseOutputs[k].calls : built[f] # {}
                BY <4>1, <4>2, ClosedStands
            <4> QED BY <1>3, <1>8, <4>3 DEF q
        <3>2. r.parseOutputs[k].calls \subseteq Function
            <4>1. r.parseOutputs \in Seq(TextType)
                BY <1>3 DEF ParserType
            <4>2. r.parseOutputs[k] \in TextType
                BY <4>1, <2>3
            <4> QED BY <4>2 DEF TextType
        <3> QED BY <1>3, <2>2, <3>1, <3>2
    <2>4. Backed(r.structure.uses, b, Globals(t)', permissions')
        <3>1. \A x \in Accessed(l) : x \notin Locals => x \in Globals(t)'
            <4> SUFFICES ASSUME NEW x \in Accessed(l), x \notin Locals PROVE x \in Globals(t)'
                OBVIOUS
            <4>1. x \in Named(l) /\ x \in Proxy /\ Owner[x] = t
                BY <1>5, LambdaFacts
            <4>2. declared[x] # "local"
                BY <4>1 DEF Locals
            <4>3. declared'[x] # "local" /\ declared'[x] # "no"
                BY <1>3, <1>6, <4>1, <4>2
            <4>4. declared'[x] = "global"
                BY <4>1, <4>3 DEF TypeInv
            <4> QED BY <4>1, <4>4 DEF Globals
        <3>2. /\ \A x \in l.reads : "read" \in permissions'[x]
              /\ \A x \in l.writes : "write" \in permissions'[x]
            BY <1>5, <1>10, LambdaFacts
        <3>3. Backed(UsesOf(l, b, Locals), b, Globals(t)', permissions')
            BY <3>1, <3>2, RanBacked
        <3> QED BY <1>3, <1>8, <3>3
    <2>5. /\ r.structure.from <= begun'[t]
          /\ \A k \in DOMAIN r.parseOutputs : r.parseOutputs[k].from <= begun'[t]
        <3>1. begun[t] \in Nat
            BY DEF TypeInv
        <3>2. \A k \in DOMAIN z.parseOutputs : z.parseOutputs[k].from <= begun[t]
            BY ClosedFrom DEF ThreadInv, z, q
        <3> QED BY <1>3, <3>1, <3>2
    <2>6. r.bindless = b /\ begun' = begun /\ \A f \in r.structure.calls : built'[f] # {}
        BY <1>3, <1>8
    <2> QED BY <2>3, <2>4, <2>5, <2>6 DEF StandInv, r
<1>19. OutputsInv(t)'
    <2>1. \A k \in DOMAIN c.outputs : c.outputs[k] \in TextType
        BY DEF TypeInv, CallType, c
    <2> QED BY <1>3, <1>4, <2>1, OutputsStay DEF ThreadInv, c, d
<1> QED BY <1>11, <1>12, <1>13, <1>14, <1>15, <1>16, <1>17, <1>18, <1>19 DEF ThreadInv

\* The text of each stage of an unspoilt compilation is its own.
LEMMA ClosedPrinted ==
    ASSUME TypeInv, NEW t \in Thread, ThreadInv(t), NEW p \in Pipeline, call[t].pipeline = p,
           call[t].pc = "end", Clean(call[t]), NEW j \in DOMAIN Stages[p]
    PROVE  LET z == Closed(parser[t], numthreads[t])
           IN  j \in DOMAIN z.parseOutputs /\ Printed(z.parseOutputs[j], p, j, call[t].pass = 2, begun[t], Locals)
<1> DEFINE q == parser[t]
           z == Closed(q, numthreads[t])
           b == (call[t].pass = 2)
           i == call[t].i
           x == Text(q.structure, q.stage, q.bindless, numthreads[t])
<1>1. /\ q \in ParserType /\ q.parseOutputs \in Seq(TextType) /\ q.structure \in Statements
      /\ q.stage \in StageName /\ q.bindless \in BOOLEAN /\ numthreads[t] \in Nat
    BY ParserParts DEF TypeInv
<1>2. q.isInShaderParse /\ i \in DOMAIN Stages[p] /\ i = Len(Stages[p]) /\ q.bindless = b
    BY DEF ThreadInv, ShapeInv
<1>3. /\ q.stage = Stages[p][i] /\ Ran(q.structure, p, i, b, begun[t], Locals)
      /\ i = 1 => q.parseOutputs = <<>>
      /\ i = 2 => Len(q.parseOutputs) = 1 /\ Printed(q.parseOutputs[1], p, 1, b, begun[t], Locals)
    BY DEF ThreadInv, CleanInv
<1>4. numthreads[t] = ThreadsOf(p, b)
    BY DEF ThreadInv, NumInv
<1>5. z.parseOutputs = Append(q.parseOutputs, x)
    BY <1>1, <1>2, ClosedFacts
<1> HIDE DEF z, q, b, i, x
<1>6. Printed(x, p, i, b, begun[t], Locals)
    BY <1>1, <1>2, <1>3, <1>4, TextPrinted DEF x
<1>7. CASE Len(Stages[p]) = 1 /\ DOMAIN Stages[p] = {1}
    <2>1. q.parseOutputs = <<>> /\ j = 1 /\ i = 1
        BY <1>2, <1>3, <1>7
    <2>2. 1 \in DOMAIN z.parseOutputs /\ z.parseOutputs[1] = x
        BY <1>5, <2>1
    <2> QED BY <1>6, <2>1, <2>2 DEF z, q, b
<1>8. CASE Len(Stages[p]) = 2 /\ DOMAIN Stages[p] = {1, 2}
    <2>1. Len(q.parseOutputs) = 1 /\ Printed(q.parseOutputs[1], p, 1, b, begun[t], Locals) /\ j \in {1, 2} /\ i = 2
        BY <1>2, <1>3, <1>8
    <2>2. /\ 1 \in DOMAIN z.parseOutputs /\ z.parseOutputs[1] = q.parseOutputs[1]
          /\ 2 \in DOMAIN z.parseOutputs /\ z.parseOutputs[2] = x
        BY <1>1, <1>5, <2>1
    <2> QED BY <1>6, <2>1, <2>2 DEF z, q, b
<1> QED BY <1>7, <1>8, StageCount

LEMMA EndPipelineParseStep ==
    ASSUME TypeInv, TypeInv', GlobalInv, GlobalInv', HardcodeInv, Grown, NEW t \in Thread, ThreadInv(t),
           EndPipelineParse(t)
    PROVE  ThreadInv(t)'
<1> DEFINE q == parser[t]
           r == parser'[t]
           c == call[t]
           d == call'[t]
           z == Closed(q, numthreads[t])
           b == (c.pass = 2)
<1>1. PICK p \in Pipeline : /\ c.pipeline = p /\ User[p] = t /\ c.i \in DOMAIN Stages[p] /\ c.pc = "end"
                            /\ q.isInShaderParse /\ q.bindless = b
    BY DEF EndPipelineParse, ThreadInv, ShapeInv
<1>2. /\ ~r.isInShaderParse /\ r.structure = NoStatements /\ r.parseOutputs = <<>> /\ r.stage = q.stage
    <2>1. z \in ParserType /\ ~z.isInShaderParse /\ z.structure = NoStatements /\ z.stage = q.stage
        <3>1. q \in ParserType /\ numthreads[t] \in Nat
            BY DEF TypeInv
        <3> QED BY <1>1, <3>1, ClosedFacts
    <2>2. r = [z EXCEPT !.parseOutputs = <<>>]
        BY DEF EndPipelineParse, TypeInv
    <2> HIDE DEF z, r, q
    <2> QED BY <2>1, <2>2 DEF ParserType
<1>3. /\ d.pipeline = p /\ d.pass = c.pass /\ d.dirty = c.dirty /\ d.sources = c.sources
      /\ d.pc = "compile" /\ d.i = 1 /\ d.outputs = Outputs(t)
      /\ DOMAIN d.link = DOMAIN Stages[p]
    <2>0. PICK link : /\ call' = [call EXCEPT ![t] = [c EXCEPT !.pc = "compile", !.i = 1,
                                                               !.outputs = Outputs(t), !.link = link]]
                      /\ link = IF c.pass = 1 THEN [i \in DOMAIN Stages[p] |-> Outputs(t)[i].spv] ELSE c.link
        BY <1>1, EndedCall
    <2>1. /\ call' = [call EXCEPT ![t] = [c EXCEPT !.pc = "compile", !.i = 1, !.outputs = Outputs(t), !.link = link]]
          /\ DOMAIN link = DOMAIN Stages[p]
        <3>1. CASE c.pass = 1
            BY <2>0, <3>1
        <3>2. CASE c.pass # 1
            <4>1. DOMAIN c.link = DOMAIN Stages[p]
                BY <1>1, <3>2 DEF ThreadInv, ShapeInv, Linking, TypeInv, CallType
            <4> QED BY <2>0, <3>2, <4>1
        <3> QED BY <2>0, <3>1, <3>2
    <2>2. c \in CallType /\ d = [c EXCEPT !.pc = "compile", !.i = 1, !.outputs = Outputs(t), !.link = link]
        BY <2>1 DEF TypeInv
    <2> HIDE DEF c, d
    <2> QED BY <1>1, <2>1, <2>2 DEF CallType
<1>4. /\ UNCHANGED <<declared, target, built, begun>>
      /\ permissions' = [x \in Proxy |-> IF x \in Globals(t) THEN {} ELSE permissions[x]]
      /\ numthreads'[t] = ThreadsAfter(q, numthreads[t])
    BY DEF EndPipelineParse, ResetPermissions, TypeInv
<1>5. \A k \in DOMAIN Outputs(t) :
          /\ k \in DOMAIN z.parseOutputs /\ z.parseOutputs[k] \in TextType
          /\ Outputs(t)[k] = WithGlobals(z.parseOutputs[k], Declarations(Globals(t), permissions, b), FunctionsOf(t))
    <2>1. q \in ParserType /\ numthreads[t] \in Nat
        BY DEF TypeInv
    <2>2. z \in ParserType /\ z.bindless = b
        BY <1>1, <2>1, ClosedFacts
    <2>3. z.parseOutputs \in Seq(TextType)
        <3> HIDE DEF z
        <3> QED BY <2>2 DEF ParserType
    <2>4. DOMAIN Outputs(t) = DOMAIN z.parseOutputs
        BY OutputsType
    <2>5. \A k \in DOMAIN z.parseOutputs :
              Outputs(t)[k] = WithGlobals(z.parseOutputs[k], Declarations(Globals(t), permissions, z.bindless),
                                          FunctionsOf(t))
        BY DEF Outputs
    <2> HIDE DEF z, q
    <2> QED BY <2>2, <2>3, <2>4, <2>5
<1>6. \A j \in DOMAIN Stages[p] : \A x \in Named(LambdaOf[p][j]) : x \in Globals(t) <=> x \notin Locals
    <2> SUFFICES ASSUME NEW j \in DOMAIN Stages[p], NEW x \in Named(LambdaOf[p][j])
                 PROVE  x \in Globals(t) <=> x \notin Locals
        OBVIOUS
    <2>1. x \in Proxy /\ Owner[x] = t
        BY <1>1, StageFacts, LambdaFacts
    <2>2. declared[x] # "no"
        BY <1>1 DEF ThreadInv, SettledInv
    <2>3. declared[x] \in {"global", "local"}
        BY <2>1, <2>2 DEF TypeInv
    <2> QED BY <2>1, <2>3 DEF Globals, Locals
<1>7. Globals(t)' = Globals(t) /\ Locals' = Locals
    BY <1>4 DEF Globals, Locals
<1>8. 1 \in DOMAIN Stages[p]
    BY StageCount
<1> HIDE DEF r, d, q, z, b, c
<1>9. ShapeInv(t)'
    <2>1. Len(Outputs(t)) >= Len(Stages[p])
        BY <1>1, OutputsCount DEF ThreadInv, c
    <2> QED BY <1>1, <1>2, <1>3, <1>8, <2>1 DEF ShapeInv, r, d
<1>10. CleanInv(t)'
    <2>1. SUFFICES ASSUME Clean(c), NEW j \in DOMAIN Stages[p]
                   PROVE  /\ Printed(Outputs(t)[j], p, j, b, begun[t], Locals)
                          /\ Bare(Outputs(t)[j]) = MeaningOf(p, j, b, Locals)
        BY <1>3, <1>4, <1>7 DEF CleanInv, Clean, d, b
    <2>2. Printed(z.parseOutputs[j], p, j, b, begun[t], Locals)
        BY <1>1, <2>1, ClosedPrinted DEF z, b, c, q
    <2>3. j \in DOMAIN Outputs(t)
        BY <1>1, OutputsCount DEF ThreadInv, c
    <2>4. \A y \in Globals(t) : permissions[y] = PermissionsOf(p, 2, y)
        BY <1>1, <2>1 DEF ThreadInv, PermInv, c
    <2>5. Globals(t) \in SUBSET Proxy /\ b \in BOOLEAN /\ z.parseOutputs[j] \in TextType
          /\ \A y \in Named(LambdaOf[p][j]) : y \in Globals(t) <=> y \notin Locals
        BY <1>5, <1>6, <2>3 DEF Globals, b
    <2>6. LET y == WithGlobals(z.parseOutputs[j], Declarations(Globals(t), permissions, b), FunctionsOf(t))
          IN  Printed(y, p, j, b, begun[t], Locals) /\ Bare(y) = MeaningOf(p, j, b, Locals)
        <3>1. PICK x, G, L, R, F, n : /\ x = z.parseOutputs[j] /\ G = Globals(t) /\ L = Locals
                                      /\ R = permissions /\ F = FunctionsOf(t) /\ n = begun[t]
            OBVIOUS
        <3>2. PICK B \in BOOLEAN : B = b
            BY <2>5
        <3>3. /\ G \in SUBSET Proxy /\ x \in TextType /\ Printed(x, p, j, B, n, L)
              /\ \A y \in Named(LambdaOf[p][j]) : y \in G <=> y \notin L
              /\ \A y \in G : R[y] = PermissionsOf(p, 2, y)
            BY <2>2, <2>4, <2>5, <3>1, <3>2
        <3>4. LET y == WithGlobals(x, Declarations(G, R, B), F)
              IN  Printed(y, p, j, B, n, L) /\ Bare(y) = MeaningOf(p, j, B, L)
            BY <3>3, PrintedMeaning
        <3> QED BY <3>1, <3>2, <3>4
    <2> QED BY <1>5, <2>3, <2>6
<1>11. SourceInv(t)'
    <2>1. begun'[t] = begun[t] /\ d.pc # "idle"
        BY <1>3, <1>4
    <2> QED BY <1>1, <1>3, <2>1, SourcesStay DEF ThreadInv, c, d
<1>12. PermInv(t)'
    <2>1. \A x \in Globals(t)' : permissions'[x] = {}
        BY <1>4, <1>7 DEF Globals
    <2> QED BY <1>3, <2>1 DEF PermInv, d
<1>13. NumInv(t)'
    <2>1. numthreads'[t] = 1
        <3>1. numthreads[t] = 1 \/ q.stage = "compute"
            BY <1>1 DEF ThreadInv, NumInv, q, c
        <3> QED BY <1>1, <1>4, <3>1 DEF ThreadsAfter
    <2> QED BY <1>3, <2>1 DEF NumInv, d
<1>14. TargetInv(t)'
    BY <1>1, <1>3, <1>4 DEF ThreadInv, TargetInv, c, d
<1>15. SettledInv(t)'
    BY <1>1, <1>3, <1>4 DEF ThreadInv, SettledInv, c, d
<1>16. StandInv(t)'
    <2>1. r.structure.from <= begun'[t]
        <3>1. begun[t] \in Nat
            BY DEF TypeInv
        <3> QED BY <1>2, <1>4, <3>1 DEF NoStatements
    <2> QED BY <1>2, <1>3, <2>1 DEF StandInv, r, d
<1>17. OutputsInv(t)'
    <2>1. SUFFICES ASSUME NEW k \in DOMAIN Outputs(t), Outputs(t)[k].from = begun[t]
                   PROVE  /\ \A u \in Outputs(t)[k].uses : u.accessed /\ u.space # "local" => Declares(Outputs(t)[k], u)
                          /\ \A f \in Outputs(t)[k].calls : built[f] \subseteq {t} => f \in Outputs(t)[k].functions
        BY <1>3, <1>4 DEF OutputsInv, Own, d
    <2> DEFINE x == z.parseOutputs[k]
    <2>2. /\ k \in DOMAIN z.parseOutputs /\ x \in TextType
          /\ Outputs(t)[k] = WithGlobals(x, Declarations(Globals(t), permissions, b), FunctionsOf(t))
        BY <1>5
    <2>3. /\ Outputs(t)[k].from = x.from /\ Outputs(t)[k].uses = x.uses /\ Outputs(t)[k].calls = x.calls
          /\ Outputs(t)[k].functions = FunctionsOf(t) /\ x.calls \subseteq Function
        <3> HIDE DEF x
        <3> QED BY <2>2 DEF WithGlobals, TextType
    <2>4. /\ Backed(x.uses, b, Globals(t), permissions)
          /\ \A u \in x.uses : u.space # "late"
          /\ \A f \in x.calls : built[f] # {}
        <3>1. z = Closed(parser[t], numthreads[t]) /\ StandInv(t) /\ call[t].pc \in {"stage", "end"}
              /\ parser[t].bindless = b
            BY <1>1 DEF ThreadInv, z, q, c
        <3>2. k \in DOMAIN z.parseOutputs /\ z.parseOutputs[k].from = begun[t]
            BY <2>1, <2>2, <2>3
        <3>3. /\ Backed(z.parseOutputs[k].uses, parser[t].bindless, Globals(t), permissions)
              /\ \A u \in z.parseOutputs[k].uses : u.space # "late"
              /\ \A f \in z.parseOutputs[k].calls : built[f] # {}
            BY <3>1, <3>2, ClosedStands
        <3> QED BY <3>1, <3>3
    <2> HIDE DEF x
    <2>5. ASSUME NEW u \in x.uses, u.accessed, u.space # "local"
          PROVE  Declares(Outputs(t)[k], u)
        <3>1. Globals(t) \in SUBSET Proxy /\ b \in BOOLEAN /\ u.space # "late"
            BY <2>4 DEF Globals, b
        <3> QED BY <2>2, <2>4, <2>5, <3>1, BackedDeclares
    <2>6. ASSUME NEW f \in x.calls, built[f] \subseteq {t}
          PROVE  f \in FunctionsOf(t)
        BY <2>3, <2>4, <2>6 DEF FunctionsOf
    <2> QED BY <2>3, <2>5, <2>6
<1> QED BY <1>9, <1>10, <1>11, <1>12, <1>13, <1>14, <1>15, <1>16, <1>17 DEF ThreadInv

\* What CompileStage appends, to the hardcode files and to its own sources.
LEMMA CompiledFacts ==
    ASSUME TypeInv, NEW t \in Thread, ThreadInv(t), CompileStage(t),
           NEW p \in Pipeline, call[t].pipeline = p
    PROVE  LET c == call[t]
               e == [item |-> Item(c), text |-> StageText(c), link |-> Library(c), dirty |-> c.dirty,
                     number |-> begun[t]]
           IN  /\ c.pc = "compile" /\ c.i \in DOMAIN Stages[p] /\ c.pass \in {1, 2}
               /\ hardcode' = (IF Stored(c) THEN Append(hardcode, e) ELSE hardcode) /\ hardcode \in Seq(EntryType)
               /\ Item(c) = <<p, c.i, c.pass>>
               /\ Settled(LambdaOf[p][c.i], declared)
               /\ ~Spoilt(c.dirty, Item(c)) =>
                     /\ Printed(StageText(c), p, c.i, c.pass = 2, begun[t], Locals)
                     /\ Bare(StageText(c)) = MeaningOf(p, c.i, c.pass = 2, Locals)
<1> DEFINE c == call[t]
<1>1. c.pc = "compile" /\ c.i \in DOMAIN Stages[p]
    BY DEF CompileStage, ThreadInv, ShapeInv
<1>2. c.pass \in {1, 2}
    BY DEF TypeInv, CallType
<1>3. Item(c) = <<p, c.i, c.pass>>
    BY DEF Item
<1>4. Settled(LambdaOf[p][c.i], declared)
    BY <1>1 DEF ThreadInv, SettledInv
<1>5. ~Spoilt(c.dirty, Item(c)) => Clean(c)
    BY <1>2, <1>3 DEF Spoilt, Clean
<1>6. Clean(c) => /\ Printed(c.outputs[c.i], p, c.i, c.pass = 2, begun[t], Locals)
                  /\ Bare(c.outputs[c.i]) = MeaningOf(p, c.i, c.pass = 2, Locals)
    BY <1>1 DEF ThreadInv, CleanInv
<1> QED BY <1>1, <1>2, <1>3, <1>4, <1>5, <1>6 DEF StageText, CompileStage, Appended, TypeInv

LEMMA CompileStageStep ==
    ASSUME TypeInv, TypeInv', GlobalInv, GlobalInv', HardcodeInv, Grown, NEW t \in Thread, ThreadInv(t),
           CompileStage(t)
    PROVE  ThreadInv(t)'
<1> DEFINE q == parser[t]
           r == parser'[t]
           c == call[t]
           d == call'[t]
           s == [item |-> Item(c), text |-> StageText(c), link |-> Library(c), spirv |-> Stored(c)]
           b == (c.pass = 2)
<1>1. PICK p \in Pipeline : /\ c.pipeline = p /\ User[p] = t /\ c.i \in DOMAIN Stages[p] /\ c.pc = "compile"
                            /\ ~q.isInShaderParse /\ q.structure = NoStatements /\ q.parseOutputs = <<>>
                            /\ Len(c.outputs) >= Len(Stages[p])
    BY DEF CompileStage, ThreadInv, ShapeInv
<1>2. c \in CallType /\ c.sources \in Seq(SourceType)
    BY DEF TypeInv, CallType
<1>3. /\ d.pipeline = p /\ d.dirty = c.dirty /\ d.link = c.link /\ d.sources = Append(c.sources, s)
      /\ d.i \in DOMAIN Stages[p]
      /\ \/ d.pc = "compile" /\ d.pass = c.pass /\ d.outputs = c.outputs
         \/ d.pc = "stage" /\ d.pass = 2 /\ c.pass = 1 /\ d.i = 1 /\ d.outputs = <<>>
         \/ d.pc = "collect" /\ d.pass = c.pass /\ d.outputs = c.outputs
    <2> DEFINE e == [c EXCEPT !.sources = Append(@, s)]
    <2>1. d = NextPass(e)
        BY DEF CompileStage, TypeInv
    <2>2. s \in SourceType
        <3>1. d \in CallType /\ d.sources \in Seq(SourceType)
            BY DEF TypeInv, CallType
        <3>2. Item(c) \in ItemType
            <4>1. c.i \in {1, 2} /\ c.pass \in {1, 2}
                BY <1>2 DEF CallType
            <4> QED BY <1>1, <4>1 DEF Item, ItemType
        <3>3. StageText(c) \in TextType
            <4>1. c.outputs \in Seq(TextType)
                BY <1>2 DEF CallType
            <4>2. c.i \in DOMAIN c.outputs
                <5>1. Len(c.outputs) \in Nat /\ DOMAIN c.outputs = 1 .. Len(c.outputs)
                    BY <4>1
                <5>2. CASE Len(Stages[p]) = 1 /\ DOMAIN Stages[p] = {1}
                    BY <1>1, <5>1, <5>2
                <5>3. CASE Len(Stages[p]) = 2 /\ DOMAIN Stages[p] = {1, 2}
                    BY <1>1, <5>1, <5>3
                <5> QED BY <5>2, <5>3, StageCount
            <4> QED BY <4>1, <4>2 DEF StageText
        <3>4. Library(c) \in SUBSET Function
            <4>1. DOMAIN c.link = DOMAIN Stages[p]
                BY <1>1 DEF ThreadInv, ShapeInv, Linking
            <4>2. c.link \in Seq(SUBSET Function)
                BY <1>2 DEF CallType
            <4> HIDE DEF c
            <4> QED BY <1>1, <4>1, <4>2 DEF Library
        <3> QED BY <3>2, <3>3, <3>4 DEF SourceType, Stored
    <2>3. e \in CallType /\ e.pipeline = p /\ e.i = c.i /\ e.pc = "compile" /\ e.pass = c.pass /\ e.dirty = c.dirty
          /\ e.outputs = c.outputs /\ e.link = c.link /\ e.sources = Append(c.sources, s)
        <3>1. Append(c.sources, s) \in Seq(SourceType)
            BY <1>2, <2>2
        <3> HIDE DEF s
        <3> QED BY <1>1, <1>2, <3>1 DEF CallType
    <2> HIDE DEF e, c, s, d
    <2> QED BY <1>1, <2>1, <2>3, NextPassFacts
<1>4. /\ r.isInShaderParse = q.isInShaderParse /\ r.structure = q.structure /\ r.parseOutputs = q.parseOutputs
      /\ d.pass # c.pass => r.bindless = TRUE
    <2>1. r = IF d.pass # c.pass THEN [q EXCEPT !.bindless = TRUE] ELSE q
        BY DEF CompileStage, TypeInv
    <2>2. q \in ParserType
        BY DEF TypeInv
    <2> HIDE DEF q, r, c, d
    <2> QED BY <2>1, <2>2 DEF ParserType
<1>5. UNCHANGED <<declared, permissions, target, built, numthreads, begun>>
    BY DEF CompileStage, globalVars
<1>6. Globals(t)' = Globals(t) /\ Locals' = Locals
    BY <1>5 DEF Globals, Locals
<1> HIDE DEF q, r, c, d, s, b
<1>7. ShapeInv(t)'
    <2>1. ASSUME d.pc = "stage" PROVE r.bindless = (d.pass = 2)
        <3>1. d.pass # c.pass /\ d.pass = 2
            BY <1>3, <2>1
        <3>2. (d.pass = 2) = TRUE
            BY <3>1
        <3> QED BY <1>4, <3>1, <3>2
    <2>2. DOMAIN d.link = DOMAIN Stages[p]
        BY <1>1, <1>3 DEF ThreadInv, ShapeInv, Linking, c
    <2> QED BY <1>1, <1>3, <1>4, <2>1, <2>2 DEF ShapeInv, r, d
<1>8. CleanInv(t)'
    <2>1. CASE d.pc = "stage"
        BY <1>1, <1>3, <1>4, <2>1 DEF CleanInv, r, d
    <2>2. CASE d.pc = "compile"
        <3>1. Clean(d) => Clean(c)
            BY <1>3, <2>2 DEF Clean
        <3>2. d.pass = c.pass /\ d.outputs = c.outputs
            BY <1>3, <2>2
        <3> QED BY <1>1, <1>3, <1>5, <1>6, <2>2, <3>1, <3>2 DEF ThreadInv, CleanInv, c, d
    <2>3. CASE d.pc = "collect"
        BY <2>3 DEF CleanInv, d
    <2> QED BY <1>3, <2>1, <2>2, <2>3
<1>9. SourceInv(t)'
    <2> SUFFICES ASSUME NEW k \in DOMAIN d.sources
                 PROVE  d.pc # "idle" /\ Made(d.sources[k], p, c.dirty, begun[t], hardcode', declared', Locals')
        BY <1>3, <1>5 DEF SourceInv, d
    <2>1. CASE k \in DOMAIN c.sources
        <3>1. d.sources[k] = c.sources[k]
            BY <1>2, <1>3, <2>1
        <3>2. Made(c.sources[k], p, c.dirty, begun[t], hardcode, declared, Locals)
            BY <1>1, <2>1 DEF ThreadInv, SourceInv, c
        <3> QED BY <1>3, <3>1, <3>2, MadeStays
    <2>2. CASE k \notin DOMAIN c.sources
        <3>1. d.sources[k] = s
            BY <1>2, <1>3, <2>2
        <3> DEFINE e == [item |-> Item(c), text |-> StageText(c), link |-> Library(c), dirty |-> c.dirty,
                         number |-> begun[t]]
        <3>2. /\ hardcode' = (IF Stored(c) THEN Append(hardcode, e) ELSE hardcode)
              /\ hardcode \in Seq(EntryType) /\ Item(c) = <<p, c.i, c.pass>>
              /\ Settled(LambdaOf[p][c.i], declared)
              /\ ~Spoilt(c.dirty, Item(c)) => /\ Printed(StageText(c), p, c.i, c.pass = 2, begun[t], Locals)
                                              /\ Bare(StageText(c)) = MeaningOf(p, c.i, c.pass = 2, Locals)
            BY <1>1, CompiledFacts DEF c
        <3>3. /\ s.item = Item(c) /\ s.text = StageText(c) /\ s.link = Library(c) /\ (s.spirv <=> Stored(c))
              /\ e.item = Item(c) /\ e.text = StageText(c) /\ e.link = Library(c)
            BY DEF s, Stored
        <3>4. s.item[1] = p /\ s.item[2] = c.i /\ s.item[3] = c.pass
            BY <3>2, <3>3
        <3> HIDE DEF e
        <3>5. s.spirv => \E j \in DOMAIN hardcode' : /\ hardcode'[j].item = s.item /\ hardcode'[j].text = s.text
                                                      /\ hardcode'[j].link = s.link
            <4>1. ASSUME Stored(c)
                  PROVE  Len(hardcode) + 1 \in DOMAIN hardcode' /\ hardcode'[Len(hardcode) + 1] = e
                BY <3>2, <4>1
            <4> QED BY <3>3, <4>1
        <3>6. Made(s, p, c.dirty, begun[t], hardcode', declared, Locals)
            BY <1>1, <3>2, <3>3, <3>4, <3>5 DEF Made
        <3> QED BY <1>3, <1>5, <1>6, <3>1, <3>6
    <2> QED BY <2>1, <2>2
<1>10. PermInv(t)'
    <2>1. \A x \in Globals(t) : permissions[x] = {}
        BY <1>1 DEF ThreadInv, PermInv, c
    <2> QED BY <1>3, <1>5, <1>6, <2>1 DEF PermInv, d
<1>11. NumInv(t)'
    <2>1. numthreads'[t] = 1
        BY <1>1, <1>5 DEF ThreadInv, NumInv, q, c
    <2> QED BY <1>3, <2>1 DEF NumInv, ThreadsOf, d
<1>12. TargetInv(t)'
    BY <1>1, <1>3, <1>5 DEF ThreadInv, TargetInv, c, d
<1>13. SettledInv(t)'
    BY <1>1, <1>3, <1>5 DEF ThreadInv, SettledInv, c, d
<1>14. StandInv(t)'
    <2>1. r.structure.from <= begun'[t]
        <3>1. begun[t] \in Nat
            BY DEF TypeInv
        <3> QED BY <1>1, <1>4, <1>5, <3>1 DEF NoStatements
    <2>2. DOMAIN r.parseOutputs = {} /\ r.structure.uses = {} /\ r.structure.calls = {}
        BY <1>1, <1>4 DEF NoStatements
    <2> QED BY <2>1, <2>2 DEF StandInv, Backed, r
<1>15. OutputsInv(t)'
    <2>1. CASE d.outputs = <<>>
        BY <2>1 DEF OutputsInv, d
    <2>2. CASE d.outputs = c.outputs
        BY <1>1, <1>3, <1>5, <2>2 DEF ThreadInv, OutputsInv, Own, c, d
    <2> QED BY <1>3, <2>1, <2>2
<1> QED BY <1>7, <1>8, <1>9, <1>10, <1>11, <1>12, <1>13, <1>14, <1>15 DEF ThreadInv

-----------------------------------------------------------------------------
\* A step of one thread is none of another's.
Apart(u) ==
    /\ UNCHANGED <<parser[u], call[u], numthreads[u], begun[u]>>
    /\ \A x \in Proxy : Owner[x] = u => UNCHANGED <<declared[x], permissions[x], target[x]>>

LEMMA RunApart ==
    ASSUME TypeInv, NEW t \in Thread, NEW u \in Thread, u # t, NEW p \in Pipeline, NEW i \in DOMAIN Stages[p],
           call[t].pipeline = p, call[t].i = i, User[p] = t, ShapeInv(t), UNCHANGED call[u],
           NEW l \in {Nothing, LambdaOf[p][i]}, NEW done \in BOOLEAN, Run(t, l, done)
    PROVE  Apart(u)
<1>1. /\ \A v \in Thread : v # t => parser'[v] = parser[v]
      /\ numthreads' = [numthreads EXCEPT ![t] = ThreadsAfter(parser[t], @)]
      /\ permissions' = Permitted(permissions, l) /\ target' = Located(target, l, 0)
      /\ UNCHANGED <<hardcode, finished, begun>>
    BY RunFacts
<1>2. \A x \in Proxy : declared'[x] = IF x \in Named(l) /\ Kind[x] = "sampler" THEN "global" ELSE declared[x]
    BY RunFacts
<1>3. ASSUME NEW x \in Proxy, Owner[x] = u
      PROVE  UNCHANGED <<declared[x], permissions[x], target[x]>>
    <2>1. x \notin Named(l) /\ \A k \in DOMAIN l.targets : l.targets[k] # x
        <3>1. CASE l = Nothing
            BY <3>1, NothingFacts
        <3>2. CASE l = LambdaOf[p][i]
            BY <1>3, <3>2, StageFacts, TargetTypes
        <3> QED BY <3>1, <3>2
    <2>2. declared'[x] = declared[x]
        BY <1>2, <2>1
    <2>3. permissions'[x] = permissions[x]
        BY <1>1, <2>1 DEF Permitted, Named, Accessed
    <2>4. target'[x] = target[x]
        BY <1>1, <2>1 DEF Located
    <2> QED BY <2>2, <2>3, <2>4
<1>4. parser'[u] = parser[u] /\ numthreads'[u] = numthreads[u] /\ begun'[u] = begun[u]
    BY <1>1 DEF TypeInv
<1> QED BY <1>3, <1>4 DEF Apart

\* One step per action: of the thread itself, and of another one.
LEMMA ThreadStep ==
    ASSUME TypeInv, TypeInv', GlobalInv, GlobalInv', HardcodeInv, Grown, \A t \in Thread : ThreadInv(t), [Next]_vars,
           NEW u \in Thread
    PROVE  ThreadInv(u)'
<1>0. ASSUME Apart(u) PROVE ThreadInv(u)'
    BY <1>0, Frame DEF Apart
<1>1. ASSUME NEW t \in Thread, NEW x \in Proxy, Declare(t, x) PROVE ThreadInv(u)'
    <2>1. CASE u = t
        BY <1>1, <2>1, DeclareStep
    <2>2. CASE u # t
        BY <1>0, <1>1, <2>2 DEF Apart, Declare, TypeInv
    <2> QED BY <2>1, <2>2
<1>2. ASSUME NEW t \in Thread, NEW p \in Pipeline, Begin(t, p) PROVE ThreadInv(u)'
    <2>1. CASE u = t
        BY <1>2, <2>1, BeginStep
    <2>2. CASE u # t
        BY <1>0, <1>2, <2>2 DEF Apart, Begin, globalVars, TypeInv
    <2> QED BY <2>1, <2>2
<1>3. ASSUME NEW t \in Thread, RunStage(t) PROVE ThreadInv(u)'
    <2>1. CASE u = t
        BY <1>3, <2>1, RunStageStep
    <2>2. CASE u # t
        <3>1. PICK p \in Pipeline : p = call[t].pipeline /\ call[t].i \in DOMAIN Stages[p] /\ User[p] = t
            BY <1>3 DEF RunStage, ThreadInv, ShapeInv
        <3>2. Run(t, LambdaOf[p][call[t].i], TRUE) /\ call'[u] = call[u]
            BY <1>3, <2>2, <3>1 DEF RunStage, Lambda, TypeInv
        <3> QED BY <1>0, <2>2, <3>1, <3>2, RunApart DEF ThreadInv
    <2> QED BY <2>1, <2>2
<1>4. ASSUME NEW t \in Thread, LambdaThrows(t) PROVE ThreadInv(u)'
    <2>1. CASE u = t
        BY <1>4, <2>1, LambdaThrowsStep
    <2>2. CASE u # t
        <3>1. PICK p \in Pipeline : p = call[t].pipeline /\ call[t].i \in DOMAIN Stages[p] /\ User[p] = t
            BY <1>4 DEF LambdaThrows, ThreadInv, ShapeInv
        <3>2. PICK l \in {Nothing, LambdaOf[p][call[t].i]} : Run(t, l, FALSE)
            BY <1>4, <3>1 DEF LambdaThrows, Lambda
        <3>3. call'[u] = call[u]
            BY <1>4, <2>2 DEF LambdaThrows, Leave, TypeInv
        <3>4. CASE l = Nothing
            BY <1>0, <2>2, <3>1, <3>2, <3>3, <3>4, RunApart DEF ThreadInv
        <3>5. CASE l = LambdaOf[p][call[t].i]
            BY <1>0, <2>2, <3>1, <3>2, <3>3, <3>5, RunApart DEF ThreadInv
        <3> QED BY <3>4, <3>5
    <2> QED BY <2>1, <2>2
<1>5. ASSUME NEW t \in Thread, RefuseReturn(t) PROVE ThreadInv(u)'
    <2>1. CASE u = t
        BY <1>5, <2>1, RefuseReturnStep
    <2>2. CASE u # t
        BY <1>0, <1>5, <2>2 DEF Apart, RefuseReturn, Leave, globalVars, TypeInv
    <2> QED BY <2>1, <2>2
<1>6. ASSUME NEW t \in Thread, EndPipelineParse(t) PROVE ThreadInv(u)'
    <2>1. CASE u = t
        BY <1>6, <2>1, EndPipelineParseStep
    <2>2. CASE u # t
        BY <1>0, <1>6, <2>2 DEF Apart, EndPipelineParse, ResetPermissions, Globals, TypeInv
    <2> QED BY <2>1, <2>2
<1>7. ASSUME NEW t \in Thread, CompileFails(t) PROVE ThreadInv(u)'
    <2>1. CASE u = t
        BY <1>7, <2>1, LeaveStep DEF CompileFails, globalVars
    <2>2. CASE u # t
        BY <1>0, <1>7, <2>2 DEF Apart, CompileFails, Leave, globalVars, TypeInv
    <2> QED BY <2>1, <2>2
<1>8. ASSUME NEW t \in Thread, CompileStage(t) PROVE ThreadInv(u)'
    <2>1. CASE u = t
        BY <1>8, <2>1, CompileStageStep
    <2>2. CASE u # t
        BY <1>0, <1>8, <2>2 DEF Apart, CompileStage, globalVars, TypeInv
    <2> QED BY <2>1, <2>2
<1>9. ASSUME NEW t \in Thread, Collect(t) PROVE ThreadInv(u)'
    <2>1. CASE u = t
        BY <1>9, <2>1, LeaveStep DEF Collect, globalVars
    <2>2. CASE u # t
        BY <1>0, <1>9, <2>2 DEF Apart, Collect, Leave, globalVars, TypeInv
    <2> QED BY <2>1, <2>2
<1>10. CASE UNCHANGED vars
    BY <1>0, <1>10 DEF Apart, vars, globalVars
<1> QED BY <1>1, <1>2, <1>3, <1>4, <1>5, <1>6, <1>7, <1>8, <1>9, <1>10 DEF Next

LEMMA EnteredStays ==
    ASSUME TypeInv, TypeInv', GlobalInv, GlobalInv', Grown, NEW j \in DOMAIN hardcode,
           Entered(j, hardcode, declared, Locals)
    PROVE  Entered(j, hardcode', declared', Locals')
<1> DEFINE e == hardcode[j]
           p == e.item[1]
           i == e.item[2]
           b == (e.item[3] = 2)
<1>1. \A k \in DOMAIN hardcode : k \in Nat /\ k \in DOMAIN hardcode' /\ hardcode'[k] = hardcode[k]
    BY DEF Grown, TypeInv
<1>2. p \in Pipeline
    BY HardcodeParts DEF ItemType
<1>3. /\ i \in DOMAIN Stages[p] /\ Settled(LambdaOf[p][i], declared)
      /\ ~Spoilt(e.dirty, e.item) => Bare(e.text) = MeaningOf(p, i, b, Locals)
    BY DEF Entered
<1>4. PICK k \in DOMAIN hardcode : hardcode[k].item = e.item /\ \A n \in 1 .. k - 1 : hardcode[n].item # e.item
    BY DEF Entered
<1>5. /\ Settled(LambdaOf[p][i], declared')
      /\ MeaningOf(p, i, b, Locals') = MeaningOf(p, i, b, Locals)
    <2> HIDE DEF p, i, b
    <2> QED BY <1>2, <1>3, NamesStay
<1>6. \A n \in 1 .. k - 1 : n \in DOMAIN hardcode
    <2>1. DOMAIN hardcode = 1 .. Len(hardcode) /\ Len(hardcode) \in Nat
        BY DEF TypeInv
    <2> QED BY <2>1
<1>7. \E m \in DOMAIN hardcode' : /\ hardcode'[m].item = e.item
                                  /\ \A n \in 1 .. m - 1 : hardcode'[n].item # e.item
    BY <1>1, <1>4, <1>6
<1>8. hardcode'[j] = e
    BY <1>1
<1> HIDE DEF e
<1> QED BY <1>3, <1>5, <1>7, <1>8 DEF Entered

\* An item that is appended is settled, and the first of its name if it is new.
LEMMA HardcodeStep ==
    ASSUME TypeInv, TypeInv', GlobalInv, GlobalInv', HardcodeInv, Grown, \A t \in Thread : ThreadInv(t), [Next]_vars
    PROVE  HardcodeInv'
<1>1. \A j \in DOMAIN hardcode : Entered(j, hardcode', declared', Locals')
    BY EnteredStays DEF HardcodeInv
<1>2. CASE hardcode' = hardcode
    BY <1>1, <1>2 DEF HardcodeInv
<1>3. ASSUME NEW t \in Thread, CompileStage(t) PROVE HardcodeInv'
    <2> DEFINE c == call[t]
               e == [item |-> Item(c), text |-> StageText(c), link |-> Library(c), dirty |-> c.dirty,
                     number |-> begun[t]]
               m == Len(hardcode) + 1
    <2>1. PICK p \in Pipeline : c.pipeline = p
        BY <1>3 DEF CompileStage, ThreadInv, ShapeInv
    <2>0. SUFFICES ASSUME Stored(c) PROVE HardcodeInv'
        BY <1>2, <1>3, <2>1, CompiledFacts
    <2>2. /\ c.i \in DOMAIN Stages[p] /\ hardcode' = Append(hardcode, e)
          /\ hardcode \in Seq(EntryType)
          /\ Item(c) = <<p, c.i, c.pass>> /\ Settled(LambdaOf[p][c.i], declared)
          /\ ~Spoilt(c.dirty, Item(c)) => Bare(StageText(c)) = MeaningOf(p, c.i, c.pass = 2, Locals)
        BY <1>3, <2>0, <2>1, CompiledFacts
    <2>3. e.item = Item(c) /\ e.text = StageText(c) /\ e.dirty = c.dirty
        OBVIOUS
    <2>4. UNCHANGED declared /\ Locals' = Locals
        BY <1>3 DEF CompileStage, globalVars, Locals
    <2> HIDE DEF e, c
    <2>5. /\ DOMAIN hardcode = 1 .. m - 1 /\ m \in Nat
          /\ DOMAIN hardcode' = DOMAIN hardcode \cup {m} /\ hardcode'[m] = e
          /\ \A j \in DOMAIN hardcode : hardcode'[j] = hardcode[j]
        BY <2>2
    <2> HIDE DEF m
    <2>6. \E k \in DOMAIN hardcode' : /\ hardcode'[k].item = e.item
                                      /\ \A n \in 1 .. k - 1 : hardcode'[n].item # e.item
        <3>1. CASE \E j \in DOMAIN hardcode : hardcode[j].item = e.item
            <4>1. PICK j \in DOMAIN hardcode : hardcode[j].item = e.item
                BY <3>1
            <4>2. hardcode'[j].item = e.item /\ Entered(j, hardcode', declared', Locals')
                BY <1>1, <2>5, <4>1
            <4> QED BY <4>2 DEF Entered
        <3>2. CASE \A j \in DOMAIN hardcode : hardcode[j].item # e.item
            BY <2>5, <3>2
        <3> QED BY <3>1, <3>2
    <2>7. e.item[1] = p /\ e.item[2] = c.i /\ e.item[3] = c.pass
        BY <2>2, <2>3
    <2>8. Entered(m, hardcode', declared', Locals')
        <3>1. /\ hardcode'[m].item[1] = p /\ hardcode'[m].item[2] = c.i
              /\ hardcode'[m].item[3] = c.pass
            BY <2>5, <2>7
        <3>2. c.i \in DOMAIN Stages[p] /\ Settled(LambdaOf[p][c.i], declared')
            BY <2>2, <2>4
        <3>3. PICK b \in BOOLEAN : b = (c.pass = 2)
            OBVIOUS
        <3>4. ~Spoilt(e.dirty, e.item) => Bare(e.text) = MeaningOf(p, c.i, b, Locals')
            BY <2>2, <2>3, <2>4, <3>3
        <3>5. ~Spoilt(hardcode'[m].dirty, hardcode'[m].item)
              => Bare(hardcode'[m].text) = MeaningOf(p, c.i, b, Locals')
            BY <2>5, <3>4
        <3>6. b = (hardcode'[m].item[3] = 2)
            BY <3>1, <3>3
        <3>7. \E k \in DOMAIN hardcode' : /\ hardcode'[k].item = hardcode'[m].item
                                          /\ \A n \in 1 .. k - 1 : hardcode'[n].item # hardcode'[m].item
            BY <2>5, <2>6
        <3> QED BY <3>1, <3>2, <3>5, <3>6, <3>7 DEF Entered
    <2> QED BY <1>1, <2>5, <2>8 DEF HardcodeInv
<1>4. ASSUME NEW t \in Thread, NEW x \in Proxy, Declare(t, x) PROVE hardcode' = hardcode
    BY <1>4 DEF Declare
<1>5. ASSUME NEW t \in Thread, NEW p \in Pipeline, Begin(t, p) PROVE hardcode' = hardcode
    BY <1>5 DEF Begin
<1>6. ASSUME NEW t \in Thread, RunStage(t) \/ LambdaThrows(t) PROVE hardcode' = hardcode
    BY <1>6 DEF RunStage, LambdaThrows, Run
<1>7. ASSUME NEW t \in Thread, RefuseReturn(t) \/ EndPipelineParse(t) PROVE hardcode' = hardcode
    BY <1>7 DEF RefuseReturn, EndPipelineParse
<1>8. ASSUME NEW t \in Thread, CompileFails(t) \/ Collect(t) PROVE hardcode' = hardcode
    BY <1>8 DEF CompileFails, Collect
<1>9. CASE UNCHANGED vars
    BY <1>2, <1>9 DEF vars
<1> QED BY <1>2, <1>3, <1>4, <1>5, <1>6, <1>7, <1>8, <1>9 DEF Next

\* What Collect records is what the thread's invariants say of its call.
LEMMA FinishedStep ==
    ASSUME TypeInv, TypeInv', GlobalInv, GlobalInv', HardcodeInv, Grown, FinishedInv,
           \A t \in Thread : ThreadInv(t), [Next]_vars
    PROVE  FinishedInv'
<1>1. \A f \in finished : \A k \in DOMAIN f.sources :
          Made(f.sources[k], f.pipeline, f.dirty, f.number, hardcode', declared', Locals')
    BY MadeStays DEF FinishedInv
<1>2. CASE finished' = finished
    BY <1>1, <1>2 DEF FinishedInv
<1>3. ASSUME NEW t \in Thread, Collect(t) PROVE FinishedInv'
    <2> DEFINE c == call[t]
               e == [pipeline |-> c.pipeline, number |-> begun[t], dirty |-> c.dirty, fresh |-> c.fresh,
                     sources |-> c.sources, textures |-> BoundTextures(t, c), targets |-> BoundTargets(t, c)]
    <2>1. finished' = finished \cup {e} /\ c.pc = "collect"
        BY <1>3 DEF Collect
    <2>2. e.pipeline = c.pipeline /\ e.number = begun[t] /\ e.dirty = c.dirty /\ e.sources = c.sources
        OBVIOUS
    <2>3. ASSUME NEW k \in DOMAIN c.sources
          PROVE  Made(c.sources[k], c.pipeline, c.dirty, begun[t], hardcode', declared', Locals')
        BY MadeStays DEF ThreadInv, SourceInv
    <2> HIDE DEF e, c
    <2> QED BY <1>1, <2>1, <2>2, <2>3 DEF FinishedInv
<1>4. ASSUME NEW t \in Thread, NEW x \in Proxy, Declare(t, x) PROVE finished' = finished
    BY <1>4 DEF Declare
<1>5. ASSUME NEW t \in Thread, NEW p \in Pipeline, Begin(t, p) PROVE finished' = finished
    BY <1>5 DEF Begin
<1>6. ASSUME NEW t \in Thread, RunStage(t) \/ LambdaThrows(t) PROVE finished' = finished
    BY <1>6 DEF RunStage, LambdaThrows, Run
<1>7. ASSUME NEW t \in Thread, RefuseReturn(t) \/ EndPipelineParse(t) PROVE finished' = finished
    BY <1>7 DEF RefuseReturn, EndPipelineParse
<1>8. ASSUME NEW t \in Thread, CompileFails(t) \/ CompileStage(t) PROVE finished' = finished
    BY <1>8 DEF CompileFails, CompileStage
<1>9. CASE UNCHANGED vars
    BY <1>2, <1>9 DEF vars
<1> QED BY <1>2, <1>3, <1>4, <1>5, <1>6, <1>7, <1>8, <1>9 DEF Next

-----------------------------------------------------------------------------
\* The theorems.
LEMMA InitHolds == Init => IInv
<1> SUFFICES ASSUME Init PROVE IInv
    OBVIOUS
<1>1. TypeInv
    <2>1. [isInShaderParse |-> FALSE, stage |-> "vertex", bindless |-> FALSE,
           parseOutputs |-> <<>>, structure |-> NoStatements] \in ParserType
        BY NoStatementsType DEF ParserType, StageName
    <2> QED BY <2>1, NoCallFacts DEF Init, TypeInv
<1>2. GlobalInv /\ HardcodeInv /\ FinishedInv
    BY DEF Init, GlobalInv, HardcodeInv, FinishedInv
<1>3. ASSUME NEW t \in Thread PROVE Idle(t)
    <2>1. /\ call[t] = NoCall /\ numthreads[t] = 1 /\ begun[t] = 0 /\ parser[t].structure = NoStatements
          /\ parser[t].parseOutputs = <<>>
        BY DEF Init
    <2>2. \A x \in Globals(t) : permissions[x] = {}
        BY DEF Init, Globals
    <2> QED BY <2>1, <2>2, NoCallFacts DEF Idle, NoStatements
<1> QED BY <1>1, <1>2, <1>3, IdleEnough DEF IInv

LEMMA StepHolds == IInv /\ [Next]_vars => IInv'
<1> SUFFICES ASSUME IInv, [Next]_vars PROVE IInv'
    OBVIOUS
<1>1. /\ TypeInv /\ GlobalInv /\ HardcodeInv /\ FinishedInv /\ \A t \in Thread : ThreadInv(t)
      /\ \A t \in Thread : ShapeInv(t) /\ SettledInv(t)
    BY DEF IInv, ThreadInv
<1>2. TypeInv'
    BY <1>1, TypeStep
<1>3. Grown /\ GlobalInv'
    BY <1>1, GrowthStep
<1>4. HardcodeInv'
    BY <1>1, <1>2, <1>3, HardcodeStep
<1>5. FinishedInv'
    BY <1>1, <1>2, <1>3, FinishedStep
<1>6. \A t \in Thread : ThreadInv(t)'
    BY <1>1, <1>2, <1>3, ThreadStep
<1> QED BY <1>2, <1>3, <1>4, <1>5, <1>6 DEF IInv

\* Types, the order of compile() and the contents of parser, hardcode files and
\* permissions at each point of it: IInv is inductive (Parser.cpp:26-96,
\* RasterizedPipelineObject.h:24-118, ComputePipelineObject.h:33-90).
THEOREM Invariance == Spec => []IInv
<1> QED BY InitHolds, StepHolds, PTL DEF Spec

\* Whatever the lambdas use and whichever of them threw before, a text of the
\* compilation under way declares every global and function it names, with the
\* write access it needs (SlangGenerator.cpp:246-303, Parser.cpp:49-63).
THEOREM TextsStandAloneHolds == Spec => []TextsStandAlone
<1>1. IInv => TextsStandAlone
    BY DEF IInv, ThreadInv, OutputsInv, TextsStandAlone
<1> QED BY <1>1, Invariance, PTL

-----------------------------------------------------------------------------
\* What texts are linked with.

\* Whatever a text calls has been declared by some thread.
Known(text) == \A g \in text.calls : built[g] # {}

CalledInv(t) ==
    /\ Known(parser[t].structure)
    /\ \A k \in DOMAIN parser[t].parseOutputs : Known(parser[t].parseOutputs[k])
    /\ \A k \in DOMAIN call[t].outputs : Known(call[t].outputs[k])

\* No item of the thread calls a function that only this thread has declared.
Untouched(t, g) ==
    Own(t, g) => \A k \in DOMAIN hardcode : User[hardcode[k].item[1]] = t => g \notin hardcode[k].text.calls

\* None but those of this compilation.
NewTo(t, g) ==
    Own(t, g) => \A k \in DOMAIN hardcode :
        User[hardcode[k].item[1]] = t /\ g \in hardcode[k].text.calls => hardcode[k].number = begun[t]

Pending(t, text) == \A g \in text.spv : Untouched(t, g)

\* SPIR-V waits in the parser, and comes into the link lists, before any item of
\* the thread calls its function.
PendingInv(t) ==
    /\ Pending(t, parser[t].structure)
    /\ \A k \in DOMAIN parser[t].parseOutputs : Pending(t, parser[t].parseOutputs[k])
    /\ \A i \in DOMAIN call[t].link : \A g \in call[t].link[i] : NewTo(t, g)

\* The items of a compilation have its link lists, in both passes.
NumberInv(t) ==
    LET c == call[t]
    IN  \A k \in DOMAIN hardcode : User[hardcode[k].item[1]] = t =>
            /\ hardcode[k].number <= begun[t]
            /\ c.pc \in {"stage", "end"} /\ c.pass = 1 => hardcode[k].number < begun[t]
            /\ Linking(c) /\ hardcode[k].number = begun[t] => hardcode[k].link = c.link[hardcode[k].item[2]]

\* Stage i of p has the SPIR-V of functions it calls, and of all those that nothing
\* had called when its compilation began and no earlier stage calls.
LinkedOwn(spv, p, i, fresh) ==
    /\ spv \subseteq LambdaOf[p][i].calls
    /\ \A g \in LambdaOf[p][i].calls \cap fresh : Own(User[p], g) =>
           g \in spv \/ \E j \in 1 .. i - 1 : g \in LambdaOf[p][j].calls

\* What was fresh and is not any more was called by a stage before.
FreshInv(t) ==
    LET c == call[t]
    IN  c.pc = "stage" /\ c.pass = 1 =>
            \A g \in c.fresh : t \in built[g] => \E j \in 1 .. c.i - 1 : g \in LambdaOf[c.pipeline][j].calls

\* In a clean compilation, from the first stage to the link lists.
OwnInv(t) ==
    LET q == parser[t]
        c == call[t]
        p == c.pipeline
    IN  ~c.dirty =>
        /\ c.pc = "stage" /\ c.pass = 1 /\ c.i = 2 => LinkedOwn(q.structure.spv, p, 1, c.fresh)
        /\ c.pc = "end" /\ c.pass = 1 =>
             /\ LinkedOwn(q.structure.spv, p, c.i, c.fresh)
             /\ c.i = 2 => LinkedOwn(q.parseOutputs[1].spv, p, 1, c.fresh)
        /\ Linking(c) => \A i \in DOMAIN Stages[p] : LinkedOwn(c.link[i], p, i, c.fresh)

\* What was compiled so far.
CompiledInv(t) ==
    LET c == call[t]
    IN  ~c.dirty => \A k \in DOMAIN c.sources :
            LinkedOwn(c.sources[k].link, c.pipeline, c.sources[k].item[2], c.fresh)

LinkThread(t) ==
    CalledInv(t) /\ PendingInv(t) /\ NumberInv(t) /\ FreshInv(t) /\ OwnInv(t) /\ CompiledInv(t)

\* The items: an earlier one that calls a function a later one is linked with is
\* of the same compilation, and so linked with the same.
ItemsInv ==
    /\ \A k \in DOMAIN hardcode : Known(hardcode[k].text)
    /\ \A h \in DOMAIN hardcode : \A k \in 1 .. h - 1 : \A g \in hardcode[h].link :
           /\ User[hardcode[k].item[1]] = User[hardcode[h].item[1]]
           /\ Own(User[hardcode[h].item[1]], g) /\ g \in hardcode[k].text.calls
           => hardcode[k].number = hardcode[h].number
    /\ \A h, k \in DOMAIN hardcode :
           /\ User[hardcode[k].item[1]] = User[hardcode[h].item[1]]
           /\ hardcode[k].number = hardcode[h].number /\ hardcode[k].item[2] = hardcode[h].item[2]
           => hardcode[k].link = hardcode[h].link

\* The sources of the pipelines compiled.
FinishedLinks ==
    \A f \in finished : ~f.dirty => \A k \in DOMAIN f.sources :
        LinkedOwn(f.sources[k].link, f.pipeline, f.sources[k].item[2], f.fresh)

LinkInv ==
    /\ ItemsInv
    /\ FinishedLinks
    /\ \A t \in Thread : LinkThread(t)

\* Threads only ever declare functions: what one has for its own it had before.
LEMMA OwnBefore ==
    ASSUME Grown, NEW t, NEW g \in Function, Own(t, g)'
    PROVE  Own(t, g)
BY DEF Grown, Own

LEMMA LinkedStays ==
    ASSUME Grown, NEW p \in Pipeline, NEW i \in DOMAIN Stages[p], NEW spv, NEW fresh, LinkedOwn(spv, p, i, fresh)
    PROVE  LinkedOwn(spv, p, i, fresh)'
<1>1. LambdaOf[p][i].calls \subseteq Function
    BY StageFacts, LambdaFacts
<1> QED BY <1>1 DEF LinkedOwn, Own, Grown

LEMMA KnownStays ==
    ASSUME Grown, NEW x, x.calls \subseteq Function, Known(x)
    PROVE  Known(x)'
BY DEF Known, Grown

\* The items of the thread are the ones it had.
SameItems(t) ==
    \A k \in DOMAIN hardcode' : User[hardcode'[k].item[1]] = t =>
        k \in DOMAIN hardcode /\ hardcode'[k] = hardcode[k]

LEMMA PendingStays ==
    ASSUME Grown, NEW t, SameItems(t), NEW g \in Function
    PROVE  /\ Untouched(t, g) => Untouched(t, g)'
           /\ Untouched(t, g) => NewTo(t, g)
           /\ NewTo(t, g) /\ UNCHANGED begun[t] => NewTo(t, g)'
<1>1. Own(t, g)' => Own(t, g)
    BY OwnBefore
<1> QED BY <1>1 DEF Untouched, NewTo, SameItems

\* Functions, in the places they are kept.
LEMMA FunctionParts ==
    ASSUME TypeInv, NEW t \in Thread
    PROVE  /\ parser[t].structure.calls \subseteq Function /\ parser[t].structure.spv \subseteq Function
           /\ \A k \in DOMAIN parser[t].parseOutputs : /\ parser[t].parseOutputs[k].calls \subseteq Function
                                                       /\ parser[t].parseOutputs[k].spv \subseteq Function
           /\ \A k \in DOMAIN call[t].outputs : call[t].outputs[k].calls \subseteq Function
           /\ \A i \in DOMAIN call[t].link : call[t].link[i] \subseteq Function
<1>1. call[t].outputs \in Seq(TextType) /\ call[t].link \in Seq(SUBSET Function)
    BY DEF TypeInv, CallType
<1>2. \A k \in DOMAIN call[t].outputs : call[t].outputs[k] \in TextType
    BY <1>1
<1>3. \A i \in DOMAIN call[t].link : call[t].link[i] \in SUBSET Function
    BY <1>1
<1> QED BY <1>2, <1>3, ParserParts DEF Statements, TextType

\* Another thread's step, or one that touches none of this.
LEMMA LinkFrame ==
    ASSUME TypeInv, Grown, NEW t \in Thread, ShapeInv(t), SourceInv(t), LinkThread(t), SameItems(t),
           UNCHANGED <<parser[t].structure, parser[t].parseOutputs, call[t], begun[t]>>,
           \A g \in Function : t \in built'[g] => t \in built[g]
    PROVE  LinkThread(t)'
<1> DEFINE c == call[t]
           p == c.pipeline
<1>1. CalledInv(t)'
    BY FunctionParts, KnownStays DEF LinkThread, CalledInv
<1>2. PendingInv(t)'
    BY FunctionParts, PendingStays DEF LinkThread, PendingInv, Pending
<1>3. NumberInv(t)'
    BY DEF LinkThread, NumberInv, SameItems
<1>4. FreshInv(t)'
    <2>1. c.fresh \subseteq Function
        BY DEF TypeInv, CallType
    <2> QED BY <2>1 DEF LinkThread, FreshInv
<1>5. c.pc # "idle" => p \in Pipeline /\ c.i \in DOMAIN Stages[p]
    BY DEF ShapeInv
<1>6. OwnInv(t)'
    <2> SUFFICES ASSUME ~c.dirty
                 PROVE  /\ c.pc = "stage" /\ c.pass = 1 /\ c.i = 2 => LinkedOwn(parser[t].structure.spv, p, 1, c.fresh)'
                        /\ c.pc = "end" /\ c.pass = 1 =>
                             /\ LinkedOwn(parser[t].structure.spv, p, c.i, c.fresh)'
                             /\ c.i = 2 => LinkedOwn(parser[t].parseOutputs[1].spv, p, 1, c.fresh)'
                        /\ Linking(c) => \A i \in DOMAIN Stages[p] : LinkedOwn(c.link[i], p, i, c.fresh)'
        BY DEF OwnInv
    <2>1. c.pc # "idle" => 1 \in DOMAIN Stages[p]
        BY <1>5, StageCount
    <2>2. Linking(c) => c.pc # "idle"
        BY DEF Linking
    <2>3. \A spv, i : /\ c.pc # "idle" /\ i \in DOMAIN Stages[p] /\ LinkedOwn(spv, p, i, c.fresh)
                      /\ UNCHANGED <<spv, c>>
                      => LinkedOwn(spv, p, i, c.fresh)'
        BY <1>5, LinkedStays
    <2> QED BY <1>5, <2>1, <2>2, <2>3 DEF LinkThread, OwnInv
<1>7. CompiledInv(t)'
    <2> SUFFICES ASSUME ~c.dirty, NEW k \in DOMAIN c.sources
                 PROVE  LinkedOwn(c.sources[k].link, p, c.sources[k].item[2], c.fresh)'
        BY DEF CompiledInv
    <2>1. p \in Pipeline /\ c.sources[k].item[2] \in DOMAIN Stages[p]
        BY DEF SourceInv, Made
    <2>2. LinkedOwn(c.sources[k].link, p, c.sources[k].item[2], c.fresh)
        BY DEF LinkThread, CompiledInv
    <2>3. \A spv, i, fresh : i \in DOMAIN Stages[p] /\ LinkedOwn(spv, p, i, fresh) => LinkedOwn(spv, p, i, fresh)'
        BY <2>1, LinkedStays
    <2> QED BY <2>1, <2>2, <2>3
<1> QED BY <1>1, <1>2, <1>3, <1>4, <1>6, <1>7 DEF LinkThread

\* Closing a stage adds its statements to the texts.
LEMMA ClosedLinks ==
    ASSUME TypeInv, NEW t \in Thread, ShapeInv(t), LinkThread(t), NEW r, r = Closed(parser[t], numthreads[t])
    PROVE  /\ r.structure = NoStatements
           /\ Known(NoStatements) /\ Pending(t, NoStatements)
           /\ \A k \in DOMAIN r.parseOutputs : Known(r.parseOutputs[k]) /\ Pending(t, r.parseOutputs[k])
<1> DEFINE q == parser[t]
           x == Text(q.structure, q.stage, q.bindless, numthreads[t])
<1>1. q \in ParserType /\ q.parseOutputs \in Seq(TextType) /\ numthreads[t] \in Nat
    BY ParserParts DEF TypeInv
<1>2. /\ Known(q.structure) /\ Pending(t, q.structure)
      /\ \A k \in DOMAIN q.parseOutputs : Known(q.parseOutputs[k]) /\ Pending(t, q.parseOutputs[k])
    BY DEF LinkThread, CalledInv, PendingInv
<1>3. Known(NoStatements) /\ Pending(t, NoStatements)
    BY DEF NoStatements, Known, Pending
<1>4. CASE q.isInShaderParse
    <2>1. r.structure = NoStatements /\ r.parseOutputs = Append(q.parseOutputs, x)
        BY <1>1, <1>4, ClosedFacts
    <2>2. Known(x) /\ Pending(t, x)
        BY <1>2, TextFields DEF Known, Pending
    <2> HIDE DEF x
    <2>3. ASSUME NEW k \in DOMAIN r.parseOutputs
          PROVE  Known(r.parseOutputs[k]) /\ Pending(t, r.parseOutputs[k])
        <3>1. CASE k \in DOMAIN q.parseOutputs
            <4>1. r.parseOutputs[k] = q.parseOutputs[k]
                BY <1>1, <2>1, <3>1
            <4> QED BY <1>2, <3>1, <4>1
        <3>2. CASE k \notin DOMAIN q.parseOutputs
            <4>1. r.parseOutputs[k] = x
                BY <1>1, <2>1, <3>2
            <4> QED BY <2>2, <4>1
        <3> QED BY <3>1, <3>2
    <2> QED BY <1>3, <2>1, <2>3
<1>5. CASE ~q.isInShaderParse
    <2>1. r = q /\ q.structure = NoStatements
        BY <1>1, <1>5, ClosedFacts DEF ShapeInv
    <2> QED BY <1>2, <1>3, <2>1
<1> QED BY <1>4, <1>5

\* A thread out of compile() keeps what its parser has.
LEMMA LinkIdle ==
    ASSUME TypeInv, TypeInv', Grown, NEW t \in Thread, SameItems(t), LinkThread(t), call'[t] = NoCall,
           UNCHANGED begun[t], NEW r, r = parser'[t],
           Known(r.structure)', \A k \in DOMAIN r.parseOutputs : Known(r.parseOutputs[k])',
           Pending(t, r.structure)', \A k \in DOMAIN r.parseOutputs : Pending(t, r.parseOutputs[k])'
    PROVE  LinkThread(t)'
<1>1. /\ call'[t].pc = "idle" /\ ~Linking(call'[t])
      /\ DOMAIN call'[t].outputs = {} /\ DOMAIN call'[t].link = {} /\ DOMAIN call'[t].sources = {}
    BY NoCallFacts DEF Linking
<1>2. CalledInv(t)' /\ PendingInv(t)'
    BY <1>1 DEF CalledInv, PendingInv
<1>3. NumberInv(t)'
    BY <1>1 DEF LinkThread, NumberInv, SameItems
<1>4. FreshInv(t)' /\ OwnInv(t)' /\ CompiledInv(t)'
    BY <1>1 DEF FreshInv, OwnInv, CompiledInv
<1> QED BY <1>2, <1>3, <1>4 DEF LinkThread

LEMMA SameHardcode ==
    ASSUME TypeInv, UNCHANGED hardcode
    PROVE  \A t : SameItems(t)
BY DEF SameItems

\* What the parser has after a lambda was run.
LEMMA RunLinks ==
    ASSUME TypeInv, TypeInv', Grown, ItemsInv, NEW t \in Thread, NEW p \in Pipeline, NEW i \in DOMAIN Stages[p],
           call[t].pipeline = p, call[t].i = i, ShapeInv(t), LinkThread(t),
           NEW l \in {Nothing, LambdaOf[p][i]}, NEW done \in BOOLEAN, Run(t, l, done),
           NEW r, r = parser'[t]
    PROVE  /\ SameItems(t)
           /\ Known(r.structure)' /\ Pending(t, r.structure)'
           /\ \A k \in DOMAIN r.parseOutputs : Known(r.parseOutputs[k])' /\ Pending(t, r.parseOutputs[k])'
<1> DEFINE z == Closed(parser[t], numthreads[t])
<1>1. /\ r.parseOutputs = z.parseOutputs /\ r.structure.calls = l.calls /\ UNCHANGED hardcode
      /\ \A f \in l.calls : built'[f] # {}
    <2>1. /\ parser'[t].parseOutputs = Closed(parser[t], numthreads[t]).parseOutputs
          /\ parser'[t].structure.calls = l.calls /\ UNCHANGED hardcode
        BY RunFacts
    <2>2. \A f \in l.calls : built'[f] # {}
        BY RunFacts
    <2> QED BY <2>1, <2>2
<1>2. /\ r.structure.spv \subseteq l.calls
      /\ \A f \in Function : built'[f] = built[f] \cup (IF f \in r.structure.spv THEN {t} ELSE {})
      /\ \A f \in r.structure.spv : t \notin built[f]
    <2>1. /\ parser'[t].structure.spv \subseteq l.calls
          /\ \A f \in parser'[t].structure.spv : t \notin built[f]
        BY RunFacts
    <2>2. \A f \in Function : built'[f] = built[f] \cup (IF f \in parser'[t].structure.spv THEN {t} ELSE {})
        BY RunFacts
    <2> QED BY <2>1, <2>2
<1>3. SameItems(t) /\ l.calls \subseteq Function
    BY <1>1, SameHardcode, StageFacts, LambdaFacts, NothingFacts
<1>4. Known(r.structure)'
    BY <1>1 DEF Known
<1>5. Pending(t, r.structure)'
    <2> SUFFICES ASSUME NEW g \in r.structure.spv, Own(t, g)', NEW k \in DOMAIN hardcode
                 PROVE  g \notin hardcode[k].text.calls
        BY <1>1, <1>2 DEF Pending, Untouched
    <2>1. built[g] = {}
        BY <1>2, <1>3 DEF Own
    <2> QED BY <2>1 DEF ItemsInv, Known
<1>6. \A k \in DOMAIN r.parseOutputs : Known(r.parseOutputs[k])' /\ Pending(t, r.parseOutputs[k])'
    <2> SUFFICES ASSUME NEW k \in DOMAIN z.parseOutputs
                 PROVE  Known(r.parseOutputs[k])' /\ Pending(t, r.parseOutputs[k])'
        BY <1>1
    <2> DEFINE x == z.parseOutputs[k]
    <2>1. Known(x) /\ Pending(t, x)
        BY ClosedLinks
    <2>2. x.calls \subseteq Function /\ x.spv \subseteq Function
        <3>1. z \in ParserType
            BY ClosedFacts DEF TypeInv
        <3>2. z.parseOutputs \in Seq(TextType)
            <4> HIDE DEF z
            <4> QED BY <3>1 DEF ParserType
        <3>3. x \in TextType
            <4> HIDE DEF z
            <4> QED BY <3>2
        <3> HIDE DEF x
        <3> QED BY <3>3 DEF TextType
    <2>3. r.parseOutputs[k] = x /\ parser'[t] = r
        BY <1>1
    <2>4. r.parseOutputs[k].calls \subseteq Function /\ r.parseOutputs[k].spv \subseteq Function
          /\ Known(r.parseOutputs[k]) /\ Pending(t, r.parseOutputs[k])
        BY <2>1, <2>2, <2>3
    <2> QED BY <1>3, <2>4, KnownStays, PendingStays DEF Pending
<1> QED BY <1>3, <1>4, <1>5, <1>6

LEMMA LinkBegin ==
    ASSUME TypeInv, TypeInv', Grown, NEW t \in Thread, NEW p \in Pipeline, ThreadInv(t), LinkThread(t), Begin(t, p)
    PROVE  LinkThread(t)'
<1> DEFINE c == call'[t]
           q == parser[t]
           r == parser'[t]
<1>1. /\ c.pc = "stage" /\ c.pass = 1 /\ c.i = 1 /\ DOMAIN c.outputs = {} /\ DOMAIN c.link = {}
      /\ DOMAIN c.sources = {} /\ c.fresh = {f \in Function : built[f] = {}}
    <2>1. c = [NoCall EXCEPT !.pc = "stage", !.pipeline = p, !.dirty = parser[t].isInShaderParse,
                             !.fresh = {f \in Function : built[f] = {}}]
        BY DEF Begin, TypeInv
    <2> QED BY <2>1, NoCallFacts DEF CallType
<1>2. r.structure = q.structure /\ r.parseOutputs = q.parseOutputs
    BY DEF Begin, TypeInv, ParserType
<1>3. begun'[t] = begun[t] + 1 /\ begun[t] \in Nat /\ UNCHANGED <<built, hardcode>>
    BY DEF Begin, TypeInv, globalVars
<1>4. \A k \in DOMAIN hardcode : hardcode[k].number \in Nat
    BY HardcodeParts
<1> HIDE DEF c, r
<1>5. CalledInv(t)' /\ PendingInv(t)'
    BY <1>1, <1>2, <1>3 DEF LinkThread, CalledInv, PendingInv, Known, Pending, Untouched, Own, c, r
<1>6. NumberInv(t)'
    <2>1. ~Linking(c)
        BY <1>1 DEF Linking
    <2> QED BY <1>1, <1>3, <1>4, <2>1 DEF LinkThread, NumberInv, c
<1>7. FreshInv(t)'
    BY <1>1, <1>3 DEF FreshInv, c
<1>8. OwnInv(t)' /\ CompiledInv(t)'
    BY <1>1 DEF OwnInv, CompiledInv, Linking, c
<1> QED BY <1>5, <1>6, <1>7, <1>8 DEF LinkThread

LEMMA LinkThrows ==
    ASSUME TypeInv, TypeInv', Grown, ItemsInv, NEW t \in Thread, ThreadInv(t), LinkThread(t), LambdaThrows(t)
    PROVE  LinkThread(t)'
<1>1. PICK p \in Pipeline : p = call[t].pipeline /\ call[t].i \in DOMAIN Stages[p]
    BY DEF LambdaThrows, ThreadInv, ShapeInv
<1>2. PICK i \in DOMAIN Stages[p] : call[t].i = i
    BY <1>1
<1>3. PICK l \in {Nothing, LambdaOf[p][i]} : Run(t, l, FALSE)
    BY <1>1, <1>2 DEF LambdaThrows, Lambda
<1>4. PICK done \in BOOLEAN : done = FALSE
    OBVIOUS
<1>5. PICK r : r = parser'[t]
    OBVIOUS
<1>6. /\ SameItems(t)
      /\ Known(r.structure)' /\ Pending(t, r.structure)'
      /\ \A k \in DOMAIN r.parseOutputs : Known(r.parseOutputs[k])' /\ Pending(t, r.parseOutputs[k])'
    BY <1>1, <1>2, <1>3, <1>4, <1>5, RunLinks DEF ThreadInv
<1>7. call'[t] = NoCall /\ begun' = begun
    BY <1>3 DEF LambdaThrows, Leave, Run, TypeInv
<1> QED BY <1>5, <1>6, <1>7, LinkIdle

LEMMA LinkRefuse ==
    ASSUME TypeInv, TypeInv', Grown, NEW t \in Thread, ThreadInv(t), LinkThread(t), RefuseReturn(t)
    PROVE  LinkThread(t)'
<1> DEFINE q == parser[t]
           z == Closed(q, numthreads[t])
<1>0. PICK r : r = parser'[t]
    OBVIOUS
<1>1. PICK p \in Pipeline : p = call[t].pipeline /\ call[t].i \in DOMAIN Stages[p]
    BY DEF RefuseReturn, ThreadInv, ShapeInv
<1>2. Stage(call[t]) \in StageName
    BY <1>1, StageFacts DEF Stage, StageName
<1>3. r.structure = z.structure /\ r.parseOutputs = z.parseOutputs
    <2>1. q \in ParserType /\ numthreads[t] \in Nat
        BY DEF TypeInv
    <2>2. r = Opened(q, Stage(call[t]), numthreads[t])
        BY <1>0 DEF RefuseReturn, TypeInv
    <2> QED BY <1>2, <2>1, <2>2, OpenedFacts
<1>4. call'[t] = NoCall /\ UNCHANGED <<begun, built, hardcode>>
    BY DEF RefuseReturn, Leave, TypeInv, globalVars
<1>5. /\ Known(z.structure) /\ Pending(t, z.structure)
      /\ \A k \in DOMAIN z.parseOutputs : Known(z.parseOutputs[k]) /\ Pending(t, z.parseOutputs[k])
    BY ClosedLinks DEF ThreadInv
<1> HIDE DEF z, q
<1>6. /\ Known(r.structure)' /\ Pending(t, r.structure)'
      /\ \A k \in DOMAIN r.parseOutputs : Known(r.parseOutputs[k])' /\ Pending(t, r.parseOutputs[k])'
    BY <1>3, <1>4, <1>5 DEF Known, Pending, Untouched, Own
<1> QED BY <1>0, <1>4, <1>6, LinkIdle, SameHardcode

\* Leaving the compiler.
LEMMA LinkLeave ==
    ASSUME TypeInv, TypeInv', Grown, NEW t \in Thread, LinkThread(t), Leave(t), UNCHANGED <<parser, built, hardcode, begun>>
    PROVE  LinkThread(t)'
<1>1. call'[t] = NoCall
    BY DEF Leave, TypeInv
<1>2. LET r == parser[t]
      IN  /\ Known(r.structure)' /\ Pending(t, r.structure)'
          /\ \A k \in DOMAIN r.parseOutputs : Known(r.parseOutputs[k])' /\ Pending(t, r.parseOutputs[k])'
    BY DEF LinkThread, CalledInv, PendingInv, Known, Pending, Untouched, Own
<1> QED BY <1>1, <1>2, LinkIdle, SameHardcode

LEMMA LinkRunStage ==
    ASSUME TypeInv, TypeInv', Grown, ItemsInv, NEW t \in Thread, ThreadInv(t), LinkThread(t), RunStage(t)
    PROVE  LinkThread(t)'
<1>0. PICK q, c, d, z, r : /\ q = parser[t] /\ c = call[t] /\ d = call'[t] /\ r = parser'[t]
                            /\ z = Closed(q, numthreads[t])
    OBVIOUS
<1>1. PICK p \in Pipeline : p = c.pipeline /\ User[p] = t /\ c.i \in DOMAIN Stages[p] /\ c.pc = "stage"
    BY <1>0 DEF RunStage, ThreadInv, ShapeInv
<1>2. PICK i \in DOMAIN Stages[p] : c.i = i
    BY <1>1
<1> DEFINE l == LambdaOf[p][i]
<1>3. r = parser'[t]
    BY <1>0
<1>4. /\ SameItems(t)
      /\ Known(r.structure)' /\ Pending(t, r.structure)'
      /\ \A k \in DOMAIN r.parseOutputs : Known(r.parseOutputs[k])' /\ Pending(t, r.parseOutputs[k])'
      /\ r.parseOutputs = z.parseOutputs /\ r.structure.spv \subseteq l.calls
      /\ \A f \in Function : built'[f] = built[f] \cup (IF f \in r.structure.spv THEN {t} ELSE {})
      /\ \A f \in l.calls : built[f] = {} => f \in r.structure.spv
      /\ UNCHANGED <<begun, hardcode>>
    <2>1. PICK done \in BOOLEAN : done = TRUE
        OBVIOUS
    <2>2. Run(t, l, done) /\ call[t].pipeline = p /\ call[t].i = i /\ ShapeInv(t) /\ l \in {Nothing, LambdaOf[p][i]}
        BY <1>0, <1>1, <1>2, <2>1 DEF RunStage, Lambda, ThreadInv
    <2> HIDE DEF l
    <2>3. /\ SameItems(t)
          /\ Known(r.structure)' /\ Pending(t, r.structure)'
          /\ \A k \in DOMAIN r.parseOutputs : Known(r.parseOutputs[k])' /\ Pending(t, r.parseOutputs[k])'
        BY <1>3, <2>2, RunLinks
    <2>4. /\ parser'[t].parseOutputs = Closed(parser[t], numthreads[t]).parseOutputs
          /\ parser'[t].structure.spv \subseteq l.calls
          /\ \A f \in l.calls : built[f] = {} => f \in parser'[t].structure.spv
          /\ UNCHANGED <<begun, hardcode>>
        BY <2>2, RunFacts
    <2>5. \A f \in Function : built'[f] = built[f] \cup (IF f \in parser'[t].structure.spv THEN {t} ELSE {})
        BY <2>2, RunFacts
    <2> QED BY <1>0, <2>3, <2>4, <2>5
<1>5. /\ d.pipeline = p /\ d.pass = c.pass /\ d.dirty = c.dirty /\ d.fresh = c.fresh /\ d.outputs = c.outputs
      /\ d.link = c.link /\ d.sources = c.sources /\ c.fresh \subseteq Function
      /\ \/ i = 1 /\ DOMAIN Stages[p] = {1, 2} /\ d.pc = "stage" /\ d.i = 2
         \/ i = 1 /\ DOMAIN Stages[p] = {1} /\ d.pc = "end" /\ d.i = 1
         \/ i = 2 /\ DOMAIN Stages[p] = {1, 2} /\ d.pc = "end" /\ d.i = 2
    <2>1. c \in CallType /\ call \in [Thread -> CallType]
        BY <1>0 DEF TypeInv
    <2>2. call' = [call EXCEPT ![t] = IF i < Len(Stages[p]) THEN [c EXCEPT !.i = @ + 1] ELSE [c EXCEPT !.pc = "end"]]
        BY <1>0, <1>1, <1>2 DEF RunStage
    <2>3. \/ d = [c EXCEPT !.pc = "end"] /\ i = 1 /\ DOMAIN Stages[p] = {1}
          \/ d = [c EXCEPT !.i = @ + 1] /\ i = 1 /\ DOMAIN Stages[p] = {1, 2}
          \/ d = [c EXCEPT !.pc = "end"] /\ i = 2 /\ DOMAIN Stages[p] = {1, 2}
        <3>1. CASE Len(Stages[p]) = 1 /\ DOMAIN Stages[p] = {1}
            BY <1>0, <2>1, <2>2, <3>1
        <3>2. CASE i = 1 /\ Len(Stages[p]) = 2 /\ DOMAIN Stages[p] = {1, 2}
            BY <1>0, <2>1, <2>2, <3>2
        <3>3. CASE i = 2 /\ Len(Stages[p]) = 2 /\ DOMAIN Stages[p] = {1, 2}
            BY <1>0, <2>1, <2>2, <3>3
        <3> QED BY <3>1, <3>2, <3>3, StageCount
    <2> QED BY <1>1, <1>2, <2>1, <2>3 DEF CallType
<1>6. l.calls \subseteq Function
    BY StageFacts, LambdaFacts
<1> HIDE DEF l
<1>7. CalledInv(t)' /\ PendingInv(t)'
    <2>1. \A k \in DOMAIN d.outputs : Known(d.outputs[k])'
        <3>1. \A k \in DOMAIN c.outputs : Known(c.outputs[k]) /\ c.outputs[k].calls \subseteq Function
            BY <1>0, FunctionParts DEF LinkThread, CalledInv
        <3> QED BY <1>5, <3>1, KnownStays
    <2>2. \A j \in DOMAIN d.link : \A g \in d.link[j] : NewTo(t, g)'
        <3>1. \A j \in DOMAIN c.link : c.link[j] \subseteq Function /\ \A g \in c.link[j] : NewTo(t, g)
            BY <1>0, FunctionParts DEF LinkThread, PendingInv
        <3> QED BY <1>4, <1>5, <3>1, PendingStays
    <2> QED BY <1>0, <1>3, <1>4, <2>1, <2>2 DEF CalledInv, PendingInv
<1>8. NumberInv(t)'
    <2>1. Linking(d) => Linking(c)
        BY <1>1, <1>5 DEF Linking
    <2> QED BY <1>0, <1>1, <1>4, <1>5, <2>1 DEF LinkThread, NumberInv
<1>9. FreshInv(t)'
    <2> SUFFICES ASSUME d.pc = "stage", d.pass = 1, NEW g \in d.fresh, t \in built'[g]
                 PROVE  \E j \in 1 .. d.i - 1 : g \in LambdaOf[p][j].calls
        BY <1>0, <1>5 DEF FreshInv
    <2>1. i = 1 /\ d.i = 2 /\ g \in Function /\ g \in c.fresh
        BY <1>5
    <2>2. t \notin built[g]
        BY <1>0, <1>1, <1>2, <1>5, <2>1 DEF LinkThread, FreshInv
    <2>3. g \in LambdaOf[p][1].calls
        BY <1>4, <2>1, <2>2 DEF l
    <2> QED BY <2>1, <2>3
<1>10. ASSUME c.pass = 1
       PROVE  LinkedOwn(r.structure.spv, p, i, c.fresh)'
    <2> SUFFICES ASSUME NEW g \in l.calls, g \in c.fresh, Own(t, g)', g \notin r.structure.spv
                 PROVE  \E j \in 1 .. i - 1 : g \in LambdaOf[p][j].calls
        BY <1>0, <1>1, <1>3, <1>4, <1>5 DEF LinkedOwn, l
    <2>1. t \in built[g]
        BY <1>4, <1>6 DEF Own
    <2> QED BY <1>0, <1>1, <1>2, <1>10, <2>1 DEF LinkThread, FreshInv
<1>11. OwnInv(t)'
    <2> SUFFICES ASSUME ~c.dirty
                 PROVE  /\ d.pc = "stage" /\ d.pass = 1 /\ d.i = 2 => LinkedOwn(r.structure.spv, p, 1, c.fresh)'
                        /\ d.pc = "end" /\ d.pass = 1 =>
                             /\ LinkedOwn(r.structure.spv, p, d.i, c.fresh)'
                             /\ d.i = 2 => LinkedOwn(r.parseOutputs[1].spv, p, 1, c.fresh)'
                        /\ Linking(d) => \A j \in DOMAIN Stages[p] : LinkedOwn(d.link[j], p, j, c.fresh)'
        BY <1>0, <1>3, <1>5 DEF OwnInv
    <2>1. ASSUME c.pass = 1, i = 2
          PROVE  LinkedOwn(r.parseOutputs[1].spv, p, 1, c.fresh)'
        <3>1. q.isInShaderParse /\ q.parseOutputs = <<>> /\ LinkedOwn(q.structure.spv, p, 1, c.fresh)
            BY <1>0, <1>1, <1>2, <2>1 DEF ThreadInv, ShapeInv, CleanInv, Clean, LinkThread, OwnInv
        <3>2. q \in ParserType /\ numthreads[t] \in Nat
            BY <1>0 DEF TypeInv
        <3>3. z.parseOutputs = Append(<<>>, Text(q.structure, q.stage, q.bindless, numthreads[t]))
            BY <1>0, <3>1, <3>2, ClosedFacts
        <3>4. z.parseOutputs[1] = Text(q.structure, q.stage, q.bindless, numthreads[t])
            BY <3>3
        <3>5. r.parseOutputs[1].spv = q.structure.spv
            BY <1>4, <3>4, TextFields
        <3>6. 1 \in DOMAIN Stages[p]
            BY <1>2, StageCount
        <3>7. LinkedOwn(q.structure.spv, p, 1, c.fresh)'
            <4>1. \A spv, fresh : LinkedOwn(spv, p, 1, fresh) => LinkedOwn(spv, p, 1, fresh)'
                BY <3>6, LinkedStays
            <4> QED BY <3>1, <4>1
        <3> QED BY <3>5, <3>7
    <2>2. ASSUME Linking(d)
          PROVE  \A j \in DOMAIN Stages[p] : LinkedOwn(d.link[j], p, j, c.fresh)'
        <3>1. Linking(c)
            BY <1>1, <1>5, <2>2 DEF Linking
        <3>2. \A j \in DOMAIN Stages[p] : LinkedOwn(c.link[j], p, j, c.fresh)
            BY <1>0, <1>1, <3>1 DEF LinkThread, OwnInv
        <3>3. \A spv, fresh : \A j \in DOMAIN Stages[p] : LinkedOwn(spv, p, j, fresh) => LinkedOwn(spv, p, j, fresh)'
            BY LinkedStays
        <3> QED BY <1>5, <3>2, <3>3
    <2> QED BY <1>5, <1>10, <2>1, <2>2
<1>12. CompiledInv(t)'
    <2> SUFFICES ASSUME ~c.dirty, NEW k \in DOMAIN c.sources
                 PROVE  LinkedOwn(c.sources[k].link, p, c.sources[k].item[2], c.fresh)'
        BY <1>0, <1>5 DEF CompiledInv
    <2>1. c.sources[k].item[2] \in DOMAIN Stages[p]
        BY <1>0, <1>1 DEF ThreadInv, SourceInv, Made
    <2>2. LinkedOwn(c.sources[k].link, p, c.sources[k].item[2], c.fresh)
        BY <1>0, <1>1 DEF LinkThread, CompiledInv
    <2>3. \A spv, fresh : \A j \in DOMAIN Stages[p] : LinkedOwn(spv, p, j, fresh) => LinkedOwn(spv, p, j, fresh)'
        BY LinkedStays
    <2> QED BY <2>1, <2>2, <2>3
<1> QED BY <1>7, <1>8, <1>9, <1>11, <1>12 DEF LinkThread

\* The globals in front of a text change neither its calls nor their SPIR-V.
LEMMA OutputsLinks ==
    ASSUME TypeInv, NEW t \in Thread, NEW k \in DOMAIN Outputs(t)
    PROVE  LET z == Closed(parser[t], numthreads[t])
           IN  /\ k \in DOMAIN z.parseOutputs
               /\ Outputs(t)[k].calls = z.parseOutputs[k].calls /\ Outputs(t)[k].spv = z.parseOutputs[k].spv
<1> DEFINE z == Closed(parser[t], numthreads[t])
           decls == Declarations(Globals(t), permissions, z.bindless)
<1>1. z \in ParserType
    BY ClosedFacts DEF TypeInv
<1> HIDE DEF z, decls
<1>2. z.parseOutputs \in Seq(TextType)
    BY <1>1 DEF ParserType
<1>3. k \in DOMAIN z.parseOutputs
    BY OutputsType DEF z
<1>4. Outputs(t)[k] = WithGlobals(z.parseOutputs[k], decls, FunctionsOf(t))
    BY <1>3 DEF Outputs, z, decls
<1>5. z.parseOutputs[k] \in TextType
    BY <1>2, <1>3
<1>6. Outputs(t)[k].calls = z.parseOutputs[k].calls /\ Outputs(t)[k].spv = z.parseOutputs[k].spv
    BY <1>4, <1>5 DEF WithGlobals, TextType
<1> QED BY <1>3, <1>6 DEF z

LEMMA LinkEnd ==
    ASSUME TypeInv, TypeInv', Grown, NEW t \in Thread, ThreadInv(t), ThreadInv(t)', LinkThread(t), EndPipelineParse(t)
    PROVE  LinkThread(t)'
<1>0. PICK q, c, d, z, r : /\ q = parser[t] /\ c = call[t] /\ d = call'[t] /\ r = parser'[t]
                            /\ z = Closed(q, numthreads[t])
    OBVIOUS
<1>1. PICK p \in Pipeline : p = c.pipeline /\ User[p] = t /\ c.i \in DOMAIN Stages[p] /\ c.pc = "end"
    BY <1>0 DEF EndPipelineParse, ThreadInv, ShapeInv
<1>2. UNCHANGED <<built, hardcode, begun>> /\ r = [z EXCEPT !.parseOutputs = <<>>]
    BY <1>0 DEF EndPipelineParse, TypeInv
<1>3. z \in ParserType
    BY <1>0, ClosedFacts DEF TypeInv
<1>4. r.structure = z.structure /\ r.parseOutputs = <<>>
    BY <1>2, <1>3 DEF ParserType
<1>5. PICK outputs : outputs = Outputs(t)
    OBVIOUS
<1>6. PICK link : /\ link = IF c.pass = 1 THEN [i \in DOMAIN Stages[p] |-> outputs[i].spv] ELSE c.link
                  /\ call' = [call EXCEPT ![t] = [c EXCEPT !.pc = "compile", !.i = 1, !.outputs = outputs, !.link = link]]
    <2>1. PICK link : /\ link = IF call[t].pass = 1
                                THEN [i \in DOMAIN Stages[call[t].pipeline] |-> Outputs(t)[i].spv] ELSE call[t].link
                      /\ call' = [call EXCEPT ![t] = [call[t] EXCEPT !.pc = "compile", !.i = 1,
                                                                     !.outputs = Outputs(t), !.link = link]]
        BY EndedCall
    <2>2. link = IF c.pass = 1 THEN [i \in DOMAIN Stages[p] |-> outputs[i].spv] ELSE c.link
        BY <1>0, <1>1, <1>5, <2>1
    <2>3. call' = [call EXCEPT ![t] = [c EXCEPT !.pc = "compile", !.i = 1, !.outputs = outputs, !.link = link]]
        BY <1>0, <1>5, <2>1
    <2> QED BY <2>2, <2>3
<1>7. /\ d.pc = "compile" /\ d.pipeline = p /\ d.pass = c.pass /\ d.dirty = c.dirty /\ d.fresh = c.fresh
      /\ d.outputs = outputs /\ d.link = link /\ d.sources = c.sources /\ c.fresh \subseteq Function
    <2>1. c \in CallType /\ call \in [Thread -> CallType]
        BY <1>0 DEF TypeInv
    <2>2. d = [c EXCEPT !.pc = "compile", !.i = 1, !.outputs = outputs, !.link = link]
        BY <1>0, <1>6, <2>1
    <2> QED BY <1>1, <2>1, <2>2 DEF CallType
<1>8. /\ z.structure = NoStatements /\ Known(z.structure) /\ Pending(t, z.structure)
      /\ \A k \in DOMAIN z.parseOutputs : Known(z.parseOutputs[k]) /\ Pending(t, z.parseOutputs[k])
    BY <1>0, ClosedLinks DEF ThreadInv
<1>9. \A k \in DOMAIN outputs : /\ k \in DOMAIN z.parseOutputs
                                 /\ outputs[k].calls = z.parseOutputs[k].calls /\ outputs[k].spv = z.parseOutputs[k].spv
    BY <1>0, <1>5, OutputsLinks
<1>10. DOMAIN Stages[p] \subseteq DOMAIN outputs
    BY <1>0, <1>1, <1>5, OutputsCount DEF ThreadInv
<1>11. c.pass = 1 => \A i \in DOMAIN Stages[p] : i \in DOMAIN outputs /\ link[i] = z.parseOutputs[i].spv
    BY <1>6, <1>9, <1>10
<1>12. c.pass # 1 => Linking(c) /\ link = c.link
    BY <1>0, <1>1, <1>6 DEF Linking, TypeInv, CallType
<1>13. DOMAIN link = DOMAIN Stages[p]
    BY <1>0, <1>1, <1>6, <1>12 DEF ThreadInv, ShapeInv
<1>14. CalledInv(t)'
    BY <1>0, <1>2, <1>4, <1>7, <1>8, <1>9 DEF CalledInv, Known
<1>15. PendingInv(t)'
    <2>1. \A k \in DOMAIN hardcode : User[hardcode[k].item[1]] = t /\ c.pass = 1 => hardcode[k].number # begun[t]
        <3>1. \A k \in DOMAIN hardcode : hardcode[k].number \in Nat /\ begun[t] \in Nat
            BY HardcodeParts DEF TypeInv
        <3> QED BY <1>0, <1>1, <3>1 DEF LinkThread, NumberInv
    <2>2. ASSUME NEW i \in DOMAIN link, NEW g \in link[i]
          PROVE  NewTo(t, g)'
        <3>1. CASE c.pass = 1
            <4>1. g \in z.parseOutputs[i].spv /\ i \in DOMAIN z.parseOutputs
                BY <1>9, <1>11, <1>13, <2>2, <3>1
            <4>2. Untouched(t, g)
                BY <1>8, <4>1 DEF Pending
            <4> QED BY <1>2, <4>2 DEF Untouched, NewTo, Own
        <3>2. CASE c.pass # 1
            <4>1. NewTo(t, g)
                BY <1>0, <1>12, <2>2, <3>2 DEF LinkThread, PendingInv
            <4> QED BY <1>2, <4>1 DEF NewTo, Own
        <3> QED BY <3>1, <3>2
    <2>3. Pending(t, r.structure)'
        BY <1>2, <1>4, <1>8 DEF Pending, Untouched, Own
    <2> QED BY <1>0, <1>4, <1>7, <2>2, <2>3 DEF PendingInv
<1>16. NumberInv(t)'
    <2> SUFFICES ASSUME NEW k \in DOMAIN hardcode, User[hardcode[k].item[1]] = t
                 PROVE  /\ hardcode[k].number <= begun[t]
                        /\ hardcode[k].number = begun[t] => hardcode[k].link = link[hardcode[k].item[2]]
        BY <1>0, <1>2, <1>7 DEF NumberInv
    <2>1. hardcode[k].number \in Nat /\ begun[t] \in Nat
        BY HardcodeParts DEF TypeInv
    <2>2. /\ hardcode[k].number <= begun[t]
          /\ c.pass = 1 => hardcode[k].number < begun[t]
          /\ Linking(c) /\ hardcode[k].number = begun[t] => hardcode[k].link = c.link[hardcode[k].item[2]]
        BY <1>0, <1>1 DEF LinkThread, NumberInv
    <2> QED BY <1>12, <2>1, <2>2
<1>17. FreshInv(t)'
    BY <1>0, <1>7 DEF FreshInv
<1>18. OwnInv(t)'
    <2> SUFFICES ASSUME ~c.dirty, NEW i \in DOMAIN Stages[p]
                 PROVE  LinkedOwn(link[i], p, i, c.fresh)'
        BY <1>0, <1>7 DEF OwnInv
    <2>1. LinkedOwn(link[i], p, i, c.fresh)
        <3>1. CASE c.pass = 1
            <4>1. /\ LinkedOwn(q.structure.spv, p, c.i, c.fresh)
                  /\ c.i = 2 => LinkedOwn(q.parseOutputs[1].spv, p, 1, c.fresh)
                BY <1>0, <1>1, <3>1 DEF LinkThread, OwnInv
            <4>2. /\ q.isInShaderParse /\ c.i = Len(Stages[p])
                  /\ c.i = 1 => q.parseOutputs = <<>>
                  /\ c.i = 2 => Len(q.parseOutputs) = 1
                BY <1>0, <1>1 DEF ThreadInv, ShapeInv, CleanInv, Clean
            <4>3. /\ q \in ParserType /\ numthreads[t] \in Nat /\ q.parseOutputs \in Seq(TextType)
                BY <1>0, ParserParts DEF TypeInv
            <4>4. PICK x : /\ x = Text(q.structure, q.stage, q.bindless, numthreads[t])
                           /\ z.parseOutputs = Append(q.parseOutputs, x)
                BY <1>0, <4>2, <4>3, ClosedFacts
            <4>5. x.spv = q.structure.spv
                BY <4>4, TextFields
            <4>6. CASE c.i = 1
                <5>1. z.parseOutputs[1] = x
                    <6>1. z.parseOutputs = Append(<<>>, x)
                        BY <4>2, <4>4, <4>6
                    <6> QED BY <6>1
                <5>2. i = 1
                    BY <4>2, <4>6, StageCount
                <5> QED BY <1>11, <3>1, <4>1, <4>5, <4>6, <5>1, <5>2
            <4>7. CASE c.i = 2
                <5>1. (i = 1 \/ i = 2) /\ z.parseOutputs[1] = q.parseOutputs[1] /\ z.parseOutputs[2] = x
                    BY <4>2, <4>3, <4>4, <4>7, StageCount
                <5> QED BY <1>11, <3>1, <4>1, <4>5, <4>7, <5>1
            <4> QED BY <1>1, <4>6, <4>7, StageCount
        <3>2. CASE c.pass # 1
            BY <1>0, <1>1, <1>12, <3>2 DEF LinkThread, OwnInv
        <3> QED BY <3>1, <3>2
    <2> QED BY <2>1, LinkedStays
<1>19. CompiledInv(t)'
    <2> SUFFICES ASSUME ~c.dirty, NEW k \in DOMAIN c.sources
                 PROVE  LinkedOwn(c.sources[k].link, p, c.sources[k].item[2], c.fresh)'
        BY <1>0, <1>7 DEF CompiledInv
    <2>1. c.sources[k].item[2] \in DOMAIN Stages[p]
        BY <1>0, <1>1 DEF ThreadInv, SourceInv, Made
    <2>2. LinkedOwn(c.sources[k].link, p, c.sources[k].item[2], c.fresh)
        BY <1>0, <1>1 DEF LinkThread, CompiledInv
    <2>3. \A spv, fresh : \A j \in DOMAIN Stages[p] : LinkedOwn(spv, p, j, fresh) => LinkedOwn(spv, p, j, fresh)'
        BY LinkedStays
    <2> QED BY <2>1, <2>2, <2>3
<1> QED BY <1>14, <1>15, <1>16, <1>17, <1>18, <1>19 DEF LinkThread

\* The items after a stage was compiled.
LEMMA CompiledItems ==
    ASSUME TypeInv, NEW t \in Thread, ThreadInv(t), CompileStage(t), NEW p \in Pipeline, call[t].pipeline = p,
           NEW k \in DOMAIN hardcode'
    PROVE  LET c == call[t]
               e == hardcode'[k]
           IN  \/ k \in DOMAIN hardcode /\ hardcode'[k] = hardcode[k]
               \/ /\ k = Len(hardcode) + 1 /\ e.item[1] = p /\ e.item[2] = c.i /\ e.text = c.outputs[c.i]
                  /\ e.link = c.link[c.i] /\ e.number = begun[t]
<1> DEFINE c == call[t]
           e == [item |-> Item(c), text |-> StageText(c), link |-> Library(c), dirty |-> c.dirty, number |-> begun[t]]
<1>1. /\ hardcode' = (IF Stored(c) THEN Append(hardcode, e) ELSE hardcode) /\ hardcode \in Seq(EntryType)
      /\ Item(c) = <<p, c.i, c.pass>>
    BY CompiledFacts
<1>2. /\ e.item[1] = p /\ e.item[2] = c.i /\ e.text = c.outputs[c.i] /\ e.link = c.link[c.i] /\ e.number = begun[t]
    BY <1>1 DEF StageText, Library
<1> HIDE DEF e, c
<1>3. \/ k \in DOMAIN hardcode /\ hardcode'[k] = hardcode[k]
      \/ k = Len(hardcode) + 1 /\ hardcode'[k] = e
    BY <1>1
<1> QED BY <1>2, <1>3 DEF c

LEMMA LinkCompile ==
    ASSUME TypeInv, TypeInv', NEW t \in Thread, ThreadInv(t), LinkThread(t), CompileStage(t)
    PROVE  LinkThread(t)'
<1>0. PICK c, d : c = call[t] /\ d = call'[t]
    OBVIOUS
<1>1. PICK p \in Pipeline : p = c.pipeline /\ User[p] = t /\ c.i \in DOMAIN Stages[p] /\ c.pc = "compile"
    BY <1>0 DEF CompileStage, ThreadInv, ShapeInv
<1>2. UNCHANGED <<built, begun>> /\ begun[t] \in Nat
    BY DEF CompileStage, globalVars, TypeInv
<1>3. PICK s : s = [item |-> Item(c), text |-> StageText(c), link |-> Library(c), spirv |-> Stored(c)]
    OBVIOUS
<1>4. s.item = <<p, c.i, c.pass>> /\ s.item[2] = c.i /\ s.link = c.link[c.i]
    BY <1>1, <1>3 DEF Item, Library
<1>5. c \in CallType /\ call \in [Thread -> CallType] /\ c.sources \in Seq(SourceType)
    BY <1>0 DEF TypeInv, CallType
<1>6. /\ d.pipeline = p /\ d.dirty = c.dirty /\ d.fresh = c.fresh /\ d.link = c.link
      /\ d.sources = Append(c.sources, s)
      /\ \/ d.pc = c.pc /\ d.pass = c.pass /\ d.outputs = c.outputs
         \/ d.pc = "stage" /\ d.pass = 2 /\ c.pass = 1 /\ d.i = 1 /\ d.outputs = <<>>
         \/ d.pc = "collect" /\ d.pass = c.pass /\ d.outputs = c.outputs
    <2>1. d = NextPass([c EXCEPT !.sources = Append(@, s)])
        BY <1>0, <1>3, <1>5 DEF CompileStage
    <2>2. PICK b : b = [c EXCEPT !.sources = Append(@, s)]
        OBVIOUS
    <2>3. s \in SourceType
        <3>1. Item(c) \in ItemType
            BY <1>1, <1>5, StageCount DEF Item, ItemType, CallType
        <3>2. StageText(c) \in TextType
            <4>1. c.outputs \in Seq(TextType) /\ Len(c.outputs) >= Len(Stages[p])
                BY <1>0, <1>1, <1>5 DEF CallType, ThreadInv, ShapeInv
            <4>2. c.i \in DOMAIN c.outputs
                BY <1>1, <4>1, StageCount
            <4> QED BY <4>1, <4>2 DEF StageText
        <3>3. Library(c) \in SUBSET Function
            <4>1. c.link \in Seq(SUBSET Function) /\ DOMAIN c.link = DOMAIN Stages[p]
                BY <1>0, <1>1, <1>5 DEF CallType, ThreadInv, ShapeInv, Linking
            <4> QED BY <1>1, <4>1 DEF Library
        <3>4. Stored(c) \in BOOLEAN
            BY DEF Stored, Linked
        <3> QED BY <1>3, <3>1, <3>2, <3>3, <3>4 DEF SourceType
    <2>4. Append(c.sources, s) \in Seq(SourceType)
        BY <1>5, <2>3
    <2>5. b \in CallType /\ b.pipeline = p /\ b.i = c.i /\ b.pc = c.pc /\ b.pass = c.pass /\ b.dirty = c.dirty
          /\ b.fresh = c.fresh /\ b.link = c.link /\ b.outputs = c.outputs /\ b.sources = Append(c.sources, s)
        BY <1>1, <1>5, <2>2, <2>4 DEF CallType
    <2>6. d = NextPass(b)
        BY <2>1, <2>2
    <2>7. /\ NextPass(b).pipeline = p /\ NextPass(b).dirty = b.dirty /\ NextPass(b).fresh = b.fresh
          /\ NextPass(b).link = b.link /\ NextPass(b).sources = b.sources
          /\ \/ NextPass(b).pc = b.pc /\ NextPass(b).pass = b.pass /\ NextPass(b).outputs = b.outputs
             \/ /\ NextPass(b).pc = "stage" /\ NextPass(b).pass = 2 /\ b.pass = 1 /\ NextPass(b).i = 1
                /\ NextPass(b).outputs = <<>>
             \/ NextPass(b).pc = "collect" /\ NextPass(b).pass = b.pass /\ NextPass(b).outputs = b.outputs
        BY <1>1, <2>5, NextPassFacts
    <2> QED BY <2>5, <2>6, <2>7
<1>7. Linking(c) /\ Linking(d) /\ d.pc # "end" /\ (d.pc = "stage" => d.pass = 2)
    BY <1>1, <1>6 DEF Linking
<1>8. \A k \in DOMAIN hardcode' :
          LET e == hardcode'[k]
          IN  \/ k \in DOMAIN hardcode /\ hardcode'[k] = hardcode[k]
              \/ e.item[2] = c.i /\ e.link = c.link[c.i] /\ e.number = begun[t] /\ e.text = c.outputs[c.i]
    BY <1>0, <1>1, CompiledItems
<1>9. CalledInv(t)' /\ PendingInv(t)'
    <2>1. parser[t].structure = NoStatements /\ parser[t].parseOutputs = <<>>
        BY <1>0, <1>1 DEF ThreadInv, ShapeInv
    <2>2. parser'[t].structure = NoStatements /\ parser'[t].parseOutputs = <<>>
        <3>1. parser[t] \in ParserType /\ parser \in [Thread -> ParserType]
            BY DEF TypeInv
        <3>2. parser'[t] = parser[t] \/ parser'[t] = [parser[t] EXCEPT !.bindless = TRUE]
            BY <3>1 DEF CompileStage
        <3> QED BY <2>1, <3>1, <3>2 DEF ParserType
    <2>3. \A k \in DOMAIN d.outputs : Known(d.outputs[k])'
        BY <1>0, <1>2, <1>6 DEF LinkThread, CalledInv, Known
    <2>4. ASSUME NEW i \in DOMAIN c.link, NEW g \in c.link[i]
          PROVE  NewTo(t, g)'
        <3>1. NewTo(t, g)
            BY <1>0, <2>4 DEF LinkThread, PendingInv
        <3> QED BY <1>2, <1>8, <3>1 DEF NewTo, Own
    <2> QED BY <1>0, <1>6, <2>2, <2>3, <2>4 DEF CalledInv, PendingInv, Known, Pending, NoStatements
<1>10. NumberInv(t)'
    <2> SUFFICES ASSUME NEW k \in DOMAIN hardcode', User[hardcode'[k].item[1]] = t
                 PROVE  /\ hardcode'[k].number <= begun[t]
                        /\ hardcode'[k].number = begun[t] => hardcode'[k].link = c.link[hardcode'[k].item[2]]
        BY <1>0, <1>2, <1>6, <1>7 DEF NumberInv
    <2> QED BY <1>0, <1>2, <1>7, <1>8 DEF LinkThread, NumberInv
<1>11. FreshInv(t)'
    BY <1>0, <1>7 DEF FreshInv
<1>12. OwnInv(t)'
    <2> SUFFICES ASSUME ~c.dirty, NEW i \in DOMAIN Stages[p]
                 PROVE  LinkedOwn(c.link[i], p, i, c.fresh)'
        BY <1>0, <1>6, <1>7 DEF OwnInv
    <2>1. LinkedOwn(c.link[i], p, i, c.fresh)
        BY <1>0, <1>1, <1>7 DEF LinkThread, OwnInv
    <2> QED BY <1>2, <2>1 DEF LinkedOwn, Own
<1>13. CompiledInv(t)'
    <2> SUFFICES ASSUME ~c.dirty, NEW k \in DOMAIN d.sources
                 PROVE  LinkedOwn(d.sources[k].link, p, d.sources[k].item[2], c.fresh)'
        BY <1>0, <1>6 DEF CompiledInv
    <2>1. LinkedOwn(d.sources[k].link, p, d.sources[k].item[2], c.fresh)
        <3>1. CASE k \in DOMAIN c.sources
            <4>1. d.sources[k] = c.sources[k]
                BY <1>5, <1>6, <3>1
            <4> QED BY <1>0, <1>1, <3>1, <4>1 DEF LinkThread, CompiledInv
        <3>2. CASE k \notin DOMAIN c.sources
            <4>1. d.sources[k] = s
                BY <1>5, <1>6, <3>2
            <4> QED BY <1>0, <1>1, <1>4, <1>7, <4>1 DEF LinkThread, OwnInv
        <3> QED BY <3>1, <3>2
    <2> QED BY <1>2, <2>1 DEF LinkedOwn, Own
<1> QED BY <1>9, <1>10, <1>11, <1>12, <1>13 DEF LinkThread

\* The items, when a stage is compiled.
LEMMA ItemsCompile ==
    ASSUME TypeInv, ItemsInv, NEW t \in Thread, ThreadInv(t), LinkThread(t), CompileStage(t)
    PROVE  ItemsInv'
<1>0. PICK c : c = call[t]
    OBVIOUS
<1>1. PICK p \in Pipeline : p = c.pipeline /\ User[p] = t /\ c.i \in DOMAIN Stages[p] /\ c.pc = "compile"
    BY <1>0 DEF CompileStage, ThreadInv, ShapeInv
<1>2. UNCHANGED built
    BY DEF CompileStage, globalVars
<1>3. \A k \in DOMAIN hardcode' :
          LET e == hardcode'[k]
          IN  \/ k \in DOMAIN hardcode /\ hardcode'[k] = hardcode[k]
              \/ /\ k = Len(hardcode) + 1 /\ e.item[1] = p /\ e.item[2] = c.i /\ e.text = c.outputs[c.i]
                 /\ e.link = c.link[c.i] /\ e.number = begun[t]
    BY <1>0, <1>1, CompiledItems
<1>4. Linking(c) /\ DOMAIN c.link = DOMAIN Stages[p] /\ c.i \in DOMAIN c.outputs
    <2>1. c.outputs \in Seq(TextType)
        BY <1>0 DEF TypeInv, CallType
    <2>2. Linking(c)
        BY <1>1 DEF Linking
    <2>3. DOMAIN c.link = DOMAIN Stages[p] /\ Len(c.outputs) >= Len(Stages[p])
        BY <1>0, <1>1, <2>2 DEF ThreadInv, ShapeInv
    <2> QED BY <1>1, <2>1, <2>2, <2>3, StageCount
<1>5. \A k \in DOMAIN hardcode' : Known(hardcode[k].text)'
    <2>1. Known(c.outputs[c.i])
        BY <1>0, <1>4 DEF LinkThread, CalledInv
    <2> QED BY <1>2, <1>3, <2>1 DEF ItemsInv, Known
<1>6. ASSUME NEW h \in DOMAIN hardcode', NEW k \in 1 .. h - 1, NEW g \in hardcode'[h].link,
             User[hardcode'[k].item[1]] = User[hardcode'[h].item[1]],
             Own(User[hardcode[h].item[1]], g)', g \in hardcode'[k].text.calls
      PROVE  hardcode'[k].number = hardcode'[h].number
    <2>1. Len(hardcode) \in Nat /\ DOMAIN hardcode = 1 .. Len(hardcode)
        BY DEF TypeInv
    <2>2. h \in Nat /\ k \in DOMAIN hardcode /\ hardcode'[k] = hardcode[k]
        <3>1. h \in 1 .. Len(hardcode) + 1
            BY <1>3, <2>1
        <3>2. k \in DOMAIN hardcode
            BY <2>1, <3>1
        <3>3. Len(hardcode') \in Nat /\ DOMAIN hardcode' = 1 .. Len(hardcode')
            <4>1. hardcode' = Appended(t, c) /\ hardcode \in Seq(EntryType)
                BY <1>0 DEF CompileStage, TypeInv
            <4> QED BY <4>1 DEF Appended
        <3>4. k \in DOMAIN hardcode'
            BY <3>1, <3>3
        <3> QED BY <1>3, <2>1, <3>1, <3>2, <3>4
    <2>3. Own(User[hardcode'[h].item[1]], g)
        BY <1>2, <1>6 DEF Own
    <2>4. CASE h \in DOMAIN hardcode /\ hardcode'[h] = hardcode[h]
        BY <1>6, <2>2, <2>3, <2>4 DEF ItemsInv
    <2>5. CASE hardcode'[h].item[1] = p /\ hardcode'[h].link = c.link[c.i] /\ hardcode'[h].number = begun[t]
        <3>1. NewTo(t, g)
            BY <1>0, <1>1, <1>4, <1>6, <2>5 DEF LinkThread, PendingInv
        <3> QED BY <1>1, <1>6, <2>2, <2>3, <2>5, <3>1 DEF NewTo
    <2> QED BY <1>3, <2>4, <2>5
<1>7. ASSUME NEW h \in DOMAIN hardcode', NEW k \in DOMAIN hardcode',
             User[hardcode'[k].item[1]] = User[hardcode'[h].item[1]],
             hardcode'[k].number = hardcode'[h].number, hardcode'[k].item[2] = hardcode'[h].item[2]
      PROVE  hardcode'[k].link = hardcode'[h].link
    <2>1. ASSUME NEW n \in DOMAIN hardcode', User[hardcode'[n].item[1]] = t, hardcode'[n].number = begun[t]
          PROVE  hardcode'[n].link = c.link[hardcode'[n].item[2]]
        BY <1>0, <1>3, <1>4, <2>1 DEF LinkThread, NumberInv
    <2>2. CASE hardcode'[h].item[1] = p /\ hardcode'[h].number = begun[t]
        BY <1>1, <1>7, <2>1, <2>2
    <2>3. CASE hardcode'[k].item[1] = p /\ hardcode'[k].number = begun[t]
        BY <1>1, <1>7, <2>1, <2>3
    <2>4. CASE h \in DOMAIN hardcode /\ hardcode'[h] = hardcode[h] /\ k \in DOMAIN hardcode /\ hardcode'[k] = hardcode[k]
        BY <1>7, <2>4 DEF ItemsInv
    <2> QED BY <1>3, <2>2, <2>3, <2>4
<1> QED BY <1>5, <1>6, <1>7 DEF ItemsInv

\* A step that touches nothing of what a thread links.
LinkApart(u) ==
    /\ UNCHANGED <<parser[u].structure, parser[u].parseOutputs, call[u], begun[u]>>
    /\ SameItems(u) /\ \A g \in Function : u \in built'[g] => u \in built[g]

LEMMA QuietApart ==
    ASSUME TypeInv, NEW u \in Thread, UNCHANGED <<parser[u], call[u], begun[u], built, hardcode>>
    PROVE  LinkApart(u)
BY SameHardcode DEF LinkApart

LEMMA RunLinkApart ==
    ASSUME TypeInv, NEW t \in Thread, NEW u \in Thread, u # t, NEW p \in Pipeline, NEW i \in DOMAIN Stages[p],
           call[t].pipeline = p, call[t].i = i, ShapeInv(t), UNCHANGED call[u],
           NEW l \in {Nothing, LambdaOf[p][i]}, NEW done \in BOOLEAN, Run(t, l, done)
    PROVE  LinkApart(u)
<1>1. \A g \in Function : built'[g] = built[g] \cup (IF g \in parser'[t].structure.spv THEN {t} ELSE {})
    BY RunFacts
<1>2. parser'[u] = parser[u] /\ UNCHANGED <<hardcode, begun>>
    BY RunFacts
<1> QED BY <1>1, <1>2, SameHardcode DEF LinkApart

LEMMA CompileApart ==
    ASSUME TypeInv, NEW t \in Thread, NEW u \in Thread, u # t, ThreadInv(t), CompileStage(t)
    PROVE  LinkApart(u)
<1>1. PICK p \in Pipeline : p = call[t].pipeline /\ User[p] = t
    BY DEF CompileStage, ThreadInv, ShapeInv
<1>2. SameItems(u)
    BY <1>1, CompiledItems DEF SameItems
<1> QED BY <1>2 DEF LinkApart, CompileStage, globalVars, TypeInv

\* One step per action: of the thread itself, and of another one.
LEMMA LinkStep ==
    ASSUME TypeInv, TypeInv', Grown, ItemsInv, \A t \in Thread : ThreadInv(t) /\ ThreadInv(t)' /\ LinkThread(t),
           [Next]_vars, NEW u \in Thread
    PROVE  LinkThread(u)'
<1>0. ASSUME LinkApart(u) PROVE LinkThread(u)'
    BY <1>0, LinkFrame DEF LinkApart, ThreadInv
<1>1. ASSUME NEW t \in Thread, NEW x \in Proxy, Declare(t, x) PROVE LinkThread(u)'
    BY <1>0, <1>1, QuietApart DEF Declare
<1>2. ASSUME NEW t \in Thread, NEW p \in Pipeline, Begin(t, p) PROVE LinkThread(u)'
    <2>1. CASE u = t
        BY <1>2, <2>1, LinkBegin
    <2>2. CASE u # t
        BY <1>0, <1>2, <2>2, QuietApart DEF Begin, globalVars, TypeInv
    <2> QED BY <2>1, <2>2
<1>3. ASSUME NEW t \in Thread, RunStage(t) PROVE LinkThread(u)'
    <2>1. CASE u = t
        BY <1>3, <2>1, LinkRunStage
    <2>2. CASE u # t
        <3>1. PICK p \in Pipeline : p = call[t].pipeline /\ call[t].i \in DOMAIN Stages[p]
            BY <1>3 DEF RunStage, ThreadInv, ShapeInv
        <3>2. Run(t, LambdaOf[p][call[t].i], TRUE) /\ call'[u] = call[u]
            BY <1>3, <2>2, <3>1 DEF RunStage, Lambda, TypeInv
        <3> QED BY <1>0, <2>2, <3>1, <3>2, RunLinkApart DEF ThreadInv
    <2> QED BY <2>1, <2>2
<1>4. ASSUME NEW t \in Thread, LambdaThrows(t) PROVE LinkThread(u)'
    <2>1. CASE u = t
        BY <1>4, <2>1, LinkThrows
    <2>2. CASE u # t
        <3>1. PICK p \in Pipeline : p = call[t].pipeline /\ call[t].i \in DOMAIN Stages[p]
            BY <1>4 DEF LambdaThrows, ThreadInv, ShapeInv
        <3>2. PICK l \in {Nothing, LambdaOf[p][call[t].i]} : Run(t, l, FALSE)
            BY <1>4, <3>1 DEF LambdaThrows, Lambda
        <3>3. call'[u] = call[u]
            BY <1>4, <2>2 DEF LambdaThrows, Leave, TypeInv
        <3>4. CASE l = Nothing
            BY <1>0, <2>2, <3>1, <3>2, <3>3, <3>4, RunLinkApart DEF ThreadInv
        <3>5. CASE l = LambdaOf[p][call[t].i]
            BY <1>0, <2>2, <3>1, <3>2, <3>3, <3>5, RunLinkApart DEF ThreadInv
        <3> QED BY <3>4, <3>5
    <2> QED BY <2>1, <2>2
<1>5. ASSUME NEW t \in Thread, RefuseReturn(t) PROVE LinkThread(u)'
    <2>1. CASE u = t
        BY <1>5, <2>1, LinkRefuse
    <2>2. CASE u # t
        BY <1>0, <1>5, <2>2, QuietApart DEF RefuseReturn, Leave, globalVars, TypeInv
    <2> QED BY <2>1, <2>2
<1>6. ASSUME NEW t \in Thread, EndPipelineParse(t) PROVE LinkThread(u)'
    <2>1. CASE u = t
        BY <1>6, <2>1, LinkEnd
    <2>2. CASE u # t
        BY <1>0, <1>6, <2>2, QuietApart DEF EndPipelineParse, TypeInv
    <2> QED BY <2>1, <2>2
<1>7. ASSUME NEW t \in Thread, CompileFails(t) PROVE LinkThread(u)'
    <2>1. CASE u = t
        BY <1>7, <2>1, LinkLeave DEF CompileFails, globalVars
    <2>2. CASE u # t
        BY <1>0, <1>7, <2>2, QuietApart DEF CompileFails, Leave, globalVars, TypeInv
    <2> QED BY <2>1, <2>2
<1>8. ASSUME NEW t \in Thread, CompileStage(t) PROVE LinkThread(u)'
    <2>1. CASE u = t
        BY <1>8, <2>1, LinkCompile
    <2>2. CASE u # t
        BY <1>0, <1>8, <2>2, CompileApart
    <2> QED BY <2>1, <2>2
<1>9. ASSUME NEW t \in Thread, Collect(t) PROVE LinkThread(u)'
    <2>1. CASE u = t
        BY <1>9, <2>1, LinkLeave DEF Collect, globalVars
    <2>2. CASE u # t
        BY <1>0, <1>9, <2>2, QuietApart DEF Collect, Leave, globalVars, TypeInv
    <2> QED BY <2>1, <2>2
<1>10. CASE UNCHANGED vars
    BY <1>0, <1>10, QuietApart DEF vars, globalVars
<1> QED BY <1>1, <1>2, <1>3, <1>4, <1>5, <1>6, <1>7, <1>8, <1>9, <1>10 DEF Next

LEMMA ItemsStep ==
    ASSUME TypeInv, Grown, ItemsInv, \A t \in Thread : ThreadInv(t) /\ LinkThread(t), [Next]_vars
    PROVE  ItemsInv'
<1>1. CASE hardcode' = hardcode
    <2>1. \A k \in DOMAIN hardcode : Known(hardcode[k].text)'
        <3>1. \A k \in DOMAIN hardcode : hardcode[k].text.calls \subseteq Function
            BY HardcodeParts DEF TextType
        <3> QED BY <1>1, <3>1 DEF ItemsInv, Known, Grown
    <2>2. ASSUME NEW h \in DOMAIN hardcode, NEW k \in 1 .. h - 1, NEW g \in hardcode[h].link,
                 User[hardcode[k].item[1]] = User[hardcode[h].item[1]],
                 Own(User[hardcode[h].item[1]], g)', g \in hardcode[k].text.calls
          PROVE  hardcode[k].number = hardcode[h].number
        <3>1. g \in Function
            BY HardcodeParts
        <3>2. Own(User[hardcode[h].item[1]], g)
            BY <1>1, <2>2, <3>1 DEF Own, Grown
        <3> QED BY <2>2, <3>2 DEF ItemsInv
    <2>3. \A h, k \in DOMAIN hardcode :
              /\ User[hardcode[k].item[1]] = User[hardcode[h].item[1]]
              /\ hardcode[k].number = hardcode[h].number /\ hardcode[k].item[2] = hardcode[h].item[2]
              => hardcode[k].link = hardcode[h].link
        BY DEF ItemsInv
    <2> QED BY <1>1, <2>1, <2>2, <2>3 DEF ItemsInv
<1>2. ASSUME NEW t \in Thread, CompileStage(t) PROVE ItemsInv'
    BY <1>2, ItemsCompile
<1>3. ASSUME NEW t \in Thread, NEW x \in Proxy, Declare(t, x) PROVE hardcode' = hardcode
    BY <1>3 DEF Declare
<1>4. ASSUME NEW t \in Thread, NEW p \in Pipeline, Begin(t, p) PROVE hardcode' = hardcode
    BY <1>4 DEF Begin
<1>5. ASSUME NEW t \in Thread, RunStage(t) \/ LambdaThrows(t) PROVE hardcode' = hardcode
    BY <1>5 DEF RunStage, LambdaThrows, Run
<1>6. ASSUME NEW t \in Thread, RefuseReturn(t) \/ EndPipelineParse(t) PROVE hardcode' = hardcode
    BY <1>6 DEF RefuseReturn, EndPipelineParse
<1>7. ASSUME NEW t \in Thread, CompileFails(t) \/ Collect(t) PROVE hardcode' = hardcode
    BY <1>7 DEF CompileFails, Collect
<1>8. CASE UNCHANGED vars
    BY <1>1, <1>8 DEF vars
<1> QED BY <1>1, <1>2, <1>3, <1>4, <1>5, <1>6, <1>7, <1>8 DEF Next

LEMMA FinishedLinksStep ==
    ASSUME TypeInv, Grown, FinishedInv, FinishedLinks, \A t \in Thread : ThreadInv(t) /\ LinkThread(t), [Next]_vars
    PROVE  FinishedLinks'
<1>1. ASSUME NEW p \in Pipeline, NEW i \in DOMAIN Stages[p]
      PROVE  \A spv, fresh : LinkedOwn(spv, p, i, fresh) => LinkedOwn(spv, p, i, fresh)'
    BY LinkedStays
<1>2. \A f \in finished : ~f.dirty => \A k \in DOMAIN f.sources :
          LinkedOwn(f.sources[k].link, f.pipeline, f.sources[k].item[2], f.fresh)'
    BY <1>1 DEF FinishedLinks, FinishedInv, Made
<1>3. CASE finished' = finished
    BY <1>2, <1>3 DEF FinishedLinks
<1>4. ASSUME NEW t \in Thread, Collect(t) PROVE FinishedLinks'
    <2>0. PICK c : c = call[t]
        OBVIOUS
    <2>1. PICK e : e = [pipeline |-> c.pipeline, number |-> begun[t], dirty |-> c.dirty, fresh |-> c.fresh,
                        sources |-> c.sources, textures |-> BoundTextures(t, c), targets |-> BoundTargets(t, c)]
        OBVIOUS
    <2>2. finished' = finished \cup {e}
        BY <1>4, <2>0, <2>1 DEF Collect
    <2>3. e.pipeline = c.pipeline /\ e.dirty = c.dirty /\ e.sources = c.sources /\ e.fresh = c.fresh
        BY <2>1
    <2>4. ~c.dirty => \A k \in DOMAIN c.sources :
              LinkedOwn(c.sources[k].link, c.pipeline, c.sources[k].item[2], c.fresh)'
        BY <1>1, <2>0 DEF LinkThread, CompiledInv, ThreadInv, SourceInv, Made
    <2> QED BY <1>2, <2>2, <2>3, <2>4 DEF FinishedLinks
<1>5. ASSUME NEW t \in Thread, NEW x \in Proxy, Declare(t, x) PROVE finished' = finished
    BY <1>5 DEF Declare
<1>6. ASSUME NEW t \in Thread, NEW p \in Pipeline, Begin(t, p) PROVE finished' = finished
    BY <1>6 DEF Begin
<1>7. ASSUME NEW t \in Thread, RunStage(t) \/ LambdaThrows(t) PROVE finished' = finished
    BY <1>7 DEF RunStage, LambdaThrows, Run
<1>8. ASSUME NEW t \in Thread, RefuseReturn(t) \/ EndPipelineParse(t) PROVE finished' = finished
    BY <1>8 DEF RefuseReturn, EndPipelineParse
<1>9. ASSUME NEW t \in Thread, CompileFails(t) \/ CompileStage(t) PROVE finished' = finished
    BY <1>9 DEF CompileFails, CompileStage
<1>10. CASE UNCHANGED vars
    BY <1>3, <1>10 DEF vars
<1> QED BY <1>3, <1>4, <1>5, <1>6, <1>7, <1>8, <1>9, <1>10 DEF Next

LEMMA LinkInit == Init => LinkInv
<1> SUFFICES ASSUME Init PROVE LinkInv
    OBVIOUS
<1>1. hardcode = <<>> /\ finished = {}
    BY DEF Init
<1>2. ItemsInv /\ FinishedLinks
    BY <1>1 DEF ItemsInv, FinishedLinks
<1>3. ASSUME NEW t \in Thread PROVE LinkThread(t)
    <2>1. call[t] = NoCall /\ parser[t].structure = NoStatements /\ parser[t].parseOutputs = <<>>
        BY DEF Init
    <2>2. /\ call[t].pc = "idle" /\ ~Linking(call[t])
          /\ DOMAIN call[t].outputs = {} /\ DOMAIN call[t].link = {} /\ DOMAIN call[t].sources = {}
        BY <2>1, NoCallFacts DEF Linking
    <2>3. CalledInv(t) /\ PendingInv(t)
        BY <2>1, <2>2 DEF CalledInv, PendingInv, Known, Pending, NoStatements
    <2>4. NumberInv(t) /\ FreshInv(t) /\ OwnInv(t) /\ CompiledInv(t)
        BY <1>1, <2>2 DEF NumberInv, FreshInv, OwnInv, CompiledInv
    <2> QED BY <2>3, <2>4 DEF LinkThread
<1> QED BY <1>2, <1>3 DEF LinkInv

LEMMA LinkHolds == IInv /\ IInv' /\ LinkInv /\ [Next]_vars => LinkInv'
<1> SUFFICES ASSUME IInv, IInv', LinkInv, [Next]_vars PROVE LinkInv'
    OBVIOUS
<1>1. /\ TypeInv /\ TypeInv' /\ GlobalInv /\ FinishedInv /\ ItemsInv /\ FinishedLinks
      /\ \A t \in Thread : ThreadInv(t) /\ ThreadInv(t)' /\ LinkThread(t)
      /\ \A t \in Thread : ShapeInv(t) /\ SettledInv(t)
    BY DEF IInv, LinkInv, ThreadInv
<1>2. Grown
    BY <1>1, GrowthStep
<1>3. \A t \in Thread : LinkThread(t)'
    BY <1>1, <1>2, LinkStep
<1>4. ItemsInv'
    BY <1>1, <1>2, ItemsStep
<1>5. FinishedLinks'
    BY <1>1, <1>2, FinishedLinksStep
<1> QED BY <1>3, <1>4, <1>5 DEF LinkInv

\* Whatever the threads interleave and whichever lambdas throw: the SPIR-V of a
\* function goes to the texts before any item of its thread calls it, a
\* compilation links both passes with one list, and a clean one with functions
\* of its own lambdas, all those among them that nothing had called before it
\* (VariateProxy.h:899-903, RasterizedPipelineObject.h:34-58).
THEOREM LinkInvariance == Spec => []LinkInv
<1>1. IInv /\ LinkInv /\ [Next]_vars => (IInv /\ LinkInv)'
    BY StepHolds, LinkHolds
<1>2. Init => IInv /\ LinkInv
    BY InitHolds, LinkInit
<1> QED BY <1>1, <1>2, PTL DEF Spec

\* A compiled pipeline is made of its own lambdas, in the order of its stages, and
\* a clean compilation links both its passes with its own functions, with all that
\* nothing had called before but for a stage after the first caller.
THEOREM OwnStagesHolds == Spec => []OwnStages
<1>1. ASSUME IInv, LinkInv PROVE OwnStages
    <2> SUFFICES ASSUME NEW f \in finished, NEW k \in DOMAIN f.sources
                 PROVE  LET s == f.sources[k]
                            i == s.item[2]
                            lambda == LambdaOf[f.pipeline][i]
                        IN  /\ ~Spoilt(f.dirty, s.item) =>
                                   /\ s.text.from = f.number /\ s.text.complete
                                   /\ s.text.lambda = lambda
                                   /\ s.text.stage = Stages[f.pipeline][i]
                                   /\ s.text.bindless = (s.item[3] = 2)
                            /\ ~f.dirty =>
                                   /\ s.link \subseteq lambda.calls
                                   /\ \A g \in lambda.calls \cap f.fresh : Own(User[f.pipeline], g) =>
                                          g \in s.link \/ \E j \in 1 .. i - 1 : g \in LambdaOf[f.pipeline][j].calls
        BY DEF OwnStages
    <2> DEFINE s == f.sources[k]
    <2>1. Made(s, f.pipeline, f.dirty, f.number, hardcode, declared, Locals)
        BY <1>1 DEF IInv, FinishedInv
    <2>2. ~f.dirty => LinkedOwn(s.link, f.pipeline, s.item[2], f.fresh)
        BY <1>1 DEF LinkInv, FinishedLinks
    <2> HIDE DEF s
    <2>3. ~Spoilt(f.dirty, s.item) =>
              /\ s.text.from = f.number /\ s.text.complete
              /\ s.text.lambda = LambdaOf[f.pipeline][s.item[2]]
              /\ s.text.stage = Stages[f.pipeline][s.item[2]]
              /\ s.text.bindless = (s.item[3] = 2)
        BY <2>1 DEF Made, Printed
    <2> QED BY <2>2, <2>3 DEF LinkedOwn, s
<1> QED BY <1>1, Invariance, LinkInvariance, PTL

\* Two texts that mean the same unlinked mean the same but for the bodies.
LEMMA OtherBodies ==
    ASSUME NEW text, NEW other, NEW list, NEW rest,
           other.stage = text.stage, other.threads = text.threads, other.uses = text.uses, other.calls = text.calls,
           {d \in other.decls : \E u \in other.uses : u.proxy = d.proxy}
           = {d \in text.decls : \E u \in text.uses : u.proxy = d.proxy}
    PROVE  [Meaning(other, rest) EXCEPT !.bodies = Meaning(text, list).bodies] = Meaning(text, list)
<1>1. PICK decls : decls = {d \in text.decls : \E u \in text.uses : u.proxy = d.proxy}
    OBVIOUS
<1>2. PICK b, c : b = text.calls \cap list /\ c = other.calls \cap rest
    OBVIOUS
<1>3. Meaning(text, list) = [stage |-> text.stage, threads |-> text.threads, uses |-> text.uses, calls |-> text.calls,
                             bodies |-> b, decls |-> decls]
    BY <1>1, <1>2 DEF Meaning
<1>4. Meaning(other, rest) = [stage |-> text.stage, threads |-> text.threads, uses |-> text.uses, calls |-> text.calls,
                              bodies |-> c, decls |-> decls]
    BY <1>1, <1>2 DEF Meaning
<1> QED BY <1>3, <1>4

\* What a release build serves for a pipeline is what any compilation of the same
\* call site made of it, but for the functions it is linked with; of those it
\* serves at least what that compilation had.
THEOREM ReleaseServesTheSameHolds == Spec => []ReleaseServesTheSame
<1>1. ASSUME IInv, LinkInv PROVE ReleaseServesTheSame
    <2> SUFFICES ASSUME NEW f \in finished, NEW k \in DOMAIN f.sources
                 PROVE  LET s == f.sources[k]
                            e == Served(s.item)
                            made == Meaning(s.text, s.link)
                            served == Meaning(e.text, e.link)
                        IN  s.spirv /\ ~Spoilt(f.dirty, s.item) /\ ~Spoilt(e.dirty, s.item) =>
                                /\ [served EXCEPT !.bodies = made.bodies] = made
                                /\ \A g \in made.bodies : Own(User[f.pipeline], g) => g \in served.bodies
        BY DEF ReleaseServesTheSame
    <2>0. PICK s, e : s = f.sources[k] /\ e = Served(s.item)
        OBVIOUS
    <2> SUFFICES ASSUME s.spirv, ~Spoilt(f.dirty, s.item), ~Spoilt(e.dirty, s.item)
                 PROVE  /\ [Meaning(e.text, e.link) EXCEPT !.bodies = Meaning(s.text, s.link).bodies]
                            = Meaning(s.text, s.link)
                        /\ \A g \in Meaning(s.text, s.link).bodies :
                               Own(User[f.pipeline], g) => g \in Meaning(e.text, e.link).bodies
        BY <2>0
    <2> DEFINE p == f.pipeline
               i == s.item[2]
    <2>1. /\ s.item[1] = p /\ p \in Pipeline /\ i \in DOMAIN Stages[p]
          /\ \E j \in DOMAIN hardcode :
                 hardcode[j].item = s.item /\ hardcode[j].text = s.text /\ hardcode[j].link = s.link
          /\ Bare(s.text) = MeaningOf(p, i, s.item[3] = 2, Locals)
        BY <1>1, <2>0 DEF IInv, FinishedInv, Made
    <2>2. PICK j \in DOMAIN hardcode : hardcode[j].item = s.item /\ hardcode[j].text = s.text /\ hardcode[j].link = s.link
        BY <2>1
    <2>3. hardcode \in Seq(EntryType)
        BY <1>1 DEF IInv, TypeInv
    <2>4. \E n \in DOMAIN hardcode : hardcode[n].item = s.item /\ \A h \in 1 .. n - 1 : hardcode[h].item # s.item
        BY <1>1, <2>2 DEF IInv, HardcodeInv, Entered
    <2>5. PICK m \in DOMAIN hardcode : /\ e = hardcode[m] /\ hardcode[m].item = s.item
                                       /\ \A h \in 1 .. m - 1 : hardcode[h].item # s.item
        BY <2>0, <2>4 DEF Served
    <2>6. m = j \/ m \in 1 .. j - 1
        BY <2>2, <2>3, <2>5
    <2>7. Bare(e.text) = MeaningOf(p, i, s.item[3] = 2, Locals)
        BY <1>1, <2>1, <2>5 DEF IInv, HardcodeInv, Entered
    <2>8. Bare(e.text) = Bare(s.text)
        BY <2>1, <2>7
    <2>9. /\ e.text.stage = s.text.stage /\ e.text.threads = s.text.threads /\ e.text.uses = s.text.uses
          /\ e.text.calls = s.text.calls
          /\ {d \in e.text.decls : \E u \in e.text.uses : u.proxy = d.proxy}
             = {d \in s.text.decls : \E u \in s.text.uses : u.proxy = d.proxy}
        BY <2>8 DEF Bare, Meaning
    <2>10. [Meaning(e.text, e.link) EXCEPT !.bodies = Meaning(s.text, s.link).bodies] = Meaning(s.text, s.link)
        BY <2>9, OtherBodies
    <2>11. ASSUME NEW g \in s.text.calls \cap s.link, Own(User[p], g)
           PROVE  g \in e.link
        <3>1. CASE m = j
            BY <2>2, <2>5, <2>11, <3>1
        <3>2. CASE m \in 1 .. j - 1
            <4>1. User[hardcode[m].item[1]] = User[hardcode[j].item[1]] /\ User[hardcode[j].item[1]] = User[p]
                BY <2>1, <2>2, <2>5
            <4>2. g \in hardcode[j].link /\ g \in hardcode[m].text.calls
                BY <2>2, <2>5, <2>9, <2>11
            <4>3. hardcode[m].number = hardcode[j].number
                BY <1>1, <2>11, <3>2, <4>1, <4>2 DEF LinkInv, ItemsInv
            <4>4. hardcode[m].link = hardcode[j].link
                BY <1>1, <2>2, <2>5, <4>1, <4>3 DEF LinkInv, ItemsInv
            <4> QED BY <2>5, <4>2, <4>4
        <3> QED BY <2>6, <3>1, <3>2
    <2>12. \A g \in Meaning(s.text, s.link).bodies : Own(User[p], g) => g \in Meaning(e.text, e.link).bodies
        BY <2>9, <2>11 DEF Meaning
    <2> QED BY <2>10, <2>12
<1> QED BY <1>1, Invariance, LinkInvariance, PTL

-----------------------------------------------------------------------------
\* Where textures are drawn to.

\* The textures of a thread are the ones it constructed.
TexturesInv ==
    /\ textures \in [Thread -> Seq(Proxy)]
    /\ \A x \in Proxy : Kind[x] = "texture" /\ declared[x] # "no" =>
           \E k \in DOMAIN textures[Owner[x]] : textures[Owner[x]][k] = x
    /\ \A t \in Thread : \A k \in DOMAIN textures[t] : Owner[textures[t][k]] = t

\* Pipeline p draws to x at this location.
DrawsTo(p, x, location) ==
    /\ User[p] = Owner[x] /\ Stages[p] # <<"compute">>
    /\ \E k \in DOMAIN LambdaOf[p][2].targets : LambdaOf[p][2].targets[k] = x /\ location = k - 1

\* A location is one that a pipeline of the thread has given.
LocatedInv == \A x \in Proxy : target[x] # -1 => \E p \in Pipeline : DrawsTo(p, x, target[x])

BoundInv == TexturesInv /\ LocatedInv /\ TargetsBound

LEMMA LastOf ==
    ASSUME NEW n \in Nat, NEW S \in SUBSET (1 .. n), S # {}
    PROVE  \E k \in S : \A j \in S : j <= k
<1> DEFINE less == OpToRel(<, Nat)
           A == {n - k : k \in S}
<1>1. A \subseteq Nat /\ A # {}
    <2>1. \A k \in S : n - k \in Nat
        OBVIOUS
    <2> QED BY <2>1
<1> HIDE DEF A
<1>2. \E a \in A : \A b \in A : ~(<<b, a>> \in less)
    BY <1>1, NatLessThanWellFounded, WFMin
<1>3. \A a, b \in Nat : <<a, b>> \in less <=> a < b
    BY DEF OpToRel
<1> HIDE DEF less
<1>4. PICK a \in A : \A b \in A : ~(<<b, a>> \in less)
    BY <1>2
<1>5. PICK k \in S : a = n - k
    BY DEF A
<1>6. ASSUME NEW j \in S
      PROVE  j <= k
    <2>1. n - j \in A /\ n - j \in Nat /\ n - k \in Nat /\ j \in Nat /\ k \in Nat
        BY DEF A
    <2>2. ~(<<n - j, a>> \in less)
        BY <1>4, <2>1
    <2>3. PICK b \in Nat : b = n - j
        BY <2>1
    <2>4. ~(b < a)
        BY <1>3, <1>5, <2>1, <2>2, <2>3
    <2> QED BY <1>5, <2>1, <2>3, <2>4
<1> QED BY <1>6

\* The locations and textures after a lambda was run.
LEMMA RunBound ==
    ASSUME TypeInv, TexturesInv, LocatedInv, NEW t \in Thread, NEW p \in Pipeline, NEW i \in DOMAIN Stages[p],
           call[t].pipeline = p, call[t].i = i, User[p] = t, ShapeInv(t),
           NEW l \in {Nothing, LambdaOf[p][i]}, NEW done \in BOOLEAN, Run(t, l, done)
    PROVE  TexturesInv' /\ LocatedInv'
<1>1. /\ target' = Located(target, l, 0) /\ UNCHANGED <<textures, finished>>
      /\ \A x \in Proxy : declared'[x] = IF x \in Named(l) /\ Kind[x] = "sampler" THEN "global" ELSE declared[x]
    <2>1. /\ target' = Located(target, l, 0) /\ UNCHANGED <<textures, finished>>
        BY RunFacts
    <2>2. \A x \in Proxy : declared'[x] = IF x \in Named(l) /\ Kind[x] = "sampler" THEN "global" ELSE declared[x]
        BY RunFacts
    <2> QED BY <2>1, <2>2
<1>2. TexturesInv'
    BY <1>1 DEF TexturesInv
<1>3. ASSUME NEW x \in Proxy, target'[x] # -1
      PROVE  \E o \in Pipeline : DrawsTo(o, x, target'[x])
    <2>1. CASE \A k \in DOMAIN l.targets : l.targets[k] # x
        <3>1. target'[x] = target[x]
            BY <1>1, <2>1 DEF Located
        <3> QED BY <1>3, <3>1 DEF LocatedInv
    <2>2. CASE \E k \in DOMAIN l.targets : l.targets[k] = x
        <3>1. PICK k \in DOMAIN l.targets : l.targets[k] = x /\ target'[x] = 0 + k - 1
            BY <1>1, <2>2 DEF Located
        <3>2. l = LambdaOf[p][i]
            BY <3>1, NothingFacts
        <3>3. Stages[p][i] = "fragment" /\ Owner[x] = t
            BY <3>1, <3>2, TargetTypes
        <3>4. i = 2 /\ Stages[p] # <<"compute">>
            BY <3>3, StageFacts
        <3>5. k \in Nat
            BY <3>2, LambdaFacts, StageFacts
        <3>6. DrawsTo(p, x, target'[x])
            BY <3>1, <3>2, <3>3, <3>4, <3>5 DEF DrawsTo
        <3> QED BY <3>6
    <2> QED BY <2>1, <2>2
<1> QED BY <1>2, <1>3 DEF LocatedInv

\* The colours of pipeline p are where it draws them, or under a stale one.
BoundAs(p, entries) ==
    LET drawn == LambdaOf[p][2].targets
        Stale(x, k) == /\ \A i \in DOMAIN drawn : drawn[i] # x
                       /\ \E o \in Pipeline \ {p} : /\ User[o] = User[p] /\ Stages[o] # <<"compute">>
                                                    /\ k \in DOMAIN LambdaOf[o][2].targets /\ LambdaOf[o][2].targets[k] = x
    IN  Stages[p] # <<"compute">> => \A k \in DOMAIN drawn : \E last \in LastAt(entries, k - 1) :
            \/ entries[last].texture = drawn[k]
            \/ /\ Stale(entries[last].texture, k)
               /\ \E j \in 1 .. last - 1 : entries[j] = [texture |-> drawn[k], location |-> k - 1]

LEMMA BoundEach == TargetsBound <=> \A f \in finished : BoundAs(f.pipeline, f.targets)
BY DEF TargetsBound, BoundAs

LEMMA BoundEachNext == TargetsBound' <=> \A f \in finished' : BoundAs(f.pipeline, f.targets)
BY DEF TargetsBound, BoundAs

LEMMA CollectBound ==
    ASSUME TypeInv, TexturesInv, LocatedInv, NEW t \in Thread, ThreadInv(t), Collect(t)
    PROVE  BoundAs(call[t].pipeline, BoundTargets(t, call[t]))
<1>1. PICK p \in Pipeline : p = call[t].pipeline /\ User[p] = t /\ call[t].pc = "collect"
    BY DEF Collect, ThreadInv, ShapeInv
<1>2. PICK drawn : drawn = LambdaOf[p][2].targets
    OBVIOUS
<1>3. PICK entries : entries = BoundTargets(t, call[t])
    OBVIOUS
<1>4. PICK own : own = textures[t]
    OBVIOUS
<1> DEFINE Stale(x, k) == /\ \A i \in DOMAIN drawn : drawn[i] # x
                          /\ \E o \in Pipeline \ {p} :
                                 /\ User[o] = User[p] /\ Stages[o] # <<"compute">>
                                 /\ k \in DOMAIN LambdaOf[o][2].targets /\ LambdaOf[o][2].targets[k] = x
<1>5. ASSUME Stages[p] # <<"compute">>, NEW k \in DOMAIN drawn
      PROVE  \E last \in LastAt(entries, k - 1) :
                \/ entries[last].texture = drawn[k]
                \/ /\ Stale(entries[last].texture, k)
                   /\ \E j \in 1 .. last - 1 : entries[j] = [texture |-> drawn[k], location |-> k - 1]
    <2>1. own \in Seq(Proxy) /\ DOMAIN own = 1 .. Len(own) /\ Len(own) \in Nat
        BY <1>4 DEF TexturesInv
    <2>2. entries = [j \in 1 .. Len(own) |-> [texture |-> own[j], location |-> target[own[j]]]]
        BY <1>1, <1>3, <1>4, <1>5, <2>1 DEF BoundTargets
    <2>3. 2 \in DOMAIN Stages[p] /\ Stages[p][2] = "fragment" /\ LambdaOf[p][2] \in LambdaType(Function)
        BY <1>5, StageFacts
    <2>4. \A i \in DOMAIN drawn : /\ drawn[i] \in Proxy /\ i \in Nat /\ i # 0 /\ target[drawn[i]] = i - 1
                                  /\ Kind[drawn[i]] = "texture" /\ Owner[drawn[i]] = t /\ declared[drawn[i]] # "no"
        <3>1. \A i \in DOMAIN drawn : drawn[i] \in Proxy /\ i \in Nat /\ i # 0
            BY <1>2, <2>3, LambdaFacts
        <3>2. \A i \in DOMAIN drawn : Kind[drawn[i]] = "texture" /\ Owner[drawn[i]] = t
            BY <1>1, <1>2, <2>3, TargetTypes
        <3>3. \A i \in DOMAIN drawn : target[drawn[i]] = i - 1
            BY <1>1, <1>2, <1>5 DEF ThreadInv, TargetInv
        <3>4. \A i \in DOMAIN drawn : declared[drawn[i]] # "no"
            BY <1>1, <1>2, <2>3 DEF ThreadInv, SettledInv
        <3> QED BY <3>1, <3>2, <3>3, <3>4
    <2>5. PICK m \in 1 .. Len(own) : own[m] = drawn[k]
        <3>1. \E j \in DOMAIN textures[Owner[drawn[k]]] : textures[Owner[drawn[k]]][j] = drawn[k]
            BY <1>5, <2>4 DEF TexturesInv
        <3>2. Owner[drawn[k]] = t
            BY <1>5, <2>4
        <3> QED BY <1>4, <2>1, <3>1, <3>2
    <2>6. entries[m] = [texture |-> drawn[k], location |-> k - 1]
        BY <1>5, <2>2, <2>4, <2>5
    <2> DEFINE S == {j \in 1 .. Len(own) : entries[j].location = k - 1}
    <2>7. PICK last \in S : \A j \in S : j <= last
        <3>1. m \in S
            BY <2>5, <2>6
        <3> HIDE DEF S
        <3>2. S \subseteq 1 .. Len(own)
            BY DEF S
        <3> QED BY <2>1, <3>1, <3>2, LastOf
    <2>8. last \in LastAt(entries, k - 1)
        BY <2>2, <2>7 DEF LastAt
    <2>9. /\ last \in 1 .. Len(own) /\ own[last] \in Proxy
          /\ entries[last].texture = own[last] /\ target[own[last]] = k - 1 /\ Owner[own[last]] = t
        BY <1>4, <2>1, <2>2, <2>7 DEF TexturesInv
    <2>10. CASE own[last] = drawn[k]
        BY <2>8, <2>9, <2>10
    <2>11. CASE own[last] # drawn[k]
        <3>1. ASSUME NEW i \in DOMAIN drawn PROVE drawn[i] # own[last]
            BY <1>5, <2>4, <2>9, <2>11
        <3>2. PICK o \in Pipeline : DrawsTo(o, own[last], k - 1)
            BY <1>5, <2>4, <2>9 DEF LocatedInv
        <3>3. PICK n \in DOMAIN LambdaOf[o][2].targets : LambdaOf[o][2].targets[n] = own[last] /\ k - 1 = n - 1
            BY <3>2 DEF DrawsTo
        <3>4. n = k
            <4>1. User[o] = t /\ Stages[o] # <<"compute">>
                BY <2>9, <3>2 DEF DrawsTo
            <4>2. LambdaOf[o][2] \in LambdaType(Function)
                BY <4>1, StageFacts
            <4>3. n \in Nat
                BY <3>3, <4>2, LambdaFacts
            <4> QED BY <1>5, <2>4, <3>3, <4>3
        <3>5. o # p
            BY <1>2, <3>1, <3>3
        <3>6. Stale(own[last], k)
            BY <1>1, <2>9, <3>1, <3>2, <3>3, <3>4, <3>5 DEF DrawsTo
        <3>7. m \in 1 .. last - 1
            <4>1. m <= last
                BY <2>5, <2>6, <2>7
            <4> QED BY <2>5, <2>9, <2>11, <4>1
        <3> QED BY <2>6, <2>8, <2>9, <3>6, <3>7
    <2> QED BY <2>10, <2>11
<1> QED BY <1>1, <1>2, <1>3, <1>5 DEF BoundAs

LEMMA BoundStep ==
    ASSUME IInv, BoundInv, [Next]_vars
    PROVE  BoundInv'
<1>0. TypeInv /\ TexturesInv /\ LocatedInv /\ TargetsBound /\ \A t \in Thread : ThreadInv(t) /\ ShapeInv(t)
    BY DEF IInv, BoundInv, ThreadInv
<1>1. CASE UNCHANGED <<declared, textures, target, finished>>
    BY <1>0, <1>1 DEF BoundInv, TexturesInv, LocatedInv, TargetsBound
<1>2. ASSUME NEW t \in Thread, NEW x \in Proxy, Declare(t, x) PROVE BoundInv'
    <2>1. /\ Owner[x] = t /\ declared' = [declared EXCEPT ![x] = declared'[x]] /\ UNCHANGED <<target, finished>>
          /\ textures' = IF Kind[x] = "texture" THEN [textures EXCEPT ![t] = Append(@, x)] ELSE textures
        BY <1>2 DEF Declare
    <2>2. textures \in [Thread -> Seq(Proxy)] /\ textures' \in [Thread -> Seq(Proxy)]
        BY <1>0, <2>1 DEF TexturesInv
    <2>3. \A u \in Thread : \A k \in DOMAIN textures[u] : k \in DOMAIN textures'[u] /\ textures'[u][k] = textures[u][k]
        BY <2>1, <2>2
    <2>4. Kind[x] = "texture" => \E k \in DOMAIN textures'[t] : textures'[t][k] = x
        <3> SUFFICES ASSUME Kind[x] = "texture"
                     PROVE  \E k \in DOMAIN textures'[t] : textures'[t][k] = x
            OBVIOUS
        <3>1. textures'[t] = Append(textures[t], x) /\ textures[t] \in Seq(Proxy)
            BY <2>1, <2>2
        <3>2. Len(textures[t]) + 1 \in DOMAIN textures'[t] /\ textures'[t][Len(textures[t]) + 1] = x
            BY <3>1
        <3> QED BY <3>2
    <2>5. \A y \in Proxy : y # x => declared'[y] = declared[y]
        BY <1>0, <1>2 DEF Declare, TypeInv
    <2>6. \A y \in Proxy : Kind[y] = "texture" /\ declared'[y] # "no" =>
              \E k \in DOMAIN textures'[Owner[y]] : textures'[Owner[y]][k] = y
        <3>1. \A y \in Proxy : Owner[y] \in Thread
            BY PipelineTypes
        <3>2. \A y \in Proxy : y # x /\ Kind[y] = "texture" /\ declared'[y] # "no" =>
                  \E k \in DOMAIN textures[Owner[y]] : textures[Owner[y]][k] = y
            BY <1>0, <2>5 DEF TexturesInv
        <3> QED BY <2>1, <2>3, <2>4, <3>1, <3>2
    <2>7. \A u \in Thread : \A k \in DOMAIN textures'[u] : Owner[textures'[u][k]] = u
        <3>1. \A u \in Thread : \A k \in DOMAIN textures'[u] :
                  (k \in DOMAIN textures[u] /\ textures'[u][k] = textures[u][k]) \/ (u = t /\ textures'[u][k] = x)
            BY <2>1, <2>2
        <3> QED BY <1>0, <2>1, <3>1 DEF TexturesInv
    <2> QED BY <1>0, <2>1, <2>2, <2>6, <2>7 DEF BoundInv, TexturesInv, LocatedInv, TargetsBound
<1>3. ASSUME NEW t \in Thread, RunStage(t) \/ LambdaThrows(t) PROVE BoundInv'
    <2>1. PICK p \in Pipeline : p = call[t].pipeline /\ call[t].i \in DOMAIN Stages[p] /\ User[p] = t
        BY <1>0, <1>3 DEF RunStage, LambdaThrows, ShapeInv
    <2>2. PICK i \in DOMAIN Stages[p] : i = call[t].i
        BY <2>1
    <2>3. PICK l \in {Nothing, LambdaOf[p][i]}, done \in BOOLEAN : Run(t, l, done)
        BY <1>3, <2>1, <2>2 DEF RunStage, LambdaThrows, Lambda
    <2>4. TexturesInv' /\ LocatedInv'
        BY <1>0, <2>1, <2>2, <2>3, RunBound
    <2>5. finished' = finished
        BY <2>3 DEF Run
    <2> QED BY <1>0, <2>4, <2>5 DEF BoundInv, TargetsBound
<1>4. ASSUME NEW t \in Thread, Collect(t) PROVE BoundInv'
    <2>1. UNCHANGED <<declared, textures, target>>
        BY <1>4 DEF Collect, globalVars
    <2>2. BoundAs(call[t].pipeline, BoundTargets(t, call[t]))
        BY <1>0, <1>4, CollectBound
    <2>3. PICK f : f = [pipeline |-> call[t].pipeline, number |-> begun[t], dirty |-> call[t].dirty,
                        fresh |-> call[t].fresh, sources |-> call[t].sources,
                        textures |-> BoundTextures(t, call[t]), targets |-> BoundTargets(t, call[t])]
        OBVIOUS
    <2>4. finished' = finished \cup {f}
        BY <1>4, <2>3 DEF Collect
    <2>5. f.pipeline = call[t].pipeline /\ f.targets = BoundTargets(t, call[t])
        BY <2>3
    <2>6. TargetsBound'
        <3>1. \A e \in finished : BoundAs(e.pipeline, e.targets)
            BY <1>0, BoundEach
        <3>2. BoundAs(f.pipeline, f.targets)
            BY <2>2, <2>5
        <3>3. \A e \in finished' : BoundAs(e.pipeline, e.targets)
            BY <2>4, <3>1, <3>2
        <3> QED BY <3>3, BoundEachNext
    <2> QED BY <1>0, <2>1, <2>6 DEF BoundInv, TexturesInv, LocatedInv
<1>5. ASSUME NEW t \in Thread, NEW p \in Pipeline, Begin(t, p) PROVE BoundInv'
    BY <1>1, <1>5 DEF Begin, globalVars
<1>6. ASSUME NEW t \in Thread, RefuseReturn(t) \/ EndPipelineParse(t) PROVE BoundInv'
    BY <1>1, <1>6 DEF RefuseReturn, EndPipelineParse, globalVars
<1>7. ASSUME NEW t \in Thread, CompileFails(t) \/ CompileStage(t) PROVE BoundInv'
    BY <1>1, <1>7 DEF CompileFails, CompileStage, globalVars
<1>8. CASE UNCHANGED vars
    BY <1>1, <1>8 DEF vars, globalVars
<1> QED BY <1>2, <1>3, <1>4, <1>5, <1>6, <1>7, <1>8 DEF Next

\* Of the entries for the location a colour is written to, the last is the texture
\* the pipeline draws to, or a stale one that another pipeline of the thread has
\* drawn to there and that was constructed later
\* (RasterizedPipelineObject.h:98-114).
THEOREM TargetsBoundHolds == Spec => []TargetsBound
<1>1. ASSUME Init PROVE BoundInv
    <2>1. /\ textures = [t \in Thread |-> <<>>] /\ finished = {}
          /\ \A x \in Proxy : declared[x] = "no" /\ target[x] = -1
        BY <1>1 DEF Init
    <2>2. textures \in [Thread -> Seq(Proxy)]
        BY <2>1
    <2>3. TexturesInv
        BY <2>1, <2>2 DEF TexturesInv
    <2> QED BY <2>1, <2>3 DEF BoundInv, LocatedInv, TargetsBound
<1>2. IInv /\ BoundInv /\ [Next]_vars => (IInv /\ BoundInv)'
    BY StepHolds, BoundStep
<1>3. Init => IInv /\ BoundInv
    BY <1>1, InitHolds
<1>4. BoundInv => TargetsBound
    BY DEF BoundInv
<1> QED BY <1>2, <1>3, <1>4, PTL DEF Spec
=============================================================================
