-------------------------- MODULE MCShaderPipeline --------------------------
EXTENDS ShaderPipeline, ShaderCompiler, TLC

CONSTANTS t1, t2, image, canvas, size, filter, other, noise, fade,
          draw, sketch, paint, broken, blur

OwnerDef == [x \in Proxy |-> IF x = other THEN t2 ELSE t1]
KindDef == image :> "texture" @@ canvas :> "texture" @@ size :> "uniform" @@ filter :> "sampler"
               @@ other :> "array"

UserDef == [p \in Pipeline |-> IF p = blur THEN t2 ELSE t1]
StagesDef == [p \in Pipeline |-> IF p \in {draw, sketch} THEN <<"vertex", "fragment">> ELSE <<"compute">>]

\* draw and sketch draw to two textures at one location, in either order of their
\* construction; draw calls fade in both stages, paint calls both functions, and
\* blur is another thread's.
LambdaOfDef ==
    draw :> <<[Nothing EXCEPT !.reads = {size}, !.calls = {fade}],
              [Nothing EXCEPT !.targets = <<image>>, !.reads = {canvas}, !.bare = {size}, !.calls = {fade}]>> @@
    sketch :> <<Nothing, [Nothing EXCEPT !.reads = {image}, !.targets = <<canvas>>]>> @@
    paint :> <<[Nothing EXCEPT !.reads = {canvas, size, filter}, !.writes = {image},
                               !.elements = {image}, !.calls = {noise, fade}]>> @@
    broken :> <<[Nothing EXCEPT !.returns = TRUE]>> @@
    blur :> <<[Nothing EXCEPT !.reads = {other}, !.elements = {other}, !.calls = {noise}]>>

ThreadsDef == [p \in Pipeline |-> 8]
BindlessDef == [p \in Pipeline |-> p \in {sketch, paint}]
MaxCompilesDef == t1 :> 3 @@ t2 :> 1

-----------------------------------------------------------------------------
\* Off Windows every output is stored with its own reflection when Slang made
\* them all.  A link that failed shifts those of the others by one, and on Windows the
\* targets are not stored in the order they were asked for.
Languages == {"SpirV", "GLSL", "HLSL", "DXIL", "DXBC"}

ASSUME ReflectionsAreTheirOwn ==
    \A o \in SUBSET Languages : \A b \in BOOLEAN :
        LET r == ReflectionOf(o, b, FALSE, o) IN \A l \in DOMAIN r : r[l] = l

ASSUME ReflectionsShifted ==
    /\ ReflectionOf({"SpirV", "GLSL"}, FALSE, FALSE, Produced({"SpirV", "GLSL"}, TRUE))["GLSL"] = "SpirV"
    /\ ReflectionOf(Languages, TRUE, TRUE, Languages)["GLSL"] = "DXIL"

ASSUME FailuresReported ==
    \A o \in SUBSET {"SpirV", "GLSL"} : \A linked \in BOOLEAN : \A f \in SUBSET {"load", "link", "code"} :
        LET r == SlangCompiler(BinaryTargets(o, FALSE), TextTargets(o), linked, f)
        IN  r.outcome = "done" <=> o # {} /\ f \subseteq (IF linked THEN {} ELSE {"link"})

ASSUME OnlySuccessFinalizes ==
    \A linked \in BOOLEAN : \A f \in SUBSET {"language", "stage", "parse", "link"} :
        LET r == GlslangSpirvCompiler(linked, f)
        IN  (r.finalized <=> r.code) /\ (r.finalized => r.initialized)

ASSUME NothingWithoutSpirv ==
    \A o \in SUBSET Languages : \A f \in SUBSET Languages :
        FromSpirv(o, f) # {} => "SpirV" \in FromSpirv(o, f)

\* Of a type both names mean the same: GLSL to C++ directly or by way of Slang,
\* but not for vectors of bool.
ASSUME NamesAgree ==
    /\ \A p \in DOMAIN ScalarOf : \A n \in Sizes :
           (HlslToCpp(VectorToSlang(p, n)) = VectorToCpp(p, n)) <=> p # "b"
    /\ \A p \in {"", "d"} : \A c, r \in Sizes : HlslToCpp(MatrixToSlang(p, c, r)) = MatrixToCpp(p, c, r)
    /\ \A s \in DOMAIN CppOfScalar : \A n \in Sizes : HlslToCpp(ReflectedName(s, n, 1))[1] = "ktm"

ASSUME UnnamedTextures ==
    /\ ReflectedTextures \ TexturesInCpp =
           ({"i", "u"} \X {"image1D", "samplerCubeArray"}) \cup ({"", "i", "u"} \X {"imageCubeArray"})
    /\ TexturesInCpp \subseteq TexturesInSlang

\* $IF runs each branch once, in order.  $WHILE runs its body once, also in a
\* $DO; but inside a $WHILE it never does, and takes the outer loop's end.
ASSUME EachBranchOnce == \A n \in 1 .. 4 : LET s == IfStates(n)[n + 3]
                                           IN  s.ran = [j \in 1 .. n |-> j] /\ s.lastMax >= s.max

ASSUME WhileOnce ==
    LET first == ConditionProcess(<<>>)
        end == ConditionProcess(first.stack)
        LoopIn(stack) == ConditionProcess(ConditionProcess(stack).stack).stack
    IN  /\ first.runs /\ ~end.runs /\ end.stack = <<>>
        /\ ConditionProcess(EndDo(LoopIn(BeginDo(<<>>)))) = [stack |-> <<>>, runs |-> FALSE]
        /\ ConditionProcess(EndDo(BeginDo(<<>>))) = [stack |-> <<>>, runs |-> FALSE]

ASSUME NestedWhileHangs ==
    LET outer == ConditionProcess(<<>>)
        inner == ConditionProcess(outer.stack)
    IN  outer.runs /\ ~inner.runs /\ ConditionProcess(inner.stack) = outer

\* The tool and inferShaderStage agree on a file whose hints all name one stage.
OfStage(h) == CASE h \in {".frag", "stem.frag", "frag in stem", "fragment builtin"} -> "fragment"
                [] h \in {".comp", "stem.comp", "compute in stem", "compute builtin"} -> "compute"
                [] OTHER -> "vertex"

ASSUME StagesAgree ==
    \A hints \in SUBSET StageHints :
        NameHints(hints) /\ (\A g, h \in hints : OfStage(g) = OfStage(h)) =>
            DetectedStage(hints) = InferredStage(hints)

ASSUME DuplicatesErased ==
    \A s \in UNION {[1 .. n -> {"struct", "function"} \X {"a", "b"}] : n \in 0 .. 4} :
        LET r == WithoutDuplicates(s)
        IN  /\ {r[i] : i \in DOMAIN r} = {s[i] : i \in DOMAIN s}
            /\ \A i, j \in DOMAIN r : i # j => r[i] # r[j]

\* What a pipeline can bind has a key, at the same place.
ASSUME FieldsHaveKeys ==
    \A c \in SUBSET {BindClasses[i] : i \in DOMAIN BindClasses} :
        LET keys == BindingKeys(Pool(c))
            fields == Bindings(Pool(c))
        IN  {fields[i] : i \in DOMAIN fields} = {keys[i] : i \in DOMAIN keys} \ {<<"stageInputs", "location">>}
=============================================================================
