--------------------------- MODULE ShaderCompiler ---------------------------
(***************************************************************************)
(* The algorithms of the shader compiler and of the offline tool: which    *)
(* target each reflection belongs to, the names of types in Slang and C++, *)
(* the loops that emulate $IF and $WHILE, the stage a file is taken for,   *)
(* and what is generated for a reflected shader.  MCShaderPipeline checks  *)
(* them against their reference over the inputs given here.                *)
(***************************************************************************)
LOCAL INSTANCE Integers
LOCAL INSTANCE Sequences
LOCAL INSTANCE SequencesExt

\* Outcome of a chain of calls that may fail: the first that does, or "done".
FirstFailure(steps, fails) ==
    LET bad == SelectSeq(steps, LAMBDA s : s \in fails)
    IN  IF bad = <<>> THEN "done" ELSE bad[1]

-----------------------------------------------------------------------------
\* slangCompiler: no target or an unknown one is a logic error, any step that
\* fails throws; the outputs and reflections are those of all the targets, the
\* binary ones first.
SlangSteps(linked) ==
    <<"load", "entry point", "compose">> \o (IF linked THEN <<"link">> ELSE <<>>) \o <<"code">>

SlangCompiler(binary, languages, linked, fails) ==
    IF binary = <<>> /\ languages = <<>> THEN [outcome |-> "logic error", reflections |-> <<>>]
    ELSE LET outcome == FirstFailure(SlangSteps(linked), fails)
         IN  [outcome |-> outcome,
              reflections |-> IF outcome = "done" THEN binary \o languages ELSE <<>>]

\* glslangSpirvCompiler: the code is empty after any failure, and only success
\* reaches FinalizeProcess.
GlslangSteps(linked) == <<"language", "stage", "parse">> \o (IF linked THEN <<"link">> ELSE <<>>)

GlslangSpirvCompiler(linked, fails) ==
    LET outcome == FirstFailure(GlslangSteps(linked), fails)
    IN  [code |-> outcome = "done", initialized |-> outcome \notin {"language", "stage"},
         finalized |-> outcome = "done"]

\* spirvCrossConverter: an unknown target or a compiler error leaves it empty.
SpirvCrossConverter(target, fails) == target \in {"GLSL", "HLSL"} \ fails

-----------------------------------------------------------------------------
\* compile(): the targets asked of Slang, in the order of the two lists.  A
\* module to be linked with others is not linked by Slang.
BinaryTargets(option, windows) ==
    SelectSeq(<<"SpirV">> \o (IF windows THEN <<"DXIL", "DXBC">> ELSE <<>>), LAMBDA l : l \in option)

TextTargets(option) == SelectSeq(<<"GLSL", "HLSL">>, LAMBDA l : l \in option)

\* Bindless shaders have no DXBC.
Options(option, bindless) == IF bindless THEN option \ {"DXBC"} ELSE option

\* The order in which outputs that are not empty are stored.
StoreOrder(windows) == <<"SpirV", "GLSL", "HLSL">> \o (IF windows THEN <<"DXIL", "DXBC">> ELSE <<>>)

\* Which target's reflection is stored with each: SpirV has that of SPIRV-Cross
\* but takes its place in the count, Slang that of the first target.
ReflectionOf(option, bindless, windows, produced) ==
    LET o == Options(option, bindless)
        reflections == BinaryTargets(o, windows) \o TextTargets(o)
        stored == SelectSeq(StoreOrder(windows), LAMBDA l : l \in o /\ l \in produced)
    IN  [l \in {stored[i] : i \in DOMAIN stored} |->
            IF l = "SpirV" THEN "SpirV" ELSE reflections[CHOOSE i \in DOMAIN stored : stored[i] = l]]

\* spirvLinker does not look at the result: a failed link leaves no SPIR-V.
Produced(option, linkFails) == IF linkFails THEN option \ {"SpirV"} ELSE option

\* GLSL or HLSL in: SPIR-V first, the languages from it, all reflections from it.
FromSpirv(option, fails) ==
    IF "SpirV" \in option \cap fails \/ "SpirV" \notin option THEN {}
    ELSE {l \in option \cap {"SpirV", "GLSL", "HLSL"} : l = "SpirV" \/ SpirvCrossConverter(l, fails)}

-----------------------------------------------------------------------------
\* Type names.  A vector is <<prefix, n>>, a matrix <<prefix, columns, rows>>;
\* GLSL names them by prefix, Slang, HLSL and spirTypeToString by scalar.
Sizes == 2 .. 4

ScalarOf == [p \in {"", "i", "u", "b", "d"} |->
                CASE p = "" -> "float" [] p = "i" -> "int" [] p = "u" -> "uint"
                  [] p = "b" -> "bool" [] p = "d" -> "double"]

\* typeNameToSlang.
VectorToSlang(prefix, n) == <<ScalarOf[prefix], n>>
MatrixToSlang(prefix, c, r) == <<ScalarOf[prefix], c, r>>

\* typeNameToCpp of GLSL names; integers are the s of ktm.
CppPrefix(prefix) == CASE prefix = "" -> "f" [] prefix = "i" -> "s" [] OTHER -> prefix
VectorToCpp(prefix, n) == <<"ktm", CppPrefix(prefix), n>>
MatrixToCpp(prefix, c, r) == <<"ktm", CppPrefix(prefix), c, r>>

\* typeNameToCpp of HLSL names: there is no line for vectors of bool.
CppOfScalar ==
    [s \in {"float", "int", "uint", "double", "half"} |->
        CASE s \in {"float", "half"} -> "f" [] s = "int" -> "s" [] s = "uint" -> "u" [] s = "double" -> "d"]

HlslToCpp(type) ==
    IF type[1] \in DOMAIN CppOfScalar THEN <<"ktm", CppOfScalar[type[1]]>> \o Tail(type) ELSE type

\* Textures are <<texel prefix, shape>>.
SampledShapes == {"sampler1D", "sampler2D", "sampler3D", "samplerCube", "sampler2DArray"}
ImageShapes == {"image2D", "image3D", "imageCube", "image2DArray"}

TexturesInSlang ==
    ({"", "i", "u"} \X (SampledShapes \cup ImageShapes))
    \cup ({""} \X {"samplerCubeArray", "sampler2DMS", "sampler2DShadow", "samplerCubeShadow",
                   "samplerBuffer", "imageBuffer", "sampler2DRect", "image1D", "imageCubeArray"})

TexturesInCpp ==
    ({"", "i", "u"} \X (SampledShapes \cup ImageShapes))
    \cup ({""} \X {"samplerCubeArray", "sampler2DMS", "sampler2DShadow", "samplerCubeShadow",
                   "sampler2DRect", "image1D"})

\* spirTypeToString: what SPIR-V calls an image or a sampled image.
ReflectedTextures ==
    {"", "i", "u"} \X {"image1D", "image2D", "image2DArray", "image3D", "imageCube", "imageCubeArray",
                       "sampler1D", "sampler2D", "sampler2DArray", "sampler3D", "samplerCube", "samplerCubeArray"}

\* ... and how it spells a scalar type with its size.
ReflectedName(scalar, vecsize, columns) ==
    IF columns > 1 THEN <<scalar, columns, vecsize>>
    ELSE IF vecsize > 1 THEN <<scalar, vecsize>> ELSE <<scalar>>

-----------------------------------------------------------------------------
\* $IF: the chain of branches is entered again until each has been run once.
\* s is [current, lastMax, max, ran]; one round tries the branches in order.
TryBranch(s, j) ==
    IF s.done THEN s
    ELSE IF s.current = s.max
         THEN [s EXCEPT !.current = @ + 1, !.max = @ + 1, !.ran = Append(@, j), !.done = TRUE]
         ELSE [s EXCEPT !.current = @ + 1, !.lastMax = @ + 1]

IfRound(s, n) == FoldLeft(TryBranch, [s EXCEPT !.current = 0, !.done = FALSE], [j \in 1 .. n |-> j])

IfStates(n) ==
    LET f[k \in 0 .. n + 3] ==
            IF k = 0 THEN [current |-> 0, lastMax |-> -1, max |-> 0, ran |-> <<>>, done |-> FALSE]
            ELSE IF f[k - 1].lastMax < f[k - 1].max THEN IfRound(f[k - 1], n) ELSE f[k - 1]
    IN  f

\* GPU_WHILE::conditionProcess on its stack (the top is the first element).
NewWhile == [isDoWhile |-> FALSE, loopCount |-> 0, inside |-> FALSE]

ConditionProcess(stack) ==
    LET s == IF stack = <<>> \/ (stack # <<>> /\ stack[1].inside) THEN <<NewWhile>> \o stack ELSE stack
    IN  IF s[1].isDoWhile THEN [stack |-> Tail(s), runs |-> FALSE]
        ELSE IF s[1].loopCount + 1 = 2 THEN [stack |-> Tail(s), runs |-> FALSE]
        ELSE [stack |-> <<[s[1] EXCEPT !.loopCount = @ + 1]>> \o Tail(s), runs |-> TRUE]

\* $DO pushes its entry, which is no longer inside when the body has ended.
BeginDo(stack) == <<[isDoWhile |-> TRUE, loopCount |-> 0, inside |-> TRUE]>> \o stack

EndDo(stack) == <<[stack[1] EXCEPT !.inside = FALSE]>> \o Tail(stack)

-----------------------------------------------------------------------------
\* The stage of a source file: hints is the set of what its name and code show.
StageHints == {".frag", ".comp", ".vert", "stem.frag", "stem.comp", "stem.vert",
               "frag in stem", "compute in stem", "vert in stem", "fragment builtin", "compute builtin"}

\* main() of the tool, when -t gives none.
DetectedStage(hints) ==
    IF hints \cap {".frag", "stem.frag", "frag in stem"} # {} THEN "fragment"
    ELSE IF hints \cap {".comp", "stem.comp", "compute in stem"} # {} THEN "compute"
    ELSE IF hints \cap {".vert", "stem.vert"} # {} THEN "vertex"
    ELSE IF "fragment builtin" \in hints THEN "fragment"
    ELSE IF "compute builtin" \in hints THEN "compute" ELSE "vertex"

\* inferShaderStage: the extension first, then the stem, then the code.
InferredStage(hints) ==
    LET stem == hints \cap {"stem.frag", "frag in stem"}
    IN  IF ".frag" \in hints THEN "fragment" ELSE IF ".comp" \in hints THEN "compute"
        ELSE IF ".vert" \in hints THEN "vertex"
        ELSE IF stem # {} THEN "fragment"
        ELSE IF hints \cap {"stem.comp", "compute in stem"} # {} THEN "compute"
        ELSE IF hints \cap {"stem.vert", "vert in stem"} # {} THEN "vertex"
        ELSE IF "fragment builtin" \in hints THEN "fragment"
        ELSE IF "compute builtin" \in hints THEN "compute" ELSE "vertex"

\* A file has one extension, and a stem that ends with ".vert" contains "vert".
NameHints(hints) ==
    /\ ~({".frag", ".comp"} \subseteq hints \/ {".frag", ".vert"} \subseteq hints \/ {".comp", ".vert"} \subseteq hints)
    /\ "stem.frag" \in hints => "frag in stem" \in hints
    /\ "stem.vert" \in hints => "vert in stem" \in hints

-----------------------------------------------------------------------------
\* spirvCrossGetIRReflection: later entries of one kind and name are erased.
EraseLater(s, k) ==
    IF k > Len(s) THEN s
    ELSE SelectSeq([i \in DOMAIN s |-> <<i, s[i]>>], LAMBDA e : e[1] <= k \/ e[2] # s[k])

\* s holds the entries, <<kind, name>>, in the order of their ids.
WithoutDuplicates(s) ==
    LET f[k \in 0 .. Len(s)] ==
            IF k = 0 THEN s
            ELSE LET kept == EraseLater(f[k - 1], k)
                 IN  IF k > Len(f[k - 1]) THEN kept ELSE [i \in DOMAIN kept |-> kept[i][2]]
    IN  f[Len(s)]

\* spirvCrossReflectedBindInfo: the pool of a shader, class after class.
BindClasses == <<"uniformBuffers", "uniformBufferMembers", "sampledImages", "texture", "sampler",
                 "storageTexture", "storageBuffer", "stageInputs", "stageOutputs", "pushConstantMembers">>

Pool(resources) == SelectSeq(BindClasses, LAMBDA c : c \in resources)

IsDirect(class) == class \in {"sampledImages", "texture", "sampler", "rawBuffer", "storageTexture", "storageBuffer"}

\* A key and a field hold a location, direct resources their binding.
Place(class) == IF IsDirect(class) THEN "binding" ELSE "location"

KeysOf(pool, class) == LET found == SelectSeq(pool, LAMBDA c : c = class)
                       IN  [i \in DOMAIN found |-> <<found[i], Place(found[i])>>]

\* generateBindingKeys: blocks, stage inputs and outputs, then what is direct.
BindingKeys(pool) ==
    LET direct == SelectSeq(pool, IsDirect)
    IN  KeysOf(pool, "pushConstantMembers") \o KeysOf(pool, "uniformBufferMembers")
            \o KeysOf(pool, "stageInputs") \o KeysOf(pool, "stageOutputs")
            \o [i \in DOMAIN direct |-> <<direct[i], Place(direct[i])>>]

\* generateBindings: the fields of ResourceBindings and of OutputBindings.
Bindings(pool) ==
    LET direct == SelectSeq(pool, IsDirect)
    IN  KeysOf(pool, "pushConstantMembers") \o KeysOf(pool, "uniformBufferMembers")
            \o [i \in DOMAIN direct |-> <<direct[i], Place(direct[i])>>] \o KeysOf(pool, "stageOutputs")
=============================================================================
