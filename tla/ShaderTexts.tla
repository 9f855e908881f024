----------------------------- MODULE ShaderTexts -----------------------------
(***************************************************************************)
(* What a shader lambda leaves behind when it is run, and the text that is *)
(* generated from it.  A lambda is a C++ function over proxies: running it *)
(* records statements in the parser of the thread, and each access sets    *)
(* permissions in the global variable it reaches.  A text is kept as what  *)
(* it names and what it declares, never as characters.                     *)
(***************************************************************************)
EXTENDS Integers, Sequences

CONSTANTS
    Proxy,      \* global variables: textures, arrays, uniforms, samplers
    Kind        \* what each of them is

ASSUME KindAssumption == Kind \in [Proxy -> {"texture", "array", "uniform", "sampler"}]

\* A lambda reads and writes proxies; elements are reached by an index or by a
\* sampler, which print the name at once; bare are only the condition of an $IF
\* or an argument of an imported function, which record no access.  It calls
\* imported functions and sends colours to targets with operator<<.
LambdaType(Function) ==
    [reads : SUBSET Proxy, writes : SUBSET Proxy, elements : SUBSET Proxy, bare : SUBSET Proxy,
     calls : SUBSET Function, targets : UNION {[1 .. n -> Proxy] : n \in 0 .. 2},
     returns : BOOLEAN]

Accessed(l) == l.reads \cup l.writes
Named(l) == Accessed(l) \cup l.bare

\* A lambda that threw before its first statement.
Nothing == [reads |-> {}, writes |-> {}, elements |-> {}, bare |-> {}, calls |-> {},
            targets |-> <<>>, returns |-> FALSE]

-----------------------------------------------------------------------------
\* Where a text looks for a variable, and where the globals declare it.

\* Mutant: the sampler is looked for in the uniform buffer.
NamedInBuffer(x, bindless) ==
    IF Kind[x] \in {"uniform", "sampler"} THEN "ubo"
    ELSE IF bindless THEN "push_constant" ELSE "parameter_block"

NamedIn(x, bindless) ==
    IF Kind[x] = "uniform" THEN "ubo"
    ELSE IF bindless THEN "push_constant"
    ELSE IF Kind[x] = "sampler" THEN "ubo" ELSE "parameter_block"

DeclaredIn(x, bindless) ==
    CASE Kind[x] \in {"texture", "array"} -> IF bindless THEN "push_constant" ELSE "parameter_block"
      [] Kind[x] = "sampler" /\ bindless -> "push_constant"
      [] OTHER -> "ubo"

\* A variable nothing accessed is not declared; one that was written is RW.
Declarations(globals, permissions, bindless) ==
    {[proxy |-> x, space |-> DeclaredIn(x, bindless), rw |-> permissions[x] # {"read"}] :
        x \in {y \in globals : permissions[y] # {}}}

\* How the statements of a lambda name its variables.  A proxy constructed
\* while the parser believed to be in a lambda is a local of another text.
UsesOf(l, bindless, locals) ==
    {[proxy |-> x, write |-> x \in l.writes, accessed |-> x \in Accessed(l),
      space |-> IF x \in locals THEN "local"
                ELSE IF x \in l.elements \/ Kind[x] = "sampler" THEN NamedIn(x, bindless)
                ELSE "late"] : x \in Named(l)}

\* The permissions after a lambda was run.
Permitted(permissions, l) ==
    [x \in Proxy |-> permissions[x] \cup (IF x \in l.reads THEN {"read"} ELSE {})
                                    \cup (IF x \in l.writes THEN {"write"} ELSE {})]

\* operator<< numbers its textures from the parser's next location.
Located(target, l, next) ==
    [x \in Proxy |-> IF \E k \in DOMAIN l.targets : l.targets[k] = x
                     THEN next + (CHOOSE k \in DOMAIN l.targets : l.targets[k] = x) - 1
                     ELSE target[x]]

-----------------------------------------------------------------------------
\* The statements of the shader being parsed.  from, lambda and complete are
\* history: the compilation and lambda they come from, and that it returned.
NoStatements == [from |-> 0, lambda |-> Nothing, complete |-> FALSE,
                 uses |-> {}, calls |-> {}, spv |-> {}, next |-> 0]

\* getShaderOutput: the statements print their names under the mode of now.
Text(current, stage, bindless, threads) ==
    [from |-> current.from, lambda |-> current.lambda, complete |-> current.complete,
     stage |-> stage, bindless |-> bindless, threads |-> threads,
     uses |-> {IF u.space = "late" THEN [u EXCEPT !.space = NamedIn(u.proxy, bindless)] ELSE u :
                  u \in current.uses},
     calls |-> current.calls, spv |-> current.spv, decls |-> {}, functions |-> {}]

\* The globals in front of every text of the pipeline.
WithGlobals(text, decls, functions) == [text EXCEPT !.decls = decls, !.functions = functions]

Declares(text, u) ==
    \E d \in text.decls :
        /\ d.proxy = u.proxy /\ d.space = u.space
        /\ u.write /\ Kind[u.proxy] \in {"texture", "array"} => d.rw

\* What Slang demands of a module it loads.
Loads(text) ==
    /\ \A u \in text.uses : Declares(text, u)
    /\ text.calls \subseteq text.functions

\* What a text does when it is linked with the SPIR-V of library, whatever it
\* declares in vain: bodies are the functions it calls that have a body.
Meaning(text, library) ==
    [stage |-> text.stage, threads |-> text.threads, uses |-> text.uses, calls |-> text.calls,
     bodies |-> text.calls \cap library,
     decls |-> {d \in text.decls : \E u \in text.uses : u.proxy = d.proxy}]
=============================================================================
