---------------------------- MODULE ExampleAssets ----------------------------
(***************************************************************************)
(* The pure functions of the examples: the command line, the search for the*)
(* project's root, the texture loader and its BC1 blocks, the size of a    *)
(* dispatch.  MCFrameLoop evaluates them over bounded inputs.              *)
(***************************************************************************)
EXTENDS Integers, Sequences, FiniteSets

-----------------------------------------------------------------------------
\* The command line.  A token is an option with or without "=value", or a value.
\* Values are numbers, or what is no number.

NoNumber == -1
Numeric == {"queue_depth", "window_width", "window_height", "window_count", "max_fps"}

DefaultConfig == [queue_depth |-> 10, window_width |-> 800, window_height |-> 600,
                  window_count |-> 4, max_fps |-> 0]

\* read_value: the part after "=", or the next token, whatever it is.
HasValue(args, i) == args[i].inline \/ i < Len(args)
ValueOf(args, i) == IF args[i].inline THEN args[i].value
                    ELSE IF args[i + 1].option = "none" THEN args[i + 1].value ELSE NoNumber
Consumed(args, i) == IF args[i].inline \/ args[i].option = "help" THEN 1 ELSE 2

\* parse_unsigned_value throws unless the whole text is a number.
Throws(args, i) ==
    /\ args[i].option # "help"
    /\ \/ args[i].option \notin Numeric
       \/ ~HasValue(args, i)
       \/ HasValue(args, i) /\ ValueOf(args, i) = NoNumber

AtLeastOne(n) == IF n < 1 THEN 1 ELSE n

Normalised(c) ==
    [o \in Numeric |-> IF o = "max_fps" THEN c[o] ELSE AtLeastOne(c[o])]

\* The configuration, or an exception.
ParseRuntimeConfig(args) ==
    LET from[i \in 1 .. Len(args) + 2] ==
            [c \in [Numeric -> Nat] |->
                IF i > Len(args) THEN [throws |-> FALSE, config |-> Normalised(c)]
                ELSE IF Throws(args, i) THEN [throws |-> TRUE, config |-> c]
                ELSE from[i + Consumed(args, i)]
                         [IF args[i].option = "help" THEN c
                          ELSE [c EXCEPT ![args[i].option] = ValueOf(args, i)]]]
    IN  from[1][DefaultConfig]

\* Windows alternate between the two backends, or all use one.
ResolveBackend(i, mode) ==
    IF mode = "alternating" THEN IF i % 2 = 0 THEN "EDSL" ELSE "GLSL" ELSE mode

-----------------------------------------------------------------------------
\* project_root_path: from the directory up; path[1] is the root of the disk.
ProjectRoot(path, looksLikeRoot) ==
    LET found == {n \in 1 .. Len(path) : looksLikeRoot[n]}
    IN  IF found = {} THEN 0 ELSE CHOOSE n \in found : \A m \in found : m <= n

-----------------------------------------------------------------------------
\* load_texture_from_file: what happens to the pixels on each path.
Upload(what, imageCreated) == IF imageCreated THEN <<what, "storeDescriptor">> ELSE <<>>

LoadTexture(exists, decoded, positive, encoding, imageCreated) ==
    IF ~exists \/ ~decoded THEN <<>>
    ELSE <<"load">> \o
         CASE ~positive -> <<"free">>
           [] positive /\ encoding = "RGBA8_SRGB" ->
                 Upload("pixels", imageCreated) \o <<"free">>
           [] positive /\ encoding \in {"BC1_RGB_UNORM", "BC1_RGB_SRGB"} ->
                 <<"pixels", "free">> \o Upload("compressed", imageCreated)
           [] OTHER -> <<"free">>

\* compress_rgba_to_bc1: blocks of 4 by 4 texels, 8 bytes each.
BlockCount(n) == (n + 3) \div 4
Texel(bx, by, px, py) == <<bx * 4 + px, by * 4 + py>>
SourceIndex(x, y, width) == (y * width + x) * 4
BlockIndex(bx, by, width) == (by * BlockCount(width) + bx) * 8

-----------------------------------------------------------------------------
\* compute_group_count, with unsigned arithmetic of w bits and a result of half.
GroupCount(size, group, w) == (((size + group - 1) % (2^w)) \div group) % (2^(w \div 2))
=============================================================================
