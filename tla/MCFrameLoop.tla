----------------------------- MODULE MCFrameLoop -----------------------------
(* Small instances of FrameLoop for TLC, and the pure functions of the       *)
(* examples over bounded inputs.                                             *)
EXTENDS FrameLoop, ExampleAssets, TLC

-----------------------------------------------------------------------------
\* run_queue_self_test (main.cpp:84): ten items into a queue of three.
Filled[n \in 0 .. 10] == IF n = 0 THEN EmptyQueue ELSE Push(Filled[n - 1], 3, n - 1)

ASSUME QueueSelfTest ==
    /\ Filled[10].dropped_count = 7
    /\ PopAllLatest(Filled[10]) = 9
    /\ CanReturn(Close(EmptyQueue)) /\ IsClosedAndEmpty(Close(EmptyQueue))

-----------------------------------------------------------------------------
SomeToken == [option : {"window_width", "max_fps", "help", "bogus"},
              inline : BOOLEAN, value : {0, 3, NoNumber}]
                 \cup [option : {"none"}, inline : {FALSE}, value : {3}]

SomeArgs == UNION {[1 .. n -> SomeToken] : n \in 0 .. 2}

\* No configuration has an empty queue, window or window list, whatever was given,
\* and a stray or unknown token never goes unnoticed.
ASSUME ConfigsAreUsable ==
    \A args \in SomeArgs :
        LET r == ParseRuntimeConfig(args)
        IN  /\ ~r.throws => \A o \in Numeric \ {"max_fps"} : r.config[o] >= 1
            /\ Len(args) > 0 /\ args[1].option \in {"none", "bogus"} => r.throws
            /\ (\A i \in DOMAIN args : args[i].inline /\ args[i].option \in Numeric
                                           /\ args[i].value # NoNumber) => ~r.throws

\* Every path frees the pixels it loaded once, and uses them only before.
ASSUME PixelsFreedOnce ==
    \A exists, decoded, positive, made \in BOOLEAN :
        \A encoding \in {"RGBA8_SRGB", "BC1_RGB_SRGB", "BC1_RGB_UNORM", "BC7"} :
            LET path == LoadTexture(exists, decoded, positive, encoding, made)
                at(e) == {i \in DOMAIN path : path[i] = e}
            IN  /\ Cardinality(at("free")) = Cardinality(at("load"))
                /\ \A i \in at("pixels"), j \in at("free") : i < j

\* BC1: every texel is in one block, reads stay in the image and writes in the
\* blocks, for sizes that are no multiple of four.
ASSUME BlocksCoverImage ==
    \A width, height \in 1 .. 6 :
        LET blocks == (0 .. BlockCount(width) - 1) \X (0 .. BlockCount(height) - 1)
            texels == blocks \X ((0 .. 3) \X (0 .. 3))
            of(t) == Texel(t[1][1], t[1][2], t[2][1], t[2][2])
            inside == {t \in texels : of(t)[1] < width /\ of(t)[2] < height}
        IN  /\ {of(t) : t \in inside} = (0 .. width - 1) \X (0 .. height - 1)
            /\ Cardinality(inside) = width * height
            /\ \A t \in inside : SourceIndex(of(t)[1], of(t)[2], width) + 3 < width * height * 4
            /\ {BlockIndex(b[1], b[2], width) : b \in blocks}
                   = {8 * i : i \in 0 .. BlockCount(width) * BlockCount(height) - 1}

\* A dispatch covers the window and no more than its last group sticks out, up to
\* the largest count that 16 bits hold (4 of 8 here, 16 of 32 in the code).
ASSUME GroupsCoverWindow ==
    \A size \in 1 .. 8 * 15 :
        LET n == GroupCount(size, 8, 8) IN n * 8 >= size /\ (n - 1) * 8 < size

\* The nearest directory that looks like the root is taken.
ASSUME RootIsNearest ==
    \A looks \in [1 .. 3 -> BOOLEAN] :
        LET n == ProjectRoot(<<"disk", "project", "build">>, looks)
        IN  \A m \in 1 .. 3 : looks[m] => m <= n /\ looks[n]

ASSUME BackendsAlternate ==
    \A i \in 0 .. 3 : ResolveBackend(i, "alternating") # ResolveBackend(i + 1, "alternating")
=============================================================================
