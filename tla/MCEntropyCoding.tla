--------------------------- MODULE MCEntropyCoding ---------------------------
(* Small inputs for the entropy stages.                                    *)
EXTENDS EntropyCoding

From0(s) == [k \in 0 .. Len(s) - 1 |-> s[k + 1]]

\* Histograms: all of four symbols with these counts; some whose tree is deeper than
\* a limit (Fibonacci numbers) or flat; one with gaps; one long enough for
\* weights that pay for being compressed.
MCHistograms ==
    {h \in [0 .. 3 -> {0, 1, 4}] : h[3] > 0 /\ Cardinality(Used(h)) >= 2}
    \cup {From0(<<5, 2, 9, 3>>), From0(<<1, 1, 2, 3, 5, 8, 13, 21>>), From0(<<34, 1, 21, 2, 13, 3, 8, 5, 1>>),
          From0(<<1, 1, 1, 1, 4, 9, 20, 50, 50>>), From0(<<7, 7, 7, 7, 7, 7>>),
          From0(<<9, 0, 0, 2, 0, 0, 0, 1, 1>>),
          From0([k \in 1 .. 15 |-> IF k % 5 = 0 THEN 1 ELSE 0])}

\* Counts: of three codes at two table sizes; a run of 25 codes that do not occur;
\* distributions that rounding overdraws (normalize_m2).
MCCounts ==
    [count : {h \in [0 .. 2 -> {0, 1, 3, 40}] : h[2] > 0 /\ Cardinality(Used(h)) >= 1},
     log : {5, 6}, low_prob : {-1, 1}]
    \cup [count : {From0(<<4>> \o [k \in 1 .. 25 |-> 0] \o <<9>>),
                   From0(<<0, 0, 5, 0, 0, 0, 0, 1, 6>>),
                   From0([k \in 1 .. 15 |-> 3] \o <<19>>),
                   From0([k \in 1 .. 12 |-> 1] \o <<2, 2, 90>>)},
          log : {5, 6}, low_prob : {-1, 1}]

Seq3(lit_length, off_base, ml_base) ==
    [lit_length |-> lit_length, off_base |-> off_base, ml_base |-> ml_base]

\* Sequences: none; one; the same thrice; extra bits that fill the register (offsets of
\* 2^27 with long lengths) and an offset the predefined table has no code for; six
\* with different codes.
MCSequenceLists ==
    LET far == Seq3(33000, 2^27 + 77, 40000)
        mid(k) == Seq3(1000 + k, 2^26 + 9, 2^(8 + k))
        six == <<Seq3(5, 1, 0), Seq3(5, 300, 9), Seq3(3, 1029, 20), Seq3(5, 2, 5),
                 Seq3(0, 3, 5), Seq3(17, 300, 5)>>
        Long(at, side) == [at |-> at, side |-> side]
        short == Long(0, "none")
    IN  {[seqs |-> <<>>, long |-> short], [seqs |-> <<Seq3(0, 4, 0)>>, long |-> short],
         [seqs |-> [k \in 1 .. 3 |-> Seq3(7, 70, 33)], long |-> short],
         [seqs |-> <<far, Seq3(63, 2^29 + 5, 127)>>, long |-> short],
         [seqs |-> <<Seq3(1, 7, 1), far>>, long |-> Long(2, "match")],
         [seqs |-> <<Seq3(3, 7, 1), far, Seq3(1, 1, 1)>>, long |-> Long(1, "literal")],
         [seqs |-> [k \in 1 .. 4 |-> mid(k)], long |-> short],
         [seqs |-> six, long |-> short],
         [seqs |-> six, long |-> Long(3, "literal")]}

MCHeaders ==
    [type : {0, 1}, size : {1, 31, 32, 4095, 4096, 131072}, c_size : {0}, single : {TRUE}]
    \cup {h \in [type : {2, 3}, size : {6, 255, 256, 1023, 1024, 16383, 16384, 131072},
                 c_size : {5, 1023, 1024, 16383, 131069}, single : BOOLEAN] :
            h.c_size < h.size /\ (h.single => h.size < 1024)}

MCSequenceCounts == {1, 127, 128, 255, 256, 32511, 32512, 32768, 43690}

\* Three bytes: the first says what follows or how large the table is.
MCDescriptions ==
    LET Bytes == {0, 1, 2, 17, 33, 48, 81, 85, 170, 224, 255}
    IN  {LowBits(a, 8) \o LowBits(b, 8) \o LowBits(c, 8) :
            a \in Bytes \cup {128, 129, 130, 131}, b \in Bytes, c \in Bytes}

\* Rows of the table of parameters at five levels, one line for each class of sizes.
MCRows ==
    LET Row(w, c, h, s, strategy) == [window_log |-> w, chain_log |-> c, hash_log |-> h,
                                      search_log |-> s, strategy |-> strategy]
        Rows(r0, r3, r7, r9, r22) == (0 :> r0) @@ (3 :> r3) @@ (7 :> r7) @@ (9 :> r9) @@ (22 :> r22)
    IN  (0 :> Rows(Row(19, 12, 13, 1, "fast"), Row(21, 16, 17, 1, "dfast"), Row(21, 19, 20, 4, "lazy"),
                   Row(22, 20, 21, 4, "lazy2"), Row(27, 27, 25, 9, "btultra2")))
        @@ (1 :> Rows(Row(18, 12, 13, 1, "fast"), Row(18, 16, 16, 1, "dfast"), Row(18, 18, 19, 4, "lazy"),
                      Row(18, 18, 19, 5, "lazy2"), Row(18, 19, 19, 13, "btultra2")))
        @@ (2 :> Rows(Row(17, 12, 12, 1, "fast"), Row(17, 15, 16, 2, "dfast"), Row(17, 16, 17, 3, "lazy2"),
                      Row(17, 16, 17, 5, "lazy2"), Row(17, 18, 17, 11, "btultra2")))
        @@ (3 :> Rows(Row(14, 12, 13, 1, "fast"), Row(14, 14, 15, 2, "dfast"), Row(14, 14, 14, 6, "lazy2"),
                      Row(14, 15, 14, 5, "btlazy2"), Row(14, 15, 15, 10, "btultra2")))

\* Frames: at every size at which a field of three bits a byte, a class of sizes or
\* the way to use a dictionary changes; ids likewise.
MCFrameSetups ==
    LET Setup(path, level, src_size, dict_size, checksum, dict_id) ==
            [path |-> path, level |-> level, src_size |-> src_size, dict_size |-> dict_size,
             checksum |-> checksum, dict_id |-> dict_id]
    IN  {Setup("plain", level, src_size, 0, level = 7, 0) :
            level \in {-7, 0, 7, 9, 30},
            src_size \in {Unknown, 0, 7, 8, 71, 72, 1024, 4094, 4095, 16384, 16385, 262144, 262145, 2^22 + 1}}
        \cup {Setup(path, level, src_size, dict_size, FALSE, IF level = 9 THEN 9 ELSE 0) :
                path \in {"load", "attach", "copy"}, level \in {0, 7, 9, 22},
                src_size \in {Unknown, 0, 63, 64, 8193, 32768, 32769, 2^20},
                dict_size \in {9, 450, 16000, 2^18, 2^27}}
        \cup {Setup("attach", 0, 100, 450, TRUE, dict_id) : dict_id \in {1, 7, 8, 63, 64, 4095}}

\* Dictionaries of a table for the literals 0 to 3, or another, or none; of offset
\* codes up to 5, up to 4, or with a gap; with all lengths, a few, or rare ones only;
\* with offsets that reach the first byte of the content, one too far, or nowhere; cut
\* off.
MCDictionaries ==
    LET Table(count) == write_ctable(huf_build_ctable(count, HUF_TABLELOG_DEFAULT)).bits
        Norm(norm, log) == write_ncount(norm, log).bits
        all    == Table(From0(<<5, 2, 9, 3>>))
        some   == Table(From0(<<9, 0, 0, 2, 0, 0, 0, 1, 1>>))
        none   == LowBits(129, 8) \o LowBits(51, 8)
        five   == Norm(From0(<<8, 8, 4, 4, 7, -1>>), 5)
        four   == Norm(From0(<<8, 8, 4, 4, 8>>), 5)
        gap    == Norm(From0(<<8, 8, 0, 4, 4, 8>>), 5)
        ml     == Norm(SPEC.ml.norm, 6)
        ll     == Norm(SPEC.ll.norm, 6)
        few    == Norm(From0(<<16, 8, 4, 4>>), 5)
        rare   == Norm(From0([k \in 1 .. 32 |-> -1]), 5)
        Bytes(s) == FlattenSeq([k \in DOMAIN s |-> LowBits(s[k], 8)])
        Dict(h, of, m, l, rep, n) ==
            h \o of \o m \o l \o Bytes(rep) \o Bytes([k \in 1 .. n |-> 17 * k])
    IN  {Dict(all, of, few, ll, <<1, 2, n>>, n) : of \in {five, four, gap}, n \in {12, 13, 15, 16, 19}}
        \cup {Dict(h, five, ml, few, <<1, 2, 3>>, 12) : h \in {all, some, none}}
        \cup {Dict(all, five, rare, rare, <<1, 2, 3>>, 12)}
        \cup {Dict(some, four, few, few, rep, 9) : rep \in {<<0, 1, 2>>, <<1, 9, 0>>, <<4, 10, 1>>}}
        \cup {SubSeq(Dict(some, four, few, few, <<1, 1, 1>>, 1), 1, 8 * n) : n \in 1 .. 16}
=============================================================================
