---------------------------- MODULE MCBlockEncode ----------------------------
(* Parses of up to two sequences over all codes of a small set, and of six    *)
(* with a long length in any of them.                                         *)
EXTENDS BlockEncode

CONSTANTS OffBases, OffPairs

One == {[off_base |-> o, lit_len |-> l, match_len |-> l + 1] : o \in OffBases, l \in {0, 1}}
Short == {[n |-> 4, seqs |-> s] : s \in UNION {[1 .. k -> One] : k \in 0 .. 1}}
         \cup {[n |-> 6, seqs |-> s] : s \in [1 .. 2 -> One]}

\* Six sequences are cut behind the third, and then behind the first and the fourth.
Six == {[n |-> 12, seqs |-> [k \in 1 .. 6 |->
            [off_base  |-> CASE k = 1 -> o[1] [] k = 4 -> o[2] [] OTHER -> 1,
             lit_len   |-> IF k = at /\ type = "literal" THEN LongMod ELSE 0,
             match_len |-> IF k = at /\ type = "match" THEN LongMod + 1 ELSE 1]]] :
            o \in OffPairs, at \in 1 .. 6, type \in {"none", "literal", "match"}}
MCParses == Short \cup Six
MCOffPairs == {<<5, 2>>, <<1, 3>>, <<3, 1>>, <<2, 5>>}

Dict(of) ==
    [content_len |-> 3, rep |-> <<2, 1, 3>>,
     ll |-> [syms |-> 0 .. MAX_LL, id |-> <<"dict">>],
     ml |-> [syms |-> 1 .. MAX_ML, id |-> <<"dict">>],
     of |-> [syms |-> of, id |-> <<"dict">>],
     huf |-> [syms |-> LiteralSymbols, id |-> <<"dict">>]]
NoDictOnly == {NoDict}
LowStrategies == {s \in StrategyKinds : ~s.by_cost}
SplitterOnly == {s \in StrategyKinds : s.splitter}
WideDict == {NoDict, Dict(0 .. MAX_OFF)}
NarrowDict == {NoDict, Dict(0 .. 3)}
MCAlphabets == {{"x"}, {"x", "y"}}
=============================================================================
