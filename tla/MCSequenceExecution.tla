------------------------- MODULE MCSequenceExecution -------------------------
(* Blocks of up to two sequences over every kind of offset value: literal     *)
(* offsets, the three repeat offsets and their shifted forms.                 *)
EXTENDS SequenceExecution

CONSTANTS OfValues, LitLens, MatchLens, MaxSequences

MCContexts == {[slots |-> {}, rep |-> <<1, 4, 8>>],
               [slots |-> TableSlots \cup {"huffman"}, rep |-> <<2, 1, 3>>]}

Sequences == UNION {[1 .. n -> [of_value : OfValues, lit_len : LitLens,
                                match_len : MatchLens]] : n \in 0 .. MaxSequences}

\* Every list of sequences, and every other fault with one list.
MCBodies ==
    {[lit_type |-> "plain", literals |-> <<7, 8, 9>>, repeats |-> {},
      sequences |-> s, overdraws |-> 0, exact |-> TRUE] : s \in Sequences}
    \cup
    {[lit_type |-> l, literals |-> lits, repeats |-> r, sequences |-> s,
      overdraws |-> o, exact |-> e] :
        l \in {"plain", "huffman", "treeless"},
        lits \in {<<>>, <<7>>, <<7, 7, 7, 7, 7, 7, 7, 7, 7, 7>>},
        s \in {<<>>, <<[of_value |-> 4, lit_len |-> 1, match_len |-> 3]>>},
        r \in {{}, {"of"}, {"ll", "ml"}}, o \in {0, 1}, e \in BOOLEAN}

\* Behind an earlier frame of the output, with and without a dictionary.
MCPlaces ==
    {[out |-> o, h |-> [content |-> c, frame_base |-> 1, block_start |-> Len(o),
                        block_size_max |-> 9, limit |-> l]] :
        o \in {<<5>>, <<5, 1, 2, 3>>}, c \in {<<>>, <<4, 6>>}, l \in {11, 100}}
=============================================================================
