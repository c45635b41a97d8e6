---------------------------- MODULE SequenceStore ----------------------------
(***************************************************************************)
(* The sequences a match finder leaves behind (SeqStore), cut into chunks  *)
(* for the post-block splitter, and turned into codes for the entropy      *)
(* stage (sequences_encode.rs, post_split.rs).                             *)
(*                                                                         *)
(* Lengths are kept in fields of 16 bits, LongMod values here; one length  *)
(* of a block may exceed them, and a marker says which.  A literal is its  *)
(* position in the block, so that literals in the wrong place show.        *)
(***************************************************************************)
EXTENDS BlockDecode

CONSTANTS
    LongMod,        \* 2^16
    MIN_MATCH       \* 3

MAX_LL == LongMod   \* the code whose base is 2^16; so for match lengths
MAX_ML == LongMod

\* The sum of the first n parts.
SumTo(part, n) ==
    LET sum[k \in 0 .. n] == IF k = 0 THEN 0 ELSE sum[k - 1] + part[k]
    IN  sum[n]

-----------------------------------------------------------------------------
(* The store.                                                              *)

NoMarker == [type |-> "none", pos |-> 0]

EmptyStore == [literals |-> <<>>, sequences |-> <<>>, long |-> NoMarker]

\* A sequence of lit_len literals and a match; at is its place in the block.
store_seq(store, at, s) ==
    LET index   == Len(store.sequences)
        ml_base == s.match_len - MIN_MATCH
    IN  [literals  |-> store.literals \o [k \in 1 .. s.lit_len |-> at + k],
         sequences |-> Append(store.sequences,
                              [off_base   |-> s.off_base,
                               lit_length |-> s.lit_len % LongMod,
                               ml_base    |-> ml_base % LongMod]),
         long |-> CASE ml_base >= LongMod   -> [type |-> "match", pos |-> index]
                    [] s.lit_len >= LongMod -> [type |-> "literal", pos |-> index]
                    [] OTHER                -> store.long]

\* How far the first k sequences of a parse reach into the block.
SpanTo(parse, k) == SumTo([j \in DOMAIN parse |-> parse[j].lit_len + parse[j].match_len], k)
SpanOf(parse)    == SpanTo(parse, Len(parse))

\* The store after each sequence of a parse.
StoreAlong(parse) ==
    LET store[k \in 0 .. Len(parse)] ==
            IF k = 0 THEN EmptyStore
            ELSE store_seq(store[k - 1], SpanTo(parse, k - 1), parse[k])
    IN  store

\* The store after a block of n bytes: its sequences and the literals left over.
StoreOf(parse, n) ==
    LET rest == SpanOf(parse)
    IN  [StoreAlong(parse)[Len(parse)] EXCEPT
            !.literals = @ \o [k \in 1 .. n - rest |-> rest + k]]

-----------------------------------------------------------------------------
(* Chunks: the sequences first + 1 .. last of the store.                   *)

count_literals_bytes(store, first, last) ==
    SumTo([k \in 1 .. last - first |->
              store.sequences[first + k].lit_length
              + IF store.long = [type |-> "literal", pos |-> first + k - 1]
                THEN LongMod ELSE 0], last - first)

count_match_bytes(store, first, last) ==
    SumTo([k \in 1 .. last - first |->
              store.sequences[first + k].ml_base + MIN_MATCH
              + IF store.long = [type |-> "match", pos |-> first + k - 1]
                THEN LongMod ELSE 0], last - first)

\* Mutant of MarkerOf: the position stays relative to the whole store.
MarkerOf_Absolute(store, first, last) ==
    IF store.long.type = "none" \/ store.long.pos \notin first .. last THEN NoMarker
    ELSE store.long

\* The marker of a chunk, relative to it.  The upper bound is inclusive, as the
\* code says of itself: a marker on the first sequence after the chunk is kept.
MarkerOf(store, first, last) ==
    IF store.long.type = "none" \/ store.long.pos \notin first .. last THEN NoMarker
    ELSE [store.long EXCEPT !.pos = @ - first]

\* derive_chunk and chunk_view.  Only the literals of the last chunk include
\* those behind the last sequence.
derive_chunk(store, first, last) ==
    LET lit_start == count_literals_bytes(store, 0, first)
        lit_end   == IF last = Len(store.sequences) THEN Len(store.literals)
                     ELSE lit_start + count_literals_bytes(store, first, last)
    IN  [first |-> first, last |-> last, long |-> MarkerOf(store, first, last),
         literals |-> SubSeq(store.literals, lit_start + 1, lit_end)]

SequencesOf(store, chunk) == SubSeq(store.sequences, chunk.first + 1, chunk.last)

-----------------------------------------------------------------------------
(* The offset history, which the encoder keeps as the decoder does.        *)

\* update_rep and resolve_repcode_to_raw; the offset meant by off_base is the
\* head of the history after it.
update_rep(rep, off_base, ll0) ==
    LET code == off_base - 1 + IF ll0 THEN 1 ELSE 0
    IN  CASE off_base > 3              -> <<off_base - 3, rep[1], rep[2]>>
          [] off_base <= 3 /\ code = 0 -> rep
          [] off_base <= 3 /\ code = 1 -> <<rep[2], rep[1], rep[3]>>
          [] off_base <= 3 /\ code = 2 -> <<rep[3], rep[1], rep[2]>>
          [] off_base <= 3 /\ code = 3 -> <<rep[1] - 1, rep[1], rep[2]>>

resolve_repcode_to_raw(rep, off_base, ll0) == update_rep(rep, off_base, ll0)[1]

\* Mutant of resolve_off_code: the decoder's history does not see the rewrite.
resolve_off_code_Stale(acc, s, ll0) ==
    LET meant == resolve_repcode_to_raw(acc.c_rep, s.off_base, ll0)
        now   == IF /\ s.off_base <= 3
                    /\ resolve_repcode_to_raw(acc.d_rep, s.off_base, ll0) # meant
                 THEN meant + 3 ELSE s.off_base
    IN  [seqs  |-> Append(acc.seqs, [s EXCEPT !.off_base = now]),
         d_rep |-> update_rep(acc.d_rep, s.off_base, ll0),
         c_rep |-> update_rep(acc.c_rep, s.off_base, ll0)]

\* One turn of resolve_off_codes: a repeat code that the decoder, whose history
\* is d_rep, would resolve to another offset is replaced by the offset itself.
resolve_off_code(acc, s, ll0) ==
    LET meant == resolve_repcode_to_raw(acc.c_rep, s.off_base, ll0)
        now   == IF /\ s.off_base <= 3
                    /\ resolve_repcode_to_raw(acc.d_rep, s.off_base, ll0) # meant
                 THEN meant + 3 ELSE s.off_base
    IN  [seqs  |-> Append(acc.seqs, [s EXCEPT !.off_base = now]),
         d_rep |-> update_rep(acc.d_rep, now, ll0),
         c_rep |-> update_rep(acc.c_rep, s.off_base, ll0)]

\* A sequence has no literals if its field is zero and it is not the marked one.
WithoutLiterals(s, long, k) ==
    s.lit_length = 0 /\ long # [type |-> "literal", pos |-> k - 1]

resolve_off_codes(seqs, long, d_rep, c_rep) ==
    LET acc[k \in 0 .. Len(seqs)] ==
            IF k = 0 THEN [seqs |-> <<>>, d_rep |-> d_rep, c_rep |-> c_rep]
            ELSE resolve_off_code(acc[k - 1], seqs[k], WithoutLiterals(seqs[k], long, k))
    IN  acc[Len(seqs)]

-----------------------------------------------------------------------------
(* Codes.                                                                  *)

\* The marker names a sequence that is not in the chunk: the code indexes the
\* array of codes with it.
CodesOutOfBounds(seqs, long) == long.type # "none" /\ long.pos >= Len(seqs)

\* highbit32
OffCode(off_base) == CHOOSE c \in 0 .. off_base : 2^c <= off_base /\ off_base < 2^(c + 1)

\* seq_to_codes: a code and its extra bits for each part; below LongMod each
\* length is taken to have a code of its own.
seq_to_codes(seqs, long) ==
    [k \in DOMAIN seqs |->
        [ll |-> IF long = [type |-> "literal", pos |-> k - 1]
                THEN MAX_LL ELSE seqs[k].lit_length,
         ml |-> IF long = [type |-> "match", pos |-> k - 1]
                THEN MAX_ML ELSE seqs[k].ml_base,
         of |-> OffCode(seqs[k].off_base),
         seq |-> seqs[k]]]

\* What a decoder makes of a code and its extra bits (block.rs).
LengthRead(code, field, max) == IF code = max THEN LongMod + field ELSE code

SequenceRead(c) ==
    [of_value  |-> c.seq.off_base,
     lit_len   |-> LengthRead(c.ll, c.seq.lit_length, MAX_LL),
     match_len |-> LengthRead(c.ml, c.seq.ml_base, MAX_ML) + MIN_MATCH]
=============================================================================
