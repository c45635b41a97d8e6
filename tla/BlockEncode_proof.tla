-------------------------- MODULE BlockEncode_proof --------------------------
(***************************************************************************)
(* The blocks of a frame, for every parse, dictionary and alphabet: the    *)
(* tables and offsets the encoder carries from block to block are those of *)
(* the decoder, also where a block is split and repeat codes are rewritten *)
(* for a history that went another way, and the decoder takes every byte   *)
(* from where the match finder meant it.                                   *)
(***************************************************************************)
EXTENDS BlockEncode, BlockDecode_proof, FiniteSetTheorems

Offsets == Nat \ {0}
\* update_rep of the encoder (post_split.rs) and resolve_offset of the decoder
\* (block.rs), written by different hands, are one function: whatever code a
\* sequence has, and whether or not literals precede it, both histories stay in step.
THEOREM HistoriesInStep ==
    ASSUME NEW v \in Offsets, NEW l \in Nat, NEW r
    PROVE  update_rep(r, v, l = 0) = resolve_offset(v, l, r)
<1> DEFINE index == v + IF l = 0 THEN 1 ELSE 0
           code  == v - 1 + IF l = 0 THEN 1 ELSE 0
<1>0. v \in Nat /\ v >= 1
  BY DEF Offsets
<1>1. code = index - 1 /\ (v <= 3 => index \in 1 .. 4)
  BY <1>0
<1>2. CASE v > 3
  <2>1. resolve_offset(v, l, r) = <<v - 3, r[1], r[2]>>
    BY <1>0, <1>2 DEF resolve_offset
  <2>2. update_rep(r, v, l = 0) = <<v - 3, r[1], r[2]>>
    BY <1>0, <1>2 DEF update_rep
  <2> QED
    BY <2>1, <2>2
<1>3. CASE v <= 3 /\ index = 1
  <2>1. resolve_offset(v, l, r) = r
    BY <1>0, <1>3 DEF resolve_offset
  <2>2. update_rep(r, v, l = 0) = r
    BY <1>0, <1>1, <1>3, SMTT(30) DEF update_rep
  <2> QED
    BY <2>1, <2>2
<1>4. CASE v <= 3 /\ index = 2
  <2>1. resolve_offset(v, l, r) = <<r[2], r[1], r[3]>>
    BY <1>0, <1>4 DEF resolve_offset
  <2>2. update_rep(r, v, l = 0) = <<r[2], r[1], r[3]>>
    BY <1>0, <1>1, <1>4 DEF update_rep
  <2> QED
    BY <2>1, <2>2
<1>5. CASE v <= 3 /\ index = 3
  <2>1. resolve_offset(v, l, r) = <<r[3], r[1], r[2]>>
    BY <1>0, <1>5 DEF resolve_offset
  <2>2. update_rep(r, v, l = 0) = <<r[3], r[1], r[2]>>
    BY <1>0, <1>1, <1>5 DEF update_rep
  <2> QED
    BY <2>1, <2>2
<1>6. CASE v <= 3 /\ index = 4
  <2>1. resolve_offset(v, l, r) = <<r[1] - 1, r[1], r[2]>>
    BY <1>0, <1>6 DEF resolve_offset
  <2>2. update_rep(r, v, l = 0) = <<r[1] - 1, r[1], r[2]>>
    BY <1>0, <1>1, <1>6 DEF update_rep
  <2> QED
    BY <2>1, <2>2
<1> QED
  BY <1>1, <1>2, <1>3, <1>4, <1>5, <1>6 DEF Offsets

\* The offset itself means itself in any history.
LEMMA OffsetMeansItself ==
    ASSUME NEW offset \in Offsets, NEW ll0 \in BOOLEAN, NEW r
    PROVE  resolve_repcode_to_raw(r, offset + 3, ll0) = offset
<1>1. update_rep(r, offset + 3, ll0) = <<offset, r[1], r[2]>>
  BY DEF update_rep, Offsets
<1> QED
  BY <1>1 DEF resolve_repcode_to_raw

\* A code above 3 is an offset, the same one in every history.
LEMMA OffsetNeedsNoHistory ==
    ASSUME NEW v \in Offsets, v > 3, NEW ll0 \in BOOLEAN, NEW r, NEW q
    PROVE  resolve_repcode_to_raw(r, v, ll0) = resolve_repcode_to_raw(q, v, ll0)
BY DEF resolve_repcode_to_raw, update_rep, Offsets

\* The code now, emitted for the sequence s, means what s means, and the histories the
\* encoder goes on with are those of the decoder and of the match finder.
MeansTheSame(acc, s, l, now) ==
    /\ resolve_offset(now, l, acc.d_rep)[1] = resolve_offset(s.off_base, l, acc.c_rep)[1]
    /\ resolve_off_code(acc, s, l = 0) =
           [seqs  |-> Append(acc.seqs, [s EXCEPT !.off_base = now]),
            d_rep |-> resolve_offset(now, l, acc.d_rep),
            c_rep |-> resolve_offset(s.off_base, l, acc.c_rep)]

\* One turn of resolve_off_codes (post_split.rs): a sequence found with the history
\* acc.c_rep is emitted for a decoder with the history acc.d_rep. The decoder resolves
\* the code emitted to the offset meant, and both histories stay what they are.
THEOREM RewrittenCodeMeansTheSame ==
    ASSUME NEW acc, NEW s, NEW l \in Nat, s.off_base \in Offsets,
           resolve_offset(s.off_base, l, acc.c_rep)[1] \in Offsets
    PROVE  \E now \in Offsets : MeansTheSame(acc, s, l, now)
<1> DEFINE ll0   == l = 0
           meant == resolve_repcode_to_raw(acc.c_rep, s.off_base, ll0)
           differs == /\ s.off_base <= 3
                      /\ resolve_repcode_to_raw(acc.d_rep, s.off_base, ll0) # meant
           now   == IF differs THEN meant + 3 ELSE s.off_base
<1>1. update_rep(acc.c_rep, s.off_base, ll0) = resolve_offset(s.off_base, l, acc.c_rep)
  BY HistoriesInStep
<1>2. meant \in Offsets /\ meant = resolve_offset(s.off_base, l, acc.c_rep)[1]
  BY <1>1 DEF resolve_repcode_to_raw
<1>3. now \in Offsets
  BY <1>2 DEF Offsets
<1>4. update_rep(acc.d_rep, now, ll0) = resolve_offset(now, l, acc.d_rep)
  <2> HIDE DEF now
  <2> QED
    BY <1>3, HistoriesInStep
<1>5. resolve_repcode_to_raw(acc.d_rep, now, ll0) = meant
  <2>1. CASE differs
    <3>1. now = meant + 3
      BY <2>1
    <3> HIDE DEF meant
    <3> QED
      BY <1>2, <3>1, OffsetMeansItself
  <2>2. CASE s.off_base <= 3 /\ ~differs
    BY <2>2
  <2>3. CASE s.off_base > 3
    <3>1. now = s.off_base
      BY <2>3 DEF Offsets
    <3>2. meant = resolve_repcode_to_raw(acc.d_rep, s.off_base, ll0)
      <4>1. ll0 \in BOOLEAN
        OBVIOUS
      <4> HIDE DEF ll0
      <4> QED
        BY <2>3, <4>1, OffsetNeedsNoHistory
    <3> QED
      BY <3>1, <3>2
  <2> QED
    BY <2>1, <2>2, <2>3 DEF Offsets
<1>6. resolve_offset(now, l, acc.d_rep)[1] = meant
  BY <1>4, <1>5 DEF resolve_repcode_to_raw
<1>7. resolve_off_code(acc, s, ll0) =
          [seqs  |-> Append(acc.seqs, [s EXCEPT !.off_base = now]),
           d_rep |-> update_rep(acc.d_rep, now, ll0),
           c_rep |-> update_rep(acc.c_rep, s.off_base, ll0)]
  BY DEF resolve_off_code
<1>8. MeansTheSame(acc, s, l, now)
  <2> HIDE DEF now, meant
  <2> QED
    BY <1>1, <1>2, <1>4, <1>6, <1>7 DEF MeansTheSame
<1> QED
  BY <1>3, <1>8


-----------------------------------------------------------------------------
(* The recursive functions, unfolded.                                      *)

\* The sums of the first 0, 1, .. n parts.
Sums(parts, n) ==
    LET sum[k \in 0 .. n] == IF k = 0 THEN 0 ELSE sum[k - 1] + parts[k]
    IN  sum

\* Each sum adds a part to the one before.
LEMMA SumsUnfold ==
    ASSUME NEW parts, NEW n \in Nat
    PROVE  /\ Sums(parts, n)[0] = 0
           /\ \A k \in 1 .. n : Sums(parts, n)[k] = Sums(parts, n)[k - 1] + parts[k]
<1> DEFINE start == 0
           Step(x, k) == x + parts[k]
           Is(f, m) == f = [k \in 0 .. m |-> IF k = 0 THEN start ELSE Step(f[k - 1], k)]
           T == {m \in Nat : \E f : Is(f, m)}
<1> HIDE DEF start, Step
<1>1. 0 \in T
  <2>1. Is([k \in 0 .. 0 |-> start], 0)
    OBVIOUS
  <2>2. \E f : Is(f, 0)
    <3> WITNESS [k \in 0 .. 0 |-> start]
    <3> QED
      BY <2>1
  <2> QED
    BY <2>2
<1>2. ASSUME NEW m \in 1 .. n, m - 1 \in T PROVE m \in T
  <2>1. PICK g : Is(g, m - 1)
    BY <1>2
  <2> DEFINE f == [k \in 0 .. m |-> IF k = m THEN Step(g[m - 1], m) ELSE g[k]]
  <2>2. ASSUME NEW k \in 0 .. m
        PROVE  f[k] = IF k = 0 THEN start ELSE Step(f[k - 1], k)
    <3>1. CASE k = 0
      BY <2>1, <3>1
    <3>2. CASE k = m
      <4>1. f[k - 1] = g[m - 1] /\ f[k] = Step(g[m - 1], m)
        BY <3>2
      <4> QED
        BY <3>2, <4>1
    <3>3. CASE k # 0 /\ k # m
      <4>1. k \in 0 .. m - 1 /\ k - 1 \in 0 .. m /\ k - 1 # m
        BY <3>3
      <4>2. f[k] = g[k] /\ f[k - 1] = g[k - 1]
        BY <3>3, <4>1
      <4>3. g[k] = Step(g[k - 1], k)
        BY <2>1, <3>3, <4>1
      <4> QED
        BY <3>3, <4>2, <4>3
    <3> QED
      BY <3>1, <3>2, <3>3
  <2>3. Is(f, m)
    BY <2>2
  <2>4. \E e : Is(e, m)
    <3> HIDE DEF f
    <3> WITNESS f
    <3> QED
      BY <2>3
  <2>5. m \in Nat
    OBVIOUS
  <2> QED
    BY <2>4, <2>5
<1>3. \E f : Is(f, n)
  <2> HIDE DEF T
  <2>1. 0 .. n \subseteq T
    BY <1>1, <1>2, UpTo
  <2>2. n \in T
    BY <2>1
  <2> QED
    BY <2>2 DEF T
<1>4. Sums(parts, n) = CHOOSE f : Is(f, n)
  BY DEF Sums, start, Step
<1>5. Is(Sums(parts, n), n)
  BY <1>3, <1>4
<1>6. Sums(parts, n)[0] = start
  BY <1>5, 0 \in 0 .. n
<1>7. ASSUME NEW k \in 1 .. n PROVE Sums(parts, n)[k] = Step(Sums(parts, n)[k - 1], k)
  BY <1>5, k \in 0 .. n, k # 0
<1> QED
  BY <1>6, <1>7 DEF start, Step

\* Each sequence is stored behind those before (SeqStore::store_seq).
LEMMA StoreUnfold ==
    ASSUME NEW parse, Len(parse) \in Nat
    PROVE  /\ StoreAlong(parse)[0] = EmptyStore
           /\ \A k \in 1 .. Len(parse) :
                 StoreAlong(parse)[k] =
                     store_seq(StoreAlong(parse)[k - 1], SpanTo(parse, k - 1), parse[k])
<1> DEFINE start == EmptyStore
           Step(x, k) == store_seq(x, SpanTo(parse, k - 1), parse[k])
           Is(f, m) == f = [k \in 0 .. m |-> IF k = 0 THEN start ELSE Step(f[k - 1], k)]
           T == {m \in Nat : \E f : Is(f, m)}
<1> HIDE DEF start, Step
<1>1. 0 \in T
  <2>1. Is([k \in 0 .. 0 |-> start], 0)
    OBVIOUS
  <2>2. \E f : Is(f, 0)
    <3> WITNESS [k \in 0 .. 0 |-> start]
    <3> QED
      BY <2>1
  <2> QED
    BY <2>2
<1>2. ASSUME NEW m \in 1 .. Len(parse), m - 1 \in T PROVE m \in T
  <2>1. PICK g : Is(g, m - 1)
    BY <1>2
  <2> DEFINE f == [k \in 0 .. m |-> IF k = m THEN Step(g[m - 1], m) ELSE g[k]]
  <2>2. ASSUME NEW k \in 0 .. m
        PROVE  f[k] = IF k = 0 THEN start ELSE Step(f[k - 1], k)
    <3>1. CASE k = 0
      BY <2>1, <3>1
    <3>2. CASE k = m
      <4>1. f[k - 1] = g[m - 1] /\ f[k] = Step(g[m - 1], m)
        BY <3>2
      <4> QED
        BY <3>2, <4>1
    <3>3. CASE k # 0 /\ k # m
      <4>1. k \in 0 .. m - 1 /\ k - 1 \in 0 .. m /\ k - 1 # m
        BY <3>3
      <4>2. f[k] = g[k] /\ f[k - 1] = g[k - 1]
        BY <3>3, <4>1
      <4>3. g[k] = Step(g[k - 1], k)
        BY <2>1, <3>3, <4>1
      <4> QED
        BY <3>3, <4>2, <4>3
    <3> QED
      BY <3>1, <3>2, <3>3
  <2>3. Is(f, m)
    BY <2>2
  <2>4. \E e : Is(e, m)
    <3> HIDE DEF f
    <3> WITNESS f
    <3> QED
      BY <2>3
  <2>5. m \in Nat
    OBVIOUS
  <2> QED
    BY <2>4, <2>5
<1>3. \E f : Is(f, Len(parse))
  <2> HIDE DEF T
  <2>1. 0 .. Len(parse) \subseteq T
    BY <1>1, <1>2, UpTo
  <2>2. Len(parse) \in T
    BY <2>1
  <2> QED
    BY <2>2 DEF T
<1>4. StoreAlong(parse) = CHOOSE f : Is(f, Len(parse))
  BY DEF StoreAlong, start, Step
<1>5. Is(StoreAlong(parse), Len(parse))
  BY <1>3, <1>4
<1>6. StoreAlong(parse)[0] = start
  BY <1>5, 0 \in 0 .. Len(parse)
<1>7. ASSUME NEW k \in 1 .. Len(parse) PROVE StoreAlong(parse)[k] = Step(StoreAlong(parse)[k - 1], k)
  BY <1>5, k \in 0 .. Len(parse), k # 0
<1> QED
  BY <1>6, <1>7 DEF start, Step

\* Each sequence moves the match finder's history.
LEMMA HistoryUnfold ==
    ASSUME NEW from, NEW seqs, Len(seqs) \in Nat
    PROVE  /\ HistoryAlong(from, seqs)[0] = from
           /\ \A k \in 1 .. Len(seqs) :
                 HistoryAlong(from, seqs)[k] =
                     update_rep(HistoryAlong(from, seqs)[k - 1], seqs[k].off_base,
                                seqs[k].lit_len = 0)
<1> DEFINE start == from
           Step(x, k) == update_rep(x, seqs[k].off_base, seqs[k].lit_len = 0)
           Is(f, m) == f = [k \in 0 .. m |-> IF k = 0 THEN start ELSE Step(f[k - 1], k)]
           T == {m \in Nat : \E f : Is(f, m)}
<1> HIDE DEF start, Step
<1>1. 0 \in T
  <2>1. Is([k \in 0 .. 0 |-> start], 0)
    OBVIOUS
  <2>2. \E f : Is(f, 0)
    <3> WITNESS [k \in 0 .. 0 |-> start]
    <3> QED
      BY <2>1
  <2> QED
    BY <2>2
<1>2. ASSUME NEW m \in 1 .. Len(seqs), m - 1 \in T PROVE m \in T
  <2>1. PICK g : Is(g, m - 1)
    BY <1>2
  <2> DEFINE f == [k \in 0 .. m |-> IF k = m THEN Step(g[m - 1], m) ELSE g[k]]
  <2>2. ASSUME NEW k \in 0 .. m
        PROVE  f[k] = IF k = 0 THEN start ELSE Step(f[k - 1], k)
    <3>1. CASE k = 0
      BY <2>1, <3>1
    <3>2. CASE k = m
      <4>1. f[k - 1] = g[m - 1] /\ f[k] = Step(g[m - 1], m)
        BY <3>2
      <4> QED
        BY <3>2, <4>1
    <3>3. CASE k # 0 /\ k # m
      <4>1. k \in 0 .. m - 1 /\ k - 1 \in 0 .. m /\ k - 1 # m
        BY <3>3
      <4>2. f[k] = g[k] /\ f[k - 1] = g[k - 1]
        BY <3>3, <4>1
      <4>3. g[k] = Step(g[k - 1], k)
        BY <2>1, <3>3, <4>1
      <4> QED
        BY <3>3, <4>2, <4>3
    <3> QED
      BY <3>1, <3>2, <3>3
  <2>3. Is(f, m)
    BY <2>2
  <2>4. \E e : Is(e, m)
    <3> HIDE DEF f
    <3> WITNESS f
    <3> QED
      BY <2>3
  <2>5. m \in Nat
    OBVIOUS
  <2> QED
    BY <2>4, <2>5
<1>3. \E f : Is(f, Len(seqs))
  <2> HIDE DEF T
  <2>1. 0 .. Len(seqs) \subseteq T
    BY <1>1, <1>2, UpTo
  <2>2. Len(seqs) \in T
    BY <2>1
  <2> QED
    BY <2>2 DEF T
<1>4. HistoryAlong(from, seqs) = CHOOSE f : Is(f, Len(seqs))
  BY DEF HistoryAlong, start, Step
<1>5. Is(HistoryAlong(from, seqs), Len(seqs))
  BY <1>3, <1>4
<1>6. HistoryAlong(from, seqs)[0] = start
  BY <1>5, 0 \in 0 .. Len(seqs)
<1>7. ASSUME NEW k \in 1 .. Len(seqs) PROVE HistoryAlong(from, seqs)[k] = Step(HistoryAlong(from, seqs)[k - 1], k)
  BY <1>5, k \in 0 .. Len(seqs), k # 0
<1> QED
  BY <1>6, <1>7 DEF start, Step

\* The loop of resolve_off_codes (post_split.rs).
Resolving(seqs, long, d_rep0, c_rep0) ==
    LET acc[k \in 0 .. Len(seqs)] ==
            IF k = 0 THEN [seqs |-> <<>>, d_rep |-> d_rep0, c_rep |-> c_rep0]
            ELSE resolve_off_code(acc[k - 1], seqs[k], WithoutLiterals(seqs[k], long, k))
    IN  acc

\* Each turn of it takes one sequence.
LEMMA ResolvingUnfold ==
    ASSUME NEW seqs, Len(seqs) \in Nat, NEW long, NEW d, NEW c
    PROVE  /\ Resolving(seqs, long, d, c)[0] = [seqs |-> <<>>, d_rep |-> d, c_rep |-> c]
           /\ \A k \in 1 .. Len(seqs) :
                 Resolving(seqs, long, d, c)[k] =
                     resolve_off_code(Resolving(seqs, long, d, c)[k - 1], seqs[k],
                                      WithoutLiterals(seqs[k], long, k))
<1> DEFINE start == [seqs |-> <<>>, d_rep |-> d, c_rep |-> c]
           Step(x, k) == resolve_off_code(x, seqs[k], WithoutLiterals(seqs[k], long, k))
           Is(f, m) == f = [k \in 0 .. m |-> IF k = 0 THEN start ELSE Step(f[k - 1], k)]
           T == {m \in Nat : \E f : Is(f, m)}
<1> HIDE DEF start, Step
<1>1. 0 \in T
  <2>1. Is([k \in 0 .. 0 |-> start], 0)
    OBVIOUS
  <2>2. \E f : Is(f, 0)
    <3> WITNESS [k \in 0 .. 0 |-> start]
    <3> QED
      BY <2>1
  <2> QED
    BY <2>2
<1>2. ASSUME NEW m \in 1 .. Len(seqs), m - 1 \in T PROVE m \in T
  <2>1. PICK g : Is(g, m - 1)
    BY <1>2
  <2> DEFINE f == [k \in 0 .. m |-> IF k = m THEN Step(g[m - 1], m) ELSE g[k]]
  <2>2. ASSUME NEW k \in 0 .. m
        PROVE  f[k] = IF k = 0 THEN start ELSE Step(f[k - 1], k)
    <3>1. CASE k = 0
      BY <2>1, <3>1
    <3>2. CASE k = m
      <4>1. f[k - 1] = g[m - 1] /\ f[k] = Step(g[m - 1], m)
        BY <3>2
      <4> QED
        BY <3>2, <4>1
    <3>3. CASE k # 0 /\ k # m
      <4>1. k \in 0 .. m - 1 /\ k - 1 \in 0 .. m /\ k - 1 # m
        BY <3>3
      <4>2. f[k] = g[k] /\ f[k - 1] = g[k - 1]
        BY <3>3, <4>1
      <4>3. g[k] = Step(g[k - 1], k)
        BY <2>1, <3>3, <4>1
      <4> QED
        BY <3>3, <4>2, <4>3
    <3> QED
      BY <3>1, <3>2, <3>3
  <2>3. Is(f, m)
    BY <2>2
  <2>4. \E e : Is(e, m)
    <3> HIDE DEF f
    <3> WITNESS f
    <3> QED
      BY <2>3
  <2>5. m \in Nat
    OBVIOUS
  <2> QED
    BY <2>4, <2>5
<1>3. \E f : Is(f, Len(seqs))
  <2> HIDE DEF T
  <2>1. 0 .. Len(seqs) \subseteq T
    BY <1>1, <1>2, UpTo
  <2>2. Len(seqs) \in T
    BY <2>1
  <2> QED
    BY <2>2 DEF T
<1>4. Resolving(seqs, long, d, c) = CHOOSE f : Is(f, Len(seqs))
  BY DEF Resolving, start, Step
<1>5. Is(Resolving(seqs, long, d, c), Len(seqs))
  BY <1>3, <1>4
<1>6. Resolving(seqs, long, d, c)[0] = start
  BY <1>5, 0 \in 0 .. Len(seqs)
<1>7. ASSUME NEW k \in 1 .. Len(seqs) PROVE Resolving(seqs, long, d, c)[k] = Step(Resolving(seqs, long, d, c)[k - 1], k)
  BY <1>5, k \in 0 .. Len(seqs), k # 0
<1> QED
  BY <1>6, <1>7 DEF start, Step

\* The loop of decode_and_execute_sequences (block.rs).
Reading(body, decoder) ==
    LET acc[k \in 0 .. Len(body.coded)] ==
            IF k = 0 THEN [rep |-> decoder.rep, lits |-> 0, out |-> <<>>]
            ELSE RegeneratedStep(body.literals, acc[k - 1], body.coded[k])
    IN  acc

\* Each turn of it reads one sequence.
LEMMA ReadingUnfold ==
    ASSUME NEW body, Len(body.coded) \in Nat, NEW decoder
    PROVE  /\ Reading(body, decoder)[0] = [rep |-> decoder.rep, lits |-> 0, out |-> <<>>]
           /\ \A k \in 1 .. Len(body.coded) :
                 Reading(body, decoder)[k] =
                     RegeneratedStep(body.literals, Reading(body, decoder)[k - 1],
                                     body.coded[k])
<1> DEFINE start == [rep |-> decoder.rep, lits |-> 0, out |-> <<>>]
           Step(x, k) == RegeneratedStep(body.literals, x, body.coded[k])
           Is(f, m) == f = [k \in 0 .. m |-> IF k = 0 THEN start ELSE Step(f[k - 1], k)]
           T == {m \in Nat : \E f : Is(f, m)}
<1> HIDE DEF start, Step
<1>1. 0 \in T
  <2>1. Is([k \in 0 .. 0 |-> start], 0)
    OBVIOUS
  <2>2. \E f : Is(f, 0)
    <3> WITNESS [k \in 0 .. 0 |-> start]
    <3> QED
      BY <2>1
  <2> QED
    BY <2>2
<1>2. ASSUME NEW m \in 1 .. Len(body.coded), m - 1 \in T PROVE m \in T
  <2>1. PICK g : Is(g, m - 1)
    BY <1>2
  <2> DEFINE f == [k \in 0 .. m |-> IF k = m THEN Step(g[m - 1], m) ELSE g[k]]
  <2>2. ASSUME NEW k \in 0 .. m
        PROVE  f[k] = IF k = 0 THEN start ELSE Step(f[k - 1], k)
    <3>1. CASE k = 0
      BY <2>1, <3>1
    <3>2. CASE k = m
      <4>1. f[k - 1] = g[m - 1] /\ f[k] = Step(g[m - 1], m)
        BY <3>2
      <4> QED
        BY <3>2, <4>1
    <3>3. CASE k # 0 /\ k # m
      <4>1. k \in 0 .. m - 1 /\ k - 1 \in 0 .. m /\ k - 1 # m
        BY <3>3
      <4>2. f[k] = g[k] /\ f[k - 1] = g[k - 1]
        BY <3>3, <4>1
      <4>3. g[k] = Step(g[k - 1], k)
        BY <2>1, <3>3, <4>1
      <4> QED
        BY <3>3, <4>2, <4>3
    <3> QED
      BY <3>1, <3>2, <3>3
  <2>3. Is(f, m)
    BY <2>2
  <2>4. \E e : Is(e, m)
    <3> HIDE DEF f
    <3> WITNESS f
    <3> QED
      BY <2>3
  <2>5. m \in Nat
    OBVIOUS
  <2> QED
    BY <2>4, <2>5
<1>3. \E f : Is(f, Len(body.coded))
  <2> HIDE DEF T
  <2>1. 0 .. Len(body.coded) \subseteq T
    BY <1>1, <1>2, UpTo
  <2>2. Len(body.coded) \in T
    BY <2>1
  <2> QED
    BY <2>2 DEF T
<1>4. Reading(body, decoder) = CHOOSE f : Is(f, Len(body.coded))
  BY DEF Reading, start, Step
<1>5. Is(Reading(body, decoder), Len(body.coded))
  BY <1>3, <1>4
<1>6. Reading(body, decoder)[0] = start
  BY <1>5, 0 \in 0 .. Len(body.coded)
<1>7. ASSUME NEW k \in 1 .. Len(body.coded) PROVE Reading(body, decoder)[k] = Step(Reading(body, decoder)[k - 1], k)
  BY <1>5, k \in 0 .. Len(body.coded), k # 0
<1> QED
  BY <1>6, <1>7 DEF start, Step


-----------------------------------------------------------------------------
(* Sums.                                                                   *)

LEMMA SumsAgree ==
    ASSUME NEW parts, NEW n \in Nat, NEW m \in 0 .. n
    PROVE  Sums(parts, m)[m] = Sums(parts, n)[m]
<1> DEFINE T == {j \in 0 .. m : Sums(parts, m)[j] = Sums(parts, n)[j]}
<1>0. m \in Nat
  OBVIOUS
<1>1. 0 \in T
  BY <1>0, SumsUnfold
<1>2. ASSUME NEW j \in 1 .. m, j - 1 \in T PROVE j \in T
  <2>1. j \in 1 .. n
    OBVIOUS
  <2>2. /\ Sums(parts, m)[j] = Sums(parts, m)[j - 1] + parts[j]
        /\ Sums(parts, n)[j] = Sums(parts, n)[j - 1] + parts[j]
    BY <1>0, <2>1, SumsUnfold
  <2> QED
    BY <1>2, <2>2
<1>3. 0 .. m \subseteq T
  <2> HIDE DEF T
  <2> QED
    BY <1>0, <1>1, <1>2, UpTo
<1> QED
  BY <1>3

LEMMA SumNone == \A parts : SumTo(parts, 0) = 0
<1> TAKE parts
<1>1. SumTo(parts, 0) = Sums(parts, 0)[0]
  BY DEF SumTo, Sums
<1> QED
  BY <1>1, SumsUnfold

LEMMA SumStep ==
    ASSUME NEW parts, NEW n \in Nat, n >= 1
    PROVE  SumTo(parts, n) = SumTo(parts, n - 1) + parts[n]
<1>1. SumTo(parts, n) = Sums(parts, n)[n] /\ SumTo(parts, n - 1) = Sums(parts, n - 1)[n - 1]
  BY DEF SumTo, Sums
<1>2. Sums(parts, n)[n] = Sums(parts, n)[n - 1] + parts[n]
  BY SumsUnfold
<1>3. Sums(parts, n - 1)[n - 1] = Sums(parts, n)[n - 1]
  <2>1. n - 1 \in 0 .. n
    OBVIOUS
  <2> QED
    BY <2>1, SumsAgree
<1> QED
  BY <1>1, <1>2, <1>3

LEMMA SumType ==
    ASSUME NEW parts, NEW n \in Nat, \A k \in 1 .. n : parts[k] \in Nat
    PROVE  \A k \in 0 .. n : SumTo(parts, k) \in Nat
<1> DEFINE T == {j \in 0 .. n : SumTo(parts, j) \in Nat}
<1>1. 0 \in T
  BY SumNone
<1>2. ASSUME NEW j \in 1 .. n, j - 1 \in T PROVE j \in T
  <2>1. SumTo(parts, j) = SumTo(parts, j - 1) + parts[j]
    BY SumStep
  <2>2. parts[j] \in Nat
    OBVIOUS
  <2> QED
    BY <1>2, <2>1, <2>2
<1>3. 0 .. n \subseteq T
  <2> HIDE DEF T
  <2> QED
    BY <1>1, <1>2, UpTo
<1> QED
  BY <1>3

\* The sum of a piece is the difference of the sums up to its ends.
LEMMA SumPiece ==
    ASSUME NEW parts, NEW f \in Nat, NEW n \in Nat, NEW piece,
           \A k \in 1 .. f + n : parts[k] \in Nat,
           \A k \in 1 .. n : piece[k] = parts[f + k]
    PROVE  SumTo(piece, n) = SumTo(parts, f + n) - SumTo(parts, f)
<1> DEFINE T == {j \in 0 .. n : SumTo(piece, j) = SumTo(parts, f + j) - SumTo(parts, f)}
<1>0. \A k \in 0 .. f + n : SumTo(parts, k) \in Nat
  <2>1. f + n \in Nat
    OBVIOUS
  <2> QED
    BY <2>1, SumType
<1>1. 0 \in T
  <2>1. SumTo(piece, 0) = 0 /\ f + 0 = f /\ SumTo(parts, f) \in Nat
    BY <1>0, SumNone
  <2> QED
    BY <2>1
<1>2. ASSUME NEW j \in 1 .. n, j - 1 \in T PROVE j \in T
  <2>1. f + j \in Nat /\ f + j >= 1 /\ (f + j) - 1 = f + (j - 1)
    OBVIOUS
  <2>2. SumTo(piece, j) = SumTo(piece, j - 1) + piece[j]
    BY SumStep
  <2>3. SumTo(parts, f + j) = SumTo(parts, f + (j - 1)) + parts[f + j]
    <3> DEFINE m == f + j
    <3>1. m \in Nat /\ m >= 1
      BY <2>1
    <3> HIDE DEF m
    <3>2. SumTo(parts, m) = SumTo(parts, m - 1) + parts[m]
      BY <3>1, SumStep
    <3> QED
      BY <2>1, <3>2 DEF m
  <2>4. piece[j] = parts[f + j] /\ parts[f + j] \in Nat
    OBVIOUS
  <2>5. SumTo(parts, f) \in Nat /\ SumTo(parts, f + (j - 1)) \in Nat
    BY <1>0
  <2>6. SumTo(piece, j - 1) = SumTo(parts, f + (j - 1)) - SumTo(parts, f)
    BY <1>2
  <2> DEFINE a == SumTo(parts, f)
             b == SumTo(parts, f + (j - 1))
             c == SumTo(piece, j - 1)
             x == parts[f + j]
             u == SumTo(piece, j)
             v == SumTo(parts, f + j)
  <2>7. a \in Nat /\ b \in Nat /\ x \in Nat /\ c = b - a /\ u = c + x /\ v = b + x
    BY <2>2, <2>3, <2>4, <2>5, <2>6
  <2>8. u = v - a
    <3> HIDE DEF a, b, c, x, u, v
    <3> QED
      BY <2>7
  <2> QED
    BY <2>8
<1>3. 0 .. n \subseteq T
  <2> HIDE DEF T
  <2> QED
    BY <1>1, <1>2, UpTo
<1> QED
  BY <1>3

\* Sums of natural numbers only grow.
LEMMA SumGrows ==
    ASSUME NEW parts, NEW n \in Nat, \A k \in 1 .. n : parts[k] \in Nat,
           NEW j \in 0 .. n, NEW i \in 0 .. j
    PROVE  SumTo(parts, i) <= SumTo(parts, j)
<1> DEFINE m == j - i
           piece == [k \in 1 .. m |-> parts[i + k]]
<1>1. m \in Nat /\ i \in Nat /\ i + m = j
  OBVIOUS
<1>2. \A k \in 1 .. m : piece[k] = parts[i + k] /\ piece[k] \in Nat
  <2> TAKE k \in 1 .. m
  <2>1. i + k \in 1 .. n
    BY <1>1
  <2> QED
    BY <2>1
<1>3. \A k \in 1 .. i + m : parts[k] \in Nat
  BY <1>1
<1> HIDE DEF m, piece
<1>4. SumTo(piece, m) = SumTo(parts, i + m) - SumTo(parts, i)
  BY <1>1, <1>2, <1>3, SumPiece
<1>5. SumTo(piece, m) \in Nat
  BY <1>1, <1>2, SumType, SMTT(30)
<1>6. SumTo(parts, i) \in Nat /\ SumTo(parts, j) \in Nat
  BY SumType
<1> QED
  BY <1>1, <1>4, <1>5, <1>6


-----------------------------------------------------------------------------
(* A parse.                                                                *)

ParsedSequence ==
    [off_base : Nat \ {0}, lit_len : Nat, match_len : {m \in Nat : m >= MIN_MATCH}]

\* It covers no more than a block, in which two lengths of LongMod do not fit.
GoodParse(seqs, n) ==
    /\ seqs \in Seq(ParsedSequence)
    /\ n \in Nat /\ n <= 2 * LongMod /\ SpanTo(seqs, Len(seqs)) <= n

LEMMA ParsesAreGood == \A p \in Parses : GoodParse(p.seqs, p.n)
<1> TAKE p \in Parses
<1>1. /\ p.seqs \in Seq(ParsedSequence)
      /\ p.n \in Nat /\ SpanTo(p.seqs, Len(p.seqs)) <= p.n /\ p.n <= BLOCK_SIZE_MAX
  BY BlockEncodeAssumption DEF ParsedSequence, SpanOf
<1>2. BLOCK_SIZE_MAX \in Nat /\ LongMod \in Nat /\ BLOCK_SIZE_MAX <= 2 * LongMod
  BY BlockEncodeAssumption
<1> QED
  BY <1>1, <1>2 DEF GoodParse

LEMMA LongModType == LongMod \in Nat /\ LongMod >= 1 /\ MIN_MATCH \in Nat /\ MIN_MATCH >= 1
BY BlockEncodeAssumption

LEMMA ParseFields ==
    ASSUME NEW seqs, seqs \in Seq(ParsedSequence)
    PROVE  /\ Len(seqs) \in Nat /\ DOMAIN seqs = 1 .. Len(seqs)
           /\ \A k \in 1 .. Len(seqs) :
                 /\ seqs[k].off_base \in Offsets
                 /\ seqs[k].lit_len \in Nat
                 /\ seqs[k].match_len \in Nat /\ seqs[k].match_len >= MIN_MATCH
<1>1. Len(seqs) \in Nat /\ DOMAIN seqs = 1 .. Len(seqs)
  OBVIOUS
<1>2. ASSUME NEW k \in 1 .. Len(seqs)
      PROVE  /\ seqs[k].off_base \in Offsets
             /\ seqs[k].lit_len \in Nat
             /\ seqs[k].match_len \in Nat /\ seqs[k].match_len >= MIN_MATCH
  <2>1. seqs[k] \in ParsedSequence
    BY <1>1
  <2> QED
    BY <2>1 DEF ParsedSequence, Offsets
<1> QED
  BY <1>1, <1>2

\* Where the literals and the matches of the first k sequences add up to.
LitTo(seqs, k)   == SumTo([j \in DOMAIN seqs |-> seqs[j].lit_len], k)
MatchTo(seqs, k) == SumTo([j \in DOMAIN seqs |-> seqs[j].match_len], k)

LEMMA LitFacts ==
    ASSUME NEW seqs, seqs \in Seq(ParsedSequence)
    PROVE  /\ LitTo(seqs, 0) = 0
           /\ \A k \in 0 .. Len(seqs) : LitTo(seqs, k) \in Nat
           /\ \A k \in 1 .. Len(seqs) :
                 LitTo(seqs, k) = LitTo(seqs, k - 1) + seqs[k].lit_len
           /\ \A j \in 0 .. Len(seqs) : \A i \in 0 .. j : LitTo(seqs, i) <= LitTo(seqs, j)
<1> DEFINE f == [j \in DOMAIN seqs |-> seqs[j].lit_len]
           n == Len(seqs)
<1>1. n \in Nat /\ \A k \in 1 .. n : f[k] \in Nat /\ f[k] = seqs[k].lit_len
  BY ParseFields
<1>2. \A k \in 0 .. n : LitTo(seqs, k) = SumTo(f, k)
  BY DEF LitTo
<1> HIDE DEF f, n
<1>3. SumTo(f, 0) = 0 /\ \A k \in 0 .. n : SumTo(f, k) \in Nat
  BY <1>1, SumNone, SumType
<1>4. \A k \in 1 .. n : SumTo(f, k) = SumTo(f, k - 1) + f[k]
  BY <1>1, SumStep
<1>5. \A j \in 0 .. n : \A i \in 0 .. j : SumTo(f, i) <= SumTo(f, j)
  BY <1>1, SumGrows
<1>6. \A k \in 1 .. n : k \in 0 .. n /\ k - 1 \in 0 .. n
  BY <1>1
<1>7. \A j \in 0 .. n : \A i \in 0 .. j : i \in 0 .. n
  BY <1>1
<1>8. LitTo(seqs, 0) = 0
  BY <1>1, <1>2, <1>3, 0 \in 0 .. n
<1>9. \A j \in 0 .. n : \A i \in 0 .. j : LitTo(seqs, i) <= LitTo(seqs, j)
  BY <1>2, <1>5, <1>7
<1>10. \A k \in 1 .. n : LitTo(seqs, k) = LitTo(seqs, k - 1) + seqs[k].lit_len
  BY <1>1, <1>2, <1>4, <1>6
<1> QED
  BY <1>2, <1>3, <1>8, <1>9, <1>10 DEF n

LEMMA SpanFacts ==
    ASSUME NEW seqs, seqs \in Seq(ParsedSequence)
    PROVE  /\ SpanTo(seqs, 0) = 0
           /\ \A k \in 0 .. Len(seqs) : SpanTo(seqs, k) \in Nat
           /\ \A k \in 1 .. Len(seqs) :
                 SpanTo(seqs, k) = SpanTo(seqs, k - 1) + seqs[k].lit_len + seqs[k].match_len
           /\ \A j \in 0 .. Len(seqs) : \A i \in 0 .. j : SpanTo(seqs, i) <= SpanTo(seqs, j)
<1> DEFINE f == [j \in DOMAIN seqs |-> seqs[j].lit_len + seqs[j].match_len]
           n == Len(seqs)
<1>1. n \in Nat /\ \A k \in 1 .. n : f[k] \in Nat /\ f[k] = seqs[k].lit_len + seqs[k].match_len
  BY ParseFields
<1>2. \A k \in 0 .. n : SpanTo(seqs, k) = SumTo(f, k)
  BY DEF SpanTo
<1>20. \A k \in 1 .. n : seqs[k].lit_len \in Nat /\ seqs[k].match_len \in Nat
  BY ParseFields
<1> HIDE DEF f, n
<1>3. SumTo(f, 0) = 0 /\ \A k \in 0 .. n : SumTo(f, k) \in Nat
  BY <1>1, SumNone, SumType
<1>4. \A k \in 1 .. n : SumTo(f, k) = SumTo(f, k - 1) + f[k]
  BY <1>1, SumStep
<1>5. \A j \in 0 .. n : \A i \in 0 .. j : SumTo(f, i) <= SumTo(f, j)
  BY <1>1, SumGrows
<1>6. \A k \in 1 .. n : k \in 0 .. n /\ k - 1 \in 0 .. n
  BY <1>1
<1>7. \A j \in 0 .. n : \A i \in 0 .. j : i \in 0 .. n
  BY <1>1
<1>8. SpanTo(seqs, 0) = 0
  BY <1>1, <1>2, <1>3, 0 \in 0 .. n
<1>9. \A j \in 0 .. n : \A i \in 0 .. j : SpanTo(seqs, i) <= SpanTo(seqs, j)
  BY <1>2, <1>5, <1>7
<1>10. \A k \in 1 .. n :
          SpanTo(seqs, k) = SpanTo(seqs, k - 1) + seqs[k].lit_len + seqs[k].match_len
  <2> TAKE k \in 1 .. n
  <2>1. SpanTo(seqs, k) = SumTo(f, k) /\ SpanTo(seqs, k - 1) = SumTo(f, k - 1)
        /\ SumTo(f, k - 1) \in Nat
    BY <1>2, <1>3, <1>6
  <2>2. SumTo(f, k) = SumTo(f, k - 1) + (seqs[k].lit_len + seqs[k].match_len)
    BY <1>1, <1>4
  <2>3. seqs[k].lit_len \in Nat /\ seqs[k].match_len \in Nat
    BY <1>20
  <2> QED
    BY <2>1, <2>2, <2>3
<1> QED
  BY <1>2, <1>3, <1>8, <1>9, <1>10 DEF n

LEMMA SpanIsBoth ==
    ASSUME NEW seqs, seqs \in Seq(ParsedSequence)
    PROVE  /\ MatchTo(seqs, 0) = 0
           /\ \A k \in 0 .. Len(seqs) :
                 /\ MatchTo(seqs, k) \in Nat
                 /\ SpanTo(seqs, k) = LitTo(seqs, k) + MatchTo(seqs, k)
<1> DEFINE f == [j \in DOMAIN seqs |-> seqs[j].match_len]
           n == Len(seqs)
           T == {k \in 0 .. n : SpanTo(seqs, k) = LitTo(seqs, k) + MatchTo(seqs, k)}
<1>1. n \in Nat /\ \A k \in 1 .. n : f[k] \in Nat /\ f[k] = seqs[k].match_len
                                     /\ seqs[k].lit_len \in Nat
  BY ParseFields
<1>2. \A k \in 0 .. n : MatchTo(seqs, k) = SumTo(f, k)
  BY DEF MatchTo
<1> HIDE DEF f
<1>3. SumTo(f, 0) = 0 /\ \A k \in 0 .. n : SumTo(f, k) \in Nat
  BY <1>1, SumNone, SumType
<1>4. \A k \in 1 .. n : SumTo(f, k) = SumTo(f, k - 1) + f[k]
  BY <1>1, SumStep
<1>5. MatchTo(seqs, 0) = 0 /\ \A k \in 0 .. n : MatchTo(seqs, k) \in Nat
  BY <1>1, <1>2, <1>3, 0 \in 0 .. n
<1>6. 0 \in T
  BY <1>1, <1>5, LitFacts, SpanFacts
<1>7. ASSUME NEW k \in 1 .. n, k - 1 \in T PROVE k \in T
  <2>1. SpanTo(seqs, k - 1) = LitTo(seqs, k - 1) + MatchTo(seqs, k - 1)
    BY <1>7
  <2>2. MatchTo(seqs, k) = MatchTo(seqs, k - 1) + seqs[k].match_len
    <3>1. k \in 0 .. n /\ k - 1 \in 0 .. n
      BY <1>1
    <3> QED
      BY <1>1, <1>2, <1>4, <3>1
  <2>3. SpanTo(seqs, k) = SpanTo(seqs, k - 1) + seqs[k].lit_len + seqs[k].match_len
    BY SpanFacts
  <2>4. LitTo(seqs, k) = LitTo(seqs, k - 1) + seqs[k].lit_len
    BY LitFacts
  <2>5. LitTo(seqs, k - 1) \in Nat /\ MatchTo(seqs, k - 1) \in Nat
        /\ seqs[k].lit_len \in Nat /\ seqs[k].match_len \in Nat
    <3>1. k - 1 \in 0 .. n
      BY <1>1
    <3> QED
      BY <1>1, <1>5, <3>1, LitFacts
  <2> DEFINE a == LitTo(seqs, k - 1)
             b == MatchTo(seqs, k - 1)
             x == seqs[k].lit_len
             y == seqs[k].match_len
             s == SpanTo(seqs, k - 1)
             a1 == LitTo(seqs, k)
             b1 == MatchTo(seqs, k)
             s1 == SpanTo(seqs, k)
  <2>6. s1 = a1 + b1
    <3>1. /\ a \in Nat /\ b \in Nat /\ x \in Nat /\ y \in Nat
          /\ s = a + b /\ s1 = s + x + y /\ a1 = a + x /\ b1 = b + y
      BY <2>1, <2>2, <2>3, <2>4, <2>5
    <3> HIDE DEF a, b, x, y, s, a1, b1, s1
    <3> QED
      BY <3>1
  <2> QED
    BY <2>6
<1>8. 0 .. n \subseteq T
  <2> HIDE DEF T
  <2> QED
    BY <1>1, <1>6, <1>7, UpTo
<1> QED
  BY <1>5, <1>8

\* A block is too short for a second length of LongMod.
LEMMA OneIsLong ==
    ASSUME NEW seqs, NEW n, GoodParse(seqs, n), NEW k \in 1 .. Len(seqs)
    PROVE  /\ seqs[k].lit_len < 2 * LongMod
           /\ seqs[k].match_len - MIN_MATCH < 2 * LongMod
           /\ ~(seqs[k].lit_len >= LongMod /\ seqs[k].match_len - MIN_MATCH >= LongMod)
           /\ \A j \in 1 .. k - 1 : ~(IsLong(seqs[j]) /\ IsLong(seqs[k]))
<1> DEFINE N == Len(seqs)
<1>0. seqs \in Seq(ParsedSequence)
  BY DEF GoodParse
<1>1. n \in Nat /\ n <= 2 * LongMod /\ SpanTo(seqs, N) <= n /\ N \in Nat
  BY <1>0 DEF GoodParse
<1>2. /\ SpanTo(seqs, k) = SpanTo(seqs, k - 1) + seqs[k].lit_len + seqs[k].match_len
      /\ SpanTo(seqs, k) <= SpanTo(seqs, N)
      /\ SpanTo(seqs, k - 1) \in Nat /\ SpanTo(seqs, N) \in Nat
  <2>1. k \in 0 .. N /\ k - 1 \in 0 .. N /\ N \in 0 .. N
    BY <1>1
  <2> QED
    BY <1>0, <2>1, SpanFacts
<1>3. seqs[k].lit_len \in Nat /\ seqs[k].match_len \in Nat /\ seqs[k].match_len >= MIN_MATCH
  BY <1>0, ParseFields
<1> DEFINE L == LongMod
           M == MIN_MATCH
           x == seqs[k].lit_len
           y == seqs[k].match_len
           s == SpanTo(seqs, k - 1)
<1>4. /\ L \in Nat /\ L >= 1 /\ M \in Nat /\ M >= 1
      /\ x \in Nat /\ y \in Nat /\ y >= M /\ s \in Nat
      /\ s + x + y <= 2 * L
  BY <1>1, <1>2, <1>3, LongModType
<1>5. x < 2 * L /\ y - M < 2 * L /\ ~(x >= L /\ y - M >= L)
  <2> HIDE DEF L, M, x, y, s
  <2> QED
    BY <1>4
<1>6. ASSUME NEW j \in 1 .. k - 1, IsLong(seqs[j]), IsLong(seqs[k]) PROVE FALSE
  <2>1. j \in 1 .. N /\ j \in 0 .. N /\ j - 1 \in 0 .. N /\ k - 1 \in 0 .. N /\ j \in 0 .. k - 1
    BY <1>1
  <2>2. /\ SpanTo(seqs, j) = SpanTo(seqs, j - 1) + seqs[j].lit_len + seqs[j].match_len
        /\ SpanTo(seqs, j) <= SpanTo(seqs, k - 1)
        /\ SpanTo(seqs, j - 1) \in Nat
    BY <1>0, <2>1, SpanFacts
  <2>3. seqs[j].lit_len \in Nat /\ seqs[j].match_len \in Nat /\ seqs[j].match_len >= MIN_MATCH
    BY <1>0, <2>1, ParseFields
  <2> DEFINE u == seqs[j].lit_len
             v == seqs[j].match_len
             t == SpanTo(seqs, j - 1)
  <2>4. u \in Nat /\ v \in Nat /\ v >= M /\ t \in Nat /\ t + u + v <= s
    BY <2>2, <2>3
  <2>5. (u >= L \/ v - M >= L) /\ (x >= L \/ y - M >= L)
    BY <1>6 DEF IsLong
  <2> HIDE DEF L, M, x, y, s, u, v, t
  <2> QED
    BY <1>4, <2>4, <2>5
<1> QED
  BY <1>5, <1>6


-----------------------------------------------------------------------------
(* The store.                                                              *)

LEMMA Wrapped ==
    ASSUME NEW m \in Nat, m >= 1, NEW x \in Nat, x < 2 * m
    PROVE  x % m = IF x >= m THEN x - m ELSE x
<1>1. CASE x < m
  BY <1>1
<1>2. CASE x >= m
  <2>1. x = m * 1 + (x - m) /\ x - m \in 0 .. m - 1
    BY <1>2
  <2>2. x % m \in 0 .. m - 1 /\ x = m * (x \div m) + (x % m)
    OBVIOUS
  <2>3. x \div m = 1
    BY <2>1, <2>2
  <2> QED
    BY <1>2, <2>2, <2>3
<1> QED
  BY <1>1, <1>2

\* The fields kept of a sequence.
StoredSequence == [off_base : Nat \ {0}, lit_length : 0 .. LongMod - 1, ml_base : 0 .. LongMod - 1]

FieldsOf(s) ==
    [off_base   |-> s.off_base,
     lit_length |-> s.lit_len % LongMod,
     ml_base    |-> (s.match_len - MIN_MATCH) % LongMod]

LEMMA FieldsType == \A s \in ParsedSequence : FieldsOf(s) \in StoredSequence
<1> TAKE s \in ParsedSequence
<1>1. /\ s.off_base \in Nat \ {0} /\ s.lit_len \in Nat /\ s.match_len \in Nat
      /\ s.match_len - MIN_MATCH \in Nat
  BY LongModType DEF ParsedSequence
<1>2. s.lit_len % LongMod \in 0 .. LongMod - 1
      /\ (s.match_len - MIN_MATCH) % LongMod \in 0 .. LongMod - 1
  <2> DEFINE x == s.lit_len
             y == s.match_len - MIN_MATCH
  <2>1. x \in Nat /\ y \in Nat
    BY <1>1
  <2> HIDE DEF x, y
  <2>2. x % LongMod \in 0 .. LongMod - 1 /\ y % LongMod \in 0 .. LongMod - 1
    BY <2>1, LongModType
  <2> QED
    BY <2>2 DEF x, y
<1> QED
  BY <1>1, <1>2 DEF FieldsOf, StoredSequence

HoldsSequences(s, seqs, k) ==
    /\ s \in Seq(StoredSequence) /\ Len(s) = k
    /\ \A j \in 1 .. k : s[j] = FieldsOf(seqs[j])

\* The literals are those of the sequences, each at its place in the block.
HoldsLiterals(lits, seqs, k) ==
    /\ lits \in Seq(Nat) /\ Len(lits) = LitTo(seqs, k)
    /\ \A j \in 1 .. k : \A i \in 1 .. seqs[j].lit_len :
          lits[LitTo(seqs, j - 1) + i] = SpanTo(seqs, j - 1) + i

\* The marker names the one length of LongMod or more, if there is one.
At(type, k) == [type |-> type, pos |-> k - 1]

MarksIn(long, seqs, k) ==
    \A j \in 1 .. k :
        /\ long = At("literal", j) <=> seqs[j].lit_len >= LongMod
        /\ long = At("match", j) <=> seqs[j].match_len - MIN_MATCH >= LongMod

Marks(long, seqs, k) ==
    /\ long = NoMarker \/ \E j \in 1 .. k : long \in {At("literal", j), At("match", j)}
    /\ MarksIn(long, seqs, k)

\* No two places have the same marker.
LEMMA Places ==
    ASSUME NEW j \in Int, NEW k \in Int
    PROVE  /\ At("literal", j) # At("match", k)
           /\ j # k => At("literal", j) # At("literal", k) /\ At("match", j) # At("match", k)
           /\ At("literal", k) # NoMarker /\ At("match", k) # NoMarker
<1>1. /\ At("literal", j).type = "literal" /\ At("match", k).type = "match"
      /\ At("match", j).type = "match" /\ At("literal", k).type = "literal"
      /\ At("literal", j).pos = j - 1 /\ At("literal", k).pos = k - 1
      /\ At("match", j).pos = j - 1 /\ At("match", k).pos = k - 1
  BY DEF At
<1>2. NoMarker.type = "none" /\ "literal" # "match" /\ "literal" # "none" /\ "match" # "none"
  BY DEF NoMarker
<1>3. j # k => j - 1 # k - 1
  OBVIOUS
<1>4. At("literal", j) # At("match", k)
  BY <1>1, <1>2
<1>5. At("literal", k) # NoMarker /\ At("match", k) # NoMarker
  BY <1>1, <1>2
<1>6. ASSUME j # k PROVE At("literal", j) # At("literal", k) /\ At("match", j) # At("match", k)
  <2>1. j - 1 # k - 1
    BY <1>3, <1>6
  <2> QED
    BY <1>1, <2>1
<1> QED
  BY <1>4, <1>5, <1>6

\* The marker after another sequence: set by its own length, if that is the long one.
NextMarker(long, s, k) ==
    IF s.match_len - MIN_MATCH >= LongMod THEN At("match", k)
    ELSE IF s.lit_len >= LongMod THEN At("literal", k) ELSE long

LEMMA MarkerStep ==
    ASSUME NEW seqs, NEW n, GoodParse(seqs, n), NEW k \in 1 .. Len(seqs),
           NEW long, Marks(long, seqs, k - 1)
    PROVE  Marks(NextMarker(long, seqs[k], k), seqs, k)
<1> DEFINE x == seqs[k].lit_len >= LongMod
           y == seqs[k].match_len - MIN_MATCH >= LongMod
           new == NextMarker(long, seqs[k], k)
<1>0. /\ seqs \in Seq(ParsedSequence) /\ k \in Int /\ k \in 1 .. k
      /\ \A j \in 1 .. k - 1 : j \in 1 .. Len(seqs) /\ j \in Int /\ j # k
      /\ \A j \in 1 .. k : j \in 1 .. k - 1 \/ j = k
  <2>1. seqs \in Seq(ParsedSequence) /\ Len(seqs) \in Nat
    BY DEF GoodParse
  <2> QED
    BY <2>1
<1>1. ~(x /\ y)
  BY OneIsLong
<1>2. ASSUME NEW j \in 1 .. k - 1, x \/ y
      PROVE  ~(seqs[j].lit_len >= LongMod) /\ ~(seqs[j].match_len - MIN_MATCH >= LongMod)
  <2>1. ~(IsLong(seqs[j]) /\ IsLong(seqs[k]))
    BY OneIsLong
  <2>2. IsLong(seqs[k])
    BY <1>2 DEF IsLong
  <2> QED
    BY <2>1, <2>2 DEF IsLong
<1>3. new = IF y THEN At("match", k) ELSE IF x THEN At("literal", k) ELSE long
  BY DEF NextMarker
<1>4. ASSUME NEW j \in 1 .. k - 1
      PROVE  /\ long = At("literal", j) <=> seqs[j].lit_len >= LongMod
             /\ long = At("match", j) <=> seqs[j].match_len - MIN_MATCH >= LongMod
  BY DEF Marks, MarksIn
<1>5. long # At("literal", k) /\ long # At("match", k)
  <2>1. CASE long = NoMarker
    BY <1>0, <2>1, Places
  <2>2. ASSUME NEW j \in 1 .. k - 1, long \in {At("literal", j), At("match", j)}
        PROVE  long # At("literal", k) /\ long # At("match", k)
    <3>1. j \in Int /\ j # k
      BY <1>0
    <3> QED
      BY <1>0, <2>2, <3>1, Places
  <2> QED
    BY <2>1, <2>2 DEF Marks
<1> DEFINE X(j) == seqs[j].lit_len >= LongMod
           Y(i) == seqs[i].match_len - MIN_MATCH >= LongMod
<1>6. x = X(k) /\ y = Y(k)
  OBVIOUS
<1>7. /\ \A j \in 1 .. k - 1 : x \/ y => ~X(j) /\ ~Y(j)
      /\ \A j \in 1 .. k - 1 : /\ long = At("literal", j) <=> X(j)
                               /\ long = At("match", j) <=> Y(j)
  BY <1>2, <1>4
<1> HIDE DEF x, y, X, Y, new
<1>8. CASE y
  <2>1. new = At("match", k) /\ ~x
    BY <1>1, <1>3, <1>8
  <2>2. ASSUME NEW j \in 1 .. k
        PROVE  (new = At("literal", j) <=> X(j)) /\ (new = At("match", j) <=> Y(j))
    <3>1. CASE j = k
      BY <1>0, <1>6, <1>8, <2>1, <3>1, Places
    <3>2. CASE j \in 1 .. k - 1
      BY <1>0, <1>7, <1>8, <2>1, <3>2, Places
    <3> QED
      BY <1>0, <3>1, <3>2
  <2> QED
    BY <1>0, <2>1, <2>2 DEF Marks, MarksIn, X, Y, new
<1>9. CASE x /\ ~y
  <2>1. new = At("literal", k)
    BY <1>3, <1>9
  <2>2. ASSUME NEW j \in 1 .. k
        PROVE  (new = At("literal", j) <=> X(j)) /\ (new = At("match", j) <=> Y(j))
    <3>1. CASE j = k
      BY <1>0, <1>6, <1>9, <2>1, <3>1, Places
    <3>2. CASE j \in 1 .. k - 1
      BY <1>0, <1>7, <1>9, <2>1, <3>2, Places
    <3> QED
      BY <1>0, <3>1, <3>2
  <2> QED
    BY <1>0, <2>1, <2>2 DEF Marks, MarksIn, X, Y, new
<1>10. CASE ~x /\ ~y
  <2>1. new = long
    BY <1>3, <1>10
  <2>2. ASSUME NEW j \in 1 .. k
        PROVE  (new = At("literal", j) <=> X(j)) /\ (new = At("match", j) <=> Y(j))
    BY <1>0, <1>5, <1>6, <1>7, <1>10, <2>1
  <2>3. new = NoMarker \/ \E j \in 1 .. k : new \in {At("literal", j), At("match", j)}
    BY <1>0, <2>1 DEF Marks
  <2> QED
    BY <2>2, <2>3 DEF Marks, MarksIn, X, Y, new
<1> QED
  BY <1>8, <1>9, <1>10

LEMMA LiteralsStep ==
    ASSUME NEW seqs, seqs \in Seq(ParsedSequence), NEW k \in 1 .. Len(seqs),
           NEW lits, HoldsLiterals(lits, seqs, k - 1)
    PROVE  HoldsLiterals(lits \o [i \in 1 .. seqs[k].lit_len |-> SpanTo(seqs, k - 1) + i], seqs, k)
<1> DEFINE n == seqs[k].lit_len
           at == SpanTo(seqs, k - 1)
           a == LitTo(seqs, k - 1)
           more == [i \in 1 .. n |-> at + i]
           new == lits \o more
<1>1. /\ n \in Nat /\ at \in Nat /\ a \in Nat /\ LitTo(seqs, k) = a + n
      /\ k - 1 \in 0 .. Len(seqs) /\ k \in Nat
      /\ \A j \in 1 .. k : j \in 1 .. k - 1 \/ j = k
  <2>1. Len(seqs) \in Nat /\ k - 1 \in 0 .. Len(seqs)
    OBVIOUS
  <2> QED
    BY <2>1, ParseFields, SpanFacts, LitFacts
<1>2. lits \in Seq(Nat) /\ Len(lits) = a
  BY DEF HoldsLiterals
<1> HIDE DEF n, at, a
<1>3. more \in Seq(Nat) /\ Len(more) = n
  BY <1>1
<1>4. new \in Seq(Nat) /\ Len(new) = a + n
      /\ \A i \in 1 .. a + n : new[i] = IF i <= a THEN lits[i] ELSE more[i - a]
  <2> HIDE DEF more
  <2> QED
    BY <1>1, <1>2, <1>3, ConcatProperties
<1>5. ASSUME NEW j \in 1 .. k - 1, NEW i \in 1 .. seqs[j].lit_len
      PROVE  new[LitTo(seqs, j - 1) + i] = SpanTo(seqs, j - 1) + i
  <2> DEFINE p == LitTo(seqs, j - 1) + i
  <2>1. lits[p] = SpanTo(seqs, j - 1) + i
    BY DEF HoldsLiterals
  <2>2. p \in 1 .. a
    <3>1. j \in 1 .. Len(seqs) /\ j - 1 \in 0 .. Len(seqs) /\ j \in 0 .. k - 1
      BY <1>1
    <3>2. /\ LitTo(seqs, j) = LitTo(seqs, j - 1) + seqs[j].lit_len
          /\ LitTo(seqs, j) <= LitTo(seqs, k - 1) /\ LitTo(seqs, j - 1) \in Nat
      BY <1>1, <3>1, LitFacts
    <3>3. seqs[j].lit_len \in Nat
      BY <3>1, ParseFields
    <3>4. i \in 1 .. seqs[j].lit_len
      OBVIOUS
    <3> DEFINE u == LitTo(seqs, j - 1)
               v == seqs[j].lit_len
               w == LitTo(seqs, j)
    <3>5. u \in Nat /\ v \in Nat /\ w = u + v /\ w <= a /\ i \in 1 .. v
      BY <3>2, <3>3, <3>4 DEF a
    <3> HIDE DEF u, v, w
    <3>6. u + i \in 1 .. a
      BY <1>1, <3>5
    <3> QED
      BY <3>6 DEF u
  <2> HIDE DEF p
  <2>3. new[p] = lits[p]
    <3>1. p \in 1 .. a + n /\ p <= a
      BY <1>1, <2>2
    <3> QED
      BY <1>4, <3>1
  <2> QED
    BY <2>1, <2>3 DEF p
<1>6. ASSUME NEW i \in 1 .. n PROVE new[a + i] = at + i
  <2>1. a + i \in 1 .. a + n /\ ~(a + i <= a) /\ (a + i) - a = i
    BY <1>1
  <2> QED
    BY <1>4, <2>1
<1>7. ASSUME NEW j \in 1 .. k
      PROVE  \A i \in 1 .. seqs[j].lit_len :
                new[LitTo(seqs, j - 1) + i] = SpanTo(seqs, j - 1) + i
  <2>1. CASE j = k
    BY <1>6, <2>1 DEF n, a, at
  <2> QED
    BY <1>1, <1>5, <2>1
<1> HIDE DEF new
<1> QED
  BY <1>1, <1>4, <1>7 DEF HoldsLiterals, new, more, n, at


Holds(store, seqs, k) ==
    /\ HoldsSequences(store.sequences, seqs, k)
    /\ HoldsLiterals(store.literals, seqs, k)
    /\ Marks(store.long, seqs, k)
    /\ store = [literals |-> store.literals, sequences |-> store.sequences, long |-> store.long]

LEMMA StoreStep ==
    ASSUME NEW seqs, NEW n, GoodParse(seqs, n), NEW k \in 1 .. Len(seqs),
           NEW store, Holds(store, seqs, k - 1)
    PROVE  Holds(store_seq(store, SpanTo(seqs, k - 1), seqs[k]), seqs, k)
<1> DEFINE s == seqs[k]
           new == store_seq(store, SpanTo(seqs, k - 1), s)
<1>0. seqs \in Seq(ParsedSequence) /\ k \in Nat /\ k >= 1 /\ s \in ParsedSequence
      /\ \A j \in 1 .. k : j \in 1 .. k - 1 \/ j = k
  <2>1. seqs \in Seq(ParsedSequence)
    BY DEF GoodParse
  <2>2. Len(seqs) \in Nat /\ s \in ParsedSequence
    BY <2>1, ElementOfSeq
  <2> QED
    BY <2>1, <2>2
<1>1. Len(store.sequences) = k - 1 /\ store.sequences \in Seq(StoredSequence)
      /\ \A j \in 1 .. k - 1 : store.sequences[j] = FieldsOf(seqs[j])
  BY DEF Holds, HoldsSequences
<1>2. new.literals = store.literals \o [i \in 1 .. s.lit_len |-> SpanTo(seqs, k - 1) + i]
  BY DEF store_seq
<1>3. new.sequences = Append(store.sequences, FieldsOf(s))
  BY DEF store_seq, FieldsOf
<1>4. new.long = NextMarker(store.long, s, k)
  <2>1. new.long = CASE s.match_len - MIN_MATCH >= LongMod -> [type |-> "match", pos |-> k - 1]
                     [] s.lit_len >= LongMod -> [type |-> "literal", pos |-> k - 1]
                     [] OTHER -> store.long
    BY <1>1 DEF store_seq
  <2>2. ~(s.lit_len >= LongMod /\ s.match_len - MIN_MATCH >= LongMod)
    BY OneIsLong
  <2> DEFINE x == s.match_len - MIN_MATCH >= LongMod
             y == s.lit_len >= LongMod
  <2>3. new.long = CASE x -> [type |-> "match", pos |-> k - 1]
                     [] y -> [type |-> "literal", pos |-> k - 1]
                     [] OTHER -> store.long
    BY <2>1
  <2>4. NextMarker(store.long, s, k) =
            IF x THEN At("match", k) ELSE IF y THEN At("literal", k) ELSE store.long
    BY DEF NextMarker
  <2>5. ~(x /\ y)
    BY <2>2
  <2> HIDE DEF x, y, new
  <2> QED
    BY <2>3, <2>4, <2>5 DEF At
<1>5. new = [literals |-> new.literals, sequences |-> new.sequences, long |-> new.long]
  BY DEF store_seq
<1> HIDE DEF new
<1>6. HoldsLiterals(new.literals, seqs, k)
  BY <1>0, <1>2, LiteralsStep DEF Holds
<1>7. Marks(new.long, seqs, k)
  BY <1>4, MarkerStep DEF Holds
<1>8. HoldsSequences(new.sequences, seqs, k)
  <2> DEFINE old == store.sequences
             e == FieldsOf(s)
  <2>1. e \in StoredSequence
    BY <1>0, FieldsType
  <2> HIDE DEF e, s
  <2>2. /\ Append(old, e) \in Seq(StoredSequence) /\ Len(Append(old, e)) = k
        /\ \A j \in 1 .. k - 1 : Append(old, e)[j] = old[j]
        /\ Append(old, e)[k] = e
    BY <1>0, <1>1, <2>1, AppendProperties
  <2>3. ASSUME NEW j \in 1 .. k PROVE Append(old, e)[j] = FieldsOf(seqs[j])
    <3>1. CASE j = k
      BY <2>2, <3>1 DEF e, s
    <3>2. CASE j \in 1 .. k - 1
      BY <1>1, <2>2, <3>2
    <3> QED
      BY <1>0, <3>1, <3>2
  <2> QED
    BY <1>3, <2>2, <2>3 DEF HoldsSequences, e
<1> QED
  BY <1>5, <1>6, <1>7, <1>8 DEF Holds, new, s

LEMMA AllHeld ==
    ASSUME NEW seqs, NEW n, GoodParse(seqs, n)
    PROVE  \A k \in 0 .. Len(seqs) : Holds(StoreAlong(seqs)[k], seqs, k)
<1> DEFINE N == Len(seqs)
           T == {k \in 0 .. N : Holds(StoreAlong(seqs)[k], seqs, k)}
<1>1. N \in Nat /\ seqs \in Seq(ParsedSequence)
  <2>1. seqs \in Seq(ParsedSequence)
    BY DEF GoodParse
  <2> QED
    BY <2>1
<1>2. 0 \in T
  <2>1. StoreAlong(seqs)[0] = EmptyStore
    BY <1>1, StoreUnfold
  <2>2. LitTo(seqs, 0) = 0
    BY <1>1, LitFacts
  <2>3. HoldsLiterals(<<>>, seqs, 0)
    BY <2>2 DEF HoldsLiterals
  <2>4. HoldsSequences(<<>>, seqs, 0)
    BY DEF HoldsSequences
  <2>5. Marks(NoMarker, seqs, 0)
    BY DEF Marks, MarksIn
  <2>6. Holds(EmptyStore, seqs, 0)
    BY <2>3, <2>4, <2>5 DEF Holds, EmptyStore
  <2> QED
    BY <1>1, <2>1, <2>6, 0 \in 0 .. N
<1>3. ASSUME NEW k \in 1 .. N, k - 1 \in T PROVE k \in T
  <2>1. StoreAlong(seqs)[k] =
            store_seq(StoreAlong(seqs)[k - 1], SpanTo(seqs, k - 1), seqs[k])
    BY <1>1, StoreUnfold
  <2>2. Holds(StoreAlong(seqs)[k - 1], seqs, k - 1)
    BY <1>3
  <2>3. Holds(StoreAlong(seqs)[k], seqs, k)
    BY <2>1, <2>2, StoreStep
  <2> QED
    BY <2>3
<1>4. 0 .. N \subseteq T
  <2> HIDE DEF T
  <2> QED
    BY <1>1, <1>2, <1>3, UpTo
<1> QED
  BY <1>4

\* The store of a block: its sequences, the one marker, and every literal at its place,
\* those behind the last match too.
StoreHolds(store, seqs, n) ==
    /\ HoldsSequences(store.sequences, seqs, Len(seqs))
    /\ Marks(store.long, seqs, Len(seqs))
    /\ store.literals \in Seq(Nat)
    /\ Len(store.literals) = LitTo(seqs, Len(seqs)) + (n - SpanTo(seqs, Len(seqs)))
    /\ \A j \in 1 .. Len(seqs) : \A i \in 1 .. seqs[j].lit_len :
          store.literals[LitTo(seqs, j - 1) + i] = SpanTo(seqs, j - 1) + i
    /\ \A i \in 1 .. n - SpanTo(seqs, Len(seqs)) :
          store.literals[LitTo(seqs, Len(seqs)) + i] = SpanTo(seqs, Len(seqs)) + i

LEMMA StoreIsWhole ==
    ASSUME NEW seqs, NEW n, GoodParse(seqs, n)
    PROVE  StoreHolds(StoreOf(seqs, n), seqs, n)
<1> DEFINE N == Len(seqs)
           filled == StoreAlong(seqs)[N]
           rest == SpanTo(seqs, N)
           a == LitTo(seqs, N)
           tail == [k \in 1 .. n - rest |-> rest + k]
           store == StoreOf(seqs, n)
           old == filled.literals
           new == old \o tail
<1>1. N \in Nat /\ seqs \in Seq(ParsedSequence) /\ n \in Nat /\ rest <= n
  <2>1. seqs \in Seq(ParsedSequence)
    BY DEF GoodParse
  <2> QED
    BY <2>1 DEF GoodParse
<1>2. N \in 0 .. N /\ rest \in Nat /\ a \in Nat
  <2>1. N \in 0 .. N
    BY <1>1
  <2> QED
    BY <1>1, <2>1, LitFacts, SpanFacts
<1>3. Holds(filled, seqs, N)
  BY <1>2, AllHeld
<1>4. store = [filled EXCEPT !.literals = new]
  BY DEF StoreOf, SpanOf
<1>5. filled = [literals |-> old, sequences |-> filled.sequences, long |-> filled.long]
  BY <1>3 DEF Holds
<1>6. store.literals = new /\ store.sequences = filled.sequences /\ store.long = filled.long
  <2> HIDE DEF filled, store, new
  <2> QED
    BY <1>4, <1>5
<1>7. old \in Seq(Nat) /\ Len(old) = a
      /\ \A j \in 1 .. N : \A i \in 1 .. seqs[j].lit_len :
            old[LitTo(seqs, j - 1) + i] = SpanTo(seqs, j - 1) + i
  <2>1. HoldsLiterals(old, seqs, N)
    BY <1>3 DEF Holds
  <2> HIDE DEF old
  <2> QED
    BY <2>1 DEF HoldsLiterals
<1>8. tail \in Seq(Nat) /\ Len(tail) = n - rest
  <2> HIDE DEF rest
  <2> QED
    BY <1>1, <1>2
<1>9. new \in Seq(Nat) /\ Len(new) = a + (n - rest)
      /\ \A i \in 1 .. a + (n - rest) : new[i] = IF i <= a THEN old[i] ELSE tail[i - a]
  <2> DEFINE b == n - rest
  <2>1. old \in Seq(Nat) /\ tail \in Seq(Nat) /\ Len(old) = a /\ Len(tail) = b
    BY <1>7, <1>8
  <2> HIDE DEF old, tail, a, b
  <2>2. /\ old \o tail \in Seq(Nat) /\ Len(old \o tail) = Len(old) + Len(tail)
        /\ \A i \in 1 .. Len(old) + Len(tail) :
              (old \o tail)[i] = IF i <= Len(old) THEN old[i] ELSE tail[i - Len(old)]
    BY <2>1, ConcatProperties
  <2>3. /\ new \in Seq(Nat) /\ Len(new) = a + b
        /\ \A i \in 1 .. a + b : new[i] = IF i <= a THEN old[i] ELSE tail[i - a]
    BY <2>1, <2>2
  <2> QED
    BY <2>3 DEF b
<1>10. ASSUME NEW j \in 1 .. N, NEW i \in 1 .. seqs[j].lit_len
       PROVE  new[LitTo(seqs, j - 1) + i] = SpanTo(seqs, j - 1) + i
  <2> DEFINE u == LitTo(seqs, j - 1)
             v == seqs[j].lit_len
             w == LitTo(seqs, j)
  <2>1. u \in Nat /\ v \in Nat /\ w = u + v /\ w <= a /\ w \in Nat
    <3>1. j \in 0 .. N /\ j - 1 \in 0 .. N
      BY <1>1
    <3> QED
      BY <1>1, <1>2, <3>1, LitFacts, ParseFields
  <2>2. i \in 1 .. v
    OBVIOUS
  <2> DEFINE p == u + i
  <2>3. p \in 1 .. a + (n - rest) /\ p <= a
    <3> HIDE DEF u, v, w, a, rest, N
    <3> QED
      BY <1>1, <1>2, <2>1, <2>2
  <2>4. old[p] = SpanTo(seqs, j - 1) + i
    BY <1>7
  <2> HIDE DEF new, old, p, a, rest
  <2>5. new[p] = old[p]
    BY <1>9, <2>3
  <2> QED
    BY <2>4, <2>5 DEF p
<1>11. ASSUME NEW i \in 1 .. n - rest PROVE new[a + i] = rest + i
  <2>1. a + i \in 1 .. a + (n - rest) /\ ~(a + i <= a) /\ (a + i) - a = i
    <3> HIDE DEF a, rest
    <3> QED
      BY <1>1, <1>2
  <2>2. tail[i] = rest + i
    OBVIOUS
  <2> HIDE DEF new, old, tail, a, rest
  <2> QED
    BY <1>9, <2>1, <2>2
<1> QED
  BY <1>3, <1>6, <1>9, <1>10, <1>11 DEF StoreHolds, Holds


-----------------------------------------------------------------------------
(* A chunk of the store: the sequences f + 1 .. l.                         *)

\* A length is its field, and LongMod with the marker.
LEMMA LengthsAreKept ==
    ASSUME NEW seqs, NEW n, GoodParse(seqs, n), NEW store, StoreHolds(store, seqs, n),
           NEW j \in 1 .. Len(seqs)
    PROVE  /\ store.sequences[j] \in StoredSequence
           /\ store.sequences[j].off_base = seqs[j].off_base
           /\ seqs[j].lit_len = store.sequences[j].lit_length
                  + IF store.long = At("literal", j) THEN LongMod ELSE 0
           /\ seqs[j].match_len = store.sequences[j].ml_base + MIN_MATCH
                  + IF store.long = At("match", j) THEN LongMod ELSE 0
<1> DEFINE L == LongMod
           M == MIN_MATCH
           s == store.sequences[j]
           x == seqs[j].lit_len
           y == seqs[j].match_len
<1>0. seqs \in Seq(ParsedSequence) /\ Len(seqs) \in Nat
  <2>1. seqs \in Seq(ParsedSequence)
    BY DEF GoodParse
  <2> QED
    BY <2>1
<1>1. s = FieldsOf(seqs[j]) /\ s \in StoredSequence
  <2>1. store.sequences \in Seq(StoredSequence) /\ Len(store.sequences) = Len(seqs)
    BY DEF StoreHolds, HoldsSequences
  <2>2. s \in StoredSequence
    BY <2>1, ElementOfSeq
  <2> QED
    BY <2>2 DEF StoreHolds, HoldsSequences
<1>2. s.off_base = seqs[j].off_base /\ s.lit_length = x % L /\ s.ml_base = (y - M) % L
  BY <1>1 DEF FieldsOf
<1>3. x \in Nat /\ y \in Nat /\ y - M \in Nat /\ L \in Nat /\ L >= 1 /\ M \in Nat
  <2>1. x \in Nat /\ y \in Nat /\ y >= M
    BY <1>0, ParseFields
  <2> QED
    BY <2>1, LongModType
<1>4. x < 2 * L /\ y - M < 2 * L
  BY OneIsLong
<1>5. (store.long = At("literal", j) <=> x >= L) /\ (store.long = At("match", j) <=> y - M >= L)
  BY <1>0 DEF StoreHolds, Marks, MarksIn
<1> DEFINE z == y - M
<1>6. x % L = (IF x >= L THEN x - L ELSE x) /\ z % L = (IF z >= L THEN z - L ELSE z)
  <2>1. x \in Nat /\ z \in Nat /\ L \in Nat /\ L >= 1 /\ x < 2 * L /\ z < 2 * L
    BY <1>3, <1>4
  <2> HIDE DEF x, z, L
  <2> QED
    BY <2>1, Wrapped
<1> DEFINE u == s.lit_length
           v == s.ml_base
           p == store.long = At("literal", j)
           q == store.long = At("match", j)
<1>7. x = u + (IF p THEN L ELSE 0) /\ y = v + M + (IF q THEN L ELSE 0)
  <2>1. u = (IF x >= L THEN x - L ELSE x) /\ v = (IF y - M >= L THEN (y - M) - L ELSE y - M)
    BY <1>2, <1>6
  <2>2. (p <=> x >= L) /\ (q <=> y - M >= L)
    BY <1>5
  <2> HIDE DEF u, v, p, q, x, y, L, M
  <2>3. CASE p
    BY <1>3, <2>1, <2>2, <2>3
  <2>4. CASE ~p
    BY <1>3, <2>1, <2>2, <2>4
  <2> QED
    BY <2>3, <2>4
<1> QED
  BY <1>1, <1>2, <1>7

LEMMA BytesCounted ==
    ASSUME NEW seqs, NEW n, GoodParse(seqs, n), NEW store, StoreHolds(store, seqs, n),
           NEW l \in 0 .. Len(seqs), NEW f \in 0 .. l
    PROVE  /\ count_literals_bytes(store, f, l) = LitTo(seqs, l) - LitTo(seqs, f)
           /\ count_match_bytes(store, f, l) = MatchTo(seqs, l) - MatchTo(seqs, f)
<1> DEFINE m == l - f
           lits == [j \in DOMAIN seqs |-> seqs[j].lit_len]
           matches == [j \in DOMAIN seqs |-> seqs[j].match_len]
           lit_piece ==
               [k \in 1 .. l - f |->
                    store.sequences[f + k].lit_length
                    + IF store.long = [type |-> "literal", pos |-> f + k - 1]
                      THEN LongMod ELSE 0]
           match_piece ==
               [k \in 1 .. l - f |->
                    store.sequences[f + k].ml_base + MIN_MATCH
                    + IF store.long = [type |-> "match", pos |-> f + k - 1]
                      THEN LongMod ELSE 0]
<1>0. /\ seqs \in Seq(ParsedSequence) /\ Len(seqs) \in Nat /\ DOMAIN seqs = 1 .. Len(seqs)
      /\ \A j \in 1 .. Len(seqs) : seqs[j].lit_len \in Nat /\ seqs[j].match_len \in Nat
  <2>1. seqs \in Seq(ParsedSequence)
    BY DEF GoodParse
  <2> QED
    BY <2>1, ParseFields
<1>1. m \in Nat /\ f \in Nat /\ f + m = l /\ m = l - f
  BY <1>0
<1>2. ASSUME NEW k \in 1 .. m
      PROVE  lit_piece[k] = lits[f + k] /\ match_piece[k] = matches[f + k]
  <2>1. f + k \in 1 .. Len(seqs) /\ k \in 1 .. l - f
    BY <1>0, <1>1
  <2>2. lits[f + k] = seqs[f + k].lit_len /\ matches[f + k] = seqs[f + k].match_len
    BY <1>0, <2>1
  <2> DEFINE j == f + k
  <2>3. lit_piece[k] = store.sequences[j].lit_length
                       + (IF store.long = At("literal", j) THEN LongMod ELSE 0)
    BY <2>1 DEF At
  <2>4. match_piece[k] = store.sequences[j].ml_base + MIN_MATCH
                         + (IF store.long = At("match", j) THEN LongMod ELSE 0)
    BY <2>1 DEF At
  <2>5. j \in 1 .. Len(seqs)
    BY <2>1
  <2> HIDE DEF j, lit_piece, match_piece, lits, matches
  <2>6. /\ seqs[j].lit_len = store.sequences[j].lit_length
                  + (IF store.long = At("literal", j) THEN LongMod ELSE 0)
        /\ seqs[j].match_len = store.sequences[j].ml_base + MIN_MATCH
                  + (IF store.long = At("match", j) THEN LongMod ELSE 0)
    BY <2>5, LengthsAreKept
  <2> QED
    BY <2>2, <2>3, <2>4, <2>6 DEF j
<1>3. ASSUME NEW k \in 1 .. f + m PROVE lits[k] \in Nat /\ matches[k] \in Nat
  BY <1>0, <1>1
<1>4. count_literals_bytes(store, f, l) = SumTo(lit_piece, m)
      /\ count_match_bytes(store, f, l) = SumTo(match_piece, m)
  BY DEF count_literals_bytes, count_match_bytes
<1>5. LitTo(seqs, l) = SumTo(lits, f + m) /\ LitTo(seqs, f) = SumTo(lits, f)
      /\ MatchTo(seqs, l) = SumTo(matches, f + m) /\ MatchTo(seqs, f) = SumTo(matches, f)
  BY <1>1 DEF LitTo, MatchTo
<1> HIDE DEF m, lits, matches, lit_piece, match_piece
<1>6. SumTo(lit_piece, m) = SumTo(lits, f + m) - SumTo(lits, f)
  BY <1>1, <1>2, <1>3, SumPiece
<1>7. SumTo(match_piece, m) = SumTo(matches, f + m) - SumTo(matches, f)
  BY <1>1, <1>2, <1>3, SumPiece
<1> QED
  BY <1>4, <1>5, <1>6, <1>7

\* derive_chunk keeps the marker for the sequence that has it.
LEMMA ChunkMarks ==
    ASSUME NEW seqs, NEW n, GoodParse(seqs, n), NEW store, StoreHolds(store, seqs, n),
           NEW l \in 0 .. Len(seqs), NEW f \in 0 .. l, NEW k \in 1 .. l - f
    PROVE  /\ MarkerOf(store, f, l) = At("literal", k) <=> store.long = At("literal", f + k)
           /\ MarkerOf(store, f, l) = At("match", k) <=> store.long = At("match", f + k)
<1> DEFINE m == MarkerOf(store, f, l)
           N == Len(seqs)
<1>0. N \in Nat
  <2>1. seqs \in Seq(ParsedSequence)
    BY DEF GoodParse
  <2> QED
    BY <2>1
<1>1. f + k \in 1 .. N /\ f + k \in Int /\ k \in Int
  BY <1>0
<1>2. CASE store.long = NoMarker
  <2>1. m = NoMarker
    BY <1>2 DEF MarkerOf, NoMarker
  <2> QED
    BY <1>1, <1>2, <2>1, Places
<1>3. ASSUME NEW type \in {"literal", "match"}, NEW j \in 1 .. N, store.long = At(type, j)
      PROVE  /\ m = At("literal", k) <=> store.long = At("literal", f + k)
             /\ m = At("match", k) <=> store.long = At("match", f + k)
  <2>1. store.long.type = type /\ store.long.pos = j - 1
        /\ store.long = [type |-> type, pos |-> j - 1] /\ type # "none"
    BY <1>3 DEF At
  <2>2. j \in Int /\ j - f \in Int
    BY <1>0
  <2>3. CASE j - 1 \in f .. l
    <3>1. m = At(type, j - f)
      <4>1. m = [store.long EXCEPT !.pos = @ - f]
        BY <2>1, <2>3 DEF MarkerOf
      <4>2. m = [type |-> type, pos |-> (j - 1) - f]
        BY <2>1, <4>1
      <4>3. (j - 1) - f = (j - f) - 1
        BY <2>2
      <4> QED
        BY <4>2, <4>3 DEF At
    <3>2. j - f = k <=> j = f + k
      BY <1>0
    <3> HIDE DEF m
    <3>3. CASE type = "literal"
      BY <1>1, <1>3, <2>2, <3>1, <3>2, <3>3, Places
    <3>4. CASE type = "match"
      BY <1>1, <1>3, <2>2, <3>1, <3>2, <3>4, Places
    <3> QED
      BY <3>3, <3>4
  <2>4. CASE j - 1 \notin f .. l
    <3>1. m = NoMarker
      BY <2>1, <2>4 DEF MarkerOf
    <3>2. j # f + k
      BY <1>0, <2>4
    <3> HIDE DEF m
    <3>3. m # At("literal", k) /\ m # At("match", k)
      BY <1>1, <3>1, Places
    <3>4. store.long # At("literal", f + k) /\ store.long # At("match", f + k)
      BY <1>1, <1>3, <2>2, <3>2, Places
    <3> QED
      BY <3>3, <3>4
  <2> QED
    BY <2>3, <2>4
<1>4. store.long = NoMarker \/ \E j \in 1 .. N : store.long \in {At("literal", j), At("match", j)}
  BY DEF StoreHolds, Marks
<1>5. CASE \E j \in 1 .. N : store.long \in {At("literal", j), At("match", j)}
  <2>1. PICK j \in 1 .. N : store.long \in {At("literal", j), At("match", j)}
    BY <1>5
  <2>2. \E type \in {"literal", "match"} : store.long = At(type, j)
    BY <2>1
  <2> QED
    BY <1>3, <2>2
<1> QED
  BY <1>2, <1>4, <1>5

\* Whether literals precede the k-th sequence of a chunk.
SeesLiterals(s, m, k, x) == WithoutLiterals(s, m, k) = (x = 0)

ReadsAs(c, of_value, x, y) ==
    SequenceRead(c) = [of_value |-> of_value, lit_len |-> x, match_len |-> y]

\* What a decoder reads of the k-th sequence of a chunk, whatever its offset has become:
\* the lengths the match finder meant.
LEMMA ChunkReads ==
    ASSUME NEW seqs, NEW n, GoodParse(seqs, n), NEW store, StoreHolds(store, seqs, n),
           NEW l \in 0 .. Len(seqs), NEW f \in 0 .. l, NEW k \in 1 .. l - f,
           NEW q, k \in DOMAIN q, q[k].lit_length = store.sequences[f + k].lit_length,
           q[k].ml_base = store.sequences[f + k].ml_base
    PROVE  /\ ReadsAs(seq_to_codes(q, MarkerOf(store, f, l))[k],
                      q[k].off_base, seqs[f + k].lit_len, seqs[f + k].match_len)
           /\ SeesLiterals(q[k], MarkerOf(store, f, l), k, seqs[f + k].lit_len)
<1> DEFINE m == MarkerOf(store, f, l)
           j == f + k
           c == seq_to_codes(q, m)[k]
           s == store.sequences[j]
           p == store.long = At("literal", j)
           r == store.long = At("match", j)
<1>0. j \in 1 .. Len(seqs)
  <2>1. seqs \in Seq(ParsedSequence)
    BY DEF GoodParse
  <2>2. Len(seqs) \in Nat
    BY <2>1
  <2> QED
    BY <2>2
<1>1. (m = At("literal", k) <=> p) /\ (m = At("match", k) <=> r)
  BY ChunkMarks
<1>2. /\ s \in StoredSequence
      /\ seqs[j].lit_len = s.lit_length + (IF p THEN LongMod ELSE 0)
      /\ seqs[j].match_len = s.ml_base + MIN_MATCH + (IF r THEN LongMod ELSE 0)
  <2> HIDE DEF j
  <2> QED
    BY <1>0, LengthsAreKept
<1>3. c = [ll |-> IF m = At("literal", k) THEN LongMod ELSE s.lit_length,
           ml |-> IF m = At("match", k) THEN LongMod ELSE s.ml_base,
           of |-> OffCode(q[k].off_base), seq |-> q[k]]
  BY DEF seq_to_codes, At, MAX_LL, MAX_ML
<1>4. s.lit_length \in 0 .. LongMod - 1 /\ s.ml_base \in 0 .. LongMod - 1
  BY <1>2 DEF StoredSequence
<1>5. c.ll = (IF p THEN LongMod ELSE s.lit_length) /\ c.ml = (IF r THEN LongMod ELSE s.ml_base)
      /\ c.seq = q[k]
  BY <1>1, <1>3
<1>6. q[k].lit_length = s.lit_length /\ q[k].ml_base = s.ml_base
  OBVIOUS
<1> HIDE DEF m, c, s, p, r
<1>7. LengthRead(c.ll, q[k].lit_length, LongMod) = s.lit_length + (IF p THEN LongMod ELSE 0)
  BY <1>4, <1>5, <1>6, LongModType DEF LengthRead
<1>8. LengthRead(c.ml, q[k].ml_base, LongMod) = s.ml_base + (IF r THEN LongMod ELSE 0)
  BY <1>4, <1>5, <1>6, LongModType DEF LengthRead
<1>9. SequenceRead(c) = [of_value |-> q[k].off_base, lit_len |-> seqs[j].lit_len,
                         match_len |-> seqs[j].match_len]
  <2>1. SequenceRead(c) =
            [of_value  |-> c.seq.off_base,
             lit_len   |-> LengthRead(c.ll, c.seq.lit_length, LongMod),
             match_len |-> LengthRead(c.ml, c.seq.ml_base, LongMod) + MIN_MATCH]
    BY DEF SequenceRead, MAX_LL, MAX_ML
  <2>2. LengthRead(c.ml, q[k].ml_base, LongMod) + MIN_MATCH = seqs[j].match_len
    BY <1>2, <1>4, <1>8, LongModType
  <2>3. LengthRead(c.ll, q[k].lit_length, LongMod) = seqs[j].lit_len
    BY <1>2, <1>7
  <2> HIDE DEF j
  <2> QED
    BY <1>5, <2>1, <2>2, <2>3
<1>10. WithoutLiterals(q[k], m, k) = (seqs[j].lit_len = 0)
  <2>1. WithoutLiterals(q[k], m, k) = (s.lit_length = 0 /\ ~p)
    BY <1>1, <1>6 DEF WithoutLiterals, At
  <2>2. (s.lit_length = 0 /\ ~p) = (seqs[j].lit_len = 0)
    BY <1>2, <1>4, LongModType
  <2> QED
    BY <2>1, <2>2
<1> QED
  BY <1>9, <1>10 DEF c, m, ReadsAs, SeesLiterals


-----------------------------------------------------------------------------
(* The codes of a chunk, rewritten or not, from the history of a decoder.  *)

\* The match finder's history moves as a decoder's would.
LEMMA HistoryTurns ==
    ASSUME NEW seqs, seqs \in Seq(ParsedSequence), NEW start, NEW j \in 1 .. Len(seqs)
    PROVE  HistoryAlong(start, seqs)[j] =
               resolve_offset(seqs[j].off_base, seqs[j].lit_len, HistoryAlong(start, seqs)[j - 1])
<1>1. /\ Len(seqs) \in Nat
      /\ seqs[j].off_base \in Offsets /\ seqs[j].lit_len \in Nat
  BY ParseFields
<1>2. HistoryAlong(start, seqs)[j] =
          update_rep(HistoryAlong(start, seqs)[j - 1], seqs[j].off_base, seqs[j].lit_len = 0)
  BY <1>1, HistoryUnfold
<1> QED
  BY <1>1, <1>2, HistoriesInStep

\* The sequences of a chunk with codes for a decoder whose history goes through D:
\* it resolves each to the offset that the match finder's history H has at its head.
Rewritten(q, D, store, seqs, H, f, l) ==
    /\ q \in Seq(StoredSequence) /\ DOMAIN q = 1 .. l - f /\ Len(q) = l - f
    /\ \A k \in 1 .. l - f :
          /\ q[k].lit_length = store.sequences[f + k].lit_length
          /\ q[k].ml_base = store.sequences[f + k].ml_base
          /\ D[k] = resolve_offset(q[k].off_base, seqs[f + k].lit_len, D[k - 1])
          /\ D[k][1] = H[f + k][1]

\* The sequences f + 1 .. l of a parsed block and its store: a chunk of derive_chunk.
ChunkIn(seqs, n, store, f, l) ==
    /\ GoodParse(seqs, n) /\ StoreHolds(store, seqs, n)
    /\ l \in 0 .. Len(seqs) /\ f \in 0 .. l

\* The sequences that the chunk copies.
Stored(store, f, l) == SubSeq(store.sequences, f + 1, l)

PartOf(q, store, f, l) ==
    /\ q \in Seq(StoredSequence) /\ Len(q) = l - f /\ DOMAIN q = 1 .. l - f
    /\ \A k \in 1 .. l - f : q[k] = store.sequences[f + k]

\* A chunk of the store, as it is.
LEMMA ChunkOfStore ==
    ASSUME NEW seqs, NEW n, NEW store, NEW f, NEW l, ChunkIn(seqs, n, store, f, l)
    PROVE  PartOf(Stored(store, f, l), store, f, l)
<1> DEFINE s == store.sequences
           q == SubSeq(s, f + 1, l)
<1>1. s \in Seq(StoredSequence) /\ Len(s) = Len(seqs)
  BY DEF ChunkIn, StoreHolds, HoldsSequences
<1>2. Len(s) \in Nat /\ f \in 0 .. Len(s) /\ l \in f .. Len(s)
  BY <1>1 DEF ChunkIn
<1>3. /\ q \in Seq(StoredSequence) /\ Len(q) = l - f
      /\ \A k \in 1 .. l - f : q[k] = s[f + k]
  <2> HIDE DEF s, q
  <2> QED
    BY <1>1, <1>2, Slice DEF q
<1>4. DOMAIN q = 1 .. l - f
  <2> HIDE DEF q
  <2> QED
    BY <1>3
<1> QED
  BY <1>3, <1>4 DEF Stored, PartOf

\* Without cuts the codes of the parse are for its own history.
LEMMA StoreIsRewritten ==
    ASSUME NEW seqs, NEW n, GoodParse(seqs, n), NEW store, StoreHolds(store, seqs, n),
           NEW start
    PROVE  Rewritten(SubSeq(store.sequences, 1, Len(seqs)), HistoryAlong(start, seqs), store,
                     seqs, HistoryAlong(start, seqs), 0, Len(seqs))
<1> DEFINE N == Len(seqs)
           H == HistoryAlong(start, seqs)
           q == SubSeq(store.sequences, 0 + 1, N)
<1>0. seqs \in Seq(ParsedSequence) /\ N \in Nat
  <2>1. seqs \in Seq(ParsedSequence)
    BY DEF GoodParse
  <2> QED
    BY <2>1
<1>1. N \in 0 .. N /\ 0 \in 0 .. N /\ N - 0 = N /\ 0 + 1 = 1
  BY <1>0
<1>2. /\ q \in Seq(StoredSequence) /\ Len(q) = N - 0 /\ DOMAIN q = 1 .. N - 0
      /\ \A k \in 1 .. N - 0 : q[k] = store.sequences[0 + k]
  <2>1. ChunkIn(seqs, n, store, 0, N)
    BY <1>1 DEF ChunkIn
  <2>2. q = Stored(store, 0, N)
    BY DEF Stored
  <2> HIDE DEF N, H, q
  <2>3. PartOf(q, store, 0, N)
    BY <2>1, <2>2, ChunkOfStore
  <2> QED
    BY <2>3 DEF PartOf
<1>3. ASSUME NEW k \in 1 .. N - 0
      PROVE  /\ 0 + k = k /\ k \in 1 .. N
             /\ H[k] = resolve_offset(q[k].off_base, seqs[0 + k].lit_len, H[k - 1])
  <2>1. 0 + k = k /\ k \in 1 .. N
    BY <1>0
  <2>2. H[k] = resolve_offset(seqs[k].off_base, seqs[k].lit_len, H[k - 1])
    BY <1>0, <2>1, HistoryTurns
  <2>3. store.sequences[k].off_base = seqs[k].off_base
    BY <2>1, LengthsAreKept
  <2>4. q[k].off_base = seqs[k].off_base
    BY <1>2, <2>1, <2>3
  <2> HIDE DEF q, H, N
  <2> QED
    BY <2>1, <2>2, <2>4
<1>4. SubSeq(store.sequences, 1, N) = q
  BY <1>1
<1> HIDE DEF q, H, N
<1>5. Rewritten(q, H, store, seqs, H, 0, N)
  BY <1>2, <1>3 DEF Rewritten
<1> QED
  BY <1>4, <1>5 DEF H, N

\* One turn of resolve_off_codes: s replaces e, and the decoder's history goes from
\* before to after.
Turned(s, e, before, after, x, offset) ==
    /\ s.lit_length = e.lit_length /\ s.ml_base = e.ml_base
    /\ after = resolve_offset(s.off_base, x, before)
    /\ after[1] = offset

TurnsDone(acc, q, seqs, H, f, k) ==
    /\ acc[k].c_rep = H[f + k]
    /\ acc[k].seqs \in Seq(StoredSequence) /\ Len(acc[k].seqs) = k
    /\ \A j \in 1 .. k : Turned(acc[k].seqs[j], q[j], acc[j - 1].d_rep, acc[j].d_rep,
                                seqs[f + j].lit_len, H[f + j][1])

TurnOf(acc, q, seqs, H, f, k, now) ==
    /\ acc[k] = [seqs  |-> Append(acc[k - 1].seqs, [q[k] EXCEPT !.off_base = now]),
                 d_rep |-> resolve_offset(now, seqs[f + k].lit_len, acc[k - 1].d_rep),
                 c_rep |-> H[f + k]]
    /\ resolve_offset(now, seqs[f + k].lit_len, acc[k - 1].d_rep)[1] = H[f + k][1]

LEMMA NextTurn ==
    ASSUME NEW acc, NEW q, NEW seqs, NEW H, NEW f, NEW k \in Nat \ {0}, q[k] \in StoredSequence,
           TurnsDone(acc, q, seqs, H, f, k - 1),
           NEW now \in Offsets, TurnOf(acc, q, seqs, H, f, k, now)
    PROVE  TurnsDone(acc, q, seqs, H, f, k)
<1> DEFINE old == acc[k - 1].seqs
           e == [q[k] EXCEPT !.off_base = now]
           new == acc[k].seqs
           Done(s, j) == Turned(s, q[j], acc[j - 1].d_rep, acc[j].d_rep,
                                seqs[f + j].lit_len, H[f + j][1])
<1>1. old \in Seq(StoredSequence) /\ Len(old) = k - 1
      /\ \A j \in 1 .. k - 1 : Done(old[j], j)
  BY DEF TurnsDone
<1>2. /\ e \in StoredSequence /\ e.off_base = now
      /\ e.lit_length = q[k].lit_length /\ e.ml_base = q[k].ml_base
  BY DEF StoredSequence, Offsets
<1>3. /\ new = Append(old, e) /\ acc[k].c_rep = H[f + k]
      /\ acc[k].d_rep = resolve_offset(now, seqs[f + k].lit_len, acc[k - 1].d_rep)
      /\ acc[k].d_rep[1] = H[f + k][1]
  BY DEF TurnOf
<1> HIDE DEF old, e, new
<1>4. Done(e, k)
  BY <1>2, <1>3 DEF Turned
<1> HIDE DEF Done
<1>5. /\ Append(old, e) \in Seq(StoredSequence) /\ Len(Append(old, e)) = k
      /\ \A j \in 1 .. k - 1 : Append(old, e)[j] = old[j]
      /\ Append(old, e)[k] = e
  BY <1>1, <1>2, AppendProperties
<1>6. ASSUME NEW j \in 1 .. k PROVE Done(new[j], j)
  <2>1. CASE j = k
    BY <1>3, <1>4, <1>5, <2>1
  <2>2. CASE j \in 1 .. k - 1
    BY <1>1, <1>3, <1>5, <2>2
  <2> QED
    BY <2>1, <2>2
<1> QED
  BY <1>3, <1>5, <1>6 DEF TurnsDone, new, Done

LEMMA AllTurns ==
    ASSUME NEW acc, NEW len \in Nat, NEW q, \A k \in 1 .. len : q[k] \in StoredSequence,
           NEW seqs, NEW H, NEW f \in Nat, acc[0].seqs = <<>>, acc[0].c_rep = H[f],
           \A k \in 1 .. len : acc[k - 1].c_rep = H[f + (k - 1)] =>
               \E now \in Offsets : TurnOf(acc, q, seqs, H, f, k, now)
    PROVE  TurnsDone(acc, q, seqs, H, f, len)
<1> DEFINE T == {k \in 0 .. len : TurnsDone(acc, q, seqs, H, f, k)}
<1>1. 0 \in T
  <2>1. f + 0 = f /\ 0 \in 0 .. len
    OBVIOUS
  <2>2. TurnsDone(acc, q, seqs, H, f, 0)
    BY <2>1 DEF TurnsDone
  <2> QED
    BY <2>1, <2>2
<1>2. ASSUME NEW k \in 1 .. len, k - 1 \in T PROVE k \in T
  <2>1. TurnsDone(acc, q, seqs, H, f, k - 1) /\ k \in Nat \ {0} /\ k \in 0 .. len
    BY <1>2
  <2>2. acc[k - 1].c_rep = H[f + (k - 1)]
    BY <2>1 DEF TurnsDone
  <2>3. PICK now \in Offsets : TurnOf(acc, q, seqs, H, f, k, now)
    BY <2>2
  <2>4. q[k] \in StoredSequence
    OBVIOUS
  <2>5. TurnsDone(acc, q, seqs, H, f, k)
    BY <2>1, <2>3, <2>4, NextTurn
  <2> QED
    BY <2>1, <2>5
<1>3. 0 .. len \subseteq T
  <2> HIDE DEF T
  <2> QED
    BY <1>1, <1>2, UpTo
<1> QED
  BY <1>3

LEMMA OneTurn ==
    ASSUME NEW acc, NEW q, NEW seqs, NEW H, NEW f, NEW k,
           seqs[f + k].lit_len \in Nat, q[k].off_base \in Offsets,
           resolve_offset(q[k].off_base, seqs[f + k].lit_len, acc[k - 1].c_rep) = H[f + k],
           H[f + k][1] \in Offsets,
           acc[k] = resolve_off_code(acc[k - 1], q[k], seqs[f + k].lit_len = 0)
    PROVE  \E now \in Offsets : TurnOf(acc, q, seqs, H, f, k, now)
<1> DEFINE before == acc[k - 1]
           s == q[k]
           x == seqs[f + k].lit_len
           after == acc[k]
           h == H[f + k]
<1>1. /\ x \in Nat /\ s.off_base \in Offsets
      /\ resolve_offset(s.off_base, x, before.c_rep) = h /\ h[1] \in Offsets
      /\ after = resolve_off_code(before, s, x = 0)
  OBVIOUS
<1> HIDE DEF before, s, x, after, h
<1>2. PICK now \in Offsets : MeansTheSame(before, s, x, now)
  BY <1>1, RewrittenCodeMeansTheSame
<1>3. /\ after = [seqs  |-> Append(before.seqs, [s EXCEPT !.off_base = now]),
                  d_rep |-> resolve_offset(now, x, before.d_rep), c_rep |-> h]
      /\ resolve_offset(now, x, before.d_rep)[1] = h[1]
  BY <1>1, <1>2 DEF MeansTheSame
<1>4. TurnOf(acc, q, seqs, H, f, k, now)
  BY <1>3 DEF TurnOf, before, s, x, after, h
<1> QED
  BY <1>4

\* What the loop of resolve_off_codes sees of a sequence of the store.
StoredAt(seqs, n, store, f, l, q, k) ==
    /\ ChunkIn(seqs, n, store, f, l) /\ k \in 1 .. l - f
    /\ k \in DOMAIN q /\ q[k] = store.sequences[f + k]

LEMMA StoredTurn ==
    ASSUME NEW seqs, NEW n, NEW store, NEW f, NEW l, NEW q, NEW k,
           StoredAt(seqs, n, store, f, l, q, k)
    PROVE  /\ WithoutLiterals(q[k], MarkerOf(store, f, l), k) = (seqs[f + k].lit_len = 0)
           /\ q[k].off_base = seqs[f + k].off_base /\ q[k].off_base \in Offsets
           /\ seqs[f + k].lit_len \in Nat
           /\ f + k \in 1 .. Len(seqs) /\ (f + k) - 1 = f + (k - 1)
<1> DEFINE j == f + k
<1>p. /\ GoodParse(seqs, n) /\ StoreHolds(store, seqs, n)
      /\ l \in 0 .. Len(seqs) /\ f \in 0 .. l /\ k \in 1 .. l - f
      /\ k \in DOMAIN q /\ q[k] = store.sequences[f + k]
  BY DEF StoredAt, ChunkIn
<1> USE <1>p
<1>0. seqs \in Seq(ParsedSequence)
  BY DEF GoodParse
<1>1. j \in 1 .. Len(seqs) /\ j - 1 = f + (k - 1)
  <2>1. Len(seqs) \in Nat
    BY <1>0
  <2> QED
    BY <2>1
<1>2. WithoutLiterals(q[k], MarkerOf(store, f, l), k) = (seqs[f + k].lit_len = 0)
  <2>1. q[k].lit_length = store.sequences[f + k].lit_length
        /\ q[k].ml_base = store.sequences[f + k].ml_base
    OBVIOUS
  <2>2. SeesLiterals(q[k], MarkerOf(store, f, l), k, seqs[f + k].lit_len)
    BY <2>1, ChunkReads
  <2> QED
    BY <2>2 DEF SeesLiterals
<1>3. q[k].off_base = seqs[j].off_base /\ seqs[j].off_base \in Offsets
      /\ seqs[j].lit_len \in Nat
  <2>1. store.sequences[j].off_base = seqs[j].off_base
    BY <1>1, LengthsAreKept
  <2>2. seqs[j].off_base \in Offsets /\ seqs[j].lit_len \in Nat
    BY <1>0, <1>1, ParseFields
  <2> QED
    BY <2>1, <2>2
<1> QED
  BY <1>1, <1>2, <1>3

LEMMA TurnInChunk ==
    ASSUME NEW seqs, NEW n, GoodParse(seqs, n), NEW store, StoreHolds(store, seqs, n),
           NEW l \in 0 .. Len(seqs), NEW f \in 0 .. l, NEW start, NEW k \in 1 .. l - f,
           NEW H, H = HistoryAlong(start, seqs), \A j \in 1 .. Len(seqs) : H[j][1] \in Offsets,
           NEW q, k \in DOMAIN q, q[k] = store.sequences[f + k],
           NEW acc, acc[k - 1].c_rep = H[f + (k - 1)],
           acc[k] = resolve_off_code(acc[k - 1], q[k],
                                     WithoutLiterals(q[k], MarkerOf(store, f, l), k))
    PROVE  \E now \in Offsets : TurnOf(acc, q, seqs, H, f, k, now)
<1> DEFINE j == f + k
<1>0. seqs \in Seq(ParsedSequence)
  BY DEF GoodParse
<1>1. /\ WithoutLiterals(q[k], MarkerOf(store, f, l), k) = (seqs[j].lit_len = 0)
      /\ q[k].off_base = seqs[j].off_base /\ q[k].off_base \in Offsets
      /\ seqs[j].lit_len \in Nat /\ j \in 1 .. Len(seqs) /\ j - 1 = f + (k - 1)
  <2>1. StoredAt(seqs, n, store, f, l, q, k)
    BY DEF StoredAt, ChunkIn
  <2> QED
    BY <2>1, StoredTurn
<1>2. H[j] = resolve_offset(seqs[j].off_base, seqs[j].lit_len, H[j - 1])
  <2> HIDE DEF j
  <2> QED
    BY <1>0, <1>1, HistoryTurns
<1>3. resolve_offset(q[k].off_base, seqs[j].lit_len, acc[k - 1].c_rep) = H[j]
      /\ H[j][1] \in Offsets
  <2> HIDE DEF j
  <2> QED
    BY <1>1, <1>2
<1>4. acc[k] = resolve_off_code(acc[k - 1], q[k], seqs[j].lit_len = 0)
  <2> HIDE DEF j
  <2> QED
    BY <1>1
<1> QED
  BY <1>1, <1>3, <1>4, OneTurn

\* resolve_off_codes (post_split.rs) rewrites the codes of a partition for any history d of
\* the decoder, and goes on with the history the decoder and the match finder have then.
THEOREM CodesAreResolved ==
    ASSUME NEW seqs, NEW n, GoodParse(seqs, n), NEW store, StoreHolds(store, seqs, n),
           NEW l \in 0 .. Len(seqs), NEW f \in 0 .. l, NEW start, NEW d,
           NEW H, H = HistoryAlong(start, seqs), \A j \in 1 .. Len(seqs) : H[j][1] \in Offsets,
           NEW r, r = resolve_off_codes(SubSeq(store.sequences, f + 1, l),
                                        MarkerOf(store, f, l), d, H[f])
    PROVE  \E D : /\ Rewritten(r.seqs, D, store, seqs, H, f, l)
                  /\ D[0] = d /\ r.d_rep = D[l - f]
                  /\ r.c_rep = H[l]
<1> DEFINE q == SubSeq(store.sequences, f + 1, l)
           m == MarkerOf(store, f, l)
           len == l - f
           acc == Resolving(q, m, d, H[f])
           D == [k \in 0 .. len |-> acc[k].d_rep]
<1>0. len \in Nat /\ f \in Nat /\ f + len = l
  <2>1. seqs \in Seq(ParsedSequence)
    BY DEF GoodParse
  <2>2. Len(seqs) \in Nat
    BY <2>1
  <2> QED
    BY <2>2
<1>1. /\ q \in Seq(StoredSequence) /\ Len(q) = len /\ DOMAIN q = 1 .. len
      /\ \A k \in 1 .. len : q[k] = store.sequences[f + k]
  <2>1. ChunkIn(seqs, n, store, f, l)
    BY DEF ChunkIn
  <2>2. q = Stored(store, f, l)
    BY DEF Stored
  <2> HIDE DEF m, acc, D, q
  <2>3. PartOf(q, store, f, l)
    BY <2>1, <2>2, ChunkOfStore
  <2> QED
    BY <2>3 DEF PartOf
<1>2. \A k \in 1 .. len : q[k] \in StoredSequence
  BY <1>1, ElementOfSeq
<1> HIDE DEF q
<1>3. /\ acc[0] = [seqs |-> <<>>, d_rep |-> d, c_rep |-> H[f]]
      /\ \A k \in 1 .. len :
            acc[k] = resolve_off_code(acc[k - 1], q[k], WithoutLiterals(q[k], m, k))
  <2> HIDE DEF len, m, D
  <2>1. Len(q) \in Nat
    BY <1>0, <1>1
  <2>2. /\ acc[0] = [seqs |-> <<>>, d_rep |-> d, c_rep |-> H[f]]
        /\ \A k \in 1 .. Len(q) :
              acc[k] = resolve_off_code(acc[k - 1], q[k], WithoutLiterals(q[k], m, k))
    BY <2>1, ResolvingUnfold
  <2> QED
    BY <1>1, <2>2
<1>4. r = acc[len]
  BY <1>1 DEF resolve_off_codes, Resolving, q
<1> HIDE DEF acc
<1>5. ASSUME NEW k \in 1 .. len, acc[k - 1].c_rep = H[f + (k - 1)]
      PROVE  \E now \in Offsets : TurnOf(acc, q, seqs, H, f, k, now)
  <2>1. k \in DOMAIN q /\ q[k] = store.sequences[f + k] /\ k \in 1 .. l - f
    BY <1>1
  <2>2. acc[k] = resolve_off_code(acc[k - 1], q[k], WithoutLiterals(q[k], m, k))
    BY <1>3
  <2> QED
    BY <1>5, <2>1, <2>2, TurnInChunk
<1>6. acc[0].seqs = <<>> /\ acc[0].c_rep = H[f] /\ acc[0].d_rep = d
  BY <1>3
<1> HIDE DEF len
<1>7. TurnsDone(acc, q, seqs, H, f, len)
  BY <1>0, <1>2, <1>5, <1>6, AllTurns
<1>8. /\ D[0] = d /\ D[len] = acc[len].d_rep
      /\ \A k \in 1 .. len : D[k] = acc[k].d_rep /\ D[k - 1] = acc[k - 1].d_rep
  BY <1>0, <1>6
<1> DEFINE new == r.seqs
<1>9. /\ acc[len].c_rep = H[f + len] /\ new \in Seq(StoredSequence) /\ Len(new) = len
      /\ \A j \in 1 .. len : Turned(new[j], q[j], acc[j - 1].d_rep, acc[j].d_rep,
                                    seqs[f + j].lit_len, H[f + j][1])
  BY <1>4, <1>7 DEF TurnsDone
<1> HIDE DEF new, D
<1>10. DOMAIN new = 1 .. len
  BY <1>9
<1>11. ASSUME NEW k \in 1 .. len
       PROVE  /\ new[k].lit_length = store.sequences[f + k].lit_length
              /\ new[k].ml_base = store.sequences[f + k].ml_base
              /\ D[k] = resolve_offset(new[k].off_base, seqs[f + k].lit_len, D[k - 1])
              /\ D[k][1] = H[f + k][1]
  <2>1. Turned(new[k], q[k], acc[k - 1].d_rep, acc[k].d_rep, seqs[f + k].lit_len, H[f + k][1])
    BY <1>9
  <2>2. D[k] = acc[k].d_rep /\ D[k - 1] = acc[k - 1].d_rep /\ q[k] = store.sequences[f + k]
    BY <1>1, <1>8
  <2> QED
    BY <2>1, <2>2 DEF Turned
<1>12. Rewritten(new, D, store, seqs, H, f, l)
  BY <1>9, <1>10, <1>11 DEF Rewritten, len
<1>13. r.c_rep = H[l] /\ r.d_rep = D[len] /\ D[0] = d
  BY <1>0, <1>4, <1>8, <1>9
<1> QED
  BY <1>12, <1>13 DEF new, len


-----------------------------------------------------------------------------
(* What a decoder makes of a chunk.                                        *)

\* Where a decoder may take byte p of the block from: its own place, or the offset that
\* the history H has after the sequence whose match it belongs to.
Meant(seqs, H, p, x) ==
    \/ x = p
    \/ \E j \in 1 .. Len(seqs) :
          /\ p > SpanTo(seqs, j) - seqs[j].match_len /\ p <= SpanTo(seqs, j)
          /\ x = -H[j][1]

\* The bytes behind the first `at` of the block.
Right(out, at, seqs, H) ==
    /\ out \in Seq(Int)
    /\ \A i \in 1 .. Len(out) : Meant(seqs, H, at + i, out[i])

LEMMA RightGoesOn ==
    ASSUME NEW a, NEW b, NEW at \in Nat, NEW seqs, NEW H,
           Right(a, at, seqs, H), Right(b, at + Len(a), seqs, H)
    PROVE  Right(a \o b, at, seqs, H) /\ Len(a \o b) = Len(a) + Len(b)
<1> DEFINE c == a \o b
           Good(p, x) == Meant(seqs, H, p, x)
<1>1. /\ a \in Seq(Int) /\ b \in Seq(Int)
      /\ \A i \in 1 .. Len(a) : Good(at + i, a[i])
      /\ \A i \in 1 .. Len(b) : Good(at + Len(a) + i, b[i])
  BY DEF Right
<1>2. /\ c \in Seq(Int) /\ Len(c) = Len(a) + Len(b)
      /\ \A i \in 1 .. Len(a) + Len(b) : c[i] = IF i <= Len(a) THEN a[i] ELSE b[i - Len(a)]
  BY <1>1, ConcatProperties
<1>3. Len(a) \in Nat /\ Len(b) \in Nat
  BY <1>1
<1> HIDE DEF c, Good
<1>4. ASSUME NEW i \in 1 .. Len(c) PROVE Good(at + i, c[i])
  <2>1. CASE i <= Len(a)
    <3>1. i \in 1 .. Len(a) /\ i \in 1 .. Len(a) + Len(b)
      BY <1>2, <1>3, <2>1
    <3>2. c[i] = a[i]
      BY <1>2, <2>1, <3>1
    <3> QED
      BY <1>1, <3>1, <3>2
  <2>2. CASE i > Len(a)
    <3>1. i - Len(a) \in 1 .. Len(b) /\ at + Len(a) + (i - Len(a)) = at + i
      BY <1>2, <1>3, <2>2
    <3>2. c[i] = b[i - Len(a)]
      BY <1>2, <1>3, <2>2
    <3>3. Good(at + Len(a) + (i - Len(a)), b[i - Len(a)])
      BY <1>1, <3>1
    <3> QED
      BY <3>1, <3>2, <3>3
  <2> QED
    BY <1>2, <1>3, <2>1, <2>2
<1> QED
  BY <1>2, <1>4 DEF Right, c, Good

\* A piece of some literals.
LEMMA Piece ==
    ASSUME NEW s, s \in Seq(Nat), NEW u \in Nat, NEW w \in Nat, u + w <= Len(s),
           NEW v, v = u + w, NEW p, p = SubSeq(s, u + 1, v)
    PROVE  p \in Seq(Nat) /\ Len(p) = w /\ \A i \in 1 .. w : p[i] = s[u + i]
<1>1. u \in 0 .. Len(s) /\ u + w \in u .. Len(s) /\ (u + w) - u = w
  BY LenProperties
<1> QED
  BY <1>1, Slice

\* The literals of the sequence j among those of the chunk.
OwnLiterals(lits, seqs, f, j) ==
    \A i \in 1 .. seqs[j].lit_len :
        lits[(LitTo(seqs, j - 1) - LitTo(seqs, f)) + i] = SpanTo(seqs, j - 1) + i

\* The literals of a chunk (derive_chunk) are those of its sequences; the last chunk has
\* the rest of the block as well.
LiteralsOf(lits, seqs, n, f, l) ==
    /\ lits \in Seq(Nat)
    /\ Len(lits) = (LitTo(seqs, l) - LitTo(seqs, f))
                   + IF l = Len(seqs) THEN n - SpanTo(seqs, l) ELSE 0
    /\ \A j \in f + 1 .. l : OwnLiterals(lits, seqs, f, j)
    /\ l = Len(seqs) =>
          \A i \in 1 .. n - SpanTo(seqs, l) :
             lits[(LitTo(seqs, l) - LitTo(seqs, f)) + i] = SpanTo(seqs, l) + i

LEMMA ChunkLiterals ==
    ASSUME NEW seqs, NEW n, NEW store, NEW f, NEW l, ChunkIn(seqs, n, store, f, l),
           NEW lits, lits = derive_chunk(store, f, l).literals
    PROVE  LiteralsOf(lits, seqs, n, f, l)
<1> DEFINE N == Len(seqs)
           L(i) == LitTo(seqs, i)
           S(k) == SpanTo(seqs, k)
           all == store.literals
           rest == IF l = N THEN n - S(l) ELSE 0
           e == L(l) + rest
<1>p. /\ GoodParse(seqs, n) /\ StoreHolds(store, seqs, n)
      /\ l \in 0 .. Len(seqs) /\ f \in 0 .. l
  BY DEF ChunkIn
<1> USE <1>p
<1>0. seqs \in Seq(ParsedSequence) /\ N \in Nat /\ n \in Nat /\ S(N) <= n
  <2>1. seqs \in Seq(ParsedSequence) /\ n \in Nat /\ S(N) <= n
    BY DEF GoodParse
  <2> QED
    BY <2>1
<1>1. /\ f \in 0 .. N /\ l \in 0 .. N /\ N \in 0 .. N /\ 0 \in 0 .. f /\ 0 \in 0 .. N
  BY <1>0
<1>2. /\ L(0) = 0 /\ L(f) \in Nat /\ L(l) \in Nat /\ L(N) \in Nat
      /\ L(f) <= L(l) /\ L(l) <= L(N) /\ S(N) \in Nat
  BY <1>0, <1>1, LitFacts, SpanFacts
<1>3. all \in Seq(Nat) /\ Len(all) = L(N) + (n - S(N)) /\ Len(store.sequences) = N
  BY DEF StoreHolds, HoldsSequences
<1>4. count_literals_bytes(store, 0, f) = L(f)
  <2>1. count_literals_bytes(store, 0, f) = L(f) - L(0)
    <3> HIDE DEF L, N, e, rest, all
    <3> QED
      BY <1>1, BytesCounted DEF L, N
  <2> HIDE DEF L
  <2> QED
    BY <1>2, <2>1
<1>5. count_literals_bytes(store, f, l) = L(l) - L(f)
  <2> HIDE DEF N, e, rest, all
  <2> QED
    BY BytesCounted
<1>6. rest \in Nat /\ e \in L(f) .. Len(all) /\ (l = N => e = Len(all)) /\ (l # N => e = L(l))
  <2>1. l = N => L(l) = L(N) /\ S(l) = S(N)
    OBVIOUS
  <2> HIDE DEF L, S, all, N
  <2> QED
    BY <1>0, <1>2, <1>3, <2>1
<1>7. lits = SubSeq(all, L(f) + 1, e)
  <2>1. lits = SubSeq(store.literals, count_literals_bytes(store, 0, f) + 1,
                      IF l = Len(store.sequences) THEN Len(store.literals)
                      ELSE count_literals_bytes(store, 0, f) + count_literals_bytes(store, f, l))
    BY DEF derive_chunk
  <2>2. (IF l = N THEN Len(all) ELSE L(f) + (L(l) - L(f))) = e
    <3> HIDE DEF L, S, all, N, e
    <3> QED
      BY <1>2, <1>6
  <2> HIDE DEF L, S, N, e
  <2> QED
    BY <1>3, <1>4, <1>5, <2>1, <2>2
<1> HIDE DEF e
<1>8. /\ lits \in Seq(Nat) /\ Len(lits) = e - L(f)
      /\ \A i \in 1 .. e - L(f) : lits[i] = all[L(f) + i]
  <2> DEFINE w == e - L(f)
             u == L(f)
  <2>1. u \in Nat /\ w \in Nat /\ u + w <= Len(all) /\ e = u + w
    <3>1. Len(all) \in Nat
      BY <1>3
    <3> HIDE DEF L, all
    <3> QED
      BY <1>2, <1>6, <3>1
  <2>2. lits = SubSeq(all, u + 1, e)
    BY <1>7
  <2> HIDE DEF u, w, all
  <2>3. lits \in Seq(Nat) /\ Len(lits) = w /\ \A i \in 1 .. w : lits[i] = all[u + i]
    BY <1>3, <2>1, <2>2, Piece
  <2> QED
    BY <2>3 DEF u, w
<1>9. e - L(f) = (L(l) - L(f)) + rest
  <2> HIDE DEF L, rest
  <2> QED
    BY <1>2, <1>6 DEF e
<1>10. ASSUME NEW j \in f + 1 .. l, NEW i \in 1 .. seqs[j].lit_len
       PROVE  lits[(L(j - 1) - L(f)) + i] = S(j - 1) + i
  <2>1. j \in 1 .. N /\ j - 1 \in 0 .. N /\ j \in 0 .. l /\ f \in 0 .. j - 1 /\ j \in 0 .. N
    BY <1>0
  <2>2. /\ L(j) = L(j - 1) + seqs[j].lit_len /\ L(j) <= L(l)
        /\ L(f) <= L(j - 1) /\ L(j - 1) \in Nat /\ seqs[j].lit_len \in Nat
    BY <1>0, <1>1, <2>1, LitFacts, ParseFields
  <2>3. all[L(j - 1) + i] = S(j - 1) + i
    BY <2>1 DEF StoreHolds
  <2> DEFINE x == seqs[j].lit_len
             u == L(j - 1)
             m == (u - L(f)) + i
  <2>4. m \in 1 .. e - L(f) /\ L(f) + m = u + i
    <3>1. i \in 1 .. x /\ u + x <= L(l) /\ L(f) <= u /\ u \in Nat /\ x \in Nat
      BY <2>2
    <3> DEFINE a == L(f)
               b == L(l)
               z == e - L(f)
    <3>2. /\ z = (b - a) + rest /\ a \in Nat /\ b \in Nat /\ rest \in Nat
          /\ i \in 1 .. x /\ u + x <= b /\ a <= u /\ u \in Nat /\ x \in Nat
          /\ m = (u - a) + i
      BY <1>2, <1>6, <1>9, <3>1
    <3> HIDE DEF a, b, z, m, rest, u, x
    <3>3. m \in 1 .. z /\ a + m = u + i
      BY <3>2
    <3> QED
      BY <3>3 DEF a, z
  <2>5. lits[m] = all[L(f) + m]
    <3> HIDE DEF m, L, all
    <3> QED
      BY <1>8, <2>4
  <2>6. lits[m] = all[u + i]
    BY <2>4, <2>5
  <2> QED
    BY <2>3, <2>6
<1>11. ASSUME l = N, NEW i \in 1 .. n - S(l)
       PROVE  lits[(L(l) - L(f)) + i] = S(l) + i
  <2>1. all[L(l) + i] = S(l) + i
    BY <1>11 DEF StoreHolds
  <2> DEFINE m == (L(l) - L(f)) + i
  <2>2. m \in 1 .. e - L(f) /\ L(f) + m = L(l) + i
    <3>1. rest = n - S(l)
      BY <1>11
    <3>2. i \in 1 .. rest /\ L(f) \in Nat /\ L(l) \in Nat /\ L(f) <= L(l) /\ rest \in Nat
      BY <1>2, <1>6, <3>1
    <3> DEFINE a == L(f)
               b == L(l)
               z == e - L(f)
    <3>3. z = (b - a) + rest /\ a \in Nat /\ b \in Nat /\ a <= b /\ rest \in Nat
          /\ i \in 1 .. rest /\ m = (b - a) + i
      BY <1>9, <3>2
    <3> HIDE DEF a, b, z, m, rest
    <3>4. m \in 1 .. z /\ a + m = b + i
      BY <3>3
    <3> QED
      BY <3>4 DEF a, b, z
  <2>3. lits[m] = all[L(f) + m]
    <3> HIDE DEF m, L, all
    <3> QED
      BY <1>8, <2>2
  <2> QED
    BY <2>1, <2>2, <2>3
<1> QED
  BY <1>8, <1>9, <1>10, <1>11 DEF OwnLiterals, LiteralsOf

\* Where the reader of a chunk that begins behind the sequence f is after the sequence j.
Reached(a, offsets, seqs, H, f, j) ==
    /\ a.rep = offsets
    /\ a.lits = LitTo(seqs, j) - LitTo(seqs, f)
    /\ Len(a.out) = SpanTo(seqs, j) - SpanTo(seqs, f)
    /\ Right(a.out, SpanTo(seqs, f), seqs, H)

LEMMA MatchIsRight ==
    ASSUME NEW seqs, seqs \in Seq(ParsedSequence), NEW j \in 1 .. Len(seqs), NEW H,
           H[j][1] \in Offsets
    PROVE  Right([i \in 1 .. seqs[j].match_len |-> -H[j][1]],
                 SpanTo(seqs, j - 1) + seqs[j].lit_len, seqs, H)
<1> DEFINE y == seqs[j].match_len
           x == seqs[j].lit_len
           o == H[j][1]
           s == SpanTo(seqs, j - 1)
           run == [i \in 1 .. y |-> -o]
<1>1. x \in Nat /\ y \in Nat /\ s \in Nat /\ SpanTo(seqs, j) = s + x + y /\ -o \in Int
  <2>1. Len(seqs) \in Nat /\ j - 1 \in 0 .. Len(seqs)
    BY ParseFields
  <2> QED
    BY <2>1, ParseFields, SpanFacts DEF Offsets
<1>2. ASSUME NEW i \in 1 .. y PROVE Meant(seqs, H, (s + x) + i, -o)
  <2>1. (s + x) + i > SpanTo(seqs, j) - y /\ (s + x) + i <= SpanTo(seqs, j)
    <3> HIDE DEF x, y, s, o
    <3> QED
      BY <1>1
  <2> QED
    BY <2>1 DEF Meant
<1>3. run \in Seq(Int) /\ Len(run) = y /\ \A i \in 1 .. y : run[i] = -o
  <2> HIDE DEF y, o
  <2> QED
    BY <1>1
<1> HIDE DEF run
<1> QED
  BY <1>2, <1>3 DEF Right, run

LEMMA LiteralsAreRight ==
    ASSUME NEW lits, lits \in Seq(Nat), NEW u \in Nat, NEW x \in Nat, u + x <= Len(lits),
           NEW s \in Nat, \A i \in 1 .. x : lits[u + i] = s + i,
           NEW own, own = SubSeq(lits, u + 1, u + x), NEW seqs, NEW H
    PROVE  Right(own, s, seqs, H)
<1>1. own \in Seq(Nat) /\ Len(own) = x /\ \A i \in 1 .. x : own[i] = lits[u + i]
  BY Piece
<1>2. \A i \in 1 .. Len(own) : Meant(seqs, H, s + i, own[i])
  BY <1>1 DEF Meant
<1>3. own \in Seq(Int)
  BY <1>1
<1> QED
  BY <1>1, <1>2, <1>3 DEF Right

LEMMA OneMoreRead ==
    ASSUME NEW seqs, seqs \in Seq(ParsedSequence), NEW f \in 0 .. Len(seqs),
           NEW j \in f + 1 .. Len(seqs), NEW lits \in Seq(Nat),
           LitTo(seqs, j) - LitTo(seqs, f) <= Len(lits),
           OwnLiterals(lits, seqs, f, j),
           NEW H, H[j][1] \in Offsets, NEW a, NEW before, Reached(a, before, seqs, H, f, j - 1),
           NEW c, NEW v, ReadsAs(c, v, seqs[j].lit_len, seqs[j].match_len),
           NEW after, after = resolve_offset(v, seqs[j].lit_len, before), after[1] = H[j][1]
    PROVE  Reached(RegeneratedStep(lits, a, c), after, seqs, H, f, j)
<1> DEFINE x == seqs[j].lit_len
           y == seqs[j].match_len
           at == SpanTo(seqs, f)
           s == SpanTo(seqs, j - 1)
           t == LitTo(seqs, j - 1)
           g == LitTo(seqs, f)
           own == SubSeq(lits, a.lits + 1, a.lits + x)
           run == [i \in 1 .. y |-> -H[j][1]]
           new == RegeneratedStep(lits, a, c)
<1>1. /\ j \in 1 .. Len(seqs) /\ j - 1 \in 0 .. Len(seqs) /\ f \in 0 .. j - 1 /\ j \in 0 .. Len(seqs)
  <2>1. Len(seqs) \in Nat
    OBVIOUS
  <2> QED
    BY <2>1
<1>2. /\ x \in Nat /\ y \in Nat /\ at \in Nat /\ s \in Nat /\ at <= s
      /\ SpanTo(seqs, j) = s + x + y
  BY <1>1, ParseFields, SpanFacts
<1>3. t \in Nat /\ g \in Nat /\ g <= t /\ LitTo(seqs, j) = t + x
  BY <1>1, LitFacts
<1>4. a.lits = t - g /\ Len(a.out) = s - at /\ Right(a.out, at, seqs, H) /\ a.rep = before
  BY DEF Reached
<1>5. new = [rep |-> after, lits |-> a.lits + x, out |-> a.out \o own \o run]
  <2>1. SequenceRead(c) = [of_value |-> v, lit_len |-> x, match_len |-> y]
    BY DEF ReadsAs
  <2>2. new = [rep |-> resolve_offset(v, x, a.rep), lits |-> a.lits + x,
               out |-> a.out \o own
                       \o [k \in 1 .. y |-> -resolve_offset(v, x, a.rep)[1]]]
    <3> HIDE DEF x, y
    <3> QED
      BY <2>1 DEF RegeneratedStep
  <2>3. resolve_offset(v, x, a.rep) = after
    BY <1>4
  <2>4. [k \in 1 .. y |-> -resolve_offset(v, x, a.rep)[1]] = run
    BY <2>3
  <2> HIDE DEF new, own, run, x, y
  <2> QED
    BY <2>2, <2>3, <2>4
<1>6. Len(own) = x /\ Right(own, s, seqs, H)
  <2> DEFINE u == t - g
  <2>1. u \in Nat /\ u + x <= Len(lits)
    <3>1. Len(lits) \in Nat /\ (t + x) - g <= Len(lits)
      BY <1>3
    <3> HIDE DEF t, g, x
    <3> QED
      BY <1>2, <1>3, <3>1
  <2>2. own = SubSeq(lits, u + 1, u + x)
    BY <1>4
  <2>3. \A i \in 1 .. x : lits[u + i] = s + i
    BY DEF OwnLiterals
  <2> HIDE DEF u, x, own, s
  <2>4. x \in Nat /\ s \in Nat /\ lits \in Seq(Nat)
    BY <1>2
  <2>5. Len(own) = x
    BY <2>1, <2>2, <2>4, Piece
  <2>6. Right(own, s, seqs, H)
    BY <2>1, <2>2, <2>3, <2>4, LiteralsAreRight
  <2> QED
    BY <2>5, <2>6
<1>7. Right(own, s, seqs, H)
  BY <1>6
<1>8. Right(run, s + x, seqs, H)
  BY <1>1, MatchIsRight
<1>9. Len(run) = y
  <2> HIDE DEF y
  <2> QED
    BY <1>2
<1> DEFINE first == a.out \o own
<1>10. Right(first, at, seqs, H) /\ Len(first) = (s - at) + x
  <2>1. at + Len(a.out) = s
    <3> HIDE DEF at, s
    <3> QED
      BY <1>2, <1>4
  <2> DEFINE b == a.out
  <2>2. Right(b, at, seqs, H) /\ Right(own, at + Len(b), seqs, H) /\ at \in Nat
    BY <1>2, <1>4, <1>7, <2>1
  <2>3. Len(b) = s - at /\ Len(own) = x
    BY <1>4, <1>6
  <2> HIDE DEF at, s, own, x, b
  <2>4. Right(b \o own, at, seqs, H) /\ Len(b \o own) = Len(b) + Len(own)
    BY <2>2, RightGoesOn
  <2> QED
    BY <2>3, <2>4 DEF b
<1>11. Right(first \o run, at, seqs, H) /\ Len(first \o run) = (s - at) + x + y
  <2>1. at + Len(first) = s + x
    <3> HIDE DEF at, s, x, first
    <3> QED
      BY <1>2, <1>10
  <2> HIDE DEF at, s, x, y, first, run
  <2> QED
    BY <1>2, <1>8, <1>9, <1>10, <2>1, RightGoesOn
<1>12. new.rep = after /\ new.lits = a.lits + x /\ new.out = first \o run
  <2> HIDE DEF new, run, own, x
  <2> QED
    BY <1>5
<1>13. a.lits + x = LitTo(seqs, j) - g /\ (s - at) + x + y = SpanTo(seqs, j) - at
  <2> HIDE DEF x, y, s, at, t, g
  <2> QED
    BY <1>2, <1>3, <1>4
<1> HIDE DEF new, first, run, x, y, s
<1> QED
  BY <1>11, <1>12, <1>13 DEF Reached, new


\* The codes of a chunk, as many as it has sequences.
LEMMA ChunkCodes ==
    ASSUME NEW q, NEW m \in Nat, DOMAIN q = 1 .. m, NEW mark
    PROVE  Len(seq_to_codes(q, mark)) = m /\ DOMAIN seq_to_codes(q, mark) = 1 .. m
<1> DEFINE Code(k) ==
             [ll |-> IF mark = [type |-> "literal", pos |-> k - 1]
                     THEN MAX_LL ELSE q[k].lit_length,
              ml |-> IF mark = [type |-> "match", pos |-> k - 1]
                     THEN MAX_ML ELSE q[k].ml_base,
              of |-> OffCode(q[k].off_base),
              seq |-> q[k]]
<1>1. seq_to_codes(q, mark) = [k \in 1 .. m |-> Code(k)]
  BY DEF seq_to_codes
<1> HIDE DEF Code
<1>2. Len([k \in 1 .. m |-> Code(k)]) = m /\ DOMAIN [k \in 1 .. m |-> Code(k)] = 1 .. m
  OBVIOUS
<1> QED
  BY <1>1, <1>2

\* The k-th sequence of a chunk leads the reader from behind the sequence before to
\* behind this one.
LEMMA ChunkStep ==
    ASSUME NEW seqs, NEW n, GoodParse(seqs, n), NEW store, StoreHolds(store, seqs, n),
           NEW l \in 0 .. Len(seqs), NEW f \in 0 .. l, NEW k \in 1 .. l - f,
           NEW H, H[f + k][1] \in Offsets,
           NEW q, NEW D, Rewritten(q, D, store, seqs, H, f, l),
           NEW lits, lits = derive_chunk(store, f, l).literals,
           NEW a, Reached(a, D[k - 1], seqs, H, f, f + (k - 1))
    PROVE  Reached(RegeneratedStep(lits, a, seq_to_codes(q, MarkerOf(store, f, l))[k]),
                   D[k], seqs, H, f, f + k)
<1> DEFINE j == f + k
           c == seq_to_codes(q, MarkerOf(store, f, l))[k]
           v == q[k].off_base
           N == Len(seqs)
<1>0. seqs \in Seq(ParsedSequence) /\ N \in Nat
  <2>1. seqs \in Seq(ParsedSequence)
    BY DEF GoodParse
  <2> QED
    BY <2>1
<1>1. /\ f \in 0 .. N /\ j \in f + 1 .. N /\ j \in f + 1 .. l /\ j \in 0 .. l
      /\ j - 1 = f + (k - 1) /\ l \in 0 .. N
  BY <1>0
<1>2. /\ k \in DOMAIN q
      /\ q[k].lit_length = store.sequences[f + k].lit_length
      /\ q[k].ml_base = store.sequences[f + k].ml_base
      /\ D[k] = resolve_offset(v, seqs[j].lit_len, D[k - 1])
      /\ D[k][1] = H[j][1]
  BY DEF Rewritten
<1>3. ReadsAs(c, v, seqs[j].lit_len, seqs[j].match_len)
  BY <1>2, ChunkReads
<1>4. lits \in Seq(Nat) /\ OwnLiterals(lits, seqs, f, j)
      /\ LitTo(seqs, j) - LitTo(seqs, f) <= Len(lits)
  <2>1. /\ lits \in Seq(Nat) /\ \A i \in f + 1 .. l : OwnLiterals(lits, seqs, f, i)
        /\ Len(lits) = (LitTo(seqs, l) - LitTo(seqs, f))
                       + IF l = Len(seqs) THEN n - SpanTo(seqs, l) ELSE 0
    <3>1. ChunkIn(seqs, n, store, f, l)
      BY DEF ChunkIn
    <3>2. LiteralsOf(lits, seqs, n, f, l)
      BY <3>1, ChunkLiterals
    <3> QED
      BY <3>2 DEF LiteralsOf
  <2>2. /\ LitTo(seqs, j) <= LitTo(seqs, l)
        /\ LitTo(seqs, j) \in Nat /\ LitTo(seqs, l) \in Nat /\ LitTo(seqs, f) \in Nat
    <3>1. j \in 0 .. N
      BY <1>1
    <3> HIDE DEF j
    <3> QED
      BY <1>0, <1>1, <3>1, LitFacts
  <2>3. n \in Nat /\ SpanTo(seqs, N) <= n /\ SpanTo(seqs, N) \in Nat
    <3>1. N \in 0 .. N
      BY <1>0
    <3> QED
      BY <1>0, <3>1, SpanFacts DEF GoodParse
  <2> DEFINE rest == IF l = N THEN n - SpanTo(seqs, l) ELSE 0
             x == LitTo(seqs, j)
             y == LitTo(seqs, l)
             z == LitTo(seqs, f)
  <2>4. rest \in Nat
    BY <2>3
  <2>5. x - z <= Len(lits)
    <3>1. Len(lits) = (y - z) + rest /\ x <= y /\ x \in Nat /\ y \in Nat /\ z \in Nat
      BY <2>1, <2>2
    <3> HIDE DEF x, y, z, rest
    <3> QED
      BY <2>4, <3>1
  <2> QED
    BY <1>1, <2>1, <2>5
<1>5. Reached(a, D[k - 1], seqs, H, f, j - 1) /\ H[j][1] \in Offsets
  BY <1>1
<1> DEFINE before == D[k - 1]
           after == D[k]
<1>6. after = resolve_offset(v, seqs[j].lit_len, before) /\ after[1] = H[j][1]
      /\ Reached(a, before, seqs, H, f, j - 1)
  BY <1>2, <1>5
<1> HIDE DEF j, c, v, N, before, after
<1>7. Reached(RegeneratedStep(lits, a, c), after, seqs, H, f, j)
  BY <1>0, <1>1, <1>3, <1>4, <1>5, <1>6, OneMoreRead DEF N
<1> QED
  BY <1>7 DEF j, c, after

\* All bytes of a chunk, the rest of the block with the last sequence.
Whole(out, seqs, n, H, f, l) ==
    /\ Right(out, SpanTo(seqs, f), seqs, H)
    /\ Len(out) = (IF l = Len(seqs) THEN n ELSE SpanTo(seqs, l)) - SpanTo(seqs, f)

\* The reader is through with a chunk: what is left are its last literals.
LEMMA ChunkEnds ==
    ASSUME NEW seqs, NEW n, GoodParse(seqs, n), NEW store, StoreHolds(store, seqs, n),
           NEW l \in 0 .. Len(seqs), NEW f \in 0 .. l, NEW H,
           NEW lits, lits = derive_chunk(store, f, l).literals,
           NEW a, NEW offsets, Reached(a, offsets, seqs, H, f, l),
           NEW out, out = a.out \o SubSeq(lits, a.lits + 1, Len(lits))
    PROVE  Whole(out, seqs, n, H, f, l)
<1> DEFINE N == Len(seqs)
           s == SpanTo(seqs, l)
           at == SpanTo(seqs, f)
           rest == IF l = N THEN n - s ELSE 0
           u == LitTo(seqs, l) - LitTo(seqs, f)
           own == SubSeq(lits, u + 1, u + rest)
           b == a.out
<1>0. seqs \in Seq(ParsedSequence) /\ N \in Nat /\ n \in Nat /\ SpanTo(seqs, N) <= n
  <2>1. seqs \in Seq(ParsedSequence) /\ n \in Nat /\ SpanTo(seqs, N) <= n
    BY DEF GoodParse
  <2> QED
    BY <2>1
<1>1. /\ s \in Nat /\ at \in Nat /\ at <= s /\ u \in Nat /\ rest \in Nat
      /\ (l = N => s + rest = n)
  <2>1. f \in 0 .. N /\ l \in 0 .. N /\ f \in 0 .. l
    BY <1>0
  <2>2. LitTo(seqs, l) \in Nat /\ LitTo(seqs, f) \in Nat /\ LitTo(seqs, f) <= LitTo(seqs, l)
    BY <1>0, <2>1, LitFacts
  <2>3. s \in Nat /\ at \in Nat /\ at <= s
    BY <1>0, <2>1, SpanFacts
  <2>4. l = N => s <= n
    BY <1>0
  <2> HIDE DEF s, at, N
  <2> QED
    BY <1>0, <2>2, <2>3, <2>4
<1>2. /\ lits \in Seq(Nat) /\ Len(lits) = u + rest
      /\ l = N => \A i \in 1 .. n - s : lits[u + i] = s + i
  <2>1. ChunkIn(seqs, n, store, f, l)
    BY DEF ChunkIn
  <2>2. LiteralsOf(lits, seqs, n, f, l)
    BY <2>1, ChunkLiterals
  <2> QED
    BY <2>2 DEF LiteralsOf
<1>3. \A i \in 1 .. rest : lits[u + i] = s + i
  <2>1. CASE l = N
    BY <1>2, <2>1
  <2>2. CASE l # N
    <3>1. rest = 0
      BY <2>2
    <3> HIDE DEF rest
    <3> QED
      BY <3>1
  <2> QED
    BY <2>1, <2>2
<1>4. Right(b, at, seqs, H) /\ Len(b) = s - at /\ a.lits = u
  BY DEF Reached
<1>5. out = b \o own
  <2> HIDE DEF u, rest
  <2> QED
    BY <1>2, <1>4
<1> HIDE DEF N, s, at, rest, u, b
<1>6. Len(own) = rest
  <2>1. u + rest <= Len(lits)
    BY <1>1, <1>2
  <2> HIDE DEF own
  <2> QED
    BY <1>1, <1>2, <2>1, Piece DEF own
<1>7. Right(own, s, seqs, H)
  <2>1. u + rest <= Len(lits)
    BY <1>1, <1>2
  <2> HIDE DEF own
  <2> QED
    BY <1>1, <1>2, <1>3, <2>1, LiteralsAreRight DEF own
<1> HIDE DEF own
<1>8. at + Len(b) = s
  BY <1>1, <1>4
<1>9. Right(b \o own, at, seqs, H) /\ Len(b \o own) = Len(b) + Len(own)
  BY <1>1, <1>4, <1>7, <1>8, RightGoesOn
<1>10. Len(out) = (s - at) + rest
  BY <1>4, <1>5, <1>6, <1>9
<1>11. (s - at) + rest = (IF l = N THEN n ELSE s) - at
  <2>1. CASE l = N
    BY <1>0, <1>1, <2>1
  <2>2. CASE l # N
    BY <1>1, <2>2 DEF rest
  <2> QED
    BY <2>1, <2>2
<1> QED
  BY <1>5, <1>9, <1>10, <1>11 DEF Whole, s, at, N

\* The decoder has a body of a chunk in hand, whose codes have been rewritten for it.
ChunkToRead(seqs, n, store, f, l, H, q, D, body, decoder) ==
    /\ ChunkIn(seqs, n, store, f, l)
    /\ \A j \in 1 .. Len(seqs) : H[j][1] \in Offsets
    /\ Rewritten(q, D, store, seqs, H, f, l)
    /\ body.coded = seq_to_codes(q, MarkerOf(store, f, l))
    /\ body.literals = derive_chunk(store, f, l).literals
    /\ decoder.rep = D[0]

\* A block or partition of the sequences f + 1 .. l of a parse, whose codes have been
\* rewritten for the decoder: the decoder takes each byte from where the match finder
\* meant it, it has all of the partition's bytes and, with the block's last sequence, of
\* the block's, and the history that the encoder thinks it has.
THEOREM ChunkIsRead ==
    ASSUME NEW seqs, NEW n, NEW store, NEW f, NEW l, NEW H, NEW q, NEW D, NEW body,
           NEW decoder, ChunkToRead(seqs, n, store, f, l, H, q, D, body, decoder)
    PROVE  /\ Regenerated(body, decoder).rep = D[l - f]
           /\ Whole(Regenerated(body, decoder).out, seqs, n, H, f, l)
<1> DEFINE m == l - f
           A == Reading(body, decoder)
           lits == body.literals
           codes == body.coded
           T == {k \in 0 .. m : Reached(A[k], D[k], seqs, H, f, f + k)}
<1>p. /\ GoodParse(seqs, n) /\ StoreHolds(store, seqs, n)
      /\ l \in 0 .. Len(seqs) /\ f \in 0 .. l
      /\ \A j \in 1 .. Len(seqs) : H[j][1] \in Offsets
      /\ Rewritten(q, D, store, seqs, H, f, l)
      /\ body.coded = seq_to_codes(q, MarkerOf(store, f, l))
      /\ body.literals = derive_chunk(store, f, l).literals /\ decoder.rep = D[0]
  BY DEF ChunkToRead, ChunkIn
<1> USE <1>p
<1>0. /\ seqs \in Seq(ParsedSequence) /\ Len(seqs) \in Nat
      /\ m \in Nat /\ f \in Nat /\ f + m = l /\ f + 0 = f /\ f \in 0 .. Len(seqs)
      /\ \A k \in 1 .. m : f + k \in 1 .. Len(seqs)
  <2>1. seqs \in Seq(ParsedSequence)
    BY DEF GoodParse
  <2>2. Len(seqs) \in Nat
    BY <2>1
  <2> QED
    BY <2>1, <2>2
<1>1. Len(codes) = m
  <2>1. DOMAIN q = 1 .. m
    BY DEF Rewritten
  <2> HIDE DEF m
  <2> QED
    BY <1>0, <2>1, ChunkCodes
<1>2. /\ A[0] = [rep |-> decoder.rep, lits |-> 0, out |-> <<>>]
      /\ \A k \in 1 .. m : A[k] = RegeneratedStep(lits, A[k - 1], codes[k])
  <2> HIDE DEF m, lits
  <2>1. Len(body.coded) \in Nat
    BY <1>0, <1>1
  <2> QED
    BY <1>1, <2>1, ReadingUnfold DEF lits
<1> HIDE DEF A
<1>3. 0 \in T
  <2>1. LitTo(seqs, f) \in Nat /\ SpanTo(seqs, f) \in Nat
    BY <1>0, LitFacts, SpanFacts
  <2>2. Right(<<>>, SpanTo(seqs, f), seqs, H)
    <3>1. <<>> \in Seq(Int) /\ Len(<<>>) = 0
      OBVIOUS
    <3> QED
      BY <3>1 DEF Right
  <2>3. A[0].rep = D[0] /\ A[0].lits = 0 /\ A[0].out = <<>>
    BY <1>2
  <2>4. LitTo(seqs, f) - LitTo(seqs, f) = 0 /\ SpanTo(seqs, f) - SpanTo(seqs, f) = 0
    BY <2>1
  <2>5. Reached(A[0], D[0], seqs, H, f, f)
    BY <2>2, <2>3, <2>4 DEF Reached
  <2>6. 0 \in 0 .. m
    BY <1>0
  <2> QED
    BY <1>0, <2>5, <2>6
<1>4. ASSUME NEW k \in 1 .. m, k - 1 \in T PROVE k \in T
  <2>1. Reached(A[k - 1], D[k - 1], seqs, H, f, f + (k - 1))
    BY <1>4
  <2>2. H[f + k][1] \in Offsets
    BY <1>0
  <2>3. Reached(RegeneratedStep(lits, A[k - 1], codes[k]), D[k], seqs, H, f, f + k)
    <3>1. k \in 1 .. l - f
      OBVIOUS
    <3> DEFINE a == A[k - 1]
    <3>2. Reached(a, D[k - 1], seqs, H, f, f + (k - 1))
      BY <2>1
    <3> HIDE DEF a, T, m
    <3>3. Reached(RegeneratedStep(lits, a, seq_to_codes(q, MarkerOf(store, f, l))[k]),
                  D[k], seqs, H, f, f + k)
      BY <2>2, <3>1, <3>2, ChunkStep
    <3> QED
      BY <3>3 DEF a
  <2>4. Reached(A[k], D[k], seqs, H, f, f + k)
    BY <1>2, <2>3
  <2>5. k \in 0 .. m
    BY <1>0
  <2> QED
    BY <2>4, <2>5
<1>5. 0 .. m \subseteq T
  <2> HIDE DEF T, m
  <2> QED
    BY <1>0, <1>3, <1>4, UpTo
<1>6. Reached(A[m], D[m], seqs, H, f, l)
  <2>1. m \in T
    BY <1>0, <1>5
  <2> QED
    BY <1>0, <2>1
<1> DEFINE r == Regenerated(body, decoder)
<1>7. r = [out |-> A[m].out \o SubSeq(lits, A[m].lits + 1, Len(lits)), rep |-> A[m].rep]
  BY <1>1 DEF Regenerated, Reading, A
<1>8. r.rep = D[m] /\ r.out = A[m].out \o SubSeq(lits, A[m].lits + 1, Len(lits))
  <2> HIDE DEF r
  <2> QED
    BY <1>6, <1>7 DEF Reached
<1> DEFINE a == A[m]
           out == r.out
<1>9. Reached(a, D[m], seqs, H, f, l) /\ out = a.out \o SubSeq(lits, a.lits + 1, Len(lits))
  BY <1>6, <1>8
<1>10. lits = derive_chunk(store, f, l).literals
  OBVIOUS
<1> HIDE DEF a, out, r, T, m, lits, codes
<1>11. Whole(out, seqs, n, H, f, l)
  BY <1>9, <1>10, ChunkEnds
<1> QED
  BY <1>8, <1>11 DEF out, r, m


-----------------------------------------------------------------------------
(* The tables of a body.                                                   *)

\* A table that may be repeated is the decoder's; a valid one, repeated without a look at
\* the block, can code whatever comes.
EntryInStep(entry, held) == entry.repeat # "none" => entry.table = held

OneOrMore(S) == Cardinality(S) = 1 \/ Cardinality(S) > 1

LEMMA SomeCodes ==
    ASSUME NEW S, IsFiniteSet(S), S # {}
    PROVE  OneOrMore(S) /\ (Cardinality(S) = 1 => \E x : S = {x})
<1>1. Cardinality(S) \in Nat
  BY FS_CardinalityType
<1>2. Cardinality(S) # 0
  BY FS_EmptySet
<1>3. Cardinality(S) = 1 => \E x : S = {x}
  BY FS_Singleton
<1>4. \A c \in Nat : c # 0 => c = 1 \/ c > 1
  OBVIOUS
<1> QED
  BY <1>1, <1>2, <1>3, <1>4 DEF OneOrMore

\* The codes that a slot has to code.
CodesOf(coded, slot) == {coded[k][slot] : k \in DOMAIN coded}

LEMMA CodesAreFinite ==
    ASSUME NEW coded, NEW m \in Nat \ {0}, DOMAIN coded = 1 .. m, NEW slot
    PROVE  IsFiniteSet(CodesOf(coded, slot)) /\ CodesOf(coded, slot) # {}
<1> DEFINE S == CodesOf(coded, slot)
           g == [k \in 1 .. m |-> coded[k][slot]]
<1>1. S = {coded[k][slot] : k \in 1 .. m}
  BY DEF CodesOf
<1>2. g \in Surjection(1 .. m, S)
  <2>1. g \in [1 .. m -> S]
    BY <1>1
  <2>2. \A t \in S : \E k \in 1 .. m : g[k] = t
    BY <1>1
  <2> QED
    BY <2>1, <2>2 DEF Surjection
<1>3. IsFiniteSet(1 .. m)
  BY FS_Interval
<1>4. IsFiniteSet(S)
  BY <1>2, <1>3, FS_Surjection
<1>5. 1 \in 1 .. m
  OBVIOUS
<1> QED
  BY <1>1, <1>4, <1>5

\* What select_encoding_type may choose serves both sides: the decoder has the table
\* when it is told of it in the way chosen, the table codes all codes of the block,
\* and what the encoder may repeat later is what the decoder will hold then.
Serves(c, held, codes, by_cost, default) ==
    /\ (IF c.type = "repeat" THEN held ELSE c.table) = c.table
    /\ codes \subseteq c.table.syms
    /\ EntryInStep(c.next, c.table)
    /\ ~by_cost /\ c.next.repeat = "valid" => default \subseteq c.next.table.syms

CanServe(strat, slot, entry, held, codes) ==
    /\ strat.by_cost \in BOOLEAN
    /\ EntryInStep(entry, held)
    /\ ~strat.by_cost /\ entry.repeat = "valid" => Basic[slot].syms \subseteq entry.table.syms
    /\ OneOrMore(codes)
    /\ Cardinality(codes) = 1 => \E x : codes = {x}

LEMMA ChoiceServes ==
    ASSUME NEW strat, NEW slot, NEW entry, NEW held, NEW codes,
           CanServe(strat, slot, entry, held, codes), NEW nb, NEW stamp,
           NEW c \in select_encoding_type(strat, slot, entry, codes, nb, stamp)
    PROVE  Serves(c, held, codes, strat.by_cost, Basic[slot].syms)
<1> DEFINE default == codes \subseteq Basic[slot].syms
           few == nb <= 2
           fewer == nb < static_fse_nb_seq_max
           reusable == entry.repeat # "none" /\ codes \subseteq entry.table.syms
           one == Cardinality(codes) = 1
           more == Cardinality(codes) > 1
           Good(x) == Serves(x, held, codes, strat.by_cost, Basic[slot].syms)
<1> SUFFICES Good(c)
  OBVIOUS
<1>0. /\ strat.by_cost \in BOOLEAN
      /\ EntryInStep(entry, held)
      /\ ~strat.by_cost /\ entry.repeat = "valid" => Basic[slot].syms \subseteq entry.table.syms
      /\ OneOrMore(codes)
      /\ one => \E x : codes = {x}
  BY DEF CanServe
<1>1. ASSUME default PROVE Good(UseBasic(slot))
  BY <1>1 DEF UseBasic, Choice, Serves, EntryInStep
<1>2. ASSUME one PROVE Good(UseRle(codes))
  <2>1. PICK x : codes = {x}
    BY <1>0, <1>2
  <2>2. (CHOOSE y \in codes : TRUE) = x
    BY <2>1
  <2>3. codes \subseteq RleOf(CHOOSE y \in codes : TRUE).syms
    BY <2>1, <2>2 DEF RleOf
  <2> QED
    BY <2>3 DEF UseRle, Choice, Serves, EntryInStep
<1>3. Good(UseNew(codes, stamp))
  BY DEF UseNew, Choice, Serves, EntryInStep
<1>4. ASSUME reusable PROVE Good(UseRepeat(entry))
  BY <1>0, <1>4 DEF UseRepeat, Choice, Serves, EntryInStep
<1>5. ASSUME default, entry.repeat = "valid", ~strat.by_cost PROVE reusable
  BY <1>0, <1>5
<1>6. CASE one /\ c \in IF default /\ few THEN {UseBasic(slot)} ELSE {UseRle(codes)}
  <2> HIDE DEF default, few, Good
  <2> QED
    BY <1>1, <1>2, <1>6
<1>7. CASE more /\ strat.by_cost
           /\ c \in (IF default THEN {UseBasic(slot)} ELSE {}) \cup {UseNew(codes, stamp)}
                    \cup IF reusable THEN {UseRepeat(entry)} ELSE {}
  <2> HIDE DEF default, reusable, Good
  <2> QED
    BY <1>1, <1>3, <1>4, <1>7
<1>8. CASE more /\ ~strat.by_cost
           /\ c \in IF default /\ entry.repeat = "valid" /\ fewer
                    THEN {UseRepeat(entry)}
                    ELSE (IF default THEN {UseBasic(slot)} ELSE {}) \cup {UseNew(codes, stamp)}
  <2>1. CASE default /\ entry.repeat = "valid" /\ fewer
    BY <1>4, <1>5, <1>8, <2>1
  <2>2. CASE ~(default /\ entry.repeat = "valid" /\ fewer)
    <3> HIDE DEF default, fewer, Good
    <3> QED
      BY <1>1, <1>3, <1>8, <2>2
  <2> QED
    BY <2>1, <2>2
<1>9. /\ one => c \in IF default /\ few THEN {UseBasic(slot)} ELSE {UseRle(codes)}
      /\ ~one /\ more /\ strat.by_cost =>
            c \in (IF default THEN {UseBasic(slot)} ELSE {}) \cup {UseNew(codes, stamp)}
                  \cup IF reusable THEN {UseRepeat(entry)} ELSE {}
      /\ ~one /\ more /\ ~strat.by_cost =>
            c \in IF default /\ entry.repeat = "valid" /\ fewer
                  THEN {UseRepeat(entry)}
                  ELSE (IF default THEN {UseBasic(slot)} ELSE {}) \cup {UseNew(codes, stamp)}
  <2>1. more => ~one
    BY DEF more, one
  <2> QED
    BY <1>0, <2>1 DEF select_encoding_type, DefaultAllowed, Reusable
<1>10. one \/ more
  BY <1>0 DEF OneOrMore
<1> QED
  BY <1>0, <1>6, <1>7, <1>8, <1>9, <1>10


\* What compress_literals may make of the literals serves both sides as well.
HuffmanServes(c, held, symbols) ==
    /\ c.type # "plain" =>
          /\ (IF c.type = "huffman" THEN c.table ELSE held) = c.table
          /\ symbols \subseteq c.table.syms
    /\ EntryInStep(c.next, IF c.type = "huffman" THEN c.table ELSE held)
    /\ c.next.repeat = "valid" => LiteralSymbols \subseteq c.next.table.syms

LEMMA LiteralsServe ==
    ASSUME NEW strat, NEW entry, NEW held, EntryInStep(entry, held),
           entry.repeat = "valid" => LiteralSymbols \subseteq entry.table.syms,
           NEW literals, NEW symbols, symbols \subseteq LiteralSymbols, OneOrMore(symbols),
           NEW stamp, NEW c \in compress_literals(strat, entry, literals, symbols, stamp)
    PROVE  HuffmanServes(c, held, symbols)
<1> DEFINE plain    == [type |-> "plain", table |-> NoTable, next |-> entry]
           treeless == [type |-> "treeless", table |-> entry.table, next |-> entry]
           huffman  == Choice("huffman", [syms |-> symbols, id |-> stamp], "check")
           valid    == entry.repeat = "valid"
           usable   == valid \/ Reusable(entry, symbols)
           few      == Len(literals) <= prefer_repeat_max
           prefer   == ~strat.by_cost /\ few
           one      == Cardinality(symbols) = 1
           more     == Cardinality(symbols) > 1
           coded == CASE prefer /\ valid -> {treeless}
                      [] ~(prefer /\ valid) /\ one -> {}
                      [] ~(prefer /\ valid) /\ more ->
                           (IF usable THEN {treeless} ELSE {})
                           \cup (IF prefer /\ usable THEN {} ELSE {huffman})
           none == strat.plain_literals \/ literals = <<>>
           Good(x) == HuffmanServes(x, held, symbols)
<1> SUFFICES Good(c)
  OBVIOUS
<1>1. Good(plain)
  BY DEF HuffmanServes
<1>2. ASSUME usable PROVE Good(treeless)
  <2>1. entry.repeat # "none" /\ symbols \subseteq entry.table.syms
    BY <1>2 DEF Reusable
  <2>2. held = entry.table
    BY <2>1 DEF EntryInStep
  <2> QED
    BY <2>1, <2>2 DEF HuffmanServes
<1>3. Good(huffman)
  BY DEF Choice, HuffmanServes, EntryInStep
<1>4. c \in {plain} \cup IF none THEN {} ELSE coded
  BY DEF compress_literals
<1>5. valid => usable
  OBVIOUS
<1>6. one \/ more
  BY DEF OneOrMore
<1>7. more => ~one
  BY DEF one, more
<1> HIDE DEF plain, treeless, huffman, valid, usable, few, prefer, one, more, none, Good
<1>8. CASE prefer /\ valid
  <2>1. coded = {treeless}
    BY <1>8
  <2> HIDE DEF coded
  <2> QED
    BY <1>1, <1>2, <1>4, <1>5, <1>8, <2>1
<1>9. CASE ~(prefer /\ valid) /\ one
  <2>1. coded = {}
    BY <1>7, <1>9
  <2> HIDE DEF coded
  <2> QED
    BY <1>1, <1>4, <2>1
<1>10. CASE ~(prefer /\ valid) /\ ~one
  <2>1. coded = (IF usable THEN {treeless} ELSE {})
                \cup (IF prefer /\ usable THEN {} ELSE {huffman})
    BY <1>6, <1>10
  <2> HIDE DEF coded
  <2> QED
    BY <1>1, <1>2, <1>3, <1>4, <2>1
<1> QED
  BY <1>8, <1>9, <1>10

TablesInStep(state, tables) ==
    \A s \in Slots \cup {"huf"} : EntryInStep(state[s], tables[s])

TablesCover(strat, state) ==
    /\ state.huf.repeat = "valid" => LiteralSymbols \subseteq state.huf.table.syms
    /\ \A s \in Slots :
          ~strat.by_cost /\ state[s].repeat = "valid" =>
              Basic[s].syms \subseteq state[s].table.syms

\* The parts of a body (entropy_compress_seq_view).
Parts(b, strat, st, q, lits, symbols, coded, stamp) ==
    /\ b.body.coded = coded /\ b.body.literals = lits /\ b.body.symbols = symbols
    /\ b.body.lit \in compress_literals(strat, st.huf, lits, symbols, stamp)
    /\ b.next.huf = b.body.lit.next
    /\ DOMAIN b.next = Slots \cup {"huf"}
    /\ q = <<>> => \A s \in Slots : b.next[s] = st[s]
    /\ q # <<>> =>
          \A s \in Slots :
             /\ b.next[s] = b.body.stats[s].next
             /\ b.body.stats[s] \in
                   select_encoding_type(strat, s, st[s], CodesOf(coded, s), Len(coded), stamp)

LEMMA BodyParts ==
    ASSUME NEW strat, NEW st, NEW q, NEW long, NEW lits, NEW symbols, NEW stamp,
           NEW b \in entropy_compress_seq_view(strat, st, q, long, lits, symbols, stamp),
           NEW coded, coded = seq_to_codes(q, long)
    PROVE  Parts(b, strat, st, q, lits, symbols, coded, stamp)
<1> DEFINE Stats == IF q = <<>> THEN {<<>>} ELSE build_sequences_statistics(strat, st, coded, stamp)
           Entry(x, slot) == IF q = <<>> THEN st[slot] ELSE x[slot].next
           For(s) == select_encoding_type(strat, s, st[s], CodesOf(coded, s), Len(coded), stamp)
<1>1. PICK lit \in compress_literals(strat, st.huf, lits, symbols, stamp), x \in Stats :
         b = [body |-> [literals |-> lits, symbols |-> symbols, lit |-> lit,
                        coded |-> coded, stats |-> x],
              next |-> [ll |-> Entry(x, "ll"), of |-> Entry(x, "of"),
                        ml |-> Entry(x, "ml"), huf |-> lit.next]]
  BY DEF entropy_compress_seq_view
<1>2. /\ b.body.coded = coded /\ b.body.literals = lits /\ b.body.symbols = symbols
      /\ b.body.lit = lit /\ b.body.stats = x /\ b.next.huf = lit.next
      /\ b.next.ll = Entry(x, "ll") /\ b.next.of = Entry(x, "of") /\ b.next.ml = Entry(x, "ml")
      /\ DOMAIN b.next = {"ll", "of", "ml", "huf"}
  <2> HIDE DEF Entry, Stats
  <2> QED
    BY <1>1
<1>3. \A s \in Slots : b.next[s] = Entry(x, s)
  <2> HIDE DEF Entry
  <2> QED
    BY <1>2 DEF Slots
<1>4. ASSUME q # <<>> PROVE \A s \in Slots : x[s] \in For(s)
  <2>1. x \in [ll : For("ll"), of : For("of"), ml : For("ml")]
    BY <1>1, <1>4 DEF build_sequences_statistics, CodesOf
  <2> HIDE DEF For
  <2> QED
    BY <2>1 DEF Slots
<1>5. q # <<>> => \A s \in Slots : b.next[s] = x[s].next
  BY <1>3
<1>6. q = <<>> => \A s \in Slots : b.next[s] = st[s]
  BY <1>3
<1> HIDE DEF Entry, Stats
<1> QED
  BY <1>1, <1>2, <1>4, <1>5, <1>6 DEF Slots, Parts

\* Whatever choices are made for a block, or a partition of it: the decoder, holding the
\* tables the encoder thinks it holds, reads the codes and the literals, and holds
\* afterwards what the encoder thinks.
THEOREM BodyServes ==
    ASSUME NEW strat, strat.by_cost \in BOOLEAN, NEW st, NEW d, TablesInStep(st, d),
           TablesCover(strat, st), NEW q, q \in Seq(StoredSequence),
           NEW long, NEW lits, NEW symbols, symbols \subseteq LiteralSymbols, symbols # {},
           NEW stamp,
           NEW b \in entropy_compress_seq_view(strat, st, q, long, lits, symbols, stamp)
    PROVE  /\ b.body.coded = seq_to_codes(q, long) /\ b.body.literals = lits
           /\ Readable(d, b.body)
           /\ TablesInStep(b.next, TablesAfter(d, b.body))
           /\ TablesCover(strat, b.next)
           /\ DOMAIN b.next = Slots \cup {"huf"}
<1> DEFINE m == Len(q)
           coded == seq_to_codes(q, long)
           body == b.body
           lit == body.lit
           Codes(s) == CodesOf(coded, s)
<1>1. m \in Nat /\ DOMAIN q = 1 .. m /\ (m = 0 => q = <<>>) /\ (q = <<>> => m = 0)
  BY EmptySeq
<1>2. Len(coded) = m /\ DOMAIN coded = 1 .. m
  <2> HIDE DEF m
  <2> QED
    BY <1>1, ChunkCodes
<1>3. coded = <<>> <=> q = <<>>
  <2>1. CASE q = <<>>
    <3>1. DOMAIN q = {}
      BY <2>1
    <3>2. coded = <<>>
      BY <3>1 DEF seq_to_codes
    <3> QED
      BY <2>1, <3>2
  <2>2. CASE q # <<>>
    <3>1. m # 0
      BY <1>1, <2>2
    <3>2. coded # <<>>
      <4> HIDE DEF coded, m
      <4> QED
        BY <1>2, <3>1
    <3> QED
      BY <2>2, <3>2
  <2> QED
    BY <2>1, <2>2
<1>4. /\ body.coded = coded /\ body.literals = lits /\ body.symbols = symbols
      /\ lit \in compress_literals(strat, st.huf, lits, symbols, stamp)
      /\ b.next.huf = lit.next
      /\ DOMAIN b.next = Slots \cup {"huf"}
      /\ q = <<>> => \A s \in Slots : b.next[s] = st[s]
      /\ q # <<>> =>
            \A s \in Slots :
               /\ b.next[s] = body.stats[s].next
               /\ body.stats[s] \in
                     select_encoding_type(strat, s, st[s], Codes(s), Len(coded), stamp)
  <2>1. Parts(b, strat, st, q, lits, symbols, coded, stamp)
    <3> HIDE DEF m, body, lit
    <3> QED
      BY BodyParts
  <2> QED
    BY <2>1 DEF Parts
<1>5. HuffmanServes(lit, d.huf, symbols)
  <2>1. EntryInStep(st.huf, d.huf)
    BY DEF TablesInStep
  <2>2. st.huf.repeat = "valid" => LiteralSymbols \subseteq st.huf.table.syms
    BY DEF TablesCover
  <2>3. OneOrMore(symbols)
    <3>1. IsFiniteSet(symbols)
      BY BlockEncodeAssumption, FS_Subset
    <3> QED
      BY <3>1, SomeCodes
  <2> HIDE DEF lit, body
  <2> QED
    BY <1>4, <2>1, <2>2, <2>3, LiteralsServe
<1>6. ASSUME q # <<>>, NEW s \in Slots
      PROVE  Serves(body.stats[s], d[s], Codes(s), strat.by_cost, Basic[s].syms)
  <2>1. EntryInStep(st[s], d[s])
    BY DEF TablesInStep
  <2>2. ~strat.by_cost /\ st[s].repeat = "valid" => Basic[s].syms \subseteq st[s].table.syms
    BY DEF TablesCover
  <2>3. IsFiniteSet(Codes(s)) /\ Codes(s) # {}
    <3>1. m \in Nat \ {0}
      BY <1>1, <1>6
    <3> HIDE DEF m, coded, body, lit
    <3> QED
      BY <1>2, <3>1, CodesAreFinite
  <2> DEFINE codes == Codes(s)
             c == body.stats[s]
             nb == Len(coded)
  <2>4. OneOrMore(codes) /\ (Cardinality(codes) = 1 => \E x : codes = {x})
    <3>1. IsFiniteSet(codes) /\ codes # {}
      BY <2>3
    <3> HIDE DEF codes
    <3> QED
      BY <3>1, SomeCodes
  <2>5. c \in select_encoding_type(strat, s, st[s], codes, nb, stamp)
    BY <1>4, <1>6
  <2> DEFINE entry == st[s]
             held == d[s]
  <2>6. CanServe(strat, s, entry, held, codes)
    BY <2>1, <2>2, <2>4 DEF CanServe
  <2>7. c \in select_encoding_type(strat, s, entry, codes, nb, stamp)
    BY <2>5
  <2> HIDE DEF codes, c, nb, entry, held, m, coded, body, lit
  <2>8. Serves(c, held, codes, strat.by_cost, Basic[s].syms)
    BY <2>6, <2>7, ChoiceServes
  <2> QED
    BY <2>8 DEF codes, c, held
<1> HIDE DEF coded, Codes, body, lit
<1>7. HuffmanAfter(d, body) = IF lit.type = "huffman" THEN lit.table ELSE d.huf
  BY DEF HuffmanAfter, lit
<1>8. ASSUME q # <<>>, NEW s \in Slots
      PROVE  TableAfter(d, body, s) = body.stats[s].table
  <2>1. (IF body.stats[s].type = "repeat" THEN d[s] ELSE body.stats[s].table)
            = body.stats[s].table
    BY <1>6, <1>8 DEF Serves
  <2> QED
    BY <1>3, <1>4, <1>8, <2>1 DEF TableAfter
<1>9. ASSUME q = <<>>, NEW s \in Slots
      PROVE  TableAfter(d, body, s) = d[s]
  BY <1>3, <1>4, <1>9 DEF TableAfter
<1>10. Readable(d, body)
  <2>1. lit.type # "plain" =>
            HuffmanAfter(d, body) = lit.table /\ body.symbols \subseteq lit.table.syms
    BY <1>4, <1>5, <1>7 DEF HuffmanServes
  <2>2. ASSUME body.coded # <<>>, NEW s \in Slots
        PROVE  /\ TableAfter(d, body, s) = body.stats[s].table
               /\ \A k \in DOMAIN body.coded : body.coded[k][s] \in body.stats[s].table.syms
    <3>1. q # <<>> /\ body.coded = coded
      BY <1>3, <1>4, <2>2
    <3>2. Codes(s) \subseteq body.stats[s].table.syms
      BY <1>6, <3>1 DEF Serves
    <3>3. \A k \in DOMAIN coded : coded[k][s] \in Codes(s)
      BY DEF Codes, CodesOf
    <3> QED
      BY <1>8, <3>1, <3>2, <3>3
  <2> QED
    BY <2>1, <2>2 DEF Readable, lit
<1>11. ASSUME NEW s \in Slots
       PROVE  /\ EntryInStep(b.next[s], TableAfter(d, body, s))
              /\ ~strat.by_cost /\ b.next[s].repeat = "valid" =>
                    Basic[s].syms \subseteq b.next[s].table.syms
  <2>1. CASE q = <<>>
    BY <1>4, <1>9, <2>1 DEF TablesInStep, TablesCover
  <2>2. CASE q # <<>>
    <3>1. Serves(body.stats[s], d[s], Codes(s), strat.by_cost, Basic[s].syms)
      BY <1>6, <2>2
    <3>2. b.next[s] = body.stats[s].next /\ TableAfter(d, body, s) = body.stats[s].table
      BY <1>4, <1>8, <2>2
    <3> QED
      BY <3>1, <3>2 DEF Serves
  <2> QED
    BY <2>1, <2>2
<1>12. /\ EntryInStep(b.next.huf, HuffmanAfter(d, body))
       /\ b.next.huf.repeat = "valid" => LiteralSymbols \subseteq b.next.huf.table.syms
  BY <1>4, <1>5, <1>7 DEF HuffmanServes
<1>13. TablesInStep(b.next, TablesAfter(d, body))
  <2>1. /\ TablesAfter(d, body).huf = HuffmanAfter(d, body)
        /\ \A s \in Slots : TablesAfter(d, body)[s] = TableAfter(d, body, s)
    BY DEF TablesAfter, Slots
  <2> QED
    BY <1>11, <1>12, <2>1 DEF TablesInStep
<1>14. TablesCover(strat, b.next)
  BY <1>11, <1>12 DEF TablesCover
<1> QED
  BY <1>4, <1>10, <1>13, <1>14 DEF body, coded


-----------------------------------------------------------------------------
(* The invariant.                                                          *)

\* While a block is at work it is one of the parses, found with the history rep.
BlockParsed ==
    /\ \E p \in Parses :
          block.n = p.n /\ block.seqs = p.seqs /\ block.store = StoreOf(p.seqs, p.n)
    /\ block.offsets = OffsetsOf(rep, block.seqs)
    /\ block.next_rep = AfterParse(rep, block.seqs)
    /\ \A k \in 1 .. Len(block.seqs) : block.offsets[k] \in Offsets

\* Cuts are made from the left, each in front of some sequence.
CutsInOrder ==
    /\ cuts \in Seq(Nat)
    /\ \A i \in 1 .. Len(cuts) : cuts[i] < nb_seq
    /\ \A i \in 1 .. Len(cuts) - 1 : cuts[i] <= cuts[i + 1]

LookedAt == IF cuts = <<>> THEN 0 ELSE cuts[Len(cuts)]

Splitting ==
    /\ CutsInOrder
    /\ todo \in Seq(Nat) /\ Len(todo) >= 2
    /\ todo[1] = LookedAt /\ todo[Len(todo)] = nb_seq
    /\ \A i \in 2 .. Len(todo) - 1 : todo[i] < nb_seq
    /\ \A i \in 1 .. Len(todo) - 1 : todo[i] <= todo[i + 1]

\* The sequences in front of the partition are out: both histories, and what the
\* decoder has read, stand there.
Began == IF part = 0 THEN 0 ELSE cuts[part]
Ends  == IF last_partition THEN nb_seq ELSE cuts[part + 1]

Partitioned ==
    /\ CutsInOrder
    /\ part \in 0 .. Len(cuts)
    /\ ~whole => c_rep = HistoryAlong(rep, block.seqs)[Began] /\ d_rep = dec.rep
    /\ whole => rep = dec.rep
    /\ ip_at = SpanTo(block.seqs, Began)
    /\ Len(read) = ip_at

\* MeantOffset, of the parse alone.
MeantAt(seqs, offsets, p) ==
    LET Match == {k \in DOMAIN seqs :
                     p > SpanTo(seqs, k) - seqs[k].match_len /\ p <= SpanTo(seqs, k)}
    IN  IF Match = {} THEN 0 ELSE offsets[CHOOSE k \in Match : TRUE]

Took(seqs, offsets, p, x) ==
    x = p \/ (MeantAt(seqs, offsets, p) > 0 /\ x = -MeantAt(seqs, offsets, p))

AllTook(bytes, seqs, offsets) ==
    /\ bytes \in Seq(Int)
    /\ \A p \in 1 .. Len(bytes) : Took(seqs, offsets, p, bytes[p])

ReadSoFar(r, at, seqs, offsets) == AllTook(r, seqs, offsets) /\ Len(r) = at

\* Each entry that may be repeated is the decoder's table, and one that is used without a
\* look at the block codes whatever a block may need.
InStep(strat, state, tables) == TablesInStep(state, tables) /\ TablesCover(strat, state)

Fixed == strategy \in Strategies /\ content_len \in Nat /\ pos \in Nat

TablesAgree == InStep(strategy, entropy, dec) /\ DOMAIN entropy = Slots \cup {"huf"}

Stages ==
    /\ pc \in {"next", "emit", "split", "part", "panicked", "done"}
    /\ pc \in {"next", "emit", "split", "done"} => rep = dec.rep
    /\ pc \in {"emit", "split", "part", "panicked"} => BlockParsed
    /\ pc = "next" => cuts = <<>>
    /\ pc \in {"emit", "split"} => read = <<>>
    /\ pc = "split" => Splitting
    /\ pc = "part" => Partitioned
    /\ pc = "done" => Len(read) = block.n

EncoderInv ==
    /\ Fixed
    /\ TablesAgree
    /\ AllTook(read, block.seqs, block.offsets)
    /\ Stages

\* A dictionary's offset table that is taken to code every offset of the first block
\* codes all that the predefined table does. The code has no such rule, and breaks
\* without it.
DictionariesReach ==
    \A dict \in Dictionaries \ {NoDict} :
        load_c_entropy(dict, BLOCK_SIZE_MAX).of.repeat = "valid" =>
            0 .. DEFAULT_MAX_OFF \subseteq dict.of.syms


-----------------------------------------------------------------------------
(* What is emitted.                                                        *)

\* No byte belongs to two matches.
LEMMA OneMatch ==
    ASSUME NEW seqs, seqs \in Seq(ParsedSequence), NEW p \in Int,
           NEW j \in 1 .. Len(seqs), NEW k \in 1 .. Len(seqs),
           p > SpanTo(seqs, j) - seqs[j].match_len, p <= SpanTo(seqs, j),
           p > SpanTo(seqs, k) - seqs[k].match_len, p <= SpanTo(seqs, k)
    PROVE  j = k
<1>1. ASSUME NEW u \in 1 .. Len(seqs), NEW v \in 1 .. Len(seqs), u < v,
             p <= SpanTo(seqs, u), p > SpanTo(seqs, v) - seqs[v].match_len
      PROVE  FALSE
  <2>1. u \in 0 .. v - 1 /\ v - 1 \in 0 .. Len(seqs) /\ u \in 0 .. Len(seqs)
    BY <1>1
  <2>2. /\ SpanTo(seqs, u) <= SpanTo(seqs, v - 1)
        /\ SpanTo(seqs, v) = SpanTo(seqs, v - 1) + seqs[v].lit_len + seqs[v].match_len
        /\ SpanTo(seqs, u) \in Nat /\ SpanTo(seqs, v - 1) \in Nat
        /\ seqs[v].lit_len \in Nat /\ seqs[v].match_len \in Nat
    BY <2>1, SpanFacts, ParseFields
  <2> DEFINE a == SpanTo(seqs, u)
             b == SpanTo(seqs, v - 1)
             x == seqs[v].lit_len
             y == seqs[v].match_len
             c == SpanTo(seqs, v)
  <2>3. a \in Nat /\ b \in Nat /\ x \in Nat /\ y \in Nat /\ a <= b /\ c = b + x + y
        /\ p <= a /\ p > c - y
    BY <1>1, <2>2
  <2> HIDE DEF a, b, c, x, y
  <2> QED
    BY <2>3
<1>2. j \in Int /\ k \in Int
  OBVIOUS
<1>3. ~(j < k) /\ ~(k < j)
  BY <1>1
<1> QED
  BY <1>2, <1>3

\* The offsets of a parse are the heads of the match finder's history.
OffsetsAre(seqs, offsets, H) ==
    \A j \in 1 .. Len(seqs) : offsets[j] = H[j][1] /\ offsets[j] \in Offsets

LEMMA MeantIsTook ==
    ASSUME NEW seqs, seqs \in Seq(ParsedSequence), NEW H, NEW offsets,
           OffsetsAre(seqs, offsets, H),
           NEW p \in Int, NEW x, Meant(seqs, H, p, x)
    PROVE  Took(seqs, offsets, p, x)
<1> DEFINE In(k) == p > SpanTo(seqs, k) - seqs[k].match_len /\ p <= SpanTo(seqs, k)
           Match == {k \in DOMAIN seqs : In(k)}
           c == CHOOSE k \in Match : TRUE
<1>0. DOMAIN seqs = 1 .. Len(seqs)
  OBVIOUS
<1>1. CASE x = p
  BY <1>1 DEF Took
<1>2. ASSUME NEW j \in 1 .. Len(seqs), In(j), x = -H[j][1] PROVE Took(seqs, offsets, p, x)
  <2>1. j \in Match
    BY <1>0, <1>2
  <2>2. c \in Match
    BY <2>1
  <2>3. c = j
    <3>1. c \in 1 .. Len(seqs) /\ In(c)
      BY <1>0, <2>2
    <3> HIDE DEF c
    <3> QED
      BY <1>2, <3>1, OneMatch
  <2>4. MeantAt(seqs, offsets, p) = offsets[c]
    BY <2>1 DEF MeantAt
  <2>5. offsets[j] = H[j][1] /\ offsets[j] \in Nat /\ offsets[j] > 0
    BY DEF Offsets, OffsetsAre
  <2> HIDE DEF c
  <2> QED
    BY <1>2, <2>3, <2>4, <2>5 DEF Took
<1> QED
  BY <1>1, <1>2 DEF Meant

\* The block at work.
LEMMA AtWork ==
    ASSUME BlockParsed
    PROVE  /\ GoodParse(block.seqs, block.n)
           /\ StoreHolds(block.store, block.seqs, block.n)
           /\ block.seqs \in Seq(ParsedSequence) /\ Len(block.seqs) \in Nat
           /\ nb_seq = Len(block.seqs) /\ block.n \in Nat
           /\ OffsetsAre(block.seqs, block.offsets, HistoryAlong(rep, block.seqs))
           /\ block.next_rep = HistoryAlong(rep, block.seqs)[Len(block.seqs)]
<1>1. PICK p \in Parses :
         block.n = p.n /\ block.seqs = p.seqs /\ block.store = StoreOf(p.seqs, p.n)
  BY DEF BlockParsed
<1>2. GoodParse(block.seqs, block.n)
  BY <1>1, ParsesAreGood
<1>3. StoreHolds(block.store, block.seqs, block.n)
  BY <1>1, <1>2, StoreIsWhole
<1>4. block.seqs \in Seq(ParsedSequence) /\ block.n \in Nat
  BY <1>2 DEF GoodParse
<1>5. Len(block.seqs) \in Nat /\ DOMAIN block.seqs = 1 .. Len(block.seqs)
  BY <1>4
<1>6. nb_seq = Len(block.seqs)
  BY <1>3 DEF nb_seq, StoreHolds, HoldsSequences
<1>7. OffsetsAre(block.seqs, block.offsets, HistoryAlong(rep, block.seqs))
  BY <1>5 DEF BlockParsed, OffsetsOf, OffsetsAre
<1>8. block.next_rep = HistoryAlong(rep, block.seqs)[Len(block.seqs)]
  BY DEF BlockParsed, AfterParse
<1> QED
  BY <1>2, <1>3, <1>4, <1>5, <1>6, <1>7, <1>8

LEMMA TookGoesOn ==
    ASSUME NEW seqs, seqs \in Seq(ParsedSequence), NEW H, NEW offsets,
           OffsetsAre(seqs, offsets, H),
           NEW a, AllTook(a, seqs, offsets), NEW b, Right(b, Len(a), seqs, H)
    PROVE  AllTook(a \o b, seqs, offsets) /\ Len(a \o b) = Len(a) + Len(b)
<1> DEFINE c == a \o b
           Good(p, x) == Took(seqs, offsets, p, x)
<1>1. /\ a \in Seq(Int) /\ b \in Seq(Int)
      /\ \A i \in 1 .. Len(a) : Good(i, a[i])
  BY DEF AllTook, Right
<1>2. \A i \in 1 .. Len(b) : Good(Len(a) + i, b[i])
  <2> TAKE i \in 1 .. Len(b)
  <2>1. Meant(seqs, H, Len(a) + i, b[i]) /\ Len(a) + i \in Int
    BY <1>1 DEF Right
  <2> DEFINE p == Len(a) + i
             x == b[i]
  <2>2. Meant(seqs, H, p, x) /\ p \in Int
    BY <2>1
  <2> HIDE DEF p, x
  <2>3. Took(seqs, offsets, p, x)
    BY <2>2, MeantIsTook
  <2> QED
    BY <2>3 DEF p, x
<1>3. /\ c \in Seq(Int) /\ Len(c) = Len(a) + Len(b)
      /\ \A i \in 1 .. Len(a) + Len(b) : c[i] = IF i <= Len(a) THEN a[i] ELSE b[i - Len(a)]
  BY <1>1, ConcatProperties
<1>4. Len(a) \in Nat /\ Len(b) \in Nat
  BY <1>1
<1> HIDE DEF c, Good
<1>5. ASSUME NEW i \in 1 .. Len(c) PROVE Good(i, c[i])
  <2>1. CASE i <= Len(a)
    <3>1. i \in 1 .. Len(a) /\ i \in 1 .. Len(a) + Len(b)
      BY <1>3, <1>4, <2>1
    <3>2. c[i] = a[i]
      BY <1>3, <2>1, <3>1
    <3> QED
      BY <1>1, <3>1, <3>2
  <2>2. CASE i > Len(a)
    <3>1. i - Len(a) \in 1 .. Len(b) /\ Len(a) + (i - Len(a)) = i
      BY <1>3, <1>4, <2>2
    <3>2. c[i] = b[i - Len(a)]
      BY <1>3, <1>4, <2>2
    <3>3. Good(Len(a) + (i - Len(a)), b[i - Len(a)])
      BY <1>2, <3>1
    <3> QED
      BY <3>1, <3>2, <3>3
  <2> QED
    BY <1>3, <1>4, <2>1, <2>2
<1> QED
  BY <1>3, <1>5 DEF AllTook, c, Good

\* A raw or RLE block gives the decoder the bytes themselves.
LEMMA CopiedOut ==
    ASSUME NEW seqs, NEW offsets, NEW first \in Nat, NEW last \in Nat, first <= last,
           ReadSoFar(read, first, seqs, offsets), DecodeCopied(first, last)
    PROVE  ReadSoFar(read', last, seqs, offsets) /\ dec' = dec
<1> DEFINE more == [k \in 1 .. last - first |-> first + k]
           r == read
           new == r \o more
           Good(p, x) == Took(seqs, offsets, p, x)
<1>0. read' = new /\ dec' = dec
  BY DEF DecodeCopied
<1>1. /\ r \in Seq(Int) /\ Len(r) = first
      /\ \A i \in 1 .. Len(r) : Good(i, r[i])
  BY DEF ReadSoFar, AllTook
<1>2. more \in Seq(Int) /\ Len(more) = last - first
      /\ \A i \in 1 .. last - first : more[i] = first + i
  OBVIOUS
<1> HIDE DEF more, r
<1>3. /\ new \in Seq(Int) /\ Len(new) = first + (last - first)
      /\ \A i \in 1 .. first + (last - first) :
            new[i] = IF i <= first THEN r[i] ELSE more[i - first]
  <2>1. /\ new \in Seq(Int) /\ Len(new) = Len(r) + Len(more)
        /\ \A i \in 1 .. Len(r) + Len(more) :
              new[i] = IF i <= Len(r) THEN r[i] ELSE more[i - Len(r)]
    BY <1>1, <1>2, ConcatProperties
  <2> QED
    BY <1>1, <1>2, <2>1
<1>4. Len(new) = last
  BY <1>3
<1>5. \A p : Good(p, p)
  BY DEF Took
<1> HIDE DEF new, Good
<1>6. ASSUME NEW i \in 1 .. Len(new) PROVE Good(i, new[i])
  <2>0. i \in 1 .. first + (last - first)
    BY <1>3
  <2>1. CASE i <= first
    BY <1>1, <1>3, <2>0, <2>1
  <2>2. CASE i > first
    <3>1. i - first \in 1 .. last - first /\ first + (i - first) = i
      BY <2>0, <2>2
    <3>2. new[i] = more[i - first]
      BY <1>3, <2>0, <2>2
    <3>3. more[i - first] = first + (i - first)
      BY <1>2, <3>1
    <3>4. new[i] = i
      BY <3>1, <3>2, <3>3
    <3> QED
      BY <1>5, <3>4
  <2> QED
    BY <2>0, <2>1, <2>2
<1>7. AllTook(new, seqs, offsets)
  BY <1>3, <1>6 DEF AllTook, Good
<1> QED
  BY <1>0, <1>4, <1>7 DEF ReadSoFar

LEMMA CostIsKnown == \A s \in Strategies : s.by_cost \in BOOLEAN
<1>1. ASSUME NEW s \in StrategyKinds PROVE s.by_cost \in BOOLEAN
  <2>1. \/ s = [by_cost |-> FALSE, plain_literals |-> TRUE,  splitter |-> FALSE]
        \/ s = [by_cost |-> FALSE, plain_literals |-> FALSE, splitter |-> FALSE]
        \/ s = [by_cost |-> TRUE,  plain_literals |-> FALSE, splitter |-> FALSE]
        \/ s = [by_cost |-> TRUE,  plain_literals |-> FALSE, splitter |-> TRUE]
    BY Zenon DEF StrategyKinds
  <2>2. s.by_cost = FALSE \/ s.by_cost = TRUE
    BY <2>1
  <2> QED
    BY <2>2
<1> QED
  BY <1>1, BlockEncodeAssumption

\* What is known of a chunk before its body is made, and of the two sides after it.
ToCode(seqs, n, store, H, offsets, f, l, q, D) ==
    /\ GoodParse(seqs, n) /\ StoreHolds(store, seqs, n) /\ OffsetsAre(seqs, offsets, H)
    /\ Rewritten(q, D, store, seqs, H, f, l)

EndsAt(l, seqs, n) == IF l = Len(seqs) THEN n ELSE SpanTo(seqs, l)

LEMMA ChunkOut ==
    ASSUME NEW seqs, NEW n, NEW store, NEW H, NEW offsets, NEW l \in 0 .. Len(seqs),
           NEW f \in 0 .. l, NEW q, NEW D, ToCode(seqs, n, store, H, offsets, f, l, q, D),
           NEW r, ReadSoFar(r, SpanTo(seqs, f), seqs, offsets),
           NEW d, d.rep = D[0], NEW body,
           body.coded = seq_to_codes(q, MarkerOf(store, f, l)),
           body.literals = derive_chunk(store, f, l).literals
    PROVE  /\ ReadSoFar(r \o Regenerated(body, d).out, EndsAt(l, seqs, n), seqs, offsets)
           /\ Regenerated(body, d).rep = D[l - f]
<1> DEFINE out == Regenerated(body, d).out
           at == SpanTo(seqs, f)
           end == EndsAt(l, seqs, n)
<1>1. /\ GoodParse(seqs, n) /\ StoreHolds(store, seqs, n) /\ OffsetsAre(seqs, offsets, H)
      /\ Rewritten(q, D, store, seqs, H, f, l)
  BY DEF ToCode
<1>2. seqs \in Seq(ParsedSequence) /\ n \in Nat
  BY <1>1 DEF GoodParse
<1>3. \A j \in 1 .. Len(seqs) : H[j][1] \in Offsets
  BY <1>1 DEF OffsetsAre
<1>4. Regenerated(body, d).rep = D[l - f] /\ Whole(Regenerated(body, d).out, seqs, n, H, f, l)
  <2>1. ChunkToRead(seqs, n, store, f, l, H, q, D, body, d)
    BY <1>1, <1>3 DEF ChunkToRead, ChunkIn
  <2> HIDE DEF out, at, end
  <2> QED
    BY <2>1, ChunkIsRead
<1>5. Right(out, at, seqs, H) /\ Len(out) = end - at
  BY <1>4 DEF Whole, EndsAt
<1>6. AllTook(r, seqs, offsets) /\ Len(r) = at
  BY DEF ReadSoFar
<1>7. at \in Nat /\ end \in Nat
  <2>1. Len(seqs) \in Nat
    BY <1>2
  <2>2. f \in 0 .. Len(seqs)
    BY <2>1
  <2>3. SpanTo(seqs, f) \in Nat /\ SpanTo(seqs, l) \in Nat
    BY <1>2, <2>2, SpanFacts
  <2> QED
    BY <1>2, <2>3 DEF EndsAt
<1> HIDE DEF out, at, end
<1>8. AllTook(r \o out, seqs, offsets) /\ Len(r \o out) = Len(r) + Len(out)
  BY <1>1, <1>2, <1>5, <1>6, TookGoesOn
<1>9. Len(r \o out) = end
  BY <1>5, <1>6, <1>7, <1>8
<1>10. ReadSoFar(r \o out, end, seqs, offsets)
  BY <1>8, <1>9 DEF ReadSoFar
<1> QED
  BY <1>4, <1>10 DEF out, end

LEMMA BodyOut ==
    ASSUME NEW strat \in Strategies, NEW st, NEW d, InStep(strat, st, d),
           NEW q, q \in Seq(StoredSequence), NEW mark, NEW lits, NEW a \in Alphabets, NEW stamp,
           NEW b \in entropy_compress_seq_view(strat, st, q, mark, lits, a, stamp)
    PROVE  /\ b.body.coded = seq_to_codes(q, mark) /\ b.body.literals = lits
           /\ Readable(d, b.body)
           /\ InStep(strat, b.next, TablesAfter(d, b.body))
           /\ DOMAIN b.next = Slots \cup {"huf"}
<1>1. strat.by_cost \in BOOLEAN
  BY CostIsKnown
<1>2. TablesInStep(st, d) /\ TablesCover(strat, st)
  BY DEF InStep
<1>3. a \subseteq LiteralSymbols /\ a # {}
  BY BlockEncodeAssumption
<1> QED
  BY <1>1, <1>2, <1>3, BodyServes DEF InStep

\* A body gives the decoder the bytes that the sequences mean, and the offsets and tables
\* that the encoder goes on with.
LEMMA CompressedOut ==
    ASSUME NEW seqs, NEW n, NEW store, NEW H, NEW offsets, NEW l \in 0 .. Len(seqs),
           NEW f \in 0 .. l, NEW q, NEW D, ToCode(seqs, n, store, H, offsets, f, l, q, D),
           ReadSoFar(read, SpanTo(seqs, f), seqs, offsets), dec.rep = D[0],
           NEW strat \in Strategies, NEW st, InStep(strat, st, dec),
           NEW a \in Alphabets, NEW stamp,
           NEW b \in entropy_compress_seq_view(strat, st, q, MarkerOf(store, f, l),
                         derive_chunk(store, f, l).literals, a, stamp),
           DecodeCompressed(b.body)
    PROVE  /\ ReadSoFar(read', EndsAt(l, seqs, n), seqs, offsets)
           /\ dec'.rep = D[l - f]
           /\ DOMAIN b.next = Slots \cup {"huf"}
           /\ InStep(strat, b.next, dec')
<1> DEFINE d == dec
           r == read
           mark == MarkerOf(store, f, l)
           lits == derive_chunk(store, f, l).literals
           body == b.body
           d1 == dec'
           r1 == read'
           seen == Regenerated(body, d)
           t == TablesAfter(d, body)
<1>1. q \in Seq(StoredSequence)
  BY DEF ToCode, Rewritten
<1>2. /\ InStep(strat, st, d)
      /\ b \in entropy_compress_seq_view(strat, st, q, mark, lits, a, stamp)
      /\ ReadSoFar(r, SpanTo(seqs, f), seqs, offsets) /\ d.rep = D[0]
      /\ mark = MarkerOf(store, f, l) /\ lits = derive_chunk(store, f, l).literals
  OBVIOUS
<1>3. /\ Readable(d, body) =>
            /\ r1 = r \o seen.out
            /\ d1 = DecoderWith(seen.rep, t)
  BY DEF DecodeCompressed
<1> HIDE DEF d, r, mark, lits, d1, r1
<1>4. /\ body.coded = seq_to_codes(q, mark) /\ body.literals = lits /\ Readable(d, body)
      /\ InStep(strat, b.next, t) /\ DOMAIN b.next = Slots \cup {"huf"}
  BY <1>1, <1>2, BodyOut
<1> HIDE DEF body, seen
<1>5. ReadSoFar(r \o seen.out, EndsAt(l, seqs, n), seqs, offsets) /\ seen.rep = D[l - f]
  <2>1. body.coded = seq_to_codes(q, MarkerOf(store, f, l))
        /\ body.literals = derive_chunk(store, f, l).literals
    BY <1>2, <1>4
  <2> QED
    BY <1>2, <2>1, ChunkOut DEF seen
<1> HIDE DEF t
<1>6. d1.rep = seen.rep /\ InStep(strat, b.next, d1)
  <2>1. d1 = [rep |-> seen.rep, ll |-> t.ll, of |-> t.of, ml |-> t.ml, huf |-> t.huf]
    BY <1>3, <1>4 DEF DecoderWith
  <2>2. TablesInStep(b.next, t) /\ TablesCover(strat, b.next)
    BY <1>4 DEF InStep
  <2>3. d1.rep = seen.rep /\ \A s \in Slots \cup {"huf"} : d1[s] = t[s]
    BY <2>1 DEF Slots
  <2>4. TablesInStep(b.next, d1)
    BY <2>2, <2>3 DEF TablesInStep
  <2> QED
    BY <2>2, <2>3, <2>4 DEF InStep
<1> QED
  BY <1>3, <1>4, <1>5, <1>6 DEF d1, r1, body


-----------------------------------------------------------------------------
(* The steps.                                                              *)

\* What is at work, seen as one parse.
Parse(H, f, l, q, D) ==
    ToCode(block.seqs, block.n, block.store, H, block.offsets, f, l, q, D)

LEMMA WholeParse ==
    ASSUME BlockParsed
    PROVE  LET H == HistoryAlong(rep, block.seqs)
               N == Len(block.seqs)
           IN  /\ Parse(H, 0, N, block.store.sequences, H)
               /\ Parse(H, 0, N, SubSeq(block.store.sequences, 1, N), H)
               /\ H[0] = rep /\ H[N] = block.next_rep
               /\ Len(block.store.sequences) = N /\ N \in Nat
               /\ block.n \in Nat /\ SpanTo(block.seqs, 0) = 0
<1> DEFINE seqs == block.seqs
           n == block.n
           store == block.store
           start == rep
           H == HistoryAlong(start, seqs)
           N == Len(seqs)
           q == store.sequences
<1>1. /\ GoodParse(seqs, n) /\ StoreHolds(store, seqs, n)
      /\ seqs \in Seq(ParsedSequence) /\ N \in Nat
      /\ n \in Nat /\ OffsetsAre(seqs, block.offsets, H)
      /\ block.next_rep = H[N]
  BY AtWork
<1>2. q \in Seq(StoredSequence) /\ Len(q) = N
  BY <1>1 DEF StoreHolds, HoldsSequences
<1>3. SubSeq(q, 1, N) = q
  <2> HIDE DEF q, N
  <2> QED
    BY <1>2, SubSeqFull
<1>4. Rewritten(SubSeq(q, 1, N), H, store, seqs, H, 0, N)
  <2> HIDE DEF seqs, store, n, start
  <2> QED
    BY <1>1, StoreIsRewritten
<1>5. H[0] = rep
  BY <1>1, HistoryUnfold
<1>6. SpanTo(seqs, 0) = 0
  BY <1>1, SpanFacts
<1> QED
  BY <1>1, <1>2, <1>3, <1>4, <1>5, <1>6 DEF Parse, ToCode

LEMMA SomeBody ==
    ASSUME NEW state, NEW f, NEW l, NEW q,
           NEW b \in Bodies(state, derive_chunk(block.store, f, l), q)
    PROVE  \E a \in Alphabets :
              b \in entropy_compress_seq_view(strategy, state, q, MarkerOf(block.store, f, l),
                        derive_chunk(block.store, f, l).literals, a, Stamp)
<1> DEFINE c == derive_chunk(block.store, f, l)
<1>1. c.long = MarkerOf(block.store, f, l)
  BY DEF derive_chunk
<1> HIDE DEF c
<1>2. \E a \in Alphabets :
         b \in entropy_compress_seq_view(strategy, state, q, c.long, c.literals, a, Stamp)
  BY DEF Bodies, c
<1> QED
  BY <1>1, <1>2 DEF c

\* A body of the sequences behind f, as far as l, for the decoder that has those before.
NextPiece(H, D, q, f, l, b) ==
    /\ l \in 0 .. Len(block.seqs) /\ f \in 0 .. l /\ Parse(H, f, l, q, D)
    /\ ReadSoFar(read, SpanTo(block.seqs, f), block.seqs, block.offsets) /\ dec.rep = D[0]
    /\ b \in Bodies(entropy, derive_chunk(block.store, f, l), q)

LEMMA PieceOut ==
    ASSUME Fixed, TablesAgree, NEW H, NEW D, NEW q, NEW f, NEW l, NEW b,
           NextPiece(H, D, q, f, l, b), DecodeCompressed(b.body)
    PROVE  /\ ReadSoFar(read', EndsAt(l, block.seqs, block.n), block.seqs, block.offsets)
           /\ dec'.rep = D[l - f]
           /\ DOMAIN b.next = Slots \cup {"huf"}
           /\ InStep(strategy, b.next, dec')
<1>p. /\ l \in 0 .. Len(block.seqs) /\ f \in 0 .. l /\ Parse(H, f, l, q, D)
      /\ ReadSoFar(read, SpanTo(block.seqs, f), block.seqs, block.offsets)
      /\ dec.rep = D[0] /\ b \in Bodies(entropy, derive_chunk(block.store, f, l), q)
  BY DEF NextPiece
<1> USE <1>p
<1>1. PICK a \in Alphabets :
          b \in entropy_compress_seq_view(strategy, entropy, q, MarkerOf(block.store, f, l),
                    derive_chunk(block.store, f, l).literals, a, Stamp)
  BY SomeBody
<1>2. strategy \in Strategies /\ InStep(strategy, entropy, dec)
  BY DEF Fixed, TablesAgree
<1> DEFINE seqs == block.seqs
           n == block.n
           store == block.store
           offsets == block.offsets
           strat == strategy
           st == entropy
           stamp == Stamp
<1>3. /\ ToCode(seqs, n, store, H, offsets, f, l, q, D)
      /\ ReadSoFar(read, SpanTo(seqs, f), seqs, offsets)
      /\ strat \in Strategies /\ InStep(strat, st, dec)
      /\ b \in entropy_compress_seq_view(strat, st, q, MarkerOf(store, f, l),
                   derive_chunk(store, f, l).literals, a, stamp)
      /\ l \in 0 .. Len(seqs)
  BY <1>1, <1>2 DEF Parse
<1> HIDE DEF seqs, n, store, offsets, strat, st, stamp
<1>4. /\ ReadSoFar(read', EndsAt(l, seqs, n), seqs, offsets)
      /\ dec'.rep = D[l - f]
      /\ DOMAIN b.next = Slots \cup {"huf"}
      /\ InStep(strat, b.next, dec')
  BY <1>3, CompressedOut, ZenonT(60)
<1> QED
  BY <1>4 DEF seqs, n, offsets, strat


LEMMA TablesAfterwards ==
    ASSUME NEW st, DOMAIN st = Slots \cup {"huf"}, NEW strat, NEW d, InStep(strat, st, d)
    PROVE  DOMAIN demoted(st) = Slots \cup {"huf"} /\ InStep(strat, demoted(st), d)
<1> DEFINE new == demoted(st)
<1>1. CASE st.of.repeat # "valid"
  BY <1>1 DEF demoted
<1>2. CASE st.of.repeat = "valid"
  <2>1. new = [st EXCEPT !.of.repeat = "check"]
    BY <1>2 DEF demoted
  <2>2. "of" \in DOMAIN st /\ "of" \in Slots /\ "huf" # "of" /\ "huf" \notin Slots
    BY DEF Slots
  <2>3. /\ DOMAIN new = DOMAIN st
        /\ \A s \in DOMAIN st : s # "of" => new[s] = st[s]
        /\ new["of"] = [st["of"] EXCEPT !.repeat = "check"]
    BY <2>1, <2>2
  <2>4. new["of"].table = st["of"].table /\ st["of"].repeat # "none"
    BY <1>2, <2>3
  <2>5. new["of"].repeat # "valid"
    BY <1>2, <2>3
  <2> HIDE DEF new
  <2>6. TablesInStep(st, d) /\ TablesCover(strat, st)
    BY DEF InStep
  <2>7. TablesInStep(new, d)
    <3> SUFFICES ASSUME NEW s \in Slots \cup {"huf"} PROVE EntryInStep(new[s], d[s])
      BY DEF TablesInStep
    <3>1. EntryInStep(st[s], d[s])
      BY <2>6 DEF TablesInStep
    <3>2. CASE s # "of"
      BY <2>3, <3>1, <3>2
    <3>3. CASE s = "of"
      BY <2>4, <3>1, <3>3 DEF EntryInStep
    <3> QED
      BY <3>2, <3>3
  <2>8. new["huf"] = st["huf"]
    BY <2>2, <2>3
  <2>9. ASSUME NEW s \in Slots, ~strat.by_cost, new[s].repeat = "valid"
        PROVE  Basic[s].syms \subseteq new[s].table.syms
    <3>1. s # "of"
      BY <2>5, <2>9
    <3>2. new[s] = st[s]
      BY <2>3, <3>1
    <3> QED
      BY <2>6, <2>9, <3>2 DEF TablesCover
  <2>10. TablesCover(strat, new)
    BY <2>6, <2>8, <2>9 DEF TablesCover
  <2> QED
    BY <2>3, <2>7, <2>10 DEF new, InStep
<1> QED
  BY <1>1, <1>2

\* The partition at work: sequences Began + 1 .. Ends, and their bytes.
LEMMA AtPart ==
    ASSUME BlockParsed, Partitioned
    PROVE  /\ Began \in Nat /\ Ends \in Nat /\ Began <= Ends /\ Ends <= Len(block.seqs)
           /\ last_partition => Ends = Len(block.seqs)
           /\ ~last_partition => Ends = cuts[part + 1] /\ part + 1 \in 0 .. Len(cuts)
           /\ chunk = derive_chunk(block.store, Began, Ends)
           /\ ip_at = SpanTo(block.seqs, Began) /\ ip_at \in Nat
           /\ ip_at + src_bytes = EndsAt(Ends, block.seqs, block.n)
           /\ ip_at + src_bytes \in Nat /\ ip_at <= ip_at + src_bytes
           /\ ~last_partition => ip_at + src_bytes = SpanTo(block.seqs, Ends)
<1> DEFINE seqs == block.seqs
           n == block.n
           store == block.store
           N == Len(seqs)
<1>1. /\ GoodParse(seqs, n) /\ StoreHolds(store, seqs, n)
      /\ seqs \in Seq(ParsedSequence) /\ N \in Nat
      /\ nb_seq = N /\ n \in Nat /\ SpanTo(seqs, N) <= n
  BY AtWork DEF GoodParse
<1>2. /\ cuts \in Seq(Nat) /\ Len(cuts) \in Nat
      /\ \A i \in 1 .. Len(cuts) : cuts[i] < N /\ cuts[i] \in Nat
      /\ \A i \in 1 .. Len(cuts) - 1 : cuts[i] <= cuts[i + 1]
      /\ part \in 0 .. Len(cuts) /\ ip_at = SpanTo(seqs, Began)
  <2>1. cuts \in Seq(Nat)
    BY DEF Partitioned, CutsInOrder
  <2> QED
    BY <1>1, <2>1 DEF Partitioned, CutsInOrder
<1>3. Began \in Nat /\ Began <= N
  BY <1>1, <1>2 DEF Began
<1>4. last_partition => Ends = N
  BY <1>1 DEF Ends
<1>5. ~last_partition =>
         Ends = cuts[part + 1] /\ part + 1 \in 1 .. Len(cuts) /\ Ends \in Nat /\ Ends < N
  BY <1>1, <1>2 DEF Ends, last_partition
<1>6. Began <= Ends
  <2>1. CASE last_partition
    BY <1>3, <1>4, <2>1
  <2>2. CASE ~last_partition /\ part = 0
    BY <1>5, <2>2 DEF Began
  <2>3. CASE ~last_partition /\ part # 0
    <3>1. part \in 1 .. Len(cuts) - 1
      BY <1>2, <1>5, <2>3
    <3> QED
      BY <1>2, <1>5, <2>3, <3>1 DEF Began
  <2> QED
    BY <2>1, <2>2, <2>3
<1>7. chunk = derive_chunk(store, Began, Ends)
  BY DEF chunk, Began, Ends
<1>8. Ends \in Nat /\ Ends <= N
  BY <1>1, <1>4, <1>5
<1> DEFINE f == Began
           l == Ends
           at == SpanTo(seqs, f)
           to == SpanTo(seqs, l)
<1> HIDE DEF seqs, n, store, N, f, l
<1>9. l \in 0 .. N /\ f \in 0 .. l /\ f \in 0 .. N /\ N \in 0 .. N
  BY <1>1, <1>3, <1>6, <1>8 DEF f, l
<1>10. at \in Nat /\ to \in Nat /\ at <= to /\ to <= SpanTo(seqs, N)
  BY <1>1, <1>9, SpanFacts DEF N
<1>11. CASE last_partition
  <2>1. src_bytes = n - ip_at /\ EndsAt(l, seqs, n) = n
    BY <1>4, <1>11 DEF src_bytes, EndsAt, l, N, n
  <2>2. SpanTo(seqs, N) \in Nat
    BY <1>1, <1>9, SpanFacts DEF N
  <2>3. ip_at = at
    BY <1>2 DEF f
  <2> DEFINE sb == src_bytes
             e == EndsAt(l, seqs, n)
  <2>4. sb = n - ip_at /\ e = n
    BY <2>1
  <2> HIDE DEF at, to, sb, e
  <2>5. ip_at + sb = e /\ ip_at + sb \in Nat /\ ip_at <= ip_at + sb /\ ip_at \in Nat
    BY <1>1, <1>10, <2>2, <2>3, <2>4
  <2> QED
    BY <1>2, <1>3, <1>4, <1>6, <1>7, <1>8, <1>11, <2>5 DEF sb, e, l, f, seqs, n, N, store
<1>12. CASE ~last_partition
  <2>1. src_bytes = count_literals_bytes(store, f, l) + count_match_bytes(store, f, l)
    <3> DEFINE c == derive_chunk(store, f, l)
    <3>1. c.first = f /\ c.last = l
      BY DEF derive_chunk
    <3>2. chunk = c
      BY <1>7 DEF f, l
    <3> HIDE DEF c
    <3> QED
      BY <1>12, <3>1, <3>2 DEF src_bytes, store
  <2>2. /\ count_literals_bytes(store, f, l) = LitTo(seqs, l) - LitTo(seqs, f)
        /\ count_match_bytes(store, f, l) = MatchTo(seqs, l) - MatchTo(seqs, f)
    BY <1>1, <1>9, BytesCounted DEF N
  <2>3. /\ at = LitTo(seqs, f) + MatchTo(seqs, f) /\ to = LitTo(seqs, l) + MatchTo(seqs, l)
        /\ MatchTo(seqs, f) \in Nat /\ MatchTo(seqs, l) \in Nat
    BY <1>1, <1>9, SpanIsBoth DEF N
  <2>4. LitTo(seqs, f) \in Nat /\ LitTo(seqs, l) \in Nat
    BY <1>1, <1>9, LitFacts DEF N
  <2>5. EndsAt(l, seqs, n) = to
    <3>1. l # N
      BY <1>1, <1>5, <1>12 DEF l
    <3> QED
      BY <3>1 DEF EndsAt, N
  <2>6. ip_at = at
    BY <1>2 DEF f
  <2> DEFINE sb == src_bytes
             e == EndsAt(l, seqs, n)
             w == LitTo(seqs, f)
             x == LitTo(seqs, l)
             y == MatchTo(seqs, f)
             z == MatchTo(seqs, l)
  <2>7. /\ sb = (x - w) + (z - y) /\ e = to /\ at = w + y /\ to = x + z
        /\ w \in Nat /\ x \in Nat /\ y \in Nat /\ z \in Nat
    BY <2>1, <2>2, <2>3, <2>4, <2>5
  <2> HIDE DEF at, to, sb, e, w, x, y, z
  <2>8. ip_at + sb = e /\ ip_at + sb = to /\ ip_at + sb \in Nat /\ ip_at <= ip_at + sb
        /\ ip_at \in Nat
    BY <1>10, <2>6, <2>7
  <2> QED
    BY <1>2, <1>3, <1>5, <1>6, <1>7, <1>8, <1>12, <2>8 DEF sb, e, to, l, f, seqs, n, N, store
<1> QED
  BY <1>11, <1>12


LEMMA ResolvedPart ==
    ASSUME BlockParsed, Partitioned
    PROVE  LET H == HistoryAlong(rep, block.seqs)
           IN  /\ ~whole => /\ resolved.c_rep = H[Ends]
                            /\ \E D : /\ Parse(H, Began, Ends, resolved.seqs, D)
                                      /\ D[0] = d_rep
                                      /\ resolved.d_rep = D[Ends - Began]
               /\ whole => /\ Parse(H, 0, Len(block.seqs), resolved.seqs, H)
                           /\ Began = 0 /\ Ends = Len(block.seqs) /\ last_partition
<1> DEFINE seqs == block.seqs
           n == block.n
           store == block.store
           start == rep
           H == HistoryAlong(start, seqs)
           f == Began
           l == Ends
           q == SubSeq(store.sequences, f + 1, l)
           mark == MarkerOf(store, f, l)
           r == resolved
<1>1. /\ GoodParse(seqs, n) /\ StoreHolds(store, seqs, n)
      /\ seqs \in Seq(ParsedSequence) /\ Len(seqs) \in Nat
      /\ OffsetsAre(seqs, block.offsets, H)
  BY AtWork
<1>2. /\ f \in Nat /\ l \in Nat /\ f <= l /\ l <= Len(seqs)
      /\ chunk = derive_chunk(store, f, l)
  BY AtPart
<1>3. chunk.first = f /\ chunk.last = l /\ chunk.long = mark
  BY <1>2 DEF derive_chunk
<1>4. SequencesOf(store, chunk) = q
  BY <1>3 DEF SequencesOf
<1>5. CASE ~whole
  <2>1. c_rep = H[f]
    BY <1>5 DEF Partitioned
  <2>2. r = resolve_off_codes(q, mark, d_rep, H[f])
    BY <1>3, <1>4, <1>5, <2>1 DEF resolved
  <2>3. \A j \in 1 .. Len(seqs) : H[j][1] \in Offsets
    BY <1>1 DEF OffsetsAre
  <2>4. l \in 0 .. Len(seqs) /\ f \in 0 .. l
    BY <1>1, <1>2
  <2> DEFINE d == d_rep
             K == H
  <2>5. K = HistoryAlong(start, seqs) /\ r = resolve_off_codes(q, mark, d, K[f])
        /\ (\A j \in 1 .. Len(seqs) : K[j][1] \in Offsets)
    BY <2>2, <2>3
  <2> HIDE DEF seqs, n, store, start, f, l, r, d, K
  <2>6. \E D : /\ Rewritten(r.seqs, D, store, seqs, K, f, l)
               /\ D[0] = d /\ r.d_rep = D[l - f]
               /\ r.c_rep = K[l]
    BY <1>1, <2>4, <2>5, CodesAreResolved
  <2>7. PICK D : /\ Rewritten(r.seqs, D, store, seqs, K, f, l)
                 /\ D[0] = d /\ r.d_rep = D[l - f]
                 /\ r.c_rep = K[l]
    BY <2>6
  <2>8. ToCode(seqs, n, store, K, block.offsets, f, l, r.seqs, D)
    BY <1>1, <2>7 DEF ToCode, K
  <2> QED
    BY <1>5, <2>7, <2>8 DEF Parse, seqs, n, store, start, f, l, r, d, K
<1>6. CASE whole
  <2>1. Len(cuts) = 0
    BY <1>6 DEF whole
  <2>2. part = 0
    BY <2>1 DEF Partitioned
  <2>3. f = 0 /\ last_partition
    BY <2>1, <2>2 DEF Began, last_partition
  <2>4. l = Len(seqs)
    BY <2>3, AtPart
  <2>5. r.seqs = q
    BY <1>4, <1>6 DEF resolved
  <2>6. Parse(H, 0, Len(seqs), SubSeq(store.sequences, 1, Len(seqs)), H)
    BY WholeParse
  <2>7. q = SubSeq(store.sequences, 1, Len(seqs))
    BY <2>3, <2>4
  <2> QED
    BY <1>6, <2>3, <2>4, <2>5, <2>6, <2>7
<1> QED
  BY <1>5, <1>6

\* What a partition must leave behind.
PartOut(next_rep, next_d_rep) ==
    /\ ReadSoFar(read', ip_at + src_bytes, block.seqs, block.offsets)
    /\ DOMAIN entropy' = Slots \cup {"huf"} /\ InStep(strategy, entropy', dec')
    /\ whole => next_rep = dec'.rep
    /\ ~whole => next_d_rep = dec'.rep

LEMMA PartDone ==
    ASSUME EncoderInv, pc = "part", NEW next_rep, NEW next_d_rep,
           Advance(next_rep, next_d_rep), PartOut(next_rep, next_d_rep)
    PROVE  EncoderInv'
<1>1. BlockParsed /\ Partitioned /\ Fixed
  BY DEF EncoderInv, Stages
<1>2. /\ strategy' = strategy /\ content_len' = content_len /\ block' = block /\ cuts' = cuts
      /\ todo' = todo
  BY DEF Advance
<1>3. /\ block.n \in Nat /\ block.seqs \in Seq(ParsedSequence)
      /\ nb_seq = Len(block.seqs)
  BY <1>1, AtWork
<1>4. pos' \in Nat
  BY <1>1, <1>3 DEF Advance, BlockDone, Fixed
<1>5. Fixed'
  BY <1>1, <1>2, <1>4 DEF Fixed
<1>6. TablesAgree'
  BY <1>2 DEF PartOut, TablesAgree
<1>7. AllTook(read', block'.seqs, block'.offsets) /\ Len(read') = ip_at + src_bytes
  BY <1>2 DEF PartOut, ReadSoFar
<1>8. CASE last_partition
  <2>1. pc' = "done" /\ rep' = IF whole THEN next_rep ELSE next_d_rep
    BY <1>8 DEF Advance, BlockDone
  <2>2. rep' = dec'.rep
    BY <2>1 DEF PartOut
  <2>3. ip_at + src_bytes = block.n
    BY <1>1, <1>8, AtPart DEF EndsAt
  <2>4. Stages'
    BY <1>2, <1>7, <2>1, <2>2, <2>3 DEF Stages
  <2> QED
    BY <1>5, <1>6, <1>7, <2>4 DEF EncoderInv
<1>9. CASE ~last_partition
  <2>1. /\ pc' = "part" /\ rep' = rep /\ part' = part + 1
        /\ d_rep' = next_d_rep /\ c_rep' = resolved.c_rep /\ ip_at' = ip_at + src_bytes
    BY <1>9 DEF Advance
  <2>2. BlockParsed'
    BY <1>1, <1>2, <2>1 DEF BlockParsed
  <2>3. Ends = cuts[part + 1] /\ part + 1 \in 0 .. Len(cuts)
        /\ ip_at + src_bytes = SpanTo(block.seqs, Ends)
    BY <1>1, <1>9, AtPart
  <2>4. part' # 0
    BY <1>1, <2>1 DEF Partitioned
  <2>5. Began' = Ends
    BY <1>2, <2>1, <2>3, <2>4 DEF Began
  <2>6. CutsInOrder'
    BY <1>1, <1>2 DEF Partitioned, CutsInOrder, nb_seq
  <2>7. ~whole /\ whole' = whole
    <3>1. whole => last_partition
      BY <1>1, ResolvedPart
    <3> QED
      BY <1>2, <1>9, <3>1 DEF whole
  <2>8. c_rep' = HistoryAlong(rep', block'.seqs)[Began']
    BY <1>1, <1>2, <2>1, <2>5, <2>7, ResolvedPart
  <2>9. d_rep' = dec'.rep
    BY <2>1, <2>7 DEF PartOut
  <2>10. ip_at' = SpanTo(block'.seqs, Began') /\ Len(read') = ip_at'
    BY <1>2, <1>7, <2>1, <2>3, <2>5
  <2>11. part' \in 0 .. Len(cuts')
    BY <1>2, <2>1, <2>3
  <2>12. Partitioned'
    BY <2>6, <2>7, <2>8, <2>9, <2>10, <2>11 DEF Partitioned
  <2>13. Stages'
    BY <2>1, <2>2, <2>12 DEF Stages
  <2> QED
    BY <1>5, <1>6, <1>7, <2>13 DEF EncoderInv
<1> QED
  BY <1>8, <1>9

\* A raw or RLE partition.
LEMMA CopiedPart ==
    ASSUME EncoderInv, pc = "part", PartitionCopied, Advance(rep, d_rep)
    PROVE  EncoderInv'
<1>1. BlockParsed /\ Partitioned /\ TablesAgree
  BY DEF EncoderInv, Stages
<1> DEFINE first == ip_at
           last == ip_at + src_bytes
<1>2. first \in Nat /\ last \in Nat /\ first <= last
  BY <1>1, AtPart
<1>3. ReadSoFar(read, first, block.seqs, block.offsets) /\ DecodeCopied(first, last)
  BY <1>1 DEF EncoderInv, Partitioned, ReadSoFar, PartitionCopied
<1> HIDE DEF first, last
<1>4. ReadSoFar(read', last, block.seqs, block.offsets) /\ dec' = dec
  BY <1>2, <1>3, CopiedOut
<1>5. entropy' = demoted(entropy)
  BY DEF PartitionCopied
<1>6. DOMAIN entropy' = Slots \cup {"huf"} /\ InStep(strategy, entropy', dec')
  BY <1>1, <1>4, <1>5, TablesAfterwards DEF TablesAgree
<1>7. PartOut(rep, d_rep)
  BY <1>1, <1>4, <1>6 DEF PartOut, Partitioned, last
<1> QED
  BY <1>7, PartDone

\* A compressed one.
LEMMA CompressedPart ==
    ASSUME EncoderInv, pc = "part", NEW b \in Bodies(entropy, chunk, resolved.seqs),
           DecodeCompressed(b.body), entropy' = demoted(b.next),
           Advance(block.next_rep, resolved.d_rep)
    PROVE  EncoderInv'
<1> DEFINE H == HistoryAlong(rep, block.seqs)
           f == Began
           l == Ends
           q == resolved.seqs
<1>1. BlockParsed /\ Partitioned /\ TablesAgree /\ Fixed
  BY DEF EncoderInv, Stages
<1>2. /\ f \in Nat /\ l \in Nat /\ f <= l /\ l <= Len(block.seqs) /\ Len(block.seqs) \in Nat
      /\ chunk = derive_chunk(block.store, f, l)
      /\ ip_at = SpanTo(block.seqs, f)
      /\ ip_at + src_bytes = EndsAt(l, block.seqs, block.n)
  BY <1>1, AtPart, AtWork
<1>3. \E D : /\ Parse(H, f, l, q, D) /\ D[0] = dec.rep
             /\ whole => D[l - f] = block.next_rep
             /\ ~whole => D[l - f] = resolved.d_rep
  <2>1. CASE whole
    <3>1. Parse(H, f, l, q, H) /\ f = 0 /\ l = Len(block.seqs)
      BY <1>1, <2>1, ResolvedPart
    <3>2. H[0] = dec.rep
      BY <1>1, <2>1, WholeParse DEF Partitioned
    <3>3. H[l - f] = block.next_rep
      <4>1. l - f = Len(block.seqs)
        BY <1>2, <3>1
      <4> QED
        BY <1>1, <4>1, WholeParse
    <3> QED
      BY <2>1, <3>1, <3>2, <3>3
  <2>2. CASE ~whole
    <3>1. d_rep = dec.rep
      BY <1>1, <2>2 DEF Partitioned
    <3>2. \E D : Parse(H, f, l, q, D) /\ D[0] = d_rep /\ resolved.d_rep = D[l - f]
      BY <1>1, <2>2, ResolvedPart
    <3> QED
      BY <2>2, <3>1, <3>2
  <2> QED
    BY <2>1, <2>2
<1>4. PICK D : /\ Parse(H, f, l, q, D) /\ D[0] = dec.rep
               /\ whole => D[l - f] = block.next_rep
               /\ ~whole => D[l - f] = resolved.d_rep
  BY <1>3
<1>5. ReadSoFar(read, SpanTo(block.seqs, f), block.seqs, block.offsets)
  BY <1>1, <1>2 DEF EncoderInv, Partitioned, ReadSoFar
<1>6. l \in 0 .. Len(block.seqs) /\ f \in 0 .. l
  BY <1>2
<1>7. b \in Bodies(entropy, derive_chunk(block.store, f, l), q)
  BY <1>2
<1> HIDE DEF H, f, l, q
<1>8. /\ ReadSoFar(read', EndsAt(l, block.seqs, block.n), block.seqs, block.offsets)
      /\ dec'.rep = D[l - f]
      /\ DOMAIN b.next = Slots \cup {"huf"}
      /\ InStep(strategy, b.next, dec')
  <2>1. NextPiece(H, D, q, f, l, b)
    BY <1>4, <1>5, <1>6, <1>7 DEF NextPiece
  <2>2. Fixed /\ TablesAgree /\ DecodeCompressed(b.body)
    BY <1>1
  <2> QED
    BY <2>1, <2>2, PieceOut
<1>9. DOMAIN entropy' = Slots \cup {"huf"} /\ InStep(strategy, entropy', dec')
  BY <1>8, TablesAfterwards
<1>10. PartOut(block.next_rep, resolved.d_rep)
  BY <1>2, <1>4, <1>8, <1>9 DEF PartOut
<1> QED
  BY <1>10, PartDone


LEMMA FromTheStart ==
    ASSUME DictionariesReach, Init
    PROVE  EncoderInv
<1>1. PICK dict \in Dictionaries : StartFrom(dict)
  BY DEF Init
<1>2. /\ strategy \in Strategies /\ pos = 0 /\ block = NoBlock /\ cuts = <<>>
      /\ read = <<>> /\ pc = "next"
  BY DEF Init
<1>3. dict.content_len \in Nat
  BY BlockEncodeAssumption
<1>4. Fixed
  BY <1>1, <1>2, <1>3 DEF StartFrom, Fixed
<1> DEFINE t == IF dict = NoDict THEN NoDecoderTables ELSE dict
<1>5. dec = [rep |-> rep, ll |-> t.ll, of |-> t.of, ml |-> t.ml, huf |-> t.huf]
  BY <1>1 DEF StartFrom, DecoderWith
<1>6. dec.rep = rep
  BY <1>5
<1>7. ASSUME dict = NoDict PROVE TablesAgree
  <2>1. entropy = FreshState
    BY <1>1, <1>7 DEF StartFrom
  <2>2. DOMAIN entropy = Slots \cup {"huf"}
        /\ \A s \in Slots \cup {"huf"} : entropy[s].repeat = "none"
    BY <2>1 DEF FreshState
  <2>3. InStep(strategy, entropy, dec)
    BY <2>2 DEF InStep, TablesInStep, TablesCover, EntryInStep
  <2> QED
    BY <2>2, <2>3 DEF TablesAgree
<1>8. ASSUME dict # NoDict PROVE TablesAgree
  <2> DEFINE st == load_c_entropy(dict, BLOCK_SIZE_MAX)
  <2>1. entropy = st /\ t = dict
    BY <1>1, <1>8 DEF StartFrom
  <2>2. DOMAIN st = Slots \cup {"huf"}
    BY DEF load_c_entropy, Slots
  <2>3. /\ st.ll.table = dict.ll /\ st.ml.table = dict.ml /\ st.of.table = dict.of
        /\ st.huf.table = dict.huf
        /\ st.ll.repeat = dict_ncount_repeat(dict.ll, MAX_LL)
        /\ st.ml.repeat = dict_ncount_repeat(dict.ml, MAX_ML)
        /\ st.huf.repeat = IF dict.huf.syms = LiteralSymbols THEN "valid" ELSE "check"
    BY DEF load_c_entropy
  <2>4. st.of.repeat = "valid" => 0 .. DEFAULT_MAX_OFF \subseteq dict.of.syms
    BY <1>8 DEF DictionariesReach
  <2>5. /\ Basic.ll.syms = 0 .. MAX_LL /\ Basic.ml.syms = 0 .. MAX_ML
        /\ Basic.of.syms = 0 .. DEFAULT_MAX_OFF
    BY DEF Basic
  <2>6. dec.ll = dict.ll /\ dec.of = dict.of /\ dec.ml = dict.ml /\ dec.huf = dict.huf
    BY <1>5, <2>1
  <2> HIDE DEF st
  <2>7. TablesInStep(st, dec)
    BY <2>3, <2>6 DEF TablesInStep, EntryInStep, Slots
  <2>8. /\ st.ll.repeat = "valid" => 0 .. MAX_LL \subseteq dict.ll.syms
        /\ st.ml.repeat = "valid" => 0 .. MAX_ML \subseteq dict.ml.syms
        /\ st.huf.repeat = "valid" => dict.huf.syms = LiteralSymbols
    BY <2>3 DEF dict_ncount_repeat
  <2>9. ASSUME NEW s \in Slots, st[s].repeat = "valid"
        PROVE  Basic[s].syms \subseteq st[s].table.syms
    <3>1. CASE s = "ll"
      BY <2>3, <2>5, <2>8, <2>9, <3>1
    <3>2. CASE s = "of"
      BY <2>3, <2>4, <2>5, <2>9, <3>2
    <3>3. CASE s = "ml"
      BY <2>3, <2>5, <2>8, <2>9, <3>3
    <3> QED
      BY <3>1, <3>2, <3>3 DEF Slots
  <2>10. TablesCover(strategy, st)
    BY <2>3, <2>8, <2>9 DEF TablesCover
  <2> QED
    BY <2>1, <2>2, <2>7, <2>10 DEF TablesAgree, InStep
<1>9. AllTook(read, block.seqs, block.offsets)
  BY <1>2 DEF AllTook
<1>10. Stages
  BY <1>2, <1>6 DEF Stages
<1> QED
  BY <1>4, <1>7, <1>8, <1>9, <1>10 DEF EncoderInv

LEMMA TinyBlockStep ==
    ASSUME EncoderInv, TinyBlock
    PROVE  EncoderInv'
<1>1. PICK n \in 1 .. MIN_CBLOCK - 1 :
         /\ block' = [NoBlock EXCEPT !.n = n]
         /\ read' = [k \in 1 .. n |-> k]
         /\ BlockDone(n)
  BY DEF TinyBlock
<1>2. /\ strategy' = strategy /\ content_len' = content_len /\ rep' = rep
      /\ entropy' = entropy /\ dec' = dec /\ pc = "next"
  BY DEF TinyBlock
<1>3. n \in Nat
  BY BlockEncodeAssumption
<1>4. Fixed'
  BY <1>1, <1>2, <1>3 DEF EncoderInv, Fixed, BlockDone
<1>5. TablesAgree'
  BY <1>2 DEF EncoderInv, TablesAgree
<1>6. /\ read' \in Seq(Int) /\ Len(read') = n
      /\ \A i \in 1 .. Len(read') : read'[i] = i
  BY <1>1, <1>3
<1>7. AllTook(read', block'.seqs, block'.offsets)
  BY <1>6 DEF AllTook, Took
<1>8. block'.n = n
  BY <1>1 DEF NoBlock
<1>9. Stages'
  BY <1>1, <1>2, <1>6, <1>8 DEF EncoderInv, Stages, BlockDone
<1> QED
  BY <1>4, <1>5, <1>7, <1>9 DEF EncoderInv

LEMMA BuildSeqStoreStep ==
    ASSUME EncoderInv, BuildSeqStore
    PROVE  EncoderInv'
<1>1. PICK p \in Parses :
         /\ OffsetsReach(p.seqs)
         /\ block' = [n |-> p.n, seqs |-> p.seqs, offsets |-> OffsetsOf(rep, p.seqs),
                      store |-> StoreOf(p.seqs, p.n), next_rep |-> AfterParse(rep, p.seqs)]
         /\ todo' = <<0, Len(p.seqs)>>
  BY DEF BuildSeqStore
<1>2. /\ strategy' = strategy /\ content_len' = content_len /\ rep' = rep /\ pos' = pos
      /\ entropy' = entropy /\ dec' = dec /\ pc = "next" /\ read' = <<>> /\ cuts' = cuts
      /\ pc' \in {"split", "emit"}
  BY DEF BuildSeqStore
<1>3. Fixed' /\ TablesAgree'
  BY <1>2 DEF EncoderInv, Fixed, TablesAgree
<1>4. AllTook(read', block'.seqs, block'.offsets)
  BY <1>2 DEF AllTook
<1> DEFINE seqs == p.seqs
           offsets == OffsetsOf(rep, seqs)
<1>5. GoodParse(seqs, p.n)
  BY ParsesAreGood
<1>6. seqs \in Seq(ParsedSequence) /\ Len(seqs) \in Nat /\ DOMAIN seqs = 1 .. Len(seqs)
  BY <1>5 DEF GoodParse
<1>7. ASSUME NEW k \in 1 .. Len(seqs) PROVE offsets[k] \in Offsets
  <2> DEFINE reach == content_len + pos + SpanTo(seqs, k - 1) + seqs[k].lit_len
  <2>1. offsets[k] \in 1 .. reach
    BY <1>1, <1>6 DEF OffsetsReach
  <2>2. content_len \in Nat /\ pos \in Nat
    BY DEF EncoderInv, Fixed
  <2>3. SpanTo(seqs, k - 1) \in Nat /\ seqs[k].lit_len \in Nat
    <3>1. k - 1 \in 0 .. Len(seqs)
      BY <1>6
    <3> QED
      BY <1>6, <3>1, SpanFacts, ParseFields
  <2>4. reach \in Nat
    BY <2>2, <2>3
  <2> HIDE DEF reach, offsets
  <2> QED
    BY <2>1, <2>4 DEF Offsets
<1>8. /\ block'.n = p.n /\ block'.seqs = seqs /\ block'.store = StoreOf(p.seqs, p.n)
      /\ block'.offsets = offsets /\ block'.next_rep = AfterParse(rep, seqs)
  BY <1>1
<1>9. BlockParsed'
  BY <1>2, <1>7, <1>8 DEF BlockParsed
<1>10. cuts' = <<>>
  BY <1>2 DEF EncoderInv, Stages
<1>11. nb_seq' = Len(seqs)
  <2>1. StoreHolds(StoreOf(seqs, p.n), seqs, p.n)
    BY <1>5, StoreIsWhole
  <2> QED
    BY <1>8, <2>1 DEF nb_seq, StoreHolds, HoldsSequences
<1>12. Splitting'
  <2>1. CutsInOrder'
    BY <1>10 DEF CutsInOrder
  <2>2. LookedAt' = 0
    BY <1>10 DEF LookedAt
  <2> DEFINE m == Len(seqs)
             t == todo'
  <2>3. t = <<0, m>> /\ m \in Nat
    BY <1>1, <1>6
  <2> HIDE DEF m
  <2>4. /\ t \in Seq(Nat) /\ Len(t) = 2 /\ t[1] = 0 /\ t[2] = m
    BY <2>3
  <2>5. /\ t[Len(t)] = m
        /\ \A i \in 2 .. Len(t) - 1 : t[i] < m
        /\ \A i \in 1 .. Len(t) - 1 : t[i] <= t[i + 1]
    <3>1. 2 .. Len(t) - 1 = {} /\ \A i \in 1 .. Len(t) - 1 : i = 1
      BY <2>4
    <3> QED
      BY <2>3, <2>4, <3>1
  <2>6. nb_seq' = m
    BY <1>11 DEF m
  <2> QED
    BY <2>1, <2>2, <2>4, <2>5, <2>6 DEF Splitting
<1>13. Stages'
  BY <1>2, <1>9, <1>12 DEF EncoderInv, Stages
<1> QED
  BY <1>3, <1>4, <1>13 DEF EncoderInv

LEMMA BlockOutStep ==
    ASSUME EncoderInv, BlockOut
    PROVE  EncoderInv'
<1>1. /\ strategy' = strategy /\ content_len' = content_len /\ rep' = rep /\ pos' = pos
      /\ entropy' = entropy /\ dec' = dec /\ pc = "done" /\ read' = <<>> /\ cuts' = <<>>
      /\ pc' = "next"
  BY DEF BlockOut
<1>2. Fixed' /\ TablesAgree'
  BY <1>1 DEF EncoderInv, Fixed, TablesAgree
<1>3. AllTook(read', block'.seqs, block'.offsets)
  BY <1>1 DEF AllTook
<1>4. Stages'
  BY <1>1 DEF EncoderInv, Stages
<1> QED
  BY <1>2, <1>3, <1>4 DEF EncoderInv

\* Out as one block: as it is, or compressed.
LEMMA BlockIsOut ==
    ASSUME EncoderInv, pc = "emit", BlockDone(block.n), block' = block, strategy' = strategy,
           content_len' = content_len, ReadSoFar(read', block.n, block.seqs, block.offsets),
           DOMAIN entropy' = Slots \cup {"huf"}, InStep(strategy, entropy', dec'),
           rep' = dec'.rep
    PROVE  EncoderInv'
<1>1. block.n \in Nat
  BY AtWork DEF EncoderInv, Stages
<1>2. Fixed'
  BY <1>1 DEF EncoderInv, Fixed, BlockDone
<1>3. TablesAgree'
  BY DEF TablesAgree
<1>4. AllTook(read', block'.seqs, block'.offsets) /\ Len(read') = block'.n
  BY DEF ReadSoFar
<1>5. Stages'
  BY <1>4 DEF Stages, BlockDone
<1> QED
  BY <1>2, <1>3, <1>4, <1>5 DEF EncoderInv

LEMMA CopiedBlock ==
    ASSUME EncoderInv, pc = "emit", DecodeCopied(0, block.n), rep' = rep, entropy' = entropy
    PROVE  /\ ReadSoFar(read', block.n, block.seqs, block.offsets)
           /\ DOMAIN entropy' = Slots \cup {"huf"} /\ InStep(strategy, entropy', dec')
           /\ rep' = dec'.rep
<1>1. BlockParsed /\ read = <<>> /\ rep = dec.rep /\ TablesAgree
  BY DEF EncoderInv, Stages
<1>2. block.n \in Nat
  BY <1>1, AtWork
<1>3. ReadSoFar(read, 0, block.seqs, block.offsets)
  BY <1>1 DEF ReadSoFar, AllTook
<1> DEFINE n == block.n
<1>4. n \in Nat /\ 0 <= n /\ 0 \in Nat /\ DecodeCopied(0, n)
  BY <1>2
<1> HIDE DEF n
<1>5. ReadSoFar(read', n, block.seqs, block.offsets) /\ dec' = dec
  BY <1>3, <1>4, CopiedOut
<1> QED
  BY <1>1, <1>5 DEF n, TablesAgree

LEMMA CompressedBlock ==
    ASSUME EncoderInv, pc = "emit",
           NEW b \in Bodies(entropy, WholeStore, block.store.sequences),
           DecodeCompressed(b.body), rep' = block.next_rep, entropy' = b.next
    PROVE  /\ ReadSoFar(read', block.n, block.seqs, block.offsets)
           /\ DOMAIN entropy' = Slots \cup {"huf"} /\ InStep(strategy, entropy', dec')
           /\ rep' = dec'.rep
<1> DEFINE H == HistoryAlong(rep, block.seqs)
           N == Len(block.seqs)
           f == 0
           q == block.store.sequences
<1>1. BlockParsed /\ read = <<>> /\ rep = dec.rep /\ TablesAgree /\ Fixed
  BY DEF EncoderInv, Stages
<1>2. /\ Parse(H, f, N, q, H) /\ H[f] = rep /\ H[N] = block.next_rep
      /\ Len(block.store.sequences) = N /\ N \in Nat
      /\ block.n \in Nat /\ SpanTo(block.seqs, f) = 0
  BY <1>1, WholeParse
<1>3. ReadSoFar(read, SpanTo(block.seqs, f), block.seqs, block.offsets)
  BY <1>1, <1>2 DEF ReadSoFar, AllTook
<1>4. b \in Bodies(entropy, derive_chunk(block.store, f, N), q)
  BY <1>2 DEF WholeStore
<1>5. N \in 0 .. Len(block.seqs) /\ f \in 0 .. N /\ N - f = N
  BY <1>2
<1>6. EndsAt(N, block.seqs, block.n) = block.n
  BY DEF EndsAt
<1>7. dec.rep = H[f]
  BY <1>1, <1>2
<1> HIDE DEF H, N, q, f
<1>8. /\ ReadSoFar(read', EndsAt(N, block.seqs, block.n), block.seqs, block.offsets)
      /\ dec'.rep = H[N - f]
      /\ DOMAIN b.next = Slots \cup {"huf"}
      /\ InStep(strategy, b.next, dec')
  <2>1. NextPiece(H, H, q, f, N, b)
    BY <1>2, <1>3, <1>4, <1>5, <1>7 DEF NextPiece
  <2>2. Fixed /\ TablesAgree /\ DecodeCompressed(b.body)
    BY <1>1
  <2> QED
    BY <2>1, <2>2, PieceOut
<1> QED
  BY <1>2, <1>5, <1>6, <1>8

LEMMA EmitStep ==
    ASSUME EncoderInv, EmitCompressed \/ EmitRaw
    PROVE  EncoderInv'
<1>1. /\ pc = "emit" /\ BlockDone(block.n) /\ block' = block /\ strategy' = strategy
      /\ content_len' = content_len
  BY DEF EmitCompressed, EmitRaw
<1>2. CASE EmitRaw
  <2>1. DecodeCopied(0, block.n) /\ rep' = rep /\ entropy' = entropy
    BY <1>2 DEF EmitRaw
  <2> QED
    BY <1>1, <2>1, CopiedBlock, BlockIsOut
<1>3. CASE EmitCompressed
  <2>1. PICK b \in Bodies(entropy, WholeStore, block.store.sequences), is_rle \in BOOLEAN :
           IF is_rle /\ ~is_first_block
           THEN DecodeCopied(0, block.n) /\ UNCHANGED <<rep, entropy>>
           ELSE DecodeCompressed(b.body) /\ rep' = block.next_rep /\ entropy' = b.next
    BY <1>3 DEF EmitCompressed
  <2>2. CASE is_rle /\ ~is_first_block
    <3>1. DecodeCopied(0, block.n) /\ rep' = rep /\ entropy' = entropy
      BY <2>1, <2>2
    <3> QED
      BY <1>1, <3>1, CopiedBlock, BlockIsOut
  <2>3. CASE ~(is_rle /\ ~is_first_block)
    <3>1. DecodeCompressed(b.body) /\ rep' = block.next_rep /\ entropy' = b.next
      BY <2>1, <2>3
    <3> QED
      BY <1>1, <3>1, CompressedBlock, BlockIsOut
  <2> QED
    BY <2>2, <2>3
<1> QED
  BY <1>2, <1>3


LEMMA KeepRangeStep ==
    ASSUME EncoderInv, KeepRange
    PROVE  EncoderInv'
<1>1. /\ BlockParsed /\ Splitting /\ rep = dec.rep /\ read = <<>> /\ pc = "split"
  BY DEF EncoderInv, Stages, KeepRange
<1>2. /\ strategy' = strategy /\ content_len' = content_len /\ rep' = rep /\ pos' = pos
      /\ entropy' = entropy /\ dec' = dec /\ read' = read /\ block' = block
      /\ part' = 0 /\ d_rep' = rep /\ c_rep' = rep /\ ip_at' = 0
      /\ pc' = IF panicked' THEN "panicked" ELSE IF Len(todo) = 2 THEN "part" ELSE "split"
  BY DEF KeepRange, Estimating
<1>3. /\ cuts' = IF Len(todo) = 2 THEN cuts ELSE Append(cuts, todo[2])
      /\ todo' = Tail(todo)
  BY DEF KeepRange
<1>4. Fixed' /\ TablesAgree' /\ AllTook(read', block'.seqs, block'.offsets)
  BY <1>2 DEF EncoderInv, Fixed, TablesAgree
<1>5. BlockParsed'
  BY <1>1, <1>2 DEF BlockParsed
<1>6. nb_seq' = nb_seq
  BY <1>2 DEF nb_seq
<1>7. ASSUME Len(todo) = 2 PROVE Partitioned'
  <2>1. cuts' = cuts
    BY <1>3, <1>7
  <2>2. CutsInOrder'
    BY <1>1, <1>6, <2>1 DEF Splitting, CutsInOrder
  <2>3. Began' = 0 /\ part' \in 0 .. Len(cuts')
    BY <1>1, <1>2, <2>1 DEF Began, Splitting, CutsInOrder
  <2>4. SpanTo(block.seqs, 0) = 0 /\ HistoryAlong(rep, block.seqs)[0] = rep
    BY <1>1, WholeParse
  <2>5. Len(read') = 0
    BY <1>1, <1>2
  <2> QED
    BY <1>1, <1>2, <2>2, <2>3, <2>4, <2>5 DEF Partitioned
<1>8. ASSUME Len(todo) # 2 PROVE Splitting'
  <2> DEFINE n == nb_seq
             t == todo
             c == cuts
             m == Len(t)
             x == t[2]
             u == Tail(t)
             d == Append(c, x)
  <2>0. m \in Nat /\ m >= 3
    <3>1. m >= 2 /\ m # 2 /\ t \in Seq(Nat)
      BY <1>1, <1>8 DEF Splitting
    <3>2. m \in Nat
      BY <3>1
    <3> HIDE DEF m
    <3> QED
      BY <3>1, <3>2
  <2>1. /\ c \in Seq(Nat) /\ t \in Seq(Nat) /\ m \in Nat /\ m >= 3
        /\ \A i \in 1 .. Len(c) : c[i] < n
        /\ \A i \in 1 .. Len(c) - 1 : c[i] <= c[i + 1]
        /\ t[1] = IF c = <<>> THEN 0 ELSE c[Len(c)]
        /\ t[m] = n /\ (\A i \in 2 .. m - 1 : t[i] < n)
        /\ \A i \in 1 .. m - 1 : t[i] <= t[i + 1]
    BY <1>1, <2>0, Zenon DEF Splitting, CutsInOrder, LookedAt
  <2>2. cuts' = d /\ todo' = u
    BY <1>3, <1>8
  <2> HIDE DEF n, t, c
  <2>3. x \in Nat /\ x < n /\ t[1] <= x
    <3>1. 2 \in 1 .. m /\ 2 \in 2 .. m - 1 /\ 1 \in 1 .. m - 1
      BY <2>1
    <3> QED
      BY <2>1, <3>1
  <2>4. /\ u \in Seq(Nat) /\ Len(u) = m - 1
        /\ \A i \in 1 .. m - 1 : u[i] = t[i + 1]
    BY <2>1
  <2> HIDE DEF u
  <2>5. /\ d \in Seq(Nat) /\ Len(d) = Len(c) + 1 /\ d[Len(d)] = x /\ Len(c) \in Nat
        /\ \A i \in 1 .. Len(c) : d[i] = c[i]
    <3> HIDE DEF x
    <3> QED
      BY <2>1, <2>3
  <2> HIDE DEF d, x
  <2>6. \A i \in 1 .. Len(d) : d[i] < n
    <3> TAKE i \in 1 .. Len(d)
    <3>1. CASE i = Len(d)
      BY <2>3, <2>5, <3>1
    <3>2. CASE i # Len(d)
      <4>1. i \in 1 .. Len(c)
        BY <2>5, <3>2
      <4> QED
        BY <2>1, <2>5, <4>1
    <3> QED
      BY <3>1, <3>2
  <2>7. \A i \in 1 .. Len(d) - 1 : d[i] <= d[i + 1]
    <3> TAKE i \in 1 .. Len(d) - 1
    <3>0. i \in 1 .. Len(c)
      BY <2>5
    <3>1. CASE i = Len(c)
      <4>1. c # <<>> /\ i + 1 = Len(d)
        BY <2>1, <2>5, <3>0, <3>1
      <4>2. d[i] = t[1] /\ d[i + 1] = x
        BY <2>1, <2>5, <3>0, <3>1, <4>1
      <4> QED
        BY <2>3, <4>2
    <3>2. CASE i # Len(c)
      <4>1. i \in 1 .. Len(c) - 1 /\ i + 1 \in 1 .. Len(c)
        BY <2>5, <3>0, <3>2
      <4>2. d[i] = c[i] /\ d[i + 1] = c[i + 1] /\ c[i] <= c[i + 1]
        BY <2>1, <2>5, <3>0, <4>1
      <4> QED
        BY <4>2
    <3> QED
      BY <3>1, <3>2
  <2>8. u[1] = x /\ d # <<>>
    <3>1. 1 \in 1 .. m - 1 /\ 1 + 1 = 2
      BY <2>1
    <3> QED
      BY <2>4, <2>5, <3>1 DEF x
  <2>9. u[Len(u)] = n /\ Len(u) >= 2
    <3>1. m - 1 \in 1 .. m - 1 /\ (m - 1) + 1 = m
      BY <2>1
    <3> QED
      BY <2>1, <2>4, <3>1, SMTT(30)
  <2>10. \A i \in 2 .. Len(u) - 1 : u[i] < n
    <3> TAKE i \in 2 .. Len(u) - 1
    <3>1. i \in 1 .. m - 1 /\ i + 1 \in 2 .. m - 1
      BY <2>1, <2>4
    <3> QED
      BY <2>1, <2>4, <3>1
  <2>11. \A i \in 1 .. Len(u) - 1 : u[i] <= u[i + 1]
    <3> TAKE i \in 1 .. Len(u) - 1
    <3>1. i \in 1 .. m - 1 /\ i + 1 \in 1 .. m - 1
      BY <2>1, <2>4
    <3> QED
      BY <2>1, <2>4, <3>1
  <2>12. LookedAt' = x
    BY <2>2, <2>5, <2>8 DEF LookedAt
  <2>13. CutsInOrder'
    BY <1>6, <2>2, <2>5, <2>6, <2>7 DEF CutsInOrder, n
  <2> QED
    BY <1>6, <2>2, <2>4, <2>8, <2>9, <2>10, <2>11, <2>12, <2>13 DEF Splitting, n
<1>9. Stages'
  <2>1. rep' = dec'.rep /\ read' = <<>>
    BY <1>1, <1>2
  <2>2. pc' = "part" => Partitioned'
    BY <1>2, <1>7
  <2>3. pc' = "split" => Splitting'
    BY <1>2, <1>8
  <2>4. pc' \in {"panicked", "part", "split"}
    BY <1>2
  <2> QED
    BY <1>5, <2>1, <2>2, <2>3, <2>4 DEF Stages
<1> QED
  BY <1>4, <1>9 DEF EncoderInv


LEMMA Halved ==
    ASSUME NEW t, t \in Seq(Nat), Len(t) >= 2, NEW y \in Nat
    PROVE  /\ <<t[1], y>> \o Tail(t) \in Seq(Nat)
           /\ Len(<<t[1], y>> \o Tail(t)) = Len(t) + 1
           /\ (<<t[1], y>> \o Tail(t))[1] = t[1] /\ (<<t[1], y>> \o Tail(t))[2] = y
           /\ \A i \in 3 .. Len(t) + 1 : (<<t[1], y>> \o Tail(t))[i] = t[i - 1]
<1> DEFINE m == Len(t)
           x == t[1]
           a == <<x, y>>
           b == Tail(t)
           u == a \o b
<1>1. m \in Nat /\ m >= 2
  OBVIOUS
<1>2. x \in Nat
  OBVIOUS
<1>3. /\ b \in Seq(Nat) /\ Len(b) = m - 1
      /\ \A i \in 1 .. m - 1 : b[i] = t[i + 1]
  OBVIOUS
<1> HIDE DEF b, x
<1>4. a \in Seq(Nat) /\ Len(a) = 2 /\ a[1] = x /\ a[2] = y
  BY <1>2
<1> HIDE DEF a, m
<1>5. /\ u \in Seq(Nat) /\ Len(u) = 2 + (m - 1)
      /\ \A i \in 1 .. 2 + (m - 1) : u[i] = IF i <= 2 THEN a[i] ELSE b[i - 2]
  <2>1. /\ u \in Seq(Nat) /\ Len(u) = Len(a) + Len(b)
        /\ \A i \in 1 .. Len(a) + Len(b) :
              u[i] = IF i <= Len(a) THEN a[i] ELSE b[i - Len(a)]
    BY <1>3, <1>4, ConcatProperties
  <2> QED
    BY <1>3, <1>4, <2>1
<1> HIDE DEF u
<1>6. Len(u) = m + 1 /\ 2 + (m - 1) = m + 1
  BY <1>1, <1>5
<1>7. u[1] = x /\ u[2] = y
  <2>1. 1 \in 1 .. m + 1 /\ 2 \in 1 .. m + 1
    BY <1>1
  <2> QED
    BY <1>4, <1>5, <1>6, <2>1
<1>8. ASSUME NEW i \in 3 .. m + 1 PROVE u[i] = t[i - 1]
  <2>1. i \in 1 .. m + 1 /\ ~(i <= 2) /\ i - 2 \in 1 .. m - 1 /\ (i - 2) + 1 = i - 1
    BY <1>1
  <2>2. u[i] = b[i - 2]
    BY <1>5, <1>6, <2>1
  <2>3. b[i - 2] = t[(i - 2) + 1]
    BY <1>3, <2>1
  <2> QED
    BY <2>1, <2>2, <2>3
<1> QED
  BY <1>5, <1>6, <1>7, <1>8 DEF u, a, b, x, m

LEMMA HalveRangeStep ==
    ASSUME EncoderInv, HalveRange
    PROVE  EncoderInv'
<1>1. /\ BlockParsed /\ Splitting /\ rep = dec.rep /\ read = <<>> /\ pc = "split"
  BY DEF EncoderInv, Stages, HalveRange
<1>2. /\ strategy' = strategy /\ content_len' = content_len /\ rep' = rep /\ pos' = pos
      /\ entropy' = entropy /\ dec' = dec /\ read' = read /\ block' = block
      /\ pc' = IF panicked' THEN "panicked" ELSE "split"
  BY DEF HalveRange, Estimating
<1>3. cuts' = cuts /\ todo' = <<todo[1], middle>> \o Tail(todo) /\ estimated # {}
  BY DEF HalveRange
<1>4. Fixed' /\ TablesAgree' /\ AllTook(read', block'.seqs, block'.offsets)
  BY <1>2 DEF EncoderInv, Fixed, TablesAgree
<1>5. BlockParsed'
  BY <1>1, <1>2 DEF BlockParsed
<1>6. nb_seq' = nb_seq
  BY <1>2 DEF nb_seq
<1>7. CutsInOrder' /\ LookedAt' = LookedAt
  BY <1>1, <1>3, <1>6 DEF Splitting, CutsInOrder, LookedAt
<1>8. Splitting'
  <2> DEFINE n == nb_seq
             t == todo
             m == Len(t)
             x == t[1]
             y == middle
             u == <<x, y>> \o Tail(t)
  <2>1. /\ t \in Seq(Nat) /\ m \in Nat /\ m >= 2
        /\ t[1] = LookedAt /\ t[m] = n /\ (\A i \in 2 .. m - 1 : t[i] < n)
        /\ \A i \in 1 .. m - 1 : t[i] <= t[i + 1]
    BY <1>1 DEF Splitting
  <2>2. x \in Nat /\ t[2] \in Nat
    <3>1. 1 \in 1 .. m /\ 2 \in 1 .. m
      BY <2>1
    <3> QED
      BY <2>1, <3>1
  <2>3. t[2] - x >= 2
    <3>1. ~(t[2] - x < MIN_SEQUENCES_BLOCK_SPLITTING)
      BY <1>3 DEF estimated
    <3>2. MIN_SEQUENCES_BLOCK_SPLITTING \in Nat /\ MIN_SEQUENCES_BLOCK_SPLITTING >= 2
      BY BlockEncodeAssumption
    <3> QED
      BY <2>2, <3>1, <3>2
  <2>4. y \in Nat /\ x <= y /\ y < t[2]
    <3> DEFINE z == t[2]
    <3>1. y = (x + z) \div 2 /\ z - x >= 2 /\ z \in Nat
      BY <2>2, <2>3 DEF middle
    <3> HIDE DEF x, y, z
    <3> QED
      BY <2>2, <3>1 DEF z
  <2>5. t[2] <= n
    <3>1. CASE m = 2
      BY <2>1, <2>2, <3>1
    <3>2. CASE m # 2
      <4>1. 2 \in 2 .. m - 1
        <5>1. m \in Nat /\ m >= 2 /\ m # 2
          BY <2>1, <3>2
        <5> HIDE DEF m
        <5> QED
          BY <5>1
      <4>2. n \in Nat
        <5>1. m \in 1 .. m
          BY <2>1
        <5> QED
          BY <2>1, <5>1
      <4> QED
        BY <2>1, <2>2, <4>1, <4>2
    <3> QED
      BY <3>1, <3>2
  <2>7. todo' = u
    BY <1>3
  <2>9. /\ u \in Seq(Nat) /\ Len(u) = m + 1
        /\ u[1] = x /\ u[2] = y /\ \A i \in 3 .. m + 1 : u[i] = t[i - 1]
    <3> HIDE DEF t, y
    <3> QED
      BY <2>1, <2>4, Halved
  <2> HIDE DEF n, t, x, y, u
  <2>10. u[Len(u)] = n
    <3>1. m + 1 \in 3 .. m + 1 /\ (m + 1) - 1 = m
      BY <2>1
    <3> QED
      BY <2>1, <2>9, <3>1
  <2>11. ASSUME NEW i \in 2 .. Len(u) - 1 PROVE u[i] < n
    <3>1. CASE i = 2
      <4>1. n \in Nat
        <5>1. m \in 1 .. m
          BY <2>1
        <5> QED
          BY <2>1, <5>1
      <4> QED
        BY <2>2, <2>4, <2>5, <2>9, <3>1, <4>1
    <3>2. CASE i # 2
      <4>1. i \in 3 .. m + 1 /\ i - 1 \in 2 .. m - 1
        BY <2>1, <2>9, <3>2
      <4> QED
        BY <2>1, <2>9, <4>1
    <3> QED
      BY <3>1, <3>2
  <2>12. ASSUME NEW i \in 1 .. Len(u) - 1 PROVE u[i] <= u[i + 1]
    <3>1. CASE i = 1
      BY <2>4, <2>9, <3>1
    <3>2. CASE i = 2
      <4>1. 3 \in 3 .. m + 1
        BY <2>1
      <4>2. u[3] = t[2]
        BY <2>9, <4>1
      <4> QED
        BY <2>2, <2>4, <2>9, <3>2, <4>2
    <3>3. CASE i # 1 /\ i # 2
      <4>1. i \in 3 .. m + 1 /\ i + 1 \in 3 .. m + 1 /\ i - 1 \in 1 .. m - 1
            /\ (i + 1) - 1 = (i - 1) + 1
        BY <2>1, <2>9, <3>3
      <4>2. u[i] = t[i - 1] /\ u[i + 1] = t[(i + 1) - 1]
        BY <2>9, <4>1
      <4>3. t[i - 1] <= t[(i - 1) + 1]
        BY <2>1, <4>1
      <4> QED
        BY <4>1, <4>2, <4>3
    <3> QED
      BY <3>1, <3>2, <3>3
  <2>13. u[1] = LookedAt' /\ Len(u) >= 2
    BY <1>7, <2>1, <2>9 DEF x
  <2> QED
    BY <1>6, <1>7, <2>7, <2>9, <2>10, <2>11, <2>12, <2>13 DEF Splitting, n
<1>9. Stages'
  <2>1. rep' = dec'.rep /\ read' = <<>> /\ pc' \in {"panicked", "split"}
    BY <1>1, <1>2
  <2> QED
    BY <1>5, <1>8, <2>1 DEF Stages
<1> QED
  BY <1>4, <1>9 DEF EncoderInv

\* The inductive invariant: whatever the encoder carries to the next block, and among
\* the partitions of one, is the decoder's.
THEOREM EncoderInvHolds ==
    ASSUME DictionariesReach
    PROVE  Spec => []EncoderInv
<1>1. Init => EncoderInv
  BY FromTheStart
<1>2. EncoderInv /\ [Next]_vars => EncoderInv'
  <2> SUFFICES ASSUME EncoderInv, [Next]_vars PROVE EncoderInv'
    OBVIOUS
  <2>1. CASE TinyBlock
    BY <2>1, TinyBlockStep
  <2>2. CASE BuildSeqStore
    BY <2>2, BuildSeqStoreStep
  <2>3. CASE EmitCompressed \/ EmitRaw
    BY <2>3, EmitStep
  <2>4. CASE KeepRange
    BY <2>4, KeepRangeStep
  <2>5. CASE HalveRange
    BY <2>5, HalveRangeStep
  <2>6. CASE EmitPartRaw
    <3>1. pc = "part" /\ PartitionCopied /\ Advance(rep, d_rep)
      BY <2>6 DEF EmitPartRaw
    <3> QED
      BY <3>1, CopiedPart
  <2>7. CASE EmitPartCompressed
    <3>1. PICK b \in Bodies(entropy, chunk, resolved.seqs), is_rle \in BOOLEAN :
             IF is_rle /\ ~is_first_block
             THEN PartitionCopied /\ Advance(rep, d_rep)
             ELSE /\ DecodeCompressed(b.body)
                  /\ entropy' = demoted(b.next)
                  /\ Advance(block.next_rep, resolved.d_rep)
      BY <2>7 DEF EmitPartCompressed
    <3>2. pc = "part"
      BY <2>7 DEF EmitPartCompressed
    <3>3. CASE is_rle /\ ~is_first_block
      BY <3>1, <3>2, <3>3, CopiedPart
    <3>4. CASE ~(is_rle /\ ~is_first_block)
      <4>1. /\ DecodeCompressed(b.body) /\ entropy' = demoted(b.next)
            /\ Advance(block.next_rep, resolved.d_rep)
        BY <3>1, <3>4
      <4> QED
        BY <3>2, <4>1, CompressedPart
    <3> QED
      BY <3>3, <3>4
  <2>8. CASE BlockOut
    BY <2>8, BlockOutStep
  <2>9. CASE UNCHANGED vars
    BY <2>9 DEF vars, locals, EncoderInv, Fixed, TablesAgree, Stages, BlockParsed, Splitting,
                CutsInOrder, LookedAt, Partitioned, Began, nb_seq, whole
  <2> QED
    BY <2>1, <2>2, <2>3, <2>4, <2>5, <2>6, <2>7, <2>8, <2>9 DEF Next
<1> QED
  BY <1>1, <1>2, PTL DEF Spec

\* Between blocks, and among the partitions of a split one, the offsets and tables that the
\* encoder takes for the decoder's are those that the decoder holds.
THEOREM EncoderInStepWithDecoder ==
    ASSUME DictionariesReach
    PROVE  Spec => []InStepWithDecoder
<1>1. EncoderInv => InStepWithDecoder
  BY DEF EncoderInv, Stages, Partitioned, TablesAgree, InStep, TablesInStep, EntryInStep,
         InStepWithDecoder
<1> QED
  BY <1>1, EncoderInvHolds, PTL

\* Whatever blocks a parse becomes, the decoder takes every byte from where the match finder
\* meant it, and at the end of the block it has all of them.
THEOREM EveryByteIsMeant ==
    ASSUME DictionariesReach
    PROVE  Spec => []DecoderReadsWhatWasMeant
<1>1. EncoderInv => DecoderReadsWhatWasMeant
  <2> SUFFICES ASSUME EncoderInv PROVE DecoderReadsWhatWasMeant
    OBVIOUS
  <2>1. read \in Seq(Int)
        /\ \A p \in 1 .. Len(read) : Took(block.seqs, block.offsets, p, read[p])
    BY DEF EncoderInv, AllTook
  <2>2. DOMAIN read = 1 .. Len(read)
    BY <2>1
  <2>3. \A p : MeantOffset(p) = MeantAt(block.seqs, block.offsets, p)
    BY DEF MeantOffset, MeantAt
  <2>4. ASSUME NEW p \in DOMAIN read
        PROVE  read[p] = p \/ (MeantOffset(p) > 0 /\ read[p] = -MeantOffset(p))
    BY <2>1, <2>2, <2>3, <2>4 DEF Took
  <2>5. pc = "done" => Len(read) = block.n
    BY DEF EncoderInv, Stages
  <2> QED
    BY <2>4, <2>5 DEF DecoderReadsWhatWasMeant
<1> QED
  BY <1>1, EncoderInvHolds, PTL


-----------------------------------------------------------------------------
(* The splitter's estimates.                                               *)

Estimated(store, f, l) ==
    CodesOutOfBounds(SequencesOf(store, derive_chunk(store, f, l)), MarkerOf(store, f, l))

\* An estimate of a range indexes outside of it exactly when the sequence right behind the
\* range holds the block's long length (derive_chunk keeps that marker).
THEOREM EstimatePanicsBehindRange ==
    ASSUME NEW seqs, NEW n, GoodParse(seqs, n), NEW store, StoreHolds(store, seqs, n),
           NEW l \in 0 .. Len(seqs), NEW f \in 0 .. l
    PROVE  Estimated(store, f, l) <=> l + 1 \in 1 .. Len(seqs) /\ IsLong(seqs[l + 1])
<1> DEFINE N == Len(seqs)
           long == store.long
           mark == MarkerOf(store, f, l)
           c == derive_chunk(store, f, l)
<1>1. seqs \in Seq(ParsedSequence) /\ N \in Nat
  BY DEF GoodParse
<1>2. Marks(long, seqs, N)
  BY DEF StoreHolds
<1>3. Len(SequencesOf(store, c)) = l - f
  <2>1. c.first = f /\ c.last = l
    BY DEF derive_chunk
  <2> HIDE DEF c
  <2>2. SequencesOf(store, c) = Stored(store, f, l)
    BY <2>1 DEF SequencesOf, Stored
  <2>3. ChunkIn(seqs, n, store, f, l)
    BY DEF ChunkIn
  <2>4. Len(Stored(store, f, l)) = l - f
    <3>1. PartOf(Stored(store, f, l), store, f, l)
      BY <2>3, ChunkOfStore
    <3> QED
      BY <3>1 DEF PartOf
  <2> QED
    BY <2>2, <2>4
<1>4. Estimated(store, f, l) <=> mark.type # "none" /\ mark.pos >= l - f
  BY <1>3 DEF Estimated, CodesOutOfBounds
<1>5. l \in Nat /\ f \in Nat /\ f <= l /\ l <= N
  BY <1>1
<1>6. CASE long = NoMarker
  <2>1. mark.type = "none"
    BY <1>6 DEF MarkerOf, NoMarker
  <2>2. ASSUME l + 1 \in 1 .. N PROVE ~IsLong(seqs[l + 1])
    <3>1. long # At("literal", l + 1) /\ long # At("match", l + 1)
      BY <1>5, <1>6, Places
    <3>2. /\ ~(seqs[l + 1].lit_len >= LongMod)
          /\ ~(seqs[l + 1].match_len - MIN_MATCH >= LongMod)
      BY <1>2, <2>2, <3>1 DEF Marks, MarksIn
    <3> QED
      BY <3>2 DEF IsLong
  <2> QED
    BY <1>4, <2>1, <2>2
<1>7. ASSUME NEW j \in 1 .. N, long \in {At("literal", j), At("match", j)}
      PROVE  Estimated(store, f, l) <=> l + 1 \in 1 .. N /\ IsLong(seqs[l + 1])
  <2>1. /\ long.type # "none" /\ long.pos = j - 1 /\ "pos" \in DOMAIN long
        /\ DOMAIN long = {"type", "pos"}
    BY <1>7 DEF At
  <2>2. IsLong(seqs[j])
    BY <1>2, <1>7 DEF Marks, MarksIn, IsLong
  <2>3. \A k \in 1 .. N : IsLong(seqs[k]) => k = j
    <3> SUFFICES ASSUME NEW k \in 1 .. N, IsLong(seqs[k]) PROVE k = j
      OBVIOUS
    <3>1. long = At("literal", k) \/ long = At("match", k)
      BY <1>2 DEF Marks, MarksIn, IsLong
    <3> QED
      BY <1>7, <3>1, Places
  <2>4. l + 1 \in 1 .. N /\ IsLong(seqs[l + 1]) <=> j = l + 1
    BY <2>2, <2>3
  <2>5. CASE j - 1 \notin f .. l
    <3>1. mark.type = "none"
      BY <2>1, <2>5 DEF MarkerOf, NoMarker
    <3>2. j # l + 1
      BY <1>5, <2>5
    <3> QED
      BY <1>4, <2>4, <3>1, <3>2
  <2>6. CASE j - 1 \in f .. l
    <3>1. mark = [long EXCEPT !.pos = @ - f]
      BY <2>1, <2>6 DEF MarkerOf
    <3>2. mark.type # "none" /\ mark.pos = (j - 1) - f
      BY <2>1, <3>1
    <3>3. (j - 1) - f >= l - f <=> j = l + 1
      BY <1>5, <2>6
    <3> QED
      BY <1>4, <2>4, <3>2, <3>3
  <2> QED
    BY <2>5, <2>6
<1> QED
  BY <1>2, <1>6, <1>7 DEF Marks

\* The sequence behind the first x has the long length.
LongBehind(x) == x + 1 \in 1 .. nb_seq /\ IsLong(block.seqs[x + 1])

\* No range that derive_splits has yet to look at ends in front of the long length: where
\* it would, the range it was halved from has panicked.
RangesAhead ==
    /\ \E p \in Parses : block.seqs = p.seqs /\ block.store = StoreOf(p.seqs, p.n)
    /\ todo \in Seq(Nat) /\ Len(todo) >= 2 /\ todo[Len(todo)] = nb_seq
    /\ \A i \in 2 .. Len(todo) - 1 : todo[i] <= nb_seq /\ ~LongBehind(todo[i])

SplitterInv == (panicked => pc = "panicked") /\ (pc = "split" => RangesAhead)

\* The halves of a range meet inside of it.
LEMMA MiddleIsInside ==
    ASSUME NEW x \in Nat, NEW z \in Nat, ~(z - x < MIN_SEQUENCES_BLOCK_SPLITTING)
    PROVE  /\ (x + z) \div 2 \in Nat /\ x <= (x + z) \div 2 /\ (x + z) \div 2 < z /\ x <= z
<1> DEFINE m == MIN_SEQUENCES_BLOCK_SPLITTING
<1>1. m \in Nat /\ m >= 2
  BY BlockEncodeAssumption
<1>2. z - x >= m
  BY <1>1
<1> HIDE DEF m
<1> QED
  BY <1>1, <1>2

\* Of the three estimates of a range only that of the left half can panic.
LEMMA EstimatesPanic ==
    ASSUME RangesAhead
    PROVE  /\ (\E range \in estimated : EstimatePanics(range)) <=>
                  estimated # {} /\ IsLong(block.seqs[middle + 1])
           /\ estimated # {} =>
                  /\ middle \in Nat /\ middle <= nb_seq
                  /\ LongBehind(middle) <=> IsLong(block.seqs[middle + 1])
<1> DEFINE N == nb_seq
           store == block.store
           seqs == block.seqs
           x == todo[1]
           z == todo[2]
           m == Len(todo)
<1>1. PICK p \in Parses : seqs = p.seqs /\ store = StoreOf(p.seqs, p.n)
  BY DEF RangesAhead
<1>2. GoodParse(seqs, p.n) /\ StoreHolds(store, seqs, p.n)
  BY <1>1, ParsesAreGood, StoreIsWhole
<1>3. N = Len(seqs) /\ N \in Nat
  BY <1>2 DEF StoreHolds, HoldsSequences, nb_seq, GoodParse
<1>4. x \in Nat /\ z \in Nat /\ m \in Nat /\ m >= 2
  BY DEF RangesAhead
<1>5. z <= N /\ ~LongBehind(z)
  <2>1. CASE m = 2
    <3>1. z = N
      BY <2>1 DEF RangesAhead
    <3> HIDE DEF z, N
    <3> QED
      BY <1>3, <3>1 DEF LongBehind, N
  <2>2. CASE m # 2
    <3>1. 2 \in 2 .. m - 1
      <4> HIDE DEF m
      <4> QED
        BY <1>4, <2>2
    <3> QED
      BY <3>1 DEF RangesAhead
  <2> QED
    BY <2>1, <2>2
<1>6. ASSUME NEW f \in Nat, NEW l \in Nat, f <= l, l <= N
      PROVE  EstimatePanics(<<f, l>>) <=> LongBehind(l)
  <2> DEFINE c == derive_chunk(store, f, l)
  <2>1. EstimatePanics(<<f, l>>) = Estimated(store, f, l)
    <3>1. c.long = MarkerOf(store, f, l)
      BY DEF derive_chunk
    <3> HIDE DEF c
    <3>2. EstimatePanics(<<f, l>>) = CodesOutOfBounds(SequencesOf(store, c), c.long)
      BY DEF EstimatePanics, c
    <3> QED
      BY <3>1, <3>2 DEF Estimated, c
  <2>2. l \in 0 .. Len(seqs) /\ f \in 0 .. l
    BY <1>3, <1>6
  <2>3. Estimated(store, f, l) <=> l + 1 \in 1 .. Len(seqs) /\ IsLong(seqs[l + 1])
    <3> HIDE DEF store, seqs, c
    <3> QED
      BY <1>2, <2>2, EstimatePanicsBehindRange
  <2> QED
    BY <1>3, <2>1, <2>3 DEF LongBehind
<1>7. CASE estimated = {}
  BY <1>7
<1>8. CASE estimated # {}
  <2>1. /\ ~(z - x < MIN_SEQUENCES_BLOCK_SPLITTING)
        /\ estimated = {<<x, z>>, <<x, middle>>, <<middle, z>>}
    BY <1>8 DEF estimated
  <2>2. middle \in Nat /\ x <= middle /\ middle < z /\ x <= z
    <3>1. middle = (x + z) \div 2
      BY DEF middle
    <3> HIDE DEF x, z
    <3> QED
      BY <1>4, <2>1, <3>1, MiddleIsInside
  <2> DEFINE y == middle
  <2>3. y \in Nat /\ x <= y /\ y <= z /\ y <= N /\ y + 1 \in 1 .. N
    <3> HIDE DEF x, z, N
    <3> QED
      BY <1>3, <1>4, <1>5, <2>2
  <2>4. /\ ~EstimatePanics(<<x, z>>) /\ ~EstimatePanics(<<y, z>>)
        /\ EstimatePanics(<<x, y>>) <=> LongBehind(y)
    <3> HIDE DEF x, y, z, N
    <3> QED
      BY <1>4, <1>5, <1>6, <2>2, <2>3 DEF y
  <2>5. LongBehind(y) <=> IsLong(seqs[y + 1])
    BY <2>3 DEF LongBehind
  <2>6. (\E range \in estimated : EstimatePanics(range)) <=> LongBehind(y)
    <3> HIDE DEF x, z
    <3> QED
      BY <2>1, <2>4
  <2> QED
    BY <1>8, <2>3, <2>5, <2>6
<1> QED
  BY <1>7, <1>8

\* The other actions of the encoder leave the splitter alone.
LEMMA OtherActions ==
    ASSUME TinyBlock \/ EmitCompressed \/ EmitRaw \/ EmitPartRaw \/ EmitPartCompressed
               \/ BlockOut
    PROVE  panicked' = panicked /\ pc' # "split" /\ pc # "split" /\ pc # "panicked"
<1>1. CASE TinyBlock
  BY <1>1 DEF TinyBlock, BlockDone
<1>2. CASE EmitCompressed \/ EmitRaw
  BY <1>2 DEF EmitCompressed, EmitRaw, BlockDone
<1>3. CASE EmitPartRaw
  BY <1>3 DEF EmitPartRaw, Advance, BlockDone
<1>4. CASE EmitPartCompressed
  <2>1. pc = "part" /\ \E a, b : Advance(a, b)
    BY <1>4 DEF EmitPartCompressed
  <2> QED
    BY <2>1 DEF Advance, BlockDone
<1>5. CASE BlockOut
  BY <1>5 DEF BlockOut
<1> QED
  BY <1>1, <1>2, <1>3, <1>4, <1>5

\* A step of derive_splits panics exactly where its halves meet in front of the long
\* length.
LEMMA SplitStep ==
    ASSUME SplitterInv, KeepRange \/ HalveRange
    PROVE  /\ RangesAhead /\ block' = block /\ nb_seq' = nb_seq /\ ~panicked
           /\ panicked' <=> HalvedAtLongLength
           /\ pc' = "split" => ~panicked'
           /\ panicked' => pc' = "panicked"
<1>1. pc = "split" /\ block' = block
  BY DEF KeepRange, HalveRange, Estimating
<1>2. RangesAhead /\ ~panicked
  BY <1>1 DEF SplitterInv
<1>3. panicked' = \E range \in estimated : EstimatePanics(range)
  BY DEF KeepRange, HalveRange, Estimating
<1>4. (pc' = "split" => ~panicked') /\ (panicked' => pc' = "panicked")
  BY DEF KeepRange, HalveRange, Estimating
<1>5. HalvedAtLongLength <=> estimated # {} /\ IsLong(block.seqs[middle + 1])
  BY <1>1 DEF HalvedAtLongLength
<1> QED
  BY <1>1, <1>2, <1>3, <1>4, <1>5, EstimatesPanic DEF nb_seq

LEMMA SplitterInvStep == SplitterInv /\ [Next]_vars => SplitterInv'
<1> SUFFICES ASSUME SplitterInv, [Next]_vars PROVE SplitterInv'
  OBVIOUS
<1>1. CASE BuildSeqStore
  <2>1. PICK p \in Parses :
           /\ block' = [n |-> p.n, seqs |-> p.seqs, offsets |-> OffsetsOf(rep, p.seqs),
                        store |-> StoreOf(p.seqs, p.n), next_rep |-> AfterParse(rep, p.seqs)]
           /\ todo' = <<0, Len(p.seqs)>>
    BY <1>1 DEF BuildSeqStore
  <2>2. panicked' = panicked /\ pc = "next"
    BY <1>1 DEF BuildSeqStore
  <2>3. block'.seqs = p.seqs /\ block'.store = StoreOf(p.seqs, p.n)
    BY <2>1
  <2>4. GoodParse(p.seqs, p.n)
    BY ParsesAreGood
  <2>5. nb_seq' = Len(p.seqs) /\ Len(p.seqs) \in Nat
    BY <2>3, <2>4, StoreIsWhole DEF StoreHolds, HoldsSequences, nb_seq, GoodParse
  <2> DEFINE m == Len(p.seqs)
             t == todo'
  <2>6. t = <<0, m>> /\ m \in Nat
    BY <2>1, <2>5
  <2> HIDE DEF m
  <2>7. t \in Seq(Nat) /\ Len(t) = 2 /\ t[2] = m
    BY <2>6
  <2>8. t[Len(t)] = m /\ 2 .. Len(t) - 1 = {}
    BY <2>7
  <2>9. RangesAhead'
    BY <2>3, <2>5, <2>7, <2>8 DEF RangesAhead, m
  <2> QED
    BY <2>2, <2>9 DEF SplitterInv
<1> DEFINE t == todo
           n == nb_seq
           m == Len(t)
           u == todo'
           Clear(b) == b <= n /\ ~LongBehind(b)
<1>2. ASSUME KeepRange \/ HalveRange
      PROVE  /\ t \in Seq(Nat) /\ m \in Nat /\ m >= 2 /\ t[m] = n
             /\ \A i \in 2 .. m - 1 : Clear(t[i])
             /\ \A b : (b <= n /\ ~LongBehind(b))' <=> Clear(b)
             /\ (/\ u \in Seq(Nat) /\ Len(u) >= 2 /\ u[Len(u)] = n
                 /\ \A i \in 2 .. Len(u) - 1 : Clear(u[i])) => RangesAhead'
  <2>1. RangesAhead /\ block' = block /\ nb_seq' = nb_seq
    BY <1>2, SplitStep
  <2>2. \A b : (b <= n /\ ~LongBehind(b))' <=> Clear(b)
    BY <2>1 DEF LongBehind
  <2> QED
    BY <2>1, <2>2 DEF RangesAhead
<1>3. CASE KeepRange
  <2>1. u = Tail(t) /\ (pc' = "split" => m # 2)
    BY <1>3 DEF KeepRange, Estimating
  <2>2. ASSUME m # 2
        PROVE  /\ u \in Seq(Nat) /\ Len(u) >= 2 /\ u[Len(u)] = n
               /\ \A i \in 2 .. Len(u) - 1 : Clear(u[i])
    <3>0. /\ t \in Seq(Nat) /\ m \in Nat /\ m >= 2 /\ t[m] = n
          /\ \A i \in 2 .. m - 1 : Clear(t[i])
      BY <1>2, <1>3
    <3>1. /\ u \in Seq(Nat) /\ Len(u) = m - 1
          /\ \A i \in 1 .. m - 1 : u[i] = t[i + 1]
      BY <2>1, <3>0
    <3> HIDE DEF u, t, n, m, Clear
    <3>2. m - 1 \in 1 .. m - 1 /\ (m - 1) + 1 = m /\ m - 1 >= 2
      BY <2>2, <3>0
    <3>3. \A i \in 2 .. Len(u) - 1 : i \in 1 .. m - 1 /\ i + 1 \in 2 .. m - 1
      BY <3>0, <3>1
    <3> QED
      BY <3>0, <3>1, <3>2, <3>3
  <2>3. pc' = "split" => RangesAhead'
    BY <1>2, <1>3, <2>1, <2>2
  <2> QED
    BY <1>3, <2>3, SplitStep DEF SplitterInv
<1>4. CASE HalveRange
  <2> DEFINE y == middle
  <2>1. /\ estimated # {} /\ pc = "split" /\ u = <<t[1], y>> \o Tail(t)
    BY <1>4 DEF HalveRange
  <2>2. ASSUME ~panicked' PROVE y \in Nat /\ Clear(y)
    <3>1. RangesAhead /\ (panicked' <=> HalvedAtLongLength)
      BY <1>4, SplitStep
    <3> QED
      BY <2>1, <2>2, <3>1, EstimatesPanic DEF HalvedAtLongLength
  <2>3. ASSUME ~panicked'
        PROVE  /\ u \in Seq(Nat) /\ Len(u) >= 2 /\ u[Len(u)] = n
               /\ \A i \in 2 .. Len(u) - 1 : Clear(u[i])
    <3>0. /\ t \in Seq(Nat) /\ m \in Nat /\ m >= 2 /\ t[m] = n
          /\ \A i \in 2 .. m - 1 : Clear(t[i])
      BY <1>2, <1>4
    <3>1. u = <<t[1], y>> \o Tail(t) /\ y \in Nat /\ Clear(y)
      BY <2>1, <2>2, <2>3
    <3> HIDE DEF t, y, u, n, Clear
    <3>2. /\ u \in Seq(Nat) /\ Len(u) = m + 1
          /\ u[2] = y /\ \A i \in 3 .. m + 1 : u[i] = t[i - 1]
      BY <3>0, <3>1, Halved
    <3> HIDE DEF m
    <3>3. u[Len(u)] = n
      <4>1. m + 1 \in 3 .. m + 1 /\ (m + 1) - 1 = m
        BY <3>0
      <4> QED
        BY <3>0, <3>2, <4>1
    <3>4. ASSUME NEW i \in 2 .. Len(u) - 1 PROVE Clear(u[i])
      <4>1. CASE i = 2
        BY <3>1, <3>2, <4>1
      <4>2. CASE i # 2
        <5>1. i \in 3 .. m + 1 /\ i - 1 \in 2 .. m - 1
          BY <3>0, <3>2, <4>2
        <5> QED
          BY <3>0, <3>2, <5>1
      <4> QED
        BY <4>1, <4>2
    <3> QED
      BY <3>0, <3>2, <3>3, <3>4
  <2>4. pc' = "split" => RangesAhead'
    BY <1>2, <1>4, <2>3, SplitStep
  <2> QED
    BY <1>4, <2>4, SplitStep DEF SplitterInv
<1>5. CASE TinyBlock \/ EmitCompressed \/ EmitRaw \/ EmitPartRaw \/ EmitPartCompressed
               \/ BlockOut
  BY <1>5, OtherActions DEF SplitterInv
<1>6. CASE UNCHANGED vars
  BY <1>6 DEF vars, locals, SplitterInv, RangesAhead, LongBehind, nb_seq
<1> QED
  BY <1>1, <1>3, <1>4, <1>5, <1>6 DEF Next

\* Where derive_splits panics, for every parse, splitting and cost: when the two halves of
\* a range it estimates meet right in front of the long length, and on no other step.
THEOREM SplitterPanicsExactly == Spec => SplitterPanicsAtLongMiddle
<1>1. Init => SplitterInv
  BY DEF Init, SplitterInv
<1>2. SplitterInv /\ [Next]_vars => [panicked' <=> panicked \/ HalvedAtLongLength]_vars
  <2> SUFFICES ASSUME SplitterInv, Next
               PROVE  panicked' <=> panicked \/ HalvedAtLongLength
    OBVIOUS
  <2>1. CASE KeepRange \/ HalveRange
    BY <2>1, SplitStep
  <2>2. CASE TinyBlock \/ EmitCompressed \/ EmitRaw \/ EmitPartRaw \/ EmitPartCompressed
                 \/ BlockOut
    BY <2>2, OtherActions DEF HalvedAtLongLength
  <2>3. CASE BuildSeqStore
    BY <2>3 DEF BuildSeqStore, HalvedAtLongLength
  <2> QED
    BY <2>1, <2>2, <2>3 DEF Next
<1> QED
  BY <1>1, <1>2, SplitterInvStep, PTL DEF Spec, SplitterPanicsAtLongMiddle
=============================================================================
