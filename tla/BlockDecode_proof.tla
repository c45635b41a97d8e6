-------------------------- MODULE BlockDecode_proof --------------------------
(***************************************************************************)
(* What decoding a block does to the history and to the output, for every  *)
(* block: the offsets stay positive, a copied match is the bytes that stand*)
(* its offset back however it overlaps itself or the dictionary's seam, and*)
(* a block only ever adds to what was there.                               *)
(***************************************************************************)
EXTENDS BlockDecode, SequenceTheorems, SetInduction, TLAPS

\* A piece of a sequence.
LEMMA Slice ==
    ASSUME NEW B, NEW s \in Seq(B), NEW f \in 0 .. Len(s), NEW g \in f .. Len(s)
    PROVE  /\ SubSeq(s, f + 1, g) \in Seq(B) /\ Len(SubSeq(s, f + 1, g)) = g - f
           /\ \A i \in 1 .. g - f : SubSeq(s, f + 1, g)[i] = s[f + i]
<1> DEFINE a == f + 1
           b == g
<1>1. a \in Int /\ b \in Int /\ b - a + 1 = g - f
      /\ (IF a <= b THEN b - a + 1 ELSE 0) = g - f
      /\ \A i \in Int : a + i - 1 = f + i
  OBVIOUS
<1>2. \A i \in a .. b : s[i] \in B
  <2> SUFFICES ASSUME NEW i \in a .. b PROVE s[i] \in B
    OBVIOUS
  <2>1. i \in 1 .. Len(s)
    OBVIOUS
  <2> QED
    BY <2>1, ElementOfSeq
<1> HIDE DEF a, b
<1>3. /\ SubSeq(s, a, b) \in Seq(B)
      /\ Len(SubSeq(s, a, b)) = IF a <= b THEN b - a + 1 ELSE 0
      /\ \A i \in 1 .. b - a + 1 : SubSeq(s, a, b)[i] = s[a + i - 1]
  BY <1>1, <1>2, SubSeqProperties
<1>4. /\ SubSeq(s, a, b) \in Seq(B) /\ Len(SubSeq(s, a, b)) = g - f
      /\ \A i \in 1 .. g - f : SubSeq(s, a, b)[i] = s[f + i]
  BY <1>1, <1>3, SMTT(30)
<1> QED
  BY <1>4 DEF a, b

-----------------------------------------------------------------------------
(* The three most recent offsets.                                          *)

Triples == {r \in Seq(Nat) : Len(r) = 3}
Positive(r) == r \in Triples /\ \A k \in 1 .. 3 : r[k] >= 1
FrameContexts == [slots : SUBSET (TableSlots \cup {"huffman"}),
                  rep : {r \in Triples : Positive(r)}]

\* A positive history stays a history, whatever the offset value: only the
\* decrement of the first offset can reach zero, and it puts it in front.
LEMMA ResolvedOffset ==
    ASSUME NEW v \in Nat \ {0}, NEW l \in Nat, NEW r, Positive(r)
    PROVE  /\ resolve_offset(v, l, r) \in Triples
           /\ resolve_offset(v, l, r)[1] # 0 => Positive(resolve_offset(v, l, r))
<1>1. /\ r[1] \in Nat /\ r[2] \in Nat /\ r[3] \in Nat
      /\ r[1] >= 1 /\ r[2] >= 1 /\ r[3] >= 1
  <2>1. r \in Seq(Nat) /\ Len(r) = 3
    BY DEF Positive, Triples
  <2>2. \A k \in 1 .. 3 : r[k] \in Nat
    BY <2>1, ElementOfSeq
  <2> QED
    BY <2>2 DEF Positive
<1>2. ASSUME NEW a \in Nat, NEW b \in Nat, NEW c \in Nat
      PROVE  /\ <<a, b, c>> \in Triples
             /\ a >= 1 /\ b >= 1 /\ c >= 1 => Positive(<<a, b, c>>)
  BY DEF Positive, Triples
<1> DEFINE index == v + IF l = 0 THEN 1 ELSE 0
<1>3. v > 3 \/ (v <= 3 /\ index \in 1 .. 4)
  OBVIOUS
<1>4. CASE v > 3
  <2>1. resolve_offset(v, l, r) = <<v - 3, r[1], r[2]>>
    BY <1>4 DEF resolve_offset
  <2> QED
    BY <1>1, <1>2, <1>4, <2>1
<1>5. CASE v <= 3 /\ index = 1
  <2>1. resolve_offset(v, l, r) = r
    BY <1>5 DEF resolve_offset
  <2> QED
    BY <2>1 DEF Positive
<1>6. CASE v <= 3 /\ index = 2
  <2>1. resolve_offset(v, l, r) = <<r[2], r[1], r[3]>>
    BY <1>6 DEF resolve_offset
  <2> QED
    BY <1>1, <1>2, <2>1
<1>7. CASE v <= 3 /\ index = 3
  <2>1. resolve_offset(v, l, r) = <<r[3], r[1], r[2]>>
    BY <1>7 DEF resolve_offset
  <2> QED
    BY <1>1, <1>2, <2>1
<1>8. CASE v <= 3 /\ index = 4
  <2>1. resolve_offset(v, l, r) = <<r[1] - 1, r[1], r[2]>>
    BY <1>8 DEF resolve_offset
  <2>2. r[1] - 1 \in Nat /\ (r[1] - 1 # 0 => r[1] - 1 >= 1)
    BY <1>1
  <2> QED
    BY <1>1, <1>2, <2>1, <2>2
<1> QED
  BY <1>3, <1>4, <1>5, <1>6, <1>7, <1>8

-----------------------------------------------------------------------------
(* The recursive functions, unfolded.                                      *)

InChunks(r, out, offset, len) ==
    /\ r[0] = out
    /\ \A k \in 1 .. len :
          r[k] = ChunkCopied(r[k - 1], offset, Len(out) + len - Len(r[k - 1]))

LEMMA ChunksUnfold ==
    ASSUME NEW out, NEW offset, NEW len \in Nat
    PROVE  InChunks(CopiedInChunks(out, offset, len), out, offset, len)
<1> DEFINE r == CopiedInChunks(out, offset, len)
           Step(x, k) == ChunkCopied(x, offset, Len(out) + len - Len(x))
           Is(f, m) == f = [k \in 0 .. m |-> IF k = 0 THEN out ELSE Step(f[k - 1], k)]
           T == {m \in Nat : \E f : Is(f, m)}
<1> HIDE DEF Step
<1>1. 0 \in T
  <2>1. Is([k \in 0 .. 0 |-> out], 0)
    OBVIOUS
  <2>2. \E f : Is(f, 0)
    <3> WITNESS [k \in 0 .. 0 |-> out]
    <3> QED
      BY <2>1
  <2> QED
    BY <2>2
<1>2. ASSUME NEW m \in 1 .. len, m - 1 \in T PROVE m \in T
  <2>1. PICK g : Is(g, m - 1)
    BY <1>2
  <2> DEFINE f == [k \in 0 .. m |-> IF k = m THEN Step(g[m - 1], m) ELSE g[k]]
  <2>2. ASSUME NEW k \in 0 .. m
        PROVE  f[k] = IF k = 0 THEN out ELSE Step(f[k - 1], k)
    <3>1. CASE k = 0
      BY <2>1, <3>1
    <3>2. CASE k = m
      <4>1. f[k - 1] = g[m - 1] /\ f[k] = Step(g[m - 1], m)
        BY <3>2
      <4> QED
        BY <3>2, <4>1
    <3>3. CASE k # 0 /\ k # m
      <4>1. k \in 0 .. m - 1 /\ k - 1 \in 0 .. m /\ k - 1 # m
        BY <3>3
      <4>2. f[k] = g[k] /\ f[k - 1] = g[k - 1]
        BY <3>3, <4>1
      <4>3. g[k] = Step(g[k - 1], k)
        BY <2>1, <3>3, <4>1
      <4> QED
        BY <3>3, <4>2, <4>3
    <3> QED
      BY <3>1, <3>2, <3>3
  <2>3. Is(f, m)
    BY <2>2
  <2>4. \E e : Is(e, m)
    <3> HIDE DEF f
    <3> WITNESS f
    <3> QED
      BY <2>3
  <2> QED
    BY <2>4
<1>3. \E f : Is(f, len)
  <2> HIDE DEF T
  <2>1. 0 .. len \subseteq T
    BY <1>1, <1>2, UpTo
  <2> QED
    BY <2>1 DEF T
<1>4. r = CHOOSE f : Is(f, len)
  BY DEF CopiedInChunks, Step
<1>5. Is(r, len)
  BY <1>3, <1>4
<1>6. r[0] = out
  BY <1>5, 0 \in 0 .. len
<1>7. ASSUME NEW k \in 1 .. len PROVE r[k] = Step(r[k - 1], k)
  BY <1>5, k \in 0 .. len, k # 0
<1> QED
  BY <1>6, <1>7 DEF InChunks, Step

ByteByByte(r, out, frame_base, content, start_v, len) ==
    /\ r[0] = out
    /\ \A k \in 1 .. len :
          r[k] = ByteCopied(r[k - 1], frame_base, content, start_v + k - 1)

LEMMA BytesUnfold ==
    ASSUME NEW out, NEW frame_base, NEW content, NEW start_v, NEW len \in Nat
    PROVE  ByteByByte(CopiedByteByByte(out, frame_base, content, start_v, len),
                      out, frame_base, content, start_v, len)
<1> DEFINE r == CopiedByteByByte(out, frame_base, content, start_v, len)
           Step(x, k) == ByteCopied(x, frame_base, content, start_v + k - 1)
           Is(f, m) == f = [k \in 0 .. m |-> IF k = 0 THEN out ELSE Step(f[k - 1], k)]
           T == {m \in Nat : \E f : Is(f, m)}
<1> HIDE DEF Step
<1>1. 0 \in T
  <2>1. Is([k \in 0 .. 0 |-> out], 0)
    OBVIOUS
  <2>2. \E f : Is(f, 0)
    <3> WITNESS [k \in 0 .. 0 |-> out]
    <3> QED
      BY <2>1
  <2> QED
    BY <2>2
<1>2. ASSUME NEW m \in 1 .. len, m - 1 \in T PROVE m \in T
  <2>1. PICK g : Is(g, m - 1)
    BY <1>2
  <2> DEFINE f == [k \in 0 .. m |-> IF k = m THEN Step(g[m - 1], m) ELSE g[k]]
  <2>2. ASSUME NEW k \in 0 .. m
        PROVE  f[k] = IF k = 0 THEN out ELSE Step(f[k - 1], k)
    <3>1. CASE k = 0
      BY <2>1, <3>1
    <3>2. CASE k = m
      <4>1. f[k - 1] = g[m - 1] /\ f[k] = Step(g[m - 1], m)
        BY <3>2
      <4> QED
        BY <3>2, <4>1
    <3>3. CASE k # 0 /\ k # m
      <4>1. k \in 0 .. m - 1 /\ k - 1 \in 0 .. m /\ k - 1 # m
        BY <3>3
      <4>2. f[k] = g[k] /\ f[k - 1] = g[k - 1]
        BY <3>3, <4>1
      <4>3. g[k] = Step(g[k - 1], k)
        BY <2>1, <3>3, <4>1
      <4> QED
        BY <3>3, <4>2, <4>3
    <3> QED
      BY <3>1, <3>2, <3>3
  <2>3. Is(f, m)
    BY <2>2
  <2>4. \E e : Is(e, m)
    <3> HIDE DEF f
    <3> WITNESS f
    <3> QED
      BY <2>3
  <2> QED
    BY <2>4
<1>3. \E f : Is(f, len)
  <2> HIDE DEF T
  <2>1. 0 .. len \subseteq T
    BY <1>1, <1>2, UpTo
  <2> QED
    BY <2>1 DEF T
<1>4. r = CHOOSE f : Is(f, len)
  BY DEF CopiedByteByByte, Step
<1>5. Is(r, len)
  BY <1>3, <1>4
<1>6. r[0] = out
  BY <1>5, 0 \in 0 .. len
<1>7. ASSUME NEW k \in 1 .. len PROVE r[k] = Step(r[k - 1], k)
  BY <1>5, k \in 0 .. len, k # 0
<1> QED
  BY <1>6, <1>7 DEF ByteByByte, Step

OneByOne(r, h, body, rep, out) ==
    /\ r[0] = [ok |-> TRUE, out |-> out, lit_pos |-> 0, rep |-> rep]
    /\ \A k \in 1 .. Len(body.sequences) : r[k] = InterleavedStep(h, body, r[k - 1], k)

LEMMA InterleavedUnfold ==
    ASSUME NEW h, NEW body, NEW rep, NEW out, Len(body.sequences) \in Nat
    PROVE  OneByOne(Interleaved(h, body, rep, out), h, body, rep, out)
<1> DEFINE r == Interleaved(h, body, rep, out)
           n == Len(body.sequences)
           start == [ok |-> TRUE, out |-> out, lit_pos |-> 0, rep |-> rep]
           Step(x, k) == InterleavedStep(h, body, x, k)
           Is(f, m) == f = [k \in 0 .. m |-> IF k = 0 THEN start ELSE Step(f[k - 1], k)]
           T == {m \in Nat : \E f : Is(f, m)}
<1> HIDE DEF start, Step
<1>1. 0 \in T
  <2>1. Is([k \in 0 .. 0 |-> start], 0)
    OBVIOUS
  <2>2. \E f : Is(f, 0)
    <3> WITNESS [k \in 0 .. 0 |-> start]
    <3> QED
      BY <2>1
  <2> QED
    BY <2>2
<1>2. ASSUME NEW m \in 1 .. n, m - 1 \in T PROVE m \in T
  <2>1. PICK g : Is(g, m - 1)
    BY <1>2
  <2> DEFINE f == [k \in 0 .. m |-> IF k = m THEN Step(g[m - 1], m) ELSE g[k]]
  <2>2. ASSUME NEW k \in 0 .. m
        PROVE  f[k] = IF k = 0 THEN start ELSE Step(f[k - 1], k)
    <3>1. CASE k = 0
      BY <2>1, <3>1
    <3>2. CASE k = m
      <4>1. f[k - 1] = g[m - 1] /\ f[k] = Step(g[m - 1], m)
        BY <3>2
      <4> QED
        BY <3>2, <4>1
    <3>3. CASE k # 0 /\ k # m
      <4>1. k \in 0 .. m - 1 /\ k - 1 \in 0 .. m /\ k - 1 # m
        BY <3>3
      <4>2. f[k] = g[k] /\ f[k - 1] = g[k - 1]
        BY <3>3, <4>1
      <4>3. g[k] = Step(g[k - 1], k)
        BY <2>1, <3>3, <4>1
      <4> QED
        BY <3>3, <4>2, <4>3
    <3> QED
      BY <3>1, <3>2, <3>3
  <2>3. Is(f, m)
    BY <2>2
  <2>4. \E e : Is(e, m)
    <3> HIDE DEF f
    <3> WITNESS f
    <3> QED
      BY <2>3
  <2> QED
    BY <2>4
<1>3. \E f : Is(f, n)
  <2> HIDE DEF T
  <2>1. 0 .. n \subseteq T
    BY <1>1, <1>2, UpTo
  <2> QED
    BY <2>1 DEF T
<1>4. r = CHOOSE f : Is(f, n)
  BY DEF Interleaved, start, Step
<1>5. Is(r, n)
  BY <1>3, <1>4
<1>6. r[0] = start
  BY <1>5, 0 \in 0 .. n
<1>7. ASSUME NEW k \in 1 .. n PROVE r[k] = Step(r[k - 1], k)
  BY <1>5, k \in 0 .. n, k # 0
<1> QED
  BY <1>6, <1>7 DEF OneByOne, start, Step

-----------------------------------------------------------------------------
(* Copying a match.                                                        *)

\* new is out with n bytes added.
Grown(B, new, out, n) ==
    /\ new \in Seq(B) /\ Len(new) = Len(out) + n
    /\ \A j \in 1 .. Len(out) : new[j] = out[j]

\* Every byte after the first `from` is the one that stands offset before it.
Periodic(o, from, offset) ==
    \A j \in from + 1 .. Len(o) : o[j] = o[j - offset]

LEMMA ChunkGrows ==
    ASSUME NEW B, NEW o \in Seq(B), NEW offset \in 1 .. Len(o), NEW remaining \in Nat
    PROVE  LET c == IF remaining < offset THEN remaining ELSE offset
           IN  /\ Grown(B, ChunkCopied(o, offset, remaining), o, c)
               /\ Periodic(ChunkCopied(o, offset, remaining), Len(o), offset)
<1> DEFINE c == IF remaining < offset THEN remaining ELSE offset
           more == SubSeq(o, Len(o) - offset + 1, Len(o) - offset + c)
           r == o \o more
<1>1. Len(o) \in Nat /\ offset \in Nat /\ offset >= 1 /\ offset <= Len(o)
  OBVIOUS
<1>2. c \in Nat /\ c <= offset
  BY <1>1
<1>3. ChunkCopied(o, offset, remaining) = r
  BY DEF ChunkCopied, Back
<1> HIDE DEF c
<1>4. /\ more \in Seq(B) /\ Len(more) = c
      /\ \A i \in 1 .. c : more[i] = o[Len(o) - offset + i]
  <2>1. \A i \in Len(o) - offset + 1 .. Len(o) - offset + c : o[i] \in B
    <3> SUFFICES ASSUME NEW i \in Len(o) - offset + 1 .. Len(o) - offset + c
                 PROVE  o[i] \in B
      OBVIOUS
    <3>1. i \in 1 .. Len(o)
      BY <1>1, <1>2
    <3> QED
      BY <3>1, ElementOfSeq
  <2> DEFINE m == Len(o) - offset + 1
             n == Len(o) - offset + c
  <2>2. m \in Int /\ n \in Int /\ n - m + 1 = c
    BY <1>1, <1>2
  <2>3. /\ SubSeq(o, m, n) \in Seq(B)
        /\ Len(SubSeq(o, m, n)) = IF m <= n THEN n - m + 1 ELSE 0
        /\ \A i \in 1 .. n - m + 1 : SubSeq(o, m, n)[i] = o[m + i - 1]
    <3> HIDE DEF m, n
    <3> QED
      BY <2>1, <2>2, SubSeqProperties DEF m, n
  <2>4. (IF m <= n THEN n - m + 1 ELSE 0) = c
    BY <1>1, <1>2
  <2>5. \A i \in 1 .. c : m + i - 1 = Len(o) - offset + i
    BY <1>1, <1>2
  <2> QED
    BY <2>2, <2>3, <2>4, <2>5
<1> HIDE DEF more
<1>5. /\ r \in Seq(B) /\ Len(r) = Len(o) + c
      /\ \A i \in 1 .. Len(o) + c : r[i] = IF i <= Len(o) THEN o[i] ELSE more[i - Len(o)]
  BY <1>4, ConcatProperties
<1> HIDE DEF r
<1>6. Grown(B, r, o, c)
  BY <1>1, <1>2, <1>5 DEF Grown
<1>7. Periodic(r, Len(o), offset)
  <2> SUFFICES ASSUME NEW j \in Len(o) + 1 .. Len(r) PROVE r[j] = r[j - offset]
    BY DEF Periodic
  <2>1. /\ j \in 1 .. Len(o) + c /\ ~(j <= Len(o)) /\ j - Len(o) \in 1 .. c
        /\ j - offset \in 1 .. Len(o) + c /\ j - offset <= Len(o)
        /\ Len(o) - offset + (j - Len(o)) = j - offset
    BY <1>1, <1>2, <1>5
  <2>2. r[j] = o[j - offset]
    BY <1>4, <1>5, <2>1
  <2>3. r[j - offset] = o[j - offset]
    BY <1>5, <2>1
  <2> QED
    BY <2>2, <2>3
<1> QED
  BY <1>3, <1>6, <1>7 DEF c

\* What the loop over the chunks has copied after k turns.
LEMMA ChunksGrow ==
    ASSUME NEW B, NEW out \in Seq(B), NEW offset \in 1 .. Len(out), NEW len \in Nat
    PROVE  /\ Grown(B, CopiedInChunks(out, offset, len)[len], out, len)
           /\ Periodic(CopiedInChunks(out, offset, len)[len], Len(out), offset)
<1>0. PICK F : F = CopiedInChunks(out, offset, len)
  OBVIOUS
<1> DEFINE Good(k) == \E n \in 0 .. len :
                         /\ n >= k /\ Grown(B, F[k], out, n)
                         /\ Periodic(F[k], Len(out), offset)
           T == {k \in 0 .. len : Good(k)}
<1>1. Len(out) \in Nat /\ offset \in Nat /\ offset >= 1 /\ offset <= Len(out)
  OBVIOUS
<1>2. /\ F[0] = out
      /\ \A k \in 1 .. len :
            F[k] = ChunkCopied(F[k - 1], offset, Len(out) + len - Len(F[k - 1]))
  <2>1. InChunks(F, out, offset, len)
    BY <1>0, ChunksUnfold
  <2> QED
    BY <2>1 DEF InChunks
<1>3. 0 \in T
  <2>1. F[0] = out
    BY <1>2
  <2>2. Grown(B, F[0], out, 0) /\ Periodic(F[0], Len(out), offset)
    BY <1>1, <2>1 DEF Grown, Periodic
  <2> QED
    BY <2>2
<1>4. ASSUME NEW k \in 1 .. len, k - 1 \in T PROVE k \in T
  <2>1. PICK n \in 0 .. len :
           /\ n >= k - 1 /\ Grown(B, F[k - 1], out, n)
           /\ Periodic(F[k - 1], Len(out), offset)
    BY <1>4
  <2> DEFINE o == F[k - 1]
             remaining == Len(out) + len - Len(o)
             c == IF remaining < offset THEN remaining ELSE offset
             new == ChunkCopied(o, offset, remaining)
  <2>2. /\ o \in Seq(B) /\ Len(o) = Len(out) + n
        /\ \A j \in 1 .. Len(out) : o[j] = out[j]
    BY <2>1 DEF Grown
  <2> HIDE DEF o
  <2>3. remaining \in Nat /\ remaining = len - n /\ offset \in 1 .. Len(o)
    BY <1>1, <2>2
  <2>4. Grown(B, new, o, c) /\ Periodic(new, Len(o), offset)
    <3> HIDE DEF remaining
    <3> QED
      BY <2>2, <2>3, ChunkGrows
  <2>5. c \in Nat /\ n + c \in 0 .. len /\ n + c >= k
    BY <1>1, <2>1, <2>3
  <2>6. F[k] = new
    BY <1>2 DEF o
  <2> HIDE DEF new, c
  <2>7. Grown(B, new, out, n + c)
    <3>1. new \in Seq(B) /\ Len(new) = Len(out) + (n + c)
      BY <1>1, <2>2, <2>4, <2>5 DEF Grown
    <3>2. ASSUME NEW j \in 1 .. Len(out) PROVE new[j] = out[j]
      <4>1. j \in 1 .. Len(o)
        BY <1>1, <2>2
      <4> QED
        BY <2>2, <2>4, <4>1 DEF Grown
    <3> QED
      BY <3>1, <3>2 DEF Grown
  <2>8. Periodic(new, Len(out), offset)
    <3> SUFFICES ASSUME NEW j \in Len(out) + 1 .. Len(new) PROVE new[j] = new[j - offset]
      BY DEF Periodic
    <3>1. CASE j <= Len(o)
      <4>1. j \in Len(out) + 1 .. Len(o) /\ j \in 1 .. Len(o) /\ j - offset \in 1 .. Len(o)
        BY <1>1, <2>2, <3>1
      <4>2. o[j] = o[j - offset]
        BY <2>1, <4>1 DEF Periodic, o
      <4> QED
        BY <2>4, <4>1, <4>2 DEF Grown
    <3>2. CASE ~(j <= Len(o))
      <4>1. Len(new) \in Nat /\ Len(o) \in Nat
        BY <2>2, <2>4 DEF Grown
      <4>2. j \in Len(o) + 1 .. Len(new)
        BY <1>1, <3>2, <4>1
      <4> QED
        BY <2>4, <4>2 DEF Periodic
    <3> QED
      BY <3>1, <3>2
  <2>9. Good(k)
    BY <2>5, <2>6, <2>7, <2>8
  <2> QED
    BY <2>9
<1> HIDE DEF T
<1>5. 0 .. len \subseteq T
  BY <1>3, <1>4, UpTo
<1>6. Good(len)
  BY <1>5 DEF T
<1>7. PICK n \in 0 .. len :
         n >= len /\ Grown(B, F[len], out, n) /\ Periodic(F[len], Len(out), offset)
  BY <1>6
<1>8. n = len
  BY <1>7
<1> QED
  BY <1>0, <1>7, <1>8

\* A match within the output, one of the three ways of copying it.
LEMMA InBufferGrows ==
    ASSUME NEW B, NEW out \in Seq(B), NEW offset \in 1 .. Len(out), NEW len \in Nat
    PROVE  /\ Grown(B, CopyInBuffer(out, offset, len), out, len)
           /\ Periodic(CopyInBuffer(out, offset, len), Len(out), offset)
<1>1. Len(out) \in Nat /\ offset \in Nat /\ offset >= 1 /\ offset <= Len(out)
  OBVIOUS
<1>2. CASE offset = 1
  <2> DEFINE b == out[Len(out)]
             run == [k \in 1 .. len |-> b]
             r == out \o run
  <2>1. b \in B
    BY <1>1, ElementOfSeq
  <2> HIDE DEF b
  <2>2. run \in Seq(B) /\ Len(run) = len /\ \A i \in 1 .. len : run[i] = b
    BY <2>1
  <2> HIDE DEF run
  <2>3. /\ r \in Seq(B) /\ Len(r) = Len(out) + len
        /\ \A i \in 1 .. Len(out) + len : r[i] = IF i <= Len(out) THEN out[i] ELSE run[i - Len(out)]
    BY <2>2, ConcatProperties
  <2> HIDE DEF r
  <2>4. Grown(B, r, out, len)
    BY <1>1, <2>3 DEF Grown
  <2>5. ASSUME NEW j \in Len(out) + 1 .. Len(r) PROVE r[j] = r[j - 1]
    <3>1. /\ j \in 1 .. Len(out) + len /\ ~(j <= Len(out)) /\ j - Len(out) \in 1 .. len
          /\ j - 1 \in 1 .. Len(out) + len
      BY <1>1, <2>3
    <3>2. r[j] = b
      BY <2>2, <2>3, <3>1
    <3>3. CASE j = Len(out) + 1
      <4>1. j - 1 = Len(out) /\ j - 1 <= Len(out)
        BY <1>1, <3>3
      <4>2. r[j - 1] = out[Len(out)]
        BY <2>3, <3>1, <4>1
      <4> QED
        BY <3>2, <4>2 DEF b
    <3>4. CASE j # Len(out) + 1
      <4>1. ~(j - 1 <= Len(out)) /\ (j - 1) - Len(out) \in 1 .. len
        BY <1>1, <3>1, <3>4
      <4>2. r[j - 1] = b
        BY <2>2, <2>3, <3>1, <4>1
      <4> QED
        BY <3>2, <4>2
    <3> QED
      BY <3>3, <3>4
  <2>6. Periodic(r, Len(out), 1)
    BY <2>5 DEF Periodic
  <2>7. CopyInBuffer(out, offset, len) = r
    BY <1>2 DEF CopyInBuffer, Repeated, r, run, b
  <2> QED
    BY <1>2, <2>4, <2>6, <2>7
<1>3. CASE offset # 1 /\ offset >= len
  <2>1. (IF len < offset THEN len ELSE offset) = len
    BY <1>1, <1>3
  <2>2. CopyInBuffer(out, offset, len) = ChunkCopied(out, offset, len)
    BY <1>3, <2>1 DEF CopyInBuffer, ChunkCopied
  <2> QED
    BY <2>1, <2>2, ChunkGrows
<1>4. CASE offset # 1 /\ ~(offset >= len)
  <2>1. CopyInBuffer(out, offset, len) = CopiedInChunks(out, offset, len)[len]
    BY <1>4 DEF CopyInBuffer
  <2> QED
    BY <2>1, ChunksGrow
<1> QED
  BY <1>2, <1>3, <1>4

\* Each of the len bytes added is the one offset before it, in the dictionary
\* content followed by the frame's output.
Copied(new, out, frame_base, content, offset, len) ==
    \A i \in 1 .. len :
        LET v == Len(content) + (Len(out) - frame_base) - offset + i
        IN  new[Len(out) + i] = IF v <= Len(content) THEN content[v]
                                ELSE new[Len(out) + i - offset]

\* A match that begins in the dictionary.
LEMMA FromDictionaryGrows ==
    ASSUME NEW B, NEW out \in Seq(B), NEW content \in Seq(B),
           NEW frame_base \in 0 .. Len(out), NEW offset \in Nat, NEW len \in Nat,
           offset > Len(out) - frame_base,
           offset <= Len(out) - frame_base + Len(content)
    PROVE  /\ Grown(B, CopyFromDictionary(out, frame_base, content, offset, len), out, len)
           /\ Copied(CopyFromDictionary(out, frame_base, content, offset, len),
                     out, frame_base, content, offset, len)
<1> DEFINE start_v == Len(content) + (Len(out) - frame_base) - offset
<1>0. PICK F : F = CopiedByteByByte(out, frame_base, content, start_v, len)
  OBVIOUS
<1>1. /\ Len(out) \in Nat /\ Len(content) \in Nat /\ frame_base \in Nat
      /\ frame_base <= Len(out) /\ start_v \in Nat /\ start_v < Len(content)
      /\ offset >= 1
  OBVIOUS
<1> HIDE DEF start_v
<1>2. ByteByByte(F, out, frame_base, content, start_v, len)
  BY <1>0, BytesUnfold
<1>3. F[0] = out
  BY <1>2 DEF ByteByByte
<1>4. ASSUME NEW k \in 1 .. len
      PROVE  F[k] = ByteCopied(F[k - 1], frame_base, content, start_v + k - 1)
  BY <1>2 DEF ByteByByte
<1> DEFINE From(o, i) == IF start_v + i <= Len(content) THEN content[start_v + i]
                         ELSE o[Len(out) + i - offset]
           Good(k) == /\ Grown(B, F[k], out, k)
                      /\ \A i \in 1 .. k : F[k][Len(out) + i] = From(F[k], i)
           T == {k \in 0 .. len : Good(k)}
<1>5. 0 \in T
  <2>1. Grown(B, F[0], out, 0)
    BY <1>1, <1>3 DEF Grown
  <2> QED
    BY <2>1
<1>6. ASSUME NEW k \in 1 .. len, k - 1 \in T PROVE k \in T
  <2> DEFINE o == F[k - 1]
             s == start_v + k - 1
             b == IF s < Len(content) THEN content[s + 1]
                  ELSE o[frame_base + (s - Len(content)) + 1]
             new == Append(o, b)
  <2>1. /\ o \in Seq(B) /\ Len(o) = Len(out) + (k - 1)
        /\ \A j \in 1 .. Len(out) : o[j] = out[j]
        /\ \A i \in 1 .. k - 1 : o[Len(out) + i] = From(o, i)
    BY <1>6 DEF Grown
  <2>2. F[k] = new
    BY <1>4 DEF ByteCopied
  <2> HIDE DEF o
  <2>3. b = From(o, k)
    <3>1. s + 1 = start_v + k /\ (s < Len(content) <=> start_v + k <= Len(content))
          /\ frame_base + (s - Len(content)) + 1 = Len(out) + k - offset
      BY <1>1 DEF start_v
    <3> QED
      BY <3>1
  <2>4. b \in B
    <3>1. CASE start_v + k <= Len(content)
      <4>1. start_v + k \in 1 .. Len(content)
        BY <1>1, <3>1
      <4>2. content[start_v + k] \in B
        BY <4>1, ElementOfSeq
      <4> QED
        BY <2>3, <3>1, <4>2
    <3>2. CASE ~(start_v + k <= Len(content))
      <4>1. Len(out) + k - offset \in 1 .. Len(o)
        BY <1>1, <2>1, <3>2 DEF start_v
      <4>2. o[Len(out) + k - offset] \in B
        BY <2>1, <4>1, ElementOfSeq
      <4> QED
        BY <2>3, <3>2, <4>2
    <3> QED
      BY <3>1, <3>2
  <2> HIDE DEF b, From
  <2>5. /\ new \in Seq(B) /\ Len(new) = Len(o) + 1
        /\ \A i \in 1 .. Len(o) : new[i] = o[i]
        /\ new[Len(o) + 1] = b
    BY <2>1, <2>4, AppendProperties
  <2> HIDE DEF new
  <2>6. Grown(B, new, out, k)
    <3>1. Len(new) = Len(out) + k /\ \A j \in 1 .. Len(out) : j \in 1 .. Len(o)
      BY <1>1, <2>1, <2>5
    <3> QED
      BY <2>1, <2>5, <3>1 DEF Grown
  <2>7. ASSUME NEW i \in 1 .. k PROVE new[Len(out) + i] = From(new, i)
    <3>1. From(new, i) = From(o, i)
      <4>1. CASE start_v + i <= Len(content)
        BY <4>1 DEF From
      <4>2. CASE ~(start_v + i <= Len(content))
        <5>1. Len(out) + i - offset \in 1 .. Len(o)
          BY <1>1, <2>1, <4>2 DEF start_v
        <5> QED
          BY <2>5, <4>2, <5>1 DEF From
      <4> QED
        BY <4>1, <4>2
    <3>2. CASE i = k
      <4>1. Len(out) + i = Len(o) + 1
        BY <1>1, <2>1, <3>2
      <4> QED
        BY <2>3, <2>5, <3>1, <3>2, <4>1
    <3>3. CASE i # k
      <4>1. i \in 1 .. k - 1 /\ Len(out) + i \in 1 .. Len(o)
        BY <1>1, <2>1, <3>3
      <4> QED
        BY <2>1, <2>5, <3>1, <4>1
    <3> QED
      BY <3>2, <3>3
  <2>8. Good(k)
    BY <2>2, <2>6, <2>7
  <2> QED
    BY <2>8
<1> HIDE DEF T
<1>7. 0 .. len \subseteq T
  BY <1>5, <1>6, UpTo
<1>8. Good(len)
  BY <1>7 DEF T
<1>9. CopyFromDictionary(out, frame_base, content, offset, len) = F[len]
  BY <1>0 DEF CopyFromDictionary, start_v
<1> QED
  BY <1>8, <1>9 DEF Copied, start_v

\* copy_match, for every match it may be asked for.
THEOREM CopyMatchGrows ==
    ASSUME NEW B, NEW out \in Seq(B), NEW content \in Seq(B),
           NEW frame_base \in 0 .. Len(out), NEW offset \in Nat \ {0}, NEW len \in Nat,
           offset <= Len(out) - frame_base + Len(content)
    PROVE  /\ Grown(B, copy_match(out, frame_base, content, offset, len), out, len)
           /\ Copied(copy_match(out, frame_base, content, offset, len),
                     out, frame_base, content, offset, len)
<1>1. Len(out) \in Nat /\ Len(content) \in Nat
  OBVIOUS
<1>2. CASE offset <= Len(out) - frame_base
  <2> DEFINE new == CopyInBuffer(out, offset, len)
  <2>1. copy_match(out, frame_base, content, offset, len) = new
    BY <1>2 DEF copy_match
  <2>2. offset \in 1 .. Len(out)
    BY <1>1, <1>2
  <2>3. Grown(B, new, out, len) /\ Periodic(new, Len(out), offset)
    BY <2>2, InBufferGrows
  <2> HIDE DEF new
  <2>4. ASSUME NEW i \in 1 .. len
        PROVE  /\ ~(Len(content) + (Len(out) - frame_base) - offset + i <= Len(content))
               /\ new[Len(out) + i] = new[Len(out) + i - offset]
    <3>1. ~(Len(content) + (Len(out) - frame_base) - offset + i <= Len(content))
      BY <1>1, <1>2
    <3>2. Len(out) + i \in Len(out) + 1 .. Len(new)
      BY <1>1, <2>3 DEF Grown
    <3> QED
      BY <2>3, <3>1, <3>2 DEF Periodic
  <2>5. Copied(new, out, frame_base, content, offset, len)
    BY <2>4 DEF Copied
  <2> QED
    BY <2>1, <2>3, <2>5
<1>3. CASE ~(offset <= Len(out) - frame_base)
  <2>1. copy_match(out, frame_base, content, offset, len)
            = CopyFromDictionary(out, frame_base, content, offset, len)
    BY <1>3 DEF copy_match
  <2>2. offset > Len(out) - frame_base
    BY <1>1, <1>3
  <2> QED
    BY <2>1, <2>2, FromDictionaryGrows
<1> QED
  BY <1>2, <1>3

-----------------------------------------------------------------------------
(* A block adds to the output.                                             *)

Extends(new, out) == \E n \in Nat : Grown(Nat, new, out, n)

LEMMA ExtendsItself ==
    ASSUME NEW out \in Seq(Nat) PROVE Extends(out, out)
<1>1. Grown(Nat, out, out, 0)
  BY DEF Grown
<1> QED
  BY <1>1 DEF Extends

LEMMA ExtendsFurther ==
    ASSUME NEW a \in Seq(Nat), NEW b, NEW c, Extends(b, a), Extends(c, b)
    PROVE  Extends(c, a)
<1>1. PICK n \in Nat : Grown(Nat, b, a, n)
  BY DEF Extends
<1>2. PICK m \in Nat : Grown(Nat, c, b, m)
  BY DEF Extends
<1>3. /\ b \in Seq(Nat) /\ Len(b) = Len(a) + n /\ Len(a) \in Nat
      /\ c \in Seq(Nat) /\ Len(c) = Len(b) + m
  BY <1>1, <1>2 DEF Grown
<1>4. Len(c) = Len(a) + (n + m)
  BY <1>3
<1>5. ASSUME NEW j \in 1 .. Len(a) PROVE c[j] = a[j]
  <2>1. j \in 1 .. Len(b)
    BY <1>3
  <2>2. c[j] = b[j]
    BY <1>2, <2>1 DEF Grown
  <2> QED
    BY <1>1, <2>2 DEF Grown
<1>6. n + m \in Nat /\ Grown(Nat, c, a, n + m)
  BY <1>3, <1>4, <1>5 DEF Grown
<1> QED
  BY <1>6 DEF Extends

LEMMA ExtendsByConcat ==
    ASSUME NEW a \in Seq(Nat), NEW b \in Seq(Nat)
    PROVE  Extends(a \o b, a)
<1> DEFINE c == a \o b
<1>1. /\ c \in Seq(Nat) /\ Len(c) = Len(a) + Len(b)
      /\ \A i \in 1 .. Len(a) + Len(b) : c[i] = IF i <= Len(a) THEN a[i] ELSE b[i - Len(a)]
  BY ConcatProperties
<1>2. Len(a) \in Nat /\ Len(b) \in Nat
  OBVIOUS
<1> HIDE DEF c
<1>3. ASSUME NEW j \in 1 .. Len(a) PROVE c[j] = a[j]
  <2>1. j \in 1 .. Len(a) + Len(b) /\ j <= Len(a)
    BY <1>2
  <2> QED
    BY <1>1, <2>1
<1>4. Grown(Nat, c, a, Len(b))
  BY <1>1, <1>3 DEF Grown
<1>5. Extends(c, a)
  BY <1>2, <1>4 DEF Extends
<1> QED
  BY <1>5 DEF c

\* Where the block is: out was there before.
InPlace(h, out) ==
    h.content \in Seq(Nat) /\ h.frame_base \in Nat /\ h.frame_base <= Len(out)

\* Interleaved decoding after some sequences, as long as nothing is wrong and, of
\* the output, also when something is.
Going(acc, body, out) ==
    /\ {"ok", "out"} \subseteq DOMAIN acc /\ acc.ok \in BOOLEAN /\ Extends(acc.out, out)
    /\ acc.ok => Positive(acc.rep) /\ acc.lit_pos \in 0 .. Len(body.literals)

LEMMA OneSequenceGrows ==
    ASSUME NEW h, NEW body \in BodyType(Nat), NEW out \in Seq(Nat), InPlace(h, out),
           NEW acc, Going(acc, body, out), NEW k \in 1 .. Len(body.sequences)
    PROVE  Going(InterleavedStep(h, body, acc, k), body, out)
<1> DEFINE seq == body.sequences[k]
           rep == resolve_offset(seq.of_value, seq.lit_len, acc.rep)
           t   == [lit_len |-> seq.lit_len, offset |-> rep[1],
                   match_len |-> seq.match_len]
           lit == WithLiterals(body, acc.lit_pos, t, acc.out)
           new == copy_match(lit, h.frame_base, h.content, t.offset, t.match_len)
           bad == \/ ~acc.ok \/ rep[1] = 0 \/ k = body.overdraws
                  \/ LiteralsOverrun(body, acc.lit_pos, t)
           far == TooFar(h, lit, t.offset)
           long == TooLong(h, new)
           next == [ok |-> TRUE, out |-> new, lit_pos |-> acc.lit_pos + t.lit_len,
                    rep |-> rep]
           step == InterleavedStep(h, body, acc, k)
<1>1. step = IF bad THEN [acc EXCEPT !.ok = FALSE]
             ELSE IF far THEN [acc EXCEPT !.ok = FALSE, !.out = lit]
             ELSE IF long THEN [acc EXCEPT !.ok = FALSE, !.out = new] ELSE next
  BY DEF InterleavedStep
<1>2. CASE bad
  <2>1. step = [acc EXCEPT !.ok = FALSE]
    BY <1>1, <1>2
  <2> HIDE DEF bad, step
  <2>2. Going(step, body, out)
    BY <2>1 DEF Going
  <2> QED
    BY <2>2 DEF step
<1>3. CASE ~bad
  <2> DEFINE Sequence == [of_value : Nat \ {0}, lit_len : Nat, match_len : Nat]
  <2>1. /\ body.literals \in Seq(Nat) /\ Len(body.literals) \in Nat
        /\ body.sequences \in Seq(Sequence)
    BY DEF BodyType
  <2>2. seq \in Sequence
    BY <2>1, ElementOfSeq
  <2>3. acc.ok /\ rep[1] # 0 /\ ~LiteralsOverrun(body, acc.lit_pos, t)
    BY <1>3
  <2>4. /\ Extends(acc.out, out) /\ Positive(acc.rep)
        /\ acc.lit_pos \in 0 .. Len(body.literals)
    BY <2>3 DEF Going
  <2>5. Positive(rep) /\ rep[1] \in Nat \ {0}
    <3>1. /\ rep \in Triples /\ (rep[1] # 0 => Positive(rep))
      BY <2>2, <2>4, ResolvedOffset
    <3>2. rep \in Seq(Nat) /\ 1 \in 1 .. Len(rep)
      BY <3>1 DEF Triples
    <3>3. rep[1] \in Nat
      BY <3>2, ElementOfSeq
    <3> QED
      BY <2>3, <3>1, <3>3
  <2>6. /\ t.lit_len = seq.lit_len /\ t.match_len = seq.match_len /\ t.offset = rep[1]
        /\ t.lit_len \in Nat /\ t.match_len \in Nat /\ t.offset \in Nat \ {0}
    BY <2>2, <2>5
  <2> HIDE DEF seq, rep, t
  <2> DEFINE p == acc.lit_pos
             n == t.lit_len
             literals == body.literals
             g == p + n
             more == SubSeq(literals, p + 1, g)
  <2>7. g \in p .. Len(literals) /\ g \in 0 .. Len(literals)
    <3>1. ~(n > Len(literals) - p)
      BY <2>3 DEF LiteralsOverrun
    <3>2. n \in Nat /\ p \in 0 .. Len(literals) /\ Len(literals) \in Nat
      BY <2>1, <2>4, <2>6
    <3> HIDE DEF n, p, literals
    <3> QED
      BY <3>1, <3>2
  <2>8. more \in Seq(Nat)
    <3>1. literals \in Seq(Nat) /\ p \in 0 .. Len(literals)
      BY <2>1, <2>4
    <3> HIDE DEF literals, p, g
    <3> QED
      BY <2>7, <3>1, Slice
  <2>9. PICK o : o = acc.out
    OBVIOUS
  <2>10. o \in Seq(Nat) /\ Extends(o, out) /\ Len(o) >= Len(out)
    <3>1. PICK e \in Nat : Grown(Nat, o, out, e)
      BY <2>4, <2>9 DEF Extends
    <3>2. Len(out) \in Nat /\ o \in Seq(Nat) /\ Len(o) = Len(out) + e
      BY <3>1 DEF Grown
    <3>3. Len(o) >= Len(out)
      BY <3>2
    <3> QED
      BY <2>4, <2>9, <3>2, <3>3
  <2>11. lit = o \o more
    BY <2>9 DEF WithLiterals
  <2>12. /\ lit \in Seq(Nat) /\ Extends(lit, o) /\ Len(lit) >= Len(o)
    <3> HIDE DEF lit, more
    <3>1. lit \in Seq(Nat) /\ Len(lit) = Len(o) + Len(more)
      BY <2>8, <2>10, <2>11, ConcatProperties
    <3>2. Extends(lit, o)
      BY <2>8, <2>10, <2>11, ExtendsByConcat
    <3>3. Len(o) \in Nat /\ Len(more) \in Nat
      BY <2>8, <2>10
    <3> QED
      BY <3>1, <3>2, <3>3
  <2>13. Extends(lit, out)
    <3> HIDE DEF lit
    <3> QED
      BY <2>10, <2>12, ExtendsFurther
  <2>14. CASE far
    <3>1. step = [acc EXCEPT !.ok = FALSE, !.out = lit]
      BY <1>1, <1>3, <2>14
    <3> HIDE DEF lit, bad, far, step
    <3>2. Going(step, body, out)
      BY <2>13, <3>1 DEF Going
    <3> QED
      BY <3>2 DEF step
  <2>15. CASE ~far
    <3>1. ~TooFar(h, lit, t.offset)
      BY <2>15
    <3> HIDE DEF lit
    <3>2. Extends(new, out)
      <4> DEFINE f == h.frame_base
                 c == h.content
                 off == t.offset
                 m == t.match_len
      <4>1. /\ c \in Seq(Nat) /\ off \in Nat \ {0} /\ m \in Nat
            /\ f \in 0 .. Len(lit) /\ off <= Len(lit) - f + Len(c)
        <5>1. ~(off > (Len(lit) - f) + Len(c))
          BY <3>1 DEF TooFar
        <5>2. /\ c \in Seq(Nat) /\ off \in Nat \ {0} /\ m \in Nat /\ f \in Nat /\ f <= Len(out)
          BY <2>6 DEF InPlace
        <5> HIDE DEF f, c, off, m
        <5>3. Len(lit) \in Nat /\ Len(c) \in Nat /\ Len(out) \in Nat /\ Len(o) \in Nat
          BY <2>10, <2>12, <5>2
        <5> QED
          BY <2>10, <2>12, <5>1, <5>2, <5>3
      <4>2. Grown(Nat, new, lit, m)
        <5>1. new = copy_match(lit, f, c, off, m)
          OBVIOUS
        <5> HIDE DEF f, c, off, m, new
        <5> QED
          BY <2>12, <4>1, <5>1, CopyMatchGrows
      <4>3. Extends(new, lit)
        BY <4>1, <4>2 DEF Extends
      <4> HIDE DEF new
      <4> QED
        BY <2>12, <2>13, <4>3, ExtendsFurther
    <3> HIDE DEF new
    <3>3. CASE long
      <4>1. step = [acc EXCEPT !.ok = FALSE, !.out = new]
        BY <1>1, <1>3, <2>15, <3>3
      <4> HIDE DEF bad, far, long, step
      <4>2. Going(step, body, out)
        BY <3>2, <4>1 DEF Going
      <4> QED
        BY <4>2 DEF step
    <3>4. CASE ~long
      <4>1. step = next
        BY <1>1, <1>3, <2>15, <3>4
      <4> HIDE DEF bad, far, long, step
      <4>2. Going(step, body, out)
        BY <2>5, <2>7, <3>2, <4>1 DEF Going
      <4> QED
        BY <4>2 DEF step
    <3> QED
      BY <3>3, <3>4
  <2> QED
    BY <2>14, <2>15
<1> QED
  BY <1>2, <1>3

LEMMA InterleavedGrows ==
    ASSUME NEW h, NEW body \in BodyType(Nat), NEW out \in Seq(Nat), InPlace(h, out),
           NEW rep, Positive(rep)
    PROVE  Going(Interleaved(h, body, rep, out)[Len(body.sequences)], body, out)
<1> DEFINE n == Len(body.sequences)
<1>1. n \in Nat /\ Len(body.literals) \in Nat
  BY DEF BodyType
<1>2. PICK r : r = Interleaved(h, body, rep, out)
  OBVIOUS
<1>3. OneByOne(r, h, body, rep, out)
  BY <1>1, <1>2, InterleavedUnfold
<1> DEFINE T == {k \in 0 .. n : Going(r[k], body, out)}
<1>4. 0 \in T
  <2>1. r[0] = [ok |-> TRUE, out |-> out, lit_pos |-> 0, rep |-> rep]
    BY <1>3 DEF OneByOne
  <2>2. Extends(out, out)
    BY ExtendsItself
  <2>3. Going(r[0], body, out)
    BY <1>1, <2>1, <2>2 DEF Going
  <2> QED
    BY <1>1, <2>3
<1>5. ASSUME NEW k \in 1 .. n, k - 1 \in T PROVE k \in T
  <2>1. r[k] = InterleavedStep(h, body, r[k - 1], k)
    BY <1>3 DEF OneByOne
  <2>2. PICK acc : acc = r[k - 1]
    OBVIOUS
  <2>3. Going(acc, body, out)
    BY <1>5, <2>2
  <2>4. Going(InterleavedStep(h, body, acc, k), body, out)
    BY <2>3, OneSequenceGrows
  <2> QED
    BY <2>1, <2>2, <2>4
<1> HIDE DEF T
<1>6. 0 .. n \subseteq T
  BY <1>1, <1>4, <1>5, UpTo
<1> QED
  BY <1>1, <1>2, <1>6 DEF T

\* The sequences of a block add to the output, all of them or those before the one
\* that is refused.
LEMMA SequencesGrow ==
    ASSUME NEW h, NEW body \in BodyType(Nat), NEW out \in Seq(Nat), InPlace(h, out),
           NEW rep, Positive(rep)
    PROVE  LET seqs == InterleavedSequences(h, body, rep, out)
           IN  /\ Extends(seqs.out, out)
               /\ seqs.ok => Positive(seqs.rep)
<1> DEFINE seqs == InterleavedSequences(h, body, rep, out)
           acc  == Interleaved(h, body, rep, out)[Len(body.sequences)]
           all  == acc.out \o RestOfLiterals(body, acc.lit_pos)
<1>1. body.literals \in Seq(Nat) /\ Len(body.literals) \in Nat
  BY DEF BodyType
<1>2. Going(acc, body, out)
  BY InterleavedGrows
<1>3. seqs = AfterLast(h, body, acc)
  BY DEF InterleavedSequences
<1> HIDE DEF seqs, acc
<1>4. /\ seqs.ok => acc.ok
      /\ (seqs.out = all /\ acc.ok) \/ seqs.out = acc.out
      /\ seqs.rep = acc.rep
  BY <1>3 DEF AfterLast
<1>5. Extends(acc.out, out) /\ acc.out \in Seq(Nat)
  BY <1>2 DEF Going, Extends, Grown
<1>6. ASSUME acc.ok PROVE Extends(all, out)
  <2>1. acc.lit_pos \in 0 .. Len(body.literals)
    BY <1>2, <1>6 DEF Going
  <2>2. RestOfLiterals(body, acc.lit_pos) \in Seq(Nat)
    <3> DEFINE p == acc.lit_pos
               literals == body.literals
    <3>1. p \in 0 .. Len(literals) /\ literals \in Seq(Nat) /\ Len(literals) \in p .. Len(literals)
      BY <1>1, <2>1
    <3> HIDE DEF p, literals
    <3>2. SubSeq(literals, p + 1, Len(literals)) \in Seq(Nat)
      BY <3>1, Slice
    <3> QED
      BY <3>2 DEF RestOfLiterals, p, literals
  <2>3. Extends(all, acc.out)
    BY <1>5, <2>2, ExtendsByConcat
  <2> HIDE DEF all
  <2> QED
    BY <1>5, <2>3, ExtendsFurther
<1>7. seqs.ok => Positive(seqs.rep)
  BY <1>2, <1>4 DEF Going
<1> HIDE DEF all
<1>8. Extends(seqs.out, out)
  BY <1>4, <1>5, <1>6
<1> QED
  BY <1>7, <1>8 DEF seqs

\* A block adds to the output, accepted or not, and the offsets it leaves for the
\* next block are positive again.
THEOREM BlockGrows ==
    ASSUME NEW ctx \in FrameContexts,
           NEW body \in BodyType(Nat), NEW h,
           NEW out \in Seq(Nat), InPlace(h, out)
    PROVE  LET block == decode_compressed_block(ctx, body, h, out)
           IN  /\ Extends(block.out, out)
               /\ block.ctx \in FrameContexts
<1> DEFINE block  == decode_compressed_block(ctx, body, h, out)
           slots  == SlotsAfterLiterals(ctx, body)
           tables == SlotsAfterTables(slots, body)
           seqs   == InterleavedSequences(h, body, ctx.rep, out)
           fits   == body.exact /\ Len(out) + Len(body.literals) <= h.limit
           fails  == TablesFail(slots, body) \/ FirstPassFails(body, ctx.rep)
<1>1. body.literals \in Seq(Nat) /\ ctx.rep \in Triples /\ Positive(ctx.rep)
  BY DEF BodyType, FrameContexts, Positive
<1>2. /\ slots \in SUBSET (TableSlots \cup {"huffman"})
      /\ tables \in SUBSET (TableSlots \cup {"huffman"})
  BY DEF FrameContexts, SlotsAfterLiterals, SlotsAfterTables
<1>3. /\ Extends(out, out) /\ Extends(out \o body.literals, out) /\ Extends(seqs.out, out)
      /\ seqs.ok => Positive(seqs.rep)
  <2>1. /\ Extends(seqs.out, out)
        /\ seqs.ok => Positive(seqs.rep)
    BY <1>1, SequencesGrow
  <2> QED
    BY <1>1, <2>1, ExtendsItself, ExtendsByConcat
<1>4. block = IF LiteralsFail(ctx, body, h.block_size_max)
              THEN [ok |-> FALSE, out |-> out, ctx |-> ctx]
              ELSE IF body.sequences = <<>>
              THEN [ok |-> fits, out |-> IF fits THEN out \o body.literals ELSE out,
                    ctx |-> [ctx EXCEPT !.slots = slots]]
              ELSE IF fails
              THEN [ok |-> FALSE, out |-> out, ctx |-> [ctx EXCEPT !.slots = tables]]
              ELSE [ok |-> seqs.ok, out |-> seqs.out,
                    ctx |-> [slots |-> tables, rep |-> IF seqs.ok THEN seqs.rep ELSE ctx.rep]]
  BY DEF decode_compressed_block
<1> HIDE DEF block, seqs, slots, tables, fits, fails
<1>5. ASSUME NEW s \in SUBSET (TableSlots \cup {"huffman"}), NEW r, Positive(r)
      PROVE  [slots |-> s, rep |-> r] \in FrameContexts
  BY <1>5 DEF FrameContexts, Positive
<1>6. ASSUME NEW s \in SUBSET (TableSlots \cup {"huffman"})
      PROVE  [ctx EXCEPT !.slots = s] \in FrameContexts
  BY DEF FrameContexts
<1>7. Extends(block.out, out)
  BY <1>3, <1>4
<1>8. block.ctx \in FrameContexts
  <2>1. Positive(IF seqs.ok THEN seqs.rep ELSE ctx.rep)
    BY <1>1, <1>3
  <2>2. CASE block.ctx = ctx
    BY <2>2
  <2>3. CASE \E s \in {slots, tables} : block.ctx = [ctx EXCEPT !.slots = s]
    BY <1>2, <1>6, <2>3
  <2>4. CASE block.ctx = [slots |-> tables, rep |-> IF seqs.ok THEN seqs.rep ELSE ctx.rep]
    BY <1>2, <1>5, <2>1, <2>4
  <2> QED
    BY <1>4, <2>2, <2>3, <2>4
<1> QED
  BY <1>7, <1>8 DEF block
=============================================================================
