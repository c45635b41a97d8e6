----------------------- MODULE SequenceExecution_proof -----------------------
(***************************************************************************)
(* NothingUnderflows for every set of blocks, contexts and places: the     *)
(* offsets that reach copy_match are positive, and the subtractions of     *)
(* block.rs that would wrap at zero are never taken there.                 *)
(***************************************************************************)
EXTENDS SequenceExecution, BlockDecode_proof

\* The inductive invariant: the local history is positive until an error stops
\* the call, what was decoded from it is positive, and so is what the frame keeps.
SInv ==
    /\ block \in [ctx : Contexts, body : Bodies, place : Places]
    /\ ctx \in FrameContexts
    /\ rep \in Triples /\ (pc # "error" => Positive(rep))
    /\ decoded \in Seq([lit_len : Nat, offset : Nat \ {0}, match_len : Nat])
    /\ executed \in 0 .. Len(decoded)
    /\ lit_pos \in 0 .. Len(body.literals)

-----------------------------------------------------------------------------
\* The block is one of Bodies, and its parts have the types of a block's parts.
LEMMA BodyParts ==
    ASSUME block \in [ctx : Contexts, body : Bodies, place : Places]
    PROVE  /\ body.literals \in Seq(Nat) /\ Len(body.literals) \in Nat
           /\ body.sequences \in
                Seq([of_value : Nat \ {0}, lit_len : Nat, match_len : Nat])
<1>1. body \in BodyType(Nat)
  BY BlockAssumption DEF body
<1> QED
  BY <1>1 DEF BodyType

LEMMA SInvInit == Init => SInv
<1> SUFFICES ASSUME Init PROVE SInv
  OBVIOUS
<1>1. /\ block \in [ctx : Contexts, body : Bodies, place : Places]
      /\ block.ctx \in Contexts
      /\ ctx = block.ctx /\ rep = block.ctx.rep /\ decoded = <<>>
      /\ executed = 0 /\ lit_pos = 0
  BY DEF Init
<1>2. block.ctx \in FrameContexts /\ Positive(block.ctx.rep)
  <2> DEFINE c == block.ctx
  <2>1. /\ c \in [slots : SUBSET (TableSlots \cup {"huffman"}), rep : Seq(Nat \ {0})]
        /\ Len(c.rep) = 3
    BY <1>1, BlockAssumption
  <2>2. c.rep \in Seq(Nat \ {0}) /\ c.rep \in Seq(Nat)
    BY <2>1
  <2>3. \A k \in 1 .. 3 : c.rep[k] \in Nat \ {0}
    BY <2>1, <2>2, ElementOfSeq
  <2>4. Positive(c.rep)
    BY <2>1, <2>2, <2>3 DEF Positive, Triples
  <2> QED
    BY <2>1, <2>4 DEF FrameContexts, Positive
<1>3. Len(body.literals) \in Nat
  BY <1>1, BodyParts
<1> QED
  BY <1>1, <1>2, <1>3 DEF SInv, Positive

\* Literals that are there are still within the block once they are copied.
LEMMA LiteralsAdvance ==
    ASSUME SInv, executed < Len(decoded), ~LiteralsOverrun(body, lit_pos, t)
    PROVE  lit_pos + t.lit_len \in 0 .. Len(body.literals)
<1> DEFINE Decoded == [lit_len : Nat, offset : Nat \ {0}, match_len : Nat]
<1>1. executed + 1 \in 1 .. Len(decoded) /\ decoded \in Seq(Decoded)
  BY DEF SInv
<1>2. t \in Decoded
  BY <1>1, ElementOfSeq DEF t
<1>3. t.lit_len \in Nat
  BY <1>2
<1>4. Len(body.literals) \in Nat /\ lit_pos \in 0 .. Len(body.literals)
  BY BodyParts DEF SInv
<1> QED
  BY <1>3, <1>4 DEF LiteralsOverrun

LEMMA SInvStep == SInv /\ [Next]_vars => SInv'
<1> SUFFICES ASSUME SInv, [Next]_vars PROVE SInv'
  OBVIOUS
<1> USE DEF Goto
<1>1. CASE UNCHANGED vars
  BY <1>1 DEF vars, SInv, body, Positive
<1>2. CASE decode_literals
  BY <1>2 DEF decode_literals, SInv, body, FrameContexts, SlotsAfterLiterals
<1>3. CASE only_literals
  BY <1>3 DEF only_literals, SInv, body, Positive
<1>4. CASE build_sequence_tables
  BY <1>4 DEF build_sequence_tables, SInv, body, FrameContexts, SlotsAfterTables
<1>5. CASE decode_sequence
  <2>1. /\ pc = "decode" /\ Len(decoded) < Len(body.sequences)
        /\ rep' = resolved /\ Positive(rep)
        /\ UNCHANGED <<block, ctx, executed, lit_pos>>
    BY <1>5 DEF decode_sequence, SInv
  <2>2. /\ seq.of_value \in Nat \ {0} /\ seq.lit_len \in Nat
        /\ seq.match_len \in Nat
    <3> DEFINE Sequence == [of_value : Nat \ {0}, lit_len : Nat, match_len : Nat]
    <3>1. body.sequences \in Seq(Sequence)
      BY BodyParts DEF SInv
    <3>2. Len(decoded) \in Nat /\ Len(body.sequences) \in Nat
      BY <3>1 DEF SInv
    <3>3. Len(decoded) + 1 \in 1 .. Len(body.sequences)
      BY <2>1, <3>2
    <3>4. seq \in Sequence
      BY <3>1, <3>3, ElementOfSeq DEF seq
    <3> QED
      BY <3>4
  <2>3. resolved \in Triples /\ (resolved[1] # 0 => Positive(resolved))
    BY <2>1, <2>2, ResolvedOffset DEF resolved
  <2>4. CASE pc' = "error" /\ decoded' = decoded
    BY <2>1, <2>3, <2>4 DEF SInv, body
  <2>5. CASE /\ pc' = pc /\ resolved[1] # 0
             /\ decoded' = Append(decoded, [lit_len |-> seq.lit_len,
                                            offset |-> resolved[1],
                                            match_len |-> seq.match_len])
    <3>1. resolved[1] \in Nat \ {0}
      <4>1. resolved \in Seq(Nat) /\ Len(resolved) = 3
        BY <2>3 DEF Triples
      <4>2. resolved[1] \in Nat
        BY <4>1, 1 \in 1 .. Len(resolved), ElementOfSeq
      <4> QED
        BY <2>5, <4>2
    <3>2. /\ decoded' \in Seq([lit_len : Nat, offset : Nat \ {0}, match_len : Nat])
          /\ Len(decoded') = Len(decoded) + 1 /\ Len(decoded) \in Nat
      BY <2>2, <2>5, <3>1 DEF SInv
    <3>3. executed' \in 0 .. Len(decoded')
      BY <2>1, <3>2 DEF SInv
    <3> QED
      BY <2>1, <2>3, <2>5, <3>2, <3>3 DEF SInv, body
  <2> QED
    BY <1>5, <2>4, <2>5 DEF decode_sequence
<1>6. CASE start_execution
  BY <1>6 DEF start_execution, SInv, body, Positive
<1>7. CASE refuse_sequence
  <2>1. /\ pc = "execute" /\ executed < Len(decoded) /\ pc' = "error"
        /\ UNCHANGED <<block, ctx, rep, decoded, executed>>
    BY <1>7 DEF refuse_sequence
  <2>2. lit_pos' \in 0 .. Len(body.literals)
    <3>1. CASE LiteralsOverrun(body, lit_pos, t)
      BY <1>7, <3>1 DEF refuse_sequence, SInv
    <3>2. CASE ~LiteralsOverrun(body, lit_pos, t)
      <4>1. lit_pos' = lit_pos + t.lit_len
        BY <1>7, <3>2 DEF refuse_sequence
      <4> QED
        BY <2>1, <3>2, <4>1, LiteralsAdvance
    <3> QED
      BY <3>1, <3>2
  <2> QED
    BY <2>1, <2>2 DEF SInv, body
<1>8. CASE execute_sequence
  <2>1. /\ pc = "execute" /\ executed < Len(decoded)
        /\ ~LiteralsOverrun(body, lit_pos, t) /\ lit_pos' = lit_pos + t.lit_len
        /\ executed' = executed \/ executed' = executed + 1
        /\ pc' \in {"error", "execute"}
        /\ UNCHANGED <<block, ctx, rep, decoded>>
    BY <1>8 DEF execute_sequence
  <2>2. lit_pos' \in 0 .. Len(body.literals)
    BY <2>1, LiteralsAdvance DEF SInv
  <2>3. executed' \in 0 .. Len(decoded)
    BY <2>1 DEF SInv
  <2> QED
    BY <2>1, <2>2, <2>3 DEF SInv, body
<1>9. CASE finish_block
  <2>1. /\ pc = "execute"
        /\ ctx' = ctx \/ ctx' = [ctx EXCEPT !.rep = rep]
        /\ UNCHANGED <<block, rep, decoded, executed, lit_pos>>
    BY <1>9 DEF finish_block
  <2>2. Positive(rep) /\ ctx' \in FrameContexts
    BY <2>1 DEF SInv, FrameContexts
  <2> QED
    BY <2>1, <2>2 DEF SInv, body
<1> QED
  BY <1>1, <1>2, <1>3, <1>4, <1>5, <1>6, <1>7, <1>8, <1>9 DEF Next

\* For every block: no offset is zero, in the history or in a decoded sequence,
\* and the literals are not overrun.
THEOREM NoUnderflow == Spec => []NothingUnderflows
<1>1. SInv => NothingUnderflows
  <2> SUFFICES ASSUME SInv PROVE NothingUnderflows
    OBVIOUS
  <2> DEFINE Decoded == [lit_len : Nat, offset : Nat \ {0}, match_len : Nat]
  <2>1. pc # "error" => \A k \in 1 .. 3 : rep[k] >= 1
    BY DEF SInv, Positive
  <2>2. \A k \in 1 .. Len(decoded) : decoded[k].offset >= 1
    <3>1. decoded \in Seq(Decoded)
      BY DEF SInv
    <3>2. ASSUME NEW k \in 1 .. Len(decoded) PROVE decoded[k] \in Decoded
      BY <3>1, ElementOfSeq
    <3> QED
      BY <3>2
  <2>3. \A k \in 1 .. 3 : ctx.rep[k] >= 1
    BY DEF SInv, FrameContexts, Positive
  <2>4. lit_pos <= Len(body.literals)
    BY BodyParts DEF SInv
  <2> QED
    BY <2>1, <2>2, <2>3, <2>4 DEF NothingUnderflows
<1> QED
  BY <1>1, SInvInit, SInvStep, PTL DEF Spec

-----------------------------------------------------------------------------
(* Two passes and interleaved decoding.                                    *)

\* The histories that the offset values of the block make one after the other.
Histories == OffsetHistories(body, block.ctx.rep)

After == Interleaved(h, body, block.ctx.rep, block.place.out)

LEMMA HistoriesUnfold ==
    ASSUME Len(body.sequences) \in Nat
    PROVE  Histories =
               [k \in 0 .. Len(body.sequences) |->
                   IF k = 0 THEN block.ctx.rep
                   ELSE resolve_offset(body.sequences[k].of_value,
                                       body.sequences[k].lit_len,
                                       Histories[k - 1])]
<1> DEFINE n == Len(body.sequences)
           start == block.ctx.rep
           Step(r, k) == resolve_offset(body.sequences[k].of_value,
                                        body.sequences[k].lit_len, r)
           Is(f, m) == f = [k \in 0 .. m |-> IF k = 0 THEN start ELSE Step(f[k - 1], k)]
           T == {m \in Nat : \E f : Is(f, m)}
<1> HIDE DEF start, Step
<1>1. 0 \in T
  <2>1. Is([k \in 0 .. 0 |-> start], 0)
    OBVIOUS
  <2>2. \E f : Is(f, 0)
    <3> WITNESS [k \in 0 .. 0 |-> start]
    <3> QED
      BY <2>1
  <2> QED
    BY <2>2
<1>2. ASSUME NEW m \in 1 .. n, m - 1 \in T PROVE m \in T
  <2>1. PICK g : Is(g, m - 1)
    BY <1>2
  <2> DEFINE f == [k \in 0 .. m |-> IF k = m THEN Step(g[m - 1], m) ELSE g[k]]
  <2>2. ASSUME NEW k \in 0 .. m
        PROVE  f[k] = IF k = 0 THEN start ELSE Step(f[k - 1], k)
    <3>1. CASE k = 0
      BY <2>1, <3>1
    <3>2. CASE k = m
      <4>1. f[k - 1] = g[m - 1] /\ f[k] = Step(g[m - 1], m)
        BY <3>2
      <4> QED
        BY <3>2, <4>1
    <3>3. CASE k # 0 /\ k # m
      <4>1. k \in 0 .. m - 1 /\ k - 1 \in 0 .. m /\ k - 1 # m
        BY <3>3
      <4>2. f[k] = g[k] /\ f[k - 1] = g[k - 1]
        BY <3>3, <4>1
      <4>3. g[k] = Step(g[k - 1], k)
        BY <2>1, <3>3, <4>1
      <4> QED
        BY <3>3, <4>2, <4>3
    <3> QED
      BY <3>1, <3>2, <3>3
  <2>3. Is(f, m)
    BY <2>2
  <2>4. \E g2 : Is(g2, m)
    <3> HIDE DEF f
    <3> WITNESS f
    <3> QED
      BY <2>3
  <2>5. m \in Nat
    OBVIOUS
  <2> QED
    BY <2>4, <2>5
<1>3. \E f : Is(f, n)
  <2> HIDE DEF T
  <2>1. 0 .. n \subseteq T
    BY <1>1, <1>2, UpTo
  <2>2. n \in T
    BY <2>1
  <2> QED
    BY <2>2 DEF T
<1>4. Histories = CHOOSE f : Is(f, n)
  BY DEF Histories, OffsetHistories, start, Step
<1>5. Is(Histories, n)
  BY <1>3, <1>4
<1> QED
  BY <1>5 DEF start, Step

LEMMA AfterEach ==
    ASSUME Len(body.sequences) \in Nat
    PROVE  OneByOne(After, h, body, block.ctx.rep, block.place.out)
BY InterleavedUnfold DEF After

LEMMA FirstAfter ==
    ASSUME Len(body.sequences) \in Nat
    PROVE  /\ Histories[0] = block.ctx.rep
           /\ After[0] = [ok |-> TRUE, out |-> block.place.out, lit_pos |-> 0,
                          rep |-> block.ctx.rep]
<1>1. Histories[0] = block.ctx.rep
  BY HistoriesUnfold, 0 \in 0 .. Len(body.sequences)
<1> QED
  BY <1>1, AfterEach DEF OneByOne

LEMMA NextAfter ==
    ASSUME Len(body.sequences) \in Nat, NEW k \in 1 .. Len(body.sequences)
    PROVE  /\ Histories[k] = resolve_offset(body.sequences[k].of_value,
                                            body.sequences[k].lit_len,
                                            Histories[k - 1])
           /\ After[k] = InterleavedStep(h, body, After[k - 1], k)
<1>1. k \in 0 .. Len(body.sequences) /\ k # 0
  OBVIOUS
<1>2. After[k] = InterleavedStep(h, body, After[k - 1], k)
  BY AfterEach DEF OneByOne
<1> QED
  BY <1>1, <1>2, HistoriesUnfold

\* Interleaved decoding keeps the same histories as long as nothing is wrong ...
Accurate(k) ==
    /\ "ok" \in DOMAIN After[k] /\ After[k].ok \in BOOLEAN
    /\ After[k].ok => After[k].rep = Histories[k]

LEMMA OneMore ==
    ASSUME Len(body.sequences) \in Nat, NEW k \in 1 .. Len(body.sequences),
           Accurate(k - 1)
    PROVE  Accurate(k) /\ (~After[k - 1].ok => ~After[k].ok)
<1> DEFINE acc == After[k - 1]
           q   == body.sequences[k]
           r   == resolve_offset(q.of_value, q.lit_len, acc.rep)
           u   == [lit_len |-> q.lit_len, offset |-> r[1], match_len |-> q.match_len]
           lit == WithLiterals(body, acc.lit_pos, u, acc.out)
           o   == copy_match(lit, h.frame_base, h.content, u.offset, u.match_len)
           bad == \/ ~acc.ok \/ r[1] = 0 \/ k = body.overdraws
                  \/ LiteralsOverrun(body, acc.lit_pos, u)
           far == TooFar(h, lit, u.offset)
           long == TooLong(h, o)
<1>1. After[k] = IF bad THEN [acc EXCEPT !.ok = FALSE]
                 ELSE IF far THEN [acc EXCEPT !.ok = FALSE, !.out = lit]
                 ELSE IF long THEN [acc EXCEPT !.ok = FALSE, !.out = o]
                 ELSE [ok |-> TRUE, out |-> o,
                       lit_pos |-> acc.lit_pos + u.lit_len, rep |-> r]
  BY NextAfter DEF InterleavedStep
<1>2. ~acc.ok => bad
  OBVIOUS
<1>3. acc.ok => r = Histories[k]
  BY NextAfter DEF Accurate
<1> HIDE DEF u, lit, o, bad, far, long, r
<1>4. CASE ~(bad \/ far \/ long)
  BY <1>1, <1>2, <1>3, <1>4 DEF Accurate
<1>5. CASE bad \/ far \/ long
  BY <1>1, <1>5 DEF Accurate
<1> QED
  BY <1>4, <1>5

LEMMA AllAccurate ==
    ASSUME Len(body.sequences) \in Nat
    PROVE  \A k \in 0 .. Len(body.sequences) : Accurate(k)
<1> DEFINE n == Len(body.sequences)
           T == {k \in 0 .. n : Accurate(k)}
<1>1. 0 \in T
  <2>1. After[0].ok = TRUE /\ "ok" \in DOMAIN After[0] /\ After[0].rep = Histories[0]
    BY FirstAfter
  <2>2. Accurate(0)
    BY <2>1 DEF Accurate
  <2> QED
    BY <2>2
<1>2. ASSUME NEW k \in 1 .. n, k - 1 \in T PROVE k \in T
  BY <1>2, OneMore
<1> HIDE DEF T
<1>3. 0 .. n \subseteq T
  BY <1>1, <1>2, UpTo
<1> QED
  BY <1>3 DEF T

\* ... and once something is, the block stays refused.
LEMMA StaysRefused ==
    ASSUME Len(body.sequences) \in Nat, NEW k \in 0 .. Len(body.sequences),
           ~After[k].ok
    PROVE  ~After[Len(body.sequences)].ok
<1> DEFINE n == Len(body.sequences)
           T == {m \in 0 .. n - k : ~After[k + m].ok}
<1>1. 0 \in T
  OBVIOUS
<1>2. ASSUME NEW m \in 1 .. n - k, m - 1 \in T PROVE m \in T
  <2>1. k + m \in 1 .. n /\ (k + m) - 1 = k + (m - 1) /\ (k + m) - 1 \in 0 .. n
    OBVIOUS
  <2>2. Accurate((k + m) - 1)
    BY <2>1, AllAccurate
  <2>3. ~After[(k + m) - 1].ok
    BY <1>2, <2>1
  <2> HIDE DEF n
  <2>4. ~After[k + m].ok
    BY <2>1, <2>2, <2>3, OneMore DEF n
  <2> QED
    BY <2>4
<1> HIDE DEF T
<1>3. n - k \in Nat /\ k + (n - k) = n
  OBVIOUS
<1>4. n - k \in T
  <2>1. 0 .. n - k \subseteq T
    BY <1>1, <1>2, <1>3, UpTo
  <2> QED
    BY <1>3, <2>1
<1> QED
  BY <1>3, <1>4 DEF T

-----------------------------------------------------------------------------
(* The invariant.  Where the code is in its two passes says how far        *)
(* interleaved decoding comes with the same sequences.                     *)

AllSlots == SlotsAfterLiterals(block.ctx, body)
AllTables == SlotsAfterTables(AllSlots, body)
All == Len(body.sequences)

\* What may be wrong with the block; each makes interleaved decoding refuse it.
Cause ==
    \/ LiteralsFail(block.ctx, body, h.block_size_max)
    \/ /\ body.sequences = <<>>
       /\ ~body.exact \/ Len(block.place.out) + Len(body.literals) > h.limit
    \/ /\ body.sequences # <<>>
       /\ \/ TablesFail(AllSlots, body)
          \/ \E k \in 0 .. All : ~After[k].ok
          \/ ~AfterLast(h, body, After[All]).ok

Started ==
    /\ pc = "literals" => ctx = block.ctx
    /\ pc \notin {"literals", "error"} =>
           ~LiteralsFail(block.ctx, body, h.block_size_max)
    /\ pc = "tables" => ctx = [block.ctx EXCEPT !.slots = AllSlots]
    /\ pc \in {"literals", "tables"} => decoded = <<>> /\ rep = block.ctx.rep
    /\ pc \in {"literals", "tables", "decode"} =>
           out = block.place.out /\ lit_pos = 0 /\ executed = 0
    /\ pc \in {"decode", "execute"} =>
           /\ body.sequences # <<>> /\ ~TablesFail(AllSlots, body)
           /\ ctx = [slots |-> AllTables, rep |-> block.ctx.rep]

\* The first pass: what was decoded are the lengths and the heads of Histories.
DecodedOnly ==
    pc \in {"decode", "execute"} =>
        /\ Len(decoded) <= All /\ rep = Histories[Len(decoded)]
        /\ \A k \in 1 .. Len(decoded) :
              /\ decoded[k] = [lit_len |-> body.sequences[k].lit_len,
                               offset |-> Histories[k][1],
                               match_len |-> body.sequences[k].match_len]
              /\ Histories[k][1] # 0 /\ k # body.overdraws

\* The second pass: what was executed is what interleaved decoding has made.
ExecutedToo ==
    pc = "execute" =>
        /\ Len(decoded) = All
        /\ After[executed] = [ok |-> TRUE, out |-> out, lit_pos |-> lit_pos,
                              rep |-> Histories[executed]]

Reference == decode_compressed_block(block.ctx, body, h, block.place.out)
Agrees == Reference.ok /\ Reference.out = out /\ Reference.ctx = ctx

TInv ==
    /\ SInv /\ Started /\ DecodedOnly /\ ExecutedToo
    /\ pc \in {"literals", "tables", "decode", "execute", "done", "error"}
    /\ pc = "error" => Cause
    /\ pc = "done" => Agrees

LEMMA SequencesCount ==
    ASSUME SInv PROVE All \in Nat /\ (body.sequences # <<>> => All > 0)
BY BodyParts DEF SInv, All

LEMMA CauseRefuses ==
    ASSUME SInv, Cause PROVE ~Reference.ok
<1>1. All \in Nat
  BY SequencesCount
<1>2. CASE LiteralsFail(block.ctx, body, h.block_size_max)
  BY <1>2 DEF Reference, decode_compressed_block
<1>3. CASE ~LiteralsFail(block.ctx, body, h.block_size_max) /\ body.sequences = <<>>
  <2> DEFINE a == Len(block.place.out)
             b == Len(body.literals)
             l == h.limit
  <2>1. ~body.exact \/ a + b > l
    BY <1>3 DEF Cause
  <2>2. a \in Int /\ b \in Int /\ l \in Int
    BY BodyParts, BlockAssumption DEF SInv, h
  <2>3. ~(body.exact /\ a + b <= l) => ~Reference.ok
    BY <1>3 DEF Reference, decode_compressed_block
  <2> HIDE DEF a, b, l
  <2>4. ~(body.exact /\ a + b <= l)
    BY <2>1, <2>2
  <2> QED
    BY <2>3, <2>4
<1>4. CASE ~LiteralsFail(block.ctx, body, h.block_size_max) /\ body.sequences # <<>>
  <2> DEFINE last == AfterLast(h, body, After[All])
  <2>1. ~last.ok \/ TablesFail(AllSlots, body) => ~Reference.ok
    <3>1. \/ Reference.ok = FALSE
          \/ ~TablesFail(AllSlots, body) /\ Reference.ok = last.ok
      <4> DEFINE fails == TablesFail(AllSlots, body) \/ FirstPassFails(body, block.ctx.rep)
      <4>1. fails => Reference.ok = FALSE
        BY <1>4 DEF Reference, decode_compressed_block, AllSlots
      <4>2. ~fails => Reference.ok = last.ok
        BY <1>4 DEF Reference, decode_compressed_block, InterleavedSequences, After,
                    AllSlots, All
      <4> QED
        BY <4>1, <4>2
    <3> HIDE DEF last
    <3> QED
      BY <3>1
  <2>2. ~After[All].ok => ~last.ok
    BY DEF AfterLast
  <2>3. (\E k \in 0 .. All : ~After[k].ok) => ~After[All].ok
    BY <1>1, StaysRefused DEF All
  <2> QED
    BY <1>4, <2>1, <2>2, <2>3 DEF Cause
<1> QED
  BY <1>2, <1>3, <1>4

LEMMA TInvInit == Init => TInv
<1> SUFFICES ASSUME Init PROVE TInv
  OBVIOUS
<1>1. SInv
  BY SInvInit
<1>2. pc = "literals" /\ ctx = block.ctx /\ rep = block.ctx.rep /\ decoded = <<>>
      /\ executed = 0 /\ lit_pos = 0 /\ out = block.place.out
  BY DEF Init
<1> QED
  BY <1>1, <1>2 DEF TInv, Started, DecodedOnly, ExecutedToo

\* The arguments of the call, and all that is defined by them, stay.
LEMMA Constant ==
    ASSUME block' = block
    PROVE  /\ body' = body /\ h' = h /\ After' = After /\ Histories' = Histories
           /\ All' = All /\ AllSlots' = AllSlots /\ AllTables' = AllTables /\ (Cause' <=> Cause)
           /\ Reference' = Reference
<1>1. body' = body /\ h' = h
  BY DEF body, h
<1>2. After' = After /\ Histories' = Histories
  BY <1>1 DEF After, Histories
<1>3. All' = All /\ AllSlots' = AllSlots /\ AllTables' = AllTables /\ Reference' = Reference
  BY <1>1 DEF All, AllSlots, AllTables, Reference
<1> QED
  BY <1>1, <1>2, <1>3 DEF Cause

LEMMA LiteralsStep ==
    ASSUME TInv, SInv', decode_literals \/ only_literals \/ build_sequence_tables
    PROVE  TInv'
<1>1. block' = block
  BY DEF decode_literals, only_literals, build_sequence_tables
<1> USE <1>1, Constant DEF Goto
<1>2. CASE decode_literals
  <2>1. pc = "literals" /\ ctx = block.ctx
    BY <1>2 DEF decode_literals, TInv, Started
  <2>2. CASE LiteralsFail(ctx, body, h.block_size_max)
    <3>1. Cause /\ pc' = "error"
      BY <1>2, <2>1, <2>2 DEF Cause, decode_literals
    <3> QED
      BY <3>1 DEF TInv, Started, DecodedOnly, ExecutedToo
  <2>3. CASE ~LiteralsFail(ctx, body, h.block_size_max)
    <3>1. /\ pc' = "tables" /\ ctx' = [block.ctx EXCEPT !.slots = AllSlots]
          /\ UNCHANGED <<rep, decoded, executed, lit_pos, out>>
      BY <1>2, <2>1, <2>3 DEF decode_literals, AllSlots
    <3> QED
      BY <2>1, <2>3, <3>1 DEF TInv, Started, DecodedOnly, ExecutedToo
  <2> QED
    BY <2>2, <2>3
<1>3. CASE only_literals
  <2>1. /\ pc = "tables" /\ body.sequences = <<>> /\ out = block.place.out
        /\ ctx = [block.ctx EXCEPT !.slots = AllSlots] /\ ctx' = ctx
        /\ ~LiteralsFail(block.ctx, body, h.block_size_max)
    BY <1>3 DEF only_literals, TInv, Started
  <2>2. CASE ~body.exact \/ Len(out) + Len(body.literals) > h.limit
    <3>1. Cause /\ pc' = "error"
      BY <1>3, <2>1, <2>2 DEF Cause, only_literals
    <3> QED
      BY <3>1 DEF TInv, Started, DecodedOnly, ExecutedToo
  <2>3. CASE ~(~body.exact \/ Len(out) + Len(body.literals) > h.limit)
    <3>1. pc' = "done" /\ out' = out \o body.literals
      BY <1>3, <2>1, <2>3 DEF only_literals
    <3>2. body.exact /\ Len(out) + Len(body.literals) <= h.limit
      <4>1. /\ Len(out) \in Int /\ Len(body.literals) \in Int /\ h.limit \in Int
        BY <2>1, BodyParts, BlockAssumption DEF TInv, SInv, h
      <4> QED
        BY <2>3, <4>1
    <3>3. Agrees'
      <4>1. Reference.ok /\ Reference.out = block.place.out \o body.literals
            /\ Reference.ctx = [block.ctx EXCEPT !.slots = AllSlots]
        BY <2>1, <3>2 DEF Reference, decode_compressed_block, AllSlots
      <4>2. Reference.ok /\ Reference.out = out' /\ Reference.ctx = ctx'
        BY <2>1, <3>1, <3>2, <4>1
      <4> QED
        BY <4>2 DEF Agrees
    <3>4. SInv' /\ ~LiteralsFail(block.ctx, body, h.block_size_max)
      BY <2>1
    <3> QED
      BY <3>1, <3>3, <3>4 DEF TInv, Started, DecodedOnly, ExecutedToo
  <2> QED
    BY <2>2, <2>3
<1>4. CASE build_sequence_tables
  <2>1. /\ pc = "tables" /\ body.sequences # <<>> /\ decoded = <<>>
        /\ ctx = [block.ctx EXCEPT !.slots = AllSlots] /\ rep = block.ctx.rep
        /\ block.ctx \in Contexts
        /\ ~LiteralsFail(block.ctx, body, h.block_size_max)
    BY <1>4 DEF build_sequence_tables, TInv, Started, SInv
  <2>2. block.ctx = [slots |-> block.ctx.slots, rep |-> block.ctx.rep]
    BY <2>1, BlockAssumption
  <2>3. ctx = [slots |-> AllSlots, rep |-> block.ctx.rep]
    BY <2>1, <2>2
  <2>4. CASE TablesFail(ctx.slots, body)
    <3>1. Cause /\ pc' = "error"
      BY <1>4, <2>1, <2>3, <2>4 DEF Cause, build_sequence_tables
    <3> QED
      BY <3>1 DEF TInv, Started, DecodedOnly, ExecutedToo
  <2>5. CASE ~TablesFail(ctx.slots, body)
    <3>1. /\ pc' = "decode"
          /\ ctx' = [slots |-> AllTables, rep |-> block.ctx.rep]
          /\ UNCHANGED <<rep, decoded, executed, lit_pos, out>>
      BY <1>4, <2>1, <2>3, <2>5 DEF build_sequence_tables, AllTables
    <3>2. ~TablesFail(AllSlots, body)
      BY <2>3, <2>5
    <3>3. Started'
      BY <2>1, <3>1, <3>2 DEF TInv, Started
    <3>4. DecodedOnly'
      <4>1. Len(decoded) = 0 /\ All \in Nat /\ Histories[0] = block.ctx.rep
        BY <2>1, SequencesCount, FirstAfter DEF TInv, All
      <4> QED
        BY <2>1, <3>1, <4>1 DEF DecodedOnly
    <3> QED
      BY <3>1, <3>3, <3>4 DEF TInv, ExecutedToo
  <2> QED
    BY <2>4, <2>5
<1> QED
  BY <1>2, <1>3, <1>4

\* One turn of interleaved decoding: what makes it refuse the block, and what it
\* leaves behind if nothing does.
LEMMA Turn ==
    ASSUME All \in Nat, NEW k \in 1 .. All,
           NEW u, u = [lit_len |-> body.sequences[k].lit_len,
                       offset |-> Histories[k][1],
                       match_len |-> body.sequences[k].match_len],
           NEW pos, NEW done,
           After[k - 1] = [ok |-> TRUE, out |-> done, lit_pos |-> pos,
                           rep |-> Histories[k - 1]],
           NEW lit, lit = WithLiterals(body, pos, u, done),
           NEW o, o = copy_match(lit, h.frame_base, h.content, u.offset, u.match_len)
    PROVE  /\ \/ Histories[k][1] = 0 \/ k = body.overdraws
              \/ LiteralsOverrun(body, pos, u)
              \/ TooFar(h, lit, u.offset) \/ TooLong(h, o)
              => ~After[k].ok
           /\ ~(\/ Histories[k][1] = 0 \/ k = body.overdraws
                \/ LiteralsOverrun(body, pos, u)
                \/ TooFar(h, lit, u.offset) \/ TooLong(h, o))
              => After[k] = [ok |-> TRUE, out |-> o, lit_pos |-> pos + u.lit_len,
                             rep |-> Histories[k]]
<1> DEFINE acc == After[k - 1]
           q   == body.sequences[k]
           bad == \/ Histories[k][1] = 0 \/ k = body.overdraws
                  \/ LiteralsOverrun(body, pos, u)
                  \/ TooFar(h, lit, u.offset) \/ TooLong(h, o)
<1>1. /\ Histories[k] = resolve_offset(q.of_value, q.lit_len, acc.rep)
      /\ After[k] = InterleavedStep(h, body, acc, k)
      /\ acc.ok = TRUE /\ acc.rep = Histories[k - 1] /\ acc.out = done
      /\ acc.lit_pos = pos /\ "ok" \in DOMAIN acc
  BY NextAfter DEF All
<1> HIDE DEF acc
<1> DEFINE faulty == \/ Histories[k][1] = 0 \/ k = body.overdraws
                     \/ LiteralsOverrun(body, pos, u)
           far == TooFar(h, lit, u.offset)
           long == TooLong(h, o)
<1>2. After[k] = IF faulty THEN [acc EXCEPT !.ok = FALSE]
                 ELSE IF far THEN [acc EXCEPT !.ok = FALSE, !.out = lit]
                 ELSE IF long THEN [acc EXCEPT !.ok = FALSE, !.out = o]
                 ELSE [ok |-> TRUE, out |-> o, lit_pos |-> pos + u.lit_len,
                       rep |-> Histories[k]]
  BY <1>1 DEF InterleavedStep
<1>3. bad <=> faulty \/ far \/ long
  OBVIOUS
<1> HIDE DEF bad, faulty, far, long
<1>4. bad => ~After[k].ok
  BY <1>1, <1>2, <1>3
<1>5. ~bad => After[k] = [ok |-> TRUE, out |-> o, lit_pos |-> pos + u.lit_len,
                          rep |-> Histories[k]]
  BY <1>2, <1>3
<1> QED
  BY <1>4, <1>5 DEF bad

\* An offset of zero, or bits that are not there, stop interleaved decoding at
\* this sequence, if nothing has stopped it before.
LEMMA FaultyOffset ==
    ASSUME All \in Nat, NEW k \in 1 .. All,
           Histories[k][1] = 0 \/ k = body.overdraws
    PROVE  ~After[k].ok
<1>1. Accurate(k - 1) /\ (~After[k - 1].ok => ~After[k].ok)
  <2>1. k - 1 \in 0 .. All
    OBVIOUS
  <2>2. Accurate(k - 1)
    BY <2>1, AllAccurate DEF All
  <2> QED
    BY <2>2, OneMore DEF All
<1>2. CASE After[k - 1].ok
  <2> DEFINE acc == After[k - 1]
             q   == body.sequences[k]
  <2>1. /\ Histories[k] = resolve_offset(q.of_value, q.lit_len, acc.rep)
        /\ After[k] = InterleavedStep(h, body, acc, k) /\ "ok" \in DOMAIN acc
    BY <1>1, <1>2, NextAfter DEF All, Accurate
  <2> HIDE DEF acc
  <2>2. After[k] = [acc EXCEPT !.ok = FALSE]
    BY <2>1 DEF InterleavedStep
  <2> QED
    BY <2>1, <2>2
<1> QED
  BY <1>1, <1>2

LEMMA DecodeStep ==
    ASSUME TInv, SInv', decode_sequence \/ start_execution
    PROVE  TInv'
<1>1. block' = block
  BY DEF decode_sequence, start_execution
<1> USE <1>1, Constant DEF Goto
<1>2. /\ pc = "decode" /\ All \in Nat /\ Len(decoded) \in Nat /\ Len(decoded) <= All
      /\ body.sequences # <<>>
  BY SequencesCount DEF decode_sequence, start_execution, TInv, DecodedOnly, Started, SInv
<1> DEFINE k == Len(decoded) + 1
<1>3. CASE decode_sequence
  <2>1. /\ k \in 1 .. All /\ k - 1 = Len(decoded) /\ rep = Histories[k - 1]
        /\ resolved = Histories[k] /\ seq = body.sequences[k]
    <3>1. k \in 1 .. All /\ k - 1 = Len(decoded)
      BY <1>2, <1>3 DEF decode_sequence, All
    <3>2. rep = Histories[k - 1]
      BY <1>2, <3>1 DEF TInv, DecodedOnly
    <3>3. Histories[k] = resolve_offset(body.sequences[k].of_value,
                                        body.sequences[k].lit_len, Histories[k - 1])
      BY <1>2, <3>1, NextAfter DEF All
    <3> QED
      BY <3>1, <3>2, <3>3 DEF resolved, seq
  <2>2. CASE resolved[1] = 0 \/ k = body.overdraws
    <3>1. pc' = "error"
      BY <1>3, <2>2 DEF decode_sequence
    <3>2. ~After[k].ok
      BY <1>2, <2>1, <2>2, FaultyOffset
    <3>3. Cause
      <4>1. k \in 0 .. All
        BY <2>1
      <4> HIDE DEF k
      <4> QED
        BY <1>2, <3>2, <4>1 DEF Cause
    <3> QED
      BY <3>1, <3>3 DEF TInv, Started, DecodedOnly, ExecutedToo
  <2>3. CASE ~(resolved[1] = 0 \/ k = body.overdraws)
    <3> DEFINE new == [lit_len |-> body.sequences[k].lit_len,
                       offset |-> Histories[k][1],
                       match_len |-> body.sequences[k].match_len]
    <3>1. /\ pc' = "decode" /\ rep' = Histories[k] /\ decoded' = Append(decoded, new)
          /\ UNCHANGED <<ctx, executed, lit_pos, out>>
      BY <1>2, <1>3, <2>1, <2>3 DEF decode_sequence
    <3>2. decoded \in Seq([lit_len : Nat, offset : Nat \ {0}, match_len : Nat])
      BY DEF TInv, SInv
    <3> HIDE DEF new
    <3>3. /\ Len(decoded') = k /\ decoded'[k] = new
          /\ \A j \in 1 .. Len(decoded) : decoded'[j] = decoded[j]
      BY <3>1, <3>2
    <3>4. DecodedOnly'
      <4>1. Len(decoded') <= All /\ rep' = Histories[Len(decoded')]
        BY <2>1, <3>1, <3>3
      <4>2. ASSUME NEW j \in 1 .. Len(decoded')
            PROVE  /\ decoded'[j] = [lit_len |-> body.sequences[j].lit_len,
                                     offset |-> Histories[j][1],
                                     match_len |-> body.sequences[j].match_len]
                   /\ Histories[j][1] # 0 /\ j # body.overdraws
        <5>1. CASE j = k
          BY <2>1, <2>3, <3>3, <5>1 DEF new
        <5>2. CASE j # k
          <6>1. j \in 1 .. Len(decoded)
            BY <1>2, <3>3, <5>2
          <6> QED
            BY <1>2, <3>3, <6>1 DEF TInv, DecodedOnly
        <5> QED
          BY <5>1, <5>2
      <4> HIDE DEF k
      <4> QED
        BY <4>1, <4>2 DEF DecodedOnly
    <3>5. Started'
      BY <1>2, <3>1 DEF TInv, Started
    <3> QED
      BY <3>1, <3>4, <3>5 DEF TInv, ExecutedToo
  <2> QED
    BY <2>2, <2>3
<1>4. CASE start_execution
  <2>1. /\ pc' = "execute" /\ Len(decoded) = All
        /\ UNCHANGED <<ctx, rep, decoded, executed, lit_pos, out>>
    BY <1>4 DEF start_execution, All
  <2>2. /\ executed = 0 /\ out = block.place.out /\ lit_pos = 0
    BY <1>2 DEF TInv, Started
  <2>3. After[0] = [ok |-> TRUE, out |-> out, lit_pos |-> 0, rep |-> Histories[0]]
    BY <1>2, <2>2, FirstAfter DEF All
  <2>4. ExecutedToo'
    BY <2>1, <2>2, <2>3 DEF ExecutedToo
  <2>5. Started' /\ DecodedOnly'
    BY <1>2, <2>1 DEF TInv, Started, DecodedOnly
  <2> QED
    BY <2>1, <2>4, <2>5 DEF TInv
<1> QED
  BY <1>3, <1>4

LEMMA ExecuteStep ==
    ASSUME TInv, SInv', refuse_sequence \/ execute_sequence
    PROVE  TInv'
<1>1. block' = block
  BY DEF refuse_sequence, execute_sequence
<1> USE <1>1, Constant DEF Goto
<1>2. /\ pc = "execute" /\ executed < Len(decoded) /\ Len(decoded) = All /\ All \in Nat
      /\ executed \in Nat /\ body.sequences # <<>>
  BY SequencesCount DEF refuse_sequence, execute_sequence, TInv, ExecutedToo, Started, SInv
<1> DEFINE k == executed + 1
           o == copy_match(literals_out, h.frame_base, h.content, t.offset, t.match_len)
<1>3. k \in 1 .. All /\ k - 1 = executed
  BY <1>2
<1>4. /\ t = [lit_len |-> body.sequences[k].lit_len, offset |-> Histories[k][1],
              match_len |-> body.sequences[k].match_len]
      /\ Histories[k][1] # 0 /\ k # body.overdraws
  BY <1>2, <1>3 DEF t, TInv, DecodedOnly
<1>5. After[k - 1] = [ok |-> TRUE, out |-> out, lit_pos |-> lit_pos,
                      rep |-> Histories[k - 1]]
  BY <1>2, <1>3 DEF TInv, ExecutedToo
<1>6. literals_out = WithLiterals(body, lit_pos, t, out)
  BY DEF literals_out
<1>7. /\ \/ LiteralsOverrun(body, lit_pos, t)
         \/ TooFar(h, literals_out, t.offset) \/ TooLong(h, o)
         => ~After[k].ok
      /\ ~(\/ LiteralsOverrun(body, lit_pos, t)
           \/ TooFar(h, literals_out, t.offset) \/ TooLong(h, o))
         => After[k] = [ok |-> TRUE, out |-> o, lit_pos |-> lit_pos + t.lit_len,
                        rep |-> Histories[k]]
  <2> HIDE DEF k
  <2> QED
    BY <1>2, <1>3, <1>4, <1>5, <1>6, Turn
<1>8. ~After[k].ok => Cause
  <2>1. k \in 0 .. All
    BY <1>3
  <2> HIDE DEF k
  <2> QED
    BY <1>2, <2>1 DEF Cause
<1> HIDE DEF o
<1>9. CASE refuse_sequence
  <2>1. pc' = "error" /\ (LiteralsOverrun(body, lit_pos, t) \/ TooFar(h, literals_out, t.offset))
    BY <1>9 DEF refuse_sequence
  <2>2. Cause
    BY <1>7, <1>8, <2>1
  <2> QED
    BY <2>1, <2>2 DEF TInv, Started, DecodedOnly, ExecutedToo
<1>10. CASE execute_sequence
  <2>1. /\ ~LiteralsOverrun(body, lit_pos, t) /\ ~TooFar(h, literals_out, t.offset)
        /\ lit_pos' = lit_pos + t.lit_len /\ out' = o
        /\ UNCHANGED <<ctx, rep, decoded>>
    BY <1>10 DEF execute_sequence, o
  <2>2. CASE TooLong(h, o)
    <3>1. pc' = "error" /\ Cause
      BY <1>7, <1>8, <1>10, <2>1, <2>2 DEF execute_sequence
    <3> QED
      BY <3>1 DEF TInv, Started, DecodedOnly, ExecutedToo
  <2>3. CASE ~TooLong(h, o)
    <3>1. pc' = "execute" /\ executed' = k
      BY <1>2, <1>10, <2>1, <2>3 DEF execute_sequence
    <3>2. After[k] = [ok |-> TRUE, out |-> out', lit_pos |-> lit_pos',
                      rep |-> Histories[k]]
      BY <1>7, <2>1, <2>3
    <3> HIDE DEF k
    <3>3. ExecutedToo'
      BY <1>2, <2>1, <3>1, <3>2 DEF ExecutedToo
    <3>4. Started' /\ DecodedOnly'
      BY <1>2, <2>1, <3>1 DEF TInv, Started, DecodedOnly
    <3> QED
      BY <3>1, <3>3, <3>4 DEF TInv
  <2> QED
    BY <2>2, <2>3
<1> QED
  BY <1>9, <1>10

LEMMA FinishStep ==
    ASSUME TInv, SInv', finish_block PROVE TInv'
<1>1. block' = block
  BY DEF finish_block
<1> USE <1>1, Constant DEF Goto
<1>2. /\ pc = "execute" /\ executed = All /\ All \in Nat /\ body.sequences # <<>>
      /\ rep = Histories[All] /\ ~TablesFail(AllSlots, body)
      /\ ~LiteralsFail(block.ctx, body, h.block_size_max)
      /\ ctx = [slots |-> AllTables, rep |-> block.ctx.rep]
      /\ After[All] = [ok |-> TRUE, out |-> out, lit_pos |-> lit_pos, rep |-> rep]
  BY SequencesCount DEF finish_block, TInv, ExecutedToo, DecodedOnly, Started
<1> DEFINE all == out \o RestOfLiterals(body, lit_pos)
<1>3. /\ body.exact => AfterLast(h, body, After[All]).out = all
      /\ AfterLast(h, body, After[All]).rep = rep
      /\ ~body.exact \/ TooLong(h, all) => ~AfterLast(h, body, After[All]).ok
      /\ ~(~body.exact \/ TooLong(h, all)) => AfterLast(h, body, After[All]).ok
  <2> DEFINE acc == After[All]
  <2>1. /\ acc.ok = TRUE /\ acc.out = out /\ acc.lit_pos = lit_pos /\ acc.rep = rep
    BY <1>2
  <2> HIDE DEF acc
  <2> DEFINE good == acc.ok /\ body.exact /\ ~TooLong(h, all)
             last == [ok |-> good, out |-> IF acc.ok /\ body.exact THEN all ELSE acc.out,
                      rep |-> rep]
  <2>2. AfterLast(h, body, acc) = last
    BY <2>1 DEF AfterLast
  <2>3. (body.exact => last.out = all) /\ last.rep = rep
    BY <2>1
  <2>4. ~body.exact \/ TooLong(h, all) => ~last.ok
    <3>1. ASSUME ~body.exact \/ TooLong(h, all) PROVE good = FALSE
      BY <3>1
    <3> HIDE DEF good
    <3>2. good = FALSE => ~last.ok
      OBVIOUS
    <3> QED
      BY <3>1, <3>2
  <2>5. ~(~body.exact \/ TooLong(h, all)) => last.ok
    <3>1. ASSUME ~(~body.exact \/ TooLong(h, all)) PROVE good = TRUE
      BY <2>1, <3>1
    <3> HIDE DEF good
    <3>2. good = TRUE => last.ok
      OBVIOUS
    <3> QED
      BY <3>1, <3>2
  <2> HIDE DEF last, all
  <2> QED
    BY <2>2, <2>3, <2>4, <2>5 DEF acc
<1> HIDE DEF all
<1>4. ~FirstPassFails(body, block.ctx.rep)
  <2>1. \A k \in 1 .. All : Histories[k][1] # 0 /\ k # body.overdraws
    BY <1>2 DEF finish_block, TInv, DecodedOnly, ExecutedToo
  <2> QED
    BY <2>1 DEF FirstPassFails, Histories, All
<1>5. CASE ~body.exact \/ TooLong(h, all)
  <2>1. pc' = "error"
    BY <1>5 DEF finish_block, all
  <2>2. ~AfterLast(h, body, After[All]).ok
    BY <1>3, <1>5
  <2>3. Cause
    BY <1>2, <2>2 DEF Cause
  <2> QED
    BY <2>1, <2>3 DEF TInv, Started, DecodedOnly, ExecutedToo
<1>6. CASE body.exact /\ ~TooLong(h, all)
  <2>1. pc' = "done" /\ out' = all /\ ctx' = [ctx EXCEPT !.rep = rep]
    BY <1>6 DEF finish_block, all
  <2>2. ctx' = [slots |-> AllTables, rep |-> rep]
    BY <1>2, <2>1
  <2>3. AfterLast(h, body, After[All]).ok =>
            Reference = [ok |-> AfterLast(h, body, After[All]).ok,
                         out |-> AfterLast(h, body, After[All]).out,
                         ctx |-> [slots |-> AllTables,
                                  rep |-> AfterLast(h, body, After[All]).rep]]
    <3> DEFINE last == AfterLast(h, body, After[All])
    <3>1. Reference = [ok |-> last.ok, out |-> last.out,
                       ctx |-> [slots |-> AllTables,
                                rep |-> IF last.ok THEN last.rep ELSE block.ctx.rep]]
      BY <1>2, <1>4 DEF Reference, decode_compressed_block, InterleavedSequences, After,
                        AllSlots, AllTables, All
    <3> HIDE DEF last
    <3>2. last.ok => Reference = [ok |-> last.ok, out |-> last.out,
                                  ctx |-> [slots |-> AllTables, rep |-> last.rep]]
      BY <3>1
    <3> QED
      BY <3>2 DEF last
  <2>4. AfterLast(h, body, After[All]).ok /\ AfterLast(h, body, After[All]).out = all
        /\ AfterLast(h, body, After[All]).rep = rep
    BY <1>3, <1>6
  <2>5. Reference.ok /\ Reference.out = out' /\ Reference.ctx = ctx'
    BY <1>2, <2>1, <2>2, <2>3, <2>4
  <2>6. Agrees'
    BY <2>5 DEF Agrees
  <2> QED
    BY <1>2, <2>1, <2>6 DEF TInv, Started, DecodedOnly, ExecutedToo
<1> QED
  BY <1>5, <1>6

LEMMA TInvStep == TInv /\ [Next]_vars => TInv'
<1> SUFFICES ASSUME TInv, [Next]_vars PROVE TInv'
  OBVIOUS
<1>1. SInv'
  BY SInvStep DEF TInv
<1>2. CASE UNCHANGED vars
  <2>1. block' = block
    BY <1>2 DEF vars
  <2> QED
    BY <1>1, <1>2, <2>1, Constant
    DEF vars, TInv, Started, DecodedOnly, ExecutedToo, Agrees
<1>3. CASE Next
  BY <1>1, <1>3, LiteralsStep, DecodeStep, ExecuteStep, FinishStep DEF Next
<1> QED
  BY <1>2, <1>3

\* For every block: decoding all sequences and then executing them (block.rs)
\* accepts what interleaved decoding accepts, writes the same bytes and leaves the
\* same tables and offsets behind, and refuses what it refuses.
THEOREM TwoPassesAreOne == Spec => []TwoPassIsInterleaved
<1>1. TInv => TwoPassIsInterleaved
  <2> SUFFICES ASSUME TInv PROVE TwoPassIsInterleaved
    OBVIOUS
  <2>1. pc = "done" => Agrees
    BY DEF TInv
  <2>2. pc = "error" => ~Reference.ok
    BY CauseRefuses DEF TInv
  <2> QED
    BY <2>1, <2>2 DEF TwoPassIsInterleaved, Agrees, Reference
<1> QED
  BY <1>1, TInvInit, TInvStep, PTL DEF Spec

-----------------------------------------------------------------------------
(* The copied matches.                                                     *)

\* What is in the output stays there, and with it the place of the frame.
OInv == out \in Seq(Nat) /\ Len(out) >= Len(block.place.out)

LEMMA FramePlace ==
    ASSUME SInv, OInv
    PROVE  /\ h.content \in Seq(Nat) /\ h.frame_base \in 0 .. Len(out)
           /\ Len(h.content) \in Nat /\ Len(out) \in Nat
<1>1. block.place \in Places
  BY DEF SInv
<1>2. /\ block.place.out \in Seq(Nat) /\ h.content \in Seq(Nat)
      /\ h.frame_base \in 0 .. Len(block.place.out)
  BY <1>1, BlockAssumption DEF h
<1>3. Len(block.place.out) \in Nat /\ Len(h.content) \in Nat /\ Len(out) \in Nat
  BY <1>2 DEF OInv
<1> QED
  BY <1>2, <1>3 DEF OInv

LEMMA AddedLiterals ==
    ASSUME SInv, OInv, NEW p \in 0 .. Len(body.literals),
           NEW n \in Nat, p + n <= Len(body.literals)
    PROVE  LET new == out \o SubSeq(body.literals, p + 1, p + n)
           IN  new \in Seq(Nat) /\ Len(new) = Len(out) + n
<1>1. body.literals \in Seq(Nat) /\ Len(body.literals) \in Nat
  BY BodyParts DEF SInv
<1> DEFINE l == body.literals
           g == p + n
           more == SubSeq(l, p + 1, g)
<1>2. l \in Seq(Nat) /\ p \in 0 .. Len(l) /\ g \in p .. Len(l) /\ g - p = n
  BY <1>1
<1> HIDE DEF l, g
<1>3. more \in Seq(Nat) /\ Len(more) = n
  BY <1>2, Slice
<1>4. out \in Seq(Nat)
  BY DEF OInv
<1> HIDE DEF more
<1>5. out \o more \in Seq(Nat) /\ Len(out \o more) = Len(out) + n
  BY <1>3, <1>4, ConcatProperties
<1> QED
  BY <1>5 DEF more, l, g

\* The sequence at work, its literals copied.
LEMMA LiteralsOut ==
    ASSUME SInv, OInv, executed < Len(decoded), ~LiteralsOverrun(body, lit_pos, t)
    PROVE  /\ t.lit_len \in Nat /\ t.offset \in Nat \ {0} /\ t.match_len \in Nat
           /\ literals_out \in Seq(Nat) /\ Len(literals_out) = Len(out) + t.lit_len
<1> DEFINE Decoded == [lit_len : Nat, offset : Nat \ {0}, match_len : Nat]
<1>1. executed + 1 \in 1 .. Len(decoded) /\ decoded \in Seq(Decoded)
  BY DEF SInv
<1>2. t \in Decoded
  BY <1>1, ElementOfSeq DEF t
<1>3. t.lit_len \in Nat /\ lit_pos \in 0 .. Len(body.literals)
  BY <1>2 DEF SInv
<1>4. lit_pos + t.lit_len <= Len(body.literals)
  BY LiteralsAdvance
<1>5. literals_out = out \o SubSeq(body.literals, lit_pos + 1, lit_pos + t.lit_len)
  BY DEF literals_out, WithLiterals
<1> QED
  BY <1>2, <1>3, <1>4, <1>5, AddedLiterals

LEMMA MatchOut ==
    ASSUME SInv, OInv, execute_sequence
    PROVE  /\ Grown(Nat, out', literals_out, t.match_len)
           /\ Copied(out', literals_out, h.frame_base, h.content, t.offset, t.match_len)
           /\ Len(out') = Len(out) + t.lit_len + t.match_len
<1>1. /\ executed < Len(decoded) /\ ~LiteralsOverrun(body, lit_pos, t)
      /\ ~TooFar(h, literals_out, t.offset)
      /\ out' = copy_match(literals_out, h.frame_base, h.content, t.offset, t.match_len)
  BY DEF execute_sequence
<1>2. /\ t.lit_len \in Nat /\ t.offset \in Nat \ {0} /\ t.match_len \in Nat
      /\ literals_out \in Seq(Nat) /\ Len(literals_out) = Len(out) + t.lit_len
  BY <1>1, LiteralsOut
<1>3. /\ h.content \in Seq(Nat) /\ h.frame_base \in 0 .. Len(out)
      /\ Len(h.content) \in Nat /\ Len(out) \in Nat
  BY FramePlace
<1>4. /\ h.frame_base \in 0 .. Len(literals_out)
      /\ t.offset <= Len(literals_out) - h.frame_base + Len(h.content)
  <2> DEFINE a == Len(literals_out)
             f == h.frame_base
             c == Len(h.content)
             o == t.offset
  <2>1. ~(o > (a - f) + c)
    BY <1>1 DEF TooFar
  <2>2. a \in Nat /\ f \in Nat /\ c \in Nat /\ o \in Nat /\ f <= a
    BY <1>2, <1>3
  <2> HIDE DEF a, f, c, o
  <2>3. o <= (a - f) + c /\ f \in 0 .. a
    BY <2>1, <2>2
  <2> QED
    BY <2>3 DEF a, f, c, o
<1> DEFINE lit == literals_out
           m == t.match_len
           off == t.offset
<1>5. lit \in Seq(Nat) /\ m \in Nat /\ off \in Nat \ {0}
  BY <1>2
<1>6. h.frame_base \in 0 .. Len(lit) /\ off <= Len(lit) - h.frame_base + Len(h.content)
  BY <1>4
<1>7. out' = copy_match(lit, h.frame_base, h.content, off, m)
  BY <1>1
<1> HIDE DEF lit, m, off
<1>8. /\ Grown(Nat, out', lit, m)
      /\ Copied(out', lit, h.frame_base, h.content, off, m)
  BY <1>3, <1>5, <1>6, <1>7, CopyMatchGrows
<1>9. Len(out') = Len(lit) + m
  BY <1>8 DEF Grown
<1> QED
  BY <1>2, <1>8, <1>9 DEF lit, m, off

LEMMA OInvInit == Init => OInv
<1> SUFFICES ASSUME Init PROVE OInv
  OBVIOUS
<1>1. block.place \in Places /\ out = block.place.out
  BY DEF Init
<1>2. out \in Seq(Nat)
  BY <1>1, BlockAssumption
<1>3. Len(out) \in Nat
  BY <1>2
<1> QED
  BY <1>1, <1>2, <1>3 DEF OInv

LEMMA OInvStep == SInv /\ OInv /\ [Next]_vars => OInv'
<1> SUFFICES ASSUME SInv, OInv, [Next]_vars PROVE OInv'
  OBVIOUS
<1> USE DEF Goto
<1>1. /\ out \in Seq(Nat) /\ Len(out) \in Nat
      /\ Len(block.place.out) \in Nat /\ Len(out) >= Len(block.place.out)
  <2>1. block.place \in Places
    BY DEF SInv
  <2>2. block.place.out \in Seq(Nat)
    BY <2>1, BlockAssumption
  <2> QED
    BY <2>2 DEF OInv
<1>2. block' = block
  BY DEF Next, vars, decode_literals, only_literals, build_sequence_tables,
         decode_sequence, start_execution, refuse_sequence, execute_sequence,
         finish_block
<1>3. /\ body.literals \in Seq(Nat) /\ Len(body.literals) \in Nat
      /\ lit_pos \in 0 .. Len(body.literals)
  BY BodyParts DEF SInv
<1>4. CASE out' = out
  BY <1>1, <1>2, <1>4 DEF OInv
<1>5. ASSUME NEW n \in Nat, out' \in Seq(Nat), Len(out') = Len(out) + n
      PROVE  OInv'
  <2>1. Len(out') >= Len(block.place.out)
    BY <1>1, <1>5
  <2> QED
    BY <1>2, <1>5, <2>1 DEF OInv
<1>6. CASE only_literals
  <2>1. out' = out \/ out' = out \o body.literals
    BY <1>6 DEF only_literals
  <2>2. /\ out \o body.literals \in Seq(Nat)
        /\ Len(out \o body.literals) = Len(out) + Len(body.literals)
    BY <1>1, <1>3, ConcatProperties
  <2> QED
    BY <1>3, <1>4, <1>5, <2>1, <2>2
<1>7. CASE refuse_sequence
  <2>1. executed < Len(decoded)
    BY <1>7 DEF refuse_sequence
  <2>2. CASE LiteralsOverrun(body, lit_pos, t)
    BY <1>4, <1>7, <2>2 DEF refuse_sequence
  <2>3. CASE ~LiteralsOverrun(body, lit_pos, t)
    <3>1. out' = literals_out
      BY <1>7, <2>3 DEF refuse_sequence
    <3>2. /\ t.lit_len \in Nat /\ out' \in Seq(Nat)
          /\ Len(out') = Len(out) + t.lit_len
      BY <2>1, <2>3, <3>1, LiteralsOut
    <3> QED
      BY <1>5, <3>2
  <2> QED
    BY <2>2, <2>3
<1>8. CASE execute_sequence
  <2>1. executed < Len(decoded) /\ ~LiteralsOverrun(body, lit_pos, t)
    BY <1>8 DEF execute_sequence
  <2>2. t.lit_len \in Nat /\ t.match_len \in Nat
    BY <2>1, LiteralsOut
  <2>3. out' \in Seq(Nat) /\ Len(out') = Len(out) + t.lit_len + t.match_len
    BY <1>8, MatchOut DEF Grown
  <2> DEFINE n == t.lit_len + t.match_len
  <2>4. n \in Nat /\ Len(out') = Len(out) + n
    BY <1>1, <2>2, <2>3
  <2> HIDE DEF n
  <2> QED
    BY <1>5, <2>3, <2>4
<1>9. CASE finish_block
  <2>1. out' = out \/ out' = out \o SubSeq(body.literals, lit_pos + 1, Len(body.literals))
    BY <1>9 DEF finish_block, RestOfLiterals
  <2> DEFINE n == Len(body.literals) - lit_pos
  <2>2. n \in Nat /\ lit_pos + n = Len(body.literals)
    BY <1>3
  <2> HIDE DEF n
  <2>3. LET new == out \o SubSeq(body.literals, lit_pos + 1, lit_pos + n)
        IN  new \in Seq(Nat) /\ Len(new) = Len(out) + n
    BY <1>3, <2>2, AddedLiterals
  <2> QED
    BY <1>4, <1>5, <2>1, <2>2, <2>3
<1>10. CASE decode_literals \/ build_sequence_tables \/ decode_sequence
              \/ start_execution \/ UNCHANGED vars
  BY <1>4, <1>10 DEF decode_literals, build_sequence_tables, decode_sequence,
                     start_execution, vars
<1> QED
  BY <1>6, <1>7, <1>8, <1>9, <1>10 DEF Next

\* A byte of the dictionary content c, followed by the output o from f on.
LEMMA ByteOfVirtual ==
    ASSUME NEW c \in Seq(Nat), NEW o \in Seq(Nat), NEW f \in 0 .. Len(o)
    PROVE  LET v == c \o SubSeq(o, f + 1, Len(o))
           IN  /\ Len(v) = Len(c) + (Len(o) - f)
               /\ \A i \in 1 .. Len(c) + (Len(o) - f) :
                     v[i] = IF i <= Len(c) THEN c[i] ELSE o[f + i - Len(c)]
<1> DEFINE own == SubSeq(o, f + 1, Len(o))
<1>1. Len(c) \in Nat /\ Len(o) \in Nat
  OBVIOUS
<1>2. /\ own \in Seq(Nat) /\ Len(own) = Len(o) - f
      /\ \A i \in 1 .. Len(o) - f : own[i] = o[f + i]
  BY Len(o) \in f .. Len(o), Slice
<1> HIDE DEF own
<1>3. /\ Len(c \o own) = Len(c) + Len(own)
      /\ \A i \in 1 .. Len(c) + Len(own) :
            (c \o own)[i] = IF i <= Len(c) THEN c[i] ELSE own[i - Len(c)]
  BY <1>2, ConcatProperties
<1>4. ASSUME NEW i \in 1 .. Len(c) + Len(own)
      PROVE  (c \o own)[i] = IF i <= Len(c) THEN c[i] ELSE o[f + i - Len(c)]
  <2>1. CASE i <= Len(c)
    BY <1>3, <2>1
  <2>2. CASE ~(i <= Len(c))
    <3>1. i - Len(c) \in 1 .. Len(o) - f /\ f + (i - Len(c)) = f + i - Len(c)
      BY <1>1, <1>2, <2>2
    <3> QED
      BY <1>2, <1>3, <2>2, <3>1
  <2> QED
    BY <2>1, <2>2
<1> QED
  BY <1>2, <1>3, <1>4 DEF own

\* Behind c and lit, the m bytes of new are those that stand off before them.
StandBack(new, lit, f, c, off, m) ==
    \A k \in 1 .. m, at \in Nat :
        at = Len(c) + (Len(lit) - f) + k =>
            LET v == c \o SubSeq(new, f + 1, Len(new)) IN v[at] = v[at - off]

\* A byte that was copied, and the one it was copied from.
LEMMA CopiedInVirtual ==
    ASSUME NEW c \in Seq(Nat), NEW lit \in Seq(Nat), NEW f \in 0 .. Len(lit),
           NEW off \in Nat \ {0}, NEW m \in Nat, off <= Len(lit) - f + Len(c),
           NEW new, Grown(Nat, new, lit, m), Copied(new, lit, f, c, off, m)
    PROVE  StandBack(new, lit, f, c, off, m)
<1> DEFINE v == c \o SubSeq(new, f + 1, Len(new))
<1> SUFFICES ASSUME NEW k \in 1 .. m, NEW at \in Nat, at = Len(c) + (Len(lit) - f) + k
             PROVE  v[at] = v[at - off]
  BY DEF StandBack
<1>1. Len(c) \in Nat /\ Len(lit) \in Nat
  OBVIOUS
<1>2. new \in Seq(Nat) /\ Len(new) = Len(lit) + m /\ f \in 0 .. Len(new)
  BY <1>1 DEF Grown
<1>3. \A i \in 1 .. Len(c) + (Len(new) - f) :
         v[i] = IF i <= Len(c) THEN c[i] ELSE new[f + i - Len(c)]
  BY <1>2, ByteOfVirtual
<1> HIDE DEF v
<1>4. /\ at \in 1 .. Len(c) + (Len(new) - f) /\ ~(at <= Len(c))
      /\ f + at - Len(c) = Len(lit) + k
      /\ at - off \in 1 .. Len(c) + (Len(new) - f)
      /\ f + (at - off) - Len(c) = Len(lit) + k - off
      /\ Len(c) + (Len(lit) - f) - off + k = at - off
  BY <1>1, <1>2
<1>5. v[at] = new[Len(lit) + k]
  BY <1>3, <1>4
<1>6. v[at - off] = IF at - off <= Len(c) THEN c[at - off] ELSE new[Len(lit) + k - off]
  BY <1>3, <1>4
<1>7. new[Len(lit) + k] = IF at - off <= Len(c) THEN c[at - off]
                          ELSE new[Len(lit) + k - off]
  BY <1>4 DEF Copied
<1> QED
  BY <1>5, <1>6, <1>7

\* However a match overlaps itself or the seam between the dictionary and the
\* output, each byte copied is the one that stands its offset back, for every
\* output, dictionary, offset and length (copy_match in block.rs).
THEOREM MatchesCopyByteByByte == Spec => CopyIsByteByByte
<1>1. ASSUME SInv, OInv, [Next]_vars
      PROVE  [executed' = executed + 1 =>
                \A k \in 1 .. t.match_len :
                    LET at == Len(Virtual) + t.lit_len + k
                    IN  Virtual'[at] = Virtual'[at - t.offset]]_vars
  <2> SUFFICES ASSUME executed' = executed + 1, NEW k \in 1 .. t.match_len
               PROVE  LET at == Len(Virtual) + t.lit_len + k
                      IN  Virtual'[at] = Virtual'[at - t.offset]
    OBVIOUS
  <2>1. execute_sequence
    <3>1. executed \in Int /\ executed' # executed
      <4>1. executed \in Nat
        BY <1>1 DEF SInv
      <4> QED
        BY <4>1
    <3> QED
      BY <1>1, <3>1 DEF Next, vars, decode_literals, only_literals, build_sequence_tables,
             decode_sequence, start_execution, refuse_sequence, finish_block
  <2>2. /\ executed < Len(decoded) /\ ~LiteralsOverrun(body, lit_pos, t)
        /\ ~TooFar(h, literals_out, t.offset) /\ block' = block
    BY <2>1 DEF execute_sequence
  <2>3. /\ t.lit_len \in Nat /\ t.offset \in Nat \ {0} /\ t.match_len \in Nat
        /\ literals_out \in Seq(Nat) /\ Len(literals_out) = Len(out) + t.lit_len
    BY <1>1, <2>2, LiteralsOut
  <2>4. /\ Grown(Nat, out', literals_out, t.match_len)
        /\ Copied(out', literals_out, h.frame_base, h.content, t.offset, t.match_len)
    BY <1>1, <2>1, MatchOut
  <2>5. /\ h.content \in Seq(Nat) /\ h.frame_base \in 0 .. Len(out)
        /\ Len(h.content) \in Nat /\ Len(out) \in Nat /\ out \in Seq(Nat)
    BY <1>1, FramePlace DEF OInv
  <2> DEFINE c == h.content
             f == h.frame_base
             lit == literals_out
             off == t.offset
             m == t.match_len
             at == Len(Virtual) + t.lit_len + k
  <2>6. Len(Virtual) = Len(c) + (Len(out) - f)
    BY <2>5, ByteOfVirtual DEF Virtual
  <2>7. /\ c \in Seq(Nat) /\ lit \in Seq(Nat) /\ off \in Nat \ {0} /\ m \in Nat
        /\ k \in 1 .. m /\ Len(c) \in Nat /\ Len(lit) = Len(out) + t.lit_len
        /\ Len(out) \in Nat /\ f \in 0 .. Len(out)
    BY <2>3, <2>5
  <2>8. ~(off > (Len(lit) - f) + Len(c))
    BY <2>2 DEF TooFar
  <2>9. Grown(Nat, out', lit, m) /\ Copied(out', lit, f, c, off, m)
    BY <2>4
  <2>10. Virtual' = c \o SubSeq(out', f + 1, Len(out'))
    BY <2>2 DEF Virtual, h
  <2>11. t.lit_len \in Nat
    BY <2>3
  <2> HIDE DEF c, f, lit, off, m
  <2>12. /\ at \in Nat /\ at = Len(c) + (Len(lit) - f) + k
         /\ f \in 0 .. Len(lit) /\ off <= Len(lit) - f + Len(c)
    <3> DEFINE nc == Len(c)
               nb == Len(lit)
               no == Len(out)
               nv == Len(Virtual)
               nl == t.lit_len
    <3>1. /\ nv = nc + (no - f) /\ nb = no + nl /\ nc \in Nat /\ no \in Nat /\ nl \in Nat
          /\ f \in 0 .. no /\ off \in Nat \ {0} /\ ~(off > (nb - f) + nc)
      BY <2>6, <2>7, <2>8, <2>11
    <3>2. k \in Nat
      BY <2>7
    <3> HIDE DEF nc, nb, no, nv, nl
    <3>3. /\ nv + nl + k \in Nat /\ nv + nl + k = nc + (nb - f) + k
          /\ f \in 0 .. nb /\ off <= nb - f + nc
      BY <3>1, <3>2
    <3> QED
      BY <3>3 DEF nc, nb, nv, nl
  <2> HIDE DEF at
  <2>13. Virtual'[at] = Virtual'[at - off]
    <3>1. PICK new : new = out'
      OBVIOUS
    <3>2. Grown(Nat, new, lit, m) /\ Copied(new, lit, f, c, off, m)
      BY <2>9, <3>1
    <3>3. PICK v : v = c \o SubSeq(new, f + 1, Len(new))
      OBVIOUS
    <3>4. Virtual' = v
      BY <2>10, <3>1, <3>3
    <3>5. StandBack(new, lit, f, c, off, m)
      BY <2>7, <2>12, <3>2, CopiedInVirtual
    <3>6. v[at] = v[at - off]
      BY <2>7, <2>12, <3>3, <3>5 DEF StandBack
    <3> QED
      BY <3>4, <3>6
  <2> QED
    BY <2>13 DEF at, off
<1> QED
  BY <1>1, SInvInit, SInvStep, OInvInit, OInvStep, PTL DEF Spec, CopyIsByteByByte
=============================================================================
