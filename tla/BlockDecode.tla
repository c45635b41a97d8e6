----------------------------- MODULE BlockDecode -----------------------------
(***************************************************************************)
(* Decoding one compressed block (block.rs): literals, then sequences, each*)
(* of which copies some literals and then a match out of the frame's       *)
(* history, the dictionary content followed by the frame's own output.     *)
(*                                                                         *)
(* A block body is what its bits say, a record of its literals and         *)
(* sequences; bytes are natural numbers.  Of the entropy tables only their *)
(* presence is modelled: a table is installed in a slot, and a later block *)
(* may ask to use it again.                                                *)
(***************************************************************************)
EXTENDS Integers, SequencesExt

TableSlots == {"ll", "of", "ml"}    \* and "huffman", for the literals

\* A block body:
\*   lit_type   "plain" (raw or RLE), "huffman" or "treeless"
\*   literals   the literals it regenerates
\*   repeats    the slots that use Repeat_Mode
\*   sequences  records of an offset value, a literals length, a match length
\*   overdraws  the sequence whose bits are missing, 0 for none
\*   exact      the body ends where it should: the bitstream with the last sequence,
\*              or, where there are none, the body with their count
BodyType(Byte) ==
    [lit_type : {"plain", "huffman", "treeless"}, literals : Seq(Byte),
     repeats : SUBSET TableSlots,
     sequences : Seq([of_value : Nat \ {0}, lit_len : Nat, match_len : Nat]),
     overdraws : Nat, exact : BOOLEAN]

-----------------------------------------------------------------------------
(* The state carried from block to block of a frame.                       *)

NoDictionary == [id |-> 0, content |-> <<>>, slots |-> {}, rep |-> <<1, 4, 8>>]

\* FrameContext: the tables installed and the three most recent offsets.
with_dictionary(dict) == [slots |-> dict.slots, rep |-> dict.rep]

\* The history after an offset value, the resolved offset at its head; 0 there
\* is the error "repeat offset underflow".
resolve_offset(of_value, lit_len, rep) ==
    LET index == of_value + IF lit_len = 0 THEN 1 ELSE 0
    IN  CASE of_value > 3 -> <<of_value - 3, rep[1], rep[2]>>
          [] of_value <= 3 /\ index = 1 -> rep
          [] of_value <= 3 /\ index = 2 -> <<rep[2], rep[1], rep[3]>>
          [] of_value <= 3 /\ index = 3 -> <<rep[3], rep[1], rep[2]>>
          [] of_value <= 3 /\ index = 4 -> <<rep[1] - 1, rep[1], rep[2]>>

-----------------------------------------------------------------------------
(* Copying a match.                                                        *)

Back(out, offset, n) == SubSeq(out, Len(out) - offset + 1, Len(out) - offset + n)

Repeated(byte, n) == [k \in 1 .. n |-> byte]

\* A match that overlaps itself is copied in chunks no longer than its offset:
\* what is there after each turn of the loop, of which at most len copy anything.
ChunkCopied(o, offset, remaining) ==
    o \o Back(o, offset, IF remaining < offset THEN remaining ELSE offset)

CopiedInChunks(out, offset, len) ==
    LET after[k \in 0 .. len] ==
            IF k = 0 THEN out
            ELSE ChunkCopied(after[k - 1], offset, Len(out) + len - Len(after[k - 1]))
    IN  after

CopyInBuffer(out, offset, len) ==
    IF offset = 1 THEN out \o Repeated(out[Len(out)], len)
    ELSE IF offset >= len THEN out \o Back(out, offset, len)
    ELSE CopiedInChunks(out, offset, len)[len]

\* Mutant of CopyFromDictionary: a match stops being copied at the dictionary's end.
CopyFromDictionary_NoSeam(out, frame_base, content, offset, len) ==
    LET start_v == Len(content) + (Len(out) - frame_base) - offset
    IN  out \o [k \in 1 .. len |->
                   content[1 + ((start_v + k - 1) % Len(content))]]

\* A match that begins in the dictionary is copied byte by byte and may run on
\* into the frame's output.
ByteCopied(o, frame_base, content, s) ==
    Append(o, IF s < Len(content) THEN content[s + 1]
              ELSE o[frame_base + (s - Len(content)) + 1])

CopiedByteByByte(out, frame_base, content, start_v, len) ==
    LET after[k \in 0 .. len] ==
            IF k = 0 THEN out
            ELSE ByteCopied(after[k - 1], frame_base, content, start_v + k - 1)
    IN  after

CopyFromDictionary(out, frame_base, content, offset, len) ==
    LET start_v == Len(content) + (Len(out) - frame_base) - offset
    IN  CopiedByteByByte(out, frame_base, content, start_v, len)[len]

copy_match(out, frame_base, content, offset, len) ==
    IF offset <= Len(out) - frame_base THEN CopyInBuffer(out, offset, len)
    ELSE CopyFromDictionary(out, frame_base, content, offset, len)

-----------------------------------------------------------------------------
(* The parts of a block.                                                   *)

LiteralsFail(ctx, body, block_size_max) ==
    \/ Len(body.literals) > block_size_max
    \/ body.lit_type = "treeless" /\ "huffman" \notin ctx.slots

SlotsAfterLiterals(ctx, body) ==
    ctx.slots \cup IF body.lit_type = "huffman" THEN {"huffman"} ELSE {}

\* Repeat_Mode needs a table of an earlier block, the other modes install one: of
\* literal lengths first, then of offsets, then of match lengths, each before the
\* next is looked at.
TablesFail(slots, body) == ~(body.repeats \subseteq slots)

TablesUpTo(slot) ==
    CASE slot = "ll" -> {"ll"} [] slot = "of" -> {"ll", "of"} [] slot = "ml" -> TableSlots

SlotsAfterTables(slots, body) ==
    slots \cup {slot \in TableSlots : body.repeats \cap TablesUpTo(slot) \subseteq slots}

\* A decoded sequence t is a record of a literals length, an offset and a match
\* length; h says where the block is: the dictionary content, where the frame
\* and the block start in the output, and the limits on both.
LiteralsOverrun(body, lit_pos, t) == t.lit_len > Len(body.literals) - lit_pos

WithLiterals(body, lit_pos, t, out) ==
    out \o SubSeq(body.literals, lit_pos + 1, lit_pos + t.lit_len)

TooFar(h, out, offset) == offset > (Len(out) - h.frame_base) + Len(h.content)

TooLong(h, out) ==
    Len(out) - h.block_start > h.block_size_max \/ Len(out) > h.limit

RestOfLiterals(body, lit_pos) ==
    SubSeq(body.literals, lit_pos + 1, Len(body.literals))

-----------------------------------------------------------------------------
(* A whole block, sequence by sequence: each is decoded and executed before*)
(* the next, as the format and the C decoder have it.  SequenceExecution   *)
(* models the order of the code, and shows that it comes to the same.      *)

\* A sequence that is refused leaves what was copied of it until then.
InterleavedStep(h, body, acc, k) ==
    LET seq == body.sequences[k]
        rep == resolve_offset(seq.of_value, seq.lit_len, acc.rep)
        t   == [lit_len |-> seq.lit_len, offset |-> rep[1],
                match_len |-> seq.match_len]
        lit == WithLiterals(body, acc.lit_pos, t, acc.out)
        out == copy_match(lit, h.frame_base, h.content, t.offset, t.match_len)
    IN  IF \/ ~acc.ok \/ rep[1] = 0 \/ k = body.overdraws
           \/ LiteralsOverrun(body, acc.lit_pos, t)
        THEN [acc EXCEPT !.ok = FALSE]
        ELSE IF TooFar(h, lit, t.offset)
        THEN [acc EXCEPT !.ok = FALSE, !.out = lit]
        ELSE IF TooLong(h, out)
        THEN [acc EXCEPT !.ok = FALSE, !.out = out]
        ELSE [ok |-> TRUE, out |-> out, lit_pos |-> acc.lit_pos + t.lit_len,
              rep |-> rep]

AfterLast(h, body, acc) ==
    LET all == acc.out \o RestOfLiterals(body, acc.lit_pos)
    IN  [ok |-> acc.ok /\ body.exact /\ ~TooLong(h, all),
         out |-> IF acc.ok /\ body.exact THEN all ELSE acc.out,
         rep |-> acc.rep]

\* The output, the literals used and the history after each of the sequences.
Interleaved(h, body, rep, out) ==
    LET after[k \in 0 .. Len(body.sequences)] ==
            IF k = 0 THEN [ok |-> TRUE, out |-> out, lit_pos |-> 0, rep |-> rep]
            ELSE InterleavedStep(h, body, after[k - 1], k)
    IN  after

InterleavedSequences(h, body, rep, out) ==
    AfterLast(h, body, Interleaved(h, body, rep, out)[Len(body.sequences)])

\* Whether the first pass over the sequences fails: nothing is written then.
OffsetHistories(body, rep) ==
    LET after[k \in 0 .. Len(body.sequences)] ==
            IF k = 0 THEN rep
            ELSE resolve_offset(body.sequences[k].of_value, body.sequences[k].lit_len,
                                after[k - 1])
    IN  after

FirstPassFails(body, rep) ==
    \E k \in 1 .. Len(body.sequences) :
        k = body.overdraws \/ OffsetHistories(body, rep)[k][1] = 0

\* decode_compressed_block: whether the block is accepted, and the output and the
\* frame's context as it leaves them, accepted or not.  A block without sequences
\* must end with their count.
decode_compressed_block(ctx, body, h, out) ==
    LET slots  == SlotsAfterLiterals(ctx, body)
        tables == SlotsAfterTables(slots, body)
        seqs   == InterleavedSequences(h, body, ctx.rep, out)
        fits   == body.exact /\ Len(out) + Len(body.literals) <= h.limit
    IN  IF LiteralsFail(ctx, body, h.block_size_max)
        THEN [ok |-> FALSE, out |-> out, ctx |-> ctx]
        ELSE IF body.sequences = <<>>
        THEN [ok |-> fits, out |-> IF fits THEN out \o body.literals ELSE out,
              ctx |-> [ctx EXCEPT !.slots = slots]]
        ELSE IF TablesFail(slots, body) \/ FirstPassFails(body, ctx.rep)
        THEN [ok |-> FALSE, out |-> out, ctx |-> [ctx EXCEPT !.slots = tables]]
        ELSE [ok |-> seqs.ok, out |-> seqs.out,
              ctx |-> [slots |-> tables, rep |-> IF seqs.ok THEN seqs.rep ELSE ctx.rep]]
=============================================================================
