-------------------------- MODULE SequenceExecution --------------------------
(***************************************************************************)
(* decode_compressed_block as the code runs it: literals, tables, then all *)
(* sequences are decoded from the bitstream, and only then executed.  The  *)
(* code's comment claims that the split changes neither what is accepted   *)
(* nor what is written; TwoPassIsInterleaved is that claim.                *)
(***************************************************************************)
EXTENDS BlockDecode

CONSTANTS
    Contexts,   \* the contexts a block may start in: [slots, rep]
    Bodies,     \* the blocks
    Places      \* where they are: the output before it and the h of BlockDecode

ASSUME BlockAssumption ==
    /\ Contexts \subseteq [slots : SUBSET (TableSlots \cup {"huffman"}),
                            rep : Seq(Nat \ {0})]
    /\ \A c \in Contexts : Len(c.rep) = 3
    /\ \A b \in Bodies : b \in BodyType(Nat)
    /\ \A p \in Places :
        /\ p.out \in Seq(Nat) /\ p.h.content \in Seq(Nat)
        /\ p.h.frame_base \in 0 .. Len(p.out) /\ p.h.block_start = Len(p.out)
        /\ p.h.block_size_max \in Nat /\ p.h.limit \in Nat

VARIABLES
    block,      \* [ctx, body, place]: the call's arguments
    ctx,        \* FrameContext
    rep,        \* the local copy of its repeat offsets
    decoded,    \* the sequences decoded so far
    executed,   \* how many of them were executed
    lit_pos, out,
    pc

vars == <<block, ctx, rep, decoded, executed, lit_pos, out, pc>>

body == block.body
h == block.place.h

Init ==
    /\ block \in [ctx : Contexts, body : Bodies, place : Places]
    /\ ctx = block.ctx /\ rep = block.ctx.rep
    /\ decoded = <<>> /\ executed = 0 /\ lit_pos = 0
    /\ out = block.place.out
    /\ pc = "literals"

-----------------------------------------------------------------------------
(* The stages of the call.                                                 *)

Goto(label) == pc' = label

decode_literals ==
    /\ pc = "literals"
    /\ IF LiteralsFail(ctx, body, h.block_size_max)
       THEN Goto("error") /\ UNCHANGED ctx
       ELSE Goto("tables") /\ ctx' = [ctx EXCEPT !.slots = SlotsAfterLiterals(ctx, body)]
    /\ UNCHANGED <<block, rep, decoded, executed, lit_pos, out>>

\* No sequences: nothing may follow their count, the literals are the block, and no
\* table is touched.
only_literals ==
    /\ pc = "tables" /\ body.sequences = <<>>
    /\ IF ~body.exact \/ Len(out) + Len(body.literals) > h.limit
       THEN Goto("error") /\ UNCHANGED out
       ELSE Goto("done") /\ out' = out \o body.literals
    /\ UNCHANGED <<block, ctx, rep, decoded, executed, lit_pos>>

build_sequence_tables ==
    /\ pc = "tables" /\ body.sequences # <<>>
    /\ IF TablesFail(ctx.slots, body) THEN Goto("error") ELSE Goto("decode")
    /\ ctx' = [ctx EXCEPT !.slots = SlotsAfterTables(@, body)]
    /\ UNCHANGED <<block, rep, decoded, executed, lit_pos, out>>

\* First pass: one turn of the loop over the bitstream.
seq == body.sequences[Len(decoded) + 1]
resolved == resolve_offset(seq.of_value, seq.lit_len, rep)

\* Mutant of decode_sequence: rep[0] - 1 is not compared with zero.
decode_sequence_Unchecked ==
    /\ pc = "decode" /\ Len(decoded) < Len(body.sequences)
    /\ rep' = resolved
    /\ IF Len(decoded) + 1 = body.overdraws
       THEN Goto("error") /\ UNCHANGED decoded
       ELSE /\ decoded' = Append(decoded, [lit_len |-> seq.lit_len,
                                           offset |-> resolved[1],
                                           match_len |-> seq.match_len])
            /\ UNCHANGED pc
    /\ UNCHANGED <<block, ctx, executed, lit_pos, out>>

decode_sequence ==
    /\ pc = "decode" /\ Len(decoded) < Len(body.sequences)
    /\ rep' = resolved
    /\ IF resolved[1] = 0 \/ Len(decoded) + 1 = body.overdraws
       THEN Goto("error") /\ UNCHANGED decoded
       ELSE /\ decoded' = Append(decoded, [lit_len |-> seq.lit_len,
                                           offset |-> resolved[1],
                                           match_len |-> seq.match_len])
            /\ UNCHANGED pc
    /\ UNCHANGED <<block, ctx, executed, lit_pos, out>>

start_execution ==
    /\ pc = "decode" /\ Len(decoded) = Len(body.sequences)
    /\ Goto("execute")
    /\ UNCHANGED <<block, ctx, rep, decoded, executed, lit_pos, out>>

\* Second pass: one turn of the loop over the decoded sequences.
t == decoded[executed + 1]
literals_out == WithLiterals(body, lit_pos, t, out)

refuse_sequence ==
    /\ pc = "execute" /\ executed < Len(decoded)
    /\ IF LiteralsOverrun(body, lit_pos, t) THEN UNCHANGED <<lit_pos, out>>
       ELSE /\ TooFar(h, literals_out, t.offset)
            /\ lit_pos' = lit_pos + t.lit_len /\ out' = literals_out
    /\ Goto("error")
    /\ UNCHANGED <<block, ctx, rep, decoded, executed>>

execute_sequence ==
    /\ pc = "execute" /\ executed < Len(decoded)
    /\ ~LiteralsOverrun(body, lit_pos, t) /\ ~TooFar(h, literals_out, t.offset)
    /\ lit_pos' = lit_pos + t.lit_len
    /\ out' = copy_match(literals_out, h.frame_base, h.content, t.offset, t.match_len)
    /\ IF TooLong(h, out') THEN Goto("error") /\ UNCHANGED executed
       ELSE executed' = executed + 1 /\ UNCHANGED pc
    /\ UNCHANGED <<block, ctx, rep, decoded>>

\* Mutant of finish_block: the repeat offsets are not committed.
finish_block_Uncommitted ==
    /\ pc = "execute" /\ executed = Len(decoded)
    /\ IF ~body.exact THEN Goto("error") /\ UNCHANGED out
       ELSE /\ out' = out \o RestOfLiterals(body, lit_pos)
            /\ IF TooLong(h, out') THEN Goto("error") ELSE Goto("done")
    /\ UNCHANGED <<block, ctx, rep, decoded, executed, lit_pos>>

\* The bitstream must be used up; the rest of the literals ends the block, and
\* only now does the frame take over the repeat offsets.
finish_block ==
    /\ pc = "execute" /\ executed = Len(decoded)
    /\ IF ~body.exact THEN Goto("error") /\ UNCHANGED <<out, ctx>>
       ELSE /\ out' = out \o RestOfLiterals(body, lit_pos)
            /\ IF TooLong(h, out') THEN Goto("error") /\ UNCHANGED ctx
               ELSE Goto("done") /\ ctx' = [ctx EXCEPT !.rep = rep]
    /\ UNCHANGED <<block, rep, decoded, executed, lit_pos>>

Next ==
    \/ decode_literals \/ only_literals \/ build_sequence_tables
    \/ decode_sequence \/ start_execution
    \/ refuse_sequence \/ execute_sequence \/ finish_block

Spec == Init /\ [][Next]_vars

-----------------------------------------------------------------------------
(* Properties.                                                             *)

\* The two passes accept what interleaved decoding accepts and write the same
\* bytes, and leave the same context behind ("Accept/reject and the emitted
\* bytes are unchanged", block.rs).
TwoPassIsInterleaved ==
    LET ref == decode_compressed_block(block.ctx, body, h, block.place.out)
    IN  /\ pc = "done" => ref.ok /\ ref.out = out /\ ref.ctx = ctx
        /\ pc = "error" => ~ref.ok

\* A copied match is the bytes that stand its offset back, one at a time, in the
\* dictionary content followed by the frame's output, however it overlaps itself
\* or the seam between them.
Virtual == h.content \o SubSeq(out, h.frame_base + 1, Len(out))
CopyIsByteByByte ==
    [][ executed' = executed + 1 =>
          \A k \in 1 .. t.match_len :
              LET at == Len(Virtual) + t.lit_len + k
              IN  Virtual'[at] = Virtual'[at - t.offset] ]_vars

\* What copy_match asserts of its arguments, and what keeps "rep[0] - 1" and
\* "literals.len() - lit_pos" from wrapping: no offset is ever zero, in the
\* history or in a decoded sequence, and the literals are not overrun.
NothingUnderflows ==
    /\ pc # "error" => \A k \in 1 .. 3 : rep[k] >= 1
    /\ \A k \in 1 .. Len(decoded) : decoded[k].offset >= 1
    /\ \A k \in 1 .. 3 : ctx.rep[k] >= 1
    /\ lit_pos <= Len(body.literals)
=============================================================================
