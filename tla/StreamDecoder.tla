---------------------------- MODULE StreamDecoder ----------------------------
(***************************************************************************)
(* StreamDecoder (stream.rs): a Read that decompresses another Read.       *)
(*                                                                         *)
(* Between two calls of the inner reader the code runs undisturbed, so each*)
(* such stretch of decode_more is an action; pc is the fill(n) it waits in.*)
(* The reader answers with as many cells as it likes, with end of file, or *)
(* with an error, which the code passes to its caller with `?`.  The caller*)
(* may read again whatever it was told: after an error of the reader, as   *)
(* std's read_to_end does when interrupted, and after invalid data too.    *)
(***************************************************************************)
EXTENDS Frame

CONSTANTS
    Sources,        \* the compressed inputs
    ReadSizes,      \* lengths of the caller's buffer
    PullSizes,      \* numbers of cells the reader may return at once
    ErrorPoints,    \* the fills in which the reader may fail
    MaxErrors       \* bound: how often it does

MAX_FRAME_HEADER == HeaderCells + 1     \* the header is read with some excess
NoLimit == 1000000                      \* usize::MAX

FillPoints == {"magic", "skip_size", "header", "skippable", "block_header",
               "body", "checksum"}

ASSUME StreamAssumption ==
    /\ \A s \in Sources : s \in Seq(Cell)
    /\ ReadSizes \subseteq Nat \ {0}
    /\ PullSizes \subseteq Nat \ {0} /\ PullSizes # {}
    /\ BlockSizeField >= MAX_FRAME_HEADER
    /\ ErrorPoints \subseteq FillPoints /\ MaxErrors \in Nat

VARIABLES
    source, reader_pos,         \* the inner reader
    in_buf, in_pos, eof,        \* compressed input buffered
    phase, left,                \* left: payload of Skippable
    frame,                      \* Option<FrameState>
    out_ready, out_pos, total,
    pc,
    bh, taken,                  \* locals of decode_block, of finish_frame
    buf_len,                    \* length of the caller's buffer
    delivered, result,          \* what the caller has been given
    refused,                    \* whether it was ever told of invalid data
    errors

reader == <<source, reader_pos, errors>>
buffer == <<in_buf, in_pos, eof>>
decoder == <<phase, left, frame>>
output == <<out_ready, out_pos, total>>
locals == <<bh, taken, buf_len>>
vars == <<reader, buffer, decoder, output, locals, pc, delivered, result, refused>>

None == [kind |-> "none"]

Avail == Len(in_buf) - in_pos

Init ==
    /\ source \in Sources /\ reader_pos = 0 /\ errors = 0
    /\ in_buf = <<>> /\ in_pos = 0 /\ eof = FALSE
    /\ phase = "FrameStart" /\ left = 0 /\ frame = None
    /\ out_ready = <<>> /\ out_pos = 0 /\ total = 0
    /\ pc = "idle" /\ bh = None /\ taken = None /\ buf_len = 0
    /\ delivered = <<>> /\ result = "none" /\ refused = FALSE

-----------------------------------------------------------------------------
(* Calls and returns.                                                      *)

Answer(r) ==
    /\ pc' = "idle" /\ result' = r
    /\ bh' = None /\ taken' = None /\ buf_len' = 0

Return(r) == Answer(r) /\ UNCHANGED refused

Goto(point) == pc' = point /\ UNCHANGED <<buf_len, result, refused>>

Fail == Answer("invalid data") /\ refused' = TRUE

\* Hand out what the last block left, at most n bytes.
HandOut(n) ==
    LET m == IF Len(out_ready) - out_pos < n THEN Len(out_ready) - out_pos ELSE n
    IN  /\ delivered' = delivered \o SubSeq(out_ready, out_pos + 1, out_pos + m)
        /\ out_pos' = out_pos + m
        /\ Return("bytes") /\ UNCHANGED <<out_ready, total>>

\* read: the caller may go on past the end and past an error; a panic ends it all.
read(n) ==
    /\ pc = "idle" /\ result # "panic"
    /\ IF out_pos < Len(out_ready) THEN HandOut(n)
       ELSE /\ out_ready' = <<>> /\ out_pos' = 0 /\ UNCHANGED total
            /\ buf_len' = n /\ pc' = "turn"
            /\ UNCHANGED <<bh, taken, delivered, result, refused>>
    /\ UNCHANGED <<reader, buffer, decoder>>

drain ==
    /\ pc = "drain" /\ HandOut(buf_len)
    /\ UNCHANGED <<reader, buffer, decoder>>

-----------------------------------------------------------------------------
(* fill(n) and the reader.                                                 *)

Need == CASE pc = "magic"        -> MagicCells
          [] pc = "skip_size"    -> MagicCells + SizeCells
          [] pc = "header"       -> MAX_FRAME_HEADER
          [] pc = "skippable"    -> 1
          [] pc = "block_header" -> BlockHeaderCells
          [] pc = "body"         -> body_needed(bh)
          [] pc = "checksum"     -> ChecksumCells

Reading == pc \in FillPoints /\ Avail < Need /\ ~eof
Filled  == pc \in FillPoints /\ Avail >= Need
Short   == pc \in FillPoints /\ Avail < Need /\ eof

reader_returns(n) ==
    /\ Reading /\ reader_pos + n <= Len(source)
    /\ in_buf' = in_buf \o SubSeq(source, reader_pos + 1, reader_pos + n)
    /\ reader_pos' = reader_pos + n
    /\ UNCHANGED <<source, errors, in_pos, eof, decoder, output, locals, pc,
                   delivered, result, refused>>

reader_ends ==
    /\ Reading /\ reader_pos = Len(source)
    /\ eof' = TRUE
    /\ UNCHANGED <<reader, in_buf, in_pos, decoder, output, locals, pc,
                   delivered, result, refused>>

reader_fails ==
    /\ Reading /\ pc \in ErrorPoints /\ errors < MaxErrors
    /\ errors' = errors + 1 /\ Return("reader error")
    /\ UNCHANGED <<source, reader_pos, buffer, decoder, output, delivered>>

-----------------------------------------------------------------------------
(* A turn of decode_more: compact, and look at the phase.                  *)

\* Mutant of compact: consumed input is not dropped.
compact_Never == UNCHANGED <<in_buf, in_pos>>

compact ==
    /\ in_buf' = SubSeq(in_buf, in_pos + 1, Len(in_buf))
    /\ in_pos' = 0

Turn(p) == pc = "turn" /\ phase = p /\ UNCHANGED <<reader, eof, output, delivered>>

turn_done ==
    /\ Turn("Done") /\ compact /\ Return("end") /\ UNCHANGED decoder

turn_frame_start ==
    /\ Turn("FrameStart") /\ compact /\ Goto("magic")
    /\ UNCHANGED <<decoder, bh, taken>>

turn_skippable ==
    /\ Turn("Skippable") /\ compact
    /\ IF left = 0
       THEN phase' = "FrameStart" /\ UNCHANGED <<pc, buf_len, result, refused>>
       ELSE Goto("skippable") /\ UNCHANGED phase
    /\ UNCHANGED <<left, frame, bh, taken>>

turn_blocks ==
    /\ Turn("Blocks") /\ compact /\ Goto("block_header")
    /\ UNCHANGED <<decoder, bh, taken>>

\* finish_frame up to the checksum: it takes the frame state, which must be there,
\* and does not put it back when it fails.
turn_footer ==
    /\ Turn("Footer") /\ compact
    /\ frame' = None
    /\ IF frame = None
       THEN Return("panic") /\ UNCHANGED <<phase, left>>
       ELSE IF SizeMismatch(frame.header, frame.produced)
       THEN Fail /\ UNCHANGED <<phase, left>>
       ELSE IF frame.header.has_checksum
       THEN /\ Goto("checksum") /\ taken' = frame
            /\ UNCHANGED <<phase, left, bh>>
       ELSE /\ phase' = "FrameStart"
            /\ UNCHANGED <<left, pc, buf_len, result, refused, bh, taken>>

-----------------------------------------------------------------------------
(* What follows each fill.                                                 *)

At(point) ==
    pc = point /\ Filled /\ UNCHANGED <<reader, in_buf, eof, delivered>>

Consume(n) == in_pos' = in_pos + n

\* Mutant of truncated: a fill that came up short is tried again.
truncated_Again ==
    /\ Short /\ pc # "header"
    /\ IF pc = "magic" /\ Avail = 0 THEN phase' = "Done" /\ Return("end")
       ELSE Goto("turn") /\ UNCHANGED <<phase, bh, taken>>
    /\ UNCHANGED <<reader, buffer, left, frame, output, delivered>>

\* Mutant of truncated: a partial magic is a clean end as well.
truncated_CleanEnd ==
    /\ Short /\ pc # "header"
    /\ IF pc = "magic" THEN phase' = "Done" /\ Return("end")
       ELSE Fail /\ UNCHANGED phase
    /\ UNCHANGED <<reader, buffer, left, frame, output, delivered>>

\* The input ends inside a field; only before a magic is that a clean end.
truncated ==
    /\ Short /\ pc # "header"
    /\ IF pc = "magic" /\ Avail = 0 THEN phase' = "Done" /\ Return("end")
       ELSE Fail /\ UNCHANGED phase
    /\ UNCHANGED <<reader, buffer, left, frame, output, delivered>>

magic ==
    /\ At("magic")
    /\ LET kind == FieldAt(in_buf, in_pos, MagicCells).kind
       IN  CASE kind = "magic" ->
                    Consume(MagicCells) /\ Goto("header") /\ UNCHANGED <<bh, taken>>
             [] kind = "skipmagic" ->
                    Goto("skip_size") /\ UNCHANGED <<in_pos, bh, taken>>
             [] OTHER -> Fail /\ UNCHANGED in_pos
    /\ UNCHANGED <<decoder, output>>

skip_size ==
    /\ At("skip_size")
    /\ left' = SizeAt(in_buf, in_pos + MagicCells)
    /\ Consume(MagicCells + SizeCells)
    /\ phase' = "Skippable"
    /\ Goto("turn") /\ UNCHANGED <<frame, output, bh, taken>>

skippable ==
    /\ At("skippable")
    /\ LET take == IF left < Avail THEN left ELSE Avail
       IN  Consume(take) /\ left' = left - take
    /\ Goto("turn") /\ UNCHANGED <<phase, frame, output, bh, taken>>

\* start_frame: a header may be complete although the fill came up short.
header ==
    /\ pc = "header" /\ (Filled \/ Short)
    /\ LET hd == HeaderAt(in_buf, in_pos)
       IN  IF HeaderRefused(hd) THEN Fail /\ UNCHANGED <<in_pos, decoder>>
           ELSE /\ Consume(HeaderCells)
                /\ frame' = [kind |-> "frame", header |-> hd,
                             ctx |-> with_dictionary(Dictionary),
                             win |-> Dictionary.content,
                             hashed |-> <<>>, produced |-> 0]
                /\ phase' = "Blocks" /\ UNCHANGED left
                /\ Goto("turn") /\ UNCHANGED <<bh, taken>>
    /\ UNCHANGED <<reader, in_buf, eof, output, delivered>>

block_header ==
    /\ At("block_header")
    /\ Consume(BlockHeaderCells)
    /\ LET field == FieldAt(in_buf, in_pos, BlockHeaderCells)
       IN  IF BlockRefused(field) THEN Fail
           ELSE bh' = field /\ Goto("body") /\ UNCHANGED taken
    /\ UNCHANGED <<decoder, output>>

\* Mutant of trim: the window is cut before the block is added to it.
trim_Short(win, window, before) ==
    IF before > window THEN SubSeq(win, before - window + 1, Len(win)) ELSE win

\* Mutant of trim: one byte too many is dropped.
trim_OffByOne(win, window, before) ==
    IF Len(win) >= window THEN SubSeq(win, Len(win) - window + 2, Len(win)) ELSE win

\* The window is trimmed to its last `window` bytes.
trim(win, window, before) ==
    IF Len(win) > window THEN SubSeq(win, Len(win) - window + 1, Len(win)) ELSE win

\* decode_block with its body there: the window is the output buffer of the
\* block decoder, the bytes added to it are the block's output.  A block that is
\* refused stays in the input, but not its header, and leaves in the window and the
\* tables what was made of it; one beyond the limit on the output stays in the
\* window whole, which is not trimmed then.
body ==
    /\ At("body")
    /\ LET max    == BlockSizeMax(frame.header)
           before == Len(frame.win)
           h      == [content |-> <<>>, frame_base |-> 0, block_start |-> before,
                      block_size_max |-> max, limit |-> NoLimit]
       IN  \E block \in {DecodeBody(bh, in_buf, in_pos, frame.ctx, h, frame.win)} :
           LET new == SubSeq(block.out, before + 1, Len(block.out)) IN
           IF bh.size > max
           THEN Fail /\ UNCHANGED <<in_pos, decoder, output>>
           ELSE IF ~block.ok
           THEN /\ frame' = [frame EXCEPT !.ctx = block.ctx, !.win = block.out]
                /\ Fail /\ UNCHANGED <<in_pos, phase, left, output>>
           ELSE /\ Consume(body_needed(bh))
                /\ total' = total + Len(new)
                /\ IF total' > Limit
                   THEN /\ frame' = [frame EXCEPT !.ctx = block.ctx, !.win = block.out]
                        /\ Fail /\ UNCHANGED <<phase, left, out_ready, out_pos>>
                   ELSE /\ out_ready' = out_ready \o new /\ UNCHANGED out_pos
                        /\ frame' = [frame EXCEPT
                               !.ctx = block.ctx,
                               !.win = trim(block.out, frame.header.window, before),
                               !.hashed = @ \o new,
                               !.produced = @ + Len(new)]
                        /\ phase' = IF bh.last THEN "Footer" ELSE "Blocks"
                        /\ Goto(IF out_ready' = <<>> THEN "turn" ELSE "drain")
                        /\ bh' = None /\ UNCHANGED <<left, taken>>

checksum ==
    /\ At("checksum")
    /\ Consume(ChecksumCells)
    /\ IF FieldAt(in_buf, in_pos, ChecksumCells)
              = [kind |-> "checksum", of |-> taken.hashed]
       THEN phase' = "FrameStart" /\ Goto("turn") /\ taken' = None /\ UNCHANGED bh
       ELSE Fail /\ UNCHANGED phase
    /\ UNCHANGED <<left, frame, output>>

Decoding ==
    \/ drain \/ turn_done \/ turn_frame_start \/ turn_skippable \/ turn_blocks
    \/ turn_footer \/ truncated \/ magic \/ skip_size \/ skippable \/ header
    \/ block_header \/ body \/ checksum

Reader == reader_ends \/ reader_fails \/ \E n \in PullSizes : reader_returns(n)

Reads == \E n \in ReadSizes : read(n)

Next == Decoding \/ Reader \/ Reads

\* The code runs on, the reader answers, and the caller reads, like read_to_end,
\* until there is no more; nobody has to read on after invalid data.
ReadsToEnd == result # "invalid data" /\ Reads

Spec == Init /\ [][Next]_vars /\ WF_vars(Decoding) /\ WF_vars(Reader) /\ WF_vars(ReadsToEnd)

-----------------------------------------------------------------------------
(* Properties.                                                             *)

\* The window holds the last `window` bytes of the frame's history, the
\* dictionary followed by its output, or all of it while it is shorter: what
\* every match of a frame may refer to, and no more ("memory use is bounded by
\* the frame's window", stream.rs).  A block that was refused leaves its remains.
LastOf(s, n) == IF Len(s) > n THEN SubSeq(s, Len(s) - n + 1, Len(s)) ELSE s
WindowIsRecentHistory ==
    frame # None /\ frame.produced > 0 /\ ~refused =>
        frame.win = LastOf(Dictionary.content \o frame.hashed, frame.header.window)

\* It "buffers just enough compressed bytes to decode the next block": a block
\* header, a block (of any size its header can say: one that is too large is
\* refused once it is there) and what the answer of the reader that completes
\* it brings on top.
InputBufferBounded ==
    \E n \in PullSizes :
        Len(in_buf) < BlockHeaderCells + BlockSizeField + n

\* The frame state is there when it is needed: nothing panics, however the
\* caller goes on after an error.
NeverPanics == result # "panic"

\* It is not there only where finish_frame took it and then had an error to report:
\* a panic is the answer to the read that follows such an error, and to no other,
\* however many errors of the reader and refused blocks came before.
Errors == {"invalid data", "reader error"}
PanicsFollowFooterErrors ==
    [][result' = "panic" /\ result # "panic" => phase = "Footer" /\ result \in Errors]_vars

\* A caller that reads on after other errors, but not after those of a footer.
StopsAtFooterErrors == [][Reads => ~(phase = "Footer" /\ result \in Errors)]_vars

=============================================================================
