----------------------------- MODULE MCDecoders -----------------------------
(***************************************************************************)
(* Two stream decoders in one run: the one of the .cfg, without a          *)
(* dictionary, is given frames with one thing wrong, cut off anywhere, by a *)
(* reader that may fail; the other, with a dictionary larger than the      *)
(* window, frames of several blocks that match as far back as they may.  A *)
(* behaviour runs one of them; the state of the other stays as it was.     *)
(***************************************************************************)
EXTENDS MCStreamDecoder

CONSTANT WindowedSources    \* the inputs of the second decoder

VARIABLES
    decoding,       \* the decoder of this behaviour: "framing" or "windowed"
    o_source, o_reader_pos, o_in_buf, o_in_pos, o_eof, o_phase, o_left,
    o_frame, o_out_ready, o_out_pos, o_total, o_pc, o_bh, o_taken, o_buf_len,
    o_delivered, o_result, o_refused, o_errors

others ==
    <<o_source, o_reader_pos, o_in_buf, o_in_pos, o_eof, o_phase, o_left,
      o_frame, o_out_ready, o_out_pos, o_total, o_pc, o_bh, o_taken,
      o_buf_len, o_delivered, o_result, o_refused, o_errors>>

Windowed == INSTANCE StreamDecoderAgreement WITH
    WindowMax <- 8, Limit <- 100, BLOCK_SIZE_MAX <- 4, BlockSizeField <- 5,
    Dictionary <- MCDictionary, Sources <- WindowedSources,
    ReadSizes <- {2, 5}, PullSizes <- {3}, ErrorPoints <- {}, MaxErrors <- 0,
    source <- o_source, reader_pos <- o_reader_pos, in_buf <- o_in_buf,
    in_pos <- o_in_pos, eof <- o_eof, phase <- o_phase, left <- o_left,
    frame <- o_frame, out_ready <- o_out_ready, out_pos <- o_out_pos,
    total <- o_total, pc <- o_pc, bh <- o_bh, taken <- o_taken,
    buf_len <- o_buf_len, delivered <- o_delivered, result <- o_result,
    refused <- o_refused, errors <- o_errors

-----------------------------------------------------------------------------
Idle == CHOOSE s \in Sources : TRUE              \* what the other one is given
WindowedIdle == CHOOSE s \in WindowedSources : TRUE

DecodersInit ==
    /\ \/ decoding = "framing" /\ o_source = WindowedIdle
       \/ decoding = "windowed" /\ source = Idle
    /\ Init /\ Windowed!Init

DecodersNext ==
    \/ decoding = "framing" /\ Next /\ UNCHANGED <<decoding, others>>
    \/ decoding = "windowed" /\ Windowed!Next /\ UNCHANGED <<decoding, vars>>

\* The fairness of StreamDecoder, for the decoder of the .cfg.
FramingReads == decoding = "framing" /\ ReadsToEnd

DecodersSpec ==
    /\ DecodersInit /\ [][DecodersNext]_<<decoding, vars, others>>
    /\ WF_vars(Decoding) /\ WF_vars(Reader) /\ WF_vars(FramingReads)

-----------------------------------------------------------------------------
\* After any block the output retained is the last `window` bytes of the
\* dictionary and the blocks together (the trim in decode_block).
WindowedHistory == decoding = "windowed" => Windowed!WindowIsRecentHistory

\* With a dictionary, too, the stream decoder delivers what one-shot
\* decompression returns and refuses what it refuses.
WindowedContract == Windowed!ImplementsContract

\* The decoder of the .cfg, read to the end, comes to an end (decode_more),
\* whatever is wrong with its input, and when the reader fails before a magic
\* number, in a skippable frame or before a block header.
ReadsTerminate ==
    decoding = "framing" ~> result \in {"end", "invalid data", "panic"}
=============================================================================
