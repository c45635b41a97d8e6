----------------------------- MODULE MCEncoders -----------------------------
(***************************************************************************)
(* Three encoders in one run, each on an instance made for what it can go  *)
(* wrong at: the encoder of the .cfg (a buffer that wraps, pledges), one   *)
(* with an attached dictionary, and one with a small index space that is   *)
(* recycled.  A behaviour runs one of them; the state of the other two,    *)
(* which share the o_ variables, stays as it was.                          *)
(***************************************************************************)
EXTENDS MCStreamEncoder

VARIABLES
    encoder,    \* the encoder of this behaviour: "wrap", "dict" or "overflow"
    o_pledged, o_max_dist, o_in_buff, o_in_to_compress, o_in_buff_pos,
    o_in_buff_target, o_window, o_next_to_update, o_table, o_seeded, o_stage,
    o_consumed, o_emitted, o_items, o_frame_ended, o_pc, o_op, o_left, o_pos,
    o_accepted, o_failed

others == <<o_pledged, o_max_dist, o_in_buff, o_in_to_compress, o_in_buff_pos,
            o_in_buff_target, o_window, o_next_to_update, o_table, o_seeded,
            o_stage, o_consumed, o_emitted, o_items, o_frame_ended, o_pc,
            o_op, o_left, o_pos, o_accepted, o_failed>>

Dict == INSTANCE StreamEncoder WITH
    IndexMod <- 256, CurrentMax <- 200, HashReadSize <- 2, CycleSize <- 2,
    WindowSizes <- {2, 4, 8}, LevelWindow <- 8, BLOCK_SIZE_MAX <- 2,
    SplitSizes <- {1}, SkipBelow <- 1, InsertLag <- 0, UpdateGap <- 6,
    UpdateKeep <- 3, is_ultra2 <- FALSE, PredefThreshold <- 0,
    ContentLen <- 2, AttachCutoff <- 2, Pledges <- {None}, MaxInput <- 12,
    Inputs <- 0 .. 3, MaxItems <- 20, pledged <- o_pledged,
    max_dist <- o_max_dist, in_buff <- o_in_buff,
    in_to_compress <- o_in_to_compress, in_buff_pos <- o_in_buff_pos,
    in_buff_target <- o_in_buff_target, window <- o_window,
    next_to_update <- o_next_to_update, table <- o_table, seeded <- o_seeded,
    stage <- o_stage, consumed <- o_consumed, emitted <- o_emitted,
    items <- o_items, frame_ended <- o_frame_ended, pc <- o_pc, op <- o_op,
    left <- o_left, pos <- o_pos, accepted <- o_accepted, failed <- o_failed

Over == INSTANCE StreamEncoder WITH
    IndexMod <- 128, CurrentMax <- 50, HashReadSize <- 2, CycleSize <- 16,
    WindowSizes <- {4, 16}, LevelWindow <- 16, BLOCK_SIZE_MAX <- 4,
    SplitSizes <- {}, SkipBelow <- 1, InsertLag <- 0, UpdateGap <- 6,
    UpdateKeep <- 3, is_ultra2 <- FALSE, PredefThreshold <- 0,
    ContentLen <- 0, AttachCutoff <- 0, Pledges <- {None}, MaxInput <- 100,
    Inputs <- {0, 7}, MaxItems <- 28, pledged <- o_pledged,
    max_dist <- o_max_dist, in_buff <- o_in_buff,
    in_to_compress <- o_in_to_compress, in_buff_pos <- o_in_buff_pos,
    in_buff_target <- o_in_buff_target, window <- o_window,
    next_to_update <- o_next_to_update, table <- o_table, seeded <- o_seeded,
    stage <- o_stage, consumed <- o_consumed, emitted <- o_emitted,
    items <- o_items, frame_ended <- o_frame_ended, pc <- o_pc, op <- o_op,
    left <- o_left, pos <- o_pos, accepted <- o_accepted, failed <- o_failed

-----------------------------------------------------------------------------
EncodersInit ==
    /\ encoder \in {"wrap", "dict", "overflow"}
    /\ Init
    /\ IF encoder = "overflow" THEN Over!Init ELSE Dict!Init

EncodersNext ==
    \/ encoder = "wrap" /\ Next /\ UNCHANGED <<encoder, others>>
    \/ encoder = "dict" /\ Dict!Next /\ UNCHANGED <<encoder, vars>>
    \/ encoder = "overflow" /\ Over!Next /\ UNCHANGED <<encoder, vars>>

EncodersSpec ==
    /\ EncodersInit /\ [][EncodersNext]_<<encoder, vars, others>>
    /\ WF_vars(Loop)

-----------------------------------------------------------------------------
(* What the other two are run for.                                         *)

\* The dictionary of an attached frame is whole, and the decoder still accepts
\* all of it, whenever a block is searched (cdict_attach_overflow).
WholeDict == encoder = "dict" => Dict!AttachedDictIntact

\* However often the index space is recycled (Window::correct_overflow), an
\* entry of the tables whose index is valid denotes the byte inserted, in the
\* current segment and in the extDict that the correction moves along ...
RecycledTableDenotes == encoder = "overflow" => Over!TableDenotesMapped

\* ... and an entry of a chain or tree stays in the slot its index selects.
RecycledCycleBits == Over!CycleBitsKept
=============================================================================
