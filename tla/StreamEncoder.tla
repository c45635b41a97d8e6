---------------------------- MODULE StreamEncoder ----------------------------
(***************************************************************************)
(* The single-threaded streaming encoder: StreamEncoder::stream_op and     *)
(* init (stream_encode.rs) driving FrameCompressor::compress_continue and  *)
(* compress_end (compress.rs) over a wrapping staging buffer.              *)
(*                                                                         *)
(* A byte is represented by its position in the caller's input (0, 1, ...);*)
(* dictionary content holds -ContentLen .. -1.  The staging buffer and the *)
(* frame are thus sequences of stream positions, and "the right byte" is   *)
(* "the right number".  A call is broken into the steps of the code's      *)
(* loop: load and decide, one step per block of the chunk, end of chunk.   *)
(***************************************************************************)
EXTENDS Window, Sequences

CONSTANTS
    WindowSizes,    \* the window sizes (1 << window_log) a known size may select
    LevelWindow,    \* the one the level uses at unknown size, their largest
    BLOCK_SIZE_MAX,
    SplitSizes,     \* block sizes the pre-splitter may choose for a full block
    SkipBelow,      \* blocks smaller than this are stored unsearched
    InsertLag,      \* the match finder stops inserting this far from the block end
    UpdateGap, UpdateKeep,  \* limit_update: 384 and 192
    is_ultra2,      \* btultra2: the first block is parsed twice
    PredefThreshold,    \* ZSTD_PREDEF_THRESHOLD: ... if it is larger than this
    ContentLen,     \* length of the attached dictionary's content, 0 for none
    AttachCutoff,   \* cdict_attach_cutoff of the strategy
    Pledges,        \* what with_pledged_src_size may be given, or None
    MaxInput,       \* bound: bytes the caller feeds in all
    Inputs,         \* bound: lengths of the input slices the caller passes
    MaxItems        \* bound: the caller stops once the frame is this long

None == -1          \* Option::None of a size

ASSUME EncoderAssumption ==
    /\ WindowSizes \subseteq Nat \ {0}
    /\ LevelWindow \in WindowSizes
    /\ BLOCK_SIZE_MAX \in Nat \ {0}
    /\ SplitSizes \subseteq 1 .. BLOCK_SIZE_MAX
    /\ SkipBelow \in Nat /\ InsertLag \in Nat
    /\ UpdateGap \in Nat /\ UpdateKeep \in Nat
    /\ is_ultra2 \in BOOLEAN /\ PredefThreshold \in Nat
    /\ ContentLen \in Nat /\ AttachCutoff \in Nat
    /\ Pledges \subseteq Nat \cup {None}
    /\ ContentLen > 0 => Pledges \subseteq {None}    \* constructors exclude others
    /\ MaxInput \in Nat
    /\ Inputs \subseteq Nat
    /\ MaxItems \in Nat

Blank == -ContentLen - 1    \* content of a staging slot never written

VARIABLES
    pledged, max_dist,          \* parameters resolved by init
    in_buff, in_to_compress, in_buff_pos, in_buff_target,   \* StreamState
    window, next_to_update,     \* match state
    table,                      \* match table entries, <<index, byte inserted>>
    seeded,                     \* the optimal parser has statistics (ll_sum # 0)
    stage, consumed, emitted, items,    \* the frame written so far
    frame_ended,
    pc, op, left, pos,          \* the call in progress
    accepted,                   \* bytes taken from the caller so far
    failed                      \* some call has returned an error

params == <<pledged, max_dist>>
staging == <<in_buff, in_to_compress, in_buff_pos, in_buff_target>>
matching == <<window, next_to_update, table, seeded>>
frame == <<stage, consumed, emitted, items, frame_ended>>
vars == <<params, staging, matching, frame, pc, op, left, pos, accepted, failed>>

\* Sizes of a frame whose source has size s (or None) and window w.
WindowSizeOf(s, w) == IF s = None THEN w ELSE Larger(1, Smaller(w, s))
BlockSizeOf(s, w) == Smaller(BLOCK_SIZE_MAX, WindowSizeOf(s, w))
BuffLenOf(s, w) == ContentLen + WindowSizeOf(s, w) + BlockSizeOf(s, w)

block_size == BlockSizeOf(pledged, max_dist)
BuffLen == BuffLenOf(pledged, max_dist)
Slots == 0 .. BuffLen - 1

chunk_end == in_buff_pos    \* the staged chunk is in_to_compress .. chunk_end - 1
\* Mutant of last_frame_chunk: the chunk is last although input remains.
last_frame_chunk_Early == op = "End"
last_frame_chunk == op = "End" /\ left = 0

-----------------------------------------------------------------------------
Init ==
    /\ pledged = None /\ max_dist = LevelWindow
    /\ in_buff = <<>> /\ in_to_compress = 0 /\ in_buff_pos = 0
    /\ in_buff_target = 0
    /\ window = NewWindow /\ next_to_update = WINDOW_START_INDEX /\ table = {}
    /\ seeded = FALSE
    /\ stage = "Init" /\ consumed = 0 /\ emitted = <<>> /\ items = <<>>
    /\ frame_ended = FALSE
    /\ pc = "uninit" /\ op = "Continue" /\ left = 0 /\ pos = 0
    /\ accepted = 0 /\ failed = FALSE

\* The window of get_cparams: the smallest that holds the source, if one does.
Selects(size, w) ==
    IF size = None \/ \A v \in WindowSizes : v < size
    THEN w = LevelWindow
    ELSE w >= size /\ \A v \in WindowSizes : v >= size => w <= v

one_block_pledge(size, bs) == IF size = bs THEN 1 ELSE 0

\* The deferred init of the first call: finish pledges its own input, any other
\* call what was requested.
init(first_op, in_size, requested) ==
    LET size == IF first_op = "End" THEN in_size ELSE requested
    IN  /\ ~(ContentLen > 0 /\ size # None /\ size > AttachCutoff)
        /\ pledged' = size
        /\ max_dist' \in WindowSizes /\ Selects(size, max_dist')
        /\ in_buff' = [p \in 0 .. BuffLenOf(size, max_dist') - 1 |->
                         IF p < ContentLen THEN p - ContentLen ELSE Blank]
        /\ in_to_compress' = ContentLen
        /\ in_buff_pos' = ContentLen
        /\ in_buff_target' = ContentLen + BlockSizeOf(size, max_dist')
                 + one_block_pledge(size, BlockSizeOf(size, max_dist'))
        /\ window' = streaming_attached_dict(ContentLen)
        /\ next_to_update' = W32(WINDOW_START_INDEX + ContentLen)
        /\ UNCHANGED <<table, seeded, frame>>

\* compress(input), flush() and finish(input).  finish consumes the encoder.
Begin(o, n) ==
    /\ op' = o /\ left' = n /\ pc' = "load"
    /\ UNCHANGED <<pos, accepted, failed>>

Op(o, n) ==
    /\ o \in {"Continue", "Flush", "End"}
    /\ o = "Flush" => n = 0
    /\ accepted + n <= MaxInput /\ Len(items) <= MaxItems

FirstCall(o, n) ==
    /\ pc = "uninit" /\ Op(o, n) /\ Begin(o, n)
    /\ \E requested \in Pledges : init(o, n, requested)

\* The copy path of a dictionary is rejected, and nothing was initialised.
FirstCallRejected(o, n) ==
    /\ pc = "uninit" /\ Op(o, n) /\ ContentLen > 0
    /\ \E requested \in Pledges :
           LET size == IF o = "End" THEN n ELSE requested
           IN  size # None /\ size > AttachCutoff
    /\ failed' = TRUE
    /\ pc' = IF o = "End" THEN "consumed" ELSE "uninit"
    /\ UNCHANGED <<params, staging, matching, frame, op, left, pos, accepted>>

Call(o, n) ==
    /\ pc = "idle" /\ Op(o, n) /\ Begin(o, n)
    /\ UNCHANGED <<params, staging, matching, frame>>

\* Return from the call; an error drops the rest of the input.
Return(error) ==
    /\ pc' = IF op = "End" THEN "consumed" ELSE "idle"
    /\ failed' = (failed \/ error)
    /\ left' = 0 /\ UNCHANGED <<op, pos>>

-----------------------------------------------------------------------------
(* One turn of stream_op's loop: load ...                                  *)

\* Mutant of loaded: what is already staged is not counted.
loaded_WholeBlock == Smaller(block_size, left)

\* A slot of the staging buffer; outside of it the code would panic.
ReadAt(p) == IF p \in DOMAIN in_buff THEN in_buff[p] ELSE Blank

loaded == Smaller(in_buff_target - in_buff_pos, left)

load ==
    /\ in_buff' = [p \in DOMAIN in_buff |->
                     IF p \in in_buff_pos .. in_buff_pos + loaded - 1
                     THEN accepted + (p - in_buff_pos) ELSE in_buff[p]]
    /\ in_buff_pos' = in_buff_pos + loaded
    /\ accepted' = accepted + loaded
    /\ UNCHANGED <<in_to_compress, in_buff_target, params>>

\* Mutant of Satisfied: a flush stops like a compress.
Satisfied_FlushAsContinue ==
    op \in {"Continue", "Flush"} /\ in_buff_pos' < in_buff_target

\* Mutant of Satisfied: a flush does not stop when nothing is pending.
Satisfied_FlushForever == op = "Continue" /\ in_buff_pos' < in_buff_target

\* Not enough input for a block, or nothing to flush.
Satisfied ==
    \/ op = "Continue" /\ in_buff_pos' < in_buff_target
    \/ op = "Flush" /\ in_buff_pos' = in_to_compress

\* Mutant of cdict_attach_overflow: only the end of the buffer stops the source.
cdict_attach_overflow_BufferEnd(block_end) ==
    ContentLen > 0 /\ block_end >= BuffLen

cdict_attach_overflow(block_end) ==
    ContentLen > 0 /\ block_end + window.seg_bias > max_dist

LoadAndReturn ==
    /\ pc = "load" /\ load /\ Satisfied
    /\ Return(FALSE)
    /\ UNCHANGED <<matching, frame>>

LoadAndOverflow ==
    /\ pc = "load" /\ load /\ ~Satisfied
    /\ cdict_attach_overflow(in_buff_pos')
    /\ Return(TRUE)
    /\ UNCHANGED <<matching, frame>>

\* ... and enter compress_continue: frame header, then window update.
LoadAndCompress ==
    /\ pc = "load" /\ load /\ ~Satisfied
    /\ ~cdict_attach_overflow(in_buff_pos')
    /\ left' = left - loaded
    /\ items' = IF stage = "Init" THEN Append(items, "header") ELSE items
    /\ stage' = IF stage = "Init" THEN "Ongoing" ELSE stage
    /\ window' = update(window, in_to_compress, in_buff_pos')
    /\ next_to_update' = IF \/ in_to_compress = in_buff_pos'
                            \/ contiguous(window, in_to_compress)
                         THEN next_to_update ELSE window'.dict_limit
    /\ pos' = in_to_compress
    /\ pc' = "blocks"
    /\ UNCHANGED <<table, seeded, consumed, emitted, frame_ended, op, failed>>

-----------------------------------------------------------------------------
(* ... then one step per block of the chunk.                               *)

remaining == chunk_end - pos

BlockSizes ==
    IF \/ remaining < BLOCK_SIZE_MAX \/ block_size < BLOCK_SIZE_MAX
    THEN {Smaller(remaining, block_size)}
    ELSE {BLOCK_SIZE_MAX} \cup IF emitted = <<>> THEN {} ELSE SplitSizes

\* Overflow correction, then the slide of the window to the block.
CorrectedBy(n) ==
    IF needs_overflow_correction(window, pos + n)
    THEN Correction(window, max_dist, pos) ELSE 0

WindowAtBlock(n) ==
    LET w == IF needs_overflow_correction(window, pos + n)
             THEN correct_overflow(window, CorrectedBy(n)) ELSE window
    IN  enforce_max_dist(check_dict_validity(w, W32(pos + n + w.seg_bias), max_dist),
                         W32(pos + w.seg_bias), max_dist)

\* reduce_indices: empty slots are dropped.
ReducedTable(n) ==
    IF needs_overflow_correction(window, pos + n)
    THEN {<<reduce_index(e[1], CorrectedBy(n)), e[2]>> :
            e \in {t \in table : reduce_index(t[1], CorrectedBy(n)) # 0}}
    ELSE table

\* Where insertion resumes: reduced with the indices, never below low_limit.
ResumeAt(n) ==
    Larger(Larger(0, next_to_update - CorrectedBy(n)), WindowAtBlock(n).low_limit)

\* Tiny blocks are not searched.  The first block of btultra2 is parsed once to
\* seed the statistics; the window then slides past it and it is parsed again.
Searched(n) == n >= SkipBelow

Restarts(n) ==
    /\ is_ultra2 /\ ContentLen = 0 /\ ~seeded /\ n > PredefThreshold
    /\ WindowAtBlock(n).dict_limit = WindowAtBlock(n).low_limit
    /\ W32(pos + WindowAtBlock(n).seg_bias) = WindowAtBlock(n).dict_limit

limit_update(curr, from) ==
    IF curr > from + UpdateGap
    THEN curr - Smaller(UpdateKeep, curr - from - UpdateGap) ELSE from

\* A parse inserts the indices up to InsertLag before the block end; an entry
\* denotes the byte that is read at its index when it is inserted.
InsertFrom(w, from) == limit_update(pos + w.seg_bias, from)
InsertTo(w, from, n) ==
    Larger(InsertFrom(w, from), pos + n + w.seg_bias - InsertLag)

Inserted(w, from, n) ==
    {<<i, ReadAt(i - w.seg_bias)>> :
        i \in InsertFrom(w, from) .. InsertTo(w, from, n) - 1}

Search(n) ==
    LET w == WindowAtBlock(n)
        slid == slide_for_init_stats(w, n)
    IN  IF Restarts(n)
        THEN /\ window' = slid
             /\ table' = ReducedTable(n) \cup Inserted(w, ResumeAt(n), n)
                            \cup Inserted(slid, slid.dict_limit, n)
             /\ next_to_update' = InsertTo(slid, slid.dict_limit, n)
        ELSE /\ window' = w
             /\ table' = ReducedTable(n) \cup Inserted(w, ResumeAt(n), n)
             /\ next_to_update' = InsertTo(w, ResumeAt(n), n)

Skip(n) ==
    /\ window' = WindowAtBlock(n)
    /\ table' = ReducedTable(n)
    /\ next_to_update' = ResumeAt(n)

CompressBlock(n) ==
    /\ pc = "blocks" /\ pos < chunk_end /\ n \in BlockSizes
    /\ IF Searched(n) THEN Search(n) ELSE Skip(n)
    /\ seeded' = (seeded \/ Searched(n))
    /\ emitted' = emitted \o [k \in 1 .. n |-> ReadAt(pos + k - 1)]
    /\ items' = Append(items, IF last_frame_chunk /\ n = remaining
                              THEN "last" ELSE "block")
    /\ pos' = pos + n
    /\ UNCHANGED <<params, staging, stage, consumed, frame_ended, pc, op, left,
                   accepted, failed>>

-----------------------------------------------------------------------------
(* ... and the end of the chunk.                                           *)

ChunkDone == pc = "blocks" /\ pos = chunk_end

consumedNow == consumed + (chunk_end - in_to_compress)

PledgeExceeded ==
    pledged # None /\ in_to_compress # chunk_end /\ consumedNow > pledged

\* A chunk with a block in it ends the blocks, an empty one does not.
stageAfter == IF last_frame_chunk /\ in_to_compress # chunk_end
              THEN "Ending" ELSE stage

\* compress_end's epilogue, with or without an honoured pledge.
PledgeMissed == last_frame_chunk /\ pledged # None /\ consumedNow # pledged

\* Mutant of epilogue: the empty last block is always written.
epilogue_AlwaysEmptyBlock ==
    IF last_frame_chunk THEN <<"last", "checksum">> ELSE <<>>

epilogue ==
    IF ~last_frame_chunk THEN <<>>
    ELSE (IF stageAfter # "Ending" THEN <<"last">> ELSE <<>>) \o <<"checksum">>

\* Mutant of FinishChunkExceeded: the offending chunk is dropped, as if never fed.
FinishChunkExceeded_Drop ==
    /\ ChunkDone /\ PledgeExceeded
    /\ in_to_compress' = in_buff_pos
    /\ Return(TRUE)
    /\ UNCHANGED <<params, in_buff, in_buff_pos, in_buff_target, matching, frame,
                   accepted>>

FinishChunkExceeded ==
    /\ ChunkDone /\ PledgeExceeded
    /\ stage' = stageAfter /\ consumed' = consumedNow
    /\ Return(TRUE)
    /\ UNCHANGED <<params, staging, matching, emitted, items, frame_ended, accepted>>

FinishChunkMissed ==
    /\ ChunkDone /\ ~PledgeExceeded /\ PledgeMissed
    /\ stage' = stageAfter /\ consumed' = consumedNow
    /\ items' = items \o epilogue
    /\ Return(TRUE)
    /\ UNCHANGED <<params, staging, matching, emitted, frame_ended, accepted>>

\* "Prepare the next block; past the buffer end, wrap to the start."
Wraps == in_buff_pos + block_size > BuffLen

FinishChunk ==
    /\ ChunkDone /\ ~PledgeExceeded /\ ~PledgeMissed
    /\ stage' = stageAfter /\ consumed' = consumedNow
    /\ items' = items \o epilogue
    /\ frame_ended' = last_frame_chunk
    /\ in_buff_pos' = IF Wraps THEN 0 ELSE in_buff_pos
    /\ in_buff_target' = in_buff_pos' + block_size
    /\ in_to_compress' = in_buff_pos'
    /\ IF last_frame_chunk THEN Return(FALSE)
       ELSE pc' = "load" /\ UNCHANGED <<op, left, pos, failed>>
    /\ UNCHANGED <<params, in_buff, matching, emitted, accepted>>

Loop ==
    \/ LoadAndReturn \/ LoadAndOverflow \/ LoadAndCompress
    \/ \E n \in 1 .. BLOCK_SIZE_MAX : CompressBlock(n)
    \/ FinishChunkExceeded \/ FinishChunkMissed \/ FinishChunk

Caller ==
    \E o \in {"Continue", "Flush", "End"}, n \in Inputs :
        FirstCall(o, n) \/ FirstCallRejected(o, n) \/ Call(o, n)

Next == Loop \/ Caller

\* The code of a call runs to its end; nothing obliges the caller to call.
Spec == Init /\ [][Next]_vars /\ WF_vars(Loop)

-----------------------------------------------------------------------------
(* Properties.                                                             *)

TypeOK ==
    /\ pledged \in Nat \cup {None} /\ max_dist \in WindowSizes
    /\ in_buff = <<>> \/ in_buff \in [Slots -> Int]
    /\ pc \in {"idle", "load", "blocks"} => in_buff \in [Slots -> Int]
    /\ in_to_compress \in Nat /\ in_buff_pos \in Nat /\ in_buff_target \in Nat
    /\ window \in Windows /\ next_to_update \in Nat
    /\ table \subseteq Nat \X Int /\ seeded \in BOOLEAN
    /\ stage \in {"Init", "Ongoing", "Ending"} /\ consumed \in Nat
    /\ emitted \in Seq(Int)
    /\ items \in Seq({"header", "block", "last", "checksum"})
    /\ frame_ended \in BOOLEAN
    /\ pc \in {"uninit", "idle", "load", "blocks", "consumed"}
    /\ op \in {"Continue", "Flush", "End"} /\ left \in Nat /\ pos \in Nat
    /\ accepted \in Nat /\ failed \in BOOLEAN

\* A frame that was ended without an error has one header, one last block (its
\* last) and a checksum, and its content is as long as the header says.
WellFormedFrame ==
    frame_ended =>
        /\ items[1] = "header" /\ items[Len(items)] = "checksum"
        /\ \A k \in 2 .. Len(items) - 1 :
               items[k] = IF k = Len(items) - 1 THEN "last" ELSE "block"
        /\ Len(emitted) = accepted
        /\ pledged # None => Len(emitted) = pledged

\* The inductive invariant behind the theorems of StreamEncoder_proof.  The
\* staging pointers stay in order and inside the buffer ...
From == IF pc = "blocks" THEN pos ELSE in_to_compress
Pointers ==
    /\ in_to_compress <= From /\ From <= in_buff_pos
    /\ pc = "uninit" \/ (pc = "consumed" /\ ~failed) => in_to_compress = in_buff_pos
    /\ pc \in {"idle", "load", "blocks"} =>
        in_buff_pos <= in_buff_target /\ in_buff_target <= BuffLen

\* ... what was written and what is staged are the input taken, in order ...
Accounting ==
    ~failed =>
        /\ \A k \in 1 .. Len(emitted) : emitted[k] = k - 1
        /\ \A p \in From .. in_buff_pos - 1 :
               in_buff[p] = Len(emitted) + (p - From)
        /\ Len(emitted) + (in_buff_pos - From) = accepted
        /\ consumed = Len(emitted) - (From - in_to_compress)

\* ... the frame so far has a header and blocks, the last one marked.
MarkedLast ==
    pc = "blocks" /\ last_frame_chunk /\ in_to_compress < pos /\ pos = chunk_end
FrameShape ==
    ~failed =>
        /\ pc = "uninit" => stage = "Init"
        /\ pc = "blocks" => stage = "Ongoing" /\ ~frame_ended
        /\ IF stage = "Init" THEN items = <<>> /\ ~frame_ended
           ELSE Len(items) >= 1 /\ items[1] = "header"
        /\ ~frame_ended =>
             /\ stage # "Ending"
             /\ \A k \in 2 .. Len(items) :
                    items[k] = IF k = Len(items) /\ MarkedLast
                               THEN "last" ELSE "block"
        /\ pc = "blocks" /\ in_to_compress < pos => Len(items) >= 2
        /\ frame_ended => pc = "consumed" /\ WellFormedFrame

\* ... and after an error what caused it makes every later call fail as well.
Doomed ==
    failed =>
        /\ ~frame_ended /\ pc # "uninit"
        /\ \/ pc = "consumed"
           \/ pledged # None /\ consumed > pledged
           \/ /\ ContentLen > 0 /\ pc \in {"idle", "load"}
              /\ in_buff_pos + window.seg_bias > max_dist

\* Input is pending only during a call, and a flush has none.
Offered == pc \notin {"load", "blocks"} \/ op = "Flush" => left = 0

IInv == TypeOK /\ Pointers /\ Accounting /\ FrameShape /\ Doomed /\ Offered

\* A block has just been searched and written; here is the byte after it, its
\* index, and the indices the window calls valid.
Searching == pc = "blocks" /\ pos > in_to_compress /\ ~failed
Here == accepted - (chunk_end - pos)
HereIdx == pos + window.seg_bias
Valid == window.low_limit .. HereIdx - 1

\* Every index the window calls valid, in the wrapped segment or in the current
\* one, still reads the byte that lies its distance back in the stream: a match
\* found there is one the decoder can copy.
HistoryIntact ==
    Searching => \A i \in Valid : ReadAt(PosOf(window, i)) = Here - (HereIdx - i)

\* The code reads the extDict at usize positions idx - dict_bias inside the
\* staging buffer; the index space is recycled "so every level streams without
\* any length limit" (stream_encode.rs).
ExtDictAddressable ==
    Searching => \A i \in window.low_limit .. window.dict_limit - 1 :
                     PosOf(window, i) \in DOMAIN in_buff

\* A table entry whose index is still valid denotes the byte that was inserted,
\* whatever wraps, slides and corrections came in between.
TableDenotesInserted ==
    Searching => \A e \in table :
                     e[1] \in Valid => ReadAt(PosOf(window, e[1])) = e[2]

\* The same with a recycled index space, where a correction moves the extDict along:
\* but for an extDict whose bias was smaller than the correction, so that it wrapped
\* and the extDict is out of reach (ExtDictAddressable, which does not hold).
ExtDictMapped == window.dict_bias <= window.low_limit
TableDenotesMapped ==
    Searching => \A e \in table :
        e[1] \in Valid /\ (e[1] < window.dict_limit => ExtDictMapped)
            => ReadAt(PosOf(window, e[1])) = e[2]

\* The window forgets nothing it could use: every byte of the stream that is
\* still staged and within max_dist of the block's end has a valid index.
HistoryComplete ==
    Searching =>
        \A p \in DOMAIN in_buff :
            /\ in_buff[p] \in Larger(0, Here - max_dist) .. Here - 1
            /\ ~(\E q \in DOMAIN in_buff : q > p /\ in_buff[q] = in_buff[p])
            => \E i \in Valid : PosOf(window, i) = p

\* The dictionary an attached frame searches is the one that was loaded, and the
\* source is within the window, so the decoder still accepts all of it.
AttachedDictIntact ==
    Searching /\ ContentLen > 0 =>
        /\ \A p \in 0 .. ContentLen - 1 : in_buff[p] = p - ContentLen
        /\ Here <= max_dist

\* Nothing is lost, repeated or reordered: the bytes written, followed by those
\* staged, are the bytes taken from the caller.
Staged == LET from == IF pc = "blocks" THEN pos ELSE in_to_compress
          IN  [k \in 1 .. in_buff_pos - from |-> ReadAt(from + k - 1)]
NothingLostOrRepeated ==
    ~failed => emitted \o Staged = [k \in 1 .. accepted |-> k - 1]

\* An overflow correction keeps the low cycle bits of every index: an entry of a
\* chain or tree stays in the slot its index selects.
CycleBitsKept ==
    [][pc = "blocks" /\ pc' = "blocks"
          => (window'.seg_bias - window.seg_bias) % CycleSize = 0]_vars

\* A flush that returns has written all there was to write.
FlushDrains ==
    [][op = "Flush" /\ pc = "load" /\ pc' = "idle" /\ ~failed'
          => Len(emitted') = accepted']_vars

\* Once a call has failed on the pledge, no later call completes the frame.
NoFrameAfterError == [][failed /\ ~frame_ended => ~frame_ended']_vars

\* The encoder implements its contract: given the input of the calls so far, it
\* writes it in order, and finish ends the frame with all of it.
Contract == INSTANCE EncoderContract
    WITH given <- accepted + left, content <- emitted,
         status <- IF failed THEN "failed"
                   ELSE IF frame_ended THEN "closed" ELSE "open"
ImplementsContract == Contract!Spec

\* Every call returns.
EveryCallReturns == pc \in {"load", "blocks"} ~> pc \in {"idle", "consumed"}
=============================================================================
