------------------------------- MODULE MtStream -------------------------------
(***************************************************************************)
(* Multithreaded streaming (compress.rs, MtStreamState and compress_mt): a *)
(* frame made of jobs, each a section of the input compressed on its own   *)
(* with the tail of the section before it as a prefix.  The jobs run one   *)
(* after the other; what is hard is the bookkeeping between them.          *)
(*                                                                         *)
(* As in StreamEncoder a byte is its position in the caller's input, and   *)
(* dictionary content is -content_len .. -1.  The match finders of a job   *)
(* are modelled by what they may refer to, the window of the job.          *)
(***************************************************************************)
EXTENDS Window, Sequences

CONSTANTS
    BLOCK_SIZE_MAX,
    ZSTDMT_JOBSIZE_MIN, ZSTDMT_JOBSIZE_MAX,
    MinJobLog,          \* 20, the log of the smallest computed section
    ZSTDMT_JOBLOG_MAX,
    Checksum,           \* with_checksum
    Configs,            \* what the level and with_workers select, see ConfigType
    Pledges,            \* with_pledged_src_size, or None
    MaxInput,           \* bound: bytes the caller feeds in all
    Inputs,             \* bound: lengths of the input slices the caller passes
    MaxItems            \* bound: items after which the caller makes no new call

None == -1

\* overlap_log and job_size are the caller's, 0 for the default; the others are
\* resolved from the level (and content_len from the dictionary, 0 for none).
ConfigType ==
    [window_log : 0 .. ZSTDMT_JOBLOG_MAX, default_overlap_log : 6 .. 9,
     overlap_log : 0 .. 9, job_size : Nat, max_dict_size : Nat, content_len : Nat]

ASSUME MtAssumption ==
    /\ BLOCK_SIZE_MAX \in Nat \ {0}
    /\ ZSTDMT_JOBSIZE_MIN \in Nat \ {0} /\ ZSTDMT_JOBSIZE_MAX \in Nat
    /\ MinJobLog \in Nat /\ ZSTDMT_JOBLOG_MAX \in Nat
    /\ Checksum \in BOOLEAN /\ Configs \subseteq ConfigType
    /\ Pledges \subseteq Nat \cup {None}
    /\ MaxInput \in Nat /\ Inputs \subseteq Nat /\ MaxItems \in Nat

\* The arithmetic of the shifts below, which are by no more than a job log.
ASSUME ShiftAssumption == \A n \in 0 .. ZSTDMT_JOBLOG_MAX : 2 ^ n \in Nat \ {0}

VARIABLES
    config, requested,          \* what the encoder was constructed with
    pledged,                    \* frame_pledged
    buf, prefix_len, filled,    \* <prefix> <section being filled>
    first, dict,                \* dict: how the dictionary that job 0 awaits comes in
    hashed, job_count,
    items, emitted,             \* the frame written, and what it decodes to
    jobs, flushed,              \* history: the jobs, and whether one was cut short
    frame_ended,
    pc, op, left, accepted, failed

frame == <<items, emitted, jobs, job_count>>
section == <<buf, prefix_len, filled, first, dict, hashed>>
setup == <<config, requested>>
vars == <<setup, pledged, section, frame, flushed, frame_ended, pc, op, left,
          accepted, failed>>

-----------------------------------------------------------------------------
(* Sizes.                                                                  *)

window_size == 2 ^ config.window_log
content_len == config.content_len

mt_target_job_log ==
    Smaller(Larger(MinJobLog, config.window_log + 2), ZSTDMT_JOBLOG_MAX)

mt_overlap_size ==
    LET log  == IF config.overlap_log = 0 THEN config.default_overlap_log
                ELSE config.overlap_log
        rlog == 9 - log
        size == config.window_log - rlog
    IN  IF rlog >= 8 \/ size <= 0 THEN 0 ELSE 2 ^ size

mt_target_section_size ==
    Larger(mt_overlap_size,
           IF config.job_size = 0 THEN 2 ^ mt_target_job_log
           ELSE Larger(ZSTDMT_JOBSIZE_MIN, Smaller(config.job_size, ZSTDMT_JOBSIZE_MAX)))

\* A job's blocks, by the window its pledge leaves it.
BlockSizeOf(p) ==
    Smaller(BLOCK_SIZE_MAX,
            IF p = None THEN window_size ELSE Larger(1, Smaller(window_size, p)))

-----------------------------------------------------------------------------
(* A job: where it starts in the input, the length of its prefix and of its *)
(* segment; attached and copied tell how the dictionary comes in.          *)

preloaded_contiguous_prefix(total_len) ==
    [NewWindow EXCEPT !.next_src_pos = total_len,
                      !.next_src_idx = W32(WINDOW_START_INDEX + total_len)]

streaming_ext_dict(len) ==
    [NewWindow EXCEPT !.dict_limit = W32(WINDOW_START_INDEX + len),
                      !.next_src_pos = len,
                      !.next_src_idx = W32(WINDOW_START_INDEX + len),
                      !.loaded_dict_end = W32(WINDOW_START_INDEX + len)]

\* The window when the job's chunk has been registered.
JobWindow(job) ==
    LET total == job.prefix + job.len
    IN  IF job.dict = "attached"
        THEN update(streaming_attached_dict(job.prefix), job.prefix, total)
        ELSE IF job.dict = "copied"
        THEN update(streaming_ext_dict(job.prefix), job.prefix, total)
        ELSE IF job.prefix > 0 THEN preloaded_contiguous_prefix(total)
        ELSE update(NewWindow, 0, total)

BlockCount(job) ==
    (job.len + BlockSizeOf(job.pledged) - 1) \div BlockSizeOf(job.pledged)

BlockEnd(job, k) ==
    job.prefix + Smaller(job.len, k * BlockSizeOf(job.pledged))

\* Mutant of Lowest: the distance is not limited to the window.
Lowest_Unbounded(job, w, k) ==
    IF job.dict = "attached" THEN WINDOW_START_INDEX ELSE w.low_limit

\* The lowest index the last byte of block k may be matched with.  The finders
\* for an attached dictionary look at neither low_limit nor the distance.
Lowest(job, w, k) ==
    IF job.dict = "attached" THEN WINDOW_START_INDEX
    ELSE IF w.loaded_dict_end # 0 THEN w.low_limit
    ELSE Larger(w.low_limit, BlockEnd(job, k) - 1 + w.seg_bias - window_size)

SlidTo(job, w, k) ==
    enforce_max_dist(
        check_dict_validity(w, W32(BlockEnd(job, k) + w.seg_bias), window_size),
        W32(BlockEnd(job, k - 1) + w.seg_bias), window_size)

\* The job's window before its first block, and slid to each of them.
Slides(job) ==
    LET window[k \in 0 .. BlockCount(job)] ==
            IF k = 0 THEN JobWindow(job) ELSE SlidTo(job, window[k - 1], k)
    IN  window

\* The block's last byte and the lowest byte it may refer to, in the input.
Reaches(job) ==
    LET window == Slides(job)
    IN  {[last |-> job.start + BlockEnd(job, k) - job.prefix - 1,
          lowest |-> job.start + Lowest(job, window[k], k)
                       - window[k].seg_bias - job.prefix] :
            k \in 1 .. BlockCount(job)}

Item(kind) == [kind |-> kind, of |-> <<>>]
ChecksumOf(bytes) == [kind |-> "checksum", of |-> bytes]

\* compress_continue, or compress_end up to its epilogue.
JobBlocks(job) ==
    (IF job.header THEN <<Item("header")>> ELSE <<>>)
    \o [k \in 1 .. BlockCount(job) |->
          Item(IF job.last /\ k = BlockCount(job) THEN "last" ELSE "block")]

\* The epilogue, with the checksum of a frame that is this job alone.
JobEpilogue(job, segment) ==
    IF ~job.last THEN <<>>
    ELSE (IF job.len = 0 THEN <<Item("last")>> ELSE <<>>)
         \o IF Checksum /\ job.header THEN <<ChecksumOf(segment)>> ELSE <<>>

PledgeExceeded(job) == job.len > 0 /\ job.pledged # None /\ job.len > job.pledged
PledgeMissed(job) == job.last /\ job.pledged # None /\ job.len # job.pledged

-----------------------------------------------------------------------------
(* The caller.  The first call resolves the pledge and starts the jobs, or  *)
(* leaves the input to the single-threaded encoder or to compress_mt.       *)

\* What the caller has fed.
Input == [k \in 1 .. accepted |-> k - 1]

Blank == -100
Ends == op = "End" /\ left = 0

Init ==
    /\ config \in Configs /\ requested \in Pledges
    /\ content_len > 0 => requested = None
    /\ pledged = None
    /\ buf = <<>> /\ prefix_len = 0 /\ filled = 0
    /\ first = TRUE /\ dict = "none" /\ hashed = <<>> /\ job_count = 0
    /\ items = <<>> /\ emitted = <<>> /\ jobs = <<>> /\ flushed = FALSE
    /\ frame_ended = FALSE
    /\ pc = "uninit" /\ op = "Continue" /\ left = 0
    /\ accepted = 0 /\ failed = FALSE

\* A call the caller may make: a flush has no input, a finish is the last one.
Offered(o, n) ==
    /\ n \in Inputs /\ accepted + n <= MaxInput /\ Len(items) <= MaxItems
    /\ o = "Flush" => n = 0

Engages(p) == p = None \/ p > ZSTDMT_JOBSIZE_MIN
Refused ==
    \/ mt_overlap_size > config.max_dict_size
    \/ content_len \in 1 .. HashReadSize

PledgeOf(o, n) == IF o = "End" THEN n ELSE requested
OneShot(o) == o = "End" /\ content_len = 0

\* Below the floor, or a compress_mt whose input fits one job.
FallsThrough(o, n) ==
    /\ pc = "uninit" /\ Offered(o, n)
    /\ \/ ~Engages(PledgeOf(o, n))
       \/ OneShot(o) /\ ~Refused /\ n < mt_target_section_size
    /\ pc' = "single"
    /\ UNCHANGED <<setup, pledged, section, frame, flushed, frame_ended, op, left,
                   accepted, failed>>

RefusesToStart(o, n) ==
    /\ pc = "uninit" /\ Offered(o, n) /\ Engages(PledgeOf(o, n)) /\ Refused
    /\ pc' = IF o = "End" THEN "consumed" ELSE "uninit"
    /\ failed' = TRUE
    /\ UNCHANGED <<setup, pledged, section, frame, flushed, frame_ended, op, left,
                   accepted>>

\* MtStreamState::new.  An engaged pledge is above every attach cutoff, so the
\* dictionary is attached exactly when the size is unknown.
Start(o, n) ==
    /\ pc = "uninit" /\ Offered(o, n) /\ Engages(PledgeOf(o, n)) /\ ~Refused
    /\ OneShot(o) => n >= mt_target_section_size
    /\ pledged' = PledgeOf(o, n)
    /\ buf' = [p \in 0 .. mt_overlap_size + mt_target_section_size - 1 |-> Blank]
    /\ dict' = IF content_len = 0 THEN "none"
               ELSE IF pledged' = None THEN "attached" ELSE "copied"
    /\ op' = o /\ left' = n
    /\ pc' = IF OneShot(o) THEN "oneshot" ELSE IF o = "Flush" THEN "flush" ELSE "fill"
    /\ UNCHANGED <<setup, prefix_len, filled, first, hashed, frame, flushed,
                   frame_ended, accepted, failed>>

Call(o, n) ==
    /\ pc = "idle" /\ Offered(o, n)
    /\ op' = o /\ left' = n
    /\ pc' = IF o = "Flush" THEN "flush" ELSE "fill"
    /\ UNCHANGED <<setup, pledged, section, frame, flushed, frame_ended, accepted,
                   failed>>

Caller ==
    \E o \in {"Continue", "Flush", "End"}, n \in Inputs :
        FallsThrough(o, n) \/ RefusesToStart(o, n) \/ Start(o, n) \/ Call(o, n)

Return ==
    /\ pc' = IF op = "End" THEN "consumed" ELSE "idle"
    /\ left' = 0 /\ UNCHANGED op

-----------------------------------------------------------------------------
(* push, end and flush: fill the section, and run it as a job ...           *)

\* Mutant of Full: a section is run one byte early.
Full_Early == filled' >= mt_target_section_size - 1

Full == filled' = mt_target_section_size

Fill ==
    /\ pc = "fill"
    /\ op = "Continue" => left > 0
    /\ LET n == Smaller(mt_target_section_size - filled, left)
           dst == prefix_len + filled
       IN  /\ buf' = [p \in DOMAIN buf |->
                        IF p \in dst .. dst + n - 1 THEN accepted + (p - dst)
                        ELSE buf[p]]
           /\ filled' = filled + n /\ left' = left - n /\ accepted' = accepted + n
    /\ pc' = IF op = "End" \/ Full THEN "run" ELSE "fill"
    /\ UNCHANGED <<setup, pledged, prefix_len, first, dict, hashed, frame, flushed,
                   frame_ended, op, failed>>

PushReturns ==
    /\ pc = "fill" /\ op = "Continue" /\ left = 0
    /\ Return
    /\ UNCHANGED <<setup, pledged, section, frame, flushed, frame_ended, accepted,
                   failed>>

\* A flush with nothing buffered writes nothing.
Flush ==
    /\ pc = "flush"
    /\ IF filled > 0
       THEN pc' = "run" /\ flushed' = TRUE /\ UNCHANGED <<op, left>>
       ELSE Return /\ UNCHANGED flushed
    /\ UNCHANGED <<setup, pledged, section, frame, frame_ended, accepted, failed>>

\* ... emit: the digest, and the job ...
\* Mutant of Segment: the prefix is compressed again.
Segment_FromStart == [k \in 1 .. filled |-> buf[k - 1]]

Segment == [k \in 1 .. filled |-> buf[prefix_len + k - 1]]

Job ==
    [start  |-> accepted - filled, len |-> filled, dict |-> dict,
     prefix |-> IF dict = "none" THEN prefix_len ELSE content_len,
     pledged |-> IF first THEN pledged ELSE filled,
     header |-> first, last |-> Ends]

Hashed == IF Checksum THEN hashed \o Segment ELSE hashed

LastEmptyBlock ==
    /\ pc = "run" /\ filled = 0 /\ ~first
    /\ items' = Append(items, Item("last"))
    /\ job_count' = job_count + 1
    /\ pc' = "close"
    /\ UNCHANGED <<setup, pledged, section, emitted, jobs, flushed, frame_ended, op,
                   left, accepted, failed>>

\* The dictionary is taken by the job, whether or not the job then fails.
RunJob ==
    /\ pc = "run" /\ (filled > 0 \/ first)
    /\ hashed' = Hashed
    /\ jobs' = Append(jobs, Job) /\ dict' = "none"
    /\ items' = items \o JobBlocks(Job)
    /\ emitted' = emitted \o Segment
    /\ pc' = "ran"
    /\ UNCHANGED <<setup, pledged, buf, prefix_len, filled, first, job_count, flushed,
                   frame_ended, op, left, accepted, failed>>

\* ... which fails without leaving the section, so that a later call runs it
\* again ...
Ran == jobs[Len(jobs)]

JobExceeds ==
    /\ pc = "ran" /\ PledgeExceeded(Ran)
    /\ failed' = TRUE /\ Return
    /\ UNCHANGED <<setup, pledged, section, frame, flushed, frame_ended, accepted>>

JobMisses ==
    /\ pc = "ran" /\ ~PledgeExceeded(Ran) /\ PledgeMissed(Ran)
    /\ items' = items \o JobEpilogue(Ran, Segment)
    /\ failed' = TRUE /\ Return
    /\ UNCHANGED <<setup, pledged, section, emitted, jobs, job_count, flushed,
                   frame_ended, accepted>>

\* Mutant of Carry: the overlap is the head of the section.
Carry_Head(n) ==
    /\ buf' = [p \in DOMAIN buf |-> IF p < n THEN buf[prefix_len + p] ELSE buf[p]]
    /\ prefix_len' = n

\* The job's last n bytes move to the front of the buffer.
Carry(n) ==
    /\ buf' = [p \in DOMAIN buf |->
                 IF p < n THEN buf[prefix_len + filled - n + p] ELSE buf[p]]
    /\ prefix_len' = n

Overlap == Smaller(mt_overlap_size, filled)

\* ... or is done, and carries its overlap over to the next one.
JobDone ==
    /\ pc = "ran" /\ ~PledgeExceeded(Ran) /\ ~PledgeMissed(Ran)
    /\ items' = items \o JobEpilogue(Ran, Segment)
    /\ job_count' = job_count + 1
    /\ IF Ends THEN UNCHANGED <<buf, prefix_len>>
       ELSE Carry(Overlap)
    /\ filled' = 0 /\ first' = FALSE
    /\ pc' = IF Ends THEN "close" ELSE IF op = "Flush" THEN "idle" ELSE "fill"
    /\ UNCHANGED <<setup, pledged, dict, hashed, emitted, jobs, flushed, frame_ended,
                   op, left, accepted, failed>>

-----------------------------------------------------------------------------
(* compress_mt: all the input at once, one turn of its loop for each job.   *)

OneShotJob ==
    LET len == Smaller(mt_target_section_size, left)
    IN  [start |-> accepted, len |-> len, dict |-> "none",
         prefix |-> IF first THEN 0 ELSE Smaller(mt_overlap_size, accepted),
         pledged |-> IF first THEN left ELSE len,
         header |-> first, last |-> len = left]

OneShotSegment == [k \in 1 .. OneShotJob.len |-> accepted + k - 1]

\* No job of this loop fails on its pledge.  The digest is taken of the input.
RunOneShot ==
    /\ pc = "oneshot"
    /\ jobs' = Append(jobs, OneShotJob) /\ job_count' = job_count + 1
    /\ items' = items \o JobBlocks(OneShotJob)
                      \o JobEpilogue(OneShotJob, OneShotSegment)
    /\ emitted' = emitted \o OneShotSegment
    /\ accepted' = accepted + OneShotJob.len /\ left' = left - OneShotJob.len
    /\ hashed' = IF Checksum /\ OneShotJob.last THEN Input' ELSE hashed
    /\ first' = FALSE
    /\ pc' = IF OneShotJob.last THEN "close" ELSE "oneshot"
    /\ UNCHANGED <<setup, pledged, buf, prefix_len, filled, dict, flushed,
                   frame_ended, op, failed>>

-----------------------------------------------------------------------------
\* Mutant of NeedsDigest: a single job gets a second one.
NeedsDigest_Always == Checksum

\* A single job has written the checksum itself.
NeedsDigest == Checksum /\ job_count > 1

Close ==
    /\ pc = "close"
    /\ items' = IF NeedsDigest THEN Append(items, ChecksumOf(hashed)) ELSE items
    /\ frame_ended' = TRUE /\ pc' = "consumed"
    /\ UNCHANGED <<setup, pledged, section, emitted, jobs, job_count, flushed, op,
                   left, accepted, failed>>

Jobs ==
    \/ Fill \/ PushReturns \/ Flush
    \/ LastEmptyBlock \/ RunJob \/ JobExceeds \/ JobMisses \/ JobDone
    \/ RunOneShot \/ Close

Next == Caller \/ Jobs

\* The code of a call runs to its end; nothing obliges the caller to call.
Spec == Init /\ [][Next]_vars /\ WF_vars(Jobs)

-----------------------------------------------------------------------------
(* Properties.                                                             *)

JobType ==
    [start : Nat, len : Nat, dict : {"none", "attached", "copied"}, prefix : Nat,
     pledged : Nat \cup {None}, header : BOOLEAN, last : BOOLEAN]

Items == [kind : {"header", "block", "last", "checksum"}, of : Seq(Int)]

Slots == 0 .. mt_overlap_size + mt_target_section_size - 1
Streaming == pc \in {"idle", "fill", "flush", "run", "ran"}

TypeOK ==
    /\ config \in Configs /\ requested \in Pledges
    /\ pledged \in Nat \cup {None}
    /\ Streaming => buf \in [Slots -> Int]
    /\ prefix_len \in Nat /\ filled \in Nat
    /\ first \in BOOLEAN /\ dict \in {"none", "attached", "copied"}
    /\ hashed \in Seq(Int) /\ job_count \in Nat
    /\ items \in Seq(Items) /\ emitted \in Seq(Int) /\ jobs \in Seq(JobType)
    /\ flushed \in BOOLEAN /\ frame_ended \in BOOLEAN
    /\ pc \in {"uninit", "single", "idle", "fill", "flush", "run", "ran",
               "oneshot", "close", "consumed"}
    /\ op \in {"Continue", "Flush", "End"} /\ left \in Nat
    /\ accepted \in Nat /\ failed \in BOOLEAN

\* However the input is cut into jobs, one frame comes out: one header, blocks
\* of which the last and only the last is marked, and at most one checksum, of
\* all the input.
WellFormedFrame ==
    frame_ended =>
        LET blocks == IF Checksum THEN Len(items) - 1 ELSE Len(items)
        IN  /\ emitted = Input
            /\ items[1].kind = "header"
            /\ \A k \in 2 .. blocks :
                   items[k].kind = IF k = blocks THEN "last" ELSE "block"
            /\ Checksum => items[Len(items)] = ChecksumOf(Input)

\* The prefix a job is primed with is the input just before its section, and
\* the section is the input that follows it.
PrefixIsHistory ==
    pc \in {"idle", "fill", "flush", "run"} =>
        \A p \in 0 .. prefix_len + filled - 1 :
            buf[p] = accepted - filled - prefix_len + p

\* "job boundaries and per-job prefixes are pure arithmetic": unless the caller
\* flushes, however it slices its input, streamed or one-shot.
JobsAreArithmetic ==
    ~flushed /\ ~failed =>
        \A k \in DOMAIN jobs :
            LET start == (k - 1) * mt_target_section_size
            IN  /\ jobs[k].start = start
                /\ jobs[k].prefix = IF k = 1 THEN content_len ELSE mt_overlap_size
                /\ ~jobs[k].last => jobs[k].len = mt_target_section_size

\* The window the frame declares.
Declared == IF pledged = None THEN window_size ELSE Smaller(window_size, pledged)

WithinWindow(job) ==
    \A reach \in Reaches(job) :
        IF reach.lowest < 0 THEN reach.last < Declared
        ELSE reach.last - reach.lowest <= Declared

\* Nothing drops an attached dictionary inside a job: check_dict_validity leaves it to
\* the caller, which asks cdict_attach_overflow of a single-threaded stream only.
OutgrowsAttached(job) == job.dict = "attached" /\ job.len > window_size

\* No byte of a job can be matched with one farther back than the declared window,
\* nor with the dictionary once the content outgrows that window, in every job but
\* one: a first section longer than the window that a dictionary is attached to, as
\* it is with the sections of the default sizes, reaches all of both to its end.
ReachWithinWindow ==
    pledged = None \/ accepted <= pledged =>
        \A k \in DOMAIN jobs : WithinWindow(jobs[k]) <=> ~OutgrowsAttached(jobs[k])

\* The inductive invariant behind the theorems of MtStream_proof.  The section
\* stays within the buffer, behind a prefix that the input has room for ...
Pointers ==
    /\ prefix_len <= mt_overlap_size /\ filled <= mt_target_section_size
    /\ prefix_len + filled <= accepted
    /\ \/ pc \in {"uninit", "single", "idle", "flush", "close", "consumed"}
       \/ op = "Flush"
       => left = 0
    /\ first <=> job_count = 0
    /\ first => prefix_len = 0 /\ accepted = filled
    /\ pc \in {"uninit", "single"} => first /\ accepted = 0
    /\ pc = "oneshot" => filled = 0 /\ left > 0

\* ... the buffer holds the end of the input taken (PrefixIsHistory, and while a
\* job is judged) ...
Buffered ==
    Streaming =>
        \A p \in 0 .. prefix_len + filled - 1 :
            buf[p] = accepted - filled - prefix_len + p

\* ... an empty section is run only to end the frame, and the job that ran is
\* the section's ...
Running ==
    /\ pc = "flush" => op = "Flush"
    /\ pc = "run" => op = "Flush" \/ Ends \/ filled = mt_target_section_size
    /\ pc = "run" /\ filled = 0 => Ends
    /\ pc = "ran" =>
        /\ jobs # <<>> /\ Ran.len = filled /\ Ran.header = first /\ Ran.last = Ends
        /\ Ran.pledged = IF first THEN pledged ELSE filled
        /\ op = "Flush" \/ Ends \/ filled = mt_target_section_size
        /\ filled > 0 \/ first

\* ... what was written is the input taken, without the section ...
Accounting ==
    ~failed =>
        /\ \A k \in 1 .. Len(emitted) : emitted[k] = k - 1
        /\ Len(emitted) = IF pc = "ran" THEN accepted ELSE accepted - filled
        /\ Checksum /\ pc # "oneshot" => hashed = emitted

\* ... as a header and blocks, of which the last job marks its last ...
HeaderAndBlocks(n) ==
    /\ Len(items) >= 1 /\ items[1].kind = "header"
    /\ \A k \in 2 .. n : items[k].kind = "block"

FrameShape ==
    ~failed =>
        /\ pc \in {"uninit", "single", "idle", "fill", "flush", "run", "oneshot"} =>
               IF first THEN items = <<>> ELSE HeaderAndBlocks(Len(items))
        /\ pc = "ran" =>
               IF Ends /\ filled > 0
               THEN /\ Len(items) >= 2 /\ HeaderAndBlocks(Len(items) - 1)
                    /\ items[Len(items)].kind = "last"
               ELSE HeaderAndBlocks(Len(items))
        /\ pc = "close" =>
               LET blocks == IF Checksum /\ job_count = 1
                             THEN Len(items) - 1 ELSE Len(items)
               IN  /\ blocks >= 2 /\ HeaderAndBlocks(blocks - 1)
                   /\ items[blocks].kind = "last"
                   /\ Checksum /\ job_count = 1 =>
                          items[Len(items)] = ChecksumOf(Input)
                   /\ filled = 0 /\ job_count > 0
        /\ pc = "consumed" => frame_ended
        /\ frame_ended => WellFormedFrame

\* ... and after an error what caused it makes every later call fail as well.
Doomed ==
    /\ frame_ended => pc = "consumed" /\ ~failed
    /\ failed =>
        \/ pc \in {"single", "consumed"}
        \/ pc = "uninit" /\ Refused
        \/ Streaming /\ first /\ pledged # None /\ filled > pledged

IInv ==
    TypeOK /\ Pointers /\ Buffered /\ Running /\ Accounting /\ FrameShape /\ Doomed

\* ... while the caller does not flush, every job but the last is a section.
Arithmetic ==
    ~flushed /\ ~failed =>
        LET done == IF pc = "ran" THEN Len(jobs) - 1 ELSE Len(jobs)
        IN  /\ pc \in {"idle", "fill", "flush", "run", "ran", "oneshot"} =>
                  accepted - filled = done * mt_target_section_size
            /\ Streaming => prefix_len = IF done = 0 THEN 0 ELSE mt_overlap_size
            /\ pc \in {"idle", "fill", "flush", "run"} =>
                  (dict = "none" <=> done > 0 \/ content_len = 0)
            /\ pc \in {"fill", "run", "ran"} => op # "Flush"
            /\ pc = "ran" => dict = "none"
            /\ pc = "oneshot" => content_len = 0 /\ (first <=> done = 0)
            /\ pc = "uninit" => jobs = <<>>
            /\ JobsAreArithmetic

\* ... and a dictionary belongs to the first section, attached only without a pledge.
Placed ==
    /\ dict # "none" => first /\ pc \notin {"uninit", "ran", "oneshot"}
    /\ dict = "attached" => pledged = None /\ content_len > 0
    /\ pc = "uninit" => jobs = <<>>
    /\ \A k \in DOMAIN jobs :
           /\ jobs[k].start + jobs[k].len <= accepted
           /\ jobs[k].len <= mt_target_section_size
           /\ jobs[k].dict # "none" => jobs[k].start = 0 /\ jobs[k].prefix = content_len
           /\ jobs[k].dict = "attached" => pledged = None /\ content_len > 0

\* What a streaming encoder promises, however many jobs it takes.
Contract == INSTANCE EncoderContract WITH
    given <- accepted + left,
    content <- emitted,
    status <- IF frame_ended THEN "closed" ELSE IF failed THEN "failed" ELSE "open"

ImplementsContract == Contract!Spec
=============================================================================
