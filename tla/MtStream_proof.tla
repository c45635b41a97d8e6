--------------------------- MODULE MtStream_proof ---------------------------
(***************************************************************************)
(* Proofs about MtStream, for every value of its constants: the invariant  *)
(* IInv is inductive, and what follows from it; then how far a job of the  *)
(* frame refers back, beyond the window that the frame declares exactly    *)
(* when a dictionary is attached to a section longer than the window.      *)
(***************************************************************************)
EXTENDS MtStream, Window_proof, SequenceTheorems, SetInduction, TLAPS

-----------------------------------------------------------------------------
(* Sizes.                                                                  *)

LEMMA Sizes ==
    ASSUME config \in Configs
    PROVE  /\ window_size \in Nat \ {0}
           /\ mt_overlap_size \in Nat
           /\ mt_target_section_size \in Nat \ {0}
           /\ mt_overlap_size <= mt_target_section_size
<1>1. /\ config.window_log \in 0 .. ZSTDMT_JOBLOG_MAX
      /\ config.default_overlap_log \in 6 .. 9 /\ config.overlap_log \in 0 .. 9
      /\ config.job_size \in Nat
  BY MtAssumption DEF ConfigType
<1>2. window_size \in Nat \ {0}
  BY <1>1, ShiftAssumption DEF window_size
<1>3. mt_overlap_size \in Nat
  <2> DEFINE log == IF config.overlap_log = 0 THEN config.default_overlap_log
                    ELSE config.overlap_log
             size == config.window_log - (9 - log)
  <2>1. log \in 1 .. 9
    BY <1>1
  <2>2. size \in Int /\ size <= config.window_log
    BY <1>1, <2>1
  <2>3. CASE size <= 0
    BY <2>3 DEF mt_overlap_size
  <2>4. CASE ~(size <= 0)
    <3>1. size \in 0 .. ZSTDMT_JOBLOG_MAX
      BY <1>1, <2>2, <2>4, MtAssumption
    <3>2. 2 ^ size \in Nat
      BY <3>1, ShiftAssumption
    <3> QED
      BY <3>2 DEF mt_overlap_size
  <2> QED
    BY <2>3, <2>4
<1>4. mt_target_job_log \in 0 .. ZSTDMT_JOBLOG_MAX
  BY <1>1, MtAssumption DEF mt_target_job_log, Smaller, Larger
<1>5. 2 ^ mt_target_job_log \in Nat \ {0}
  BY <1>4, ShiftAssumption
<1> DEFINE explicit == Larger(ZSTDMT_JOBSIZE_MIN,
                              Smaller(config.job_size, ZSTDMT_JOBSIZE_MAX))
<1>6. explicit \in Nat \ {0}
  BY <1>1, MtAssumption DEF Larger, Smaller
<1> DEFINE size == IF config.job_size = 0 THEN 2 ^ mt_target_job_log ELSE explicit
<1>7. size \in Nat \ {0}
  BY <1>5, <1>6
<1>8. mt_target_section_size = Larger(mt_overlap_size, size)
  BY DEF mt_target_section_size
<1> HIDE DEF size
<1> QED
  BY <1>2, <1>3, <1>7, <1>8 DEF Larger

\* What no step changes.
LEMMA SetupKept ==
    ASSUME [Next]_vars
    PROVE  /\ config' = config /\ requested' = requested
           /\ content_len' = content_len /\ window_size' = window_size
           /\ mt_overlap_size' = mt_overlap_size
           /\ mt_target_section_size' = mt_target_section_size
           /\ Slots' = Slots /\ Refused' = Refused
<1>1. UNCHANGED setup
  BY DEF Next, Caller, Jobs, vars, FallsThrough, RefusesToStart, Start, Call, Fill,
         PushReturns, Flush, LastEmptyBlock, RunJob, JobExceeds, JobMisses, JobDone,
         RunOneShot, Close
<1>2. config' = config /\ requested' = requested
  BY <1>1 DEF setup
<1>3. /\ content_len' = content_len /\ window_size' = window_size
      /\ mt_overlap_size' = mt_overlap_size
  BY <1>2 DEF content_len, window_size, mt_overlap_size
<1>4. mt_target_section_size' = mt_target_section_size
  BY <1>2, <1>3 DEF mt_target_section_size, mt_target_job_log
<1> QED
  BY <1>2, <1>3, <1>4 DEF Slots, Refused

-----------------------------------------------------------------------------
(* Jobs.                                                                   *)

LEMMA BlockSizes ==
    ASSUME config \in Configs, NEW p \in Nat \cup {None}
    PROVE  BlockSizeOf(p) \in Nat \ {0}
BY Sizes, MtAssumption DEF BlockSizeOf, Smaller, Larger, None

LEMMA BlockCounts ==
    ASSUME config \in Configs, NEW job \in JobType
    PROVE  /\ BlockCount(job) \in Nat
           /\ BlockCount(job) = 0 <=> job.len = 0
<1> DEFINE size == BlockSizeOf(job.pledged)
<1>1. size \in Nat \ {0} /\ job.len \in Nat
  BY BlockSizes DEF JobType
<1>2. BlockCount(job) = (job.len + size - 1) \div size
  BY DEF BlockCount
<1> HIDE DEF size
<1>3. CASE job.len = 0
  BY <1>1, <1>2, <1>3
<1>4. CASE job.len # 0
  <2>1. job.len + size - 1 \in Nat /\ job.len + size - 1 >= size
    BY <1>1, <1>4
  <2> QED
    BY <1>1, <1>2, <1>4, <2>1
<1> QED
  BY <1>3, <1>4

\* What a job writes: a header or none, then its blocks, the last one marked if
\* the job is the last.
LEMMA JobBlocksShape ==
    ASSUME config \in Configs, NEW job \in JobType
    PROVE  LET written == JobBlocks(job)
               h == IF job.header THEN 1 ELSE 0
           IN  /\ written \in Seq(Items)
               /\ Len(written) \in Nat /\ Len(written) >= h
               /\ Len(written) > h <=> job.len > 0
               /\ job.header => written[1].kind = "header"
               /\ \A k \in h + 1 .. Len(written) :
                      written[k].kind = IF job.last /\ k = Len(written)
                                        THEN "last" ELSE "block"
<1> DEFINE n == BlockCount(job)
           head == IF job.header THEN <<Item("header")>> ELSE <<>>
           blocks == [k \in 1 .. n |->
                        Item(IF job.last /\ k = n THEN "last" ELSE "block")]
           h == IF job.header THEN 1 ELSE 0
<1>1. n \in Nat /\ (n = 0 <=> job.len = 0) /\ job.len \in Nat /\ h \in {0, 1}
  BY BlockCounts DEF JobType
<1>2. JobBlocks(job) = head \o blocks
  BY DEF JobBlocks
<1>3. \A kind \in {"header", "block", "last", "checksum"} :
          Item(kind) \in Items /\ Item(kind).kind = kind
  BY DEF Item, Items
<1>4. head \in Seq(Items) /\ Len(head) = h /\ (job.header => head[1].kind = "header")
  <2>1. CASE job.header
    BY <1>3, <2>1
  <2>2. CASE ~job.header
    BY <2>2
  <2> QED
    BY <2>1, <2>2
<1> HIDE DEF n
<1>5. /\ blocks \in Seq(Items) /\ Len(blocks) = n
      /\ \A k \in 1 .. n : blocks[k].kind = IF job.last /\ k = n THEN "last" ELSE "block"
  BY <1>1, <1>3
<1> HIDE DEF head, blocks, h
<1>6. /\ head \o blocks \in Seq(Items) /\ Len(head \o blocks) = h + n
      /\ \A k \in 1 .. h + n :
             (head \o blocks)[k] = IF k <= h THEN head[k] ELSE blocks[k - h]
  BY <1>4, <1>5, ConcatProperties
<1>7. job.header => (head \o blocks)[1].kind = "header"
  BY <1>1, <1>4, <1>6 DEF h
<1>8. ASSUME NEW k \in h + 1 .. h + n
      PROVE  (head \o blocks)[k].kind = IF job.last /\ k = h + n THEN "last" ELSE "block"
  <2>1. k - h \in 1 .. n /\ (k - h = n <=> k = h + n) /\ ~(k <= h) /\ k \in 1 .. h + n
    BY <1>1
  <2> QED
    BY <1>5, <1>6, <2>1
<1> QED
  BY <1>1, <1>2, <1>6, <1>7, <1>8 DEF h

LEMMA JobEpilogueShape ==
    ASSUME NEW job \in JobType, NEW segment \in Seq(Int)
    PROVE  LET written == JobEpilogue(job, segment)
               e == IF job.len = 0 THEN 1 ELSE 0
           IN  /\ written \in Seq(Items)
               /\ ~job.last => written = <<>>
               /\ job.last => Len(written) = e + IF Checksum /\ job.header THEN 1 ELSE 0
               /\ job.last /\ job.len = 0 => written[1].kind = "last"
               /\ job.last /\ Checksum /\ job.header =>
                      written[Len(written)] = ChecksumOf(segment)
<1>1. Item("last") \in Items /\ Item("last").kind = "last"
  BY DEF Item, Items
<1>2. ChecksumOf(segment) \in Items
  BY DEF ChecksumOf, Items
<1> DEFINE empty == IF job.len = 0 THEN <<Item("last")>> ELSE <<>>
           digest == IF Checksum /\ job.header THEN <<ChecksumOf(segment)>> ELSE <<>>
           e == IF job.len = 0 THEN 1 ELSE 0
           d == IF Checksum /\ job.header THEN 1 ELSE 0
<1>3. empty \in Seq(Items) /\ Len(empty) = e /\ (job.len = 0 => empty[1].kind = "last")
  BY <1>1
<1>4. /\ digest \in Seq(Items) /\ Len(digest) = d
      /\ Checksum /\ job.header => digest[1] = ChecksumOf(segment)
  BY <1>2
<1>5. /\ ~job.last => JobEpilogue(job, segment) = <<>>
      /\ job.last => JobEpilogue(job, segment) = empty \o digest
  BY DEF JobEpilogue
<1>6. e \in {0, 1} /\ d \in {0, 1} /\ (job.len = 0 => e = 1)
      /\ (Checksum /\ job.header => d = 1)
  OBVIOUS
<1> HIDE DEF empty, digest, e, d
<1>7. /\ empty \o digest \in Seq(Items) /\ Len(empty \o digest) = e + d
      /\ \A k \in 1 .. e + d :
             (empty \o digest)[k] = IF k <= e THEN empty[k] ELSE digest[k - e]
  BY <1>3, <1>4, ConcatProperties
<1>8. job.len = 0 => (empty \o digest)[1].kind = "last"
  BY <1>3, <1>6, <1>7
<1>9. Checksum /\ job.header => (empty \o digest)[e + d] = ChecksumOf(segment)
  <2> SUFFICES ASSUME Checksum, job.header
               PROVE  (empty \o digest)[e + d] = ChecksumOf(segment)
    OBVIOUS
  <2>1. d = 1 /\ e + d \in 1 .. e + d /\ ~(e + d <= e) /\ (e + d) - e = 1
    BY <1>6
  <2> QED
    BY <1>4, <1>7, <2>1
<1>10. CASE ~job.last
  <2>1. JobEpilogue(job, segment) = <<>>
    BY <1>5, <1>10
  <2> QED
    BY <1>10, <2>1
<1>11. CASE job.last
  <2>1. /\ JobEpilogue(job, segment) = empty \o digest
        /\ Len(JobEpilogue(job, segment)) = e + d
    BY <1>5, <1>7, <1>11
  <2> QED
    BY <1>7, <1>8, <1>9, <1>11, <2>1 DEF e, d
<1> QED
  BY <1>10, <1>11

LEMMA SegmentShape ==
    ASSUME TypeOK, Pointers, Streaming
    PROVE  /\ Segment \in Seq(Int) /\ Len(Segment) = filled
           /\ \A k \in 1 .. filled :
                  /\ prefix_len + k - 1 \in Slots
                  /\ Segment[k] = buf[prefix_len + k - 1]
<1>1. /\ buf \in [Slots -> Int] /\ filled \in Nat /\ prefix_len \in Nat
      /\ mt_overlap_size \in Nat /\ mt_target_section_size \in Nat
      /\ prefix_len <= mt_overlap_size /\ filled <= mt_target_section_size
  BY Sizes DEF TypeOK, Pointers
<1>2. \A k \in 1 .. filled : prefix_len + k - 1 \in Slots
  BY <1>1 DEF Slots
<1>3. \A k \in 1 .. filled : buf[prefix_len + k - 1] \in Int
  BY <1>1, <1>2
<1> QED
  BY <1>1, <1>2, <1>3 DEF Segment

LEMMA JobShape ==
    ASSUME TypeOK, Pointers
    PROVE  /\ Job \in JobType
           /\ Job.len = filled /\ Job.header = first /\ Job.last = Ends
           /\ Job.pledged = IF first THEN pledged ELSE filled
           /\ Job.start = accepted - filled /\ Job.dict = dict
           /\ Job.prefix = IF dict = "none" THEN prefix_len ELSE content_len
<1>1. content_len \in Nat
  BY MtAssumption DEF TypeOK, ConfigType, content_len
<1>2. accepted - filled \in Nat
  BY DEF TypeOK, Pointers
<1> QED
  BY <1>1, <1>2 DEF Job, JobType, TypeOK, Ends

LEMMA OneShotShape ==
    ASSUME TypeOK, Pointers, pc = "oneshot"
    PROVE  /\ OneShotJob \in JobType
           /\ OneShotJob.len \in 1 .. left
           /\ OneShotJob.header = first /\ OneShotJob.start = accepted
           /\ OneShotJob.last <=> OneShotJob.len = left
           /\ ~OneShotJob.last => OneShotJob.len = mt_target_section_size
           /\ OneShotSegment \in Seq(Int) /\ Len(OneShotSegment) = OneShotJob.len
           /\ \A k \in 1 .. OneShotJob.len : OneShotSegment[k] = accepted + k - 1
<1> DEFINE len == Smaller(mt_target_section_size, left)
<1>1. /\ accepted \in Nat /\ left \in Nat /\ left > 0 /\ first \in BOOLEAN
      /\ mt_overlap_size \in Nat /\ mt_target_section_size \in Nat \ {0}
  BY Sizes DEF TypeOK, Pointers
<1>2. len \in 1 .. left /\ (len # left => len = mt_target_section_size)
  BY <1>1 DEF Smaller
<1>3. Smaller(mt_overlap_size, accepted) \in Nat
  BY <1>1 DEF Smaller
<1> HIDE DEF len
<1>4. OneShotJob =
        [start |-> accepted, len |-> len, dict |-> "none",
         prefix |-> IF first THEN 0 ELSE Smaller(mt_overlap_size, accepted),
         pledged |-> IF first THEN left ELSE len,
         header |-> first, last |-> len = left]
  BY DEF OneShotJob, len
<1>5. OneShotJob \in JobType
  BY <1>1, <1>2, <1>3, <1>4 DEF JobType
<1>6. OneShotJob.len = len
  BY <1>4
<1>7. OneShotSegment = [k \in 1 .. len |-> accepted + k - 1]
  BY <1>6 DEF OneShotSegment
<1>8. OneShotSegment \in Seq(Int) /\ Len(OneShotSegment) = len
  BY <1>1, <1>2, <1>7
<1> QED
  BY <1>2, <1>4, <1>5, <1>6, <1>7, <1>8

-----------------------------------------------------------------------------
(* Type correctness.                                                       *)

LEMMA TypeInit == Init => TypeOK
<1> SUFFICES ASSUME Init PROVE TypeOK
  OBVIOUS
<1>1. pledged \in Nat \cup {None} /\ requested \in Pledges
  BY DEF Init
<1>2. /\ hashed \in Seq(Int) /\ items \in Seq(Items) /\ emitted \in Seq(Int)
      /\ jobs \in Seq(JobType)
  BY DEF Init
<1> QED
  BY <1>1, <1>2 DEF Init, TypeOK, Streaming

LEMMA StartType ==
    ASSUME TypeOK, Pointers, NEW o \in {"Continue", "Flush", "End"}, NEW n \in Inputs,
           Start(o, n), [Next]_vars
    PROVE  TypeOK'
<1>1. n \in Nat /\ PledgeOf(o, n) \in Nat \cup {None}
  BY MtAssumption DEF PledgeOf, TypeOK
<1>2. buf' \in [Slots' -> Int]
  BY SetupKept, Sizes DEF Start, Slots, Blank
<1> QED
  BY <1>1, <1>2, SetupKept DEF Start, TypeOK, Streaming, frame

LEMMA FillType ==
    ASSUME TypeOK, Pointers, Fill, [Next]_vars
    PROVE  /\ TypeOK'
           /\ LET n == Smaller(mt_target_section_size - filled, left)
              IN  /\ n \in Nat /\ n <= left /\ filled + n <= mt_target_section_size
                  /\ n = left \/ filled + n = mt_target_section_size
                  /\ filled' = filled + n /\ left' = left - n
                  /\ accepted' = accepted + n
                  /\ buf' = [p \in Slots |->
                               IF p \in prefix_len + filled .. prefix_len + filled + n - 1
                               THEN accepted + (p - (prefix_len + filled)) ELSE buf[p]]
<1> DEFINE n == Smaller(mt_target_section_size - filled, left)
<1>1. /\ buf \in [Slots -> Int] /\ filled \in Nat /\ prefix_len \in Nat
      /\ accepted \in Nat /\ left \in Nat /\ Slots \subseteq Int
      /\ mt_target_section_size \in Nat /\ filled <= mt_target_section_size
  BY Sizes DEF TypeOK, Pointers, Fill, Streaming, Slots
<1>2. /\ n \in Nat /\ n <= left /\ filled + n <= mt_target_section_size
      /\ n = left \/ filled + n = mt_target_section_size
  BY <1>1 DEF Smaller
<1>3. /\ filled' = filled + n /\ left' = left - n /\ accepted' = accepted + n
      /\ buf' = [p \in Slots |->
                   IF p \in prefix_len + filled .. prefix_len + filled + n - 1
                   THEN accepted + (p - (prefix_len + filled)) ELSE buf[p]]
  BY <1>1 DEF Fill
<1> HIDE DEF n
<1>4. buf' \in [Slots' -> Int]
  <2>1. ASSUME NEW p \in Slots
        PROVE  /\ accepted + (p - (prefix_len + filled)) \in Int
               /\ buf[p] \in Int
    BY <1>1
  <2> QED
    BY <1>3, <2>1, SetupKept
<1>5. filled' \in Nat /\ left' \in Nat /\ accepted' \in Nat
  BY <1>1, <1>2, <1>3
<1>6. pc' \in {"run", "fill"}
  BY DEF Fill
<1>7. TypeOK'
  BY <1>4, <1>5, <1>6, SetupKept DEF Fill, TypeOK, frame
<1> QED
  BY <1>2, <1>3, <1>7 DEF n

LEMMA RunJobType ==
    ASSUME TypeOK, Pointers, RunJob, [Next]_vars
    PROVE  TypeOK'
<1>1. pc = "run" /\ Streaming /\ Streaming' /\ UNCHANGED buf
  BY DEF RunJob, Streaming
<1>2. Job \in JobType /\ Segment \in Seq(Int) /\ config \in Configs
  BY <1>1, JobShape, SegmentShape DEF TypeOK
<1>3. items' \in Seq(Items)
  <2>1. JobBlocks(Job) \in Seq(Items) /\ items \in Seq(Items)
    BY <1>2, JobBlocksShape DEF TypeOK
  <2> QED
    BY <2>1, ConcatProperties DEF RunJob
<1>4. emitted' \in Seq(Int)
  BY <1>2, ConcatProperties DEF RunJob, TypeOK
<1>5. hashed' \in Seq(Int)
  BY <1>2, ConcatProperties DEF RunJob, Hashed, TypeOK
<1>6. jobs' \in Seq(JobType)
  BY <1>2, AppendProperties DEF RunJob, TypeOK
<1> QED
  BY <1>1, <1>3, <1>4, <1>5, <1>6, SetupKept DEF RunJob, TypeOK

\* The job that ran, and what its epilogue adds to the frame.
LEMMA RanShape ==
    ASSUME TypeOK, Pointers, Running, pc = "ran"
    PROVE  /\ Ran \in JobType
           /\ Segment \in Seq(Int)
           /\ items \o JobEpilogue(Ran, Segment) \in Seq(Items)
<1>1. Ran \in JobType
  <2>1. jobs \in Seq(JobType) /\ jobs # <<>>
    BY DEF TypeOK, Running
  <2>2. Len(jobs) \in 1 .. Len(jobs)
    BY <2>1, EmptySeq, LenProperties
  <2> QED
    BY <2>1, <2>2, ElementOfSeq DEF Ran
<1>2. Segment \in Seq(Int)
  BY SegmentShape DEF Streaming
<1>3. items \in Seq(Items) /\ JobEpilogue(Ran, Segment) \in Seq(Items)
  BY <1>1, <1>2, JobEpilogueShape DEF TypeOK
<1> QED
  BY <1>1, <1>2, <1>3, ConcatProperties

LEMMA JobDoneType ==
    ASSUME TypeOK, Pointers, Running, JobDone, [Next]_vars
    PROVE  /\ TypeOK'
           /\ Overlap \in Nat /\ Overlap <= filled /\ Overlap <= mt_overlap_size
<1>1. /\ buf \in [Slots -> Int] /\ filled \in Nat /\ prefix_len \in Nat
      /\ mt_overlap_size \in Nat /\ mt_target_section_size \in Nat
      /\ filled <= mt_target_section_size /\ prefix_len <= mt_overlap_size
  BY Sizes DEF TypeOK, Pointers, JobDone, Streaming
<1>2. Overlap \in Nat /\ Overlap <= filled /\ Overlap <= mt_overlap_size
  BY <1>1 DEF Overlap, Smaller
<1>3. items' \in Seq(Items)
  BY RanShape DEF JobDone
<1>4. buf' \in [Slots' -> Int] /\ prefix_len' \in Nat
  <2>1. CASE Ends
    BY <1>1, <2>1, SetupKept DEF JobDone
  <2>2. CASE ~Ends
    <3>1. /\ prefix_len' = Overlap
          /\ buf' = [p \in Slots |->
                       IF p < Overlap THEN buf[prefix_len + filled - Overlap + p]
                       ELSE buf[p]]
      BY <1>1, <2>2 DEF JobDone, Carry
    <3>2. ASSUME NEW p \in Slots
          PROVE  (IF p < Overlap THEN buf[prefix_len + filled - Overlap + p]
                  ELSE buf[p]) \in Int
      <4>1. p < Overlap => prefix_len + filled - Overlap + p \in Slots
        BY <1>1, <1>2 DEF Slots
      <4> QED
        BY <1>1, <4>1
    <3> QED
      BY <1>2, <3>1, <3>2, SetupKept
  <2> QED
    BY <2>1, <2>2
<1>5. job_count' \in Nat /\ filled' \in Nat /\ pc' \in {"close", "idle", "fill"}
  BY DEF JobDone, TypeOK
<1>6. /\ UNCHANGED <<pledged, dict, hashed, emitted, jobs, flushed, frame_ended, op,
                     left, accepted, failed>>
      /\ first' = FALSE
  BY DEF JobDone
<1> QED
  BY <1>2, <1>3, <1>4, <1>5, <1>6, SetupKept DEF TypeOK

LEMMA RunOneShotType ==
    ASSUME TypeOK, Pointers, RunOneShot, [Next]_vars
    PROVE  TypeOK'
<1>1. pc = "oneshot" /\ pc' \in {"close", "oneshot"}
  BY DEF RunOneShot
<1>2. /\ OneShotJob \in JobType /\ OneShotJob.len \in 1 .. left
      /\ OneShotSegment \in Seq(Int) /\ config \in Configs
  BY <1>1, OneShotShape DEF TypeOK
<1>3. items' \in Seq(Items)
  <2>1. /\ JobBlocks(OneShotJob) \in Seq(Items) /\ items \in Seq(Items)
        /\ JobEpilogue(OneShotJob, OneShotSegment) \in Seq(Items)
    BY <1>2, JobBlocksShape, JobEpilogueShape DEF TypeOK
  <2>2. items \o JobBlocks(OneShotJob) \in Seq(Items)
    BY <2>1, ConcatProperties
  <2> QED
    BY <2>1, <2>2, ConcatProperties DEF RunOneShot
<1>4. emitted' \in Seq(Int)
  BY <1>2, ConcatProperties DEF RunOneShot, TypeOK
<1>5. accepted' \in Nat /\ left' \in Nat /\ job_count' \in Nat
  BY <1>2, SMTT(30) DEF RunOneShot, TypeOK
<1>6. hashed' \in Seq(Int)
  <2>1. Input' \in Seq(Int)
    BY <1>5 DEF Input
  <2> QED
    BY <2>1 DEF RunOneShot, TypeOK
<1>7. jobs' \in Seq(JobType)
  BY <1>2, AppendProperties DEF RunOneShot, TypeOK
<1> QED
  BY <1>1, <1>3, <1>4, <1>5, <1>6, <1>7, SetupKept DEF RunOneShot, TypeOK, Streaming

LEMMA TypeStep == TypeOK /\ Pointers /\ Running /\ [Next]_vars => TypeOK'
<1> SUFFICES ASSUME TypeOK, Pointers, Running, [Next]_vars PROVE TypeOK'
  OBVIOUS
<1>1. CASE UNCHANGED vars
  BY <1>1, SetupKept DEF vars, section, frame, TypeOK, Streaming
<1>2. CASE Caller
  <2> SUFFICES ASSUME NEW o \in {"Continue", "Flush", "End"}, NEW n \in Inputs,
                      FallsThrough(o, n) \/ RefusesToStart(o, n) \/ Start(o, n)
                        \/ Call(o, n)
               PROVE  TypeOK'
    BY <1>2 DEF Caller
  <2>1. CASE FallsThrough(o, n)
    BY <2>1, SetupKept DEF FallsThrough, section, frame, TypeOK, Streaming
  <2>2. CASE RefusesToStart(o, n)
    BY <2>2, SetupKept DEF RefusesToStart, section, frame, TypeOK, Streaming
  <2>3. CASE Start(o, n)
    BY <2>3, StartType
  <2>4. CASE Call(o, n)
    BY <2>4, SetupKept, MtAssumption DEF Call, section, frame, TypeOK, Streaming
  <2> QED
    BY <2>1, <2>2, <2>3, <2>4
<1>3. CASE Fill
  BY <1>3, FillType
<1>4. CASE PushReturns
  BY <1>4, SetupKept DEF PushReturns, Return, section, frame, TypeOK, Streaming
<1>5. CASE Flush
  <2>1. /\ pc' \in {"run", "consumed", "idle"} /\ op' = op /\ left' \in Nat
        /\ flushed' \in BOOLEAN /\ pc = "flush"
    <3>1. CASE filled > 0
      BY <1>5, <3>1 DEF Flush, TypeOK
    <3>2. CASE ~(filled > 0)
      BY <1>5, <3>2 DEF Flush, Return, TypeOK
    <3> QED
      BY <3>1, <3>2
  <2>2. UNCHANGED <<pledged, section, frame, frame_ended, accepted, failed>>
    BY <1>5 DEF Flush
  <2> QED
    BY <2>1, <2>2, SetupKept DEF section, frame, TypeOK, Streaming
<1>6. CASE LastEmptyBlock
  <2>1. Item("last") \in Items
    BY DEF Item, Items
  <2>2. items' \in Seq(Items)
    BY <1>6, <2>1, AppendProperties DEF LastEmptyBlock, TypeOK
  <2> QED
    BY <1>6, <2>2, SetupKept DEF LastEmptyBlock, section, TypeOK, Streaming
<1>7. CASE RunJob
  BY <1>7, RunJobType
<1>8. CASE JobExceeds
  BY <1>8, SetupKept DEF JobExceeds, Return, section, frame, TypeOK, Streaming
<1>9. CASE JobMisses
  <2>1. items' \in Seq(Items)
    BY <1>9, RanShape DEF JobMisses
  <2> QED
    BY <1>9, <2>1, SetupKept DEF JobMisses, Return, section, TypeOK, Streaming
<1>10. CASE JobDone
  BY <1>10, JobDoneType
<1>11. CASE RunOneShot
  BY <1>11, RunOneShotType
<1>12. CASE Close
  <2>1. ChecksumOf(hashed) \in Items
    BY DEF ChecksumOf, Items, TypeOK
  <2>2. items' \in Seq(Items)
    BY <1>12, <2>1, AppendProperties DEF Close, TypeOK
  <2> QED
    BY <1>12, <2>2, SetupKept DEF Close, section, TypeOK, Streaming
<1> QED
  BY <1>1, <1>2, <1>3, <1>4, <1>5, <1>6, <1>7, <1>8, <1>9, <1>10, <1>11, <1>12
     DEF Next, Jobs

-----------------------------------------------------------------------------
(* Pointers.                                                               *)

LEMMA PointersStep ==
    TypeOK /\ Pointers /\ Running /\ [Next]_vars => Pointers'
<1> SUFFICES ASSUME TypeOK, Pointers, Running, [Next]_vars PROVE Pointers'
  OBVIOUS
<1>0. TypeOK'
  BY TypeStep
<1>1. CASE UNCHANGED vars
  BY <1>1, SetupKept DEF vars, section, frame, Pointers
<1>2. CASE Caller
  <2> SUFFICES ASSUME NEW o \in {"Continue", "Flush", "End"}, NEW n \in Inputs,
                      FallsThrough(o, n) \/ RefusesToStart(o, n) \/ Start(o, n)
                        \/ Call(o, n)
               PROVE  Pointers'
    BY <1>2 DEF Caller
  <2>1. CASE FallsThrough(o, n)
    BY <2>1, SetupKept DEF FallsThrough, section, frame, Pointers
  <2>2. CASE RefusesToStart(o, n)
    BY <2>2, SetupKept DEF RefusesToStart, section, frame, Pointers
  <2>3. CASE Start(o, n)
    <3>1. /\ UNCHANGED <<prefix_len, filled, accepted, first, job_count, jobs>>
          /\ left' = n /\ op' = o /\ pc = "uninit"
      BY <2>3 DEF Start, frame
    <3>2. n \in Nat /\ (o = "Flush" => n = 0)
      BY <2>3, MtAssumption DEF Start, Offered
    <3>3. pc' = "oneshot" => filled = 0 /\ n > 0
      BY <2>3, <3>1, <3>2, Sizes DEF Start, OneShot, Pointers, TypeOK
    <3>4. pc' \in {"oneshot", "flush", "fill"} /\ (pc' = "flush" => o = "Flush")
      <4>1. pc' = IF OneShot(o) THEN "oneshot"
                  ELSE IF o = "Flush" THEN "flush" ELSE "fill"
        BY <2>3 DEF Start
      <4> QED
        BY <4>1
    <3> QED
      BY <3>1, <3>2, <3>3, <3>4, SetupKept DEF Pointers
  <2>4. CASE Call(o, n)
    <3>1. /\ UNCHANGED <<prefix_len, filled, accepted, first, job_count, jobs, failed>>
          /\ left' = n /\ op' = o /\ pc = "idle" /\ (o = "Flush" => n = 0)
          /\ pc' = IF o = "Flush" THEN "flush" ELSE "fill"
      BY <2>4 DEF Call, Offered, section, frame
    <3> QED
      BY <3>1, SetupKept DEF Pointers
  <2> QED
    BY <2>1, <2>2, <2>3, <2>4
<1>3. CASE Fill
  <2> DEFINE n == Smaller(mt_target_section_size - filled, left)
  <2>1. /\ n \in Nat /\ n <= left /\ filled + n <= mt_target_section_size
        /\ filled' = filled + n /\ left' = left - n /\ accepted' = accepted + n
    BY <1>3, FillType
  <2> HIDE DEF n
  <2>2. /\ UNCHANGED <<prefix_len, first, job_count, jobs, op, failed>>
        /\ pc = "fill" /\ pc' \in {"run", "fill"}
    BY <1>3 DEF Fill, frame
  <2> QED
    BY <2>1, <2>2, SetupKept DEF Pointers, TypeOK
<1>4. CASE PushReturns
  BY <1>4, SetupKept DEF PushReturns, Return, section, frame, Pointers
<1>5. CASE Flush
  <2>1. /\ pc = "flush" /\ pc' \in {"run", "consumed", "idle"} /\ op' = op
        /\ left' = 0 /\ left = 0
    BY <1>5 DEF Flush, Return, Pointers
  <2>2. UNCHANGED <<section, frame, accepted, failed>>
    BY <1>5 DEF Flush
  <2> QED
    BY <2>1, <2>2, SetupKept DEF section, frame, Pointers
<1>6. CASE LastEmptyBlock
  <2>1. left = 0 /\ ~first
    BY <1>6 DEF LastEmptyBlock, Running, Ends
  <2> QED
    BY <1>6, <2>1, SetupKept DEF LastEmptyBlock, section, Pointers, TypeOK
<1>7. CASE RunJob
  BY <1>7, SetupKept DEF RunJob, Pointers
<1>8. CASE JobExceeds
  BY <1>8, SetupKept DEF JobExceeds, Return, section, frame, Pointers
<1>9. CASE JobMisses
  BY <1>9, SetupKept DEF JobMisses, Return, section, Pointers
<1>10. CASE JobDone
  <2>1. /\ Overlap \in Nat /\ Overlap <= filled /\ Overlap <= mt_overlap_size
        /\ prefix_len' = prefix_len \/ prefix_len' = Overlap
        /\ filled' = 0
        /\ UNCHANGED <<accepted, left, op>>
    BY <1>10, JobDoneType DEF JobDone, Carry
  <2>2. ~first' /\ job_count' = job_count + 1
    BY <1>10 DEF JobDone
  <2>3. pc' = IF Ends THEN "close" ELSE IF op = "Flush" THEN "idle" ELSE "fill"
    BY <1>10 DEF JobDone
  <2>4. /\ mt_overlap_size \in Nat /\ mt_target_section_size \in Nat /\ prefix_len \in Nat /\ filled \in Nat
        /\ accepted \in Nat /\ job_count \in Nat /\ left \in Nat
    BY Sizes DEF TypeOK
  <2>5. /\ prefix_len' <= mt_overlap_size /\ prefix_len' + filled' <= accepted
        /\ filled' <= mt_target_section_size
    <3>1. /\ prefix_len <= mt_overlap_size /\ prefix_len + filled <= accepted
          /\ filled' = 0
      BY <2>1 DEF Pointers
    <3>2. CASE prefix_len' = prefix_len
      BY <2>4, <3>1, <3>2
    <3>3. CASE prefix_len' = Overlap
      BY <2>1, <2>4, <3>1, <3>3
    <3> QED
      BY <2>1, <3>2, <3>3
  <2>6. pc' \in {"idle", "close"} \/ op' = "Flush" => left' = 0
    BY <2>1, <2>3 DEF Pointers, Ends
  <2>7. pc' \in {"idle", "close", "fill"}
    BY <2>3
  <2> QED
    BY <2>1, <2>2, <2>4, <2>5, <2>6, <2>7, SetupKept DEF Pointers
<1>11. CASE RunOneShot
  <2>1. /\ OneShotJob.len \in 1 .. left
        /\ OneShotJob.last <=> OneShotJob.len = left
    BY <1>11, OneShotShape DEF RunOneShot
  <2>2. /\ UNCHANGED <<prefix_len, filled, op>> /\ left' = left - OneShotJob.len
        /\ accepted' = accepted + OneShotJob.len
        /\ first' = FALSE /\ job_count' = job_count + 1 /\ pc = "oneshot"
        /\ pc' = IF OneShotJob.last THEN "close" ELSE "oneshot"
    BY <1>11 DEF RunOneShot
  <2> QED
    BY <2>1, <2>2, SetupKept, SMTT(30) DEF Pointers, TypeOK
<1>12. CASE Close
  BY <1>12, SetupKept DEF Close, section, Pointers
<1> QED
  BY <1>1, <1>2, <1>3, <1>4, <1>5, <1>6, <1>7, <1>8, <1>9, <1>10, <1>11, <1>12
     DEF Next, Jobs

-----------------------------------------------------------------------------
(* What the buffer holds, and what is run.                                 *)

LEMMA FillBuffered ==
    ASSUME TypeOK, Pointers, Buffered, Fill, [Next]_vars
    PROVE  Buffered'
<1> DEFINE n == Smaller(mt_target_section_size - filled, left)
           dst == prefix_len + filled
<1>1. /\ n \in Nat /\ filled + n <= mt_target_section_size
      /\ filled' = filled + n /\ accepted' = accepted + n
      /\ buf' = [p \in Slots |-> IF p \in dst .. dst + n - 1
                                 THEN accepted + (p - dst) ELSE buf[p]]
  BY FillType
<1>2. /\ pc = "fill" /\ prefix_len' = prefix_len
      /\ prefix_len \in Nat /\ filled \in Nat /\ accepted \in Nat
      /\ prefix_len <= mt_overlap_size
      /\ mt_overlap_size \in Nat /\ mt_target_section_size \in Nat
  BY Sizes DEF Fill, TypeOK, Pointers
<1>3. \A p \in 0 .. prefix_len + filled - 1 : buf[p] = accepted - filled - prefix_len + p
  BY <1>2 DEF Buffered, Streaming
<1> HIDE DEF n
<1>4. ASSUME NEW p \in 0 .. prefix_len' + filled' - 1
      PROVE  buf'[p] = accepted' - filled' - prefix_len' + p
  <2>1. p \in Slots
    BY <1>1, <1>2 DEF Slots
  <2>2. CASE p < dst
    <3>1. buf'[p] = buf[p]
      BY <1>1, <1>2, <2>1, <2>2
    <3> QED
      BY <1>1, <1>2, <1>3, <2>2, <3>1
  <2>3. CASE p >= dst
    <3>1. buf'[p] = accepted + (p - dst)
      BY <1>1, <1>2, <2>1, <2>3
    <3> QED
      BY <1>1, <1>2, <3>1
  <2> QED
    BY <1>2, <2>2, <2>3
<1> QED
  BY <1>4 DEF Buffered

LEMMA CarryBuffered ==
    ASSUME TypeOK, Pointers, Running, Buffered, JobDone, [Next]_vars
    PROVE  Buffered'
<1>1. CASE Ends
  BY <1>1 DEF JobDone, Buffered, Streaming
<1>2. CASE ~Ends
  <2>1. /\ Overlap \in Nat /\ Overlap <= filled /\ Overlap <= mt_overlap_size
    BY JobDoneType
  <2>2. /\ buf' = [p \in DOMAIN buf |->
                     IF p < Overlap THEN buf[prefix_len + filled - Overlap + p]
                     ELSE buf[p]]
        /\ prefix_len' = Overlap /\ filled' = 0 /\ accepted' = accepted
    BY <1>2 DEF JobDone, Carry
  <2>3. /\ pc = "ran" /\ DOMAIN buf = Slots
        /\ prefix_len \in Nat /\ filled \in Nat /\ accepted \in Nat
        /\ mt_overlap_size \in Nat /\ mt_target_section_size \in Nat \ {0}
    BY Sizes DEF JobDone, TypeOK, Streaming
  <2>4. ASSUME NEW p \in 0 .. prefix_len' + filled' - 1
        PROVE  buf'[p] = accepted' - filled' - prefix_len' + p
    <3>1. p \in Nat /\ p < Overlap /\ p \in Slots
      BY <2>1, <2>2, <2>3 DEF Slots
    <3>2. buf'[p] = buf[prefix_len + filled - Overlap + p]
      BY <2>2, <2>3, <3>1
    <3>3. prefix_len + filled - Overlap + p \in 0 .. prefix_len + filled - 1
      BY <2>1, <2>3, <3>1
    <3>4. buf[prefix_len + filled - Overlap + p]
            = accepted - filled - prefix_len + (prefix_len + filled - Overlap + p)
      BY <2>3, <3>3 DEF Buffered, Streaming
    <3> QED
      BY <2>1, <2>2, <2>3, <3>1, <3>2, <3>4
  <2> QED
    BY <2>4 DEF Buffered
<1> QED
  BY <1>1, <1>2

LEMMA BufferedStep ==
    TypeOK /\ Pointers /\ Running /\ Buffered /\ [Next]_vars => Buffered'
<1> SUFFICES ASSUME TypeOK, Pointers, Running, Buffered, [Next]_vars PROVE Buffered'
  OBVIOUS
<1>1. CASE /\ UNCHANGED <<buf, prefix_len, filled, accepted>>
           /\ Streaming' => Streaming
  BY <1>1 DEF Buffered
<1>2. CASE UNCHANGED vars \/ RunJob \/ JobExceeds \/ JobMisses
  BY <1>1, <1>2 DEF vars, section, RunJob, JobExceeds, JobMisses, Return, Streaming
<1>3. CASE PushReturns \/ Flush
  BY <1>1, <1>3 DEF section, PushReturns, Flush, Return, Streaming
<1>7. CASE LastEmptyBlock \/ RunOneShot \/ Close
  <2>1. ~Streaming'
    BY <1>7 DEF LastEmptyBlock, RunOneShot, Close, Streaming
  <2> QED
    BY <2>1 DEF Buffered
<1>4. ASSUME NEW o \in {"Continue", "Flush", "End"}, NEW n \in Inputs,
             FallsThrough(o, n) \/ RefusesToStart(o, n) \/ Start(o, n) \/ Call(o, n)
      PROVE  Buffered'
  <2>1. CASE FallsThrough(o, n) \/ RefusesToStart(o, n)
    BY <2>1 DEF FallsThrough, RefusesToStart, Buffered, Streaming
  <2>2. CASE Start(o, n)
    <3>1. /\ UNCHANGED <<prefix_len, filled>> /\ prefix_len \in Nat /\ filled \in Nat
          /\ prefix_len + filled <= 0
      BY <2>2 DEF Start, Pointers, TypeOK
    <3>2. 0 .. prefix_len' + filled' - 1 = {}
      BY <3>1
    <3> QED
      BY <3>2 DEF Buffered
  <2>3. CASE Call(o, n)
    BY <1>1, <2>3 DEF Call, section, Streaming
  <2> QED
    BY <1>4, <2>1, <2>2, <2>3
<1>5. CASE Fill
  BY <1>5, FillBuffered
<1>6. CASE JobDone
  BY <1>6, CarryBuffered
<1> QED
  BY <1>2, <1>3, <1>4, <1>5, <1>6, <1>7 DEF Next, Caller, Jobs

LEMMA RunningStep ==
    TypeOK /\ Pointers /\ Running /\ [Next]_vars => Running'
<1> SUFFICES ASSUME TypeOK, Pointers, Running, [Next]_vars PROVE Running'
  OBVIOUS
<1>1. CASE UNCHANGED vars
  BY <1>1, SetupKept DEF vars, section, frame, Running, Ran, Ends
<1>2. CASE pc' \notin {"flush", "run", "ran"}
  BY <1>2 DEF Running
<1>3. CASE PushReturns \/ LastEmptyBlock \/ JobExceeds \/ JobMisses
  BY <1>2, <1>3 DEF PushReturns, LastEmptyBlock, JobExceeds, JobMisses, Return
<1>4. CASE JobDone \/ RunOneShot \/ Close
  BY <1>2, <1>4 DEF JobDone, RunOneShot, Close
<1>5. ASSUME NEW o \in {"Continue", "Flush", "End"}, NEW n \in Inputs,
             FallsThrough(o, n) \/ RefusesToStart(o, n) \/ Start(o, n) \/ Call(o, n)
      PROVE  Running'
  <2>1. CASE FallsThrough(o, n) \/ RefusesToStart(o, n)
    BY <1>2, <2>1 DEF FallsThrough, RefusesToStart
  <2>2. CASE Start(o, n) \/ Call(o, n)
    <3>1. op' = o /\ pc' \in {"oneshot", "flush", "fill"} /\ (pc' = "flush" => o = "Flush")
      BY <2>2 DEF Start, Call
    <3> QED
      BY <3>1 DEF Running
  <2> QED
    BY <1>5, <2>1, <2>2
<1>6. CASE Fill
  <2> DEFINE n == Smaller(mt_target_section_size - filled, left)
  <2>1. /\ n \in Nat /\ (n = left \/ filled + n = mt_target_section_size)
        /\ filled' = filled + n /\ left' = left - n
        /\ left \in Nat /\ mt_target_section_size \in Nat \ {0}
    BY <1>6, FillType, Sizes DEF TypeOK
  <2>2. /\ pc' \in {"run", "fill"} /\ op' = op
        /\ pc' = "run" => op = "End" \/ Full
    BY <1>6 DEF Fill
  <2> HIDE DEF n
  <2>3. filled' = mt_target_section_size \/ left' = 0
    BY <2>1
  <2> QED
    BY <2>1, <2>2, <2>3, SetupKept DEF Running, Full, Ends
<1>7. CASE Flush
  <2>1. op' = op /\ op = "Flush" /\ filled' = filled /\ (pc' = "run" => filled > 0)
    BY <1>7 DEF Flush, Return, Running, section
  <2>2. pc' \in {"run", "idle", "consumed"}
    BY <1>7 DEF Flush, Return
  <2> QED
    BY <2>1, <2>2 DEF Running, TypeOK
<1>8. CASE RunJob
  <2>1. /\ jobs' = Append(jobs, Job) /\ pc' = "ran" /\ pc = "run"
        /\ UNCHANGED <<filled, first, pledged, op, left>>
        /\ filled > 0 \/ first
    BY <1>8 DEF RunJob
  <2>2. jobs' # <<>> /\ Ran' = Job
    <3>1. Job \in JobType /\ jobs \in Seq(JobType)
      BY JobShape DEF TypeOK
    <3>2. /\ Append(jobs, Job) # <<>> /\ Len(Append(jobs, Job)) = Len(jobs) + 1
          /\ Append(jobs, Job)[Len(jobs) + 1] = Job
      BY <3>1, AppendProperties
    <3> QED
      BY <2>1, <3>2 DEF Ran
  <2>3. /\ Ran'.len = filled' /\ Ran'.header = first' /\ Ran'.last = Ends'
        /\ Ran'.pledged = IF first' THEN pledged' ELSE filled'
    BY <2>1, <2>2, JobShape DEF Ends
  <2>4. op = "Flush" \/ Ends \/ filled = mt_target_section_size
    BY <2>1 DEF Running
  <2> QED
    BY <2>1, <2>2, <2>3, <2>4, SetupKept DEF Running, Ends
<1> QED
  BY <1>1, <1>3, <1>4, <1>5, <1>6, <1>7, <1>8 DEF Next, Caller, Jobs

-----------------------------------------------------------------------------
(* What was written.                                                       *)

\* A segment that continues what was written.
LEMMA Continues ==
    ASSUME NEW written \in Seq(Int), NEW segment \in Seq(Int),
           \A k \in 1 .. Len(written) : written[k] = k - 1,
           \A k \in 1 .. Len(segment) : segment[k] = Len(written) + k - 1
    PROVE  /\ written \o segment \in Seq(Int)
           /\ Len(written \o segment) = Len(written) + Len(segment)
           /\ \A k \in 1 .. Len(written \o segment) : (written \o segment)[k] = k - 1
<1>1. Len(written) \in Nat /\ Len(segment) \in Nat
  OBVIOUS
<1>2. /\ written \o segment \in Seq(Int)
      /\ Len(written \o segment) = Len(written) + Len(segment)
      /\ \A k \in 1 .. Len(written) + Len(segment) :
             (written \o segment)[k] = IF k <= Len(written) THEN written[k]
                                       ELSE segment[k - Len(written)]
  BY ConcatProperties
<1>3. ASSUME NEW k \in 1 .. Len(written) + Len(segment)
      PROVE  (written \o segment)[k] = k - 1
  <2>1. CASE k <= Len(written)
    BY <1>1, <1>2, <2>1
  <2>2. CASE k > Len(written)
    <3>1. k - Len(written) \in 1 .. Len(segment)
      BY <1>1, <2>2
    <3>2. (written \o segment)[k] = segment[k - Len(written)]
      BY <1>1, <1>2, <2>2
    <3> QED
      BY <1>1, <2>2, <3>1, <3>2
  <2> QED
    BY <1>1, <2>1, <2>2
<1> QED
  BY <1>2, <1>3

LEMMA IsInput ==
    ASSUME NEW written \in Seq(Int), accepted \in Nat, Len(written) = accepted,
           \A k \in 1 .. Len(written) : written[k] = k - 1
    PROVE  written = Input
<1>1. Input \in Seq(Int) /\ Len(Input) = accepted
  BY DEF Input
<1>2. \A k \in 1 .. Len(written) : written[k] = Input[k]
  BY DEF Input
<1> QED
  BY <1>1, <1>2, SeqEqual

LEMMA RunJobAccounting ==
    ASSUME TypeOK, Pointers, Buffered, Accounting, RunJob, ~failed
    PROVE  Accounting'
<1>1. /\ pc = "run" /\ pc' = "ran" /\ emitted' = emitted \o Segment
      /\ hashed' = Hashed /\ UNCHANGED <<accepted, filled, failed>>
  BY DEF RunJob
<1>2. /\ Segment \in Seq(Int) /\ Len(Segment) = filled
      /\ \A k \in 1 .. filled : Segment[k] = buf[prefix_len + k - 1]
  BY <1>1, SegmentShape DEF Streaming
<1>3. /\ emitted \in Seq(Int) /\ Len(emitted) = accepted - filled
      /\ \A k \in 1 .. Len(emitted) : emitted[k] = k - 1
      /\ Checksum => hashed = emitted
  BY <1>1 DEF Accounting, TypeOK
<1>4. /\ accepted \in Nat /\ filled \in Nat /\ prefix_len \in Nat
  BY DEF TypeOK
<1>5. ASSUME NEW k \in 1 .. Len(Segment) PROVE Segment[k] = Len(emitted) + k - 1
  <2>1. k \in 1 .. filled /\ prefix_len + k - 1 \in 0 .. prefix_len + filled - 1
    BY <1>2, <1>4
  <2>2. buf[prefix_len + k - 1] = accepted - filled - prefix_len + (prefix_len + k - 1)
    BY <1>1, <2>1 DEF Buffered, Streaming
  <2> QED
    BY <1>2, <1>3, <1>4, <2>1, <2>2
<1>6. /\ Len(emitted') = (accepted - filled) + filled
      /\ \A k \in 1 .. Len(emitted') : emitted'[k] = k - 1
  BY <1>1, <1>2, <1>3, <1>5, Continues
<1>7. Checksum => hashed' = emitted'
  BY <1>1, <1>3 DEF Hashed
<1> QED
  BY <1>1, <1>4, <1>6, <1>7 DEF Accounting

LEMMA RunOneShotAccounting ==
    ASSUME TypeOK, TypeOK', Pointers, Accounting, RunOneShot, ~failed
    PROVE  /\ Accounting'
           /\ Len(emitted') = accepted' /\ Len(emitted) = accepted
           /\ \A k \in 1 .. Len(emitted') : emitted'[k] = k - 1
<1>1. /\ pc = "oneshot" /\ emitted' = emitted \o OneShotSegment
      /\ accepted' = accepted + OneShotJob.len /\ UNCHANGED <<filled, failed>>
      /\ pc' = IF OneShotJob.last THEN "close" ELSE "oneshot"
      /\ hashed' = IF Checksum /\ OneShotJob.last THEN Input' ELSE hashed
  BY DEF RunOneShot
<1>2. /\ OneShotSegment \in Seq(Int) /\ Len(OneShotSegment) = OneShotJob.len
      /\ \A k \in 1 .. OneShotJob.len : OneShotSegment[k] = accepted + k - 1
      /\ OneShotJob.len \in 1 .. left
  BY <1>1, OneShotShape
<1>3. /\ emitted \in Seq(Int) /\ filled = 0 /\ accepted \in Nat /\ left \in Nat
      /\ Len(emitted) = accepted
      /\ \A k \in 1 .. Len(emitted) : emitted[k] = k - 1
  BY <1>1 DEF Accounting, TypeOK, Pointers
<1>4. /\ Len(emitted') = accepted'
      /\ \A k \in 1 .. Len(emitted') : emitted'[k] = k - 1
  <2>1. \A k \in 1 .. Len(OneShotSegment) : OneShotSegment[k] = Len(emitted) + k - 1
    BY <1>2, <1>3
  <2>2. /\ Len(emitted \o OneShotSegment) = Len(emitted) + Len(OneShotSegment)
        /\ \A k \in 1 .. Len(emitted \o OneShotSegment) :
               (emitted \o OneShotSegment)[k] = k - 1
    BY <1>2, <1>3, <2>1, Continues
  <2> QED
    BY <1>1, <1>2, <1>3, <2>2
<1>5. Input' = [k \in 1 .. accepted' |-> k - 1]
  BY DEF Input
<1>6. emitted' = Input'
  <2>1. emitted' \in Seq(Int) /\ accepted' \in Nat
    BY DEF TypeOK
  <2>2. Input' \in Seq(Int) /\ Len(Input') = accepted'
    BY <1>5, <2>1
  <2>3. \A k \in 1 .. Len(emitted') : emitted'[k] = Input'[k]
    BY <1>4, <1>5
  <2> QED
    BY <1>4, <2>1, <2>2, <2>3, SeqEqual
<1>7. Checksum /\ pc' # "oneshot" => hashed' = emitted'
  BY <1>1, <1>6
<1> QED
  <2>1. Accounting'
    BY <1>1, <1>3, <1>4, <1>7, SMTT(30) DEF Accounting, TypeOK
  <2> QED
    BY <1>3, <1>4, <2>1

LEMMA AccountingStep ==
    TypeOK /\ Pointers /\ Running /\ Buffered /\ Accounting /\ [Next]_vars => Accounting'
<1> SUFFICES ASSUME TypeOK, Pointers, Running, Buffered, Accounting, [Next]_vars
             PROVE  Accounting'
  OBVIOUS
<1>0. TypeOK'
  BY TypeStep
<1>1. CASE UNCHANGED vars
  BY <1>1 DEF vars, section, frame, Accounting
<1>2. CASE failed'
  BY <1>2 DEF Accounting
<1>3. CASE JobExceeds \/ JobMisses
  BY <1>2, <1>3 DEF JobExceeds, JobMisses
<1>4. ASSUME NEW o \in {"Continue", "Flush", "End"}, NEW n \in Inputs,
             FallsThrough(o, n) \/ RefusesToStart(o, n) \/ Start(o, n) \/ Call(o, n)
      PROVE  Accounting'
  <2>1. /\ UNCHANGED <<emitted, hashed, accepted, filled>>
        /\ pc \notin {"ran", "oneshot"} /\ pc' # "ran"
        /\ failed' = failed \/ failed'
    BY <1>4 DEF FallsThrough, RefusesToStart, Start, Call, section, frame
  <2> QED
    BY <2>1, <1>2 DEF Accounting
<1>5. CASE Fill
  <2> DEFINE n == Smaller(mt_target_section_size - filled, left)
  <2>1. /\ n \in Nat /\ filled' = filled + n /\ accepted' = accepted + n
        /\ filled \in Nat /\ accepted \in Nat
    BY <1>5, FillType DEF TypeOK
  <2> HIDE DEF n
  <2>2. /\ UNCHANGED <<emitted, hashed, failed>> /\ pc = "fill" /\ pc' \in {"run", "fill"}
    BY <1>5 DEF Fill, frame
  <2>3. accepted' - filled' = accepted - filled
    BY <2>1
  <2> QED
    BY <2>2, <2>3 DEF Accounting
<1>6. CASE PushReturns \/ Flush \/ LastEmptyBlock \/ Close
  <2>1. /\ UNCHANGED <<emitted, hashed, accepted, filled, failed>>
        /\ pc \notin {"ran", "oneshot"} /\ pc' # "ran"
    BY <1>6 DEF PushReturns, Flush, LastEmptyBlock, Close, Return, section, frame
  <2> QED
    BY <2>1 DEF Accounting
<1>7. CASE JobDone
  <2>1. /\ UNCHANGED <<emitted, hashed, accepted, failed>> /\ filled' = 0
        /\ pc = "ran" /\ pc' # "ran"
    BY <1>7 DEF JobDone
  <2> QED
    BY <2>1 DEF Accounting, TypeOK
<1>8. CASE RunJob
  BY <1>2, <1>8, RunJobAccounting DEF RunJob
<1>9. CASE RunOneShot
  BY <1>0, <1>2, <1>9, RunOneShotAccounting DEF RunOneShot
<1> QED
  BY <1>1, <1>3, <1>4, <1>5, <1>6, <1>7, <1>8, <1>9 DEF Next, Caller, Jobs

-----------------------------------------------------------------------------
(* The shape of the frame.                                                 *)

\* A job's blocks, after what the jobs before it wrote.
LEMMA JobWritten ==
    ASSUME config \in Configs, items \in Seq(Items), NEW job \in JobType,
           IF job.header THEN items = <<>> ELSE HeaderAndBlocks(Len(items)),
           job.len > 0 \/ job.header
    PROVE  LET written == items \o JobBlocks(job)
           IN  /\ written \in Seq(Items)
               /\ Len(written) \in Nat /\ Len(written) >= 1
               /\ job.len > 0 => Len(written) >= 2
               /\ written[1].kind = "header"
               /\ \A k \in 2 .. Len(written) :
                      written[k].kind = IF job.last /\ job.len > 0 /\ k = Len(written)
                                        THEN "last" ELSE "block"
<1> DEFINE blocks == JobBlocks(job)
           h == IF job.header THEN 1 ELSE 0
<1>1. /\ blocks \in Seq(Items) /\ Len(blocks) \in Nat /\ Len(blocks) >= h
      /\ Len(blocks) > h <=> job.len > 0
      /\ job.header => blocks[1].kind = "header"
      /\ \A k \in h + 1 .. Len(blocks) :
             blocks[k].kind = IF job.last /\ k = Len(blocks) THEN "last" ELSE "block"
  BY JobBlocksShape, SMTT(30)
<1> HIDE DEF blocks
<1>2. CASE job.header
  <2>1. items \o blocks = blocks /\ h = 1
    BY <1>1, <1>2, ConcatEmptySeq
  <2>2. Len(blocks) >= 1 /\ (job.len > 0 => Len(blocks) >= 2)
    BY <1>1, <2>1
  <2>3. ASSUME NEW k \in 2 .. Len(blocks)
        PROVE  blocks[k].kind = IF job.last /\ job.len > 0 /\ k = Len(blocks)
                                THEN "last" ELSE "block"
    <3>1. k \in h + 1 .. Len(blocks) /\ Len(blocks) > h
      BY <1>1, <2>1
    <3> QED
      BY <1>1, <3>1
  <2> QED
    BY <1>1, <1>2, <2>1, <2>2, <2>3 DEF blocks
<1>3. CASE ~job.header
  <2>1. /\ h = 0 /\ job.len > 0 /\ Len(items) \in Nat /\ Len(items) >= 1
        /\ items[1].kind = "header" /\ \A k \in 2 .. Len(items) : items[k].kind = "block"
    BY <1>3 DEF HeaderAndBlocks
  <2>2. /\ items \o blocks \in Seq(Items)
        /\ Len(items \o blocks) = Len(items) + Len(blocks)
        /\ \A k \in 1 .. Len(items) + Len(blocks) :
               (items \o blocks)[k] = IF k <= Len(items) THEN items[k]
                                      ELSE blocks[k - Len(items)]
    BY <1>1, ConcatProperties
  <2>3. Len(blocks) >= 1 /\ Len(items) + Len(blocks) >= 2
    BY <1>1, <2>1
  <2>4. (items \o blocks)[1].kind = "header"
    BY <2>1, <2>2, <2>3
  <2>5. ASSUME NEW k \in 2 .. Len(items) + Len(blocks)
        PROVE  (items \o blocks)[k].kind =
                 IF job.last /\ k = Len(items) + Len(blocks) THEN "last" ELSE "block"
    <3>1. CASE k <= Len(items)
      BY <1>1, <2>1, <2>2, <2>3, <3>1
    <3>2. CASE k > Len(items)
      <4>1. /\ k - Len(items) \in h + 1 .. Len(blocks) /\ k \in 1 .. Len(items) + Len(blocks)
            /\ (k - Len(items) = Len(blocks) <=> k = Len(items) + Len(blocks))
        BY <1>1, <2>1, <3>2
      <4>2. (items \o blocks)[k] = blocks[k - Len(items)]
        BY <2>1, <2>2, <3>2, <4>1
      <4>3. blocks[k - Len(items)].kind =
              IF job.last /\ k - Len(items) = Len(blocks) THEN "last" ELSE "block"
        BY <1>1, <4>1
      <4> QED
        BY <4>1, <4>2, <4>3
    <3> QED
      BY <2>1, <3>1, <3>2
  <2> QED
    BY <1>1, <2>1, <2>2, <2>3, <2>4, <2>5 DEF blocks
<1> QED
  BY <1>2, <1>3 DEF JobType

\* A frame that its last job has closed, with the checksum of a single job.
ClosedBy(written, single, segment) ==
    LET blocks == IF Checksum /\ single THEN Len(written) - 1 ELSE Len(written)
    IN  /\ written \in Seq(Items)
        /\ blocks >= 2 /\ written[1].kind = "header"
        /\ \A k \in 2 .. blocks - 1 : written[k].kind = "block"
        /\ written[blocks].kind = "last"
        /\ Checksum /\ single => written[Len(written)] = ChecksumOf(segment)

\* The last job's epilogue, after the blocks of the frame.
LEMMA JobClosed ==
    ASSUME NEW job \in JobType, job.last, NEW segment \in Seq(Int),
           NEW before \in Seq(Items), Len(before) >= 1,
           job.len > 0 => Len(before) >= 2,
           before[1].kind = "header",
           \A k \in 2 .. Len(before) :
               before[k].kind = IF job.len > 0 /\ k = Len(before) THEN "last" ELSE "block"
    PROVE  ClosedBy(before \o JobEpilogue(job, segment), job.header, segment)
<1> DEFINE epilogue == JobEpilogue(job, segment)
           e == IF job.len = 0 THEN 1 ELSE 0
           d == IF Checksum /\ job.header THEN 1 ELSE 0
           n == Len(before)
<1>1. /\ epilogue \in Seq(Items) /\ Len(epilogue) = e + d
      /\ job.len = 0 => epilogue[1].kind = "last"
      /\ Checksum /\ job.header => epilogue[e + d] = ChecksumOf(segment)
  BY JobEpilogueShape
<1>2. /\ e \in {0, 1} /\ d \in {0, 1} /\ n \in Nat /\ n >= 1 /\ job.len \in Nat
      /\ (e = 1 <=> job.len = 0) /\ (d = 1 <=> Checksum /\ job.header)
      /\ n + e >= 2
  BY DEF JobType
<1> HIDE DEF epilogue, e, d, n
<1>3. /\ before \o epilogue \in Seq(Items) /\ Len(before \o epilogue) = n + e + d
      /\ \A k \in 1 .. n + e + d :
             (before \o epilogue)[k] = IF k <= n THEN before[k] ELSE epilogue[k - n]
  BY <1>1, <1>2, ConcatProperties DEF n
<1>4. (before \o epilogue)[1].kind = "header"
  BY <1>2, <1>3
<1>5. \A k \in 2 .. n + e - 1 : (before \o epilogue)[k].kind = "block"
  <2> SUFFICES ASSUME NEW k \in 2 .. n + e - 1
               PROVE  (before \o epilogue)[k].kind = "block"
    OBVIOUS
  <2>1. k <= n /\ k \in 2 .. n /\ (job.len > 0 => k # n) /\ k \in 1 .. n + e + d
    BY <1>2
  <2> QED
    BY <1>3, <2>1 DEF n
<1>6. (before \o epilogue)[n + e].kind = "last"
  <2>1. CASE job.len = 0
    <3>1. e = 1 /\ n + e \in 1 .. n + e + d /\ ~(n + e <= n) /\ (n + e) - n = 1
      BY <1>2, <2>1
    <3> QED
      BY <1>1, <1>3, <2>1, <3>1
  <2>2. CASE job.len # 0
    <3>1. e = 0 /\ n + e = n /\ n \in 1 .. n + e + d /\ n \in 2 .. n /\ job.len > 0
      BY <1>2, <2>2
    <3>2. before[n].kind = "last"
      BY <3>1 DEF n
    <3>3. (before \o epilogue)[n] = before[n]
      BY <1>2, <1>3, <3>1
    <3> QED
      BY <3>1, <3>2, <3>3
  <2> QED
    BY <2>1, <2>2
<1>7. Checksum /\ job.header => (before \o epilogue)[n + e + d] = ChecksumOf(segment)
  <2> SUFFICES ASSUME Checksum, job.header
               PROVE  (before \o epilogue)[n + e + d] = ChecksumOf(segment)
    OBVIOUS
  <2>1. d = 1 /\ n + e + d \in 1 .. n + e + d /\ ~(n + e + d <= n)
        /\ (n + e + d) - n = e + d
    BY <1>2
  <2> QED
    BY <1>1, <1>3, <2>1
<1> DEFINE written == before \o epilogue
           blocks == IF Checksum /\ job.header THEN Len(written) - 1 ELSE Len(written)
<1>8. blocks = n + e /\ Len(written) = n + e + d
  BY <1>2, <1>3
<1>9. /\ written \in Seq(Items)
      /\ blocks >= 2 /\ written[1].kind = "header"
      /\ \A k \in 2 .. blocks - 1 : written[k].kind = "block"
      /\ written[blocks].kind = "last"
      /\ Checksum /\ job.header => written[Len(written)] = ChecksumOf(segment)
  <2> HIDE DEF blocks
  <2>1. written \in Seq(Items) /\ written[1].kind = "header" /\ blocks >= 2
    BY <1>2, <1>3, <1>4, <1>8
  <2>2. ASSUME NEW k \in 2 .. blocks - 1 PROVE written[k].kind = "block"
    <3>1. k \in 2 .. n + e - 1
      BY <1>2, <1>8
    <3> QED
      BY <1>5, <3>1
  <2>3. written[blocks].kind = "last"
    BY <1>6, <1>8
  <2>4. Checksum /\ job.header => written[Len(written)] = ChecksumOf(segment)
    BY <1>7, <1>8
  <2> QED
    BY <2>1, <2>2, <2>3, <2>4
<1> HIDE DEF written
<1>10. ClosedBy(written, job.header, segment)
  BY <1>9 DEF ClosedBy
<1> QED
  BY <1>10 DEF written, epilogue

LEMMA RunJobShape ==
    ASSUME TypeOK, Pointers, Running, FrameShape, Doomed, RunJob, ~failed, [Next]_vars
    PROVE  FrameShape'
<1>1. /\ pc = "run" /\ pc' = "ran" /\ items' = items \o JobBlocks(Job)
      /\ UNCHANGED <<filled, first, frame_ended, op, left, failed>>
      /\ filled > 0 \/ first
  BY DEF RunJob
<1>2. /\ Job \in JobType /\ Job.len = filled /\ Job.header = first /\ Job.last = Ends
      /\ config \in Configs /\ items \in Seq(Items) /\ filled \in Nat
  BY JobShape DEF TypeOK
<1>3. IF Job.header THEN items = <<>> ELSE HeaderAndBlocks(Len(items))
  BY <1>1, <1>2 DEF FrameShape
<1>4. /\ Len(items') \in Nat /\ Len(items') >= 1 /\ (filled > 0 => Len(items') >= 2)
      /\ items'[1].kind = "header"
      /\ \A k \in 2 .. Len(items') :
             items'[k].kind = IF Ends /\ filled > 0 /\ k = Len(items')
                              THEN "last" ELSE "block"
  BY <1>1, <1>2, <1>3, JobWritten
<1>5. ~frame_ended'
  BY <1>1 DEF Doomed
<1>6. Ends' = Ends
  BY <1>1 DEF Ends
<1>7. CASE Ends /\ filled > 0
  <2>1. Len(items') \in 2 .. Len(items') /\ items'[Len(items')].kind = "last"
    BY <1>4, <1>7
  <2>2. \A k \in 2 .. Len(items') - 1 : items'[k].kind = "block"
    BY <1>4, <1>7
  <2> QED
    BY <1>1, <1>4, <1>5, <1>6, <1>7, <2>1, <2>2 DEF FrameShape, HeaderAndBlocks
<1>8. CASE ~(Ends /\ filled > 0)
  <2>1. \A k \in 2 .. Len(items') : items'[k].kind = "block"
    BY <1>4, <1>8
  <2> QED
    BY <1>1, <1>4, <1>5, <1>6, <1>8, <2>1 DEF FrameShape, HeaderAndBlocks
<1> QED
  BY <1>7, <1>8

LEMMA JobDoneShape ==
    ASSUME TypeOK, TypeOK', Pointers, Running, Buffered, Accounting, FrameShape, Doomed,
           JobDone, ~failed
    PROVE  FrameShape'
<1>1. /\ pc = "ran" /\ items' = items \o JobEpilogue(Ran, Segment)
      /\ pc' = IF Ends THEN "close" ELSE IF op = "Flush" THEN "idle" ELSE "fill"
      /\ UNCHANGED <<frame_ended, accepted, failed>>
      /\ filled' = 0 /\ ~first' /\ job_count' = job_count + 1
  BY DEF JobDone
<1>2. /\ Ran \in JobType /\ Ran.len = filled /\ Ran.header = first /\ Ran.last = Ends
      /\ Segment \in Seq(Int) /\ Len(Segment) = filled
      /\ items \in Seq(Items) /\ filled \in Nat
  BY <1>1, RanShape, SegmentShape DEF Running, TypeOK, Streaming
<1>3. ~frame_ended'
  BY <1>1 DEF Doomed
<1>4. CASE ~Ends
  <2>1. JobEpilogue(Ran, Segment) = <<>>
    BY <1>2, <1>4, JobEpilogueShape
  <2>2. items' = items
    BY <1>1, <1>2, <2>1, ConcatEmptySeq
  <2>3. HeaderAndBlocks(Len(items))
    BY <1>1, <1>4 DEF FrameShape
  <2> QED
    BY <1>1, <1>3, <1>4, <2>2, <2>3 DEF FrameShape, HeaderAndBlocks
<1>5. CASE Ends
  <2>1. /\ Len(items) \in Nat /\ Len(items) >= 1 /\ (filled > 0 => Len(items) >= 2)
        /\ items[1].kind = "header"
    BY <1>1, <1>2, <1>5 DEF FrameShape, HeaderAndBlocks
  <2>2. \A k \in 2 .. Len(items) :
            items[k].kind = IF filled > 0 /\ k = Len(items) THEN "last" ELSE "block"
    <3>1. CASE filled > 0
      BY <1>1, <1>5, <2>1, <3>1 DEF FrameShape, HeaderAndBlocks
    <3>2. CASE ~(filled > 0)
      BY <1>1, <1>5, <2>1, <3>2 DEF FrameShape, HeaderAndBlocks
    <3> QED
      BY <3>1, <3>2
  <2> DEFINE written == items \o JobEpilogue(Ran, Segment)
             blocks == IF Checksum /\ Ran.header THEN Len(written) - 1
                       ELSE Len(written)
  <2>3. /\ blocks >= 2 /\ written[1].kind = "header"
        /\ \A k \in 2 .. blocks - 1 : written[k].kind = "block"
        /\ written[blocks].kind = "last"
        /\ Checksum /\ Ran.header => written[Len(written)] = ChecksumOf(Segment)
        /\ written \in Seq(Items)
    <3>1. Ran.last /\ (Ran.len > 0 => Len(items) >= 2)
      BY <1>2, <1>5, <2>1
    <3>2. \A k \in 2 .. Len(items) :
              items[k].kind = IF Ran.len > 0 /\ k = Len(items) THEN "last" ELSE "block"
      BY <1>2, <2>2
    <3>3. ClosedBy(items \o JobEpilogue(Ran, Segment), Ran.header, Segment)
      BY <1>2, <2>1, <3>1, <3>2, JobClosed
    <3> QED
      BY <3>3 DEF ClosedBy
  <2>4. job_count' = 1 <=> first
    BY <1>1 DEF Pointers, TypeOK
  <2>5. first => Segment = Input'
    <3> SUFFICES ASSUME first PROVE Segment = Input'
      OBVIOUS
    <3>1. prefix_len = 0 /\ accepted = filled /\ accepted' = accepted
      BY <1>1 DEF Pointers
    <3>2. ASSUME NEW k \in 1 .. filled PROVE Segment[k] = k - 1
      <4>1. Segment[k] = buf[k - 1] /\ k - 1 \in 0 .. prefix_len + filled - 1
        BY <1>1, <1>2, <3>1, SegmentShape DEF Streaming
      <4> QED
        BY <1>1, <1>2, <3>1, <4>1 DEF Buffered, Streaming
    <3>3. Segment = Input
      BY <1>2, <3>1, <3>2, IsInput
    <3> QED
      BY <3>1, <3>3 DEF Input
  <2>6. items' = written /\ pc' = "close" /\ job_count' > 0
    BY <1>1, <1>5 DEF TypeOK
  <2>7. Len(written) \in Nat
    BY <2>3
  <2> HIDE DEF written
  <2> QED
    BY <1>1, <1>2, <1>3, <2>3, <2>4, <2>5, <2>6, <2>7
       DEF FrameShape, HeaderAndBlocks, ChecksumOf
<1> QED
  BY <1>4, <1>5

LEMMA RunOneShotShape ==
    ASSUME TypeOK, TypeOK', Pointers, FrameShape, Doomed, RunOneShot, ~failed
    PROVE  FrameShape'
<1> DEFINE job == OneShotJob
           before == items \o JobBlocks(OneShotJob)
           segment == OneShotSegment
<1>1. /\ pc = "oneshot" /\ items' = before \o JobEpilogue(job, segment)
      /\ pc' = IF job.last THEN "close" ELSE "oneshot"
      /\ UNCHANGED <<frame_ended, filled, failed>>
      /\ accepted' = accepted + job.len
      /\ ~first' /\ job_count' = job_count + 1
  BY DEF RunOneShot
<1>2. /\ job \in JobType /\ job.len > 0 /\ job.header = first
      /\ segment \in Seq(Int) /\ Len(segment) = job.len
      /\ \A k \in 1 .. job.len : segment[k] = accepted + k - 1
      /\ config \in Configs /\ items \in Seq(Items) /\ filled = 0
  <2>1. /\ OneShotJob \in JobType /\ OneShotJob.len \in 1 .. left
        /\ OneShotJob.header = first
        /\ OneShotSegment \in Seq(Int) /\ Len(OneShotSegment) = OneShotJob.len
        /\ \A k \in 1 .. OneShotJob.len : OneShotSegment[k] = accepted + k - 1
    BY <1>1, OneShotShape
  <2>2. config \in Configs /\ items \in Seq(Items) /\ filled = 0 /\ left \in Nat
    BY <1>1 DEF TypeOK, Pointers
  <2> QED
    BY <2>1, <2>2
<1>3. IF job.header THEN items = <<>> ELSE HeaderAndBlocks(Len(items))
  BY <1>1, <1>2 DEF FrameShape
<1>4. /\ before \in Seq(Items) /\ Len(before) \in Nat /\ Len(before) >= 2
      /\ before[1].kind = "header"
      /\ \A k \in 2 .. Len(before) :
             before[k].kind = IF job.last /\ job.len > 0 /\ k = Len(before)
                              THEN "last" ELSE "block"
  BY <1>2, <1>3, JobWritten
<1>5. ~frame_ended'
  BY <1>1 DEF Doomed
<1> HIDE DEF job, before, segment
<1>6. CASE ~job.last
  <2>1. items' = before
    BY <1>1, <1>2, <1>4, <1>6, JobEpilogueShape, ConcatEmptySeq
  <2>2. Len(items') >= 1 /\ items'[1].kind = "header"
        /\ \A k \in 2 .. Len(items') : items'[k].kind = "block"
    BY <1>4, <1>6, <2>1
  <2> QED
    BY <1>1, <1>5, <1>6, <2>2 DEF FrameShape, HeaderAndBlocks
<1>7. CASE job.last
  <2> DEFINE written == before \o JobEpilogue(job, segment)
             blocks == IF Checksum /\ job.header THEN Len(written) - 1
                       ELSE Len(written)
  <2>1. /\ blocks >= 2 /\ written[1].kind = "header"
        /\ \A k \in 2 .. blocks - 1 : written[k].kind = "block"
        /\ written[blocks].kind = "last"
        /\ Checksum /\ job.header => written[Len(written)] = ChecksumOf(segment)
        /\ written \in Seq(Items)
    <3>1. \A k \in 2 .. Len(before) :
              before[k].kind = IF job.len > 0 /\ k = Len(before) THEN "last" ELSE "block"
      BY <1>4, <1>7
    <3>2. Len(before) >= 1
      BY <1>4
    <3>3. ClosedBy(before \o JobEpilogue(job, segment), job.header, segment)
      BY <1>2, <1>4, <1>7, <3>1, <3>2, JobClosed
    <3> QED
      BY <3>3 DEF ClosedBy
  <2>2. job_count' = 1 <=> first
    BY <1>1 DEF Pointers, TypeOK
  <2>3. first => segment = Input'
    <3> SUFFICES ASSUME first PROVE segment = Input'
      OBVIOUS
    <3>1. accepted = 0 /\ accepted' = job.len
      BY <1>1, <1>2 DEF Pointers, JobType
    <3>2. /\ Input' = [k \in 1 .. accepted' |-> k - 1]
          /\ Input' \in Seq(Int) /\ Len(Input') = job.len
      <4>1. Input' = [k \in 1 .. accepted' |-> k - 1]
        BY DEF Input
      <4>2. accepted' \in Nat
        BY DEF TypeOK
      <4> QED
        BY <3>1, <4>1, <4>2
    <3>3. \A k \in 1 .. Len(segment) : segment[k] = Input'[k]
      BY <1>2, <3>1, <3>2
    <3> QED
      BY <1>2, <3>2, <3>3, SeqEqual
  <2>4. items' = written /\ pc' = "close" /\ job_count' > 0 /\ Len(written) \in Nat
    BY <1>1, <1>7, <2>1 DEF TypeOK
  <2> HIDE DEF written
  <2> QED
    BY <1>1, <1>2, <1>5, <2>1, <2>2, <2>3, <2>4
       DEF FrameShape, HeaderAndBlocks, ChecksumOf
<1> QED
  BY <1>6, <1>7

LEMMA LastEmptyBlockShape ==
    ASSUME TypeOK, Pointers, FrameShape, Doomed, LastEmptyBlock, ~failed
    PROVE  FrameShape'
<1>1. /\ pc = "run" /\ filled = 0 /\ ~first /\ items' = Append(items, Item("last"))
      /\ job_count' = job_count + 1 /\ pc' = "close"
      /\ UNCHANGED <<filled, frame_ended, failed>>
  BY DEF LastEmptyBlock, section
<1>2. /\ items \in Seq(Items) /\ Len(items) \in Nat /\ Len(items) >= 1
      /\ items[1].kind = "header" /\ \A k \in 2 .. Len(items) : items[k].kind = "block"
  BY <1>1 DEF FrameShape, HeaderAndBlocks, TypeOK
<1>3. job_count' > 1
  BY <1>1 DEF Pointers, TypeOK
<1>4. /\ Len(items') = Len(items) + 1 /\ items'[Len(items')].kind = "last"
      /\ \A k \in 1 .. Len(items) : items'[k] = items[k]
  BY <1>1, <1>2 DEF Item, Items
<1>5. \A k \in 2 .. Len(items') - 1 : items'[k].kind = "block"
  BY <1>2, <1>4
<1>6. ~frame_ended' /\ filled' = 0
  BY <1>1 DEF Doomed
<1>7. items'[1].kind = "header" /\ Len(items') >= 2
  BY <1>2, <1>4
<1> QED
  BY <1>1, <1>2, <1>3, <1>4, <1>5, <1>6, <1>7 DEF FrameShape, HeaderAndBlocks

\* The end of the frame: whatever the jobs were, it is the frame of the input.
LEMMA CloseShape ==
    ASSUME TypeOK, TypeOK', Pointers, Accounting, FrameShape, Doomed, Close, ~failed
    PROVE  FrameShape'
<1> DEFINE b == IF Checksum /\ job_count = 1 THEN Len(items) - 1 ELSE Len(items)
<1>1. /\ pc = "close" /\ pc' = "consumed" /\ frame_ended'
      /\ items' = IF NeedsDigest THEN Append(items, ChecksumOf(hashed)) ELSE items
      /\ UNCHANGED <<emitted, accepted, failed>>
  BY DEF Close
<1>2. /\ b >= 2 /\ items[1].kind = "header"
      /\ \A k \in 2 .. b - 1 : items[k].kind = "block"
      /\ items[b].kind = "last"
      /\ Checksum /\ job_count = 1 => items[Len(items)] = ChecksumOf(Input)
      /\ filled = 0 /\ job_count \in Nat /\ job_count > 0
      /\ items \in Seq(Items) /\ Len(items) \in Nat /\ accepted \in Nat
      /\ emitted \in Seq(Int)
  BY <1>1 DEF FrameShape, HeaderAndBlocks, TypeOK
<1>3. emitted = Input
  BY <1>1, <1>2, IsInput DEF Accounting
<1>4. Input' = Input
  BY <1>1 DEF Input
<1>5. NeedsDigest => hashed = emitted
  BY <1>1 DEF NeedsDigest, Accounting
<1>6. CASE NeedsDigest
  <2>1. b = Len(items) /\ Checksum
    BY <1>2, <1>6 DEF NeedsDigest
  <2>2. items' = Append(items, ChecksumOf(Input))
    BY <1>1, <1>3, <1>5, <1>6
  <2>3. /\ Len(items') = Len(items) + 1 /\ items'[Len(items')] = ChecksumOf(Input)
        /\ \A k \in 1 .. Len(items) : items'[k] = items[k]
    <3>1. ChecksumOf(Input) \in Items
      BY <1>2, <1>3 DEF ChecksumOf, Items
    <3> QED
      BY <1>2, <2>2, <3>1
  <2>4. /\ items'[1].kind = "header" /\ Len(items') - 1 = Len(items)
        /\ \A k \in 2 .. Len(items) :
               items'[k].kind = IF k = Len(items) THEN "last" ELSE "block"
    <3>1. Len(items) >= 2 /\ items[Len(items)].kind = "last"
          /\ \A k \in 2 .. Len(items) - 1 : items[k].kind = "block"
      BY <1>2, <2>1
    <3>2. ASSUME NEW k \in 2 .. Len(items)
          PROVE  items'[k].kind = IF k = Len(items) THEN "last" ELSE "block"
      <4>1. items'[k] = items[k]
        BY <1>2, <2>3
      <4> QED
        BY <1>2, <3>1, <4>1
    <3> QED
      BY <1>2, <2>3, <3>1, <3>2
  <2> QED
    BY <1>1, <1>3, <1>4, <2>1, <2>3, <2>4 DEF FrameShape, WellFormedFrame
<1>7. CASE ~NeedsDigest
  <2>1. items' = items /\ (Checksum => job_count = 1)
    BY <1>1, <1>2, <1>7 DEF NeedsDigest
  <2>2. b = IF Checksum THEN Len(items') - 1 ELSE Len(items')
    BY <1>2, <2>1
  <2>3. \A k \in 2 .. b : items'[k].kind = IF k = b THEN "last" ELSE "block"
    BY <1>2, <2>1
  <2>4. Checksum => items'[Len(items')] = ChecksumOf(Input')
    BY <1>2, <1>4, <2>1
  <2> QED
    BY <1>1, <1>2, <1>3, <1>4, <2>1, <2>2, <2>3, <2>4 DEF FrameShape, WellFormedFrame
<1> QED
  BY <1>6, <1>7

LEMMA FrameShapeStep ==
    IInv /\ [Next]_vars => FrameShape'
<1> SUFFICES ASSUME IInv, [Next]_vars PROVE FrameShape'
  OBVIOUS
<1> USE DEF IInv
<1>0. TypeOK'
  BY TypeStep
<1>1. CASE UNCHANGED vars
  BY <1>1 DEF vars, section, frame, FrameShape, HeaderAndBlocks, WellFormedFrame, Ends,
              Input
<1>2. CASE failed'
  BY <1>2 DEF FrameShape
<1>3. CASE JobExceeds \/ JobMisses
  BY <1>2, <1>3 DEF JobExceeds, JobMisses
<1>4. ASSUME NEW o \in {"Continue", "Flush", "End"}, NEW n \in Inputs,
             FallsThrough(o, n) \/ RefusesToStart(o, n) \/ Start(o, n) \/ Call(o, n)
      PROVE  FrameShape'
  <2>1. /\ UNCHANGED <<items, first, frame_ended>> /\ pc \in {"uninit", "idle"}
        /\ failed' \/ (pc' \in {"single", "oneshot", "flush", "fill"} /\ failed' = failed)
    BY <1>4 DEF FallsThrough, RefusesToStart, Start, Call, section, frame
  <2>2. ~frame_ended
    BY <2>1 DEF Doomed
  <2> QED
    BY <1>2, <2>1, <2>2 DEF FrameShape, HeaderAndBlocks
<1>5. CASE Fill \/ PushReturns \/ Flush
  <2>1. /\ UNCHANGED <<items, first, frame_ended, failed>> /\ pc \in {"fill", "flush"}
        /\ pc' \in {"fill", "run", "idle"}
    BY <1>5 DEF Fill, PushReturns, Flush, Return, Running, section, frame
  <2>2. ~frame_ended
    BY <2>1 DEF Doomed
  <2> QED
    BY <2>1, <2>2 DEF FrameShape, HeaderAndBlocks
<1>6. CASE RunJob
  BY <1>2, <1>6, RunJobShape DEF RunJob
<1>7. CASE JobDone
  BY <1>0, <1>2, <1>7, JobDoneShape DEF JobDone
<1>8. CASE RunOneShot
  BY <1>0, <1>2, <1>8, RunOneShotShape DEF RunOneShot
<1>9. CASE LastEmptyBlock
  BY <1>2, <1>9, LastEmptyBlockShape DEF LastEmptyBlock
<1>10. CASE Close
  BY <1>0, <1>2, <1>10, CloseShape DEF Close
<1> QED
  BY <1>1, <1>3, <1>4, <1>5, <1>6, <1>7, <1>8, <1>9, <1>10 DEF Next, Caller, Jobs

-----------------------------------------------------------------------------
(* Errors are final.                                                       *)

LEMMA DoomedStep ==
    IInv /\ [Next]_vars => Doomed'
<1> SUFFICES ASSUME IInv, [Next]_vars PROVE Doomed'
  OBVIOUS
<1> USE DEF IInv
<1>0. TypeOK'
  BY TypeStep
<1>1. CASE UNCHANGED vars
  <2>1. Refused' = Refused
    BY <1>1 DEF vars, setup, Refused, mt_overlap_size, content_len
  <2> QED
    BY <1>1, <2>1 DEF vars, section, Doomed, Streaming
<1>2. ASSUME UNCHANGED config PROVE Refused' = Refused
  BY <1>2 DEF Refused, mt_overlap_size, content_len
<1>3. ASSUME NEW o \in {"Continue", "Flush", "End"}, NEW n \in Inputs,
             FallsThrough(o, n) \/ RefusesToStart(o, n) \/ Start(o, n) \/ Call(o, n)
      PROVE  Doomed'
  <2>1. ~frame_ended' /\ Refused' = Refused
    <3>1. UNCHANGED <<config, frame_ended>> /\ pc \in {"uninit", "idle"}
      BY <1>3 DEF FallsThrough, RefusesToStart, Start, Call, setup
    <3> QED
      BY <1>2, <3>1 DEF Doomed
  <2>2. CASE FallsThrough(o, n)
    BY <2>1, <2>2 DEF FallsThrough, Doomed
  <2>3. CASE RefusesToStart(o, n)
    BY <2>1, <2>3 DEF RefusesToStart, Doomed
  <2>4. CASE Start(o, n)
    BY <2>1, <2>4 DEF Start, Doomed, Streaming
  <2>5. CASE Call(o, n)
    BY <2>1, <2>5 DEF Call, section, Doomed, Streaming
  <2> QED
    BY <1>3, <2>2, <2>3, <2>4, <2>5
<1>4. CASE Fill
  <2> DEFINE n == Smaller(mt_target_section_size - filled, left)
  <2>1. n \in Nat /\ filled' = filled + n /\ filled \in Nat /\ pledged \in Nat \cup {None}
    BY <1>4, FillType DEF TypeOK
  <2> HIDE DEF n
  <2>2. /\ UNCHANGED <<first, pledged, frame_ended, failed>>
        /\ pc = "fill" /\ pc' \in {"run", "fill"}
    BY <1>4 DEF Fill
  <2>3. pledged # None /\ filled > pledged => filled' > pledged'
    BY <2>1, <2>2 DEF None
  <2> QED
    BY <2>2, <2>3 DEF Doomed, Streaming
<1>5. CASE PushReturns \/ Flush
  <2>1. /\ UNCHANGED <<first, pledged, filled, frame_ended, failed>>
        /\ pc \in {"fill", "flush"} /\ pc' \in {"run", "idle"}
    BY <1>5 DEF PushReturns, Flush, Return, Running, section
  <2> QED
    BY <2>1 DEF Doomed, Streaming
<1>6. CASE LastEmptyBlock \/ JobDone \/ RunOneShot \/ Close
  <2>1. ~failed
    <3>1. CASE LastEmptyBlock
      BY <3>1 DEF LastEmptyBlock, Doomed
    <3>2. CASE JobDone
      <4>1. Ran.len = filled /\ Ran.pledged = IF first THEN pledged ELSE filled
        BY <3>2 DEF JobDone, Running
      <4>2. filled \in Nat /\ pledged \in Nat \cup {None}
        BY DEF TypeOK
      <4>3. first /\ pledged # None /\ filled > pledged => PledgeExceeded(Ran)
        BY <4>1, <4>2 DEF PledgeExceeded, None
      <4> QED
        BY <3>2, <4>3 DEF JobDone, Doomed
    <3>3. CASE RunOneShot \/ Close
      BY <3>3 DEF RunOneShot, Close, Doomed, Streaming
    <3> QED
      BY <1>6, <3>1, <3>2, <3>3
  <2>2. /\ failed' = failed
        /\ frame_ended' => pc' = "consumed" \/ (frame_ended /\ pc # "consumed")
    BY <1>6 DEF LastEmptyBlock, JobDone, RunOneShot, Close
  <2> QED
    BY <2>1, <2>2 DEF Doomed
<1>7. CASE RunJob
  BY <1>7 DEF RunJob, Doomed, Streaming
<1>8. CASE JobExceeds
  <2>1. /\ Ran.len = filled /\ Ran.pledged = IF first THEN pledged ELSE filled
        /\ pc = "ran" /\ PledgeExceeded(Ran)
        /\ UNCHANGED <<first, pledged, filled, frame_ended>>
        /\ pc' = IF op = "End" THEN "consumed" ELSE "idle"
    BY <1>8 DEF JobExceeds, Running, Return, section
  <2>2. filled \in Nat
    BY DEF TypeOK
  <2>3. first /\ pledged # None /\ filled > pledged
    BY <2>1, <2>2 DEF PledgeExceeded
  <2> QED
    BY <2>1, <2>3 DEF Doomed, Streaming
<1>9. CASE JobMisses
  <2>1. Ran.last = Ends /\ Ran.last
    BY <1>9 DEF JobMisses, Running, PledgeMissed
  <2>2. pc' = "consumed" /\ frame_ended' = frame_ended /\ pc = "ran"
    BY <1>9, <2>1 DEF JobMisses, Return, Ends
  <2> QED
    BY <2>2 DEF Doomed
<1> QED
  BY <1>1, <1>3, <1>4, <1>5, <1>6, <1>7, <1>8, <1>9 DEF Next, Caller, Jobs

-----------------------------------------------------------------------------
(* The theorems.                                                           *)

LEMMA InitInv == Init => IInv
<1> SUFFICES ASSUME Init PROVE IInv
  OBVIOUS
<1>1. TypeOK
  BY TypeInit
<1> QED
  BY <1>1, Sizes DEF Init, IInv, Pointers, Buffered, Streaming, Running, Accounting,
     FrameShape, Doomed

LEMMA StepIInv == IInv /\ [Next]_vars => IInv'
BY TypeStep, PointersStep, BufferedStep, RunningStep, AccountingStep, FrameShapeStep,
   DoomedStep DEF IInv

\* The inductive invariant: the section in its buffer, the job that ran, the
\* bytes and the shape of what was written, and errors that are final.
THEOREM Invariance == Spec => []IInv
BY InitInv, StepIInv, PTL DEF Spec

\* Every variable keeps its type: no length goes negative, every job is a job.
THEOREM TypeCorrect == Spec => []TypeOK
<1>1. IInv => TypeOK
  BY DEF IInv
<1> QED
  BY <1>1, Invariance, PTL

\* What primes a job is the input just before its section, whatever the overlap,
\* the section size and the way the caller cuts its input.
THEOREM PrefixesAreHistory == Spec => []PrefixIsHistory
<1>1. IInv => PrefixIsHistory
  BY DEF IInv, Buffered, Streaming, PrefixIsHistory
<1> QED
  BY <1>1, Invariance, PTL

\* However many jobs it took, streamed or one-shot, with or without a pledge, a
\* dictionary and a checksum, what is ended is one frame of all the input.
THEOREM FramesWellFormed == Spec => []WellFormedFrame
<1>1. IInv => WellFormedFrame
  BY DEF IInv, FrameShape, Doomed, WellFormedFrame
<1> QED
  BY <1>1, Invariance, PTL

\* A job that fails leaves its section, so that later calls run it again: no
\* such call ends the frame.
THEOREM ErrorIsFinal == Spec => [][failed => failed' /\ ~frame_ended']_vars
<1>1. IInv' /\ [Next]_vars => [failed => failed' /\ ~frame_ended']_vars
  <2> SUFFICES ASSUME IInv', Next, failed PROVE failed' /\ ~frame_ended'
    OBVIOUS
  <2>1. failed'
    BY DEF Next, Caller, FallsThrough, RefusesToStart, Start, Call, Jobs, Fill,
       PushReturns, Flush, LastEmptyBlock, RunJob, JobExceeds, JobMisses, JobDone,
       RunOneShot, Close
  <2> QED
    BY <2>1 DEF IInv, Doomed
<1> QED
  BY <1>1, Invariance, PTL DEF Spec

-----------------------------------------------------------------------------
(* Multithreaded streaming implements EncoderContract.                     *)

\* Bytes are written in order, by a job that has any.
LEMMA WriteImplements ==
    ASSUME IInv, IInv', RunJob \/ RunOneShot
    PROVE  [Contract!Next]_(Contract!contract)
<1> DEFINE given == accepted + left
<1>0. /\ accepted \in Nat /\ left \in Nat /\ accepted' \in Nat /\ left' \in Nat
      /\ emitted \in Seq(Int) /\ emitted' \in Seq(Int) /\ filled \in Nat
  BY DEF IInv, TypeOK
<1>1. ~frame_ended /\ UNCHANGED <<failed, frame_ended>>
  BY DEF RunJob, RunOneShot, Doomed, IInv
<1>2. accepted' + left' = given /\ accepted' <= given
  <2>1. CASE RunJob
    BY <1>0, <2>1 DEF RunJob
  <2>2. CASE RunOneShot
    <3> DEFINE n == OneShotJob.len
    <3>1. accepted' = accepted + n /\ left' = left - n /\ n \in Nat /\ n <= left
      BY <1>0, <2>2, OneShotShape DEF IInv, RunOneShot
    <3> HIDE DEF n
    <3>2. accepted' + left' = accepted + left
      BY <1>0, <3>1
    <3>3. accepted' <= accepted + left
      BY <1>0, <3>1
    <3> QED
      BY <3>2, <3>3
  <2> QED
    BY <2>1, <2>2
<1>3. CASE failed
  BY <1>0, <1>1, <1>2, <1>3 DEF Contract!Next, Contract!Failed
<1>4. CASE ~failed
  <2>1. /\ \A k \in 1 .. Len(emitted') : emitted'[k] = k - 1
        /\ Len(emitted') = accepted'
        /\ Len(emitted) = accepted - filled
    <3>1. CASE RunJob
      BY <1>0, <1>1, <1>4, <3>1 DEF IInv, RunJob, Accounting
    <3>2. CASE RunOneShot
      <4>1. filled = 0
        BY <3>2 DEF IInv, RunOneShot, Pointers
      <4> QED
        BY <1>0, <1>4, <3>2, <4>1, RunOneShotAccounting DEF IInv
    <3> QED
      BY <3>1, <3>2
  <2>2. emitted' = [k \in 1 .. Len(emitted') |-> k - 1]
    BY <1>0, <1>1, <2>1
  <2>4. CASE RunJob /\ filled = 0
    <3>1. Segment = <<>> /\ emitted' = emitted
      BY <1>0, <1>1, <2>4, ConcatEmptySeq DEF Segment, RunJob
    <3> QED
      BY <1>0, <1>1, <1>2, <3>1 DEF Contract!contract
  <2>5. CASE ~(RunJob /\ filled = 0)
    <3>1. Len(emitted') > Len(emitted) /\ Len(emitted) \in Nat /\ Len(emitted') \in Nat
      <4>1. CASE RunJob
        BY <1>0, <1>1, <2>1, <2>5, <4>1 DEF RunJob
      <4>2. CASE RunOneShot
        <5>1. accepted' = accepted + OneShotJob.len /\ OneShotJob.len \in 1 .. left
              /\ filled = 0
          BY <4>2, OneShotShape DEF IInv, RunOneShot, Pointers
        <5> QED
          BY <1>0, <1>1, <2>1, <5>1
      <4> QED
        BY <4>1, <4>2
    <3>2. Len(emitted') \in Len(emitted) + 1 .. given
      BY <1>0, <1>1, <1>2, <2>1, <3>1
    <3> HIDE DEF given
    <3>3. Contract!Write
      BY <1>0, <1>1, <1>2, <1>4, <2>2, <3>2 DEF Contract!Write, given
    <3> QED
      BY <3>3 DEF Contract!Next
  <2> QED
    BY <2>4, <2>5
<1> QED
  BY <1>3, <1>4

\* Every step is a step of the contract, or changes nothing it speaks of.
THEOREM Refinement == Spec => ImplementsContract
<1>1. Init => Contract!Init
  BY DEF Init, Contract!Init
<1>2. IInv /\ IInv' /\ [Next]_vars => [Contract!Next]_(Contract!contract)
  <2> SUFFICES ASSUME IInv, IInv', [Next]_vars
               PROVE  [Contract!Next]_(Contract!contract)
    OBVIOUS
  <2> USE DEF IInv
  <2>1. CASE UNCHANGED vars
    BY <2>1 DEF vars, frame, Contract!contract
  <2>2. accepted \in Nat /\ left \in Nat /\ accepted' \in Nat /\ left' \in Nat
    BY DEF TypeOK
  <2>3. ASSUME NEW o \in {"Continue", "Flush", "End"}, NEW n \in Inputs,
               FallsThrough(o, n) \/ RefusesToStart(o, n) \/ Start(o, n) \/ Call(o, n)
        PROVE  [Contract!Next]_(Contract!contract)
    <3>1. /\ UNCHANGED <<accepted, emitted, frame_ended>>
          /\ pc \in {"uninit", "idle"} /\ ~frame_ended /\ left = 0
      BY <2>3 DEF FallsThrough, RefusesToStart, Start, Call, frame, Doomed, Pointers
    <3>2. CASE FallsThrough(o, n)
      BY <3>1, <3>2 DEF FallsThrough, Contract!contract
    <3>3. CASE RefusesToStart(o, n)
      <4>1. failed' /\ left' = left
        BY <3>3 DEF RefusesToStart
      <4> QED
        BY <2>2, <3>1, <4>1 DEF Contract!Next, Contract!Fail, Contract!Failed
    <3>4. CASE Start(o, n) \/ Call(o, n)
      <4>1. failed' = failed /\ left' = n
        BY <3>4 DEF Start, Call
      <4>2. CASE failed
        BY <3>1, <4>1, <4>2 DEF Contract!Next, Contract!Failed
      <4>3. CASE n = 0
        BY <3>1, <4>1, <4>3 DEF Contract!contract
      <4>4. CASE ~failed /\ n > 0
        BY <2>2, <3>1, <4>1, <4>4 DEF Contract!Next, Contract!Give
      <4> QED
        BY <2>2, <4>1, <4>2, <4>3, <4>4
    <3> QED
      BY <2>3, <3>2, <3>3, <3>4
  <2>4. CASE Fill
    <3> DEFINE n == Smaller(mt_target_section_size - filled, left)
    <3>1. n \in Nat /\ accepted' = accepted + n /\ left' = left - n
      BY <2>4, FillType DEF Fill
    <3> HIDE DEF n
    <3>2. accepted' + left' = accepted + left
      BY <2>2, <3>1
    <3>3. UNCHANGED <<emitted, frame_ended, failed>>
      BY <2>4 DEF Fill, frame
    <3> QED
      BY <3>2, <3>3 DEF Contract!contract
  <2>5. CASE PushReturns \/ Flush \/ LastEmptyBlock \/ JobDone
    <3>1. UNCHANGED <<accepted, emitted, frame_ended, failed>>
      BY <2>5 DEF PushReturns, Flush, LastEmptyBlock, JobDone, section, frame
    <3>2. left' = left
      BY <2>5 DEF PushReturns, Flush, LastEmptyBlock, JobDone, Return, Pointers
    <3> QED
      BY <3>1, <3>2 DEF Contract!contract
  <2>6. CASE JobExceeds \/ JobMisses
    <3>1. /\ failed' /\ UNCHANGED <<accepted, emitted, frame_ended>> /\ left' = 0
          /\ pc = "ran"
      BY <2>6 DEF JobExceeds, JobMisses, Return, frame
    <3>2. ~frame_ended
      BY <3>1 DEF Doomed
    <3> QED
      BY <2>2, <3>1, <3>2 DEF Contract!Next, Contract!Fail, Contract!Failed
  <2>7. CASE RunJob \/ RunOneShot
    BY <2>7, WriteImplements
  <2>8. CASE Close
    <3>1. /\ pc = "close" /\ frame_ended' /\ UNCHANGED <<accepted, left, emitted, failed>>
          /\ ~frame_ended /\ ~failed /\ left = 0
      BY <2>8 DEF Close, Doomed, Streaming, Pointers
    <3>2. filled = 0 /\ Len(emitted) = accepted
      BY <2>2, <3>1 DEF FrameShape, Accounting
    <3> QED
      BY <2>2, <3>1, <3>2 DEF Contract!Next, Contract!Close
  <2> QED
    BY <2>1, <2>3, <2>4, <2>5, <2>6, <2>7, <2>8 DEF Next, Caller, Jobs
<1> QED
  BY <1>1, <1>2, Invariance, PTL DEF Spec, ImplementsContract, Contract!Spec

-----------------------------------------------------------------------------
(* Where the jobs are.                                                     *)

LEMMA NextMultiple == ASSUME NEW a \in Nat, NEW b \in Nat PROVE (a + 1) * b = a * b + b
OBVIOUS

\* One more job keeps the arithmetic of the jobs before it.
LEMMA OneMoreJob ==
    ASSUME [Next]_vars, jobs \in Seq(JobType), NEW job \in JobType,
           jobs' = Append(jobs, job), UNCHANGED <<flushed, failed>>, JobsAreArithmetic,
           ~flushed /\ ~failed =>
               /\ job.start = Len(jobs) * mt_target_section_size
               /\ job.prefix = IF Len(jobs) = 0 THEN content_len ELSE mt_overlap_size
               /\ ~job.last => job.len = mt_target_section_size
    PROVE  JobsAreArithmetic'
<1> SUFFICES ASSUME ~flushed, ~failed, NEW k \in DOMAIN jobs'
             PROVE  /\ jobs'[k].start = (k - 1) * mt_target_section_size
                    /\ jobs'[k].prefix = IF k = 1 THEN content_len ELSE mt_overlap_size
                    /\ ~jobs'[k].last => jobs'[k].len = mt_target_section_size
  BY SetupKept DEF JobsAreArithmetic
<1>1. k \in 1 .. Len(jobs) + 1 /\ Len(jobs) \in Nat
  OBVIOUS
<1>2. CASE k <= Len(jobs)
  <2>1. jobs'[k] = jobs[k] /\ k \in DOMAIN jobs
    BY <1>1, <1>2
  <2> QED
    BY <2>1 DEF JobsAreArithmetic
<1>3. CASE k = Len(jobs) + 1
  <2>1. jobs'[k] = job /\ k - 1 = Len(jobs) /\ (k = 1 <=> Len(jobs) = 0)
    BY <1>1, <1>3
  <2> QED
    BY <2>1
<1> QED
  BY <1>1, <1>2, <1>3

LEMMA SameJobs ==
    ASSUME [Next]_vars, JobsAreArithmetic, UNCHANGED jobs, flushed \/ failed => flushed' \/ failed'
    PROVE  JobsAreArithmetic'
BY SetupKept DEF JobsAreArithmetic

LEMMA RunJobArithmetic ==
    ASSUME IInv, [Next]_vars, Arithmetic, RunJob, ~flushed, ~failed
    PROVE  Arithmetic'
<1> USE DEF IInv
<1>1. /\ pc = "run" /\ pc' = "ran" /\ jobs' = Append(jobs, Job) /\ dict' = "none"
      /\ UNCHANGED <<flushed, failed, filled, accepted, prefix_len, op>>
  BY DEF RunJob
<1>2. /\ jobs \in Seq(JobType) /\ Len(jobs) \in Nat /\ Job \in JobType
      /\ accepted \in Nat /\ filled \in Nat
  BY JobShape DEF TypeOK
<1>3. /\ accepted - filled = Len(jobs) * mt_target_section_size
      /\ prefix_len = IF Len(jobs) = 0 THEN 0 ELSE mt_overlap_size
      /\ dict = "none" <=> Len(jobs) > 0 \/ content_len = 0
      /\ op # "Flush" /\ JobsAreArithmetic
  BY <1>1 DEF Arithmetic, Streaming
<1>4. /\ Job.start = Len(jobs) * mt_target_section_size
      /\ Job.prefix = IF Len(jobs) = 0 THEN content_len ELSE mt_overlap_size
      /\ ~Job.last => Job.len = mt_target_section_size
  <2>1. /\ Job.start = accepted - filled /\ Job.len = filled /\ Job.last = Ends
        /\ Job.prefix = IF dict = "none" THEN prefix_len ELSE content_len
    BY DEF Job
  <2>2. Ends \/ filled = mt_target_section_size
    BY <1>1, <1>3 DEF Running
  <2> QED
    BY <1>2, <1>3, <2>1, <2>2
<1>5. JobsAreArithmetic'
  BY <1>1, <1>2, <1>3, <1>4, OneMoreJob
<1>6. Len(jobs') - 1 = Len(jobs)
  BY <1>1, <1>2
<1> QED
  BY <1>1, <1>3, <1>5, <1>6, SetupKept DEF Arithmetic, Streaming

LEMMA JobDoneArithmetic ==
    ASSUME IInv, [Next]_vars, Arithmetic, JobDone, ~flushed, ~failed
    PROVE  Arithmetic'
<1> USE DEF IInv
<1>1. /\ pc = "ran" /\ jobs' = jobs /\ dict' = dict /\ filled' = 0
      /\ pc' = IF Ends THEN "close" ELSE IF op = "Flush" THEN "idle" ELSE "fill"
      /\ Ends \/ prefix_len' = Overlap
      /\ UNCHANGED <<flushed, failed, accepted, op>>
  BY DEF JobDone, Carry
<1>2. /\ jobs \in Seq(JobType) /\ Len(jobs) \in Nat /\ jobs # <<>>
      /\ accepted \in Nat /\ filled \in Nat /\ config \in Configs
  BY <1>1 DEF TypeOK, Running
<1>3. Len(jobs) > 0
  BY <1>2, EmptySeq
<1>4. /\ accepted - filled = (Len(jobs) - 1) * mt_target_section_size
      /\ op # "Flush" /\ JobsAreArithmetic /\ dict = "none"
  BY <1>1 DEF Arithmetic, Streaming
<1>5. JobsAreArithmetic'
  BY <1>1, <1>4, SameJobs
<1>6. CASE Ends
  <2>1. pc' = "close"
    BY <1>1, <1>6
  <2> QED
    BY <1>5, <2>1 DEF Arithmetic, Streaming
<1>7. CASE ~Ends
  <2>1. pc' = "fill" /\ filled = mt_target_section_size
    BY <1>1, <1>4, <1>7 DEF Running
  <2>2. prefix_len' = mt_overlap_size
    BY <1>1, <1>2, <1>7, <2>1, Sizes DEF Overlap, Smaller
  <2>3. accepted' - filled' = Len(jobs) * mt_target_section_size
    <3>1. /\ mt_target_section_size \in Nat /\ Len(jobs) - 1 \in Nat
          /\ (Len(jobs) - 1) + 1 = Len(jobs)
      BY <1>2, <1>3, Sizes
    <3>2. Len(jobs) * mt_target_section_size
            = (Len(jobs) - 1) * mt_target_section_size + mt_target_section_size
      BY <3>1, NextMultiple
    <3>3. accepted = Len(jobs) * mt_target_section_size
      BY <1>2, <1>4, <2>1, <3>1, <3>2
    <3> QED
      BY <1>1, <1>2, <3>3
  <2> QED
    BY <1>1, <1>2, <1>3, <1>4, <1>5, <2>1, <2>2, <2>3, SetupKept
       DEF Arithmetic, Streaming
<1> QED
  BY <1>6, <1>7

LEMMA RunOneShotArithmetic ==
    ASSUME IInv, [Next]_vars, Arithmetic, RunOneShot, ~flushed, ~failed
    PROVE  Arithmetic'
<1> USE DEF IInv
<1> DEFINE job == OneShotJob
<1>1. /\ pc = "oneshot" /\ jobs' = Append(jobs, job)
      /\ accepted' = accepted + job.len
      /\ pc' = IF job.last THEN "close" ELSE "oneshot"
      /\ ~first' /\ UNCHANGED <<flushed, failed, filled>>
  BY DEF RunOneShot
<1>2. /\ jobs \in Seq(JobType) /\ Len(jobs) \in Nat /\ job \in JobType /\ job.len \in Nat
      /\ accepted \in Nat /\ filled = 0 /\ left \in Nat
  BY <1>1, OneShotShape DEF TypeOK, Pointers
<1>3. /\ mt_target_section_size \in Nat /\ mt_overlap_size \in Nat
      /\ mt_overlap_size <= mt_target_section_size
  BY Sizes DEF TypeOK
<1>4. /\ accepted = Len(jobs) * mt_target_section_size
      /\ content_len = 0 /\ (first <=> Len(jobs) = 0) /\ JobsAreArithmetic
  <2>1. accepted - filled = Len(jobs) * mt_target_section_size
    BY <1>1 DEF Arithmetic
  <2> QED
    BY <1>1, <1>2, <2>1 DEF Arithmetic
<1>5. /\ job.start = accepted /\ (~job.last => job.len = mt_target_section_size)
      /\ job.prefix = IF first THEN 0 ELSE Smaller(mt_overlap_size, accepted)
  BY DEF OneShotJob, Smaller
<1>6. Len(jobs) # 0 => accepted >= mt_target_section_size
  <2> SUFFICES ASSUME Len(jobs) # 0 PROVE accepted >= mt_target_section_size
    OBVIOUS
  <2> DEFINE m == Len(jobs) - 1
  <2>1. m \in Nat /\ Len(jobs) = m + 1
    BY <1>2
  <2> HIDE DEF m
  <2>2. accepted = m * mt_target_section_size + mt_target_section_size
    BY <1>3, <1>4, <2>1, NextMultiple
  <2>3. m * mt_target_section_size \in Nat
    BY <1>3, <2>1
  <2> QED
    BY <1>3, <2>2, <2>3
<1> HIDE DEF job
<1>7. job.prefix = IF Len(jobs) = 0 THEN content_len ELSE mt_overlap_size
  BY <1>2, <1>3, <1>4, <1>5, <1>6 DEF Smaller
<1>8. JobsAreArithmetic'
  BY <1>1, <1>2, <1>4, <1>5, <1>7, OneMoreJob
<1>9. Len(jobs') = Len(jobs) + 1
  BY <1>1, <1>2
<1>10. CASE job.last
  <2>1. pc' = "close"
    BY <1>1, <1>10
  <2> QED
    BY <1>8, <2>1 DEF Arithmetic, Streaming
<1>11. CASE ~job.last
  <2>1. pc' = "oneshot"
    BY <1>1, <1>11
  <2>2. accepted' = (Len(jobs) + 1) * mt_target_section_size
    BY <1>1, <1>2, <1>3, <1>4, <1>5, <1>11, NextMultiple
  <2>3. accepted' - filled' = Len(jobs') * mt_target_section_size
    <3>1. accepted' = accepted + job.len /\ filled' = 0
      BY <1>1, <1>2
    <3>2. accepted + job.len = (Len(jobs) + 1) * mt_target_section_size
      BY <1>1, <2>2
    <3> QED
      BY <1>2, <1>9, <3>1, <3>2
  <2>4. Len(jobs') > 0 /\ ~(Len(jobs') = 0)
    BY <1>2, <1>9
  <2> QED
    BY <1>1, <1>4, <1>8, <2>1, <2>3, <2>4, SetupKept DEF Arithmetic, Streaming
<1> QED
  BY <1>10, <1>11

LEMMA ArithmeticStep == IInv /\ Arithmetic /\ [Next]_vars => Arithmetic'
<1> SUFFICES ASSUME IInv, Arithmetic, [Next]_vars PROVE Arithmetic'
  OBVIOUS
<1> USE DEF IInv
<1>1. CASE flushed' \/ failed'
  BY <1>1 DEF Arithmetic
<1>2. (flushed => flushed') /\ (failed => failed')
  BY DEF vars, Next, Caller, FallsThrough, RefusesToStart, Start, Call, Jobs, Fill,
     PushReturns, Flush, LastEmptyBlock, RunJob, JobExceeds, JobMisses, JobDone,
     RunOneShot, Close
<1>3. CASE ~flushed' /\ ~failed'
  <2>1. ~flushed /\ ~failed /\ JobsAreArithmetic
    BY <1>2, <1>3 DEF Arithmetic
  <2>2. jobs' = jobs => JobsAreArithmetic'
    BY <2>1, SameJobs
  <2>3. CASE UNCHANGED vars
    BY <2>1, <2>2, <2>3, SetupKept DEF vars, section, frame, Arithmetic, Streaming
  <2>4. ASSUME NEW o \in {"Continue", "Flush", "End"}, NEW n \in Inputs,
               FallsThrough(o, n) \/ RefusesToStart(o, n) \/ Start(o, n) \/ Call(o, n)
        PROVE  Arithmetic'
    <3>1. CASE FallsThrough(o, n)
      BY <2>2, <3>1 DEF FallsThrough, frame, Arithmetic, Streaming
    <3>2. CASE RefusesToStart(o, n)
      BY <1>3, <3>2 DEF RefusesToStart
    <3>3. CASE Start(o, n)
      <4>1. /\ pc = "uninit" /\ UNCHANGED <<jobs, accepted, filled, prefix_len, first>>
            /\ dict' = IF content_len = 0 THEN "none"
                       ELSE IF pledged' = None THEN "attached" ELSE "copied"
            /\ op' = o
            /\ pc' = IF OneShot(o) THEN "oneshot" ELSE IF o = "Flush" THEN "flush"
                     ELSE "fill"
        BY <3>3 DEF Start, frame
      <4>2. /\ Len(jobs) = 0 /\ accepted = 0 /\ filled = 0 /\ prefix_len = 0 /\ first
        BY <2>1, <4>1 DEF Arithmetic, Pointers, TypeOK
      <4>3. 0 * mt_target_section_size = 0
        BY Sizes DEF TypeOK
      <4> QED
        BY <2>2, <4>1, <4>2, <4>3, SetupKept DEF Arithmetic, Streaming, OneShot
    <3>4. CASE Call(o, n)
      BY <2>1, <2>2, <3>4, SetupKept DEF Call, section, frame, Arithmetic, Streaming
    <3> QED
      BY <2>4, <3>1, <3>2, <3>3, <3>4
  <2>5. CASE Fill
    <3> DEFINE n == Smaller(mt_target_section_size - filled, left)
    <3>1. /\ n \in Nat /\ filled' = filled + n /\ accepted' = accepted + n
          /\ filled \in Nat /\ accepted \in Nat
      BY <2>5, FillType DEF TypeOK
    <3> HIDE DEF n
    <3>2. accepted' - filled' = accepted - filled
      BY <3>1
    <3>3. /\ UNCHANGED <<prefix_len, first, dict, jobs, op>>
          /\ pc = "fill" /\ pc' \in {"run", "fill"}
      BY <2>5 DEF Fill, frame
    <3> QED
      BY <2>1, <2>2, <3>2, <3>3, SetupKept DEF Arithmetic, Streaming
  <2>6. CASE PushReturns \/ Flush
    <3>1. /\ UNCHANGED <<accepted, filled, prefix_len, first, dict, jobs, op>>
          /\ pc \in {"fill", "flush"} /\ pc' = "idle"
      BY <1>3, <2>6 DEF PushReturns, Flush, Return, Running, section, frame
    <3> QED
      BY <2>1, <2>2, <3>1, SetupKept DEF Arithmetic, Streaming
  <2>7. CASE LastEmptyBlock \/ Close
    <3>1. UNCHANGED jobs /\ pc' \in {"close", "consumed"}
      BY <2>7 DEF LastEmptyBlock, Close
    <3> QED
      BY <2>2, <3>1 DEF Arithmetic, Streaming
  <2>8. CASE JobExceeds \/ JobMisses
    BY <1>3, <2>8 DEF JobExceeds, JobMisses
  <2>9. CASE RunJob
    BY <2>1, <2>9, RunJobArithmetic
  <2>10. CASE JobDone
    BY <2>1, <2>10, JobDoneArithmetic
  <2>11. CASE RunOneShot
    BY <2>1, <2>11, RunOneShotArithmetic
  <2> QED
    BY <2>3, <2>4, <2>5, <2>6, <2>7, <2>8, <2>9, <2>10, <2>11 DEF Next, Caller, Jobs
<1> QED
  BY <1>1, <1>3 DEF TypeOK

\* Unless the caller flushes, a job starts at a multiple of the section size and
\* its prefix is the overlap, however the caller slices its input: streamed and
\* one-shot frames are cut alike.
THEOREM BoundariesArithmetic == Spec => []JobsAreArithmetic
<1>1. Init => Arithmetic
  BY DEF Init, Arithmetic, Streaming, JobsAreArithmetic
<1>2. Arithmetic => JobsAreArithmetic
  BY DEF Arithmetic, JobsAreArithmetic
<1> QED
  BY <1>1, <1>2, Invariance, ArithmeticStep, PTL DEF Spec

-----------------------------------------------------------------------------
(* The slides of a job's window.                                           *)

LEMMA Slid ==
    ASSUME NEW job, BlockCount(job) \in Nat
    PROVE  Slides(job) = [k \in 0 .. BlockCount(job) |->
                            IF k = 0 THEN JobWindow(job)
                            ELSE SlidTo(job, Slides(job)[k - 1], k)]
<1> DEFINE n == BlockCount(job)
           start == JobWindow(job)
           Is(f, m) == f = [k \in 0 .. m |->
                              IF k = 0 THEN start ELSE SlidTo(job, f[k - 1], k)]
           T == {m \in Nat : \E f : Is(f, m)}
<1> HIDE DEF start
<1>1. 0 \in T
  <2>1. Is([k \in 0 .. 0 |-> start], 0)
    OBVIOUS
  <2>2. \E f : Is(f, 0)
    <3> WITNESS [k \in 0 .. 0 |-> start]
    <3> QED
      BY <2>1
  <2> QED
    BY <2>2
<1>2. ASSUME NEW m \in 1 .. n, m - 1 \in T PROVE m \in T
  <2>1. PICK g : Is(g, m - 1)
    BY <1>2
  <2> DEFINE f == [k \in 0 .. m |-> IF k = m THEN SlidTo(job, g[m - 1], m) ELSE g[k]]
  <2>2. ASSUME NEW k \in 0 .. m
        PROVE  f[k] = IF k = 0 THEN start ELSE SlidTo(job, f[k - 1], k)
    <3>1. CASE k = 0
      BY <2>1, <3>1
    <3>2. CASE k = m
      <4>1. f[k - 1] = g[m - 1] /\ f[k] = SlidTo(job, g[m - 1], m)
        BY <3>2
      <4> QED
        BY <3>2, <4>1
    <3>3. CASE k # 0 /\ k # m
      <4>1. k \in 0 .. m - 1 /\ k - 1 \in 0 .. m /\ k - 1 # m
        BY <3>3
      <4>2. f[k] = g[k] /\ f[k - 1] = g[k - 1]
        BY <3>3, <4>1
      <4>3. g[k] = SlidTo(job, g[k - 1], k)
        BY <2>1, <3>3, <4>1
      <4> QED
        BY <3>3, <4>2, <4>3
    <3> QED
      BY <3>1, <3>2, <3>3
  <2>3. Is(f, m)
    BY <2>2
  <2>4. \E h : Is(h, m)
    <3> HIDE DEF f
    <3> WITNESS f
    <3> QED
      BY <2>3
  <2>5. m \in Nat
    OBVIOUS
  <2> QED
    BY <2>4, <2>5
<1>3. \E f : Is(f, n)
  <2> HIDE DEF T
  <2>1. 0 .. n \subseteq T
    BY <1>1, <1>2, UpTo
  <2>2. n \in T
    BY <2>1
  <2> QED
    BY <2>2 DEF T
<1>4. Slides(job) = CHOOSE f : Is(f, n)
  BY DEF Slides, start
<1>5. Is(Slides(job), n)
  BY <1>3, <1>4
<1> QED
  BY <1>5 DEF start

LEMMA BlockEnds ==
    ASSUME config \in Configs, NEW job \in JobType, NEW k \in Nat
    PROVE  BlockEnd(job, k) \in job.prefix .. job.prefix + job.len
<1> DEFINE size == BlockSizeOf(job.pledged)
<1>1. size \in Nat /\ job.len \in Nat /\ job.prefix \in Nat
  BY BlockSizes DEF JobType
<1>2. BlockEnd(job, k) = job.prefix + Smaller(job.len, k * size)
  BY DEF BlockEnd
<1> HIDE DEF size
<1>3. k * size \in Nat
  BY <1>1
<1> QED
  BY <1>1, <1>2, <1>3 DEF Smaller

\* A window that has not left the buffer's own indices: a copied dictionary ends
\* where the job's prefix does.
Attuned(job, w) ==
    /\ w \in Windows /\ w.seg_bias = WINDOW_START_INDEX
    /\ w.loaded_dict_end # 0 =>
          job.dict = "copied" /\ w.loaded_dict_end = WINDOW_START_INDEX + job.prefix

\* The indices of the dictionary's job do not wrap.
DictFits(job) ==
    job.dict = "copied" => WINDOW_START_INDEX + job.prefix + job.len < IndexMod

LEMMA UpdateKeeps ==
    ASSUME NEW w \in Windows, NEW start, start = w.next_src_pos, NEW end \in Nat
    PROVE  /\ update(w, start, end) \in Windows
           /\ update(w, start, end).seg_bias = w.seg_bias
           /\ update(w, start, end).loaded_dict_end = w.loaded_dict_end
<1> DEFINE moved == [w EXCEPT !.next_src_pos = end, !.next_src_idx = W32(w.seg_bias + end)]
<1>1. start \in Nat
  BY WindowFields
<1>2. update(w, start, end) = IF start = end THEN w ELSE TrimOverwritten(moved, start, end)
  BY DEF update, contiguous
<1>3. moved.seg_bias = w.seg_bias /\ moved.loaded_dict_end = w.loaded_dict_end
  BY DEF Windows
<1>4. moved \in Windows
  <2>1. W32(w.seg_bias + end) \in Index
    BY W32Index, WindowFields
  <2> QED
    BY <2>1 DEF Windows
<1> HIDE DEF moved
<1>5. /\ TrimOverwritten(moved, start, end).seg_bias = moved.seg_bias
      /\ TrimOverwritten(moved, start, end).loaded_dict_end = moved.loaded_dict_end
  BY <1>4 DEF TrimOverwritten, Windows
<1>6. update(w, start, end) \in Windows
  BY <1>1, UpdateType
<1> QED
  BY <1>2, <1>3, <1>5, <1>6

LEMMA JobWindowAttuned ==
    ASSUME NEW job \in JobType, DictFits(job) PROVE Attuned(job, JobWindow(job))
<1> DEFINE p == job.prefix
           total == job.prefix + job.len
<1>1. p \in Nat /\ total \in Nat /\ job.len \in Nat
  BY DEF JobType
<1>2. NewWindow \in Windows
  BY IndexIsNat DEF NewWindow, Windows
<1>3. W32(WINDOW_START_INDEX + p) \in Index /\ W32(WINDOW_START_INDEX + total) \in Index
  BY <1>1, W32Index DEF WINDOW_START_INDEX
<1>4. CASE job.dict = "attached"
  <2> DEFINE w == streaming_attached_dict(p)
  <2>1. w \in Windows /\ w.seg_bias = WINDOW_START_INDEX /\ w.loaded_dict_end = 0
        /\ w.next_src_pos = p
    BY <1>1, NewWindowType DEF streaming_attached_dict, NewWindow
  <2>2. JobWindow(job) = update(w, p, total)
    BY <1>4 DEF JobWindow
  <2> HIDE DEF w
  <2>3. /\ update(w, p, total) \in Windows
        /\ update(w, p, total).seg_bias = WINDOW_START_INDEX
        /\ update(w, p, total).loaded_dict_end = 0
    BY <1>1, <2>1, UpdateKeeps
  <2> QED
    BY <2>2, <2>3 DEF Attuned
<1>5. CASE job.dict = "copied"
  <2> DEFINE w == streaming_ext_dict(p)
  <2>1. W32(WINDOW_START_INDEX + p) = WINDOW_START_INDEX + p
    <3>1. WINDOW_START_INDEX + p \in Nat /\ WINDOW_START_INDEX + p < IndexMod
      BY <1>1, <1>5, WindowAssumption DEF DictFits, WINDOW_START_INDEX
    <3> QED
      BY <3>1, W32Facts
  <2>2. w.seg_bias = WINDOW_START_INDEX /\ w.next_src_pos = p
        /\ w.loaded_dict_end = WINDOW_START_INDEX + p
    BY <2>1 DEF streaming_ext_dict, NewWindow
  <2>3. w \in Windows
    BY <1>1, <1>2, <1>3 DEF streaming_ext_dict, Windows
  <2>4. JobWindow(job) = update(w, p, total)
    BY <1>5 DEF JobWindow
  <2> HIDE DEF w
  <2>5. /\ update(w, p, total) \in Windows
        /\ update(w, p, total).seg_bias = WINDOW_START_INDEX
        /\ update(w, p, total).loaded_dict_end = WINDOW_START_INDEX + p
    BY <1>1, <2>2, <2>3, UpdateKeeps
  <2> QED
    BY <1>5, <2>4, <2>5 DEF Attuned
<1>6. CASE job.dict = "none" /\ p > 0
  <2> DEFINE w == preloaded_contiguous_prefix(total)
  <2>1. w.seg_bias = WINDOW_START_INDEX /\ w.loaded_dict_end = 0
    BY DEF preloaded_contiguous_prefix, NewWindow
  <2>2. w \in Windows
    BY <1>1, <1>2, <1>3 DEF preloaded_contiguous_prefix, Windows
  <2>3. JobWindow(job) = w
    BY <1>6 DEF JobWindow
  <2> HIDE DEF w
  <2> QED
    BY <2>1, <2>2, <2>3 DEF Attuned
<1>7. CASE job.dict = "none" /\ p = 0
  <2>1. NewWindow.seg_bias = WINDOW_START_INDEX /\ NewWindow.loaded_dict_end = 0
        /\ NewWindow.next_src_pos = 0
    BY DEF NewWindow
  <2>2. JobWindow(job) = update(NewWindow, 0, total)
    BY <1>7 DEF JobWindow
  <2>3. /\ update(NewWindow, 0, total) \in Windows
        /\ update(NewWindow, 0, total).seg_bias = WINDOW_START_INDEX
        /\ update(NewWindow, 0, total).loaded_dict_end = 0
    BY <1>1, <1>2, <2>1, UpdateKeeps
  <2> QED
    BY <2>2, <2>3 DEF Attuned
<1> QED
  BY <1>1, <1>4, <1>5, <1>6, <1>7 DEF JobType

\* Sliding keeps a dictionary only while the block's end is within its reach.
LEMMA SlideAttuned ==
    ASSUME config \in Configs, NEW job \in JobType, DictFits(job),
           NEW w, Attuned(job, w), NEW k \in Nat \ {0}
    PROVE  /\ Attuned(job, SlidTo(job, w, k))
           /\ SlidTo(job, w, k).loaded_dict_end # 0 =>
                  BlockEnd(job, k) <= job.prefix + window_size
<1> DEFINE end == BlockEnd(job, k)
           begin == BlockEnd(job, k - 1)
           endIdx == W32(end + w.seg_bias)
           beginIdx == W32(begin + w.seg_bias)
           valid == check_dict_validity(w, endIdx, window_size)
<1>1. /\ end \in Nat /\ begin \in Nat /\ end <= job.prefix + job.len
      /\ job.prefix \in Nat /\ job.len \in Nat /\ window_size \in Nat
  <2>1. k - 1 \in Nat /\ k \in Nat
    OBVIOUS
  <2>2. job.prefix \in Nat /\ job.len \in Nat
    BY DEF JobType
  <2> HIDE DEF end, begin
  <2>3. end \in job.prefix .. job.prefix + job.len
        /\ begin \in job.prefix .. job.prefix + job.len
    BY <2>1, BlockEnds DEF end, begin
  <2> QED
    BY <2>2, <2>3, Sizes
<1>2. SlidTo(job, w, k) = enforce_max_dist(valid, beginIdx, window_size)
  BY DEF SlidTo
<1>3. w \in Windows /\ w.seg_bias = WINDOW_START_INDEX /\ w.loaded_dict_end \in Nat
  BY WindowFields DEF Attuned
<1> HIDE DEF end, begin
<1>4. /\ endIdx = W32(end + WINDOW_START_INDEX) /\ endIdx \in Nat /\ beginIdx \in Nat
  BY <1>1, <1>3, W32Index DEF WINDOW_START_INDEX
<1> HIDE DEF endIdx, beginIdx
<1>5. /\ valid \in Windows /\ valid.seg_bias = w.seg_bias
      /\ valid.loaded_dict_end \in {0, w.loaded_dict_end}
      /\ valid.loaded_dict_end # 0 => endIdx <= W32(w.loaded_dict_end + window_size)
  <2>1. valid \in Windows
    BY <1>3, ValidityType
  <2>2. CASE /\ w.loaded_dict_end # 0
             /\ \/ endIdx > W32(w.loaded_dict_end + window_size)
                \/ w.loaded_dict_end # w.dict_limit
    <3>1. valid = [w EXCEPT !.loaded_dict_end = 0]
      BY <2>2 DEF check_dict_validity
    <3>2. valid.seg_bias = w.seg_bias /\ valid.loaded_dict_end = 0
      BY <1>3, <3>1 DEF Windows
    <3> QED
      BY <2>1, <3>2
  <2>3. CASE ~(/\ w.loaded_dict_end # 0
               /\ \/ endIdx > W32(w.loaded_dict_end + window_size)
                  \/ w.loaded_dict_end # w.dict_limit)
    <3>1. valid = w
      BY <2>3 DEF check_dict_validity
    <3>2. W32(w.loaded_dict_end + window_size) \in Nat
      BY <1>1, <1>3, W32Index
    <3> QED
      BY <1>4, <2>1, <2>3, <3>1, <3>2
  <2> QED
    BY <2>2, <2>3
<1>6. /\ SlidTo(job, w, k) \in Windows /\ SlidTo(job, w, k).seg_bias = valid.seg_bias
      /\ SlidTo(job, w, k).loaded_dict_end \in {0, valid.loaded_dict_end}
  <2> HIDE DEF valid
  <2>1. SlidTo(job, w, k) \in Windows
    BY <1>1, <1>2, <1>4, <1>5, EnforceType
  <2> QED
    BY <1>2, <1>5, <2>1 DEF enforce_max_dist, Windows
<1> HIDE DEF valid
<1>7. Attuned(job, SlidTo(job, w, k))
  <2> DEFINE s == SlidTo(job, w, k)
  <2>1. s.loaded_dict_end \in {0, w.loaded_dict_end} /\ s \in Windows
        /\ s.seg_bias = WINDOW_START_INDEX
    BY <1>3, <1>5, <1>6
  <2> HIDE DEF s
  <2>2. Attuned(job, s)
    BY <2>1 DEF Attuned
  <2> QED
    BY <2>2 DEF s
<1>8. ASSUME SlidTo(job, w, k).loaded_dict_end # 0 PROVE end <= job.prefix + window_size
  <2>1. w.loaded_dict_end # 0 /\ endIdx <= W32(w.loaded_dict_end + window_size)
    BY <1>5, <1>6, <1>8
  <2>2. job.dict = "copied" /\ w.loaded_dict_end = WINDOW_START_INDEX + job.prefix
    BY <2>1 DEF Attuned
  <2>3. endIdx = end + WINDOW_START_INDEX
    <3>1. end + WINDOW_START_INDEX \in Nat /\ end + WINDOW_START_INDEX < IndexMod
      BY <1>1, <2>2, WindowAssumption DEF DictFits, WINDOW_START_INDEX
    <3> QED
      BY <1>4, <3>1, W32Facts
  <2>4. W32(w.loaded_dict_end + window_size) <= w.loaded_dict_end + window_size
    BY <1>1, <1>3, W32Facts
  <2>5. W32(w.loaded_dict_end + window_size) \in Nat
    BY <1>1, <1>3, W32Index
  <2> QED
    BY <1>1, <2>1, <2>2, <2>3, <2>4, <2>5 DEF WINDOW_START_INDEX
<1> QED
  BY <1>7, <1>8 DEF end

LEMMA SlidesAttuned ==
    ASSUME config \in Configs, NEW job \in JobType, DictFits(job),
           NEW k \in 1 .. BlockCount(job)
    PROVE  /\ Attuned(job, Slides(job)[k])
           /\ Slides(job)[k].loaded_dict_end # 0 =>
                  BlockEnd(job, k) <= job.prefix + window_size
<1> DEFINE n == BlockCount(job)
           window == Slides(job)
           T == {j \in 0 .. n : Attuned(job, window[j])}
<1>1. n \in Nat
  BY BlockCounts
<1>2. /\ window[0] = JobWindow(job)
      /\ \A j \in 1 .. n : window[j] = SlidTo(job, window[j - 1], j)
  <2>1. window = [j \in 0 .. n |-> IF j = 0 THEN JobWindow(job)
                                   ELSE SlidTo(job, window[j - 1], j)]
    BY <1>1, Slid
  <2> HIDE DEF n, window
  <2>2. ASSUME NEW j \in 1 .. n PROVE window[j] = SlidTo(job, window[j - 1], j)
    <3>1. j \in 0 .. n /\ j # 0
      BY <1>1
    <3> QED
      BY <2>1, <3>1
  <2>3. 0 \in 0 .. n
    BY <1>1
  <2> QED
    BY <2>1, <2>2, <2>3
<1> HIDE DEF n, window
<1>3. 0 \in T
  BY <1>1, <1>2, JobWindowAttuned
<1>4. ASSUME NEW j \in 1 .. n, j - 1 \in T
      PROVE  /\ j \in T
             /\ window[j].loaded_dict_end # 0 => BlockEnd(job, j) <= job.prefix + window_size
  <2>1. Attuned(job, window[j - 1]) /\ j \in Nat \ {0} /\ j \in 0 .. n
    BY <1>1, <1>4
  <2>2. window[j] = SlidTo(job, window[j - 1], j)
    BY <1>2
  <2>3. /\ Attuned(job, SlidTo(job, window[j - 1], j))
        /\ SlidTo(job, window[j - 1], j).loaded_dict_end # 0 =>
               BlockEnd(job, j) <= job.prefix + window_size
    BY <2>1, SlideAttuned
  <2> QED
    BY <2>1, <2>2, <2>3
<1> HIDE DEF T
<1>5. 0 .. n \subseteq T
  BY <1>1, <1>3, <1>4, UpTo
<1>6. k \in 1 .. n /\ k - 1 \in T /\ k \in T
  BY <1>1, <1>5 DEF n
<1> QED
  BY <1>4, <1>6 DEF T, window

\* How far a job reaches, from where it is in the frame.
LEMMA JobReach ==
    ASSUME config \in Configs, pledged \in Nat \cup {None}, accepted \in Nat,
           pledged = None \/ accepted <= pledged,
           NEW job \in JobType, DictFits(job), job.start + job.len <= accepted,
           job.dict # "none" => job.start = 0,
           job.dict = "attached" => pledged = None /\ job.len <= window_size
    PROVE  WithinWindow(job)
<1> SUFFICES ASSUME NEW k \in 1 .. BlockCount(job),
                    NEW last, last = job.start + BlockEnd(job, k) - job.prefix - 1,
                    NEW lowest,
                    lowest = job.start + Lowest(job, Slides(job)[k], k)
                                - Slides(job)[k].seg_bias - job.prefix
             PROVE  IF lowest < 0 THEN last < Declared ELSE last - lowest <= Declared
  BY DEF WithinWindow, Reaches
<1> DEFINE w == Slides(job)[k]
           end == BlockEnd(job, k)
           low == Lowest(job, w, k)
<1>1. /\ w \in Windows /\ w.seg_bias = WINDOW_START_INDEX
      /\ w.loaded_dict_end # 0 => job.dict = "copied" /\ end <= job.prefix + window_size
  BY SlidesAttuned DEF Attuned
<1>2. /\ job.start \in Nat /\ job.prefix \in Nat /\ job.len \in Nat
      /\ end \in Nat /\ end <= job.prefix + job.len /\ job.prefix <= end
      /\ window_size \in Nat \ {0} /\ w.low_limit \in Nat
  <2>1. k \in Nat /\ job.start \in Nat /\ job.prefix \in Nat /\ job.len \in Nat
    BY BlockCounts DEF JobType
  <2>2. end \in job.prefix .. job.prefix + job.len
    BY <2>1, BlockEnds
  <2> HIDE DEF end
  <2> QED
    BY <1>1, <2>1, <2>2, Sizes, WindowFields
<1> HIDE DEF w, end
<1>3. last = job.start + end - job.prefix - 1
  BY DEF end
<1>4. lowest = job.start + low - WINDOW_START_INDEX - job.prefix
  BY <1>1 DEF w
<1>5. last \in Int /\ last < accepted
  BY <1>2, <1>3
<1>6. pledged # None => pledged \in Nat /\ last < pledged
  BY <1>5
<1>7. CASE job.dict = "attached" \/ w.loaded_dict_end # 0
  <2>1. low \in Nat
    BY <1>1, <1>2, <1>7 DEF Lowest, WINDOW_START_INDEX
  <2> HIDE DEF low
  <2>2. job.start = 0 /\ last < window_size
    BY <1>1, <1>2, <1>3, <1>7
  <2>3. last < Declared /\ Declared \in Int
    BY <1>2, <1>6, <2>2 DEF Declared, Smaller
  <2>4. lowest \in Int
    BY <1>2, <1>4, <2>1 DEF WINDOW_START_INDEX
  <2> QED
    BY <1>5, <2>3, <2>4
<1>8. CASE job.dict # "attached" /\ w.loaded_dict_end = 0
  <2>1. low = Larger(w.low_limit, end - 1 + w.seg_bias - window_size)
    BY <1>8 DEF Lowest, end
  <2>2. low \in Int /\ low >= end - 1 + WINDOW_START_INDEX - window_size
    BY <1>1, <1>2, <2>1 DEF Larger, WINDOW_START_INDEX
  <2> HIDE DEF low
  <2>3. lowest \in Int /\ last - lowest <= window_size
    BY <1>2, <1>3, <1>4, <2>2 DEF WINDOW_START_INDEX
  <2> QED
    BY <1>2, <1>5, <1>6, <2>3 DEF Declared, Smaller
<1> QED
  BY <1>7, <1>8

\* Division rounds down by less than the divisor.
LEMMA Quotient ==
    ASSUME NEW x \in Nat, NEW s \in Nat \ {0}
    PROVE  x \div s \in Nat /\ (x \div s) * s \in Nat /\ (x \div s) * s > x - s
<1>1. x = s * (x \div s) + (x % s) /\ x % s \in 0 .. s - 1 /\ x \div s \in Nat
  OBVIOUS
<1> DEFINE q == x \div s
           r == x % s
<1>2. x = s * q + r /\ r \in 0 .. s - 1 /\ q \in Nat
  BY <1>1
<1> HIDE DEF q, r
<1>3. s * q = q * s /\ q * s \in Nat
  BY <1>2
<1> QED
  BY <1>2, <1>3 DEF q

\* The last block ends where the section does.
LEMMA LastBlockEnds ==
    ASSUME config \in Configs, NEW job \in JobType
    PROVE  BlockEnd(job, BlockCount(job)) = job.prefix + job.len
<1> DEFINE size == BlockSizeOf(job.pledged)
           n == BlockCount(job)
<1>1. size \in Nat \ {0} /\ job.len \in Nat
  BY BlockSizes DEF JobType
<1>2. n = (job.len + size - 1) \div size
  BY DEF BlockCount
<1>3. BlockEnd(job, n) = job.prefix + Smaller(job.len, n * size)
  BY DEF BlockEnd
<1> HIDE DEF size, n
<1>4. n * size \in Nat /\ n * size >= job.len
  <2> DEFINE x == job.len + size - 1
  <2>1. x \in Nat /\ x - size = job.len - 1
    BY <1>1
  <2> HIDE DEF x
  <2>2. (x \div size) * size \in Nat /\ (x \div size) * size > x - size
    BY <1>1, <2>1, Quotient
  <2>3. n = x \div size
    BY <1>2 DEF x
  <2> QED
    BY <1>1, <2>1, <2>2, <2>3
<1>5. Smaller(job.len, n * size) = job.len
  BY <1>1, <1>4 DEF Smaller
<1> QED
  BY <1>3, <1>5 DEF n

\* Longer than the window with the dictionary attached, a job reaches the dictionary
\* from behind the window.
LEMMA OutgrownReach ==
    ASSUME config \in Configs, pledged = None, NEW job \in JobType, DictFits(job),
           job.start = 0, job.prefix > 0, OutgrowsAttached(job)
    PROVE  ~WithinWindow(job)
<1> DEFINE n == BlockCount(job)
           w == Slides(job)[n]
<1>1. job.dict = "attached" /\ job.len > window_size
  BY DEF OutgrowsAttached
<1>2. /\ job.prefix \in Nat /\ job.len \in Nat /\ window_size \in Nat \ {0}
      /\ Declared = window_size
  BY Sizes DEF JobType, Declared
<1>3. n \in 1 .. n
  <2>1. n \in Nat /\ (n = 0 <=> job.len = 0)
    BY BlockCounts
  <2> HIDE DEF n
  <2> QED
    BY <1>1, <1>2, <2>1
<1>4. w.seg_bias = WINDOW_START_INDEX
  BY <1>3, SlidesAttuned DEF Attuned
<1>5. Lowest(job, w, n) = WINDOW_START_INDEX
  BY <1>1 DEF Lowest
<1>6. BlockEnd(job, n) = job.prefix + job.len
  BY LastBlockEnds
<1> DEFINE reach == [last |-> job.start + BlockEnd(job, n) - job.prefix - 1,
                     lowest |-> job.start + Lowest(job, w, n) - w.seg_bias - job.prefix]
<1>7. reach \in Reaches(job)
  BY <1>3 DEF Reaches
<1>8. reach.last = job.len - 1 /\ reach.lowest = 0 - job.prefix
  <2> HIDE DEF n, w
  <2> QED
    BY <1>2, <1>4, <1>5, <1>6 DEF WINDOW_START_INDEX
<1> HIDE DEF reach
<1> QED
  BY <1>1, <1>2, <1>7, <1>8 DEF WithinWindow

-----------------------------------------------------------------------------
(* Where the jobs of a frame are.                                          *)

LEMMA OneMorePlaced ==
    ASSUME IInv, IInv', Placed, [Next]_vars, NEW job \in JobType,
           jobs' = Append(jobs, job), pledged' = pledged, accepted' >= accepted,
           job.start + job.len <= accepted', job.len <= mt_target_section_size,
           job.dict # "none" => job.start = 0 /\ job.prefix = content_len,
           job.dict = "attached" => pledged = None /\ content_len > 0,
           dict' = "none", pc' # "uninit"
    PROVE  Placed'
<1>1. /\ accepted \in Nat /\ accepted' \in Nat /\ jobs \in Seq(JobType)
      /\ Len(jobs) \in Nat
  BY DEF IInv, TypeOK
<1>2. ASSUME NEW k \in DOMAIN jobs'
      PROVE  /\ jobs'[k].start + jobs'[k].len <= accepted'
             /\ jobs'[k].len <= mt_target_section_size
             /\ jobs'[k].dict # "none" =>
                    jobs'[k].start = 0 /\ jobs'[k].prefix = content_len
             /\ jobs'[k].dict = "attached" => pledged = None /\ content_len > 0
  <2>1. k \in 1 .. Len(jobs) + 1
    BY <1>1
  <2>2. CASE k <= Len(jobs)
    <3>1. jobs'[k] = jobs[k] /\ k \in DOMAIN jobs /\ jobs[k] \in JobType
      BY <1>1, <2>1, <2>2
    <3>2. jobs[k].start \in Nat /\ jobs[k].len \in Nat
      BY <3>1 DEF JobType
    <3> QED
      BY <1>1, <3>1, <3>2 DEF Placed
  <2>3. CASE k = Len(jobs) + 1
    BY <1>1, <2>3
  <2> QED
    BY <1>1, <2>1, <2>2, <2>3
<1>3. mt_target_section_size' = mt_target_section_size /\ content_len' = content_len
  BY SetupKept
<1> QED
  BY <1>2, <1>3 DEF Placed

LEMMA PlacedStep == IInv /\ IInv' /\ Placed /\ [Next]_vars => Placed'
<1> SUFFICES ASSUME IInv, IInv', Placed, [Next]_vars PROVE Placed'
  OBVIOUS
<1>0. /\ accepted \in Nat /\ filled \in Nat /\ left \in Nat /\ config \in Configs
      /\ mt_target_section_size \in Nat \ {0} /\ mt_overlap_size \in Nat
  BY Sizes DEF IInv, TypeOK
<1>1. mt_target_section_size' = mt_target_section_size /\ content_len' = content_len
  BY SetupKept
<1>2. ASSUME UNCHANGED <<jobs, accepted, pledged, first, dict>>,
             pc' \in {"uninit", "ran", "oneshot"} => pc' = pc
      PROVE  Placed'
  BY <1>1, <1>2 DEF Placed
<1>3. CASE UNCHANGED vars
  BY <1>2, <1>3 DEF vars, section, frame
<1>4. ASSUME NEW o \in {"Continue", "Flush", "End"}, NEW n \in Inputs,
             FallsThrough(o, n) \/ RefusesToStart(o, n) \/ Start(o, n) \/ Call(o, n)
      PROVE  Placed'
  <2>1. CASE FallsThrough(o, n) \/ RefusesToStart(o, n) \/ Call(o, n)
    BY <1>2, <2>1 DEF FallsThrough, RefusesToStart, Call, section, frame
  <2>2. CASE Start(o, n)
    <3>1. /\ pc = "uninit" /\ UNCHANGED <<jobs, first>>
          /\ dict' = IF content_len = 0 THEN "none"
                     ELSE IF pledged' = None THEN "attached" ELSE "copied"
          /\ pc' = IF OneShot(o) THEN "oneshot" ELSE IF o = "Flush" THEN "flush"
                   ELSE "fill"
      BY <2>2 DEF Start, frame
    <3>2. jobs = <<>> /\ first
      BY <3>1 DEF Placed, IInv, Pointers
    <3>3. content_len \in Nat
      BY <1>0, MtAssumption DEF content_len, ConfigType
    <3> QED
      BY <1>1, <3>1, <3>2, <3>3 DEF Placed, OneShot
  <2> QED
    BY <1>4, <2>1, <2>2
<1>5. CASE Fill
  <2> DEFINE n == Smaller(mt_target_section_size - filled, left)
  <2>1. n \in Nat /\ accepted' = accepted + n
    BY <1>5, FillType DEF IInv, TypeOK
  <2> HIDE DEF n
  <2>2. /\ UNCHANGED <<jobs, pledged, first, dict>> /\ pc = "fill"
        /\ pc' \in {"run", "fill"}
    BY <1>5 DEF Fill, frame
  <2>3. ASSUME NEW k \in DOMAIN jobs PROVE jobs[k].start + jobs[k].len <= accepted'
    <3>1. jobs[k] \in JobType
      BY DEF IInv, TypeOK
    <3>2. jobs[k].start \in Nat /\ jobs[k].len \in Nat
          /\ jobs[k].start + jobs[k].len <= accepted
      BY <3>1 DEF JobType, Placed
    <3> QED
      BY <1>0, <2>1, <3>2
  <2> QED
    BY <1>1, <2>2, <2>3 DEF Placed
<1>6. CASE PushReturns \/ Flush \/ LastEmptyBlock \/ JobExceeds \/ JobMisses \/ Close
  BY <1>2, <1>6 DEF PushReturns, Flush, LastEmptyBlock, JobExceeds, JobMisses, Close,
     Return, section, frame
<1>7. CASE JobDone
  BY <1>1, <1>7 DEF JobDone, Placed
<1>8. CASE RunJob
  <2>1. /\ jobs' = Append(jobs, Job) /\ UNCHANGED <<pledged, accepted>>
        /\ dict' = "none" /\ pc' = "ran"
    BY <1>8 DEF RunJob
  <2>2. Job \in JobType
    BY <1>8, JobShape DEF IInv, RunJob
  <2>3. /\ Job.start = accepted - filled /\ Job.len = filled /\ Job.dict = dict
        /\ dict # "none" => Job.prefix = content_len
    BY DEF Job
  <2>4. /\ filled <= mt_target_section_size /\ (first => accepted = filled)
        /\ accepted - filled + filled = accepted
    BY <1>0 DEF IInv, Pointers
  <2>5. dict # "none" => accepted - filled = 0
    BY <1>0, <2>4 DEF Placed
  <2> QED
    BY <1>0, <2>1, <2>2, <2>3, <2>4, <2>5, OneMorePlaced DEF Placed
<1>9. CASE RunOneShot
  <2>1. /\ jobs' = Append(jobs, OneShotJob) /\ UNCHANGED <<pledged, dict>>
        /\ accepted' = accepted + OneShotJob.len /\ pc = "oneshot" /\ pc' # "uninit"
    BY <1>9 DEF RunOneShot
  <2>2. OneShotJob \in JobType /\ OneShotJob.len \in 1 .. left
    BY <2>1, OneShotShape DEF IInv
  <2>3. /\ OneShotJob.start = accepted /\ OneShotJob.dict = "none"
        /\ OneShotJob.len <= mt_target_section_size
    BY <1>0 DEF OneShotJob, Smaller
  <2>4. dict' = "none"
    BY <2>1 DEF Placed
  <2> HIDE DEF OneShotJob
  <2> QED
    BY <1>0, <2>1, <2>2, <2>3, <2>4, OneMorePlaced
<1> QED
  BY <1>3, <1>4, <1>5, <1>6, <1>7, <1>8, <1>9 DEF Next, Caller, Jobs

-----------------------------------------------------------------------------
(* The theorems.                                                           *)

\* The indices of the first section and the dictionary before it do not wrap.
DictAddressable ==
    WINDOW_START_INDEX + content_len + mt_target_section_size < IndexMod

LEMMA PlacedReach ==
    ASSUME IInv, Placed, DictAddressable, pledged = None \/ accepted <= pledged,
           NEW k \in DOMAIN jobs
    PROVE  WithinWindow(jobs[k]) <=> ~OutgrowsAttached(jobs[k])
<1>1. jobs[k] \in JobType /\ config \in Configs /\ accepted \in Nat
      /\ pledged \in Nat \cup {None}
  BY DEF IInv, TypeOK
<1>2. /\ jobs[k].start + jobs[k].len <= accepted
      /\ jobs[k].len <= mt_target_section_size
      /\ jobs[k].dict # "none" => jobs[k].start = 0 /\ jobs[k].prefix = content_len
      /\ jobs[k].dict = "attached" => pledged = None /\ content_len > 0
  BY DEF Placed
<1>3. jobs[k].len \in Nat /\ mt_target_section_size \in Nat /\ window_size \in Nat
      /\ content_len \in Nat
  <2>1. content_len \in Nat
    BY <1>1, MtAssumption DEF content_len, ConfigType
  <2> QED
    BY <1>1, <2>1, Sizes DEF JobType
<1>4. DictFits(jobs[k])
  BY <1>2, <1>3, WindowAssumption DEF DictFits, DictAddressable, WINDOW_START_INDEX
<1>5. CASE OutgrowsAttached(jobs[k])
  <2>1. /\ pledged = None /\ jobs[k].start = 0 /\ jobs[k].prefix > 0
    BY <1>2, <1>5 DEF OutgrowsAttached
  <2> QED
    BY <1>1, <1>4, <1>5, <2>1, OutgrownReach
<1>6. CASE ~OutgrowsAttached(jobs[k])
  <2>1. jobs[k].dict = "attached" => pledged = None /\ jobs[k].len <= window_size
    BY <1>2, <1>3, <1>6 DEF OutgrowsAttached
  <2> QED
    BY <1>1, <1>2, <1>4, <1>6, <2>1, JobReach
<1> QED
  BY <1>5, <1>6

LEMMA PlacedInvariant == Spec => []Placed
<1>1. Init => Placed
  BY DEF Init, Placed
<1> QED
  BY <1>1, Invariance, PlacedStep, PTL DEF Spec

\* Whatever the sections, the overlap, the pledge and the dictionary: a job reaches
\* beyond the declared window, or the dictionary from behind it, exactly when the
\* dictionary is attached to a section longer than the window.
THEOREM ReachBounded == Spec /\ DictAddressable => []ReachWithinWindow
<1>1. DictAddressable /\ [Next]_vars => DictAddressable'
  BY SetupKept DEF DictAddressable
<1>2. IInv /\ Placed /\ DictAddressable => ReachWithinWindow
  BY PlacedReach DEF ReachWithinWindow
<1> QED
  BY <1>1, <1>2, Invariance, PlacedInvariant, PTL DEF Spec
=============================================================================
