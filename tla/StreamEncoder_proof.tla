------------------------- MODULE StreamEncoder_proof -------------------------
(***************************************************************************)
(* IInv is an invariant of StreamEncoder for every value of its constants, *)
(* and with it the claims about the frame: nothing is lost, a finished     *)
(* frame is well formed, a flush drains, an error is final, and the        *)
(* encoder implements EncoderContract.  Then what match indices denote: as *)
(* long as the index space has not been recycled, each index that the      *)
(* window calls valid reads the byte of its distance, however the staging  *)
(* buffer wraps, the window slides and a first block is parsed twice; an   *)
(* entry of the match tables denotes the byte inserted; and every staged   *)
(* byte within the window has a valid index.                               *)
(***************************************************************************)
EXTENDS StreamEncoder, Window_proof, SequenceTheorems

-----------------------------------------------------------------------------
(* Sizes.                                                                  *)

LEMMA Sizes ==
    ASSUME NEW s \in Nat \cup {None}, NEW w \in WindowSizes
    PROVE  /\ WindowSizeOf(s, w) \in Nat /\ WindowSizeOf(s, w) >= 1
           /\ BlockSizeOf(s, w) \in Nat /\ BlockSizeOf(s, w) >= 1
           /\ BlockSizeOf(s, w) <= WindowSizeOf(s, w)
           /\ BlockSizeOf(s, w) <= BLOCK_SIZE_MAX
           /\ BuffLenOf(s, w) \in Nat
           /\ BuffLenOf(s, w) = ContentLen + WindowSizeOf(s, w) + BlockSizeOf(s, w)
<1>1. WindowSizeOf(s, w) \in Nat /\ WindowSizeOf(s, w) >= 1
  BY EncoderAssumption DEF WindowSizeOf, Larger, Smaller, None
<1>2. /\ BlockSizeOf(s, w) \in Nat /\ BlockSizeOf(s, w) >= 1
      /\ BlockSizeOf(s, w) <= WindowSizeOf(s, w)
      /\ BlockSizeOf(s, w) <= BLOCK_SIZE_MAX
  BY <1>1, EncoderAssumption DEF BlockSizeOf, Smaller
<1> QED
  BY <1>1, <1>2, EncoderAssumption DEF BuffLenOf

LEMMA CurrentSizes ==
    ASSUME TypeOK
    PROVE  /\ block_size \in Nat /\ block_size >= 1 /\ block_size <= BLOCK_SIZE_MAX
           /\ BuffLen \in Nat /\ ContentLen + block_size < BuffLen
<1>1. pledged \in Nat \cup {None} /\ max_dist \in WindowSizes /\ ContentLen \in Nat
  BY EncoderAssumption DEF TypeOK
<1> QED
  BY <1>1, Sizes DEF block_size, BuffLen

LEMMA Loaded ==
    ASSUME TypeOK, Pointers, pc = "load"
    PROVE  /\ loaded \in Nat /\ loaded <= left
           /\ in_buff_pos + loaded <= in_buff_target
BY DEF TypeOK, Pointers, loaded, Smaller

LEMMA BlockSize ==
    ASSUME TypeOK, Pointers, NEW n \in 1 .. BLOCK_SIZE_MAX, CompressBlock(n)
    PROVE  /\ n \in Nat /\ n >= 1 /\ n <= chunk_end - pos
           /\ pos \in Nat /\ chunk_end \in Nat
<1>1. /\ pos \in Nat /\ chunk_end \in Nat
      /\ chunk_end - pos \in Nat /\ chunk_end - pos >= 1
  BY DEF TypeOK, CompressBlock, chunk_end
<1>2. n \in BlockSizes
  BY DEF CompressBlock
<1>3. CASE n = Smaller(remaining, block_size)
  <2>1. block_size \in Nat /\ block_size >= 1
    BY CurrentSizes
  <2>2. remaining = chunk_end - pos
    BY DEF remaining
  <2> QED
    BY <1>1, <1>3, <2>1, <2>2 DEF Smaller
<1>4. CASE /\ ~(remaining < BLOCK_SIZE_MAX)
           /\ n \in {BLOCK_SIZE_MAX} \cup SplitSizes
  BY <1>1, <1>4, EncoderAssumption DEF remaining
<1> QED
  BY <1>1, <1>2, <1>3, <1>4 DEF BlockSizes, TypeOK, chunk_end

-----------------------------------------------------------------------------
(* Type correctness.                                                       *)

LEMMA TypeInit == Init => TypeOK
<1> SUFFICES ASSUME Init PROVE TypeOK
  OBVIOUS
<1>1. window \in Windows
  BY IndexIsNat DEF Init, NewWindow, Windows
<1>2. emitted \in Seq(Int) /\ items \in Seq({"header", "block", "last", "checksum"})
  BY DEF Init
<1>3. table \subseteq Nat \X Int /\ next_to_update \in Nat
  BY DEF Init, WINDOW_START_INDEX
<1>4. pledged \in Nat \cup {None} /\ max_dist \in WindowSizes
  BY EncoderAssumption DEF Init
<1> QED
  BY <1>1, <1>2, <1>3, <1>4 DEF Init, TypeOK

LEMMA LoadType ==
    ASSUME TypeOK, Pointers, pc = "load", load
    PROVE  /\ in_buff' \in [Slots -> Int] /\ in_buff_pos' \in Nat
           /\ accepted' \in Nat
<1>1. loaded \in Nat
  BY Loaded
<1>2. in_buff \in [Slots -> Int] /\ accepted \in Nat /\ in_buff_pos \in Nat
  BY DEF TypeOK
<1>3. Slots \subseteq Int
  BY CurrentSizes DEF Slots
<1> QED
  BY <1>1, <1>2, <1>3 DEF load

LEMMA BlockWindowType ==
    ASSUME TypeOK, Pointers, NEW n \in Nat
    PROVE  /\ WindowAtBlock(n) \in Windows
           /\ CorrectedBy(n) \in Nat
           /\ ResumeAt(n) \in Nat
           /\ ReducedTable(n) \subseteq Nat \X Int
<1>1. /\ window \in Windows /\ pos \in Nat /\ max_dist \in Nat
      /\ next_to_update \in Nat /\ table \subseteq Nat \X Int
  BY EncoderAssumption DEF TypeOK
<1>2. CorrectedBy(n) \in Nat
  BY <1>1, CorrectionType DEF CorrectedBy
<1>3. WindowAtBlock(n) \in Windows
  <2> DEFINE w == IF needs_overflow_correction(window, pos + n)
                  THEN correct_overflow(window, CorrectedBy(n)) ELSE window
             v == check_dict_validity(w, W32(pos + n + w.seg_bias), max_dist)
  <2>1. w \in Windows
    BY <1>1, <1>2, CorrectType
  <2> HIDE DEF w
  <2>2. v \in Windows
    BY <2>1, ValidityType
  <2> HIDE DEF v
  <2>3. W32(pos + w.seg_bias) \in Nat
    BY <1>1, <2>1, WindowFields, W32Index
  <2>4. enforce_max_dist(v, W32(pos + w.seg_bias), max_dist) \in Windows
    BY <1>1, <2>2, <2>3, EnforceType
  <2> QED
    BY <2>4 DEF WindowAtBlock, v, w
<1>4. ResumeAt(n) \in Nat
  <2>1. WindowAtBlock(n).low_limit \in Nat
    BY <1>3, WindowFields
  <2> QED
    BY <1>1, <1>2, <2>1 DEF ResumeAt, Larger
<1>5. ReducedTable(n) \subseteq Nat \X Int
  <2>1. ASSUME NEW e \in table
        PROVE  /\ reduce_index(e[1], CorrectedBy(n)) \in Nat
               /\ e[2] \in Int
    <3>1. e[1] \in Nat /\ e[2] \in Int
      BY <1>1
    <3>2. e[1] - CorrectedBy(n) \in Int
      BY <3>1, <1>2
    <3> QED
      BY <3>1, <3>2, W32Index DEF reduce_index
  <2> QED
    BY <1>1, <2>1 DEF ReducedTable
<1> QED
  BY <1>2, <1>3, <1>4, <1>5

LEMMA InsertType ==
    ASSUME TypeOK, NEW w \in Windows, NEW from \in Nat, NEW n \in Nat
    PROVE  /\ InsertTo(w, from, n) \in Nat
           /\ Inserted(w, from, n) \subseteq Nat \X Int
<1>1. pos \in Nat /\ w.seg_bias \in Nat /\ InsertLag \in Nat
  BY WindowFields, EncoderAssumption DEF TypeOK
<1>2. InsertFrom(w, from) \in Nat
  BY <1>1, EncoderAssumption DEF InsertFrom, limit_update, Smaller
<1>3. InsertTo(w, from, n) \in Nat
  BY <1>1, <1>2 DEF InsertTo, Larger
<1>4. ASSUME NEW p PROVE ReadAt(p) \in Int
  BY EncoderAssumption DEF TypeOK, ReadAt, Blank
<1>5. InsertFrom(w, from) .. InsertTo(w, from, n) - 1 \subseteq Nat
  BY <1>2, <1>3
<1> QED
  BY <1>3, <1>4, <1>5 DEF Inserted

LEMMA ParamsKept ==
    ASSUME UNCHANGED params
    PROVE  block_size' = block_size /\ BuffLen' = BuffLen /\ Slots' = Slots
BY DEF params, block_size, BuffLen, Slots

LEMMA InitialBuffer ==
    ASSUME NEW s \in Nat \cup {None}, NEW w \in WindowSizes
    PROVE  [p \in 0 .. BuffLenOf(s, w) - 1 |->
               IF p < ContentLen THEN p - ContentLen ELSE Blank]
           \in [0 .. BuffLenOf(s, w) - 1 -> Int]
BY Sizes, EncoderAssumption DEF Blank

LEMMA FirstCallType ==
    ASSUME TypeOK, NEW o \in {"Continue", "Flush", "End"}, NEW k \in Inputs,
           FirstCall(o, k)
    PROVE  TypeOK'
<1>0. PICK requested \in Pledges : init(o, k, requested)
  BY DEF FirstCall
<1> DEFINE size == IF o = "End" THEN k ELSE requested
<1>1. k \in Nat /\ size \in Nat \cup {None} /\ ContentLen \in Nat
  BY EncoderAssumption
<1>2. pledged' = size /\ max_dist' \in WindowSizes
  BY <1>0 DEF init
<1> HIDE DEF size
<1>3. /\ BlockSizeOf(size, max_dist') \in Nat
      /\ one_block_pledge(size, BlockSizeOf(size, max_dist')) \in Nat
  BY <1>1, <1>2, Sizes DEF one_block_pledge
<1>4. in_buff' \in [Slots' -> Int]
  <2>1. in_buff' = [p \in 0 .. BuffLenOf(size, max_dist') - 1 |->
                      IF p < ContentLen THEN p - ContentLen ELSE Blank]
    BY <1>0 DEF init, size
  <2>2. Slots' = 0 .. BuffLenOf(size, max_dist') - 1
    BY <1>2 DEF Slots, BuffLen
  <2> QED
    BY <1>1, <1>2, <2>1, <2>2, InitialBuffer
<1>5. /\ in_to_compress' \in Nat /\ in_buff_pos' \in Nat
      /\ in_buff_target' \in Nat
  BY <1>0, <1>1, <1>2, <1>3 DEF init, size
<1>6. window' \in Windows
  BY <1>0, <1>1, NewWindowType DEF init
<1>7. next_to_update' \in Nat
  BY <1>0, <1>1, W32Index DEF init, WINDOW_START_INDEX
<1>8. /\ op' \in {"Continue", "Flush", "End"} /\ left' \in Nat /\ pc' = "load"
  BY <1>1 DEF FirstCall, Begin
<1>9. UNCHANGED <<table, seeded, frame, pos, accepted, failed>>
  BY <1>0 DEF FirstCall, init, Begin
<1> QED
  BY <1>1, <1>2, <1>4, <1>5, <1>6, <1>7, <1>8, <1>9 DEF TypeOK, frame

LEMMA CallType ==
    ASSUME TypeOK, NEW o \in {"Continue", "Flush", "End"}, NEW k \in Inputs,
           FirstCallRejected(o, k) \/ Call(o, k)
    PROVE  TypeOK'
<1>1. k \in Nat
  BY EncoderAssumption
<1>2. CASE FirstCallRejected(o, k)
  <2>1. UNCHANGED params /\ Slots' = Slots
    BY <1>2, ParamsKept DEF FirstCallRejected
  <2> QED
    BY <1>2, <2>1
    DEF FirstCallRejected, TypeOK, params, staging, matching, frame
<1>3. CASE Call(o, k)
  <2>1. UNCHANGED params /\ Slots' = Slots
    BY <1>3, ParamsKept DEF Call
  <2> QED
    BY <1>1, <1>3, <2>1 DEF Call, Begin, TypeOK, params, staging, matching, frame
<1> QED
  BY <1>2, <1>3

LEMMA LoadingType ==
    ASSUME TypeOK, Pointers, LoadAndReturn \/ LoadAndOverflow \/ LoadAndCompress
    PROVE  TypeOK'
<1>1. pc = "load" /\ load /\ UNCHANGED params /\ Slots' = Slots
  BY ParamsKept DEF LoadAndReturn, LoadAndOverflow, LoadAndCompress, load
<1>2. /\ in_buff' \in [Slots' -> Int] /\ in_buff_pos' \in Nat /\ accepted' \in Nat
      /\ in_to_compress' \in Nat /\ in_buff_target' \in Nat
  BY <1>1, LoadType DEF TypeOK, load
<1>3. CASE LoadAndReturn \/ LoadAndOverflow
  <2>1. PICK error \in BOOLEAN : Return(error)
    BY <1>3 DEF LoadAndReturn, LoadAndOverflow
  <2>2. /\ pc' \in {"idle", "consumed"} /\ left' \in Nat
        /\ op' \in {"Continue", "Flush", "End"} /\ pos' \in Nat
    BY <2>1 DEF Return, TypeOK
  <2>3. failed' \in BOOLEAN
    BY <2>1 DEF Return, TypeOK
  <2>4. UNCHANGED <<matching, frame>>
    BY <1>3 DEF LoadAndReturn, LoadAndOverflow
  <2> QED
    BY <1>1, <1>2, <2>2, <2>3, <2>4 DEF TypeOK, params, matching, frame
<1>4. CASE LoadAndCompress
  <2>1. left' \in Nat
    BY <1>1, <1>4, Loaded DEF LoadAndCompress, TypeOK
  <2>2. window' \in Windows
    BY <1>2, <1>4, UpdateType DEF LoadAndCompress, TypeOK
  <2>3. next_to_update' \in Nat
    <3>1. window'.dict_limit \in Nat
      BY <2>2, WindowFields
    <3> QED
      BY <1>4, <3>1 DEF LoadAndCompress, TypeOK
  <2>4. items' \in Seq({"header", "block", "last", "checksum"})
    BY <1>4 DEF LoadAndCompress, TypeOK
  <2>5. /\ stage' \in {"Init", "Ongoing", "Ending"} /\ pos' \in Nat
        /\ pc' = "blocks"
    BY <1>4 DEF LoadAndCompress, TypeOK
  <2>6. UNCHANGED <<table, seeded, consumed, emitted, frame_ended, op, failed>>
    BY <1>4 DEF LoadAndCompress
  <2> QED
    BY <1>1, <1>2, <2>1, <2>2, <2>3, <2>4, <2>5, <2>6 DEF TypeOK, params
<1> QED
  BY <1>3, <1>4

LEMMA CompressType ==
    ASSUME TypeOK, Pointers, NEW n \in 1 .. BLOCK_SIZE_MAX, CompressBlock(n)
    PROVE  TypeOK'
<1>1. n \in Nat /\ pos' \in Nat
  BY BlockSize DEF CompressBlock
<1> DEFINE w == WindowAtBlock(n)
           slid == slide_for_init_stats(w, n)
<1>2. /\ w \in Windows /\ slid \in Windows /\ slid.dict_limit \in Nat
      /\ ResumeAt(n) \in Nat /\ ReducedTable(n) \subseteq Nat \X Int
  BY <1>1, BlockWindowType, SlideType, WindowFields
<1>3. /\ window' \in Windows /\ next_to_update' \in Nat
      /\ table' \subseteq Nat \X Int
  <2>1. CASE ~Searched(n)
    BY <1>2, <2>1 DEF CompressBlock, Skip
  <2>2. CASE Searched(n)
    <3>1. /\ InsertTo(w, ResumeAt(n), n) \in Nat
          /\ Inserted(w, ResumeAt(n), n) \subseteq Nat \X Int
          /\ InsertTo(slid, slid.dict_limit, n) \in Nat
          /\ Inserted(slid, slid.dict_limit, n) \subseteq Nat \X Int
      <4> HIDE DEF w, slid
      <4> QED
        BY <1>1, <1>2, InsertType
    <3> QED
      BY <1>2, <2>2, <3>1 DEF CompressBlock, Search
  <2> QED
    BY <2>1, <2>2
<1> HIDE DEF w, slid
<1>4. emitted' \in Seq(Int)
  <2>1. ASSUME NEW p PROVE ReadAt(p) \in Int
    BY EncoderAssumption DEF TypeOK, ReadAt, Blank
  <2>2. [k \in 1 .. n |-> ReadAt(pos + k - 1)] \in Seq(Int)
    BY <1>1, <2>1
  <2> QED
    BY <2>2 DEF CompressBlock, TypeOK
<1>5. items' \in Seq({"header", "block", "last", "checksum"})
  BY DEF CompressBlock, TypeOK
<1>6. seeded' \in BOOLEAN
  BY DEF CompressBlock, TypeOK, Searched
<1>7. UNCHANGED <<params, staging, stage, consumed, frame_ended, pc, op, left,
                  accepted, failed>>
  BY DEF CompressBlock
<1>8. Slots' = Slots
  BY <1>7, ParamsKept
<1> QED
  BY <1>1, <1>3, <1>4, <1>5, <1>6, <1>7, <1>8 DEF TypeOK, params, staging

LEMMA ConcatType ==
    ASSUME NEW S, NEW s \in Seq(S), NEW t \in Seq(S)
    PROVE  s \o t \in Seq(S)
BY ConcatProperties

LEMMA EpilogueType == epilogue \in Seq({"header", "block", "last", "checksum"})
<1> DEFINE Items == {"header", "block", "last", "checksum"}
           head == IF stageAfter # "Ending" THEN <<"last">> ELSE <<>>
<1>1. /\ <<>> \in Seq(Items) /\ <<"last">> \in Seq(Items)
      /\ <<"checksum">> \in Seq(Items)
  OBVIOUS
<1>2. head \in Seq(Items)
  BY <1>1
<1>3. head \o <<"checksum">> \in Seq(Items)
  <2> HIDE DEF head, Items
  <2> QED
    BY <1>1, <1>2, ConcatType
<1> QED
  BY <1>1, <1>3 DEF epilogue

LEMMA FinishType ==
    ASSUME TypeOK, Pointers, FinishChunkExceeded \/ FinishChunkMissed \/ FinishChunk
    PROVE  TypeOK'
<1>1. /\ UNCHANGED <<params, in_buff, matching, emitted, accepted>>
      /\ pc = "blocks" /\ Slots' = Slots
  BY ParamsKept
  DEF FinishChunkExceeded, FinishChunkMissed, FinishChunk, staging, ChunkDone
<1>2. consumed' \in Nat
  <2>1. consumed' = consumed + (in_buff_pos - in_to_compress)
    BY DEF FinishChunkExceeded, FinishChunkMissed, FinishChunk, consumedNow,
           chunk_end
  <2>2. in_buff_pos - in_to_compress \in Nat /\ consumed \in Nat
    BY <1>1 DEF TypeOK, Pointers, From
  <2> QED
    BY <2>1, <2>2
<1>3. stage' \in {"Init", "Ongoing", "Ending"}
  BY DEF FinishChunkExceeded, FinishChunkMissed, FinishChunk, stageAfter, TypeOK
<1>4. items' \in Seq({"header", "block", "last", "checksum"})
  <2>1. items' = items \/ items' = items \o epilogue
    BY DEF FinishChunkExceeded, FinishChunkMissed, FinishChunk
  <2> QED
    BY <2>1, EpilogueType, ConcatType DEF TypeOK
<1>5. /\ in_to_compress' \in Nat /\ in_buff_pos' \in Nat
      /\ in_buff_target' \in Nat
  <2>1. block_size \in Nat
    BY CurrentSizes
  <2>2. CASE UNCHANGED staging
    BY <2>2 DEF TypeOK, staging
  <2>3. CASE FinishChunk
    <3>1. in_buff_pos' \in Nat /\ in_to_compress' = in_buff_pos'
      BY <2>3 DEF FinishChunk, TypeOK
    <3> QED
      BY <2>1, <2>3, <3>1 DEF FinishChunk
  <2> QED
    BY <2>2, <2>3 DEF FinishChunkExceeded, FinishChunkMissed
<1>6. /\ frame_ended' \in BOOLEAN /\ failed' \in BOOLEAN
      /\ pc' \in {"load", "idle", "consumed"}
      /\ op' \in {"Continue", "Flush", "End"} /\ left' \in Nat /\ pos' \in Nat
  <2>1. /\ frame_ended \in BOOLEAN /\ failed \in BOOLEAN /\ left \in Nat
        /\ pos \in Nat /\ op \in {"Continue", "Flush", "End"}
    BY DEF TypeOK
  <2>2. CASE Return(TRUE) /\ UNCHANGED frame_ended
    BY <2>1, <2>2 DEF Return
  <2>3. CASE FinishChunk
    BY <2>1, <2>3 DEF FinishChunk, Return, last_frame_chunk
  <2> QED
    BY <2>2, <2>3 DEF FinishChunkExceeded, FinishChunkMissed
<1> QED
  BY <1>1, <1>2, <1>3, <1>4, <1>5, <1>6 DEF TypeOK, params, matching

LEMMA TypeStep == TypeOK /\ Pointers /\ [Next]_vars => TypeOK'
<1> SUFFICES ASSUME TypeOK, Pointers, [Next]_vars PROVE TypeOK'
  OBVIOUS
<1>1. CASE UNCHANGED vars
  <2>1. UNCHANGED params /\ Slots' = Slots
    BY <1>1, ParamsKept DEF vars
  <2> QED
    BY <1>1, <2>1 DEF vars, params, staging, matching, frame, TypeOK
<1>2. CASE LoadAndReturn \/ LoadAndOverflow \/ LoadAndCompress
  BY <1>2, LoadingType
<1>3. ASSUME NEW n \in 1 .. BLOCK_SIZE_MAX, CompressBlock(n) PROVE TypeOK'
  BY <1>3, CompressType
<1>4. CASE FinishChunkExceeded \/ FinishChunkMissed \/ FinishChunk
  BY <1>4, FinishType
<1>5. ASSUME NEW o \in {"Continue", "Flush", "End"}, NEW k \in Inputs,
             FirstCall(o, k) \/ FirstCallRejected(o, k) \/ Call(o, k)
      PROVE  TypeOK'
  BY <1>5, FirstCallType, CallType
<1> QED
  BY <1>1, <1>2, <1>3, <1>4, <1>5 DEF Next, Loop, Caller

\* The two groups of steps most of the proofs below split on.
Loading == LoadAndReturn \/ LoadAndOverflow \/ LoadAndCompress
Failing == FinishChunkExceeded \/ FinishChunkMissed

-----------------------------------------------------------------------------
(* Pointers.                                                               *)

LEMMA FirstCallPointers ==
    ASSUME TypeOK, NEW o \in {"Continue", "Flush", "End"}, NEW k \in Inputs,
           FirstCall(o, k)
    PROVE  /\ Pointers'
           /\ pc' = "load"
           /\ in_to_compress' = in_buff_pos'
<1>0. PICK requested \in Pledges : init(o, k, requested)
  BY DEF FirstCall
<1> DEFINE size == IF o = "End" THEN k ELSE requested
<1>1. size \in Nat \cup {None} /\ ContentLen \in Nat
  BY EncoderAssumption
<1>2. /\ pledged' = size /\ max_dist' \in WindowSizes /\ pc' = "load"
      /\ in_to_compress' = ContentLen /\ in_buff_pos' = ContentLen
      /\ in_buff_target' = ContentLen + BlockSizeOf(size, max_dist')
                             + one_block_pledge(size, BlockSizeOf(size, max_dist'))
  BY <1>0 DEF FirstCall, init, Begin
<1> HIDE DEF size
<1>3. one_block_pledge(size, BlockSizeOf(size, max_dist')) \in {0, 1}
  BY DEF one_block_pledge
<1>4. BuffLen' = BuffLenOf(size, max_dist')
  BY <1>2 DEF BuffLen
<1>5. in_buff_pos' <= in_buff_target' /\ in_buff_target' <= BuffLen'
  BY <1>1, <1>2, <1>3, <1>4, Sizes
<1> QED
  BY <1>1, <1>2, <1>5 DEF Pointers, From

LEMMA LoadPointers ==
    ASSUME TypeOK, Pointers, Loading
    PROVE  /\ Pointers'
           /\ pc' = "blocks" => pos' = in_to_compress
<1>1. pc = "load" /\ load /\ BuffLen' = BuffLen
  BY ParamsKept DEF Loading, LoadAndReturn, LoadAndOverflow, LoadAndCompress, load
<1>2. /\ loaded \in Nat /\ in_buff_pos + loaded <= in_buff_target
      /\ in_buff_pos' = in_buff_pos + loaded
      /\ UNCHANGED <<in_to_compress, in_buff_target>>
  BY <1>1, Loaded DEF load
<1>3. /\ in_to_compress <= in_buff_pos /\ in_buff_target <= BuffLen
      /\ in_to_compress \in Nat /\ in_buff_pos \in Nat
  BY <1>1 DEF Pointers, From, TypeOK
<1>4. /\ pc' \in {"idle", "consumed", "blocks"}
      /\ pc' = "blocks" => pos' = in_to_compress
      /\ pc' = "consumed" => failed'
  BY DEF Loading, LoadAndReturn, LoadAndOverflow, LoadAndCompress, Return, Satisfied
<1> QED
  BY <1>1, <1>2, <1>3, <1>4 DEF Pointers, From

LEMMA CompressPointers ==
    ASSUME TypeOK, Pointers, NEW n \in 1 .. BLOCK_SIZE_MAX, CompressBlock(n)
    PROVE  Pointers'
<1>1. n \in Nat /\ n <= in_buff_pos - pos /\ pos \in Nat
  BY BlockSize DEF chunk_end
<1>2. pc = "blocks" /\ pc' = "blocks" /\ pos' = pos + n /\ UNCHANGED staging
  BY DEF CompressBlock
<1>3. BuffLen' = BuffLen
  BY ParamsKept DEF CompressBlock
<1> QED
  BY <1>1, <1>2, <1>3 DEF Pointers, From, staging, TypeOK

LEMMA FinishPointers ==
    ASSUME TypeOK, Pointers, FinishChunkExceeded \/ FinishChunkMissed \/ FinishChunk
    PROVE  Pointers'
<1>1. pc = "blocks" /\ BuffLen' = BuffLen
  BY ParamsKept DEF FinishChunkExceeded, FinishChunkMissed, FinishChunk, ChunkDone
<1>2. CASE FinishChunkExceeded \/ FinishChunkMissed
  <2>1. /\ UNCHANGED <<in_to_compress, in_buff_pos, in_buff_target>>
        /\ pc' \in {"idle", "consumed"} /\ failed'
    BY <1>2 DEF FinishChunkExceeded, FinishChunkMissed, Return, staging
  <2>2. /\ in_to_compress \in Nat /\ in_buff_pos \in Nat /\ pos \in Nat
        /\ in_to_compress <= in_buff_pos
    BY <1>1 DEF TypeOK, Pointers, From
  <2> QED
    BY <1>1, <2>1, <2>2 DEF Pointers, From
<1>3. CASE FinishChunk
  <2>1. /\ in_buff_pos' = IF Wraps THEN 0 ELSE in_buff_pos
        /\ in_buff_target' = in_buff_pos' + block_size
        /\ in_to_compress' = in_buff_pos'
        /\ pc' \in {"load", "idle", "consumed"}
    BY <1>3 DEF FinishChunk, Return
  <2>2. /\ block_size \in Nat /\ BuffLen \in Nat /\ block_size < BuffLen
        /\ in_buff_pos \in Nat
    BY CurrentSizes, EncoderAssumption DEF TypeOK
  <2> QED
    BY <1>1, <2>1, <2>2 DEF Pointers, From, Wraps
<1> QED
  BY <1>2, <1>3

LEMMA PointersStep == TypeOK /\ Pointers /\ [Next]_vars => Pointers'
<1> SUFFICES ASSUME TypeOK, Pointers, [Next]_vars PROVE Pointers'
  OBVIOUS
<1>1. CASE UNCHANGED vars
  BY <1>1 DEF vars, params, staging, Pointers, From, BuffLen
<1>2. CASE Loading
  BY <1>2, LoadPointers
<1>3. ASSUME NEW n \in 1 .. BLOCK_SIZE_MAX, CompressBlock(n) PROVE Pointers'
  BY <1>3, CompressPointers
<1>4. CASE FinishChunkExceeded \/ FinishChunkMissed \/ FinishChunk
  BY <1>4, FinishPointers
<1>5. ASSUME NEW o \in {"Continue", "Flush", "End"}, NEW k \in Inputs,
             FirstCall(o, k) \/ FirstCallRejected(o, k) \/ Call(o, k)
      PROVE  Pointers'
  <2>1. CASE FirstCall(o, k)
    BY <2>1, FirstCallPointers
  <2>2. CASE FirstCallRejected(o, k)
    <3>1. /\ pc = "uninit" /\ pc' \in {"uninit", "consumed"} /\ failed'
          /\ UNCHANGED <<in_to_compress, in_buff_pos>>
      BY <2>2 DEF FirstCallRejected, staging
    <3> QED
      BY <3>1 DEF Pointers, From
  <2>3. CASE Call(o, k)
    BY <2>3 DEF Call, Begin, Pointers, From, staging, params, BuffLen
  <2> QED
    BY <1>5, <2>1, <2>2, <2>3
<1> QED
  BY <1>1, <1>2, <1>3, <1>4, <1>5 DEF Next, Loop, Loading, Caller

-----------------------------------------------------------------------------
(* Accounting: what is written and staged is what was taken.               *)

LEMMA NothingBetween == ASSUME NEW a \in Nat PROVE a .. a - 1 = {}
OBVIOUS

LEMMA LoadAccounting ==
    ASSUME TypeOK, Pointers, Accounting, Loading
    PROVE  Accounting'
<1> SUFFICES ASSUME ~failed' PROVE Accounting'
  BY DEF Accounting
<1>1. /\ pc = "load" /\ load /\ ~failed
      /\ UNCHANGED <<emitted, consumed, in_to_compress>>
  BY DEF Loading, LoadAndReturn, LoadAndOverflow, LoadAndCompress, Return, load,
         matching, frame, TypeOK
<1>2. /\ loaded \in Nat /\ in_buff_pos + loaded <= BuffLen
      /\ in_buff_pos' = in_buff_pos + loaded /\ accepted' = accepted + loaded
      /\ in_to_compress \in Nat /\ in_buff_pos \in Nat /\ BuffLen \in Nat
      /\ in_to_compress <= in_buff_pos /\ accepted \in Nat
  BY <1>1, Loaded, CurrentSizes DEF load, Pointers, From, TypeOK
<1>3. From = in_to_compress /\ From' = in_to_compress
  BY <1>1, LoadPointers DEF From
<1>4. /\ Len(emitted) \in Nat /\ consumed \in Nat
      /\ Len(emitted) + (in_buff_pos - in_to_compress) = accepted
      /\ consumed = Len(emitted) - (in_to_compress - in_to_compress)
  BY <1>1, <1>3 DEF Accounting, TypeOK
<1>5. ASSUME NEW p \in in_to_compress .. in_buff_pos' - 1
      PROVE  in_buff'[p] = Len(emitted) + (p - in_to_compress)
  <2>1. in_buff \in [Slots -> Int] /\ p \in Slots
    BY <1>1, <1>2 DEF TypeOK, Slots
  <2>2. in_buff'[p] = IF p \in in_buff_pos .. in_buff_pos + loaded - 1
                      THEN accepted + (p - in_buff_pos) ELSE in_buff[p]
    BY <1>1, <2>1 DEF load
  <2>3. CASE p < in_buff_pos
    BY <1>1, <1>2, <1>3, <2>2, <2>3 DEF Accounting
  <2>4. CASE p >= in_buff_pos
    BY <1>2, <1>4, <2>2, <2>4
  <2> QED
    BY <1>2, <2>3, <2>4
<1>6. \A j \in 1 .. Len(emitted') : emitted'[j] = j - 1
  BY <1>1 DEF Accounting
<1>7. Len(emitted') + (in_buff_pos' - From') = accepted'
  BY <1>1, <1>2, <1>3, <1>4
<1>8. consumed' = Len(emitted') - (From' - in_to_compress')
  BY <1>1, <1>3, <1>4
<1> QED
  BY <1>1, <1>3, <1>5, <1>6, <1>7, <1>8 DEF Accounting

LEMMA CompressAccounting ==
    ASSUME TypeOK, Pointers, Accounting,
           NEW n \in 1 .. BLOCK_SIZE_MAX, CompressBlock(n)
    PROVE  Accounting' /\ (~failed => Len(emitted') = Len(emitted) + n)
<1> SUFFICES ASSUME ~failed
             PROVE  Accounting' /\ Len(emitted') = Len(emitted) + n
  BY DEF CompressBlock, Accounting
<1>1. /\ n \in Nat /\ n <= in_buff_pos - pos /\ pos \in Nat
      /\ in_buff_pos \in Nat /\ in_to_compress \in Nat
  BY BlockSize DEF chunk_end, TypeOK
<1>2. /\ pc = "blocks" /\ pc' = "blocks" /\ pos' = pos + n
      /\ UNCHANGED <<staging, consumed, accepted, failed>>
  BY DEF CompressBlock
<1>3. From = pos /\ From' = pos + n /\ UNCHANGED <<in_buff, in_buff_pos, in_to_compress>>
  BY <1>2 DEF From, staging
<1> DEFINE block == [j \in 1 .. n |-> ReadAt(pos + j - 1)]
<1>4. emitted' = emitted \o block /\ emitted \in Seq(Int)
  BY DEF CompressBlock, TypeOK
<1>5. block \in Seq(Int) /\ Len(block) = n
  BY <1>1, EncoderAssumption DEF TypeOK, ReadAt, Blank
<1>6. ASSUME NEW j \in 1 .. n PROVE block[j] = Len(emitted) + (j - 1)
  <2>1. in_buff \in [Slots -> Int] /\ pos + j - 1 \in Slots
    BY <1>1, <1>2, CurrentSizes DEF TypeOK, Slots, Pointers, From
  <2>2. block[j] = in_buff[pos + j - 1]
    BY <2>1 DEF ReadAt
  <2>3. pos + j - 1 \in pos .. in_buff_pos - 1
    BY <1>1
  <2>4. in_buff[pos + j - 1] = Len(emitted) + ((pos + j - 1) - pos)
    BY <1>3, <2>3 DEF Accounting
  <2> QED
    BY <1>1, <1>4, <2>2, <2>4
<1> HIDE DEF block
<1>7. /\ Len(emitted) \in Nat /\ Len(emitted') = Len(emitted) + n
      /\ \A j \in 1 .. Len(emitted) + n :
             emitted'[j] = IF j <= Len(emitted) THEN emitted[j]
                           ELSE block[j - Len(emitted)]
  BY <1>4, <1>5, ConcatProperties
<1>8. ASSUME NEW j \in 1 .. Len(emitted') PROVE emitted'[j] = j - 1
  <2>1. CASE j <= Len(emitted)
    BY <1>1, <1>7, <2>1 DEF Accounting
  <2>2. CASE j > Len(emitted)
    <3>1. j - Len(emitted) \in 1 .. n
      BY <1>1, <1>7, <2>2
    <3> QED
      BY <1>1, <1>6, <1>7, <2>2, <3>1
  <2> QED
    BY <1>7, <2>1, <2>2
<1>9. ASSUME NEW p \in pos + n .. in_buff_pos - 1
      PROVE  in_buff[p] = Len(emitted') + (p - (pos + n))
  BY <1>1, <1>3, <1>7 DEF Accounting
<1>10. /\ Len(emitted') + (in_buff_pos - (pos + n)) = accepted
       /\ consumed = Len(emitted') - ((pos + n) - in_to_compress)
  <2>1. /\ Len(emitted) + (in_buff_pos - pos) = accepted
        /\ consumed = Len(emitted) - (pos - in_to_compress)
    BY <1>3 DEF Accounting
  <2>2. accepted \in Nat /\ consumed \in Nat
    BY DEF TypeOK
  <2> QED
    BY <1>1, <1>7, <2>1, <2>2
<1>11. \A p \in From' .. in_buff_pos' - 1 :
           in_buff'[p] = Len(emitted') + (p - From')
  BY <1>3, <1>9
<1>12. /\ Len(emitted') + (in_buff_pos' - From') = accepted'
       /\ consumed' = Len(emitted') - (From' - in_to_compress')
  BY <1>2, <1>3, <1>10
<1> QED
  BY <1>7, <1>8, <1>11, <1>12 DEF Accounting

LEMMA FinishAccounting ==
    ASSUME TypeOK, Pointers, Accounting, FinishChunk
    PROVE  /\ Accounting'
           /\ ~failed => consumedNow = Len(emitted) /\ Len(emitted) = accepted
<1> SUFFICES ASSUME ~failed
             PROVE  /\ Accounting'
                    /\ consumedNow = Len(emitted) /\ Len(emitted) = accepted
  BY DEF FinishChunk, Accounting, Return, TypeOK
<1>1. /\ pc = "blocks" /\ pos = in_buff_pos /\ UNCHANGED <<emitted, accepted>>
      /\ in_to_compress' = in_buff_pos' /\ consumed' = consumedNow
      /\ pc' \in {"load", "idle", "consumed"}
  BY DEF FinishChunk, ChunkDone, chunk_end, Return
<1>2. /\ in_buff_pos \in Nat /\ in_to_compress \in Nat /\ Len(emitted) \in Nat
      /\ consumed \in Nat /\ in_buff_pos' \in Nat
  BY DEF TypeOK, FinishChunk
<1>3. /\ Len(emitted) + (in_buff_pos - in_buff_pos) = accepted
      /\ consumed = Len(emitted) - (in_buff_pos - in_to_compress)
      /\ \A j \in 1 .. Len(emitted) : emitted[j] = j - 1
  BY <1>1 DEF Accounting, From
<1>4. consumedNow = Len(emitted) /\ Len(emitted) = accepted
  BY <1>2, <1>3 DEF consumedNow, chunk_end
<1>5. From' = in_buff_pos'
  BY <1>1 DEF From
<1>6. \A p \in From' .. in_buff_pos' - 1 :
          in_buff'[p] = Len(emitted') + (p - From')
  <2>1. From' .. in_buff_pos' - 1 = {}
    BY <1>2, <1>5, NothingBetween
  <2> QED
    BY <2>1
<1>7. /\ Len(emitted') + (in_buff_pos' - From') = accepted'
      /\ consumed' = Len(emitted') - (From' - in_to_compress')
  BY <1>1, <1>2, <1>4, <1>5
<1>8. \A j \in 1 .. Len(emitted') : emitted'[j] = j - 1
  BY <1>1, <1>3
<1> QED
  BY <1>4, <1>6, <1>7, <1>8 DEF Accounting

LEMMA AccountingStep ==
    TypeOK /\ Pointers /\ Accounting /\ [Next]_vars => Accounting'
<1> SUFFICES ASSUME TypeOK, Pointers, Accounting, [Next]_vars PROVE Accounting'
  OBVIOUS
<1>1. CASE UNCHANGED vars
  BY <1>1 DEF vars, params, staging, frame, Accounting, From
<1>2. CASE Loading
  BY <1>2, LoadAccounting
<1>3. ASSUME NEW n \in 1 .. BLOCK_SIZE_MAX, CompressBlock(n) PROVE Accounting'
  BY <1>3, CompressAccounting
<1>4. CASE Failing
  BY <1>4 DEF Failing, FinishChunkExceeded, FinishChunkMissed, Return, Accounting
<1>5. CASE FinishChunk
  BY <1>5, FinishAccounting
<1>6. ASSUME NEW o \in {"Continue", "Flush", "End"}, NEW k \in Inputs,
             FirstCall(o, k) \/ FirstCallRejected(o, k) \/ Call(o, k)
      PROVE  Accounting'
  <2>1. CASE FirstCall(o, k)
    <3>1. /\ pc = "uninit" /\ pc' = "load" /\ in_to_compress' = in_buff_pos'
          /\ in_buff_pos' \in Nat /\ in_to_compress = in_buff_pos
          /\ in_to_compress \in Nat
      BY <2>1, FirstCallPointers, FirstCallType DEF FirstCall, Pointers, TypeOK
    <3>2. UNCHANGED <<emitted, consumed, accepted, failed>>
      BY <2>1 DEF FirstCall, init, Begin, frame
    <3>3. From = in_to_compress /\ From' = in_to_compress'
      BY <3>1 DEF From
    <3>4. ~failed => /\ Len(emitted) \in Nat /\ consumed \in Nat
                     /\ Len(emitted) = accepted /\ consumed = Len(emitted)
                     /\ \A j \in 1 .. Len(emitted) : emitted[j] = j - 1
      BY <3>1, <3>3 DEF Accounting, TypeOK
    <3> SUFFICES ASSUME ~failed' PROVE Accounting'
      BY DEF Accounting
    <3>5. \A p \in From' .. in_buff_pos' - 1 :
              in_buff'[p] = Len(emitted') + (p - From')
      <4>1. From' .. in_buff_pos' - 1 = {}
        BY <3>1, <3>3, NothingBetween
      <4> QED
        BY <4>1
    <3>6. /\ Len(emitted') + (in_buff_pos' - From') = accepted'
          /\ consumed' = Len(emitted') - (From' - in_to_compress')
      BY <3>1, <3>2, <3>3, <3>4
    <3>7. \A j \in 1 .. Len(emitted') : emitted'[j] = j - 1
      BY <3>2, <3>4
    <3> QED
      BY <3>5, <3>6, <3>7 DEF Accounting
  <2>2. CASE FirstCallRejected(o, k)
    BY <2>2 DEF FirstCallRejected, Accounting
  <2>3. CASE Call(o, k)
    BY <2>3 DEF Call, Begin, Accounting, From, staging, frame
  <2> QED
    BY <1>6, <2>1, <2>2, <2>3
<1> QED
  BY <1>1, <1>2, <1>3, <1>4, <1>5, <1>6 DEF Next, Loop, Loading, Failing, Caller

-----------------------------------------------------------------------------
(* The shape of the frame.                                                 *)

LEMMA LoadShape ==
    ASSUME TypeOK, Pointers, FrameShape, Loading
    PROVE  FrameShape'
<1> SUFFICES ASSUME ~failed' PROVE FrameShape'
  BY DEF FrameShape
<1>1. pc = "load" /\ ~failed
  BY DEF Loading, LoadAndReturn, LoadAndOverflow, LoadAndCompress, Return, TypeOK
<1>2. /\ ~MarkedLast /\ ~frame_ended /\ stage # "Ending"
      /\ IF stage = "Init" THEN items = <<>>
         ELSE Len(items) >= 1 /\ items[1] = "header"
      /\ \A k \in 2 .. Len(items) : items[k] = "block"
  BY <1>1 DEF FrameShape, MarkedLast
<1>3. CASE LoadAndReturn \/ LoadAndOverflow
  <2>1. pc' \in {"idle", "consumed"} /\ UNCHANGED frame
    BY <1>3 DEF LoadAndReturn, LoadAndOverflow, Return
  <2>2. ~MarkedLast'
    BY <2>1 DEF MarkedLast
  <2> QED
    BY <1>2, <2>1, <2>2 DEF FrameShape, frame
<1>4. CASE LoadAndCompress
  <2>1. /\ pc' = "blocks" /\ pos' = in_to_compress' /\ in_to_compress' \in Nat
        /\ UNCHANGED frame_ended
    BY <1>4, LoadPointers DEF LoadAndCompress, load, TypeOK
  <2>2. ~MarkedLast' /\ ~(in_to_compress' < pos')
    BY <2>1 DEF MarkedLast
  <2>3. stage' = "Ongoing"
    BY <1>2, <1>4 DEF LoadAndCompress, TypeOK
  <2>4. /\ Len(items') >= 1 /\ items'[1] = "header"
        /\ \A k \in 2 .. Len(items') : items'[k] = "block"
    <3>1. CASE stage = "Init"
      <4>1. items' = <<"header">>
        BY <1>2, <1>4, <3>1 DEF LoadAndCompress
      <4> QED
        BY <4>1
    <3>2. CASE stage # "Init"
      BY <1>2, <1>4, <3>2 DEF LoadAndCompress
    <3> QED
      BY <3>1, <3>2
  <2> QED
    BY <1>2, <2>1, <2>2, <2>3, <2>4 DEF FrameShape
<1> QED
  BY <1>3, <1>4 DEF Loading

LEMMA CompressShape ==
    ASSUME TypeOK, Pointers, FrameShape,
           NEW n \in 1 .. BLOCK_SIZE_MAX, CompressBlock(n)
    PROVE  FrameShape'
<1> SUFFICES ASSUME ~failed' PROVE FrameShape'
  BY DEF FrameShape
<1>1. /\ pc = "blocks" /\ pc' = "blocks" /\ pos < in_buff_pos /\ ~failed
      /\ pos' = pos + n
      /\ UNCHANGED <<stage, frame_ended, op, left, in_to_compress, in_buff_pos>>
  BY DEF CompressBlock, staging, chunk_end
<1>2. /\ n \in Nat /\ n >= 1 /\ pos \in Nat /\ in_buff_pos \in Nat
      /\ in_to_compress \in Nat /\ in_to_compress <= pos
  BY <1>1, BlockSize DEF TypeOK, Pointers, From
<1>3. ~MarkedLast
  BY <1>1, <1>2 DEF MarkedLast, chunk_end
<1>4. /\ stage = "Ongoing" /\ ~frame_ended
      /\ Len(items) >= 1 /\ items[1] = "header"
      /\ \A k \in 2 .. Len(items) : items[k] = "block"
  BY <1>1, <1>3 DEF FrameShape
<1> DEFINE item == IF last_frame_chunk /\ n = remaining THEN "last" ELSE "block"
<1>5. MarkedLast' <=> last_frame_chunk /\ n = remaining
  <2>1. last_frame_chunk' <=> last_frame_chunk
    BY <1>1 DEF last_frame_chunk
  <2>2. chunk_end' = in_buff_pos /\ remaining = in_buff_pos - pos
    BY <1>1 DEF chunk_end, remaining
  <2> QED
    BY <1>1, <1>2, <2>1, <2>2 DEF MarkedLast
<1>6. items' = Append(items, item)
  BY DEF CompressBlock
<1>7. items \in Seq({"header", "block", "last", "checksum"})
  BY DEF TypeOK
<1> HIDE DEF item
<1>8. /\ Len(items') = Len(items) + 1 /\ Len(items) \in Nat
      /\ items'[Len(items) + 1] = item
      /\ \A k \in 1 .. Len(items) : items'[k] = items[k]
  BY <1>6, <1>7
<1>9. Len(items') >= 2 /\ items'[1] = "header"
  BY <1>4, <1>8
<1>10. ASSUME NEW k \in 2 .. Len(items')
       PROVE  items'[k] = IF k = Len(items') /\ MarkedLast' THEN "last" ELSE "block"
  <2>1. CASE k = Len(items')
    <3>1. items'[k] = item
      BY <1>8, <2>1
    <3> QED
      BY <1>5, <2>1, <3>1 DEF item
  <2>2. CASE k # Len(items')
    <3>1. k \in 2 .. Len(items)
      BY <1>8, <2>2
    <3> QED
      BY <1>4, <1>8, <2>2, <3>1
  <2> QED
    BY <2>1, <2>2
<1> QED
  BY <1>1, <1>4, <1>9, <1>10 DEF FrameShape

LEMMA ConcatIs ==
    ASSUME NEW S, NEW s \in Seq(S), NEW t \in Seq(S), NEW u, u = s \o t
    PROVE  /\ Len(s) \in Nat /\ Len(u) = Len(s) + Len(t)
           /\ \A k \in 1 .. Len(s) + Len(t) :
                  u[k] = IF k <= Len(s) THEN s[k] ELSE t[k - Len(s)]
BY ConcatProperties

LEMMA FinishShape ==
    ASSUME TypeOK, Pointers, Accounting, FrameShape, FinishChunk, ~failed
    PROVE  FrameShape'
<1>1. /\ pc = "blocks" /\ pos = in_buff_pos /\ pc' \in {"load", "idle", "consumed"}
      /\ stage = "Ongoing" /\ ~frame_ended
      /\ Len(items) >= 1 /\ items[1] = "header"
      /\ in_to_compress < pos => Len(items) >= 2
      /\ \A k \in 2 .. Len(items) :
             items[k] = IF k = Len(items) /\ MarkedLast THEN "last" ELSE "block"
  BY DEF FinishChunk, ChunkDone, chunk_end, Return, FrameShape
<1>2. /\ items' = items \o epilogue /\ stage' = stageAfter
      /\ frame_ended' = last_frame_chunk
      /\ last_frame_chunk => pc' = "consumed"
      /\ UNCHANGED <<pledged, emitted, accepted>>
  BY DEF FinishChunk, Return, params, last_frame_chunk
<1>3. ~MarkedLast'
  BY <1>1 DEF MarkedLast
<1>4. items \in Seq({"header", "block", "last", "checksum"})
  BY DEF TypeOK
<1>7. /\ Len(items) \in Nat /\ Len(items') = Len(items) + Len(epilogue)
      /\ \A k \in 1 .. Len(items) + Len(epilogue) :
             items'[k] = IF k <= Len(items) THEN items[k]
                         ELSE epilogue[k - Len(items)]
  BY <1>2, <1>4, EpilogueType, ConcatIs
<1>5. CASE ~last_frame_chunk
  <2>1. items' = items
    BY <1>2, <1>4, <1>5, ConcatEmptySeq DEF epilogue
  <2>2. stage' = "Ongoing"
    BY <1>1, <1>2, <1>5 DEF stageAfter
  <2>3. ~MarkedLast
    BY <1>5 DEF MarkedLast
  <2> QED
    BY <1>1, <1>2, <1>3, <1>5, <2>1, <2>2, <2>3 DEF FrameShape
<1>6. CASE last_frame_chunk
  <2>1. /\ accepted' = Len(emitted')
        /\ pledged' # None => pledged' = Len(emitted')
    <3>1. consumedNow = Len(emitted) /\ Len(emitted) = accepted
      BY FinishAccounting
    <3> QED
      BY <1>2, <1>6, <3>1 DEF FinishChunk, PledgeMissed
  <2>2. in_to_compress \in Nat /\ pos \in Nat /\ in_to_compress <= pos
    BY <1>1 DEF TypeOK, Pointers, From
  <2>3. CASE in_to_compress = in_buff_pos
    <3>1. epilogue = <<"last">> \o <<"checksum">> /\ stage' = "Ongoing"
      BY <1>1, <1>2, <1>6, <2>3 DEF epilogue, stageAfter, chunk_end
    <3>2. ~MarkedLast
      BY <1>1, <2>2, <2>3 DEF MarkedLast
    <3>3. /\ epilogue \in Seq({"header", "block", "last", "checksum"})
          /\ Len(epilogue) = 2 /\ epilogue[1] = "last" /\ epilogue[2] = "checksum"
      BY <3>1, EpilogueType
    <3>4. /\ Len(items') = Len(items) + 2 /\ Len(items) \in Nat
          /\ \A k \in 1 .. Len(items) + 2 :
                 items'[k] = IF k <= Len(items) THEN items[k]
                             ELSE epilogue[k - Len(items)]
      BY <1>7, <3>3
    <3>5. items'[1] = "header" /\ items'[Len(items')] = "checksum"
      BY <1>1, <3>3, <3>4
    <3>6. ASSUME NEW k \in 2 .. Len(items') - 1
          PROVE  items'[k] = IF k = Len(items') - 1 THEN "last" ELSE "block"
      BY <1>1, <3>2, <3>3, <3>4
    <3> QED
      BY <1>2, <1>6, <2>1, <3>1, <3>4, <3>5, <3>6, <1>1
      DEF FrameShape, WellFormedFrame
  <2>4. CASE in_to_compress # in_buff_pos
    <3>1. epilogue = <<>> \o <<"checksum">> /\ stage' = "Ending"
      BY <1>2, <1>6, <2>4 DEF epilogue, stageAfter, chunk_end
    <3>2. MarkedLast /\ Len(items) >= 2
      BY <1>1, <1>6, <2>2, <2>4 DEF MarkedLast, chunk_end
    <3>3. /\ epilogue \in Seq({"header", "block", "last", "checksum"})
          /\ Len(epilogue) = 1 /\ epilogue[1] = "checksum"
      BY <3>1, EpilogueType
    <3>4. /\ Len(items') = Len(items) + 1 /\ Len(items) \in Nat
          /\ \A k \in 1 .. Len(items) + 1 :
                 items'[k] = IF k <= Len(items) THEN items[k]
                             ELSE epilogue[k - Len(items)]
      BY <1>7, <3>3
    <3>5. items'[1] = "header" /\ items'[Len(items')] = "checksum"
      BY <1>1, <3>3, <3>4
    <3>6. ASSUME NEW k \in 2 .. Len(items') - 1
          PROVE  items'[k] = IF k = Len(items') - 1 THEN "last" ELSE "block"
      BY <1>1, <3>2, <3>4
    <3> QED
      BY <1>2, <1>6, <2>1, <3>1, <3>4, <3>5, <3>6, <1>1
      DEF FrameShape, WellFormedFrame
  <2> QED
    BY <2>3, <2>4
<1> QED
  BY <1>5, <1>6

LEMMA FrameShapeStep ==
    TypeOK /\ Pointers /\ Accounting /\ FrameShape /\ [Next]_vars => FrameShape'
<1> SUFFICES ASSUME TypeOK, Pointers, Accounting, FrameShape, [Next]_vars
             PROVE  FrameShape'
  OBVIOUS
<1>1. CASE UNCHANGED vars
  BY <1>1 DEF vars, params, staging, frame, FrameShape, MarkedLast, chunk_end,
              last_frame_chunk, WellFormedFrame
<1>2. CASE Loading
  BY <1>2, LoadShape
<1>3. ASSUME NEW n \in 1 .. BLOCK_SIZE_MAX, CompressBlock(n) PROVE FrameShape'
  BY <1>3, CompressShape
<1>4. CASE Failing
  BY <1>4 DEF Failing, FinishChunkExceeded, FinishChunkMissed, Return, FrameShape
<1>5. CASE FinishChunk
  <2>1. failed => failed'
    BY <1>5 DEF FinishChunk, Return, TypeOK
  <2> QED
    BY <1>5, <2>1, FinishShape DEF FrameShape
<1>6. ASSUME NEW o \in {"Continue", "Flush", "End"}, NEW k \in Inputs,
             FirstCall(o, k) \/ FirstCallRejected(o, k) \/ Call(o, k)
      PROVE  FrameShape'
  <2>1. CASE FirstCallRejected(o, k)
    BY <2>1 DEF FirstCallRejected, FrameShape
  <2>2. CASE FirstCall(o, k) \/ Call(o, k)
    <3>1. /\ pc \in {"uninit", "idle"} /\ pc' = "load"
          /\ UNCHANGED <<frame, accepted, failed>>
      BY <2>2 DEF FirstCall, Call, init, Begin
    <3>2. ~MarkedLast /\ ~MarkedLast'
      BY <3>1 DEF MarkedLast
    <3>3. UNCHANGED <<stage, items, frame_ended, failed>>
      BY <3>1 DEF frame
    <3>4. ~failed => ~frame_ended
      BY <3>1 DEF FrameShape
    <3> QED
      BY <3>1, <3>2, <3>3, <3>4 DEF FrameShape
  <2> QED
    BY <1>6, <2>1, <2>2
<1> QED
  BY <1>1, <1>2, <1>3, <1>4, <1>5, <1>6 DEF Next, Loop, Loading, Failing, Caller

-----------------------------------------------------------------------------
(* An error is final.                                                      *)

LEMMA FinishDoomed ==
    ASSUME TypeOK, Pointers, Accounting, FrameShape, Doomed,
           FinishChunkExceeded \/ FinishChunkMissed \/ FinishChunk
    PROVE  Doomed'
<1>1. /\ pc = "blocks" /\ consumed' = consumedNow /\ UNCHANGED pledged
      /\ consumed' >= consumed /\ consumed \in Nat /\ consumed' \in Nat
      /\ pledged # None => pledged \in Nat
  <2>1. consumed' = consumedNow
    BY DEF FinishChunkExceeded, FinishChunkMissed, FinishChunk
  <2>2. pc = "blocks" /\ UNCHANGED pledged
    BY DEF FinishChunkExceeded, FinishChunkMissed, FinishChunk, ChunkDone, params
  <2>3. /\ consumed \in Nat /\ in_buff_pos - in_to_compress \in Nat
        /\ pledged \in Nat \cup {None}
    BY <2>2 DEF TypeOK, Pointers, From
  <2> QED
    BY <2>1, <2>2, <2>3 DEF consumedNow, chunk_end
<1>2. failed => ~frame_ended /\ pledged # None /\ consumed > pledged
  BY <1>1 DEF Doomed
<1>3. ~failed => ~frame_ended
  BY <1>1 DEF FrameShape
<1>4. CASE FinishChunkExceeded
  <2>1. ~frame_ended' /\ pc' # "uninit" /\ pledged' # None /\ consumed' > pledged'
    BY <1>1, <1>2, <1>3, <1>4 DEF FinishChunkExceeded, PledgeExceeded, Return
  <2> QED
    BY <2>1 DEF Doomed
<1>5. CASE FinishChunkMissed
  <2>1. ~frame_ended' /\ pc' = "consumed"
    BY <1>2, <1>3, <1>5 DEF FinishChunkMissed, Return, PledgeMissed, last_frame_chunk
  <2> QED
    BY <2>1 DEF Doomed
<1>6. CASE FinishChunk
  <2> SUFFICES ASSUME failed' PROVE Doomed'
    BY DEF Doomed
  <2>1. failed
    BY <1>6 DEF FinishChunk, Return, TypeOK
  <2>2. consumed' > pledged'
    BY <1>1, <1>2, <2>1
  <2>3. ~last_frame_chunk
    BY <1>1, <1>2, <1>6, <2>1 DEF FinishChunk, PledgeMissed
  <2> QED
    BY <1>1, <1>2, <1>6, <2>1, <2>2, <2>3 DEF FinishChunk, Doomed
<1> QED
  BY <1>4, <1>5, <1>6

LEMMA LoadDoomed ==
    ASSUME TypeOK, Pointers, FrameShape, Doomed, Loading
    PROVE  Doomed'
<1>1. /\ pc = "load" /\ in_buff_pos' >= in_buff_pos /\ in_buff_pos' \in Nat
      /\ in_buff_pos \in Nat /\ max_dist \in Nat /\ window.seg_bias \in Nat
      /\ UNCHANGED <<pledged, max_dist, frame_ended, consumed>>
  <2>1. pc = "load" /\ load
    BY DEF Loading, LoadAndReturn, LoadAndOverflow, LoadAndCompress
  <2>2. /\ loaded \in Nat /\ in_buff_pos' = in_buff_pos + loaded
        /\ in_buff_pos \in Nat
    BY <2>1, Loaded DEF load, TypeOK
  <2>3. UNCHANGED <<pledged, max_dist, frame_ended, consumed>>
    BY <2>1
    DEF Loading, LoadAndReturn, LoadAndOverflow, LoadAndCompress, load, params, frame
  <2>4. max_dist \in Nat /\ window.seg_bias \in Nat
    BY EncoderAssumption, WindowFields DEF TypeOK
  <2> QED
    BY <2>1, <2>2, <2>3, <2>4
<1>2. ~frame_ended
  BY <1>1 DEF FrameShape, Doomed
<1>3. CASE LoadAndReturn
  <2>1. /\ failed' = failed /\ window' = window
        /\ pc' \in {"idle", "consumed"}
    BY <1>3 DEF LoadAndReturn, Return, matching, TypeOK
  <2> SUFFICES ASSUME failed' PROVE Doomed'
    BY DEF Doomed
  <2>2. \/ pledged # None /\ consumed > pledged
        \/ ContentLen > 0 /\ in_buff_pos + window.seg_bias > max_dist
    BY <1>1, <2>1 DEF Doomed
  <2>3. CASE pledged # None /\ consumed > pledged
    BY <1>1, <1>2, <2>1, <2>3 DEF Doomed
  <2>4. CASE ContentLen > 0 /\ in_buff_pos + window.seg_bias > max_dist
    <3>1. in_buff_pos' + window'.seg_bias > max_dist'
      BY <1>1, <2>1, <2>4
    <3> QED
      BY <1>1, <1>2, <2>1, <2>4, <3>1 DEF Doomed
  <2> QED
    BY <2>2, <2>3, <2>4
<1>4. CASE LoadAndOverflow
  <2>1. /\ ContentLen > 0 /\ in_buff_pos' + window.seg_bias > max_dist
        /\ window' = window /\ pc' \in {"idle", "consumed"}
    BY <1>4 DEF LoadAndOverflow, cdict_attach_overflow, Return, matching
  <2>2. in_buff_pos' + window'.seg_bias > max_dist'
    BY <1>1, <2>1
  <2> QED
    BY <1>1, <1>2, <2>1, <2>2 DEF Doomed
<1>5. CASE LoadAndCompress
  <2> SUFFICES ASSUME failed' PROVE Doomed'
    BY DEF Doomed
  <2>1. failed /\ ~(ContentLen > 0 /\ in_buff_pos' + window.seg_bias > max_dist)
    BY <1>5 DEF LoadAndCompress, cdict_attach_overflow
  <2>2. ~(ContentLen > 0 /\ in_buff_pos + window.seg_bias > max_dist)
    BY <1>1, <2>1
  <2>3. pledged # None /\ consumed > pledged
    BY <1>1, <2>1, <2>2 DEF Doomed
  <2> QED
    BY <1>1, <1>2, <1>5, <2>3 DEF LoadAndCompress, Doomed
<1> QED
  BY <1>3, <1>4, <1>5 DEF Loading

LEMMA DoomedStep == IInv /\ [Next]_vars => Doomed'
<1> SUFFICES ASSUME TypeOK, Pointers, Accounting, FrameShape, Doomed, [Next]_vars
             PROVE  Doomed'
  BY DEF IInv
<1>1. CASE UNCHANGED vars
  BY <1>1 DEF vars, params, staging, matching, frame, Doomed
<1>2. CASE Loading
  BY <1>2, LoadDoomed
<1>3. ASSUME NEW n \in 1 .. BLOCK_SIZE_MAX, CompressBlock(n) PROVE Doomed'
  BY <1>3 DEF CompressBlock, params, Doomed
<1>4. CASE FinishChunkExceeded \/ FinishChunkMissed \/ FinishChunk
  BY <1>4, FinishDoomed
<1>5. ASSUME NEW o \in {"Continue", "Flush", "End"}, NEW k \in Inputs,
             FirstCall(o, k) \/ FirstCallRejected(o, k) \/ Call(o, k)
      PROVE  Doomed'
  <2>1. CASE FirstCallRejected(o, k)
    <3>1. pc' = "consumed"
      BY <2>1, EncoderAssumption DEF FirstCallRejected
    <3>2. ~frame_ended /\ UNCHANGED frame_ended
      BY <2>1 DEF FirstCallRejected, frame, FrameShape, Doomed
    <3> QED
      BY <3>1, <3>2 DEF Doomed
  <2>2. CASE FirstCall(o, k)
    BY <2>2 DEF FirstCall, Begin, Doomed
  <2>3. CASE Call(o, k)
    BY <2>3 DEF Call, Begin, Doomed, params, staging, matching, frame
  <2> QED
    BY <1>5, <2>1, <2>2, <2>3
<1> QED
  BY <1>1, <1>2, <1>3, <1>4, <1>5 DEF Next, Loop, Loading, Caller

LEMMA OfferedStep == TypeOK /\ Pointers /\ Offered /\ [Next]_vars => Offered'
<1> SUFFICES ASSUME TypeOK, Pointers, Offered, [Next]_vars PROVE Offered'
  OBVIOUS
<1>1. CASE UNCHANGED vars
  BY <1>1 DEF vars, Offered
<1>2. CASE Loading
  <2>1. CASE LoadAndReturn \/ LoadAndOverflow
    BY <2>1 DEF LoadAndReturn, LoadAndOverflow, Return, Offered
  <2>2. CASE LoadAndCompress
    <3>1. /\ pc = "load" /\ pc' = "blocks" /\ op' = op /\ left' = left - loaded
          /\ left \in Nat
      BY <2>2 DEF LoadAndCompress, TypeOK
    <3>2. op = "Flush" => left = 0
      BY <3>1 DEF Offered
    <3>3. loaded \in Nat /\ loaded <= left
      BY <3>1, Loaded
    <3> QED
      BY <3>1, <3>2, <3>3 DEF Offered
  <2> QED
    BY <1>2, <2>1, <2>2 DEF Loading
<1>3. ASSUME NEW n \in 1 .. BLOCK_SIZE_MAX, CompressBlock(n) PROVE Offered'
  BY <1>3 DEF CompressBlock, Offered
<1>4. CASE FinishChunkExceeded \/ FinishChunkMissed \/ FinishChunk
  BY <1>4 DEF FinishChunkExceeded, FinishChunkMissed, FinishChunk, ChunkDone,
              Return, Offered
<1>5. ASSUME NEW o \in {"Continue", "Flush", "End"}, NEW k \in Inputs,
             FirstCall(o, k) \/ FirstCallRejected(o, k) \/ Call(o, k)
      PROVE  Offered'
  BY <1>5 DEF FirstCall, FirstCallRejected, Call, Begin, Op, Offered
<1> QED
  BY <1>1, <1>2, <1>3, <1>4, <1>5 DEF Next, Loop, Loading, Caller

-----------------------------------------------------------------------------
(* The invariant.                                                          *)

LEMMA InitIInv == Init => IInv
<1> SUFFICES ASSUME Init PROVE IInv
  OBVIOUS
<1>1. Pointers
  BY DEF Init, Pointers, From
<1>2. Accounting
  BY DEF Init, Accounting, From
<1>3. FrameShape
  BY DEF Init, FrameShape, MarkedLast
<1>4. Doomed
  BY DEF Init, Doomed
<1>5. Offered
  BY DEF Init, Offered
<1> QED
  BY <1>1, <1>2, <1>3, <1>4, <1>5, TypeInit DEF IInv

LEMMA StepIInv == IInv /\ [Next]_vars => IInv'
BY TypeStep, PointersStep, AccountingStep, FrameShapeStep, DoomedStep, OfferedStep
   DEF IInv

\* The inductive invariant: staging pointers in order, every byte accounted for,
\* a frame of the right shape and errors that are final.
THEOREM Invariance == Spec => []IInv
<1>1. Init => IInv
  BY InitIInv
<1>2. IInv /\ [Next]_vars => IInv'
  BY StepIInv
<1> QED
  BY <1>1, <1>2, PTL DEF Spec

\* Every variable of the encoder keeps its type: the indices stay inside the
\* 32-bit space, the staging pointers are natural numbers.
THEOREM TypeCorrect == Spec => []TypeOK
<1>1. IInv => TypeOK
  BY DEF IInv
<1> QED
  BY <1>1, Invariance, PTL

-----------------------------------------------------------------------------
(* What follows from it.                                                   *)

\* However the staging buffer wraps and the caller cuts its input, the bytes
\* written and then staged are exactly the bytes taken, in order.
THEOREM NothingLost == Spec => []NothingLostOrRepeated
<1>1. IInv => NothingLostOrRepeated
  <2> SUFFICES ASSUME IInv, ~failed
               PROVE  emitted \o Staged = [k \in 1 .. accepted |-> k - 1]
    BY DEF NothingLostOrRepeated
  <2>1. /\ TypeOK /\ Pointers /\ Accounting
        /\ emitted \in Seq(Int) /\ in_buff_pos \in Nat /\ accepted \in Nat
        /\ in_to_compress \in Nat /\ pos \in Nat
    BY DEF IInv, TypeOK
  <2> DEFINE n == in_buff_pos - From
  <2>2. From \in Nat /\ n \in Nat
    BY <2>1 DEF Pointers, From
  <2>3. /\ Len(emitted) \in Nat /\ Len(emitted) + n = accepted
        /\ \A j \in 1 .. Len(emitted) : emitted[j] = j - 1
    BY <2>1 DEF Accounting
  <2>4. Staged = [k \in 1 .. n |-> ReadAt(From + k - 1)]
    BY DEF Staged, From
  <2>5. ASSUME NEW p PROVE ReadAt(p) \in Int
    BY <2>1, EncoderAssumption DEF TypeOK, ReadAt, Blank
  <2>6. ASSUME NEW k \in 1 .. n PROVE ReadAt(From + k - 1) = Len(emitted) + (k - 1)
    <3>1. From + k - 1 \in From .. in_buff_pos - 1
      BY <2>1, <2>2
    <3>2. in_buff[From + k - 1] = Len(emitted) + ((From + k - 1) - From)
      BY <2>1, <3>1 DEF Accounting
    <3>3. From + k - 1 \in DOMAIN in_buff
      <4>1. pc \in {"idle", "load", "blocks"}
        BY <2>1, <2>2 DEF Pointers, From, TypeOK
      <4>2. in_buff \in [Slots -> Int] /\ in_buff_pos <= BuffLen
        BY <2>1, <4>1, CurrentSizes DEF Pointers, TypeOK
      <4> QED
        BY <2>1, <2>2, <3>1, <4>2, CurrentSizes DEF Slots
    <3> QED
      BY <2>2, <2>3, <3>2, <3>3 DEF ReadAt
  <2> HIDE DEF n
  <2>7. Staged \in Seq(Int) /\ Len(Staged) = n
    BY <2>2, <2>4, <2>5
  <2> DEFINE whole == emitted \o Staged
  <2>8. /\ whole \in Seq(Int) /\ Len(whole) = accepted
        /\ \A j \in 1 .. accepted :
               whole[j] = IF j <= Len(emitted) THEN emitted[j]
                          ELSE Staged[j - Len(emitted)]
    BY <2>1, <2>3, <2>7, ConcatProperties
  <2>9. ASSUME NEW j \in 1 .. accepted PROVE whole[j] = j - 1
    <3> HIDE DEF whole
    <3>1. CASE j <= Len(emitted)
      BY <2>3, <2>8, <3>1
    <3>2. CASE j > Len(emitted)
      <4>1. j - Len(emitted) \in 1 .. n
        BY <2>2, <2>3, <3>2
      <4>2. Staged[j - Len(emitted)] = Len(emitted) + (j - Len(emitted) - 1)
        BY <2>4, <2>6, <4>1
      <4> QED
        BY <2>3, <2>8, <3>2, <4>2
    <3> QED
      BY <2>3, <3>1, <3>2
  <2> HIDE DEF whole
  <2>10. whole = [k \in 1 .. accepted |-> k - 1]
    BY <2>1, <2>8, <2>9
  <2> QED
    BY <2>10 DEF whole
<1> QED
  BY <1>1, Invariance, PTL

\* Every frame that is ended has the declared shape and size.
THEOREM FramesWellFormed == Spec => []WellFormedFrame
<1>1. IInv => WellFormedFrame
  BY DEF IInv, FrameShape, Doomed, WellFormedFrame
<1> QED
  BY <1>1, Invariance, PTL

\* No call after an error ends the frame, whatever the error was.
THEOREM ErrorIsFinal == Spec => NoFrameAfterError
<1>1. IInv /\ IInv' /\ [Next]_vars => [failed /\ ~frame_ended => ~frame_ended']_vars
  <2> SUFFICES ASSUME IInv, IInv', [Next]_vars, failed PROVE ~frame_ended'
    OBVIOUS
  <2>1. failed'
    BY DEF Next, Loop, Caller, vars, IInv, TypeOK, LoadAndReturn, LoadAndOverflow,
           LoadAndCompress, CompressBlock, FinishChunkExceeded, FinishChunkMissed,
           FinishChunk, Return, FirstCall, FirstCallRejected, Call, Begin
  <2> QED
    BY <2>1 DEF IInv, Doomed
<1> QED
  BY <1>1, Invariance, PTL DEF Spec, NoFrameAfterError

\* A flush that returns without an error leaves nothing staged.
THEOREM FlushComplete == Spec => FlushDrains
<1>1. IInv /\ IInv' /\ [Next]_vars
        => [op = "Flush" /\ pc = "load" /\ pc' = "idle" /\ ~failed'
              => Len(emitted') = accepted']_vars
  <2> SUFFICES ASSUME IInv, IInv', [Next]_vars, op = "Flush", pc = "load",
                      pc' = "idle", ~failed'
               PROVE  Len(emitted') = accepted'
    OBVIOUS
  <2>1. LoadAndReturn
    BY DEF Next, Loop, Caller, vars, CompressBlock, FinishChunkExceeded,
           FinishChunkMissed, FinishChunk, ChunkDone, LoadAndOverflow,
           LoadAndCompress, Return, FirstCall, FirstCallRejected, Call
  <2>2. in_buff_pos' = in_to_compress' /\ From' = in_to_compress'
    BY <2>1 DEF LoadAndReturn, Satisfied, load, From
  <2>3. /\ Len(emitted') + (in_buff_pos' - From') = accepted'
        /\ Len(emitted') \in Nat /\ in_buff_pos' \in Nat
    BY DEF IInv, Accounting, TypeOK
  <2> QED
    BY <2>2, <2>3
<1> QED
  BY <1>1, Invariance, PTL DEF Spec, FlushDrains

-----------------------------------------------------------------------------
(* The encoder implements EncoderContract.                                 *)

\* Loading moves bytes from the input left to the bytes taken.
LEMMA LoadImplements ==
    ASSUME IInv, IInv', Loading
    PROVE  [Contract!Next]_(Contract!contract)
<1>1. /\ pc = "load" /\ load /\ UNCHANGED <<emitted, frame_ended>>
      /\ loaded \in Nat /\ loaded <= left /\ accepted' = accepted + loaded
      /\ accepted \in Nat /\ left \in Nat /\ TypeOK
  <2>1. pc = "load" /\ load /\ UNCHANGED <<emitted, frame_ended>>
    BY DEF Loading, LoadAndReturn, LoadAndOverflow, LoadAndCompress, frame
  <2> QED
    BY <2>1, Loaded DEF load, IInv, TypeOK
<1>2. failed => failed'
  BY DEF Loading, LoadAndReturn, LoadAndOverflow, LoadAndCompress, Return, IInv, TypeOK
<1>3. ~failed => ~frame_ended
  BY DEF IInv, FrameShape, Loading, LoadAndReturn, LoadAndOverflow, LoadAndCompress
<1>4. CASE failed
  BY <1>2, <1>4 DEF Contract!Next, Contract!Failed
<1>5. CASE ~failed /\ LoadAndReturn
  <2>1. left' = 0 /\ failed' = failed
    BY <1>1, <1>5 DEF LoadAndReturn, Return, TypeOK
  <2>2. left = loaded
    <3>1. CASE op = "Continue" /\ in_buff_pos' < in_buff_target
      <4>1. /\ in_buff_pos + loaded < in_buff_target
            /\ in_buff_pos \in Nat /\ in_buff_target \in Nat
        BY <1>1, <3>1 DEF load, TypeOK
      <4> QED
        BY <1>1, <4>1 DEF loaded, Smaller
    <3>2. CASE op = "Flush"
      BY <1>1, <3>2 DEF IInv, Offered
    <3> QED
      BY <1>5, <3>1, <3>2 DEF LoadAndReturn, Satisfied
  <2> QED
    BY <1>1, <2>1, <2>2 DEF Contract!contract
<1>6. CASE ~failed /\ LoadAndOverflow
  <2>1. left' = 0 /\ failed'
    BY <1>6 DEF LoadAndOverflow, Return
  <2> QED
    BY <1>1, <1>3, <1>6, <2>1 DEF Contract!Next, Contract!Fail
<1>7. CASE ~failed /\ LoadAndCompress
  <2>1. left' = left - loaded /\ failed' = failed
    BY <1>7 DEF LoadAndCompress
  <2> QED
    BY <1>1, <2>1 DEF Contract!contract
<1> QED
  BY <1>4, <1>5, <1>6, <1>7 DEF Loading

LEMMA CompressImplements ==
    ASSUME IInv, IInv', NEW n \in 1 .. BLOCK_SIZE_MAX, CompressBlock(n)
    PROVE  Contract!Next
<1>1. /\ UNCHANGED <<accepted, left, failed, frame_ended>> /\ pc = "blocks"
      /\ accepted \in Nat /\ left \in Nat
  BY DEF CompressBlock, IInv, TypeOK
<1>2. CASE failed
  BY <1>1, <1>2 DEF Contract!Next, Contract!Failed
<1>3. CASE ~failed
  <2>1. ~frame_ended
    BY <1>1, <1>3 DEF IInv, FrameShape
  <2>2. /\ Len(emitted') = Len(emitted) + n /\ n \in Nat /\ n >= 1
        /\ Len(emitted) \in Nat
    <3>1. /\ Len(emitted') = Len(emitted) + n /\ n \in Nat /\ n >= 1
      BY <1>3, CompressAccounting, BlockSize DEF IInv
    <3>2. Len(emitted) \in Nat
      BY DEF IInv, TypeOK
    <3> QED
      BY <3>1, <3>2
  <2>3. Len(emitted') \in Len(emitted) + 1 .. accepted + left
    <3>1. /\ Len(emitted') + (in_buff_pos' - From') = accepted'
          /\ From' <= in_buff_pos'
      BY <1>1, <1>3 DEF IInv, Accounting, Pointers
    <3>2. in_buff_pos' \in Nat /\ From' \in Nat /\ accepted' \in Nat
      BY DEF IInv, TypeOK, From
    <3> QED
      BY <1>1, <2>2, <3>1, <3>2
  <2>4. emitted' = [k \in 1 .. Len(emitted') |-> k - 1]
    <3>1. /\ emitted' \in Seq(Int)
          /\ \A k \in 1 .. Len(emitted') : emitted'[k] = k - 1
      BY <1>1, <1>3 DEF IInv, Accounting, TypeOK
    <3> QED
      BY <3>1
  <2> QED
    BY <1>1, <1>3, <2>1, <2>3, <2>4 DEF Contract!Next, Contract!Write
<1> QED
  BY <1>2, <1>3

LEMMA FinishImplements ==
    ASSUME IInv, IInv', FinishChunkExceeded \/ FinishChunkMissed \/ FinishChunk
    PROVE  [Contract!Next]_(Contract!contract)
<1>1. /\ UNCHANGED <<accepted, emitted>> /\ pc = "blocks"
      /\ accepted \in Nat /\ left \in Nat
  BY DEF FinishChunkExceeded, FinishChunkMissed, FinishChunk, ChunkDone, IInv, TypeOK
<1>2. ~failed => ~frame_ended
  BY <1>1 DEF IInv, FrameShape
<1>3. CASE Failing
  <2>1. failed' /\ left' = 0 /\ failed \in BOOLEAN
    BY <1>3 DEF Failing, FinishChunkExceeded, FinishChunkMissed, Return, IInv, TypeOK
  <2> QED
    BY <1>1, <1>2, <2>1 DEF Contract!Next, Contract!Failed, Contract!Fail
<1>4. CASE FinishChunk
  <2>1. /\ failed' = failed
        /\ IF last_frame_chunk THEN left = 0 /\ left' = 0 ELSE left' = left
        /\ frame_ended' = last_frame_chunk
    BY <1>4 DEF FinishChunk, Return, IInv, TypeOK, last_frame_chunk
  <2>2. CASE failed
    BY <2>1, <2>2 DEF Contract!Next, Contract!Failed
  <2>3. CASE ~failed /\ frame_ended'
    <3>1. Len(emitted) = accepted
      BY <1>4, <2>3, FinishAccounting DEF IInv
    <3> QED
      BY <1>1, <1>2, <2>1, <2>3, <3>1 DEF Contract!Next, Contract!Close
  <2>4. CASE ~failed /\ ~frame_ended'
    BY <1>1, <1>2, <2>1, <2>4 DEF Contract!contract
  <2> QED
    BY <2>2, <2>3, <2>4
<1> QED
  BY <1>3, <1>4 DEF Failing

\* Every step of the encoder is a step of its contract, or changes nothing the
\* contract speaks of: streaming is a correct implementation of "write the input".
THEOREM Refinement == Spec => ImplementsContract
<1>1. Init => Contract!Init
  BY DEF Init, Contract!Init
<1>2. IInv /\ IInv' /\ [Next]_vars => [Contract!Next]_(Contract!contract)
  <2> SUFFICES ASSUME IInv, IInv', [Next]_vars
               PROVE  [Contract!Next]_(Contract!contract)
    OBVIOUS
  <2>1. CASE UNCHANGED vars
    BY <2>1 DEF vars, frame, Contract!contract
  <2>2. CASE Loading
    BY <2>2, LoadImplements
  <2>3. ASSUME NEW n \in 1 .. BLOCK_SIZE_MAX, CompressBlock(n) PROVE Contract!Next
    BY <2>3, CompressImplements
  <2>4. CASE FinishChunkExceeded \/ FinishChunkMissed \/ FinishChunk
    BY <2>4, FinishImplements
  <2>5. ASSUME NEW o \in {"Continue", "Flush", "End"}, NEW k \in Inputs,
               FirstCall(o, k) \/ FirstCallRejected(o, k) \/ Call(o, k)
        PROVE  [Contract!Next]_(Contract!contract)
    <3>1. CASE FirstCallRejected(o, k)
      <4>1. /\ failed' /\ UNCHANGED <<accepted, left, emitted>> /\ pc = "uninit"
            /\ accepted \in Nat /\ left \in Nat
        BY <3>1 DEF FirstCallRejected, frame, IInv, TypeOK
      <4>2. ~failed /\ ~frame_ended
        BY <4>1 DEF IInv, FrameShape, Doomed
      <4> QED
        BY <4>1, <4>2 DEF Contract!Next, Contract!Fail
    <3>2. CASE FirstCall(o, k) \/ Call(o, k)
      <4>1. /\ UNCHANGED <<accepted, emitted, frame_ended, failed>>
            /\ left' = k /\ pc \in {"uninit", "idle"}
        BY <3>2 DEF FirstCall, Call, init, Begin, frame
      <4>2. left = 0 /\ k \in Nat /\ accepted \in Nat
        BY <4>1, EncoderAssumption DEF IInv, Offered, TypeOK
      <4>3. CASE failed
        BY <4>1, <4>3 DEF Contract!Next, Contract!Failed
      <4>4. CASE ~failed
        <5>1. ~frame_ended
          BY <4>1, <4>4 DEF IInv, FrameShape
        <5>2. CASE k = 0
          BY <4>1, <4>2, <5>2 DEF Contract!contract
        <5>3. CASE k > 0
          BY <4>1, <4>2, <4>4, <5>1, <5>3 DEF Contract!Next, Contract!Give
        <5> QED
          BY <4>2, <5>2, <5>3
      <4> QED
        BY <4>3, <4>4
    <3> QED
      BY <2>5, <3>1, <3>2
  <2> QED
    BY <2>1, <2>2, <2>3, <2>4, <2>5 DEF Next, Loop, Loading, Caller
<1> QED
  BY <1>1, <1>2, Invariance, PTL DEF Spec, ImplementsContract, Contract!Spec

-----------------------------------------------------------------------------
(* What match indices denote.                                              *)

\* The input is too short for a correction of the index space (3500 MiB in the
\* code), and no window is larger than the space itself.
Unrecycled ==
    /\ CurrentMax < IndexMod /\ \A w \in WindowSizes : w < IndexMod
    /\ WINDOW_START_INDEX + ContentLen + MaxInput + BLOCK_SIZE_MAX <= CurrentMax

-----------------------------------------------------------------------------
(* The invariant.                                                          *)

Live == ~failed /\ pc \in {"idle", "load", "blocks"}

\* The bytes of the stream that the window knows of, all before next_src_idx; the
\* index of a byte is Shift more than its position in the stream.
Registered == IF pc = "blocks" THEN accepted ELSE Len(emitted)
Shift == window.next_src_idx - Registered
FirstIdx == WINDOW_START_INDEX + ContentLen

\* Where the window's segment ends in the buffer, unless the buffer has wrapped.
Front == IF pc = "blocks" THEN in_buff_pos ELSE in_to_compress

\* The index of the next byte to be compressed.
NextIdx == window.next_src_idx - IF pc = "blocks" THEN chunk_end - pos ELSE 0

Bounded == accepted + left <= MaxInput
Fresh == pc = "uninit" => emitted = <<>> /\ accepted = 0 /\ ~seeded /\ table = {}

WindowShape ==
    Live =>
        /\ window.loaded_dict_end = 0
        /\ window.next_src_idx = window.seg_bias + window.next_src_pos
        /\ Front \in {window.next_src_pos, 0}
        /\ FirstIdx <= Shift
        /\ Shift <= FirstIdx + IF seeded THEN BLOCK_SIZE_MAX ELSE 0
        /\ window.low_limit <= window.dict_limit
        /\ window.dict_limit <= window.next_src_idx
        /\ window.dict_limit <= next_to_update

\* A valid index is read inside the buffer, and what is read is its byte, except
\* that the chunk being staged may be overwriting it.
Content ==
    Live => \A i \in window.low_limit .. window.next_src_idx - 1 :
        /\ PosOf(window, i) \in Slots
        /\ pc = "blocks" \/ PosOf(window, i) \notin in_to_compress .. in_buff_pos - 1
           => in_buff[PosOf(window, i)] = i - Shift

TableSound ==
    Live => \A e \in table :
        /\ e[1] < NextIdx
        /\ e[1] >= window.low_limit => e[2] = e[1] - Shift

HInv == IInv /\ Bounded /\ Fresh /\ WindowShape /\ Content /\ TableSound

-----------------------------------------------------------------------------
(* What the invariant says of the numbers.                                 *)

LEMMA HTypes ==
    ASSUME IInv
    PROVE  /\ window \in Windows /\ next_to_update \in Nat /\ seeded \in BOOLEAN
           /\ window.seg_bias \in Nat /\ window.dict_bias \in Nat
           /\ window.low_limit \in Nat /\ window.dict_limit \in Nat
           /\ window.next_src_pos \in Nat /\ window.next_src_idx \in Nat
           /\ accepted \in Nat /\ left \in Nat /\ pos \in Nat /\ failed \in BOOLEAN
           /\ in_to_compress \in Nat /\ in_buff_pos \in Nat /\ max_dist \in Nat
           /\ Len(emitted) \in Nat /\ table \subseteq Nat \X Int
           /\ BuffLen \in Nat /\ max_dist \in WindowSizes
<1>1. TypeOK
  BY DEF IInv
<1>2. window \in Windows /\ emitted \in Seq(Int)
  BY <1>1 DEF TypeOK
<1>3. Len(emitted) \in Nat
  BY <1>2, LenProperties
<1> QED
  BY <1>1, <1>2, <1>3, WindowFields, CurrentSizes, EncoderAssumption DEF TypeOK

LEMMA ConstantTypes ==
    ASSUME Unrecycled
    PROVE  /\ CurrentMax \in Nat /\ IndexMod \in Nat /\ FirstIdx \in Nat
           /\ MaxInput \in Nat /\ BLOCK_SIZE_MAX \in Nat /\ ContentLen \in Nat
           /\ FirstIdx = 2 + ContentLen /\ FirstIdx + MaxInput + BLOCK_SIZE_MAX <= CurrentMax
           /\ CurrentMax < IndexMod
BY WindowAssumption, EncoderAssumption DEF Unrecycled, FirstIdx, WINDOW_START_INDEX

LEMMA Counted ==
    ASSUME IInv, ~failed
    PROVE  /\ Len(emitted) + (in_buff_pos - From) = accepted
           /\ \A p \in From .. in_buff_pos - 1 : in_buff[p] = Len(emitted) + (p - From)
           /\ in_to_compress <= From /\ From <= in_buff_pos
           /\ Live => in_buff_pos <= BuffLen /\ DOMAIN in_buff = Slots
<1>1. TypeOK /\ Pointers /\ Accounting
  BY DEF IInv
<1>2. Live => in_buff_pos <= BuffLen /\ DOMAIN in_buff = Slots
  BY <1>1, HTypes DEF Live, TypeOK, Pointers
<1> QED
  BY <1>1, <1>2 DEF Pointers, Accounting

\* In the blocks of a chunk, the window ends where the chunk does.
LEMMA InBlocks ==
    ASSUME Unrecycled, HInv, Live, pc = "blocks", pos < in_buff_pos \/ in_to_compress < pos
    PROVE  /\ window.next_src_idx = window.seg_bias + in_buff_pos
           /\ window.next_src_idx = Shift + accepted
           /\ Shift \in Nat /\ NextIdx = pos + window.seg_bias
           /\ pos <= in_buff_pos
           /\ window.next_src_idx <= FirstIdx + MaxInput + IF seeded THEN BLOCK_SIZE_MAX ELSE 0
<1>1. IInv /\ WindowShape /\ Bounded
  BY DEF HInv
<1>2. in_buff_pos > 0 /\ pos <= in_buff_pos
  BY <1>1, HTypes, Counted DEF Live, From
<1>3. window.next_src_pos = in_buff_pos
  BY <1>1, <1>2, HTypes DEF WindowShape, Front
<1>4. window.next_src_idx = window.seg_bias + in_buff_pos
  BY <1>1, <1>3 DEF WindowShape
<1>5. window.next_src_idx = Shift + accepted
  BY <1>1, HTypes DEF Shift, Registered
<1>6. FirstIdx <= Shift /\ Shift <= FirstIdx + IF seeded THEN BLOCK_SIZE_MAX ELSE 0
  BY <1>1 DEF WindowShape
<1>7. Shift \in Nat
  <2>1. Shift \in Int
    BY <1>1, HTypes DEF Shift, Registered
  <2> QED
    BY <1>6, <2>1, ConstantTypes
<1>8. NextIdx = pos + window.seg_bias
  BY <1>1, <1>4, HTypes DEF NextIdx, chunk_end
<1>9. accepted <= MaxInput
  BY <1>1, HTypes, ConstantTypes DEF Bounded
<1>10. window.next_src_idx <= FirstIdx + MaxInput + IF seeded THEN BLOCK_SIZE_MAX ELSE 0
  <2>1. accepted \in Nat
    BY <1>1, HTypes
  <2>2. CASE seeded
    BY <1>5, <1>6, <1>7, <1>9, <2>1, <2>2, ConstantTypes
  <2>3. CASE ~seeded
    BY <1>5, <1>6, <1>7, <1>9, <2>1, <2>3, ConstantTypes
  <2> QED
    BY <2>2, <2>3
<1> QED
  BY <1>2, <1>4, <1>5, <1>7, <1>8, <1>10

-----------------------------------------------------------------------------
(* The caller's steps, and what the steps do not touch.                    *)

LEMMA BoundedStep ==
    ASSUME HInv, IInv', [Next]_vars PROVE Bounded' /\ Fresh'
<1>1. IInv /\ Bounded /\ Fresh
  BY DEF HInv
<1>2. CASE UNCHANGED vars
  BY <1>1, <1>2 DEF Bounded, Fresh, vars, matching, frame
<1>3. ASSUME NEW o \in {"Continue", "Flush", "End"}, NEW n \in Inputs,
             FirstCall(o, n) \/ FirstCallRejected(o, n) \/ Call(o, n)
      PROVE  Bounded' /\ Fresh'
  <2>1. CASE FirstCallRejected(o, n)
    BY <1>1, <2>1 DEF FirstCallRejected, Bounded, Fresh, matching, frame
  <2>2. CASE FirstCall(o, n) \/ Call(o, n)
    <3>1. accepted + n <= MaxInput /\ left' = n /\ accepted' = accepted /\ pc' = "load"
      BY <2>2 DEF FirstCall, Call, Op, Begin
    <3> QED
      BY <3>1 DEF Bounded, Fresh
  <2> QED
    BY <1>3, <2>1, <2>2
<1>4. CASE LoadAndReturn \/ LoadAndOverflow \/ LoadAndCompress
  <2>1. accepted' = accepted + loaded /\ pc' # "uninit"
    BY <1>4 DEF LoadAndReturn, LoadAndOverflow, LoadAndCompress, load, Return
  <2>2. left' = 0 \/ left' = left - loaded
    BY <1>4 DEF LoadAndReturn, LoadAndOverflow, LoadAndCompress, Return
  <2>3. loaded \in Nat /\ loaded <= left
    BY <1>1, <1>4, Loaded DEF IInv, LoadAndReturn, LoadAndOverflow, LoadAndCompress
  <2>4. accepted + left <= MaxInput /\ MaxInput \in Nat
    BY <1>1, EncoderAssumption DEF Bounded
  <2>5. accepted \in Nat /\ left \in Nat
    BY <1>1, HTypes
  <2>6. CASE left' = 0
    <3>1. accepted + loaded + 0 <= MaxInput
      BY <2>3, <2>4, <2>5
    <3> QED
      BY <2>1, <2>6, <3>1 DEF Bounded, Fresh
  <2>7. CASE left' = left - loaded
    <3>1. accepted + loaded + (left - loaded) <= MaxInput
      BY <2>3, <2>4, <2>5
    <3> QED
      BY <2>1, <2>7, <3>1 DEF Bounded, Fresh
  <2> QED
    BY <2>2, <2>6, <2>7
<1>5. ASSUME NEW n \in 1 .. BLOCK_SIZE_MAX, CompressBlock(n)
      PROVE  Bounded' /\ Fresh'
  BY <1>1, <1>5 DEF CompressBlock, Bounded, Fresh
<1>6. CASE FinishChunkExceeded \/ FinishChunkMissed \/ FinishChunk
  <2>1. accepted' = accepted /\ (left' = left \/ left' = 0) /\ pc' # "uninit"
    BY <1>6 DEF FinishChunkExceeded, FinishChunkMissed, FinishChunk, Return
  <2> QED
    BY <1>1, <2>1, HTypes, EncoderAssumption DEF Bounded, Fresh
<1> QED
  BY <1>2, <1>3, <1>4, <1>5, <1>6 DEF Next, Loop, Caller

LEMMA FirstCallHistory ==
    ASSUME Unrecycled, HInv, IInv', NEW o \in {"Continue", "Flush", "End"},
           NEW n \in Inputs, FirstCall(o, n)
    PROVE  WindowShape' /\ Content' /\ TableSound'
<1>0. PICK requested \in Pledges : init(o, n, requested)
  BY DEF FirstCall
<1>1. /\ emitted' = <<>> /\ table' = {} /\ in_to_compress' = ContentLen
      /\ ~seeded' /\ pc' = "load" /\ next_to_update' = W32(FirstIdx)
      /\ window' = streaming_attached_dict(ContentLen)
  BY <1>0 DEF HInv, Fresh, FirstCall, Begin, init, frame, FirstIdx
<1>2. W32(FirstIdx) = FirstIdx
  BY ConstantTypes, W32Facts
<1>3. window' = [NewWindow EXCEPT !.low_limit = FirstIdx, !.dict_limit = FirstIdx,
                     !.next_src_pos = ContentLen, !.next_src_idx = FirstIdx]
  BY <1>1, <1>2 DEF streaming_attached_dict, FirstIdx
<1>4. /\ window'.low_limit = FirstIdx /\ window'.dict_limit = FirstIdx
      /\ window'.next_src_pos = ContentLen /\ window'.next_src_idx = FirstIdx
      /\ window'.seg_bias = 2 /\ window'.loaded_dict_end = 0
  BY <1>3 DEF NewWindow, WINDOW_START_INDEX
<1>5. Shift' = FirstIdx /\ Front' = ContentLen
  BY <1>1, <1>4, ConstantTypes DEF Shift, Registered, Front
<1>6. WindowShape'
  BY <1>1, <1>2, <1>4, <1>5, ConstantTypes DEF WindowShape, FirstIdx
<1>7. window'.low_limit .. window'.next_src_idx - 1 = {}
  BY <1>4, ConstantTypes
<1> QED
  BY <1>1, <1>6, <1>7 DEF Content, TableSound

LEMMA CallHistory ==
    ASSUME HInv, IInv', NEW o \in {"Continue", "Flush", "End"}, NEW n \in Inputs,
           FirstCallRejected(o, n) \/ Call(o, n)
    PROVE  WindowShape' /\ Content' /\ TableSound'
<1>1. CASE FirstCallRejected(o, n)
  BY <1>1 DEF FirstCallRejected, WindowShape, Content, TableSound, Live
<1>2. CASE Call(o, n)
  <2>1. /\ UNCHANGED <<staging, params, window, next_to_update, table, seeded, emitted>>
        /\ pc = "idle" /\ pc' = "load" /\ failed' = failed
    BY <1>2 DEF Call, Begin, matching, frame
  <2>2. /\ Live' <=> Live /\ Shift' = Shift /\ Slots' = Slots /\ Front' = Front
        /\ NextIdx' = NextIdx
    BY <2>1, ParamsKept DEF Live, Shift, Registered, Front, NextIdx, staging
  <2>3. WindowShape /\ Content /\ TableSound
    BY DEF HInv
  <2> QED
    BY <2>1, <2>2, <2>3 DEF WindowShape, Content, TableSound, staging
<1> QED
  BY <1>1, <1>2

-----------------------------------------------------------------------------
(* Loading input, and registering the chunk.                               *)

LEMMA LoadReturnsHistory ==
    ASSUME HInv, IInv', LoadAndReturn \/ LoadAndOverflow
    PROVE  WindowShape' /\ Content' /\ TableSound'
<1>1. CASE LoadAndOverflow
  BY <1>1 DEF LoadAndOverflow, Return, WindowShape, Content, TableSound, Live
<1>2. CASE LoadAndReturn /\ ~Live'
  BY <1>2 DEF WindowShape, Content, TableSound
<1>3. CASE LoadAndReturn /\ Live'
  <2>1. /\ UNCHANGED <<params, window, next_to_update, table, seeded, emitted, in_to_compress>>
        /\ pc = "load" /\ pc' = "idle" /\ ~failed /\ load
    BY <1>3 DEF LoadAndReturn, Return, Live, matching, frame, load
  <2>2. /\ Live /\ Shift' = Shift /\ Slots' = Slots /\ Front' = Front
        /\ NextIdx' = NextIdx
    BY <2>1, ParamsKept DEF Live, Shift, Registered, Front, NextIdx
  <2>3. IInv /\ WindowShape /\ Content /\ TableSound
    BY DEF HInv
  <2>4. WindowShape' /\ TableSound'
    BY <2>1, <2>2, <2>3 DEF WindowShape, TableSound
  <2>5. ASSUME NEW i \in window'.low_limit .. window'.next_src_idx - 1
        PROVE  /\ PosOf(window, i)' \in Slots'
               /\ PosOf(window, i)' \notin in_to_compress' .. in_buff_pos' - 1
                  => in_buff'[PosOf(window, i)'] = i - Shift'
    <3> DEFINE p == PosOf(window, i)
    <3>1. /\ p \in Slots
          /\ p \notin in_to_compress .. in_buff_pos - 1 => in_buff[p] = i - Shift
      BY <2>1, <2>2, <2>3, <2>5 DEF Content
    <3>2. p' = p
      BY <2>1 DEF PosOf
    <3>3. loaded \in Nat /\ in_buff_pos' = in_buff_pos + loaded
      BY <2>1, <2>3, Loaded DEF IInv, load
    <3>4. in_to_compress <= in_buff_pos /\ in_to_compress \in Nat /\ in_buff_pos \in Nat
      BY <2>1, <2>3, HTypes, Counted DEF From
    <3>5. p \in Nat /\ DOMAIN in_buff = Slots
      BY <2>2, <2>3, <3>1, Counted, HTypes DEF Slots, Live
    <3> HIDE DEF p
    <3>6. ASSUME p \notin in_to_compress .. in_buff_pos' - 1
          PROVE  in_buff'[p] = i - Shift
      <4>1. p \notin in_buff_pos .. in_buff_pos + loaded - 1
            /\ p \notin in_to_compress .. in_buff_pos - 1
        BY <3>3, <3>4, <3>5, <3>6
      <4>2. in_buff'[p] = in_buff[p]
        BY <2>1, <3>1, <3>5, <4>1 DEF load
      <4> QED
        BY <3>1, <4>1, <4>2
    <3> QED
      BY <2>1, <2>2, <3>1, <3>2, <3>6 DEF p
  <2> QED
    BY <2>1, <2>4, <2>5 DEF Content
<1> QED
  BY <1>1, <1>2, <1>3

\* The chunk is registered: the window moves on to its end.
LEMMA CompressEntered ==
    ASSUME Unrecycled, HInv, IInv', LoadAndCompress, Live',
           NEW end, in_buff_pos' = end
    PROVE  /\ Live /\ pc = "load" /\ pc' = "blocks" /\ DOMAIN in_buff = Slots
           /\ Slots' = Slots /\ pos' = in_to_compress /\ in_to_compress' = in_to_compress
           /\ in_to_compress <= in_buff_pos /\ in_buff_pos <= end
           /\ end \in Nat /\ end <= BuffLen
           /\ end = in_buff_pos + loaded /\ loaded \in Nat
           /\ accepted' = Len(emitted) + (end - in_to_compress)
           /\ Shift \in Nat /\ window.next_src_idx = Shift + Len(emitted)
           /\ window.next_src_idx + (end - in_to_compress) < IndexMod
<1>1. IInv /\ WindowShape /\ Bounded /\ TypeOK /\ Pointers
  BY DEF HInv, IInv
<1>2. /\ pc = "load" /\ pc' = "blocks" /\ ~failed /\ ~failed' /\ load /\ Live
      /\ pos' = in_to_compress /\ in_to_compress' = in_to_compress
      /\ UNCHANGED <<params, emitted>> /\ end = in_buff_pos + loaded
      /\ left' = left - loaded /\ accepted' = accepted + loaded
  BY DEF LoadAndCompress, load, Live
<1>3. loaded \in Nat /\ loaded <= left
  BY <1>1, <1>2, Loaded
<1>4. /\ in_to_compress <= in_buff_pos /\ DOMAIN in_buff = Slots
      /\ Len(emitted) + (in_buff_pos - in_to_compress) = accepted
  BY <1>1, <1>2, Counted DEF From
<1>5. Slots' = Slots /\ BuffLen' = BuffLen
  BY <1>2, ParamsKept
<1>6. end <= BuffLen /\ end \in Nat
  <2>1. TypeOK' /\ Pointers'
    BY DEF IInv
  <2>2. in_buff_pos' <= in_buff_target' /\ in_buff_target' <= BuffLen'
    BY <1>2, <2>1 DEF Pointers
  <2>3. in_buff_target' \in Nat /\ in_buff_pos' \in Nat
    BY <2>1 DEF TypeOK
  <2> QED
    BY <1>1, <1>5, <2>2, <2>3, HTypes
<1>7. accepted' = Len(emitted) + (end - in_to_compress)
  <2>1. accepted + loaded = Len(emitted) + (end - in_to_compress)
    <3>1. /\ accepted \in Nat /\ in_buff_pos \in Nat /\ in_to_compress \in Nat
          /\ Len(emitted) \in Nat
      BY <1>1, HTypes
    <3> QED
      BY <1>2, <1>3, <1>4, <3>1
  <2> QED
    BY <1>2, <2>1
<1>8. Shift = window.next_src_idx - Len(emitted)
  BY <1>2 DEF Shift, Registered
<1>9. FirstIdx <= Shift /\ (Shift <= FirstIdx \/ Shift <= FirstIdx + BLOCK_SIZE_MAX)
  BY <1>1, <1>2, ConstantTypes DEF WindowShape
<1>10. Shift \in Nat /\ window.next_src_idx = Shift + Len(emitted)
  <2>1. window.next_src_idx \in Nat /\ Len(emitted) \in Nat
    BY <1>1, HTypes
  <2>2. Shift \in Int
    BY <1>8, <2>1
  <2>3. Shift \in Nat
    BY <1>9, <2>2, ConstantTypes
  <2> QED
    BY <1>8, <2>1, <2>3
<1>11. accepted + loaded <= MaxInput
  BY <1>1, <1>3, HTypes, ConstantTypes, SMTT(30) DEF Bounded
<1>12. window.next_src_idx + (end - in_to_compress) < IndexMod
  <2>1. Len(emitted) + (end - in_to_compress) <= MaxInput
    BY <1>2, <1>7, <1>11
  <2>2. end \in Nat /\ in_to_compress \in Nat /\ Len(emitted) \in Nat
    BY <1>1, <1>6, HTypes
  <2>3. in_to_compress <= end
    BY <1>2, <1>3, <1>4, <2>2, HTypes, <1>1, SMTT(30)
  <2>4. PICK size : size = end - in_to_compress
    OBVIOUS
  <2>5. size \in Nat
    BY <2>2, <2>3, <2>4
  <2> QED
    BY <1>9, <1>10, <2>1, <2>2, <2>4, <2>5, ConstantTypes
<1>13. in_buff_pos \in Nat
  BY <1>1, HTypes
<1>14. in_buff_pos <= end
  BY <1>2, <1>3, <1>13
<1> QED
  BY <1>2, <1>3, <1>4, <1>5, <1>6, <1>7, <1>10, <1>12, <1>14

LEMMA CompressEnteredWindow ==
    ASSUME Unrecycled, HInv, IInv', LoadAndCompress, Live',
           NEW end, in_buff_pos' = end, NEW w, window' = w
    PROVE  /\ Shift' = Shift
           /\ w.next_src_idx = window.next_src_idx + (end - in_to_compress)
           /\ window.low_limit <= w.low_limit
           /\ WindowShape' /\ w.low_limit \in Nat
           /\ \A i \in w.low_limit .. window.next_src_idx - 1 :
                  /\ PosOf(w, i) = PosOf(window, i)
                  /\ PosOf(w, i) \notin in_to_compress .. end - 1
           /\ \A i \in window.next_src_idx .. w.next_src_idx - 1 :
                  PosOf(w, i) = in_to_compress + (i - window.next_src_idx)
<1> PICK start : in_to_compress = start
  OBVIOUS
<1>1. IInv /\ WindowShape
  BY DEF HInv
<1>2. /\ Live /\ pc = "load" /\ pc' = "blocks" /\ start <= end /\ start \in Nat /\ end \in Nat
      /\ window.next_src_idx + (end - start) < IndexMod
      /\ window.next_src_idx \in Nat /\ Len(emitted) \in Nat /\ next_to_update \in Nat
      /\ window.low_limit \in Nat /\ window.dict_limit \in Nat
      /\ accepted' = Len(emitted) + (end - start) /\ Shift \in Nat
      /\ window.next_src_idx = Shift + Len(emitted)
      /\ IndexMod \in Nat /\ FirstIdx \in Nat
  <2>1. /\ Live /\ pc = "load" /\ pc' = "blocks"
        /\ in_to_compress <= in_buff_pos /\ in_buff_pos <= end /\ end \in Nat
        /\ accepted' = Len(emitted) + (end - in_to_compress)
        /\ Shift \in Nat /\ window.next_src_idx = Shift + Len(emitted)
        /\ window.next_src_idx + (end - in_to_compress) < IndexMod
    BY CompressEntered
  <2>2. in_to_compress \in Nat /\ in_buff_pos \in Nat
    BY <1>1, HTypes
  <2> QED
    BY <1>1, <2>1, <2>2, HTypes, ConstantTypes
<1>3. /\ window.loaded_dict_end = 0
      /\ window.next_src_idx = window.seg_bias + window.next_src_pos
      /\ start \in {window.next_src_pos, 0} /\ FirstIdx <= Shift
      /\ Shift <= FirstIdx + IF seeded THEN BLOCK_SIZE_MAX ELSE 0
      /\ window.low_limit <= window.dict_limit
      /\ window.dict_limit <= window.next_src_idx /\ window.dict_limit <= next_to_update
  BY <1>1, <1>2 DEF WindowShape, Front
<1>4. /\ w = update(window, start, end) /\ seeded' = seeded
      /\ next_to_update' = IF start = end \/ contiguous(window, start)
                           THEN next_to_update ELSE w.dict_limit
  BY DEF LoadAndCompress
<1>5. window \in Windows
  BY <1>1, HTypes
<1>6. /\ w.next_src_idx = w.seg_bias + w.next_src_pos
      /\ start # end => w.next_src_pos = end
      /\ start = end => w = window
      /\ w.next_src_idx = window.next_src_idx + (end - start)
      /\ w.loaded_dict_end = 0 /\ w.low_limit \in Nat
      /\ window.low_limit <= w.low_limit /\ w.low_limit <= w.dict_limit
      /\ w.dict_limit <= w.next_src_idx /\ w.dict_limit <= next_to_update'
      /\ \A i \in w.low_limit .. window.next_src_idx - 1 :
             PosOf(w, i) = PosOf(window, i) /\ PosOf(w, i) \notin start .. end - 1
      /\ \A i \in window.next_src_idx .. w.next_src_idx - 1 :
             PosOf(w, i) = start + (i - window.next_src_idx)
  <2>1. CASE start = end
    <3>1. w = window /\ next_to_update' = next_to_update
      BY <1>4, <2>1 DEF update
    <3>2. start .. end - 1 = {} /\ window.next_src_idx .. window.next_src_idx - 1 = {}
          /\ window.next_src_idx + (end - start) = window.next_src_idx
      BY <1>2, <2>1
    <3> QED
      BY <1>2, <1>3, <2>1, <3>1, <3>2
  <2>2. CASE start # end
    <3>1. start < end /\ (start = window.next_src_pos \/ start = 0)
      BY <1>2, <1>3, <2>2
    <3>2. /\ w.next_src_pos = end /\ w.next_src_idx = w.seg_bias + end
          /\ w.next_src_idx = window.next_src_idx + (end - start)
          /\ w.loaded_dict_end = window.loaded_dict_end
          /\ w.low_limit \in Nat /\ window.low_limit <= w.low_limit
          /\ w.low_limit <= w.dict_limit
          /\ w.dict_limit = IF contiguous(window, start) THEN window.dict_limit
                            ELSE window.next_src_idx
          /\ \A i \in w.low_limit .. window.next_src_idx - 1 :
                 PosOf(w, i) = PosOf(window, i) /\ PosOf(w, i) \notin start .. end - 1
          /\ \A i \in window.next_src_idx .. w.next_src_idx - 1 :
                 PosOf(w, i) = start + (i - window.next_src_idx)
      <4>1. /\ window.low_limit <= window.dict_limit
            /\ window.dict_limit <= window.next_src_idx
            /\ window.next_src_idx = window.seg_bias + window.next_src_pos
        BY <1>3
      <4>2. start \in Nat /\ end \in Nat
            /\ window.next_src_idx + (end - start) < IndexMod
        BY <1>2
      <4>3. w = update(window, start, end)
        BY <1>4
      <4> QED
        BY <1>5, <3>1, <4>1, <4>2, <4>3, UpdateReads
    <3>3. w.dict_limit <= w.next_src_idx /\ w.dict_limit <= next_to_update'
      BY <1>2, <1>3, <1>4, <2>2, <3>1, <3>2
    <3> QED
      BY <1>3, <2>2, <3>2, <3>3
  <2> QED
    BY <2>1, <2>2
<1>7. Shift' = Shift
  <2>1. Shift' = w.next_src_idx - accepted'
    BY <1>2 DEF Shift, Registered
  <2>2. w.next_src_idx = (Shift + Len(emitted)) + (end - start)
    BY <1>2, <1>6
  <2>3. (Shift + Len(emitted)) + (end - start) - (Len(emitted) + (end - start)) = Shift
    BY <1>2
  <2> QED
    BY <1>2, <2>1, <2>2, <2>3
<1>8. Front' \in {w.next_src_pos, 0}
  <2>1. Front' = end
    BY <1>2 DEF Front
  <2> QED
    BY <1>3, <1>6, <2>1
<1>9. WindowShape'
  BY <1>3, <1>4, <1>6, <1>7, <1>8 DEF WindowShape
<1> QED
  BY <1>6, <1>7, <1>9

LEMMA CompressEnteredHistory ==
    ASSUME Unrecycled, HInv, IInv', LoadAndCompress
    PROVE  WindowShape' /\ Content' /\ TableSound'
<1>1. CASE ~Live'
  BY <1>1 DEF WindowShape, Content, TableSound
<1>2. CASE Live'
  <2> PICK end, w : in_buff_pos' = end /\ window' = w
    OBVIOUS
  <2>1. IInv /\ Content /\ TableSound
    BY DEF HInv
  <2>2. /\ Live /\ pc = "load" /\ pc' = "blocks" /\ DOMAIN in_buff = Slots
        /\ Slots' = Slots /\ pos' = in_to_compress
        /\ in_to_compress <= in_buff_pos /\ in_buff_pos <= end
        /\ end \in Nat /\ end <= BuffLen
        /\ end = in_buff_pos + loaded /\ loaded \in Nat
        /\ Shift \in Nat /\ window.next_src_idx = Shift + Len(emitted)
    BY <1>2, CompressEntered
  <2>3. /\ Shift' = Shift /\ WindowShape' /\ w.low_limit \in Nat /\ window.low_limit <= w.low_limit
        /\ w.next_src_idx = window.next_src_idx + (end - in_to_compress)
        /\ \A i \in w.low_limit .. window.next_src_idx - 1 :
               /\ PosOf(w, i) = PosOf(window, i)
               /\ PosOf(w, i) \notin in_to_compress .. end - 1
        /\ \A i \in window.next_src_idx .. w.next_src_idx - 1 :
               PosOf(w, i) = in_to_compress + (i - window.next_src_idx)
    BY <1>2, CompressEnteredWindow
  <2>4. /\ in_to_compress \in Nat /\ in_buff_pos \in Nat /\ BuffLen \in Nat
        /\ window.low_limit \in Nat /\ w.low_limit \in Nat
        /\ window.next_src_idx \in Nat /\ Len(emitted) \in Nat
    BY <2>1, <2>3, HTypes
  <2>5. ASSUME NEW i \in w.low_limit .. window.next_src_idx - 1
        PROVE  PosOf(w, i) \in Slots /\ in_buff'[PosOf(w, i)] = i - Shift
    <3> DEFINE p == PosOf(w, i)
    <3>1. p = PosOf(window, i) /\ p \notin in_to_compress .. end - 1
      BY <2>3
    <3>2. i \in window.low_limit .. window.next_src_idx - 1
      BY <2>3, <2>4
    <3>3. p \in Slots
          /\ (p \notin in_to_compress .. in_buff_pos - 1 => in_buff[p] = i - Shift)
      BY <2>1, <2>2, <3>1, <3>2 DEF Content
    <3>4. p \in Nat
      BY <2>4, <3>3 DEF Slots
    <3> HIDE DEF p
    <3>5. p \notin in_to_compress .. in_buff_pos - 1
          /\ p \notin in_buff_pos .. in_buff_pos + loaded - 1
      BY <2>2, <2>4, <3>1, <3>4
    <3>6. in_buff'[p] = in_buff[p]
      BY <2>2, <3>3, <3>5 DEF LoadAndCompress, load
    <3> QED
      BY <3>3, <3>5, <3>6 DEF p
  <2>6. ASSUME NEW i \in window.next_src_idx .. w.next_src_idx - 1
        PROVE  PosOf(w, i) \in Slots /\ in_buff'[PosOf(w, i)] = i - Shift
    <3> DEFINE p == PosOf(w, i)
    <3>1. p = in_to_compress + (i - window.next_src_idx)
      BY <2>3
    <3>2. p \in in_to_compress .. end - 1 /\ i \in Int
      BY <2>2, <2>3, <2>4, <3>1
    <3>3. emitted' = emitted /\ From' = in_to_compress /\ IInv' /\ ~failed'
      BY <1>2, <2>2 DEF LoadAndCompress, From, Live
    <3>4. in_buff'[p] = Len(emitted) + (p - in_to_compress)
      <4>1. Accounting'
        BY DEF IInv
      <4> QED
        BY <3>2, <3>3, <4>1 DEF Accounting
    <3>5. Len(emitted) + (p - in_to_compress) = i - Shift
      BY <2>2, <2>4, <3>1, <3>2
    <3>6. p \in Slots
      BY <2>2, <2>4, <3>2 DEF Slots
    <3> QED
      BY <3>4, <3>5, <3>6
  <2>7. Content'
    <3>1. ASSUME NEW i \in w.low_limit .. w.next_src_idx - 1
          PROVE  PosOf(w, i) \in Slots /\ in_buff'[PosOf(w, i)] = i - Shift
      <4>1. \/ i \in w.low_limit .. window.next_src_idx - 1
            \/ i \in window.next_src_idx .. w.next_src_idx - 1
        BY <2>2, <2>3, <2>4
      <4> QED
        BY <2>5, <2>6, <4>1
    <3> QED
      BY <2>2, <2>3, <3>1 DEF Content
  <2>8. NextIdx' = NextIdx
    <3>1. NextIdx = window.next_src_idx - 0
      BY <2>2 DEF NextIdx
    <3>2. NextIdx' = w.next_src_idx - (end - in_to_compress)
      BY <2>2 DEF NextIdx, chunk_end
    <3> QED
      BY <2>2, <2>3, <2>4, <3>1, <3>2
  <2>9. TableSound'
    <3>1. table' = table
      BY DEF LoadAndCompress
    <3>2. \A e \in table : e[1] \in Nat
      BY <2>1, HTypes
    <3> QED
      BY <2>1, <2>2, <2>3, <2>4, <2>8, <3>1, <3>2 DEF TableSound
  <2> QED
    BY <2>3, <2>7, <2>9
<1> QED
  BY <1>1, <1>2

-----------------------------------------------------------------------------
(* A block: no correction, the slide of the window, and what is inserted.  *)

LEMMA InsertedDenotes ==
    ASSUME TypeOK, NEW w \in Windows, NEW from \in Nat, w.dict_limit <= from,
           NEW n \in Nat, NEW shift \in Int,
           \A i \in w.dict_limit .. pos + n + w.seg_bias - 1 :
               ReadAt(i - w.seg_bias) = i - shift
    PROVE  /\ from <= InsertTo(w, from, n)
           /\ \A t \in Inserted(w, from, n) :
                  from <= t[1] /\ t[1] < pos + n + w.seg_bias /\ t[2] = t[1] - shift
<1> DEFINE curr == pos + w.seg_bias
           first == InsertFrom(w, from)
<1>1. /\ pos \in Nat /\ w.seg_bias \in Nat /\ w.dict_limit \in Nat /\ InsertLag \in Nat
      /\ UpdateGap \in Nat /\ UpdateKeep \in Nat
  BY WindowFields, EncoderAssumption DEF TypeOK
<1>2. first \in Nat /\ from <= first
  <2>1. curr \in Nat
    BY <1>1
  <2> HIDE DEF curr
  <2>2. limit_update(curr, from) \in Nat /\ from <= limit_update(curr, from)
    BY <1>1, <2>1 DEF limit_update, Smaller
  <2> QED
    BY <2>2 DEF InsertFrom, curr
<1> HIDE DEF curr, first
<1>3. InsertTo(w, from, n) = Larger(first, pos + n + w.seg_bias - InsertLag)
  BY DEF InsertTo, first
<1>4. from <= InsertTo(w, from, n)
  BY <1>1, <1>2, <1>3 DEF Larger
<1>5. ASSUME NEW t \in Inserted(w, from, n)
      PROVE  from <= t[1] /\ t[1] < pos + n + w.seg_bias /\ t[2] = t[1] - shift
  <2>1. PICK i \in first .. InsertTo(w, from, n) - 1 : t = <<i, ReadAt(i - w.seg_bias)>>
    BY DEF Inserted, first
  <2>2. i \in Int /\ first <= i /\ i < InsertTo(w, from, n)
    BY <1>1, <1>2, <1>3, <2>1 DEF Larger
  <2>3. i < pos + n + w.seg_bias
    BY <1>1, <1>2, <1>3, <2>2 DEF Larger
  <2>4. i \in w.dict_limit .. pos + n + w.seg_bias - 1 /\ from <= i
    BY <1>1, <1>2, <2>2, <2>3
  <2>5. ReadAt(i - w.seg_bias) = i - shift
    BY <2>4
  <2> QED
    BY <2>1, <2>3, <2>4, <2>5
<1> QED
  BY <1>4, <1>5

LEMMA BlockUncorrected ==
    ASSUME Unrecycled, HInv, NEW n \in 1 .. BLOCK_SIZE_MAX, CompressBlock(n), ~failed
    PROVE  /\ Live /\ pc = "blocks" /\ DOMAIN in_buff = Slots
           /\ n \in Nat /\ n >= 1 /\ pos + n <= in_buff_pos /\ in_to_compress <= pos
           /\ ~needs_overflow_correction(window, pos + n)
           /\ pos + window.seg_bias < IndexMod
           /\ window.next_src_idx = window.seg_bias + in_buff_pos
           /\ window.next_src_idx = Shift + accepted
           /\ Shift \in Nat /\ NextIdx = pos + window.seg_bias
           /\ window.next_src_idx <= FirstIdx + MaxInput + IF seeded THEN BLOCK_SIZE_MAX ELSE 0
<1>1. IInv /\ TypeOK /\ Pointers
  BY DEF HInv, IInv
<1>2. Live /\ pc = "blocks" /\ pos < chunk_end
  BY DEF CompressBlock, Live
<1>3. /\ n \in Nat /\ n >= 1 /\ n <= in_buff_pos - pos /\ pos \in Nat /\ in_buff_pos \in Nat
  BY <1>1, BlockSize DEF chunk_end
<1>4. DOMAIN in_buff = Slots /\ in_to_compress <= pos
  BY <1>1, <1>2, Counted DEF Live, From
<1>5. /\ window.next_src_idx = window.seg_bias + in_buff_pos
      /\ window.next_src_idx = Shift + accepted
      /\ Shift \in Nat /\ NextIdx = pos + window.seg_bias
      /\ window.next_src_idx <= FirstIdx + MaxInput + IF seeded THEN BLOCK_SIZE_MAX ELSE 0
  BY <1>2, InBlocks DEF chunk_end
<1>6. window.seg_bias \in Nat /\ window.next_src_idx \in Nat
  BY <1>1, HTypes
<1>7. window.next_src_idx <= CurrentMax
  BY <1>5, <1>6, ConstantTypes
<1>8. pos + n + window.seg_bias <= CurrentMax /\ pos + n + window.seg_bias \in Nat
  BY <1>3, <1>5, <1>6, <1>7, ConstantTypes
<1>9. W32(pos + n + window.seg_bias) = pos + n + window.seg_bias
  BY <1>8, ConstantTypes, W32Facts
<1>10. ~needs_overflow_correction(window, pos + n)
  BY <1>8, <1>9, ConstantTypes DEF needs_overflow_correction
<1>11. pos + window.seg_bias < IndexMod
  BY <1>3, <1>6, <1>8, ConstantTypes
<1>12. pos + n <= in_buff_pos
  BY <1>3
<1> QED
  BY <1>2, <1>3, <1>4, <1>5, <1>10, <1>11, <1>12

\* The window at the block: valid indices stay where they were, only fewer.
LEMMA BlockWindow ==
    ASSUME Unrecycled, HInv, NEW n \in 1 .. BLOCK_SIZE_MAX, CompressBlock(n), ~failed,
           NEW e, WindowAtBlock(n) = e
    PROVE  /\ ReducedTable(n) = table /\ e \in Windows
           /\ e.seg_bias = window.seg_bias /\ e.dict_bias = window.dict_bias
           /\ e.next_src_pos = window.next_src_pos
           /\ e.next_src_idx = window.next_src_idx /\ e.loaded_dict_end = 0
           /\ e.low_limit \in Nat /\ e.dict_limit \in Nat
           /\ window.low_limit <= e.low_limit /\ e.low_limit <= e.dict_limit
           /\ e.dict_limit < e.next_src_idx \/ e.dict_limit = window.dict_limit
           /\ e.dict_limit <= e.next_src_idx
           /\ ResumeAt(n) \in Nat /\ e.dict_limit <= ResumeAt(n)
           /\ \A i \in e.low_limit .. e.next_src_idx - 1 :
                  ReadAt(PosOf(e, i)) = i - Shift /\ PosOf(e, i) \in Slots
<1>1. IInv /\ WindowShape /\ Content /\ TypeOK /\ Pointers
  BY DEF HInv, IInv
<1>2. /\ Live /\ pc = "blocks" /\ DOMAIN in_buff = Slots
      /\ n \in Nat /\ n >= 1 /\ pos + n <= in_buff_pos
      /\ ~needs_overflow_correction(window, pos + n)
      /\ pos + window.seg_bias < IndexMod
      /\ window.next_src_idx = window.seg_bias + in_buff_pos
  BY BlockUncorrected
<1>3. /\ window \in Windows /\ window.seg_bias \in Nat /\ pos \in Nat
      /\ window.low_limit \in Nat /\ window.dict_limit \in Nat
      /\ window.next_src_idx \in Nat /\ in_buff_pos \in Nat
      /\ max_dist \in Nat /\ max_dist \in WindowSizes /\ next_to_update \in Nat
  BY <1>1, HTypes
<1>4. ReducedTable(n) = table /\ CorrectedBy(n) = 0
  BY <1>2 DEF ReducedTable, CorrectedBy
<1> DEFINE b == W32(pos + n + window.seg_bias)
           idx == pos + window.seg_bias
<1>5. idx \in Nat /\ W32(idx) = idx
  BY <1>2, <1>3, W32Facts
<1>6. e = enforce_max_dist(check_dict_validity(window, b, max_dist), W32(idx), max_dist)
  BY <1>2 DEF WindowAtBlock
<1>7. e = enforce_max_dist(check_dict_validity(window, b, max_dist), idx, max_dist)
  BY <1>5, <1>6
<1>8. /\ window.loaded_dict_end = 0 /\ window.low_limit <= window.dict_limit
      /\ window.dict_limit <= window.next_src_idx /\ window.dict_limit <= next_to_update
  BY <1>1, <1>2 DEF WindowShape
<1>9. max_dist < IndexMod /\ idx < IndexMod /\ idx < window.next_src_idx
  BY <1>2, <1>3 DEF Unrecycled
<1> HIDE DEF b, idx
<1>10. /\ e.seg_bias = window.seg_bias /\ e.dict_bias = window.dict_bias
       /\ e.next_src_pos = window.next_src_pos /\ e.next_src_idx = window.next_src_idx
       /\ e.loaded_dict_end = 0
       /\ e.low_limit \in Nat /\ e.dict_limit \in Nat
       /\ window.low_limit <= e.low_limit /\ e.low_limit <= e.dict_limit
       /\ window.dict_limit <= e.dict_limit
       /\ e.dict_limit = window.dict_limit
          \/ (e.dict_limit = e.low_limit /\ e.dict_limit <= idx)
       /\ \A i \in Int : e.low_limit <= i => PosOf(e, i) = PosOf(window, i)
  BY <1>3, <1>5, <1>7, <1>8, <1>9, EnforceReads
<1>11. e \in Windows /\ ResumeAt(n) \in Nat
  BY <1>1, <1>2, BlockWindowType
<1>12. e.dict_limit <= ResumeAt(n)
  <2>1. ResumeAt(n) = Larger(Larger(0, next_to_update), e.low_limit)
    BY <1>3, <1>4 DEF ResumeAt
  <2> QED
    BY <1>3, <1>8, <1>10, <2>1 DEF Larger
<1>13. /\ e.dict_limit < e.next_src_idx \/ e.dict_limit = window.dict_limit
       /\ e.dict_limit <= e.next_src_idx
  BY <1>3, <1>5, <1>8, <1>9, <1>10
<1>14. ASSUME NEW i \in e.low_limit .. e.next_src_idx - 1
       PROVE  ReadAt(PosOf(e, i)) = i - Shift /\ PosOf(e, i) \in Slots
  <2>1. i \in window.low_limit .. window.next_src_idx - 1 /\ i \in Int /\ e.low_limit <= i
    BY <1>3, <1>10
  <2>2. PosOf(window, i) \in Slots /\ in_buff[PosOf(window, i)] = i - Shift
    BY <1>1, <1>2, <2>1 DEF Content
  <2>3. PosOf(e, i) = PosOf(window, i)
    BY <1>10, <2>1
  <2> QED
    BY <1>2, <2>2, <2>3 DEF ReadAt
<1> QED
  BY <1>4, <1>10, <1>11, <1>12, <1>13, <1>14

\* Skipped or searched once: the window of the block, and what was inserted.
LEMMA PlainBlockHistory ==
    ASSUME Unrecycled, HInv, IInv', NEW n \in 1 .. BLOCK_SIZE_MAX, CompressBlock(n),
           ~failed, ~(Searched(n) /\ Restarts(n))
    PROVE  WindowShape' /\ Content' /\ TableSound'
<1> PICK e, from : WindowAtBlock(n) = e /\ ResumeAt(n) = from
  OBVIOUS
<1>1. IInv /\ WindowShape /\ TableSound /\ TypeOK
  BY DEF HInv, IInv
<1>2. /\ Live /\ pc = "blocks" /\ DOMAIN in_buff = Slots
      /\ n \in Nat /\ n >= 1 /\ pos + n <= in_buff_pos
      /\ window.next_src_idx = window.seg_bias + in_buff_pos
      /\ Shift \in Nat /\ NextIdx = pos + window.seg_bias
  BY BlockUncorrected
<1>3. /\ ReducedTable(n) = table /\ e \in Windows
      /\ e.seg_bias = window.seg_bias /\ e.next_src_pos = window.next_src_pos
      /\ e.next_src_idx = window.next_src_idx /\ e.loaded_dict_end = 0
      /\ e.low_limit \in Nat /\ e.dict_limit \in Nat
      /\ window.low_limit <= e.low_limit /\ e.low_limit <= e.dict_limit
      /\ e.dict_limit <= e.next_src_idx /\ from \in Nat /\ e.dict_limit <= from
      /\ \A i \in e.low_limit .. e.next_src_idx - 1 :
             ReadAt(PosOf(e, i)) = i - Shift /\ PosOf(e, i) \in Slots
  BY BlockWindow
<1>4. /\ pos \in Nat /\ in_buff_pos \in Nat /\ window.seg_bias \in Nat
      /\ window.low_limit \in Nat /\ accepted \in Nat
      /\ table \subseteq Nat \X Int /\ seeded \in BOOLEAN
  BY <1>1, HTypes
<1>5. /\ window' = e /\ pos' = pos + n
      /\ UNCHANGED <<params, in_buff, in_to_compress, in_buff_pos, accepted, pc, failed>>
      /\ seeded' = (seeded \/ Searched(n))
      /\ \/ table' = table /\ next_to_update' = from
         \/ /\ table' = table \cup Inserted(e, from, n)
            /\ next_to_update' = InsertTo(e, from, n)
  BY <1>3 DEF CompressBlock, Search, Skip, staging
<1>6. /\ from <= InsertTo(e, from, n) /\ InsertTo(e, from, n) \in Nat
      /\ \A t \in Inserted(e, from, n) :
             from <= t[1] /\ t[1] < pos + n + e.seg_bias /\ t[2] = t[1] - Shift
  <2>1. ASSUME NEW i \in e.dict_limit .. pos + n + e.seg_bias - 1
        PROVE  ReadAt(i - e.seg_bias) = i - Shift
    <3>1. i \in e.low_limit .. e.next_src_idx - 1 /\ ~(i < e.dict_limit)
      BY <1>2, <1>3, <1>4
    <3>2. PosOf(e, i) = i - e.seg_bias
      BY <3>1 DEF PosOf
    <3> QED
      BY <1>3, <3>1, <3>2
  <2>2. TypeOK /\ e \in Windows /\ from \in Nat /\ e.dict_limit <= from /\ n \in Nat
    BY <1>1, <1>2, <1>3
  <2>3. InsertTo(e, from, n) \in Nat
    BY <2>2, InsertType
  <2>4. Shift \in Int
    BY <1>2
  <2> QED
    BY <2>1, <2>2, <2>3, <2>4, InsertedDenotes, ZenonT(60)
<1>7. Live' /\ Shift' = Shift /\ Slots' = Slots /\ Front' = Front
  BY <1>2, <1>3, <1>5, ParamsKept DEF Live, Shift, Registered, Front
<1>8. NextIdx' = NextIdx + n /\ NextIdx + n = pos + n + e.seg_bias
  <2>1. NextIdx' = e.next_src_idx - (in_buff_pos - pos')
    BY <1>2, <1>5 DEF NextIdx, chunk_end
  <2>2. e.next_src_idx - (in_buff_pos - (pos + n)) = pos + n + e.seg_bias
    BY <1>2, <1>3, <1>4
  <2>3. NextIdx + n = pos + n + e.seg_bias
    BY <1>2, <1>3, <1>4
  <2> QED
    BY <1>5, <2>1, <2>2, <2>3
<1>9. WindowShape'
  <2>1. Shift <= FirstIdx + IF seeded' THEN BLOCK_SIZE_MAX ELSE 0
    <3>1. Shift <= FirstIdx + IF seeded THEN BLOCK_SIZE_MAX ELSE 0
      BY <1>1, <1>2 DEF WindowShape
    <3>2. seeded => seeded'
      BY <1>5
    <3> QED
      BY <1>2, <3>1, <3>2, ConstantTypes
  <2>2. /\ FirstIdx <= Shift /\ Front \in {window.next_src_pos, 0}
        /\ window.next_src_idx = window.seg_bias + window.next_src_pos
    BY <1>1, <1>2 DEF WindowShape
  <2>3. e.dict_limit <= next_to_update'
    BY <1>3, <1>5, <1>6
  <2> QED
    BY <1>3, <1>5, <1>7, <2>1, <2>2, <2>3 DEF WindowShape
<1>10. Content'
  <2>1. ASSUME NEW i \in e.low_limit .. e.next_src_idx - 1
        PROVE  PosOf(e, i) \in Slots /\ in_buff[PosOf(e, i)] = i - Shift
    BY <1>2, <1>3 DEF ReadAt
  <2> QED
    BY <1>2, <1>5, <1>7, <2>1 DEF Content
<1>11. TableSound'
  <2>1. ASSUME NEW t \in table
        PROVE  t[1] < NextIdx + n /\ (t[1] >= e.low_limit => t[2] = t[1] - Shift)
    <3>1. t[1] < NextIdx /\ (t[1] >= window.low_limit => t[2] = t[1] - Shift)
      BY <1>1, <1>2 DEF TableSound
    <3>2. t[1] \in Nat
      BY <1>4
    <3> QED
      BY <1>2, <1>3, <1>4, <3>1, <3>2
  <2>2. ASSUME NEW t \in Inserted(e, from, n)
        PROVE  t[1] < NextIdx + n /\ (t[1] >= e.low_limit => t[2] = t[1] - Shift)
    BY <1>6, <1>8
  <2> QED
    BY <1>5, <1>7, <1>8, <2>1, <2>2 DEF TableSound
<1> QED
  BY <1>9, <1>10, <1>11

\* Parsed twice: the second parse has indices of its own, after all of the first.
LEMMA RestartedHistory ==
    ASSUME Unrecycled, HInv, IInv', NEW n \in 1 .. BLOCK_SIZE_MAX, CompressBlock(n),
           ~failed, Searched(n), Restarts(n)
    PROVE  WindowShape' /\ Content' /\ TableSound'
<1> PICK e, from, s : /\ WindowAtBlock(n) = e /\ ResumeAt(n) = from
                      /\ slide_for_init_stats(e, n) = s
  OBVIOUS
<1>1. IInv /\ WindowShape /\ TableSound /\ TypeOK
  BY DEF HInv, IInv
<1>2. /\ Live /\ pc = "blocks" /\ DOMAIN in_buff = Slots
      /\ n \in Nat /\ n >= 1 /\ pos + n <= in_buff_pos
      /\ pos + window.seg_bias < IndexMod
      /\ window.next_src_idx = window.seg_bias + in_buff_pos
      /\ Shift \in Nat /\ NextIdx = pos + window.seg_bias
      /\ window.next_src_idx <= FirstIdx + MaxInput + IF seeded THEN BLOCK_SIZE_MAX ELSE 0
  BY BlockUncorrected
<1>3. /\ ReducedTable(n) = table /\ e \in Windows
      /\ e.seg_bias = window.seg_bias /\ e.next_src_pos = window.next_src_pos
      /\ e.next_src_idx = window.next_src_idx /\ e.loaded_dict_end = 0
      /\ e.low_limit \in Nat /\ e.dict_limit \in Nat
      /\ e.dict_limit <= e.next_src_idx /\ from \in Nat /\ e.dict_limit <= from
      /\ \A i \in e.low_limit .. e.next_src_idx - 1 :
             ReadAt(PosOf(e, i)) = i - Shift /\ PosOf(e, i) \in Slots
  BY BlockWindow
<1>4. /\ pos \in Nat /\ in_buff_pos \in Nat /\ window.seg_bias \in Nat
      /\ window.next_src_idx \in Nat /\ accepted \in Nat
      /\ table \subseteq Nat \X Int /\ seeded \in BOOLEAN
  BY <1>1, HTypes
<1>5. /\ ~seeded /\ e.dict_limit = e.low_limit
      /\ pos + e.seg_bias = e.dict_limit /\ e.seg_bias \in Nat
  <2>1. /\ ~seeded /\ e.dict_limit = e.low_limit /\ W32(pos + e.seg_bias) = e.dict_limit
    BY DEF Restarts
  <2>2. pos + e.seg_bias \in Nat /\ pos + e.seg_bias < IndexMod
    BY <1>2, <1>3, <1>4
  <2> QED
    BY <1>3, <1>4, <2>1, <2>2, W32Facts
<1>6. /\ s.seg_bias = e.seg_bias + n /\ s.next_src_idx = e.next_src_idx + n
      /\ s.dict_limit = e.dict_limit + n /\ s.low_limit = s.dict_limit
      /\ s.next_src_pos = e.next_src_pos /\ s.loaded_dict_end = 0
      /\ s \in Windows
  <2>1. e.next_src_idx + n < IndexMod
    <3>1. e.next_src_idx <= FirstIdx + MaxInput
      BY <1>2, <1>3, <1>5, ConstantTypes
    <3>2. n <= BLOCK_SIZE_MAX
      BY ConstantTypes
    <3> QED
      BY <1>2, <1>3, <1>4, <3>1, <3>2, ConstantTypes
  <2>2. e.seg_bias <= e.next_src_idx
    BY <1>2, <1>3, <1>4
  <2>3. slide_for_init_stats(e, n) \in Windows
    BY <1>2, <1>3, SlideType
  <2> QED
    BY <1>2, <1>3, <2>1, <2>2, <2>3, SlideReads
<1>7. /\ window' = s /\ pos' = pos + n /\ seeded' = TRUE
      /\ UNCHANGED <<params, in_buff, in_to_compress, in_buff_pos, accepted, pc, failed>>
      /\ table' = table \cup Inserted(e, from, n) \cup Inserted(s, s.dict_limit, n)
      /\ next_to_update' = InsertTo(s, s.dict_limit, n)
  BY <1>3 DEF CompressBlock, Search, staging
<1>8. \A t \in Inserted(e, from, n) : t[1] \in Nat /\ t[1] < pos + n + e.seg_bias
  <2>1. ASSUME NEW i \in e.dict_limit .. pos + n + e.seg_bias - 1
        PROVE  ReadAt(i - e.seg_bias) = i - Shift
    <3>1. i \in e.low_limit .. e.next_src_idx - 1 /\ ~(i < e.dict_limit)
      BY <1>2, <1>3, <1>4, <1>5
    <3>2. PosOf(e, i) = i - e.seg_bias
      BY <3>1 DEF PosOf
    <3> QED
      BY <1>3, <3>1, <3>2
  <2>2. TypeOK /\ e \in Windows /\ from \in Nat /\ e.dict_limit <= from /\ n \in Nat
    BY <1>1, <1>2, <1>3
  <2>3. Shift \in Int
    BY <1>2
  <2>4. Inserted(e, from, n) \subseteq Nat \X Int
    BY <2>2, InsertType
  <2>5. \A t \in Inserted(e, from, n) : t[1] < pos + n + e.seg_bias
    BY <2>1, <2>2, <2>3, InsertedDenotes
  <2> QED
    BY <2>4, <2>5
<1>9. ASSUME NEW i \in s.low_limit .. s.next_src_idx - 1
      PROVE  /\ PosOf(s, i) = i - s.seg_bias /\ PosOf(s, i) \in Slots
             /\ ReadAt(PosOf(s, i)) = i - (Shift + n)
  <2>1. i \in Int /\ ~(i < s.dict_limit)
    BY <1>2, <1>3, <1>4, <1>6
  <2>2. PosOf(s, i) = i - s.seg_bias
    BY <2>1 DEF PosOf
  <2>3. i - n \in e.low_limit .. e.next_src_idx - 1 /\ ~(i - n < e.dict_limit)
    BY <1>2, <1>3, <1>4, <1>5, <1>6
  <2>4. PosOf(e, i - n) = i - n - e.seg_bias
    BY <2>3 DEF PosOf
  <2>5. ReadAt(PosOf(e, i - n)) = i - n - Shift /\ PosOf(e, i - n) \in Slots
    BY <1>3, <2>3
  <2>6. i - n - e.seg_bias = i - s.seg_bias /\ i - n - Shift = i - (Shift + n)
    BY <1>2, <1>5, <1>6, <2>1
  <2> QED
    BY <2>2, <2>4, <2>5, <2>6
<1>10. /\ s.dict_limit <= InsertTo(s, s.dict_limit, n)
       /\ \A t \in Inserted(s, s.dict_limit, n) :
              t[1] < pos + n + s.seg_bias /\ t[2] = t[1] - (Shift + n)
  <2>1. ASSUME NEW i \in s.dict_limit .. pos + n + s.seg_bias - 1
        PROVE  ReadAt(i - s.seg_bias) = i - (Shift + n)
    <3>1. i \in s.low_limit .. s.next_src_idx - 1
      BY <1>2, <1>3, <1>4, <1>5, <1>6
    <3> QED
      BY <1>9, <3>1
  <2>2. TypeOK /\ s \in Windows /\ n \in Nat /\ s.dict_limit \in Nat
        /\ s.dict_limit <= s.dict_limit
    BY <1>1, <1>2, <1>3, <1>6
  <2>3. Shift + n \in Int
    BY <1>2
  <2> QED
    BY <2>1, <2>2, <2>3, InsertedDenotes
<1>11. Shift' = Shift + n
  <2>1. Shift' = s.next_src_idx - accepted
    BY <1>2, <1>7 DEF Shift, Registered
  <2>2. Shift = window.next_src_idx - accepted
    BY <1>2 DEF Shift, Registered
  <2> QED
    BY <1>2, <1>3, <1>4, <1>6, <2>1, <2>2
<1>12. Live' /\ Slots' = Slots /\ Front' = Front
  BY <1>2, <1>7, ParamsKept DEF Live, Front
<1>13. NextIdx' = pos + n + s.seg_bias
  <2>1. NextIdx' = s.next_src_idx - (in_buff_pos - pos')
    BY <1>2, <1>7 DEF NextIdx, chunk_end
  <2>2. s.next_src_idx - (in_buff_pos - (pos + n)) = pos + n + s.seg_bias
    BY <1>2, <1>3, <1>4, <1>5, <1>6
  <2> QED
    BY <1>7, <2>1, <2>2
<1>14. WindowShape'
  <2>1. FirstIdx <= Shift /\ Shift <= FirstIdx /\ Front \in {window.next_src_pos, 0}
        /\ window.next_src_idx = window.seg_bias + window.next_src_pos
    BY <1>1, <1>2, <1>5, ConstantTypes DEF WindowShape
  <2>2. FirstIdx <= Shift + n /\ Shift + n <= FirstIdx + BLOCK_SIZE_MAX
    BY <1>2, <2>1, ConstantTypes
  <2>3. /\ s.next_src_idx = s.seg_bias + s.next_src_pos
        /\ s.dict_limit <= s.next_src_idx /\ s.low_limit <= s.dict_limit
    <3>1. window.next_src_pos \in Nat
      BY <1>1, HTypes
    <3> QED
      BY <1>2, <1>3, <1>4, <1>5, <1>6, <2>1, <3>1
  <2> QED
    BY <1>3, <1>6, <1>7, <1>10, <1>11, <1>12, <2>1, <2>2, <2>3 DEF WindowShape
<1>15. Content'
  <2>1. ASSUME NEW i \in s.low_limit .. s.next_src_idx - 1
        PROVE  PosOf(s, i) \in Slots /\ in_buff[PosOf(s, i)] = i - (Shift + n)
    BY <1>2, <1>9 DEF ReadAt
  <2> QED
    BY <1>2, <1>7, <1>11, <1>12, <2>1 DEF Content
<1>16. TableSound'
  <2>1. pos + n + e.seg_bias \in Nat /\ pos + n + e.seg_bias = s.low_limit
        /\ s.low_limit <= pos + n + s.seg_bias
    BY <1>2, <1>3, <1>4, <1>5, <1>6
  <2>2. ASSUME NEW t \in table
        PROVE  t[1] < pos + n + s.seg_bias /\ ~(t[1] >= s.low_limit)
    <3>1. t[1] < NextIdx
      BY <1>1, <1>2 DEF TableSound
    <3>2. t[1] \in Nat
      BY <1>4
    <3> QED
      BY <1>2, <1>3, <1>4, <1>6, <2>1, <3>1, <3>2
  <2>3. ASSUME NEW t \in Inserted(e, from, n)
        PROVE  t[1] < pos + n + s.seg_bias /\ ~(t[1] >= s.low_limit)
    <3>1. t[1] \in Nat /\ t[1] < pos + n + e.seg_bias
      BY <1>8
    <3>2. s.low_limit \in Nat /\ pos + n + s.seg_bias \in Nat
      BY <1>2, <1>4, <1>5, <1>6, <2>1
    <3> QED
      BY <2>1, <3>1, <3>2
  <2>4. ASSUME NEW t \in Inserted(s, s.dict_limit, n)
        PROVE  t[1] < pos + n + s.seg_bias /\ t[2] = t[1] - (Shift + n)
    BY <1>10
  <2>5. ASSUME NEW t \in table'
        PROVE  /\ t[1] < pos + n + s.seg_bias
               /\ t[1] >= s.low_limit => t[2] = t[1] - (Shift + n)
    BY <1>7, <2>2, <2>3, <2>4
  <2> QED
    BY <1>7, <1>11, <1>13, <2>5 DEF TableSound
<1> QED
  BY <1>14, <1>15, <1>16

LEMMA BlockHistory ==
    ASSUME Unrecycled, HInv, IInv', NEW n \in 1 .. BLOCK_SIZE_MAX, CompressBlock(n)
    PROVE  WindowShape' /\ Content' /\ TableSound'
<1>1. CASE failed
  <2>1. ~Live'
    BY <1>1 DEF CompressBlock, Live
  <2> QED
    BY <2>1 DEF WindowShape, Content, TableSound
<1>2. CASE ~failed
  BY <1>2, PlainBlockHistory, RestartedHistory
<1> QED
  BY <1>1, <1>2

-----------------------------------------------------------------------------
(* The end of a chunk, and the theorems.                                   *)

\* The next block goes behind the chunk or to the start of the buffer.
LEMMA FinishHistory ==
    ASSUME Unrecycled, HInv, IInv',
           FinishChunkExceeded \/ FinishChunkMissed \/ FinishChunk
    PROVE  WindowShape' /\ Content' /\ TableSound'
<1>1. CASE ~Live'
  BY <1>1 DEF WindowShape, Content, TableSound
<1>2. CASE Live'
  <2>1. FinishChunk /\ pc' = "load" /\ ~failed /\ ~last_frame_chunk
    BY <1>2 DEF FinishChunkExceeded, FinishChunkMissed, FinishChunk, Return, Live,
                last_frame_chunk
  <2>2. /\ pc = "blocks" /\ Live /\ pos = in_buff_pos
        /\ UNCHANGED <<params, in_buff, window, next_to_update, table, seeded, emitted>>
        /\ in_to_compress' = in_buff_pos' /\ in_buff_pos' \in {in_buff_pos, 0}
    BY <2>1 DEF FinishChunk, ChunkDone, chunk_end, Live, matching
  <2>3. IInv /\ WindowShape /\ Content /\ TableSound
    BY DEF HInv
  <2>4. Len(emitted) = accepted
    <3>1. Len(emitted) + (in_buff_pos - pos) = accepted
      BY <2>1, <2>2, <2>3, Counted DEF From
    <3> QED
      BY <2>2, <2>3, <3>1, HTypes
  <2>5. Shift' = Shift /\ Slots' = Slots
    BY <2>1, <2>2, <2>4, ParamsKept DEF Shift, Registered
  <2>6. Front' \in {window.next_src_pos, 0}
    <3>1. Front = in_buff_pos /\ Front \in {window.next_src_pos, 0}
      BY <2>2, <2>3 DEF Front, WindowShape
    <3>2. Front' = in_buff_pos'
      BY <2>1, <2>2 DEF Front
    <3> QED
      BY <2>2, <3>1, <3>2
  <2>7. NextIdx' = NextIdx
    <3>1. NextIdx = window.next_src_idx - (in_buff_pos - in_buff_pos)
      BY <2>2 DEF NextIdx, chunk_end
    <3>2. NextIdx' = window.next_src_idx - 0
      BY <2>1, <2>2 DEF NextIdx
    <3> QED
      BY <2>3, <3>1, <3>2, HTypes
  <2>8. WindowShape' /\ TableSound'
    BY <2>2, <2>3, <2>5, <2>6, <2>7 DEF WindowShape, TableSound
  <2>9. Content'
    BY <2>1, <2>2, <2>3, <2>5 DEF Content, PosOf
  <2> QED
    BY <2>8, <2>9
<1> QED
  BY <1>1, <1>2

LEMMA InitHInv == Init => HInv
<1> SUFFICES ASSUME Init PROVE HInv
  OBVIOUS
<1>1. IInv
  BY InitIInv
<1>2. ~Live
  BY DEF Init, Live
<1>3. Bounded /\ Fresh
  BY EncoderAssumption DEF Init, Bounded, Fresh
<1> QED
  BY <1>1, <1>2, <1>3 DEF HInv, WindowShape, Content, TableSound

LEMMA StepHInv ==
    ASSUME Unrecycled, HInv, [Next]_vars PROVE HInv'
<1>1. IInv'
  BY StepIInv DEF HInv
<1>2. Bounded' /\ Fresh'
  BY <1>1, BoundedStep
<1>3. CASE UNCHANGED vars
  <2>1. UNCHANGED <<params, staging, matching, frame, pc, op, left, pos, accepted, failed>>
    BY <1>3 DEF vars
  <2>2. /\ Live' <=> Live /\ Shift' = Shift /\ Slots' = Slots /\ Front' = Front
        /\ NextIdx' = NextIdx
    BY <2>1, ParamsKept DEF Live, Shift, Registered, Front, NextIdx, chunk_end,
                            staging, matching, frame
  <2>3. WindowShape /\ Content /\ TableSound
    BY DEF HInv
  <2>4. WindowShape' /\ Content' /\ TableSound'
    BY <2>1, <2>2, <2>3 DEF WindowShape, Content, TableSound, staging, matching
  <2> QED
    BY <1>1, <1>2, <2>4 DEF HInv
<1>4. CASE Next
  <2>1. WindowShape' /\ Content' /\ TableSound'
    BY <1>1, <1>4, FirstCallHistory, CallHistory, LoadReturnsHistory,
       CompressEnteredHistory, BlockHistory, FinishHistory DEF Next, Loop, Caller
  <2> QED
    BY <1>1, <1>2, <2>1 DEF HInv
<1> QED
  BY <1>3, <1>4

LEMMA HistoryInvariance == ASSUME Unrecycled PROVE Spec => []HInv
<1>1. Init => HInv
  BY InitHInv
<1>2. HInv /\ [Next]_vars => HInv'
  BY StepHInv
<1> QED
  BY <1>1, <1>2, PTL DEF Spec

\* While a block is searched, the valid indices are those up to the next byte.
LEMMA SearchingReads ==
    ASSUME Unrecycled, HInv, Searching
    PROVE  /\ Live /\ HereIdx = NextIdx
           /\ \A i \in Valid : i \in Nat /\ ReadAt(PosOf(window, i)) = i - Shift
           /\ Here - HereIdx = -Shift /\ Here \in Int /\ HereIdx \in Nat /\ Shift \in Nat
<1>1. IInv /\ Content
  BY DEF HInv
<1>2. Live /\ pc = "blocks" /\ in_to_compress < pos
  BY <1>1, HTypes DEF Searching, Live
<1>3. /\ window.next_src_idx = window.seg_bias + in_buff_pos
      /\ window.next_src_idx = Shift + accepted
      /\ Shift \in Nat /\ NextIdx = pos + window.seg_bias /\ pos <= in_buff_pos
  BY <1>2, InBlocks
<1>4. /\ pos \in Nat /\ in_buff_pos \in Nat /\ window.seg_bias \in Nat /\ accepted \in Nat
      /\ window.next_src_idx \in Nat /\ window.low_limit \in Nat
  BY <1>1, HTypes
<1>5. HereIdx = NextIdx /\ HereIdx \in Nat /\ HereIdx <= window.next_src_idx
  BY <1>3, <1>4 DEF HereIdx
<1>6. Here - HereIdx = -Shift /\ Here \in Int
  BY <1>3, <1>4 DEF Here, HereIdx, chunk_end
<1>7. ASSUME NEW i \in Valid
      PROVE  i \in Nat /\ ReadAt(PosOf(window, i)) = i - Shift
  <2>1. i \in window.low_limit .. window.next_src_idx - 1 /\ i \in Nat
    BY <1>4, <1>5 DEF Valid
  <2>2. PosOf(window, i) \in Slots /\ in_buff[PosOf(window, i)] = i - Shift
    BY <1>1, <1>2, <2>1 DEF Content
  <2> QED
    BY <1>1, <1>2, <2>1, <2>2, Counted DEF ReadAt, Live
<1> QED
  BY <1>2, <1>3, <1>5, <1>6, <1>7

\* Until the index space is recycled, every index that the window calls valid
\* reads the byte of its distance: through each wrap of the staging buffer, each
\* slide of the window and the second parse of a first block.
THEOREM HistoryStaysIntact == ASSUME Unrecycled PROVE Spec => []HistoryIntact
<1>1. HInv => HistoryIntact
  <2> SUFFICES ASSUME HInv, Searching, NEW i \in Valid
               PROVE  ReadAt(PosOf(window, i)) = Here - (HereIdx - i)
    BY DEF HistoryIntact
  <2>1. /\ i \in Nat /\ ReadAt(PosOf(window, i)) = i - Shift
        /\ Here - HereIdx = -Shift /\ Here \in Int /\ HereIdx \in Nat /\ Shift \in Nat
    BY SearchingReads
  <2> QED
    BY <2>1
<1>2. Spec => []HInv
  BY HistoryInvariance
<1> QED
  BY <1>1, <1>2, PTL

\* Until the index space is recycled, an entry of the match tables whose index is
\* still valid denotes the byte that was inserted under it.
THEOREM TablesDenoteInserted == ASSUME Unrecycled PROVE Spec => []TableDenotesInserted
<1>1. HInv => TableDenotesInserted
  <2> SUFFICES ASSUME HInv, Searching, NEW e \in table, e[1] \in Valid
               PROVE  ReadAt(PosOf(window, e[1])) = e[2]
    BY DEF TableDenotesInserted
  <2>1. Live /\ e[1] \in Nat /\ ReadAt(PosOf(window, e[1])) = e[1] - Shift /\ HereIdx \in Nat
    BY SearchingReads
  <2>2. e[1] >= window.low_limit /\ window.low_limit \in Nat
    BY <2>1, HTypes DEF Valid, HInv
  <2>3. e[2] = e[1] - Shift
    BY <2>1, <2>2 DEF HInv, TableSound
  <2> QED
    BY <2>1, <2>3
<1>2. Spec => []HInv
  BY HistoryInvariance
<1> QED
  BY <1>1, <1>2, PTL

\* Nor does the code then read the extDict outside of the staging buffer, which a
\* recycled index space makes it do.
THEOREM ExtDictStaysAddressable == ASSUME Unrecycled PROVE Spec => []ExtDictAddressable
<1>1. HInv => ExtDictAddressable
  <2> SUFFICES ASSUME HInv, Searching,
                      NEW i \in window.low_limit .. window.dict_limit - 1
               PROVE  PosOf(window, i) \in DOMAIN in_buff
    BY DEF ExtDictAddressable
  <2>1. Live /\ IInv /\ WindowShape /\ Content
    BY SearchingReads DEF HInv
  <2>2. i \in window.low_limit .. window.next_src_idx - 1
    BY <2>1, HTypes DEF WindowShape
  <2> QED
    BY <2>1, <2>2, Counted DEF Content, Live
<1>2. Spec => []HInv
  BY HistoryInvariance
<1> QED
  BY <1>1, <1>2, PTL

-----------------------------------------------------------------------------
(* What the window still reaches.                                          *)

\* A segment as long as a window is long enough to be searched as an extDict.
Searchable == \A w \in WindowSizes : HashReadSize <= w

\* The next chunk is not written over the extDict from behind.
Ahead ==
    Live /\ window.low_limit < window.dict_limit =>
        window.next_src_pos + window.dict_bias <= window.low_limit

\* The segment starts where the buffer or its dictionary ends, or out of reach.
Segment ==
    Live => \/ window.dict_limit <= window.seg_bias + ContentLen
            \/ window.dict_limit <= (Len(emitted) + Shift) - max_dist

\* The buffer wraps behind a window and a dictionary ...
Wrapped ==
    Live /\ Front # window.next_src_pos => BuffLen < window.next_src_pos + block_size

\* ... and never if the whole source is shorter than the window.
WithinPledge == Live /\ pledged # None => consumed <= pledged
OnePass ==
    Live /\ pledged # None /\ pledged < max_dist =>
        in_buff_pos = ContentLen + accepted /\ window.next_src_pos = Front

\* A staged byte of the stream that is within reach has its index, except that
\* the chunk being staged has none yet.
Indexed(p) ==
    /\ window.low_limit <= in_buff[p] + Shift
    /\ PosOf(window, in_buff[p] + Shift) = p
Remembered ==
    Live => \A p \in Slots :
        \/ pc # "blocks" /\ p \in in_to_compress .. in_buff_pos - 1
        \/ /\ in_buff[p] < Registered
           /\ in_buff[p] >= 0 /\ in_buff[p] >= Len(emitted) - max_dist => Indexed(p)

Reach == Ahead /\ Segment /\ Wrapped /\ WithinPledge /\ OnePass /\ Remembered
RInv == HInv /\ Reach

\* A slot outside of the chunk once loaded, and the index of one inside.
LEMMA Outside ==
    ASSUME NEW a \in Nat, NEW b \in Nat, NEW l \in Nat, a <= b, NEW c, c = b + l,
           NEW p \in Nat, p \notin a .. c - 1
    PROVE  p \notin a .. b - 1 /\ p \notin b .. b + l - 1
OBVIOUS

LEMMA Inside ==
    ASSUME NEW a \in Nat, NEW c \in Nat, NEW p \in a .. c - 1, NEW length \in Nat,
           NEW shift \in Nat, NEW first, first = shift + length,
           NEW i, i = (length + (p - a)) + shift
    PROVE  i = first + (p - a) /\ i \in first .. (first + (c - a)) - 1
OBVIOUS

LEMMA Staging ==
    ASSUME IInv, Live
    PROVE  /\ in_buff \in [Slots -> Int] /\ Slots \subseteq Nat
           /\ consumed \in Nat /\ pledged \in Nat \cup {None} /\ max_dist > 0
           /\ block_size \in Nat /\ block_size > 0
           /\ BuffLen = ContentLen + WindowSizeOf(pledged, max_dist) + block_size
<1>1. TypeOK
  BY DEF IInv
<1>2. in_buff \in [Slots -> Int] /\ consumed \in Nat /\ pledged \in Nat \cup {None}
  BY <1>1 DEF TypeOK, Live
<1>3. max_dist > 0
  BY <1>1, EncoderAssumption DEF TypeOK
<1>4. Slots \subseteq Nat
  BY HTypes DEF Slots
<1>5. block_size \in Nat /\ block_size > 0
  BY <1>1, CurrentSizes
<1>6. BuffLen = ContentLen + WindowSizeOf(pledged, max_dist) + block_size
  BY DEF BuffLen, BuffLenOf, block_size
<1> QED
  BY <1>2, <1>3, <1>4, <1>5, <1>6

LEMMA FirstCallReach ==
    ASSUME Unrecycled, HInv, HInv', NEW o \in {"Continue", "Flush", "End"},
           NEW n \in Inputs, FirstCall(o, n)
    PROVE  Reach'
<1>0. PICK requested \in Pledges : init(o, n, requested)
  BY DEF FirstCall
<1>1. /\ emitted' = <<>> /\ in_to_compress' = ContentLen /\ in_buff_pos' = ContentLen
      /\ pc' = "load" /\ accepted' = 0 /\ failed' = failed
      /\ window' = streaming_attached_dict(ContentLen)
      /\ in_buff' = [p \in 0 .. BuffLenOf(pledged', max_dist') - 1 |->
                       IF p < ContentLen THEN p - ContentLen ELSE Blank]
  BY <1>0 DEF HInv, Fresh, FirstCall, Begin, init, frame
<1>2. W32(FirstIdx) = FirstIdx /\ ContentLen \in Nat
  BY ConstantTypes, W32Facts
<1>3. window' = [NewWindow EXCEPT !.low_limit = FirstIdx, !.dict_limit = FirstIdx,
                     !.next_src_pos = ContentLen, !.next_src_idx = FirstIdx]
  BY <1>1, <1>2 DEF streaming_attached_dict, FirstIdx
<1>4. /\ window'.low_limit = FirstIdx /\ window'.dict_limit = FirstIdx
      /\ window'.next_src_pos = ContentLen /\ window'.seg_bias = 2
  BY <1>3 DEF NewWindow, WINDOW_START_INDEX
<1>5. Front' = ContentLen /\ Registered' = 0
  BY <1>1 DEF Front, Registered
<1>6. Ahead' /\ Segment' /\ Wrapped' /\ OnePass'
  BY <1>1, <1>2, <1>4, <1>5, ConstantTypes DEF Ahead, Segment, Wrapped, OnePass
<1>7. WithinPledge'
  <2> SUFFICES ASSUME Live', pledged' # None PROVE consumed' <= pledged'
    BY DEF WithinPledge
  <2>1. IInv' /\ ~failed'
    BY DEF HInv, Live
  <2>2. consumed' = Len(emitted') - (From' - in_to_compress')
    BY <2>1 DEF IInv, Accounting
  <2>3. consumed' = 0
    BY <1>1, <1>2, <2>2 DEF From
  <2>4. pledged' \in Nat \cup {None}
    BY <2>1 DEF IInv, TypeOK
  <2> QED
    BY <2>3, <2>4
<1>8. Remembered'
  <2>1. Slots' = 0 .. BuffLenOf(pledged', max_dist') - 1
    BY DEF Slots, BuffLen
  <2>2. ASSUME NEW p \in Slots' PROVE in_buff'[p] < 0
    BY <1>1, <1>2, <2>1 DEF Blank
  <2>3. ASSUME NEW p \in Slots' PROVE in_buff'[p] \in Int
    BY <1>1, <1>2, <2>1 DEF Blank
  <2> QED
    BY <1>5, <2>2, <2>3 DEF Remembered
<1> QED
  BY <1>6, <1>7, <1>8 DEF Reach

\* A step that moves neither the window nor the bytes it covers.
LEMMA ReachKept ==
    ASSUME Reach, Live, UNCHANGED <<params, in_buff, in_buff_pos, window, emitted,
                                    consumed, accepted>>,
           Shift' = Shift, Registered' = Registered, Front' = Front,
           \A p \in Slots : pc # "blocks" /\ p \in in_to_compress .. in_buff_pos - 1
              => pc' # "blocks" /\ p \in in_to_compress' .. in_buff_pos - 1
    PROVE  Reach'
<1>1. Slots' = Slots /\ BuffLen' = BuffLen /\ block_size' = block_size
  BY ParamsKept DEF block_size, params
<1>2. /\ window' = window /\ emitted' = emitted /\ in_buff' = in_buff
      /\ pledged' = pledged /\ max_dist' = max_dist /\ consumed' = consumed
      /\ in_buff_pos' = in_buff_pos /\ accepted' = accepted
  BY DEF params
<1>3. Ahead' /\ Segment' /\ Wrapped' /\ WithinPledge'
  BY <1>1, <1>2 DEF Reach, Ahead, Segment, Wrapped, WithinPledge
<1>4. OnePass'
  BY <1>1, <1>2 DEF Reach, OnePass
<1>5. Remembered'
  BY <1>1, <1>2 DEF Reach, Remembered, Indexed
<1> QED
  BY <1>3, <1>4, <1>5 DEF Reach

LEMMA CallReach ==
    ASSUME HInv, Reach, NEW o \in {"Continue", "Flush", "End"}, NEW n \in Inputs,
           FirstCallRejected(o, n) \/ Call(o, n)
    PROVE  Reach'
<1>1. CASE FirstCallRejected(o, n)
  <2>1. ~Live'
    BY <1>1 DEF FirstCallRejected, Live
  <2> QED
    BY <2>1 DEF Reach, Ahead, Segment, Wrapped, WithinPledge, OnePass, Remembered
<1>2. CASE Call(o, n) /\ ~failed
  <2>1. /\ UNCHANGED <<params, in_buff, in_to_compress, in_buff_pos, window, emitted,
                       consumed, accepted>>
        /\ pc = "idle" /\ pc' = "load" /\ failed' = failed
    BY <1>2 DEF Call, Begin, matching, frame, staging
  <2>2. /\ Live /\ Shift' = Shift /\ Registered' = Registered /\ Front' = Front
    BY <1>2, <2>1 DEF Live, Shift, Registered, Front
  <2> QED
    BY <2>1, <2>2, ReachKept
<1>3. CASE Call(o, n) /\ failed
  <2>1. ~Live'
    BY <1>3 DEF Call, Begin, Live
  <2> QED
    BY <2>1 DEF Reach, Ahead, Segment, Wrapped, WithinPledge, OnePass, Remembered
<1> QED
  BY <1>1, <1>2, <1>3

LEMMA LoadReturnsReach ==
    ASSUME RInv, IInv', LoadAndReturn \/ LoadAndOverflow
    PROVE  Reach'
<1>1. CASE ~Live'
  BY <1>1 DEF Reach, Ahead, Segment, Wrapped, WithinPledge, OnePass, Remembered
<1>2. CASE Live'
  <2>1. /\ UNCHANGED <<params, window, emitted, consumed, in_to_compress>>
        /\ pc = "load" /\ pc' = "idle" /\ ~failed /\ ~failed' /\ load
    BY <1>2 DEF LoadAndReturn, LoadAndOverflow, Return, Live, matching, frame, load
  <2>2. IInv /\ Reach
    BY DEF RInv, HInv
  <2>3. /\ Live /\ Shift' = Shift /\ Registered' = Registered /\ Front' = Front
        /\ Slots' = Slots /\ BuffLen' = BuffLen /\ block_size' = block_size
    BY <2>1, ParamsKept DEF Live, Shift, Registered, Front, block_size, params
  <2>4. /\ in_buff_pos' = in_buff_pos + loaded /\ accepted' = accepted + loaded
        /\ loaded \in Nat
    BY <2>1, <2>2, Loaded DEF IInv, load
  <2>5. /\ accepted \in Nat /\ in_buff_pos \in Nat /\ in_to_compress \in Nat
        /\ ContentLen \in Nat /\ in_buff \in [Slots -> Int] /\ Slots \subseteq Nat
        /\ in_to_compress <= in_buff_pos
    BY <2>1, <2>2, <2>3, HTypes, Staging, Counted, EncoderAssumption DEF From
  <2>6. Ahead' /\ Segment' /\ Wrapped' /\ WithinPledge'
    BY <2>1, <2>2, <2>3 DEF Reach, Ahead, Segment, Wrapped, WithinPledge, params
  <2>7. OnePass'
    BY <2>1, <2>2, <2>3, <2>4, <2>5 DEF Reach, OnePass, params
  <2>8. Remembered'
    <3> SUFFICES ASSUME NEW p \in Slots, p \notin in_to_compress .. in_buff_pos' - 1
                 PROVE  /\ in_buff'[p] < Registered
                        /\ in_buff'[p] >= 0 /\ in_buff'[p] >= Len(emitted) - max_dist
                           => Indexed(p)'
      BY <2>1, <2>3 DEF Remembered, params
    <3>1. p \notin in_to_compress .. in_buff_pos - 1
          /\ p \notin in_buff_pos .. in_buff_pos + loaded - 1
      <4>1. p \in Nat
        BY <2>5
      <4> QED
        BY <2>4, <2>5, <4>1, Outside
    <3>2. in_buff'[p] = in_buff[p]
      BY <2>1, <2>5, <3>1 DEF load
    <3> QED
      BY <2>1, <2>2, <2>3, <3>1, <3>2 DEF Reach, Remembered, Indexed
  <2> QED
    BY <2>6, <2>7, <2>8 DEF Reach
<1> QED
  BY <1>1, <1>2

-----------------------------------------------------------------------------
(* A wrap, and the chunk behind it.                                        *)

\* When the buffer wraps, all that is in reach is in the segment, which is long
\* enough to be searched as an extDict.
LEMMA FlipReaches ==
    ASSUME Searchable, RInv, Live, pc = "load", in_to_compress # window.next_src_pos,
           NEW i \in Int, i >= (Len(emitted) + Shift) - max_dist
    PROVE  /\ window.dict_limit <= i
           /\ HashReadSize <= window.next_src_idx - window.dict_limit
<1>1. IInv /\ WindowShape /\ Segment /\ Wrapped /\ OnePass
  BY DEF RInv, HInv, Reach
<1>2. /\ window.next_src_idx \in Nat /\ window.dict_limit \in Nat
      /\ window.seg_bias \in Nat /\ window.next_src_pos \in Nat
      /\ max_dist \in Nat /\ max_dist \in WindowSizes
      /\ Len(emitted) \in Nat /\ ContentLen \in Nat /\ HashReadSize \in Nat
  BY <1>1, HTypes, EncoderAssumption, WindowAssumption
<1>3. window.next_src_idx = Len(emitted) + Shift /\ Shift \in Int
  BY <1>2 DEF Shift, Registered
<1>4. HashReadSize <= max_dist
  BY <1>2 DEF Searchable
<1>5. CASE window.dict_limit <= (Len(emitted) + Shift) - max_dist
  BY <1>2, <1>3, <1>4, <1>5
<1>6. CASE window.dict_limit <= window.seg_bias + ContentLen
  <2>1. /\ Front # window.next_src_pos
        /\ window.next_src_idx = window.seg_bias + window.next_src_pos
    BY <1>1 DEF Front, WindowShape
  <2>2. BuffLen < window.next_src_pos + block_size /\ ~(pledged # None /\ pledged < max_dist)
    BY <1>1, <2>1 DEF Wrapped, OnePass
  <2>3. /\ pledged \in Nat \cup {None} /\ block_size \in Nat
        /\ BuffLen = ContentLen + WindowSizeOf(pledged, max_dist) + block_size
        /\ max_dist > 0
    BY <1>1, Staging
  <2>4. WindowSizeOf(pledged, max_dist) = max_dist
    BY <1>2, <2>2, <2>3 DEF WindowSizeOf, Larger, Smaller, None
  <2>5. ContentLen + max_dist < window.next_src_pos
    BY <1>2, <2>2, <2>3, <2>4
  <2>6. max_dist < window.next_src_idx - window.dict_limit
    BY <1>2, <1>6, <2>1, <2>5
  <2> QED
    BY <1>2, <1>3, <1>4, <2>6
<1> QED
  BY <1>1, <1>5, <1>6 DEF Segment


\* The chunk is registered, and the indices in reach outlive it.
LEMMA CompressEnteredKeeps ==
    ASSUME Unrecycled, Searchable, RInv, IInv', LoadAndCompress, Live',
           NEW end, in_buff_pos' = end, NEW w, window' = w
    PROVE  /\ w.low_limit < w.dict_limit => w.next_src_pos + w.dict_bias <= w.low_limit
           /\ in_to_compress = end => w = window
           /\ in_to_compress # end => w.next_src_pos = end
           /\ \/ w.seg_bias = window.seg_bias /\ w.dict_limit = window.dict_limit
              \/ w.dict_limit <= w.seg_bias
           /\ w.low_limit <= window.next_src_idx
           /\ \A i \in window.low_limit .. window.next_src_idx - 1 :
                  /\ i >= (Len(emitted) + Shift) - max_dist
                  /\ PosOf(window, i) \in Nat
                  /\ PosOf(window, i) \notin in_to_compress .. end - 1
                  => w.low_limit <= i
<1> PICK start : in_to_compress = start
  OBVIOUS
<1>1. HInv /\ IInv /\ WindowShape /\ Ahead
  BY DEF RInv, HInv, Reach
<1>2. /\ Live /\ pc = "load" /\ start <= in_buff_pos /\ in_buff_pos <= end /\ end \in Nat
      /\ window.next_src_idx + (end - start) < IndexMod
  BY <1>1, CompressEntered
<1>3. /\ window \in Windows /\ start \in Nat /\ in_buff_pos \in Nat
      /\ window.low_limit \in Nat /\ window.dict_limit \in Nat
      /\ window.next_src_idx \in Nat
  BY <1>1, HTypes
<1>4. /\ window.next_src_idx = window.seg_bias + window.next_src_pos
      /\ start \in {window.next_src_pos, 0} /\ window.low_limit <= window.dict_limit
      /\ window.dict_limit <= window.next_src_idx
      /\ window.low_limit < window.dict_limit
         => window.next_src_pos + window.dict_bias <= window.low_limit
  BY <1>1, <1>2 DEF WindowShape, Front, Ahead
<1>5. w = update(window, start, end)
  BY DEF LoadAndCompress
<1>6. CASE start = end
  <2>1. w = window
    BY <1>5, <1>6 DEF update
  <2> QED
    BY <1>3, <1>4, <1>6, <2>1
<1>7. CASE start # end
  <2>1. start < end /\ (start = window.next_src_pos \/ start = 0)
    BY <1>2, <1>3, <1>4, <1>7
  <2>2. /\ w.next_src_pos = end /\ w.low_limit <= w.dict_limit /\ w.low_limit \in Nat
        /\ w.dict_limit = IF contiguous(window, start) THEN window.dict_limit
                          ELSE window.next_src_idx
    BY <1>2, <1>3, <1>4, <1>5, <2>1, UpdateReads
  <2>3. /\ w.low_limit < w.dict_limit => w.next_src_pos + w.dict_bias <= w.low_limit
        /\ w.seg_bias = IF contiguous(window, start) THEN window.seg_bias
                        ELSE window.next_src_idx
        /\ \A i \in window.low_limit .. window.next_src_idx - 1 :
               /\ PosOf(window, i) \in Nat /\ PosOf(window, i) \notin start .. end - 1
               /\ \/ contiguous(window, start)
                  \/ /\ window.dict_limit <= i
                     /\ HashReadSize <= window.next_src_idx - window.dict_limit
               => w.low_limit <= i
    BY <1>2, <1>3, <1>4, <1>5, <2>1, UpdateRetains
  <2>4. /\ \/ w.seg_bias = window.seg_bias /\ w.dict_limit = window.dict_limit
           \/ w.dict_limit <= w.seg_bias
        /\ w.low_limit <= window.next_src_idx
    BY <1>3, <1>4, <2>2, <2>3
  <2>5. ASSUME NEW i \in window.low_limit .. window.next_src_idx - 1,
               i >= (Len(emitted) + Shift) - max_dist,
               PosOf(window, i) \in Nat, PosOf(window, i) \notin start .. end - 1
        PROVE  w.low_limit <= i
    <3>1. CASE contiguous(window, start)
      BY <2>3, <2>5, <3>1
    <3>2. CASE ~contiguous(window, start)
      <4>1. i \in Int /\ in_to_compress # window.next_src_pos
        BY <3>2 DEF contiguous
      <4>2. /\ window.dict_limit <= i
            /\ HashReadSize <= window.next_src_idx - window.dict_limit
        BY <1>2, <2>5, <4>1, FlipReaches
      <4> QED
        BY <2>3, <2>5, <4>2
    <3> QED
      BY <3>1, <3>2
  <2> QED
    BY <1>7, <2>2, <2>3, <2>4, <2>5
<1> QED
  BY <1>6, <1>7

LEMMA CompressEnteredReach ==
    ASSUME Unrecycled, Searchable, RInv, HInv', LoadAndCompress
    PROVE  Reach'
<1>1. CASE ~Live'
  BY <1>1 DEF Reach, Ahead, Segment, Wrapped, WithinPledge, OnePass, Remembered
<1>2. CASE Live'
  <2> PICK end, w : in_buff_pos' = end /\ window' = w
    OBVIOUS
  <2>0. IInv' /\ HInv /\ IInv /\ Reach /\ WindowShape
    BY DEF RInv, HInv
  <2>1. /\ Live /\ pc = "load" /\ pc' = "blocks" /\ DOMAIN in_buff = Slots
        /\ Slots' = Slots /\ pos' = in_to_compress /\ in_to_compress' = in_to_compress
        /\ in_to_compress <= in_buff_pos /\ in_buff_pos <= end
        /\ end \in Nat /\ end = in_buff_pos + loaded /\ loaded \in Nat
        /\ accepted' = Len(emitted) + (end - in_to_compress)
        /\ Shift \in Nat /\ window.next_src_idx = Shift + Len(emitted)
    BY <1>2, <2>0, CompressEntered
  <2>2. /\ Shift' = Shift
        /\ w.next_src_idx = window.next_src_idx + (end - in_to_compress)
        /\ \A i \in w.low_limit .. window.next_src_idx - 1 :
               PosOf(w, i) = PosOf(window, i)
        /\ \A i \in window.next_src_idx .. w.next_src_idx - 1 :
               PosOf(w, i) = in_to_compress + (i - window.next_src_idx)
    BY <1>2, <2>0, CompressEnteredWindow
  <2>3. /\ w.low_limit < w.dict_limit => w.next_src_pos + w.dict_bias <= w.low_limit
        /\ in_to_compress = end => w = window
        /\ in_to_compress # end => w.next_src_pos = end
        /\ \/ w.seg_bias = window.seg_bias /\ w.dict_limit = window.dict_limit
           \/ w.dict_limit <= w.seg_bias
        /\ w.low_limit <= window.next_src_idx
        /\ \A i \in window.low_limit .. window.next_src_idx - 1 :
               /\ i >= (Len(emitted) + Shift) - max_dist
               /\ PosOf(window, i) \in Nat
               /\ PosOf(window, i) \notin in_to_compress .. end - 1
               => w.low_limit <= i
    BY <1>2, <2>0, CompressEnteredKeeps
  <2>4. /\ UNCHANGED <<pledged, max_dist, emitted, consumed>> /\ load /\ ~failed'
        /\ accepted' = accepted + loaded
    BY <1>2 DEF LoadAndCompress, load, params, Live
  <2>5. BuffLen' = BuffLen /\ block_size' = block_size
    BY <2>4, ParamsKept DEF block_size, params
  <2>6. /\ in_to_compress \in Nat /\ in_buff_pos \in Nat /\ accepted \in Nat
        /\ window.low_limit \in Nat /\ window.next_src_idx \in Nat
        /\ window.seg_bias \in Nat /\ window.dict_limit \in Nat
        /\ w.low_limit \in Nat /\ w.seg_bias \in Nat /\ w.dict_limit \in Nat
        /\ Len(emitted) \in Nat /\ ContentLen \in Nat /\ max_dist \in Nat
        /\ in_buff \in [Slots -> Int] /\ Slots \subseteq Nat
    <3>1. w \in Windows
      BY <2>0 DEF IInv, TypeOK
    <3> QED
      BY <2>0, <2>1, <3>1, HTypes, Staging, WindowFields, EncoderAssumption
  <2>7. Front = in_to_compress /\ Front' = end /\ From' = in_to_compress
    BY <2>1 DEF Front, From
  <2>8. Ahead'
    BY <2>3 DEF Ahead
  <2>9. Segment'
    <3>1. \/ window.dict_limit <= window.seg_bias + ContentLen
          \/ window.dict_limit <= (Len(emitted) + Shift) - max_dist
      BY <2>0, <2>1 DEF Reach, Segment
    <3>2. \/ w.dict_limit <= w.seg_bias + ContentLen
          \/ w.dict_limit <= (Len(emitted) + Shift) - max_dist
      BY <2>3, <2>6, <3>1
    <3> QED
      BY <2>2, <2>4, <3>2 DEF Segment
  <2>10. Wrapped'
    BY <2>0, <2>1, <2>3, <2>5, <2>7 DEF Reach, Wrapped
  <2>11. WithinPledge'
    BY <2>0, <2>1, <2>4 DEF Reach, WithinPledge
  <2>12. OnePass'
    <3> SUFFICES ASSUME pledged # None, pledged < max_dist
                 PROVE  end = ContentLen + accepted' /\ w.next_src_pos = end
      BY <2>4, <2>7 DEF OnePass
    <3>1. in_buff_pos = ContentLen + accepted /\ window.next_src_pos = in_to_compress
      BY <2>0, <2>1, <2>7 DEF Reach, OnePass
    <3>2. end = ContentLen + accepted'
      <4>1. in_buff_pos + loaded = ContentLen + (accepted + loaded)
        BY <2>1, <2>6, <3>1
      <4> QED
        BY <2>1, <2>4, <4>1
    <3>3. w.next_src_pos = end
      BY <2>3, <3>1
    <3> QED
      BY <3>2, <3>3
  <2>13. ASSUME NEW p \in Slots
         PROVE  /\ in_buff'[p] < accepted'
                /\ in_buff'[p] >= 0 /\ in_buff'[p] >= Len(emitted) - max_dist
                   => w.low_limit <= in_buff'[p] + Shift /\ PosOf(w, in_buff'[p] + Shift) = p
    <3>1. p \in Nat
      BY <2>6
    <3>2. CASE p \in in_to_compress .. end - 1
      <4>1. in_buff'[p] = Len(emitted) + (p - in_to_compress)
        <5>1. Accounting' /\ emitted' = emitted
          BY <2>0, <2>4 DEF IInv
        <5> QED
          BY <2>4, <2>7, <3>2, <5>1 DEF Accounting
      <4>2. PICK i : i = in_buff'[p] + Shift
        OBVIOUS
      <4>3. /\ i = window.next_src_idx + (p - in_to_compress)
            /\ i \in window.next_src_idx .. w.next_src_idx - 1
        <5>1. /\ in_to_compress \in Nat /\ end \in Nat /\ Len(emitted) \in Nat
              /\ Shift \in Nat /\ window.next_src_idx = Shift + Len(emitted)
              /\ w.next_src_idx = window.next_src_idx + (end - in_to_compress)
              /\ i = (Len(emitted) + (p - in_to_compress)) + Shift
          BY <2>1, <2>2, <2>6, <4>1, <4>2
        <5> QED
          BY <3>2, <5>1, Inside
      <4>4. PosOf(w, i) = p
        BY <2>2, <2>6, <3>1, <4>3
      <4>5. w.low_limit <= i
        BY <2>3, <2>6, <4>3
      <4>6. in_buff'[p] < accepted'
        BY <2>1, <2>6, <3>1, <3>2, <4>1
      <4> QED
        BY <4>2, <4>4, <4>5, <4>6
    <3>3. CASE p \notin in_to_compress .. end - 1
      <4>1. p \notin in_to_compress .. in_buff_pos - 1
            /\ p \notin in_buff_pos .. in_buff_pos + loaded - 1
        <5>1. /\ in_to_compress \in Nat /\ in_buff_pos \in Nat /\ loaded \in Nat
              /\ in_to_compress <= in_buff_pos /\ end = in_buff_pos + loaded
          BY <2>1, <2>6
        <5> QED
          BY <3>1, <3>3, <5>1, Outside
      <4>2. PICK b : b = in_buff[p]
        OBVIOUS
      <4>3. in_buff'[p] = b /\ b \in Int
        BY <2>4, <2>6, <4>1, <4>2 DEF load
      <4>4. /\ b < Len(emitted)
            /\ b >= 0 /\ b >= Len(emitted) - max_dist
               => window.low_limit <= b + Shift /\ PosOf(window, b + Shift) = p
        <5>1. Remembered /\ Registered = Len(emitted)
          BY <2>0, <2>1 DEF Reach, Registered
        <5> QED
          BY <2>1, <4>1, <4>2, <5>1 DEF Remembered, Indexed
      <4>5. b < accepted'
        BY <2>1, <2>6, <4>3, <4>4
      <4>6. ASSUME b >= 0, b >= Len(emitted) - max_dist
            PROVE  w.low_limit <= b + Shift /\ PosOf(w, b + Shift) = p
        <5>1. PICK i : i = b + Shift
          OBVIOUS
        <5>2. /\ i \in window.low_limit .. window.next_src_idx - 1 /\ i \in Int
              /\ i >= (Len(emitted) + Shift) - max_dist
          <6>1. /\ Len(emitted) \in Nat /\ Shift \in Nat /\ b \in Int
                /\ window.low_limit \in Nat /\ max_dist \in Nat
                /\ window.next_src_idx = Shift + Len(emitted)
            BY <2>1, <2>6, <4>3
          <6>2. b < Len(emitted) /\ window.low_limit <= b + Shift
            BY <4>4, <4>6
          <6> QED
            BY <4>6, <5>1, <6>1, <6>2
        <5>3. PosOf(window, i) = p
          BY <4>4, <4>6, <5>1
        <5>4. w.low_limit <= i
          BY <2>3, <3>1, <3>3, <5>2, <5>3
        <5>5. i \in w.low_limit .. window.next_src_idx - 1
          BY <2>6, <5>2, <5>4
        <5> QED
          BY <2>2, <5>1, <5>3, <5>4, <5>5
      <4> QED
        BY <4>3, <4>5, <4>6
    <3> QED
      BY <3>2, <3>3
  <2>14. Remembered'
    <3>1. Registered' = accepted'
      BY <2>1 DEF Registered
    <3> QED
      BY <2>1, <2>2, <2>4, <2>13, <3>1 DEF Remembered, Indexed
  <2> QED
    BY <2>8, <2>9, <2>10, <2>11, <2>12, <2>14 DEF Reach
<1> QED
  BY <1>1, <1>2

-----------------------------------------------------------------------------
(* Blocks, the end of a chunk, and the theorem.                            *)

\* The window at the block: the indices in reach stay, though it has moved on.
LEMMA BlockReach ==
    ASSUME Unrecycled, RInv, NEW n \in 1 .. BLOCK_SIZE_MAX, CompressBlock(n), ~failed,
           NEW e, WindowAtBlock(n) = e
    PROVE  /\ pos + window.seg_bias = Len(emitted) + Shift
           /\ e.low_limit < e.dict_limit => e.next_src_pos + e.dict_bias <= e.low_limit
           /\ \/ e.dict_limit <= e.seg_bias + ContentLen
              \/ e.dict_limit <= (Len(emitted) + Shift) - max_dist
           /\ \A p \in Slots :
                  /\ in_buff[p] < accepted
                  /\ in_buff[p] >= 0 /\ in_buff[p] >= Len(emitted) - max_dist
                     => /\ e.low_limit <= in_buff[p] + Shift
                        /\ PosOf(e, in_buff[p] + Shift) = p
<1>1. HInv /\ IInv /\ WindowShape /\ Reach
  BY DEF RInv, HInv
<1>2. /\ Live /\ pc = "blocks" /\ pos + window.seg_bias < IndexMod
      /\ window.next_src_idx = window.seg_bias + in_buff_pos
      /\ window.next_src_idx = Shift + accepted /\ Shift \in Nat
      /\ ~needs_overflow_correction(window, pos + n)
  BY <1>1, BlockUncorrected
<1>3. /\ window \in Windows /\ window.seg_bias \in Nat /\ pos \in Nat
      /\ window.low_limit \in Nat /\ window.dict_limit \in Nat
      /\ window.next_src_idx \in Nat /\ in_buff_pos \in Nat /\ accepted \in Nat
      /\ Len(emitted) \in Nat /\ ContentLen \in Nat
      /\ max_dist \in Nat /\ max_dist \in WindowSizes
      /\ in_buff \in [Slots -> Int]
  BY <1>1, <1>2, HTypes, Staging, EncoderAssumption
<1>4. Len(emitted) + (in_buff_pos - pos) = accepted
  BY <1>1, <1>2, Counted DEF From
<1>5. pos + window.seg_bias = Len(emitted) + Shift
  <2>1. window.seg_bias + in_buff_pos = Shift + accepted /\ Shift \in Nat
    BY <1>2
  <2>2. /\ pos \in Nat /\ in_buff_pos \in Nat /\ window.seg_bias \in Nat
        /\ accepted \in Nat /\ Len(emitted) \in Nat
    BY <1>3
  <2> QED
    BY <1>4, <2>1, <2>2
<1> DEFINE b == W32(pos + n + window.seg_bias)
           idx == pos + window.seg_bias
<1>6. idx \in Nat /\ W32(idx) = idx
  <2>1. idx \in Nat /\ idx < IndexMod
    BY <1>2, <1>3
  <2> QED
    BY <2>1, W32Facts
<1>7. e = enforce_max_dist(check_dict_validity(window, b, max_dist), W32(idx), max_dist)
  BY <1>2 DEF WindowAtBlock
<1>8. e = enforce_max_dist(check_dict_validity(window, b, max_dist), idx, max_dist)
  BY <1>6, <1>7
<1>9. /\ window.loaded_dict_end = 0 /\ window.low_limit <= window.dict_limit
      /\ max_dist < IndexMod /\ idx < IndexMod
  BY <1>1, <1>2, <1>3 DEF WindowShape, Unrecycled
<1>10. idx = Len(emitted) + Shift
  BY <1>5
<1> HIDE DEF b, idx
<1>11. /\ e.seg_bias = window.seg_bias /\ e.dict_bias = window.dict_bias
       /\ e.next_src_pos = window.next_src_pos
       /\ e.low_limit \in Nat /\ e.dict_limit \in Nat
       /\ window.low_limit <= e.low_limit /\ e.low_limit <= e.dict_limit
       /\ \A i \in Int : e.low_limit <= i => PosOf(e, i) = PosOf(window, i)
  BY <1>3, <1>6, <1>8, <1>9, EnforceReads
<1>12. /\ e.low_limit = window.low_limit \/ e.low_limit <= idx - max_dist
       /\ e.dict_limit = window.dict_limit
          \/ (e.dict_limit = e.low_limit /\ e.dict_limit <= idx - max_dist)
  BY <1>3, <1>6, <1>8, <1>9, EnforceRetains
<1>13. e.low_limit < e.dict_limit => e.next_src_pos + e.dict_bias <= e.low_limit
  <2> SUFFICES ASSUME e.low_limit < e.dict_limit
               PROVE  e.next_src_pos + e.dict_bias <= e.low_limit
    OBVIOUS
  <2>1. window.low_limit < window.dict_limit
    BY <1>3, <1>11, <1>12
  <2>2. window.next_src_pos + window.dict_bias <= window.low_limit
    BY <1>1, <1>2, <2>1 DEF Reach, Ahead
  <2>3. window.next_src_pos \in Nat /\ window.dict_bias \in Nat
    BY <1>1, HTypes
  <2> QED
    BY <1>3, <1>11, <2>2, <2>3
<1>14. \/ e.dict_limit <= e.seg_bias + ContentLen
       \/ e.dict_limit <= (Len(emitted) + Shift) - max_dist
  <2>1. \/ window.dict_limit <= window.seg_bias + ContentLen
        \/ window.dict_limit <= (Len(emitted) + Shift) - max_dist
    BY <1>1, <1>2 DEF Reach, Segment
  <2> QED
    BY <1>10, <1>11, <1>12, <2>1
<1>15. ASSUME NEW p \in Slots
       PROVE  /\ in_buff[p] < accepted
              /\ in_buff[p] >= 0 /\ in_buff[p] >= Len(emitted) - max_dist
                 => e.low_limit <= in_buff[p] + Shift /\ PosOf(e, in_buff[p] + Shift) = p
  <2>1. PICK c : c = in_buff[p]
    OBVIOUS
  <2>2. Remembered /\ Registered = accepted /\ c \in Int
    BY <1>1, <1>2, <1>3, <2>1 DEF Reach, Registered
  <2>3. /\ c < accepted
        /\ c >= 0 /\ c >= Len(emitted) - max_dist
           => window.low_limit <= c + Shift /\ PosOf(window, c + Shift) = p
    BY <1>2, <2>1, <2>2 DEF Remembered, Indexed
  <2>4. ASSUME c >= 0, c >= Len(emitted) - max_dist
        PROVE  e.low_limit <= c + Shift /\ PosOf(e, c + Shift) = p
    <3>1. c + Shift \in Int /\ c + Shift >= idx - max_dist
      BY <1>2, <1>3, <1>10, <2>2, <2>4
    <3>2. e.low_limit <= c + Shift
      <4>1. idx \in Nat /\ max_dist \in Nat /\ e.low_limit \in Nat
        BY <1>3, <1>6, <1>11
      <4>2. window.low_limit <= c + Shift
        BY <2>3, <2>4
      <4> QED
        BY <1>12, <3>1, <4>1, <4>2
    <3> QED
      BY <1>11, <2>3, <2>4, <3>1, <3>2
  <2> QED
    BY <2>1, <2>3, <2>4
<1> QED
  BY <1>5, <1>13, <1>14, <1>15

LEMMA CompressBlockReach ==
    ASSUME Unrecycled, RInv, HInv', NEW n \in 1 .. BLOCK_SIZE_MAX, CompressBlock(n)
    PROVE  Reach'
<1>1. CASE failed
  <2>1. ~Live'
    BY <1>1 DEF CompressBlock, Live
  <2> QED
    BY <2>1 DEF Reach, Ahead, Segment, Wrapped, WithinPledge, OnePass, Remembered
<1>2. CASE ~failed
  <2> PICK e, w : WindowAtBlock(n) = e /\ window' = w
    OBVIOUS
  <2>1. HInv /\ IInv /\ WindowShape /\ Reach
    BY DEF RInv, HInv
  <2>2. /\ Live /\ pc = "blocks" /\ n \in Nat /\ n >= 1
        /\ pos + window.seg_bias < IndexMod
        /\ window.next_src_idx = Shift + accepted /\ Shift \in Nat
        /\ window.next_src_idx = window.seg_bias + in_buff_pos
        /\ window.next_src_idx <= FirstIdx + MaxInput + IF seeded THEN BLOCK_SIZE_MAX ELSE 0
    BY <1>2, <2>1, BlockUncorrected
  <2>3. /\ e \in Windows /\ e.next_src_pos = window.next_src_pos
        /\ e.seg_bias = window.seg_bias /\ e.next_src_idx = window.next_src_idx
        /\ e.low_limit \in Nat /\ e.dict_limit \in Nat /\ e.dict_limit <= e.next_src_idx
    BY <1>2, <2>1, BlockWindow
  <2>4. /\ pos + window.seg_bias = Len(emitted) + Shift
        /\ e.low_limit < e.dict_limit => e.next_src_pos + e.dict_bias <= e.low_limit
        /\ \/ e.dict_limit <= e.seg_bias + ContentLen
           \/ e.dict_limit <= (Len(emitted) + Shift) - max_dist
        /\ \A p \in Slots :
               /\ in_buff[p] < accepted
               /\ in_buff[p] >= 0 /\ in_buff[p] >= Len(emitted) - max_dist
                  => /\ e.low_limit <= in_buff[p] + Shift
                     /\ PosOf(e, in_buff[p] + Shift) = p
    BY <1>2, <2>1, BlockReach
  <2>5. /\ UNCHANGED <<params, in_buff, in_to_compress, in_buff_pos, consumed, pc,
                       accepted, failed>>
        /\ emitted' = emitted \o [k \in 1 .. n |-> ReadAt(pos + k - 1)]
        /\ w = e \/ (Searched(n) /\ Restarts(n) /\ w = slide_for_init_stats(e, n))
    BY DEF CompressBlock, Search, Skip, staging
  <2>6. /\ pos \in Nat /\ in_buff_pos \in Nat /\ accepted \in Nat
        /\ Len(emitted) \in Nat /\ max_dist \in Nat /\ max_dist > 0 /\ ContentLen \in Nat
        /\ window.seg_bias \in Nat /\ window.next_src_idx \in Nat /\ seeded \in BOOLEAN
        /\ in_buff \in [Slots -> Int] /\ Slots \subseteq Nat
    BY <2>1, <2>2, HTypes, Staging, EncoderAssumption
  <2>7. Len(emitted') = Len(emitted) + n
    <3>1. Len(emitted') + (in_buff_pos' - From') = accepted' /\ IInv' /\ ~failed'
      BY <1>2, <2>5 DEF HInv, IInv, Accounting
    <3>2. Len(emitted) + (in_buff_pos - pos) = accepted
      BY <1>2, <2>1, <2>2, Counted DEF From
    <3>3. From' = pos + n
      BY <2>2, <2>5 DEF From, CompressBlock
    <3>4. Len(emitted') \in Nat
      BY <3>1, LenProperties DEF IInv, TypeOK
    <3> QED
      BY <2>2, <2>5, <2>6, <3>1, <3>2, <3>3, <3>4
  <2>8. /\ Live' /\ Slots' = Slots /\ BuffLen' = BuffLen /\ block_size' = block_size
        /\ Registered' = accepted /\ Front' = Front
        /\ max_dist' = max_dist /\ pledged' = pledged
    BY <2>2, <2>5, ParamsKept DEF Live, Registered, Front, block_size, params
  <2>9. CASE w = e
    <3>1. Shift' = Shift
      BY <2>2, <2>3, <2>5, <2>8, <2>9 DEF Shift, Registered
    <3>2. Ahead'
      BY <2>4, <2>9 DEF Ahead
    <3>3. Segment'
      <4>1. \/ e.dict_limit <= e.seg_bias + ContentLen
            \/ e.dict_limit <= ((Len(emitted) + n) + Shift) - max_dist
        <5>1. /\ Len(emitted) \in Nat /\ n \in Nat /\ Shift \in Nat
              /\ max_dist \in Nat /\ e.dict_limit \in Nat
          BY <2>2, <2>3, <2>6
        <5> QED
          BY <2>4, <5>1
      <4> QED
        BY <2>7, <2>8, <2>9, <3>1, <4>1 DEF Segment
    <3>4. Wrapped' /\ WithinPledge' /\ OnePass'
      BY <2>1, <2>2, <2>3, <2>5, <2>8, <2>9 DEF Reach, Wrapped, WithinPledge, OnePass
    <3>5. Remembered'
      <4> SUFFICES ASSUME NEW p \in Slots
                   PROVE  /\ in_buff[p] < accepted
                          /\ in_buff[p] >= 0 /\ in_buff[p] >= Len(emitted') - max_dist
                             => /\ e.low_limit <= in_buff[p] + Shift
                                /\ PosOf(e, in_buff[p] + Shift) = p
        BY <2>5, <2>8, <2>9, <3>1 DEF Remembered, Indexed
      <4>1. in_buff[p] \in Int
        BY <2>6
      <4> QED
        BY <2>2, <2>4, <2>6, <2>7, <4>1
    <3> QED
      BY <3>2, <3>3, <3>4, <3>5 DEF Reach
  <2>10. CASE Searched(n) /\ Restarts(n) /\ w = slide_for_init_stats(e, n)
    <3>1. /\ ~seeded /\ ContentLen = 0 /\ e.dict_limit = e.low_limit
          /\ W32(pos + e.seg_bias) = e.dict_limit
      BY <2>10 DEF Restarts
    <3>2. pos + e.seg_bias = e.dict_limit
      <4>1. pos + e.seg_bias \in Nat /\ pos + e.seg_bias < IndexMod
        BY <2>2, <2>3, <2>6
      <4> QED
        BY <3>1, <4>1, W32Facts
    <3>3. /\ w.seg_bias = e.seg_bias + n /\ w.next_src_idx = e.next_src_idx + n
          /\ w.dict_limit = e.dict_limit + n /\ w.low_limit = w.dict_limit
          /\ w.next_src_pos = e.next_src_pos
      <4>1. e.next_src_idx + n < IndexMod
        <5>1. e.next_src_idx <= FirstIdx + MaxInput /\ n <= BLOCK_SIZE_MAX
          BY <2>2, <2>3, <3>1, ConstantTypes
        <5> QED
          BY <2>2, <2>3, <2>6, <5>1, ConstantTypes
      <4>2. e.seg_bias <= e.next_src_idx
        BY <2>2, <2>3, <2>6
      <4> QED
        BY <2>2, <2>3, <2>10, <4>1, <4>2, SlideReads
    <3>4. Shift' = Shift + n
      <4>1. Shift' = w.next_src_idx - accepted
        BY <2>5, <2>8 DEF Shift
      <4> QED
        BY <2>2, <2>3, <2>6, <3>3, <4>1
    <3>5. pos = 0
      BY <2>2, <2>3, <2>4, <2>6, <3>1, <3>2
    <3>6. Ahead'
      <4>1. w.dict_limit \in Nat
        BY <2>2, <2>3, <3>3
      <4> QED
        BY <3>3, <4>1 DEF Ahead
    <3>7. Segment'
      <4>1. w.dict_limit <= w.seg_bias + ContentLen
        BY <2>2, <2>3, <2>6, <3>1, <3>2, <3>3, <3>5
      <4> QED
        BY <4>1 DEF Segment
    <3>8. Wrapped' /\ WithinPledge' /\ OnePass'
      BY <2>1, <2>2, <2>3, <2>5, <2>8, <3>3 DEF Reach, Wrapped, WithinPledge, OnePass
    <3>9. Remembered'
      <4> SUFFICES ASSUME NEW p \in Slots
                   PROVE  /\ in_buff[p] < accepted
                          /\ in_buff[p] >= 0 /\ in_buff[p] >= Len(emitted') - max_dist
                             => /\ w.low_limit <= in_buff[p] + (Shift + n)
                                /\ PosOf(w, in_buff[p] + (Shift + n)) = p
        BY <2>5, <2>8, <3>4 DEF Remembered, Indexed
      <4>1. PICK c : c = in_buff[p]
        OBVIOUS
      <4>2. c \in Int /\ c < accepted
        BY <2>4, <2>6, <4>1
      <4>3. ASSUME c >= 0, c >= Len(emitted') - max_dist
            PROVE  w.low_limit <= c + (Shift + n) /\ PosOf(w, c + (Shift + n)) = p
        <5>1. c >= Len(emitted) - max_dist
          BY <2>2, <2>6, <2>7, <4>2, <4>3
        <5>2. e.low_limit <= c + Shift /\ PosOf(e, c + Shift) = p
          BY <2>4, <4>1, <4>3, <5>1
        <5>3. /\ ~(c + Shift < e.dict_limit) /\ ~(c + (Shift + n) < w.dict_limit)
              /\ w.low_limit <= c + (Shift + n)
          BY <2>2, <2>3, <3>1, <3>3, <4>2, <5>2
        <5>4. /\ PosOf(e, c + Shift) = (c + Shift) - e.seg_bias
              /\ PosOf(w, c + (Shift + n)) = (c + (Shift + n)) - w.seg_bias
          BY <5>3 DEF PosOf
        <5>5. (c + (Shift + n)) - w.seg_bias = (c + Shift) - e.seg_bias
          BY <2>2, <2>3, <2>6, <3>3, <4>2
        <5> QED
          BY <5>2, <5>3, <5>4, <5>5
      <4> QED
        BY <4>1, <4>2, <4>3
    <3> QED
      BY <3>6, <3>7, <3>8, <3>9 DEF Reach
  <2> QED
    BY <2>5, <2>9, <2>10
<1> QED
  BY <1>1, <1>2

\* The buffer wraps only behind a whole window, hence not in a shorter source.
LEMMA FinishReach ==
    ASSUME RInv, HInv', FinishChunkExceeded \/ FinishChunkMissed \/ FinishChunk
    PROVE  Reach'
<1>1. CASE ~Live'
  BY <1>1 DEF Reach, Ahead, Segment, Wrapped, WithinPledge, OnePass, Remembered
<1>2. CASE Live'
  <2>1. FinishChunk /\ pc' = "load" /\ ~failed /\ ~last_frame_chunk
    BY <1>2 DEF FinishChunkExceeded, FinishChunkMissed, FinishChunk, Return, Live,
                last_frame_chunk
  <2>2. /\ pc = "blocks" /\ Live /\ pos = in_buff_pos /\ ~PledgeExceeded
        /\ UNCHANGED <<params, in_buff, window, emitted, accepted>>
        /\ consumed' = consumedNow
        /\ in_to_compress' = in_buff_pos'
        /\ in_buff_pos' = IF in_buff_pos + block_size > BuffLen THEN 0 ELSE in_buff_pos
    BY <2>1 DEF FinishChunk, ChunkDone, chunk_end, Live, matching, Wraps
  <2>3. HInv /\ IInv /\ WindowShape /\ Reach
    BY DEF RInv, HInv
  <2>4. /\ in_buff_pos \in Nat /\ in_to_compress \in Nat /\ accepted \in Nat
        /\ Len(emitted) \in Nat /\ ContentLen \in Nat /\ max_dist \in Nat
        /\ consumed \in Nat /\ pledged \in Nat \cup {None} /\ max_dist > 0
        /\ block_size \in Nat
        /\ BuffLen = ContentLen + WindowSizeOf(pledged, max_dist) + block_size
        /\ in_buff \in [Slots -> Int]
    BY <2>2, <2>3, HTypes, Staging, EncoderAssumption
  <2>5. Len(emitted) = accepted
    <3>1. Len(emitted) + (in_buff_pos - pos) = accepted
      BY <2>1, <2>2, <2>3, Counted DEF From
    <3> QED
      BY <2>2, <2>4, <3>1
  <2>6. consumedNow = accepted
    <3>1. consumed = Len(emitted) - (pos - in_to_compress)
      BY <2>1, <2>2, <2>3 DEF IInv, Accounting, From
    <3> QED
      BY <2>2, <2>4, <2>5, <3>1 DEF consumedNow, chunk_end
  <2>7. pledged # None => accepted <= pledged
    <3> SUFFICES ASSUME pledged # None PROVE accepted <= pledged
      OBVIOUS
    <3>1. CASE in_to_compress = in_buff_pos
      <4>1. consumed <= pledged
        BY <2>2, <2>3 DEF Reach, WithinPledge
      <4>2. consumedNow = consumed
        BY <2>4, <3>1 DEF consumedNow, chunk_end
      <4> QED
        BY <2>6, <4>1, <4>2
    <3>2. CASE in_to_compress # in_buff_pos
      BY <2>2, <2>4, <2>6, <3>2 DEF PledgeExceeded, chunk_end
    <3> QED
      BY <3>1, <3>2
  <2>8. /\ Shift' = Shift /\ Slots' = Slots /\ BuffLen' = BuffLen
        /\ block_size' = block_size /\ Registered' = Registered
        /\ max_dist' = max_dist /\ pledged' = pledged
        /\ Front = in_buff_pos /\ Front' = in_buff_pos'
    BY <2>1, <2>2, <2>5, ParamsKept
       DEF Shift, Registered, block_size, params, Front
  <2>9. Ahead' /\ Segment'
    BY <2>2, <2>3, <2>8 DEF Reach, Ahead, Segment
  <2>10. Wrapped'
    <3> SUFFICES ASSUME in_buff_pos' # window.next_src_pos
                 PROVE  BuffLen < window.next_src_pos + block_size
      BY <2>2, <2>8 DEF Wrapped
    <3>1. CASE in_buff_pos = window.next_src_pos
      <4>1. in_buff_pos + block_size > BuffLen
        BY <2>2, <3>1
      <4> QED
        BY <3>1, <4>1
    <3>2. CASE in_buff_pos # window.next_src_pos
      BY <2>2, <2>3, <2>8, <3>2 DEF Reach, Wrapped
    <3> QED
      BY <3>1, <3>2
  <2>11. WithinPledge'
    BY <2>2, <2>6, <2>7, <2>8 DEF WithinPledge
  <2>12. OnePass'
    <3> SUFFICES ASSUME pledged # None, pledged < max_dist
                 PROVE  /\ in_buff_pos' = ContentLen + accepted
                        /\ window.next_src_pos = in_buff_pos'
      BY <2>2, <2>8 DEF OnePass
    <3>1. in_buff_pos = ContentLen + accepted /\ window.next_src_pos = in_buff_pos
      BY <2>2, <2>3, <2>8 DEF Reach, OnePass
    <3>2. pledged \in Nat /\ accepted <= pledged
      BY <2>4, <2>7
    <3>3. WindowSizeOf(pledged, max_dist) \in Nat /\ pledged <= WindowSizeOf(pledged, max_dist)
      BY <2>4, <3>2 DEF WindowSizeOf, Larger, Smaller
    <3>4. ~(in_buff_pos + block_size > BuffLen)
      BY <2>4, <3>1, <3>2, <3>3
    <3> QED
      BY <2>2, <3>1, <3>4
  <2>13. Remembered'
    BY <2>2, <2>3, <2>8 DEF Reach, Remembered, Indexed
  <2> QED
    BY <2>9, <2>10, <2>11, <2>12, <2>13 DEF Reach
<1> QED
  BY <1>1, <1>2

LEMMA StepRInv ==
    ASSUME Unrecycled, Searchable, RInv, [Next]_vars PROVE RInv'
<1>1. HInv /\ HInv' /\ IInv' /\ Reach
  BY StepHInv DEF RInv, HInv
<1>2. CASE UNCHANGED vars
  <2>1. UNCHANGED <<params, staging, matching, frame, pc, op, left, pos, accepted, failed>>
    BY <1>2 DEF vars
  <2>2. CASE Live
    <3>1. /\ UNCHANGED <<params, in_buff, in_buff_pos, window, emitted, consumed, accepted>>
          /\ Shift' = Shift /\ Registered' = Registered /\ Front' = Front
          /\ pc' = pc /\ in_to_compress' = in_to_compress
      BY <2>1 DEF Shift, Registered, Front, staging, matching, frame
    <3> QED
      BY <1>1, <2>2, <3>1, ReachKept DEF RInv
  <2>3. CASE ~Live
    <3>1. ~Live'
      BY <2>1, <2>3 DEF Live
    <3>2. Reach'
      BY <3>1 DEF Reach, Ahead, Segment, Wrapped, WithinPledge, OnePass, Remembered
    <3> QED
      BY <1>1, <3>2 DEF RInv
  <2> QED
    BY <2>2, <2>3
<1>3. CASE Next
  <2>1. Reach'
    BY <1>1, <1>3, FirstCallReach, CallReach, LoadReturnsReach, CompressEnteredReach,
       CompressBlockReach, FinishReach DEF Next, Loop, Caller
  <2> QED
    BY <1>1, <2>1 DEF RInv
<1> QED
  BY <1>2, <1>3

\* Until the index space is recycled, and if a window is at least HASH_READ_SIZE
\* long, nothing that the decoder could still copy is lost to the search: each byte
\* that is staged and within max_dist has a valid index, through each wrap of the
\* buffer, each slide of the window and the second parse of a first block.
THEOREM NothingInReachForgotten ==
    ASSUME Unrecycled, Searchable PROVE Spec => []HistoryComplete
<1>1. Init => RInv
  <2> SUFFICES ASSUME Init PROVE RInv
    OBVIOUS
  <2>1. HInv /\ ~Live
    BY InitHInv DEF Init, Live
  <2> QED
    BY <2>1 DEF RInv, Reach, Ahead, Segment, Wrapped, WithinPledge, OnePass, Remembered
<1>2. RInv /\ [Next]_vars => RInv'
  BY StepRInv
<1>3. RInv => HistoryComplete
  <2> SUFFICES ASSUME RInv, Searching, NEW p \in DOMAIN in_buff,
                      in_buff[p] \in Larger(0, Here - max_dist) .. Here - 1
               PROVE  \E i \in Valid : PosOf(window, i) = p
    BY DEF HistoryComplete
  <2>1. HInv /\ IInv /\ Remembered
    BY DEF RInv, HInv, Reach
  <2>2. /\ Live /\ pc = "blocks" /\ Here - HereIdx = -Shift /\ Here \in Int
        /\ HereIdx \in Nat /\ Shift \in Nat
    BY <2>1, SearchingReads DEF Searching
  <2>3. p \in Slots /\ window.low_limit \in Nat /\ max_dist \in Nat
    BY <2>1, <2>2, HTypes, Counted DEF Searching
  <2>4. Here = Len(emitted)
    <3>1. Len(emitted) + (in_buff_pos - pos) = accepted
      BY <2>1, <2>2, Counted DEF From, Searching
    <3>2. /\ Len(emitted) \in Nat /\ in_buff_pos \in Nat /\ pos \in Nat
          /\ accepted \in Nat
      BY <2>1, HTypes
    <3>3. Here = accepted - (in_buff_pos - pos)
      BY DEF Here, chunk_end
    <3> QED
      BY <3>1, <3>2, <3>3
  <2>5. PICK b \in Int : /\ b = in_buff[p] /\ b >= 0 /\ b >= Here - max_dist /\ b < Here
    BY <2>2, <2>3 DEF Larger
  <2>6. window.low_limit <= b + Shift /\ PosOf(window, b + Shift) = p
    BY <2>1, <2>2, <2>3, <2>4, <2>5 DEF Remembered, Indexed
  <2>7. b + Shift \in Valid
    BY <2>2, <2>3, <2>5, <2>6 DEF Valid
  <2> QED
    BY <2>6, <2>7
<1> QED
  BY <1>1, <1>2, <1>3, PTL DEF Spec

-----------------------------------------------------------------------------
(* The attached dictionary.                                                *)

\* ZSTD_CURRENT_MAX is above every window.
WindowsBelowMax == CurrentMax < IndexMod /\ \A w \in WindowSizes : w <= CurrentMax

\* The source follows the dictionary in a buffer that never wraps, since it has to
\* end within max_dist of the dictionary's start.
DictShape ==
    Live /\ ContentLen > 0 =>
        /\ window.seg_bias = WINDOW_START_INDEX /\ window.next_src_pos = Front
        /\ in_buff_pos = ContentLen + accepted
        /\ \A p \in 0 .. ContentLen - 1 : in_buff[p] = p - ContentLen
        /\ pc = "blocks" => in_buff_pos + WINDOW_START_INDEX <= max_dist
        /\ pledged # None => op = "End" /\ pc # "idle" /\ accepted + left = pledged

DictInv == IInv /\ Fresh /\ DictShape

LEMMA FreshStep == ASSUME IInv, Fresh, [Next]_vars PROVE Fresh'
<1>1. CASE UNCHANGED vars
  BY <1>1 DEF Fresh, vars, matching, frame
<1>2. CASE pc' # "uninit"
  BY <1>2 DEF Fresh
<1>3. ASSUME NEW o \in {"Continue", "Flush", "End"}, NEW n \in Inputs,
             FirstCallRejected(o, n)
      PROVE  Fresh'
  BY <1>3 DEF FirstCallRejected, Fresh, matching, frame
<1>4. CASE Next /\ pc' = "uninit"
  <2>1. ASSUME NEW o \in {"Continue", "Flush", "End"}, NEW n \in Inputs,
               FirstCall(o, n) \/ Call(o, n)
        PROVE  FALSE
    BY <1>4, <2>1 DEF FirstCall, Call, Begin
  <2>2. ASSUME Loop PROVE FALSE
    BY <1>4, <2>2 DEF Loop, LoadAndReturn, LoadAndOverflow, LoadAndCompress,
       CompressBlock, FinishChunkExceeded, FinishChunkMissed, FinishChunk, Return
  <2> QED
    BY <1>3, <1>4, <2>1, <2>2 DEF Next, Caller
<1> QED
  BY <1>1, <1>2, <1>4

LEMMA FirstCallDict ==
    ASSUME DictInv, IInv', NEW o \in {"Continue", "Flush", "End"}, NEW n \in Inputs,
           FirstCall(o, n), ContentLen > 0
    PROVE  DictShape'
<1>0. PICK requested \in Pledges : init(o, n, requested)
  BY DEF FirstCall
<1> DEFINE size == IF o = "End" THEN n ELSE requested
<1>1. /\ pledged' = size /\ accepted' = 0 /\ left' = n /\ op' = o /\ pc' = "load"
      /\ in_to_compress' = ContentLen /\ in_buff_pos' = ContentLen
      /\ window' = streaming_attached_dict(ContentLen)
      /\ in_buff' = [p \in 0 .. BuffLenOf(size, max_dist') - 1 |->
                       IF p < ContentLen THEN p - ContentLen ELSE Blank]
  BY <1>0 DEF DictInv, Fresh, FirstCall, Begin, init
<1>2. n \in Nat /\ ContentLen \in Nat /\ requested = None
  BY EncoderAssumption
<1>3. size # None => o = "End" /\ size = n
  BY <1>2
<1>4. window'.seg_bias = WINDOW_START_INDEX /\ window'.next_src_pos = ContentLen
  BY <1>1 DEF streaming_attached_dict, NewWindow
<1>5. \A p \in 0 .. ContentLen - 1 : in_buff'[p] = p - ContentLen
  <2>1. max_dist' \in WindowSizes /\ size \in Nat \cup {None}
    BY <1>0, <1>2 DEF init
  <2> HIDE DEF size
  <2>2. ContentLen < BuffLenOf(size, max_dist') /\ BuffLenOf(size, max_dist') \in Nat
    BY <1>2, <2>1, Sizes DEF BuffLenOf
  <2>3. PICK len : BuffLenOf(size, max_dist') = len
    OBVIOUS
  <2>4. ASSUME NEW p \in 0 .. ContentLen - 1 PROVE p \in 0 .. len - 1 /\ p < ContentLen
    BY <1>2, <2>2, <2>3
  <2>5. in_buff' = [p \in 0 .. len - 1 |-> IF p < ContentLen THEN p - ContentLen ELSE Blank]
    BY <1>1, <2>3
  <2> QED
    BY <2>4, <2>5
<1>6. Front' = ContentLen /\ ContentLen + 0 = ContentLen /\ 0 + n = n
  BY <1>1, <1>2 DEF Front
<1> HIDE DEF size
<1> QED
  BY <1>1, <1>3, <1>4, <1>5, <1>6 DEF DictShape

LEMMA LoadDict ==
    ASSUME DictInv, IInv', LoadAndReturn \/ LoadAndOverflow \/ LoadAndCompress,
           ContentLen > 0
    PROVE  DictShape'
<1> SUFFICES ASSUME Live' PROVE DictShape'
  BY DEF DictShape
<1> PICK end, w : in_buff_pos' = end /\ window' = w
  OBVIOUS
<1>1. IInv /\ TypeOK /\ Pointers /\ DictShape
  BY DEF DictInv, IInv
<1>2. /\ Live /\ pc = "load" /\ end = in_buff_pos + loaded
      /\ accepted' = accepted + loaded /\ in_to_compress' = in_to_compress
      /\ UNCHANGED <<params, op>>
      /\ in_buff' = [p \in DOMAIN in_buff |->
                       IF p \in in_buff_pos .. in_buff_pos + loaded - 1
                       THEN accepted + (p - in_buff_pos) ELSE in_buff[p]]
  <2>1. load /\ pc = "load" /\ UNCHANGED op
    BY DEF LoadAndReturn, LoadAndOverflow, LoadAndCompress, Return
  <2>2. Live
    <3>1. failed' = (failed \/ FALSE) \/ failed' = (failed \/ TRUE) \/ failed' = failed
      BY DEF LoadAndReturn, LoadAndOverflow, LoadAndCompress, Return
    <3>2. ~failed' /\ failed \in BOOLEAN
      BY <1>1, HTypes DEF Live
    <3>3. ~failed
      BY <3>1, <3>2, Zenon
    <3> QED
      BY <2>1, <3>3 DEF Live
  <2>3. /\ in_buff_pos' = in_buff_pos + loaded /\ accepted' = accepted + loaded
        /\ in_to_compress' = in_to_compress /\ UNCHANGED params
        /\ in_buff' = [p \in DOMAIN in_buff |->
                         IF p \in in_buff_pos .. in_buff_pos + loaded - 1
                         THEN accepted + (p - in_buff_pos) ELSE in_buff[p]]
    BY <2>1 DEF load
  <2>4. end = in_buff_pos + loaded
    BY <2>3
  <2> QED
    BY <2>1, <2>2, <2>3, <2>4
<1>3. loaded \in Nat /\ loaded <= left
  BY <1>1, <1>2, Loaded
<1>4. /\ in_to_compress \in Nat /\ in_buff_pos \in Nat /\ accepted \in Nat /\ left \in Nat
      /\ window \in Windows /\ ContentLen \in Nat /\ BuffLen \in Nat
      /\ ContentLen < BuffLen /\ pledged \in Nat \cup {None}
      /\ in_to_compress <= in_buff_pos /\ DOMAIN in_buff = Slots
  <2>1. block_size \in Nat /\ ContentLen + block_size < BuffLen /\ ContentLen \in Nat
    BY <1>1, CurrentSizes, EncoderAssumption
  <2>2. in_to_compress <= in_buff_pos /\ DOMAIN in_buff = Slots
    BY <1>1, <1>2, Counted DEF From, Live
  <2>3. ContentLen < BuffLen
    BY <1>1, <2>1, HTypes
  <2> QED
    BY <1>1, <2>1, <2>2, <2>3, HTypes DEF TypeOK
<1>5. /\ window.seg_bias = WINDOW_START_INDEX /\ window.next_src_pos = in_to_compress
      /\ in_buff_pos = ContentLen + accepted
      /\ \A p \in 0 .. ContentLen - 1 : in_buff[p] = p - ContentLen
      /\ pledged # None => op = "End" /\ accepted + left = pledged
  BY <1>1, <1>2 DEF DictShape, Front
<1>6. end = ContentLen + (accepted + loaded)
  BY <1>2, <1>3, <1>4, <1>5
<1>7. \A p \in 0 .. ContentLen - 1 : in_buff'[p] = p - ContentLen
  <2>1. ASSUME NEW p \in 0 .. ContentLen - 1
        PROVE  p \in Slots /\ p \notin in_buff_pos .. in_buff_pos + loaded - 1
    BY <1>3, <1>4, <1>5 DEF Slots
  <2> QED
    BY <1>2, <1>4, <1>5, <2>1
<1>8. CASE LoadAndReturn \/ LoadAndOverflow
  <2>1. op # "End" /\ pc' = "idle" /\ window' = window
    BY <1>2, <1>8 DEF LoadAndReturn, LoadAndOverflow, Return, Live, Satisfied, matching
  <2>2. Front' = in_to_compress
    BY <1>2, <2>1 DEF Front
  <2> QED
    BY <1>2, <1>5, <1>6, <1>7, <2>1, <2>2 DEF DictShape, params
<1>9. CASE LoadAndCompress
  <2>1. /\ pc' = "blocks" /\ w = update(window, in_to_compress, end)
        /\ left' = left - loaded /\ ~cdict_attach_overflow(end)
    BY <1>9 DEF LoadAndCompress
  <2>2. w.seg_bias = WINDOW_START_INDEX /\ w.next_src_pos = end
    <3>1. CASE in_to_compress = end
      BY <1>5, <2>1, <3>1 DEF update
    <3>2. CASE in_to_compress # end
      <4> DEFINE adv == [window EXCEPT !.next_src_pos = end,
                                       !.next_src_idx = W32(window.seg_bias + end)]
      <4>1. w = TrimOverwritten(adv, in_to_compress, end)
        BY <1>5, <2>1, <3>2 DEF update, contiguous
      <4>2. adv.seg_bias = window.seg_bias /\ adv.next_src_pos = end
        BY <1>4 DEF Windows
      <4>3. w.seg_bias = adv.seg_bias /\ w.next_src_pos = adv.next_src_pos
        BY <1>4, <4>1 DEF TrimOverwritten, Windows
      <4> QED
        BY <1>5, <4>2, <4>3
    <3> QED
      BY <3>1, <3>2
  <2>3. end + WINDOW_START_INDEX <= max_dist
    <3>1. ~(end + window.seg_bias > max_dist)
      BY <2>1 DEF cdict_attach_overflow
    <3>2. end \in Nat /\ max_dist \in Nat
      BY <1>1, <1>2, <1>3, <1>4, HTypes
    <3> QED
      BY <1>5, <3>1, <3>2 DEF WINDOW_START_INDEX
  <2>4. Front' = end
    BY <2>1 DEF Front
  <2>5. accepted + left = (accepted + loaded) + (left - loaded)
    BY <1>3, <1>4
  <2>6. /\ window'.seg_bias = WINDOW_START_INDEX /\ window'.next_src_pos = Front'
        /\ in_buff_pos' = ContentLen + accepted'
        /\ in_buff_pos' + WINDOW_START_INDEX <= max_dist'
    BY <1>2, <1>6, <2>2, <2>3, <2>4 DEF params
  <2>7. pledged' # None => op' = "End" /\ pc' # "idle" /\ accepted' + left' = pledged'
    <3>1. pledged # None => op = "End" /\ (accepted + loaded) + (left - loaded) = pledged
      BY <1>5, <2>5
    <3> QED
      BY <1>2, <2>1, <3>1 DEF params
  <2> QED
    BY <1>7, <2>6, <2>7 DEF DictShape
<1> QED
  BY <1>8, <1>9

\* A block leaves the bias alone: the buffer is too short for a correction.
LEMMA BlockDict ==
    ASSUME WindowsBelowMax, DictInv, IInv', NEW n \in 1 .. BLOCK_SIZE_MAX,
           CompressBlock(n), ContentLen > 0
    PROVE  DictShape'
<1> SUFFICES ASSUME Live' PROVE DictShape'
  BY DEF DictShape
<1> PICK e : WindowAtBlock(n) = e
  OBVIOUS
<1>1. IInv /\ TypeOK /\ Pointers /\ DictShape
  BY DEF DictInv, IInv
<1>2. /\ Live /\ pc = "blocks" /\ pc' = "blocks"
      /\ UNCHANGED <<params, in_buff, in_buff_pos, accepted, left, op>>
  BY DEF CompressBlock, Live, staging
<1>3. /\ window.seg_bias = WINDOW_START_INDEX /\ window.next_src_pos = Front
      /\ in_buff_pos = ContentLen + accepted
      /\ \A p \in 0 .. ContentLen - 1 : in_buff[p] = p - ContentLen
      /\ in_buff_pos + WINDOW_START_INDEX <= max_dist
      /\ pledged # None => op = "End" /\ accepted + left = pledged
  BY <1>1, <1>2 DEF DictShape
<1>4. n \in Nat /\ n <= in_buff_pos - pos /\ pos \in Nat /\ in_buff_pos \in Nat
  BY <1>1, BlockSize DEF chunk_end
<1>5. max_dist \in Nat /\ max_dist <= CurrentMax /\ CurrentMax \in Nat /\ IndexMod \in Nat
      /\ CurrentMax < IndexMod /\ window \in Windows
  BY <1>1, HTypes, WindowAssumption DEF WindowsBelowMax
<1>6. ~needs_overflow_correction(window, pos + n)
  <2>1. pos + n + window.seg_bias \in Nat /\ pos + n + window.seg_bias <= CurrentMax
    BY <1>3, <1>4, <1>5 DEF WINDOW_START_INDEX
  <2>2. W32(pos + n + window.seg_bias) = pos + n + window.seg_bias
    BY <1>5, <2>1, W32Facts
  <2> QED
    BY <1>5, <2>1, <2>2 DEF needs_overflow_correction
<1>7. e.seg_bias = window.seg_bias /\ e.next_src_pos = window.next_src_pos
  <2> DEFINE b == W32(pos + n + window.seg_bias)
             idx == W32(pos + window.seg_bias)
             v == check_dict_validity(window, b, max_dist)
  <2>1. e = enforce_max_dist(v, idx, max_dist)
    BY <1>6 DEF WindowAtBlock
  <2>2. /\ v.seg_bias = window.seg_bias /\ v.next_src_pos = window.next_src_pos
        /\ v \in Windows
    BY <1>5, ValidityType DEF check_dict_validity, Windows
  <2> HIDE DEF v, idx, b
  <2>3. e.seg_bias = v.seg_bias /\ e.next_src_pos = v.next_src_pos
    BY <2>1, <2>2 DEF enforce_max_dist, Windows
  <2> QED
    BY <2>2, <2>3
<1>8. window' = e
  <2>1. ~Restarts(n)
    BY EncoderAssumption DEF Restarts
  <2> QED
    BY <2>1 DEF CompressBlock, Search, Skip
<1>9. Front' = Front
  BY <1>2 DEF Front
<1> QED
  BY <1>2, <1>3, <1>7, <1>8, <1>9 DEF DictShape, params

\* Nor does the buffer wrap behind the chunk.
LEMMA FinishDict ==
    ASSUME DictInv, IInv', FinishChunkExceeded \/ FinishChunkMissed \/ FinishChunk,
           ContentLen > 0
    PROVE  DictShape'
<1> SUFFICES ASSUME Live' PROVE DictShape'
  BY DEF DictShape
<1>1. IInv /\ TypeOK /\ Pointers /\ DictShape
  BY DEF DictInv, IInv
<1>2. FinishChunk /\ pc' = "load" /\ ~failed /\ ~last_frame_chunk
  BY DEF FinishChunkExceeded, FinishChunkMissed, FinishChunk, Return, Live,
         last_frame_chunk
<1>3. /\ pc = "blocks" /\ Live
      /\ UNCHANGED <<params, in_buff, window, accepted, left, op>>
      /\ in_to_compress' = in_buff_pos'
      /\ in_buff_pos' = IF Wraps THEN 0 ELSE in_buff_pos
  BY <1>2 DEF FinishChunk, ChunkDone, Live, matching
<1>4. /\ window.seg_bias = WINDOW_START_INDEX /\ window.next_src_pos = in_buff_pos
      /\ in_buff_pos = ContentLen + accepted
      /\ \A p \in 0 .. ContentLen - 1 : in_buff[p] = p - ContentLen
      /\ in_buff_pos + WINDOW_START_INDEX <= max_dist
      /\ pledged # None => op = "End" /\ accepted + left = pledged
  BY <1>1, <1>3 DEF DictShape, Front
<1>5. ~Wraps
  <2>1. /\ in_buff_pos \in Nat /\ accepted \in Nat /\ left \in Nat /\ max_dist \in Nat
        /\ ContentLen \in Nat /\ pledged \in Nat \cup {None}
    BY <1>1, HTypes, EncoderAssumption DEF TypeOK
  <2>2. block_size \in Nat
    BY <1>1, CurrentSizes
  <2>3. in_buff_pos <= ContentLen + WindowSizeOf(pledged, max_dist)
        /\ WindowSizeOf(pledged, max_dist) \in Nat
    <3>1. CASE pledged = None
      BY <1>4, <2>1, <3>1 DEF WindowSizeOf, WINDOW_START_INDEX
    <3>2. CASE pledged # None
      <4>1. pledged \in Nat /\ accepted <= pledged /\ accepted <= max_dist
        BY <1>4, <2>1, <3>2 DEF WINDOW_START_INDEX, None
      <4>2. WindowSizeOf(pledged, max_dist) = Larger(1, Smaller(max_dist, pledged))
        BY <3>2 DEF WindowSizeOf
      <4>3. accepted <= Larger(1, Smaller(max_dist, pledged))
            /\ Larger(1, Smaller(max_dist, pledged)) \in Nat
        BY <2>1, <4>1 DEF Larger, Smaller
      <4> QED
        BY <1>4, <2>1, <4>2, <4>3
    <3> QED
      BY <3>1, <3>2
  <2>4. BuffLen = ContentLen + WindowSizeOf(pledged, max_dist) + block_size
    BY DEF BuffLen, BuffLenOf, block_size
  <2> QED
    BY <2>1, <2>2, <2>3, <2>4 DEF Wraps
<1>6. in_buff_pos' = in_buff_pos /\ Front' = in_buff_pos
  BY <1>2, <1>3, <1>5 DEF Front
<1> QED
  BY <1>2, <1>3, <1>4, <1>6 DEF DictShape, params

LEMMA StepDictInv ==
    ASSUME WindowsBelowMax, DictInv, [Next]_vars PROVE DictInv'
<1>1. IInv' /\ Fresh'
  BY StepIInv, FreshStep DEF DictInv
<1>2. CASE UNCHANGED vars
  <2>1. UNCHANGED <<params, staging, window, pc, op, left, accepted, failed>>
    BY <1>2 DEF vars, matching
  <2>2. DictShape'
    BY <2>1 DEF DictInv, DictShape, Live, Front, params, staging
  <2> QED
    BY <1>1, <2>2 DEF DictInv
<1>3. ASSUME NEW o \in {"Continue", "Flush", "End"}, NEW n \in Inputs,
             FirstCallRejected(o, n) \/ Call(o, n)
      PROVE  DictShape'
  <2>1. CASE FirstCallRejected(o, n)
    BY <2>1 DEF FirstCallRejected, DictShape, Live
  <2>2. CASE Call(o, n)
    <3>1. /\ UNCHANGED <<params, staging, window, accepted, failed>>
          /\ pc = "idle" /\ pc' = "load"
      BY <2>2 DEF Call, Begin, matching
    <3> QED
      BY <3>1 DEF DictInv, DictShape, Live, Front, params, staging
  <2> QED
    BY <1>3, <2>1, <2>2
<1>4. CASE Next
  <2>1. ASSUME ContentLen > 0 PROVE DictShape'
    BY <1>1, <1>3, <1>4, <2>1, FirstCallDict, LoadDict, BlockDict, FinishDict
    DEF Next, Loop, Caller
  <2>2. DictShape'
    BY <2>1 DEF DictShape
  <2> QED
    BY <1>1, <2>2 DEF DictInv
<1> QED
  BY <1>2, <1>4

\* Whenever a block is searched, an attached dictionary is whole in the buffer and
\* all of the source is within the window, so the decoder still accepts all of the
\* dictionary (cdict_attach_overflow).
THEOREM AttachedDictStays == ASSUME WindowsBelowMax PROVE Spec => []AttachedDictIntact
<1>1. Init => DictInv
  <2>1. Init => IInv
    BY InitIInv
  <2>2. Init => Fresh /\ DictShape
    BY DEF Init, Fresh, DictShape, Live
  <2> QED
    BY <2>1, <2>2 DEF DictInv
<1>2. DictInv /\ [Next]_vars => DictInv'
  BY StepDictInv
<1>3. DictInv => AttachedDictIntact
  <2> SUFFICES ASSUME DictInv, Searching, ContentLen > 0
               PROVE  /\ \A p \in 0 .. ContentLen - 1 : in_buff[p] = p - ContentLen
                      /\ Here <= max_dist
    BY DEF AttachedDictIntact
  <2>1. IInv /\ pc = "blocks" /\ Live
    BY DEF DictInv, Searching, Live
  <2>2. /\ in_buff_pos = ContentLen + accepted
        /\ \A p \in 0 .. ContentLen - 1 : in_buff[p] = p - ContentLen
        /\ in_buff_pos + WINDOW_START_INDEX <= max_dist
    BY <2>1 DEF DictInv, DictShape
  <2>3. pos <= in_buff_pos
    BY <2>1, Counted DEF From, Live
  <2>4. /\ pos \in Nat /\ in_buff_pos \in Nat /\ accepted \in Nat /\ max_dist \in Nat
        /\ ContentLen \in Nat
    BY <2>1, HTypes, EncoderAssumption
  <2>5. accepted - (in_buff_pos - pos) <= max_dist
    BY <2>2, <2>3, <2>4 DEF WINDOW_START_INDEX
  <2> QED
    BY <2>2, <2>5 DEF Here, chunk_end
<1> QED
  BY <1>1, <1>2, <1>3, PTL DEF Spec
=============================================================================
