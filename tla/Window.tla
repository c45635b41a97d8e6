------------------------------- MODULE Window -------------------------------
(***************************************************************************)
(* The match window of the compressor (struct Window of compress.rs): how  *)
(* 32-bit match indices are mapped to positions of a history buffer that   *)
(* the streaming encoder wraps, and how the index space is recycled.       *)
(*                                                                         *)
(* Index i of the current segment lives at position i - seg_bias; an index *)
(* of the previous segment (the extDict, low_limit .. dict_limit - 1) at   *)
(* i - dict_bias.  Arithmetic on indices is u32 arithmetic of the release  *)
(* build, so it wraps modulo IndexMod (2^32 in the code, scaled down for   *)
(* model checking); positions are usize and do not wrap in the models.     *)
(***************************************************************************)
EXTENDS Integers

CONSTANTS
    IndexMod,       \* size of the index space (2^32 in the code)
    CurrentMax,     \* ZSTD_CURRENT_MAX: an index above it triggers a correction
    HashReadSize,   \* HASH_READ_SIZE: an extDict smaller than this is forgotten
    CycleSize       \* 1 << cycle_log: chains and trees index modulo this

ASSUME WindowAssumption ==
    /\ IndexMod \in Nat /\ IndexMod > 2
    /\ CurrentMax \in Nat
    /\ HashReadSize \in Nat
    /\ CycleSize \in Nat \ {0}

WINDOW_START_INDEX == 2

W32(n) == n % IndexMod
Index == 0 .. IndexMod - 1

Larger(a, b) == IF a < b THEN b ELSE a
Smaller(a, b) == IF a < b THEN a ELSE b

Windows == [seg_bias : Index, dict_bias : Index, low_limit : Index,
            dict_limit : Index, next_src_pos : Nat, next_src_idx : Index,
            loaded_dict_end : Index]

-----------------------------------------------------------------------------
(* Initial windows.                                                        *)

\* Window::new: a fresh segment at index 2, no history.
NewWindow ==
    [seg_bias |-> WINDOW_START_INDEX, dict_bias |-> WINDOW_START_INDEX,
     low_limit |-> WINDOW_START_INDEX, dict_limit |-> WINDOW_START_INDEX,
     next_src_pos |-> 0, next_src_idx |-> WINDOW_START_INDEX,
     loaded_dict_end |-> 0]

\* Window::streaming_attached_dict: the dictionary content is a prefix of the
\* buffer that a separate match state searches; the source starts behind it.
streaming_attached_dict(content_len) ==
    LET src_start == W32(WINDOW_START_INDEX + content_len)
    IN  [NewWindow EXCEPT !.low_limit = src_start, !.dict_limit = src_start,
                          !.next_src_pos = content_len,
                          !.next_src_idx = src_start]

-----------------------------------------------------------------------------
(* Window::update: register buf[start .. end) as the next chunk.           *)

contiguous(w, start) == start = w.next_src_pos

\* Mutant of FlipToExtDict: the wrapped segment is always forgotten.
FlipToExtDict_Forget(w, start) ==
    [w EXCEPT !.low_limit = w.next_src_idx, !.dict_limit = w.next_src_idx,
              !.dict_bias = w.seg_bias,
              !.seg_bias = W32(w.next_src_idx - start)]

\* The buffer wrapped: the current segment becomes the extDict, unless it is
\* too small to be worth searching.
FlipToExtDict(w, start) ==
    [w EXCEPT !.low_limit =
                  IF W32(w.next_src_idx - w.dict_limit) < HashReadSize
                  THEN w.next_src_idx ELSE w.dict_limit,
              !.dict_limit = w.next_src_idx,
              !.dict_bias = w.seg_bias,
              !.seg_bias = W32(w.next_src_idx - start)]

\* Mutant of TrimOverwritten: the overlap check is missing.
TrimOverwritten_Missing(w, start, end) == w

\* The chunk may overwrite the head of the extDict, which is then trimmed. The
\* comparisons are signed (i64), the biases are not.
TrimOverwritten(w, start, end) ==
    IF /\ end > w.low_limit - w.dict_bias
       /\ start < w.dict_limit - w.dict_bias
    THEN [w EXCEPT !.low_limit =
                       W32(Smaller(w.dict_limit, end + w.dict_bias))]
    ELSE w

update(w, start, end) ==
    IF start = end THEN w
    ELSE LET seg == IF contiguous(w, start) THEN w ELSE FlipToExtDict(w, start)
         IN  TrimOverwritten([seg EXCEPT !.next_src_pos = end,
                                         !.next_src_idx = W32(seg.seg_bias + end)],
                             start, end)

-----------------------------------------------------------------------------
(* Sliding the window: run before every block.                             *)

check_dict_validity(w, block_end_idx, max_dist) ==
    IF /\ w.loaded_dict_end # 0
       /\ \/ block_end_idx > W32(w.loaded_dict_end + max_dist)
          \/ w.loaded_dict_end # w.dict_limit
    THEN [w EXCEPT !.loaded_dict_end = 0]
    ELSE w

enforce_max_dist(w, idx, max_dist) ==
    IF idx > W32(max_dist + w.loaded_dict_end)
    THEN LET low == Larger(w.low_limit, W32(idx - max_dist))
         IN  [w EXCEPT !.low_limit = low,
                       !.dict_limit = Larger(w.dict_limit, low),
                       !.loaded_dict_end = 0]
    ELSE w

\* Mutant of slide_for_init_stats: the limits do not move with the base.
slide_for_init_stats_BaseOnly(w, src_size) ==
    [w EXCEPT !.seg_bias = W32(w.seg_bias + src_size),
              !.next_src_idx = W32(w.next_src_idx + src_size)]

\* Forget a first parse of the block: slide the index space past it.
slide_for_init_stats(w, src_size) ==
    LET start == W32(w.dict_limit + src_size)
    IN  [w EXCEPT !.seg_bias = W32(w.seg_bias + src_size),
                  !.dict_limit = start, !.low_limit = start,
                  !.next_src_idx = W32(w.next_src_idx + src_size)]

has_ext_dict(w) == w.low_limit < w.dict_limit

-----------------------------------------------------------------------------
(* Recycling the index space.                                              *)

needs_overflow_correction(w, block_end_pos) ==
    W32(block_end_pos + w.seg_bias) > CurrentMax

\* Mutant of Correction: the low cycle bits are not kept.
Correction_CycleDropped(w, max_dist, block_start_pos) ==
    W32(block_start_pos + w.seg_bias
            - (WINDOW_START_INDEX + 1 + Larger(max_dist, CycleSize)))

\* The amount correct_overflow takes off every index: the block start drops to
\* about max_dist and keeps its residue modulo CycleSize.
Correction(w, max_dist, block_start_pos) ==
    LET curr == W32(block_start_pos + w.seg_bias)
        current_cycle == curr % CycleSize
        current_cycle_correction ==
            IF current_cycle < WINDOW_START_INDEX
            THEN Larger(CycleSize, WINDOW_START_INDEX) ELSE 0
    IN  W32(curr - (current_cycle + current_cycle_correction
                        + Larger(max_dist, CycleSize)))

ReducedLimit(limit, correction) ==
    IF limit < W32(correction + WINDOW_START_INDEX)
    THEN WINDOW_START_INDEX ELSE W32(limit - correction)

\* Mutant of correct_overflow: the extDict does not move with the base.
correct_overflow_DictStays(w, correction) ==
    [w EXCEPT !.seg_bias = W32(w.seg_bias - correction),
              !.next_src_idx = W32(w.next_src_idx - correction),
              !.low_limit = ReducedLimit(w.low_limit, correction),
              !.dict_limit = ReducedLimit(w.dict_limit, correction)]

correct_overflow(w, correction) ==
    [w EXCEPT !.seg_bias = W32(w.seg_bias - correction),
              !.dict_bias = W32(w.dict_bias - correction),
              !.next_src_idx = W32(w.next_src_idx - correction),
              !.low_limit = ReducedLimit(w.low_limit, correction),
              !.dict_limit = ReducedLimit(w.dict_limit, correction)]

\* reduce_table on one slot: 0 is the empty slot.
reduce_index(i, correction) ==
    IF i < W32(correction + WINDOW_START_INDEX) THEN 0 ELSE W32(i - correction)

-----------------------------------------------------------------------------
\* The position at which the match finders read index i: usize subtraction of
\* the bias of i's segment, not reduced modulo IndexMod.
PosOf(w, i) == IF i < w.dict_limit THEN i - w.dict_bias ELSE i - w.seg_bias
=============================================================================
