---------------------------- MODULE Window_proof ----------------------------
(***************************************************************************)
(* Facts about the operators of Window, for every size of the index space. *)
(***************************************************************************)
EXTENDS Window, TLAPS

-----------------------------------------------------------------------------
(* The window operations stay within u32 indices.                          *)

LEMMA W32Index ==
    ASSUME NEW n \in Int PROVE W32(n) \in Index /\ W32(n) \in Nat
BY WindowAssumption DEF W32, Index

LEMMA W32Facts ==
    ASSUME NEW n \in Nat
    PROVE  W32(n) <= n /\ (n < IndexMod => W32(n) = n)
BY WindowAssumption DEF W32

LEMMA IndexIsNat == Index \subseteq Nat /\ 0 \in Index /\ WINDOW_START_INDEX \in Index
BY WindowAssumption DEF Index, WINDOW_START_INDEX

LEMMA WindowFields ==
    ASSUME NEW w \in Windows
    PROVE  /\ w.seg_bias \in Nat /\ w.dict_bias \in Nat
           /\ w.low_limit \in Nat /\ w.dict_limit \in Nat
           /\ w.next_src_pos \in Nat /\ w.next_src_idx \in Nat
           /\ w.loaded_dict_end \in Nat
BY DEF Windows, Index

LEMMA NewWindowType ==
    ASSUME NEW c \in Nat PROVE streaming_attached_dict(c) \in Windows
<1> DEFINE src == W32(WINDOW_START_INDEX + c)
<1>1. src \in Index
  BY W32Index DEF WINDOW_START_INDEX
<1>2. NewWindow \in Windows
  BY IndexIsNat DEF NewWindow, Windows
<1> HIDE DEF src
<1>3. [NewWindow EXCEPT !.low_limit = src, !.dict_limit = src,
                        !.next_src_pos = c, !.next_src_idx = src] \in Windows
  BY <1>1, <1>2 DEF Windows
<1> QED
  BY <1>3 DEF streaming_attached_dict, src

LEMMA FlipType ==
    ASSUME NEW w \in Windows, NEW start \in Nat
    PROVE  FlipToExtDict(w, start) \in Windows
<1> DEFINE bias == W32(w.next_src_idx - start)
           low == IF W32(w.next_src_idx - w.dict_limit) < HashReadSize
                  THEN w.next_src_idx ELSE w.dict_limit
<1>1. bias \in Index
  BY W32Index, WindowFields
<1>2. low \in Index
  BY DEF Windows
<1> HIDE DEF bias, low
<1>3. [w EXCEPT !.low_limit = low, !.dict_limit = w.next_src_idx,
                !.dict_bias = w.seg_bias, !.seg_bias = bias] \in Windows
  BY <1>1, <1>2 DEF Windows
<1> QED
  BY <1>3 DEF FlipToExtDict, bias, low

LEMMA TrimType ==
    ASSUME NEW w \in Windows, NEW start \in Nat, NEW end \in Nat
    PROVE  TrimOverwritten(w, start, end) \in Windows
<1> DEFINE low == W32(Smaller(w.dict_limit, end + w.dict_bias))
<1>1. low \in Index
  BY W32Index, WindowFields DEF Smaller
<1> HIDE DEF low
<1>2. [w EXCEPT !.low_limit = low] \in Windows
  BY <1>1 DEF Windows
<1> QED
  BY <1>2 DEF TrimOverwritten, low

LEMMA UpdateType ==
    ASSUME NEW w \in Windows, NEW start \in Nat, NEW end \in Nat
    PROVE  update(w, start, end) \in Windows
<1> DEFINE seg == IF contiguous(w, start) THEN w ELSE FlipToExtDict(w, start)
           adv == [seg EXCEPT !.next_src_pos = end,
                              !.next_src_idx = W32(seg.seg_bias + end)]
<1>1. seg \in Windows
  BY FlipType
<1> HIDE DEF seg
<1>2. W32(seg.seg_bias + end) \in Index
  BY <1>1, W32Index, WindowFields
<1>3. adv \in Windows
  BY <1>1, <1>2 DEF Windows
<1>4. TrimOverwritten(adv, start, end) \in Windows
  BY <1>3, TrimType
<1> QED
  BY <1>4 DEF update, seg

LEMMA EnforceType ==
    ASSUME NEW w \in Windows, NEW i \in Nat, NEW d \in Nat
    PROVE  enforce_max_dist(w, i, d) \in Windows
<1> DEFINE low == Larger(w.low_limit, W32(i - d))
           limit == Larger(w.dict_limit, low)
<1>1. W32(i - d) \in Index
  BY W32Index
<1>2. low \in Index
  BY <1>1 DEF Windows, Larger
<1>3. limit \in Index
  BY <1>2 DEF Windows, Larger
<1> HIDE DEF low, limit
<1>4. [w EXCEPT !.low_limit = low, !.dict_limit = limit,
                !.loaded_dict_end = 0] \in Windows
  BY <1>2, <1>3, IndexIsNat DEF Windows
<1> QED
  BY <1>4 DEF enforce_max_dist, low, limit

LEMMA ValidityType ==
    ASSUME NEW w \in Windows, NEW i, NEW d
    PROVE  check_dict_validity(w, i, d) \in Windows
BY IndexIsNat DEF check_dict_validity, Windows

LEMMA SlideType ==
    ASSUME NEW w \in Windows, NEW n \in Nat
    PROVE  slide_for_init_stats(w, n) \in Windows
<1> DEFINE start == W32(w.dict_limit + n)
           bias == W32(w.seg_bias + n)
           next == W32(w.next_src_idx + n)
<1>1. start \in Index /\ bias \in Index /\ next \in Index
  BY W32Index, WindowFields
<1> HIDE DEF start, bias, next
<1>2. [w EXCEPT !.seg_bias = bias, !.dict_limit = start, !.low_limit = start,
                !.next_src_idx = next] \in Windows
  BY <1>1 DEF Windows
<1> QED
  BY <1>2 DEF slide_for_init_stats, start, bias, next

LEMMA CorrectionType ==
    ASSUME NEW w \in Windows, NEW d \in Nat, NEW p \in Nat
    PROVE  Correction(w, d, p) \in Nat
<1> DEFINE curr == W32(p + w.seg_bias)
           cycle == curr % CycleSize
           bump == IF cycle < WINDOW_START_INDEX
                   THEN Larger(CycleSize, WINDOW_START_INDEX) ELSE 0
<1>1. curr \in Nat
  BY W32Index, WindowFields
<1> HIDE DEF curr
<1>2. cycle \in Nat
  BY <1>1, WindowAssumption
<1> HIDE DEF cycle
<1>3. bump \in Nat
  BY <1>2, WindowAssumption DEF Larger, WINDOW_START_INDEX
<1> HIDE DEF bump
<1>4. Larger(d, CycleSize) \in Nat
  BY WindowAssumption DEF Larger
<1>5. curr - (cycle + bump + Larger(d, CycleSize)) \in Int
  BY <1>1, <1>2, <1>3, <1>4
<1>6. W32(curr - (cycle + bump + Larger(d, CycleSize))) \in Nat
  BY <1>5, W32Index
<1> QED
  BY <1>6 DEF Correction, curr, cycle, bump

LEMMA CorrectType ==
    ASSUME NEW w \in Windows, NEW c \in Nat
    PROVE  correct_overflow(w, c) \in Windows
<1> DEFINE seg == W32(w.seg_bias - c)
           dict == W32(w.dict_bias - c)
           next == W32(w.next_src_idx - c)
           low == ReducedLimit(w.low_limit, c)
           limit == ReducedLimit(w.dict_limit, c)
<1>1. ASSUME NEW l \in Index PROVE ReducedLimit(l, c) \in Index
  BY W32Index, IndexIsNat DEF ReducedLimit
<1>2. low \in Index /\ limit \in Index
  BY <1>1 DEF Windows
<1>3. seg \in Index /\ dict \in Index /\ next \in Index
  BY W32Index, WindowFields
<1> HIDE DEF seg, dict, next, low, limit
<1>4. [w EXCEPT !.seg_bias = seg, !.dict_bias = dict, !.next_src_idx = next,
                !.low_limit = low, !.dict_limit = limit] \in Windows
  BY <1>2, <1>3 DEF Windows
<1> QED
  BY <1>4 DEF correct_overflow, seg, dict, next, low, limit

-----------------------------------------------------------------------------
(* What an index is read as, while no index wraps.                         *)

\* The slide raises the limits, and an index that stays valid keeps its position.
LEMMA EnforceReads ==
    ASSUME NEW w \in Windows, w.loaded_dict_end = 0, w.low_limit <= w.dict_limit,
           NEW idx \in Nat, NEW d \in Nat, idx < IndexMod, d < IndexMod, NEW b,
           NEW e, e = enforce_max_dist(check_dict_validity(w, b, d), idx, d)
    PROVE  /\ e.seg_bias = w.seg_bias /\ e.dict_bias = w.dict_bias
           /\ e.next_src_pos = w.next_src_pos /\ e.next_src_idx = w.next_src_idx
           /\ e.loaded_dict_end = 0
           /\ e.low_limit \in Nat /\ e.dict_limit \in Nat
           /\ w.low_limit <= e.low_limit /\ e.low_limit <= e.dict_limit
           /\ w.dict_limit <= e.dict_limit
           /\ e.dict_limit = w.dict_limit
              \/ (e.dict_limit = e.low_limit /\ e.dict_limit <= idx)
           /\ \A i \in Int : e.low_limit <= i => PosOf(e, i) = PosOf(w, i)
<1>1. check_dict_validity(w, b, d) = w
  BY DEF check_dict_validity
<1>2. W32(d + w.loaded_dict_end) = d
  BY W32Facts
<1>3. w.low_limit \in Nat /\ w.dict_limit \in Nat
  BY WindowFields
<1>4. CASE ~(idx > d)
  <2>1. e = w
    BY <1>1, <1>2, <1>4 DEF enforce_max_dist
  <2> QED
    BY <1>3, <2>1
<1>5. CASE idx > d
  <2> DEFINE low == Larger(w.low_limit, idx - d)
  <2>1. W32(idx - d) = idx - d
    <3>1. idx - d \in Nat /\ idx - d < IndexMod
      BY <1>5, WindowAssumption
    <3> QED
      BY <3>1, W32Facts
  <2>2. e = [w EXCEPT !.low_limit = low, !.dict_limit = Larger(w.dict_limit, low),
                      !.loaded_dict_end = 0]
    BY <1>1, <1>2, <1>5, <2>1 DEF enforce_max_dist
  <2>3. /\ low \in Nat /\ w.low_limit <= low /\ (low = w.low_limit \/ low <= idx)
    BY <1>3, <1>5 DEF Larger
  <2> HIDE DEF low
  <2>4. /\ e.seg_bias = w.seg_bias /\ e.dict_bias = w.dict_bias
        /\ e.next_src_pos = w.next_src_pos /\ e.next_src_idx = w.next_src_idx
        /\ e.loaded_dict_end = 0
        /\ e.low_limit = low /\ e.dict_limit = Larger(w.dict_limit, low)
    BY <2>2 DEF Windows
  <2>5. /\ e.dict_limit \in Nat /\ low <= e.dict_limit /\ w.dict_limit <= e.dict_limit
        /\ e.dict_limit = w.dict_limit \/ (e.dict_limit = low /\ e.dict_limit <= idx)
    BY <1>3, <2>3, <2>4 DEF Larger
  <2>6. ASSUME NEW i \in Int, low <= i PROVE PosOf(e, i) = PosOf(w, i)
    <3>1. i < e.dict_limit <=> i < w.dict_limit
      BY <1>3, <2>3, <2>5, <2>6
    <3> QED
      BY <2>4, <3>1 DEF PosOf
  <2> QED
    BY <2>3, <2>4, <2>5, <2>6
<1> QED
  BY <1>4, <1>5

\* The next chunk overwrites nothing that stays valid, and its bytes follow on.
LEMMA UpdateReads ==
    ASSUME NEW w \in Windows, w.low_limit <= w.dict_limit,
           w.dict_limit <= w.next_src_idx,
           w.next_src_idx = w.seg_bias + w.next_src_pos,
           NEW start \in Nat, NEW end \in Nat, start < end,
           start = w.next_src_pos \/ start = 0,
           w.next_src_idx + (end - start) < IndexMod,
           NEW u, u = update(w, start, end)
    PROVE  /\ u.next_src_pos = end /\ u.next_src_idx = u.seg_bias + end
           /\ u.next_src_idx = w.next_src_idx + (end - start)
           /\ u.loaded_dict_end = w.loaded_dict_end
           /\ u.low_limit \in Nat /\ w.low_limit <= u.low_limit
           /\ u.low_limit <= u.dict_limit
           /\ u.dict_limit = IF contiguous(w, start) THEN w.dict_limit
                             ELSE w.next_src_idx
           /\ \A i \in u.low_limit .. w.next_src_idx - 1 :
                  PosOf(u, i) = PosOf(w, i) /\ PosOf(u, i) \notin start .. end - 1
           /\ \A i \in w.next_src_idx .. u.next_src_idx - 1 :
                  PosOf(u, i) = start + (i - w.next_src_idx)
<1> DEFINE seg == IF contiguous(w, start) THEN w ELSE FlipToExtDict(w, start)
           adv == [seg EXCEPT !.next_src_pos = end,
                              !.next_src_idx = W32(seg.seg_bias + end)]
<1>1. /\ w.low_limit \in Nat /\ w.dict_limit \in Nat /\ w.next_src_idx \in Nat
      /\ w.seg_bias \in Nat /\ w.next_src_pos \in Nat /\ w.dict_bias \in Nat
      /\ w.next_src_idx < IndexMod /\ w.dict_limit < IndexMod /\ IndexMod \in Nat
  BY WindowFields, WindowAssumption DEF Windows, Index
<1>2. u = TrimOverwritten(adv, start, end)
  BY DEF update
<1>3. /\ seg \in Windows /\ seg.loaded_dict_end = w.loaded_dict_end
      /\ seg.next_src_idx = w.next_src_idx /\ seg.seg_bias + start = w.next_src_idx
      /\ w.low_limit <= seg.low_limit /\ seg.low_limit <= seg.dict_limit
      /\ seg.dict_limit = IF contiguous(w, start) THEN w.dict_limit ELSE w.next_src_idx
      /\ \A i \in seg.low_limit .. w.next_src_idx - 1 :
             /\ PosOf(seg, i) = PosOf(w, i)
             /\ seg.dict_limit <= i => i - seg.seg_bias < start
  <2>1. CASE contiguous(w, start)
    BY <1>1, <2>1 DEF contiguous
  <2>2. CASE ~contiguous(w, start)
    <3> DEFINE low == IF W32(w.next_src_idx - w.dict_limit) < HashReadSize
                      THEN w.next_src_idx ELSE w.dict_limit
    <3>1. start = 0
      BY <2>2 DEF contiguous
    <3>2. W32(w.next_src_idx - start) = w.next_src_idx
      BY <1>1, <3>1, W32Facts
    <3>3. seg \in Windows
      BY <2>2, FlipType
    <3>4. seg = [w EXCEPT !.low_limit = low, !.dict_limit = w.next_src_idx,
                          !.dict_bias = w.seg_bias, !.seg_bias = w.next_src_idx]
      BY <2>2, <3>2 DEF FlipToExtDict
    <3>5. low \in Nat /\ w.low_limit <= low /\ w.dict_limit <= low /\ low <= w.next_src_idx
      BY <1>1
    <3> HIDE DEF low, seg
    <3>6. /\ seg.low_limit = low /\ seg.dict_limit = w.next_src_idx
          /\ seg.dict_bias = w.seg_bias /\ seg.seg_bias = w.next_src_idx
          /\ seg.next_src_idx = w.next_src_idx
          /\ seg.loaded_dict_end = w.loaded_dict_end
      BY <3>4 DEF Windows
    <3>7. ASSUME NEW i \in seg.low_limit .. w.next_src_idx - 1
          PROVE  PosOf(seg, i) = PosOf(w, i) /\ ~(seg.dict_limit <= i)
      <4>1. i < w.next_src_idx /\ ~(i < w.dict_limit) /\ i \in Int
        BY <1>1, <3>5, <3>6
      <4> QED
        BY <1>1, <3>6, <4>1 DEF PosOf
    <3> QED
      BY <1>1, <2>2, <3>1, <3>3, <3>5, <3>6, <3>7
  <2> QED
    BY <2>1, <2>2
<1> HIDE DEF seg
<1>4. /\ seg.low_limit \in Nat /\ seg.dict_limit \in Nat /\ seg.dict_bias \in Nat
      /\ seg.seg_bias \in Nat /\ seg.dict_limit < IndexMod
      /\ seg.dict_limit <= w.next_src_idx
  BY <1>1, <1>3, WindowFields
<1>5. /\ adv.next_src_pos = end /\ adv.next_src_idx = w.next_src_idx + (end - start)
      /\ adv.seg_bias = seg.seg_bias /\ adv.dict_bias = seg.dict_bias
      /\ adv.low_limit = seg.low_limit /\ adv.dict_limit = seg.dict_limit
      /\ adv.loaded_dict_end = seg.loaded_dict_end
      /\ adv \in Windows
  <2>1. seg.seg_bias + end = w.next_src_idx + (end - start)
    BY <1>1, <1>3, <1>4
  <2>2. W32(seg.seg_bias + end) = w.next_src_idx + (end - start)
    BY <1>1, <1>4, <2>1, W32Facts
  <2>3. w.next_src_idx + (end - start) \in Index
    BY <1>1 DEF Index
  <2> QED
    BY <1>3, <2>2, <2>3 DEF Windows
<1> HIDE DEF adv
<1>6. /\ u.next_src_pos = adv.next_src_pos /\ u.next_src_idx = adv.next_src_idx
      /\ u.seg_bias = adv.seg_bias /\ u.dict_bias = adv.dict_bias
      /\ u.dict_limit = adv.dict_limit /\ u.loaded_dict_end = adv.loaded_dict_end
      /\ u.low_limit \in Nat
      /\ adv.low_limit <= u.low_limit /\ u.low_limit <= adv.dict_limit
      /\ \A i \in Int : u.low_limit <= i /\ i < adv.dict_limit =>
             end <= i - adv.dict_bias \/ i - adv.dict_bias < start
  <2>1. CASE /\ end > adv.low_limit - adv.dict_bias
             /\ start < adv.dict_limit - adv.dict_bias
    <3> DEFINE low == Smaller(adv.dict_limit, end + adv.dict_bias)
    <3>1. /\ low \in Nat /\ low < IndexMod /\ low <= adv.dict_limit
          /\ adv.low_limit <= low
          /\ \A i \in Int : low <= i /\ i < adv.dict_limit => end <= i - adv.dict_bias
      BY <1>1, <1>3, <1>4, <1>5, <2>1 DEF Smaller
    <3>2. W32(low) = low
      BY <3>1, W32Facts
    <3>3. u = [adv EXCEPT !.low_limit = low]
      BY <1>2, <2>1, <3>2 DEF TrimOverwritten
    <3> HIDE DEF low
    <3> QED
      BY <1>5, <3>1, <3>3 DEF Windows
  <2>2. CASE ~(/\ end > adv.low_limit - adv.dict_bias
               /\ start < adv.dict_limit - adv.dict_bias)
    <3>1. u = adv
      BY <1>2, <2>2 DEF TrimOverwritten
    <3> QED
      BY <1>3, <1>4, <1>5, <2>2, <3>1
  <2> QED
    BY <2>1, <2>2
<1>7. ASSUME NEW i \in u.low_limit .. w.next_src_idx - 1
      PROVE  PosOf(u, i) = PosOf(w, i) /\ PosOf(u, i) \notin start .. end - 1
  <2>1. i \in seg.low_limit .. w.next_src_idx - 1 /\ i \in Int /\ u.low_limit <= i
    BY <1>1, <1>4, <1>5, <1>6
  <2>2. PosOf(u, i) = PosOf(seg, i)
    BY <1>5, <1>6 DEF PosOf
  <2>3. CASE i < seg.dict_limit
    <3>1. PosOf(u, i) = i - seg.dict_bias
      BY <1>5, <1>6, <2>3 DEF PosOf
    <3>2. end <= i - seg.dict_bias \/ i - seg.dict_bias < start
      BY <1>5, <1>6, <2>1, <2>3
    <3>3. PosOf(u, i) \notin start .. end - 1
      <4>1. i - seg.dict_bias \in Int
        BY <1>4, <2>1
      <4> QED
        BY <3>1, <3>2, <4>1
    <3>4. PosOf(seg, i) = PosOf(w, i)
      BY <1>3, <2>1
    <3> QED
      BY <2>2, <3>3, <3>4
  <2>4. CASE ~(i < seg.dict_limit)
    <3>1. PosOf(u, i) = i - seg.seg_bias
      BY <1>5, <1>6, <2>4 DEF PosOf
    <3>2. i - seg.seg_bias < start
      BY <1>3, <1>4, <2>1, <2>4
    <3>3. PosOf(u, i) \notin start .. end - 1
      <4>1. i - seg.seg_bias \in Int
        BY <1>4, <2>1
      <4> QED
        BY <3>1, <3>2, <4>1
    <3>4. PosOf(seg, i) = PosOf(w, i)
      BY <1>3, <2>1
    <3> QED
      BY <2>2, <3>3, <3>4
  <2> QED
    BY <2>3, <2>4
<1>8. ASSUME NEW i \in w.next_src_idx .. u.next_src_idx - 1
      PROVE  PosOf(u, i) = start + (i - w.next_src_idx)
  <2>1. ~(i < u.dict_limit) /\ i \in Int
    BY <1>1, <1>4, <1>5, <1>6
  <2>2. PosOf(u, i) = i - seg.seg_bias
    BY <1>5, <1>6, <2>1 DEF PosOf
  <2> QED
    BY <1>1, <1>3, <1>4, <2>1, <2>2
<1>9. u.next_src_idx = u.seg_bias + end
  BY <1>1, <1>3, <1>4, <1>5, <1>6
<1> QED
  BY <1>1, <1>3, <1>4, <1>5, <1>6, <1>7, <1>8, <1>9

\* The second parse of a first block: all indices move with the base.
LEMMA SlideReads ==
    ASSUME NEW w \in Windows, NEW n \in Nat, w.dict_limit <= w.next_src_idx,
           w.next_src_idx + n < IndexMod, w.seg_bias <= w.next_src_idx,
           NEW s, s = slide_for_init_stats(w, n)
    PROVE  /\ s.seg_bias = w.seg_bias + n /\ s.next_src_idx = w.next_src_idx + n
           /\ s.dict_limit = w.dict_limit + n /\ s.low_limit = s.dict_limit
           /\ s.next_src_pos = w.next_src_pos /\ s.dict_bias = w.dict_bias
           /\ s.loaded_dict_end = w.loaded_dict_end
<1>1. /\ w.seg_bias \in Nat /\ w.next_src_idx \in Nat /\ w.dict_limit \in Nat
      /\ IndexMod \in Nat
  BY WindowFields, WindowAssumption
<1>2. /\ W32(w.seg_bias + n) = w.seg_bias + n
      /\ W32(w.next_src_idx + n) = w.next_src_idx + n
      /\ W32(w.dict_limit + n) = w.dict_limit + n
  BY <1>1, W32Facts
<1>3. s = [w EXCEPT !.seg_bias = w.seg_bias + n, !.dict_limit = w.dict_limit + n,
                    !.low_limit = w.dict_limit + n,
                    !.next_src_idx = w.next_src_idx + n]
  BY <1>2 DEF slide_for_init_stats
<1> QED
  BY <1>3 DEF Windows

LEMMA TrimFields ==
    ASSUME NEW w \in Windows, w.low_limit <= w.dict_limit,
           NEW start \in Nat, NEW end \in Nat,
           NEW u, u = TrimOverwritten(w, start, end)
    PROVE  /\ u.seg_bias = w.seg_bias /\ u.dict_bias = w.dict_bias
           /\ u.dict_limit = w.dict_limit /\ u.next_src_pos = w.next_src_pos
           /\ u.low_limit = IF /\ end > w.low_limit - w.dict_bias
                               /\ start < w.dict_limit - w.dict_bias
                            THEN Smaller(w.dict_limit, end + w.dict_bias)
                            ELSE w.low_limit
<1>1. /\ w.low_limit \in Nat /\ w.dict_limit \in Nat /\ w.dict_bias \in Nat
      /\ w.dict_limit < IndexMod /\ IndexMod \in Nat
  BY WindowFields, WindowAssumption DEF Windows, Index
<1> DEFINE low == Smaller(w.dict_limit, end + w.dict_bias)
<1>2. low \in Nat /\ low < IndexMod
  BY <1>1 DEF Smaller
<1>3. W32(low) = low
  BY <1>2, W32Facts
<1> HIDE DEF low
<1>4. u = IF /\ end > w.low_limit - w.dict_bias
             /\ start < w.dict_limit - w.dict_bias
          THEN [w EXCEPT !.low_limit = low] ELSE w
  BY <1>3 DEF TrimOverwritten, low
<1> QED
  BY <1>4 DEF Windows, low

\* The next chunk forgets no more than it overwrites, unless the segment it wraps
\* is too small to be searched.
LEMMA UpdateRetains ==
    ASSUME NEW w \in Windows, w.low_limit <= w.dict_limit,
           w.dict_limit <= w.next_src_idx,
           w.next_src_idx = w.seg_bias + w.next_src_pos,
           NEW start \in Nat, NEW end \in Nat, start < end,
           start = w.next_src_pos \/ start = 0,
           w.next_src_idx + (end - start) < IndexMod,
           w.low_limit < w.dict_limit => w.next_src_pos + w.dict_bias <= w.low_limit,
           NEW u, u = update(w, start, end)
    PROVE  /\ u.low_limit < u.dict_limit => u.next_src_pos + u.dict_bias <= u.low_limit
           /\ u.seg_bias = IF contiguous(w, start) THEN w.seg_bias ELSE w.next_src_idx
           /\ \A i \in w.low_limit .. w.next_src_idx - 1 :
                  /\ PosOf(w, i) \in Nat /\ PosOf(w, i) \notin start .. end - 1
                  /\ \/ contiguous(w, start)
                     \/ /\ w.dict_limit <= i
                        /\ HashReadSize <= w.next_src_idx - w.dict_limit
                  => u.low_limit <= i
<1> DEFINE seg == IF contiguous(w, start) THEN w ELSE FlipToExtDict(w, start)
           adv == [seg EXCEPT !.next_src_pos = end,
                              !.next_src_idx = W32(seg.seg_bias + end)]
<1>1. /\ w.low_limit \in Nat /\ w.dict_limit \in Nat /\ w.next_src_idx \in Nat
      /\ w.seg_bias \in Nat /\ w.next_src_pos \in Nat /\ w.dict_bias \in Nat
      /\ w.next_src_idx < IndexMod /\ w.dict_limit < IndexMod /\ IndexMod \in Nat
      /\ HashReadSize \in Nat
  BY WindowFields, WindowAssumption DEF Windows, Index
<1>2. u = TrimOverwritten(adv, start, end)
  BY DEF update
<1>3. CASE contiguous(w, start)
  <2>1. seg = w /\ start = w.next_src_pos
    BY <1>3 DEF contiguous
  <2>2. /\ adv.next_src_pos = end /\ adv.seg_bias = w.seg_bias
        /\ adv.dict_bias = w.dict_bias /\ adv.low_limit = w.low_limit
        /\ adv.dict_limit = w.dict_limit /\ adv \in Windows
    <3>1. W32(w.seg_bias + end) \in Index
      BY <1>1, W32Index
    <3> QED
      BY <2>1, <3>1 DEF Windows
  <2> HIDE DEF adv, seg
  <2>3. /\ u.seg_bias = w.seg_bias /\ u.dict_bias = w.dict_bias
        /\ u.dict_limit = w.dict_limit /\ u.next_src_pos = end
        /\ u.low_limit = IF /\ end > w.low_limit - w.dict_bias
                            /\ start < w.dict_limit - w.dict_bias
                         THEN Smaller(w.dict_limit, end + w.dict_bias)
                         ELSE w.low_limit
    BY <1>2, <2>2, TrimFields
  <2>4. u.low_limit < u.dict_limit => u.next_src_pos + u.dict_bias <= u.low_limit
    BY <1>1, <2>1, <2>3 DEF Smaller
  <2>5. ASSUME NEW i \in w.low_limit .. w.next_src_idx - 1,
               PosOf(w, i) \in Nat, PosOf(w, i) \notin start .. end - 1
        PROVE  u.low_limit <= i
    <3>1. i \in Int /\ w.low_limit <= i
      BY <1>1
    <3>2. CASE ~(i < w.dict_limit)
      BY <1>1, <2>3, <3>1, <3>2 DEF Smaller
    <3>3. CASE i < w.dict_limit
      <4>1. PosOf(w, i) = i - w.dict_bias
        BY <3>3 DEF PosOf
      <4>2. end <= i - w.dict_bias
        BY <1>1, <2>1, <2>5, <3>1, <3>3, <4>1
      <4> QED
        BY <1>1, <2>3, <3>1, <4>2 DEF Smaller
    <3> QED
      BY <3>2, <3>3
  <2> QED
    BY <1>3, <2>3, <2>4, <2>5
<1>4. CASE ~contiguous(w, start)
  <2> DEFINE low == IF W32(w.next_src_idx - w.dict_limit) < HashReadSize
                    THEN w.next_src_idx ELSE w.dict_limit
  <2>1. start = 0 /\ w.next_src_pos > 0
    BY <1>1, <1>4 DEF contiguous
  <2>2. W32(w.next_src_idx - start) = w.next_src_idx
    BY <1>1, <2>1, W32Facts
  <2>3. seg \in Windows
    BY <1>4, FlipType
  <2>4. seg = [w EXCEPT !.low_limit = low, !.dict_limit = w.next_src_idx,
                        !.dict_bias = w.seg_bias, !.seg_bias = w.next_src_idx]
    BY <1>4, <2>2 DEF FlipToExtDict
  <2>5. low \in Nat /\ low <= w.next_src_idx
    BY <1>1
  <2>6. HashReadSize <= w.next_src_idx - w.dict_limit => low = w.dict_limit
    <3>1. w.next_src_idx - w.dict_limit \in Nat /\ w.next_src_idx - w.dict_limit < IndexMod
      BY <1>1
    <3>2. W32(w.next_src_idx - w.dict_limit) = w.next_src_idx - w.dict_limit
      BY <3>1, W32Facts
    <3> QED
      BY <1>1, <3>2
  <2> HIDE DEF low, seg
  <2>7. /\ seg.low_limit = low /\ seg.dict_limit = w.next_src_idx
        /\ seg.dict_bias = w.seg_bias /\ seg.seg_bias = w.next_src_idx
    BY <2>4 DEF Windows
  <2>8. /\ adv.next_src_pos = end /\ adv.seg_bias = w.next_src_idx
        /\ adv.dict_bias = w.seg_bias /\ adv.low_limit = low
        /\ adv.dict_limit = w.next_src_idx /\ adv \in Windows
    <3>1. W32(seg.seg_bias + end) \in Index
      BY <1>1, <2>7, W32Index
    <3> QED
      BY <2>3, <2>7, <3>1 DEF Windows
  <2> HIDE DEF adv
  <2>9. /\ u.seg_bias = w.next_src_idx /\ u.dict_bias = w.seg_bias
        /\ u.dict_limit = w.next_src_idx /\ u.next_src_pos = end
        /\ u.low_limit = IF /\ end > low - w.seg_bias
                            /\ start < w.next_src_idx - w.seg_bias
                         THEN Smaller(w.next_src_idx, end + w.seg_bias)
                         ELSE low
    BY <1>2, <2>5, <2>8, TrimFields
  <2>10. u.low_limit < u.dict_limit => u.next_src_pos + u.dict_bias <= u.low_limit
    BY <1>1, <2>1, <2>5, <2>9 DEF Smaller
  <2>11. ASSUME NEW i \in w.low_limit .. w.next_src_idx - 1,
                PosOf(w, i) \in Nat, PosOf(w, i) \notin start .. end - 1,
                w.dict_limit <= i, HashReadSize <= w.next_src_idx - w.dict_limit
         PROVE  u.low_limit <= i
    <3>1. i \in Int /\ PosOf(w, i) = i - w.seg_bias
      BY <1>1, <2>11 DEF PosOf
    <3>2. end <= i - w.seg_bias
      BY <1>1, <2>1, <2>11, <3>1
    <3> QED
      BY <1>1, <2>5, <2>6, <2>9, <2>11, <3>1, <3>2 DEF Smaller
  <2> QED
    BY <1>4, <2>9, <2>10, <2>11
<1> QED
  BY <1>3, <1>4

\* The slide forgets what is further than d before the block, and no more.
LEMMA EnforceRetains ==
    ASSUME NEW w \in Windows, w.loaded_dict_end = 0, w.low_limit <= w.dict_limit,
           NEW idx \in Nat, NEW d \in Nat, idx < IndexMod, d < IndexMod, NEW b,
           NEW e, e = enforce_max_dist(check_dict_validity(w, b, d), idx, d)
    PROVE  /\ e.low_limit = w.low_limit \/ e.low_limit <= idx - d
           /\ e.dict_limit = w.dict_limit
              \/ (e.dict_limit = e.low_limit /\ e.dict_limit <= idx - d)
<1>1. check_dict_validity(w, b, d) = w
  BY DEF check_dict_validity
<1>2. W32(d + w.loaded_dict_end) = d
  BY W32Facts
<1>3. w.low_limit \in Nat /\ w.dict_limit \in Nat
  BY WindowFields
<1>4. CASE ~(idx > d)
  <2>1. e = w
    BY <1>1, <1>2, <1>4 DEF enforce_max_dist
  <2> QED
    BY <2>1
<1>5. CASE idx > d
  <2> DEFINE low == Larger(w.low_limit, idx - d)
  <2>1. W32(idx - d) = idx - d
    <3>1. idx - d \in Nat /\ idx - d < IndexMod
      BY <1>5, WindowAssumption
    <3> QED
      BY <3>1, W32Facts
  <2>2. e = [w EXCEPT !.low_limit = low, !.dict_limit = Larger(w.dict_limit, low),
                      !.loaded_dict_end = 0]
    BY <1>1, <1>2, <1>5, <2>1 DEF enforce_max_dist
  <2>3. low \in Nat /\ w.low_limit <= low /\ (low = w.low_limit \/ low = idx - d)
    BY <1>3, <1>5 DEF Larger
  <2> HIDE DEF low
  <2>4. e.low_limit = low /\ e.dict_limit = Larger(w.dict_limit, low)
    BY <2>2 DEF Windows
  <2> QED
    BY <1>3, <2>3, <2>4 DEF Larger
<1> QED
  BY <1>4, <1>5
=============================================================================
