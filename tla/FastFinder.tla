----------------------------- MODULE FastFinder -----------------------------
(***************************************************************************)
(* The ZSTD_fast match finder in its three variants: over one segment      *)
(* (compress_block_fast), over two (compress_block_fast_extdict) and with  *)
(* an attached dictionary (compress_block_fast_dict_match_state).  One     *)
(* action is half a turn of the search loop, which looks at two positions. *)
(***************************************************************************)
EXTENDS MatchFinder

Fast == config.matcher = "fast"

\* _start: four cursors, or two for an attached dictionary.
fast_start ==
    LET step == config.step_size + IF mode = "dictMatchState" THEN 0 ELSE 1
        ip1  == search.ip + IF mode = "dictMatchState" THEN step ELSE 1
        ip2  == search.ip + step
        incr == IF mode = "dictMatchState" THEN SearchStrength ELSE SearchStrength \div 2
    IN  /\ pc = "start" /\ Fast
        /\ search' = [search EXCEPT !.ip1 = ip1, !.ip2 = ip2, !.ip3 = ip2 + 1,
                                    !.step = step, !.next_step = search.ip + incr]
        /\ pc' = IF IF mode = "dictMatchState" THEN ip1 > ilimit ELSE ip2 + 1 >= ilimit
                 THEN "leave" ELSE "search"
        /\ UNCHANGED <<frame, tables, seqs>>

\* Where the most recent offset is tried, and whether it matches there.
FastRepeatAt == IF mode = "dictMatchState" THEN search.ip + 1 ELSE search.ip2

FastRepeats ==
    LET off == search.off[1]
    IN  /\ search.half = 0
        /\ IF mode = "dictMatchState" THEN Repeats(FastRepeatAt, off)
           ELSE /\ off > 0
                /\ mode = "extDict" =>
                       W32(prefix_start_index - (FastRepeatAt - off)) >= W
                /\ Same(FastRepeatAt - off, FastRepeatAt, W)

\* The index a match at ip is taken from, 0 for none.
DictCandidate == DictLookup(dms.small, Word(pos_p(search.ip), W))

FastCandidate ==
    LET idx == small_at(search.ip)
        own == /\ idx >= (IF mode = "extDict" THEN dict_start_index ELSE prefix_start_index)
               /\ Same(idx, search.ip, W)
        fromDict == /\ mode = "dictMatchState" /\ idx <= prefix_start_index
                    /\ DictCandidate > WINDOW_START_INDEX
                    /\ Same(DictCandidate, search.ip, W)
    IN  CASE fromDict -> DictCandidate
          [] ~fromDict /\ own -> idx
          [] OTHER -> 0

\* Is the second position of the turn entered as well?  Only if it lies in front
\* of the next search, which reads its own bucket before it writes it.
WritesNext(end, repeated) ==
    CASE mode = "noDict" -> repeated \/ search.half = 0 \/ search.step <= W
      [] mode = "extDict" -> search.ip1 < end
      [] mode = "dictMatchState" -> FALSE

\* The positions a match enters: its own, the next one, and two inside it, unless
\* they come too close to the end of the block.
FastTables(end, repeated) ==
    PutSmall(tables,
             <<search.ip>> \o (IF WritesNext(end, repeated) THEN <<search.ip1>> ELSE <<>>)
                 \o (IF end <= ilimit THEN <<search.ip + 2, end - 2>> ELSE <<>>))

fast_repcode ==
    LET at   == FastRepeatAt
        from == at - search.off[1]
        back == IF /\ mode # "dictMatchState"
                   /\ At(pos_p(at) - 1) = At(pos_seg(from) - 1) THEN 1 ELSE 0
    IN  /\ pc = "search" /\ Fast /\ FastRepeats
        /\ TakeRepeat(at, back)
        /\ tables' = FastTables(search'.ip, TRUE)

fast_match ==
    /\ pc = "search" /\ Fast /\ ~FastRepeats /\ FastCandidate # 0
    /\ Take(search.ip, FastCandidate, W)
    /\ tables' = FastTables(search'.ip, FALSE)

\* After two positions the cursors move on, faster the longer nothing is found.
NextTurn ==
    LET s == search
    IN  CASE mode = "dictMatchState" ->
                LET step == s.step + IF s.ip1 >= s.next_step THEN 1 ELSE 0
                IN  [s EXCEPT !.ip = s.ip1, !.ip1 = s.ip1 + step, !.step = step,
                              !.next_step = @ + IF step > s.step THEN SearchStrength ELSE 0]
          [] mode # "dictMatchState" /\ s.half = 0 ->
                [s EXCEPT !.ip = s.ip1, !.ip1 = s.ip2, !.ip2 = s.ip3, !.half = 1]
          [] mode # "dictMatchState" /\ s.half = 1 ->
                LET faster == s.ip1 + s.step >= s.next_step
                IN  [s EXCEPT !.ip = s.ip1, !.ip1 = s.ip2, !.ip2 = s.ip1 + s.step,
                              !.ip3 = s.ip2 + s.step, !.half = 0,
                              !.step = @ + IF faster THEN 1 ELSE 0,
                              !.next_step = @ + IF faster THEN SearchStrength \div 2 ELSE 0]

fast_advance ==
    /\ pc = "search" /\ Fast /\ ~FastRepeats /\ FastCandidate = 0
    /\ tables' = PutSmall(tables, <<search.ip>>)
    /\ search' = NextTurn
    /\ pc' = IF CASE mode = "dictMatchState" -> search'.ip1 > ilimit
                  [] OTHER -> search'.half = 0 /\ search'.ip3 >= ilimit
             THEN "leave" ELSE "search"
    /\ UNCHANGED <<frame, seqs>>

FastNext == fast_start \/ fast_repcode \/ fast_match \/ fast_advance
=============================================================================
