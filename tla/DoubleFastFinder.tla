--------------------------- MODULE DoubleFastFinder ---------------------------
(***************************************************************************)
(* The ZSTD_dfast match finder: a table of short matches and one of long   *)
(* ones.  compress_block_dfast runs over one segment, with two cursors;    *)
(* compress_block_dfast_extdict and compress_block_dfast_dict_match_state  *)
(* are the older loop with one cursor.  One action is one turn of a loop.  *)
(***************************************************************************)
EXTENDS MatchFinder

Dfast == config.matcher = "dfast"
OneSegment == Dfast /\ mode = "noDict"
TwoSegments == Dfast /\ mode # "noDict"

\* Behind a match, positions inside it are entered, unless they come too close to
\* the end of the block.
DfastTables(t, end) ==
    IF end <= ilimit
    THEN PutSmall(PutLong(t, <<search.ip + 2, end - 2>>), <<search.ip + 2, end - 1>>)
    ELSE t

\* The tables once the current position is entered, which a turn does after it
\* has read its own buckets and before it reads those of the next position.
Entered == PutBoth(tables, <<search.ip>>)

dfast_repcode_taken ==
    /\ TakeRepeat(search.ip + 1, 0)
    /\ tables' = DfastTables(Entered, search'.ip)

-----------------------------------------------------------------------------
(* One segment.                                                            *)

dfast_start ==
    /\ pc = "start" /\ OneSegment
    /\ search' = [search EXCEPT !.ip1 = search.ip + 1, !.step = 1,
                                !.next_step = search.ip + SearchStrength]
    /\ pc' = IF search.ip + 1 > ilimit THEN "leave" ELSE "search"
    /\ UNCHANGED <<frame, tables, seqs>>

DfastRepeats == Repeats(search.ip + 1, search.off[1])

DfastLong == /\ long_at(search.ip) >= prefix_start_index
             /\ Same(long_at(search.ip), search.ip, LongW)
DfastShort == /\ small_at(search.ip) >= prefix_start_index
              /\ Same(small_at(search.ip), search.ip, W)

\* The second cursor's position is entered too, if a match surely covers it.
WithNext(end) ==
    DfastTables(IF search.step < W THEN PutLong(Entered, <<search.ip1>>) ELSE Entered,
                end)

dfast_repcode ==
    /\ pc = "search" /\ OneSegment /\ DfastRepeats
    /\ dfast_repcode_taken

dfast_long ==
    /\ pc = "search" /\ OneSegment /\ ~DfastRepeats /\ DfastLong
    /\ Take(search.ip, long_at(search.ip), LongW)
    /\ tables' = WithNext(search'.ip)

\* A short match gives way to a longer one at the next position.
dfast_short ==
    LET idx   == small_at(search.ip)
        next  == Lookup(Entered.long, Word(pos_p(search.ip1), LongW))
        better == /\ next > prefix_start_index
                  /\ Same(next, search.ip1, LongW)
                  /\ MatchLength(search.ip1, next, LongW) > MatchLength(search.ip, idx, W)
    IN  /\ pc = "search" /\ OneSegment /\ ~DfastRepeats /\ ~DfastLong /\ DfastShort
        /\ IF better THEN Take(search.ip1, next, LongW) ELSE Take(search.ip, idx, W)
        /\ tables' = WithNext(search'.ip)

dfast_advance ==
    LET faster == search.ip1 >= search.next_step
        step   == search.step + IF faster THEN 1 ELSE 0
    IN  /\ pc = "search" /\ OneSegment /\ ~DfastRepeats /\ ~DfastLong /\ ~DfastShort
        /\ tables' = Entered
        /\ search' = [search EXCEPT !.ip = search.ip1, !.ip1 = search.ip1 + step,
                          !.step = step,
                          !.next_step = @ + IF faster THEN SearchStrength ELSE 0]
        /\ pc' = IF search.ip1 + step > ilimit THEN "leave" ELSE "search"
        /\ UNCHANGED <<frame, seqs>>

-----------------------------------------------------------------------------
(* Two segments, the other one being the extDict or an attached dictionary.*)

dfast_two_leave ==
    /\ pc = "start" /\ TwoSegments /\ search.ip >= ilimit
    /\ pc' = "leave"
    /\ UNCHANGED <<frame, tables, search, seqs>>

Searching == pc = "start" /\ TwoSegments /\ search.ip < ilimit

\* The index a long match at ip is taken from, 0 for none: the frame's own table,
\* then the attached one.
LongCandidate(table, ip) ==
    LET word == Word(pos_p(ip), LongW)
        idx  == Lookup(table, word)
        dict == DictLookup(dms.long, word)
        own  == /\ IF mode = "extDict" THEN idx > dict_start_index
                   ELSE idx >= prefix_start_index
                /\ Same(idx, ip, LongW)
    IN  CASE own -> idx
          [] /\ ~own /\ mode = "dictMatchState" /\ dict > WINDOW_START_INDEX
             /\ Same(dict, ip, LongW) -> dict
          [] OTHER -> 0

\* The same for a short match, where the attached table is only asked if the own
\* one has nothing at all.
ShortCandidate ==
    LET own  == small_at(search.ip)
        dict == DictLookup(dms.small, Word(pos_p(search.ip), W))
        idx  == IF mode = "extDict" \/ own > prefix_start_index THEN own ELSE dict
    IN  IF idx > lowest_index /\ Same(idx, search.ip, W) THEN idx ELSE 0

Long == LongCandidate(tables.long, search.ip)

dfast_two_repcode ==
    /\ Searching /\ DfastRepeats
    /\ dfast_repcode_taken

dfast_two_long ==
    /\ Searching /\ ~DfastRepeats /\ Long # 0
    /\ Take(search.ip, Long, LongW)
    /\ tables' = DfastTables(Entered, search'.ip)

\* A short match gives way to a long one at the next position, which is entered.
dfast_two_short ==
    LET next  == LongCandidate(Entered.long, search.ip + 1)
    IN  /\ Searching /\ ~DfastRepeats /\ Long = 0 /\ ShortCandidate # 0
        /\ IF next # 0 THEN Take(search.ip + 1, next, LongW)
           ELSE Take(search.ip, ShortCandidate, W)
        /\ tables' = DfastTables(PutLong(Entered, <<search.ip + 1>>), search'.ip)

dfast_two_advance ==
    /\ Searching /\ ~DfastRepeats /\ Long = 0 /\ ShortCandidate = 0
    /\ tables' = Entered
    /\ search' = [search EXCEPT !.ip =
                      @ + ((@ - search.anchor) \div SearchStrength) + 1]
    /\ UNCHANGED <<frame, seqs, pc>>

DfastNext ==
    \/ dfast_start \/ dfast_repcode \/ dfast_long \/ dfast_short \/ dfast_advance
    \/ dfast_two_leave \/ dfast_two_repcode \/ dfast_two_long \/ dfast_two_short
    \/ dfast_two_advance
=============================================================================
