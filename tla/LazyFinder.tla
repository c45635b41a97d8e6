----------------------------- MODULE LazyFinder -----------------------------
(***************************************************************************)
(* The greedy, lazy and lazy2 match finder and btlazy2 (lazy.rs): a driver *)
(* that may put a match off for a better one at the next positions, over   *)
(* one segment, over two, or with an attached dictionary, and under it     *)
(* three ways to search: hash chains, rows of a tag table, and a binary    *)
(* tree whose nodes are sorted when they are first met (DUBT).             *)
(*                                                                         *)
(* The tables are brought up to date only when a position is searched, so  *)
(* a LazyCtx carries over what it still has to enter, and the rows the     *)
(* hashes of positions to come: state that skipping, long matches and a    *)
(* buffer that wraps must keep in step with the data.                      *)
(***************************************************************************)
EXTENDS MatchFinder

CONSTANTS
    SearchAttempts,     \* 1 << search_log
    RowEntries,         \* 1 << row_log
    SkippingStep,       \* K_LAZY_SKIPPING_STEP
    UpdateGap,          \* 384: a longer gap is not caught up with in full
    UpdateKeep,         \* 192: at most so many positions before a block are
    RowStart, RowEnd    \* K_MAX_START, K_MAX_END

ASSUME LazyAssumption ==
    /\ SearchAttempts >= 2 /\ RowEntries >= 2 /\ CacheSize > 0
    /\ RowStart + RowEnd <= UpdateGap

DUBT_UNSORTED_MARK == 1

\* The off_base a search starts from, larger than any.
NoMatch == [len |-> 0, off_base |-> 999999999]

highbit32(n) == CHOOSE k \in 0 .. 29 : 2^k <= n /\ n < 2^(k + 1)

-----------------------------------------------------------------------------
(* The context.                                                            *)

\* hash: bucket -> head of its chain or root of its tree; chain and tree: by index
\* modulo their size; rows: bucket -> entries, the newest first; cache: the hashes
\* of the positions to be entered next.
NewLazyCtx ==
    [hash  |-> <<>>,
     chain |-> [n \in 0 .. CycleSize - 1 |-> 0],
     tree  |-> [n \in 0 .. CycleSize - 1 |-> [small |-> 0, large |-> 0]],
     rows  |-> <<>>,
     cache |-> [n \in 0 .. CacheSize - 1 |-> [bucket |-> 0, tag |-> 0]],
     next  |-> WINDOW_START_INDEX,
     skipping |-> FALSE]

\* ByteAt follows an index over the seam, and for the fill of a dictionary it is
\* just a position.
WordAt(idx) == Word(pos_p(idx), W)
ByteAt(idx) == At(pos_seg(idx))
HashAt(idx) == [bucket |-> Bucket(WordAt(idx)), tag |-> Tag(WordAt(idx))]

HeadOf(table, bucket) == IF bucket \in DOMAIN table THEN table[bucket] ELSE 0

\* Can the candidate beat a match of beat bytes at ip?  In the same segment the
\* bytes up to the first it must add are compared first, in the other segment its
\* first bytes.
LengthAt(idx, ip, beat) ==
    LET from == beat - (W - 1)
    IN  CASE ip + beat = iend -> 0
          [] ip + beat # iend /\ InDict(idx) ->
                IF Same(idx, ip, W) THEN MatchLength(ip, idx, W) ELSE 0
          [] ip + beat # iend /\ ~InDict(idx) ->
                IF Word(pos_p(idx) + from, W) = Word(pos_p(ip) + from, W)
                THEN count_eq(pos_p(ip), pos_p(idx), block.end) ELSE 0

\* The first of the longest matches wins.
Improved(best, idx, ip) ==
    LET len == LengthAt(idx, ip, best.len)
    IN  IF len > best.len THEN [len |-> len, off_base |-> ip - idx + 3] ELSE best

Unmatched == [NoMatch EXCEPT !.len = W - 1]

-----------------------------------------------------------------------------
(* Hash chains.                                                            *)

\* insert_and_find_first_index: all positions up to target, a single one while
\* skipping.
insert_and_find_first_index(t, target) ==
    LET enter_one(s, idx) ==
            LET bucket == Bucket(WordAt(idx))
            IN  [s EXCEPT !.chain[idx % CycleSize] = HeadOf(s.hash, bucket),
                          !.hash = (bucket :> idx) @@ @]
        last == IF t.skipping THEN Smaller(t.next + 1, target) ELSE target
    IN  [FoldLeft(enter_one, t, Positions(t.next, last)) EXCEPT !.next = target]

\* A walk down a chain, which ends below low, when the ring of the chain has been
\* through once, or when the attempts run out.
Walk(t, ip, low, min_chain, attempts, best) ==
    LET visit(a, n) ==
            IF a.done \/ a.idx < low THEN [a EXCEPT !.done = TRUE]
            ELSE LET found == [a EXCEPT !.best = Improved(a.best, a.idx, ip)]
                 IN  IF a.idx <= min_chain THEN [found EXCEPT !.done = TRUE]
                     ELSE [found EXCEPT !.idx = t.chain[a.idx % CycleSize],
                                        !.left = @ - 1]
        first == [idx |-> HeadOf(t.hash, Bucket(WordAt(ip))), best |-> best,
                  left |-> attempts, done |-> FALSE]
    IN  FoldLeft(visit, first, Positions(0, attempts))

hc_find_best_match(ip) ==
    LET t    == insert_and_find_first_index(tables, ip)
        own  == Walk(t, ip, WindowLowAt(ip), Larger(0, ip - CycleSize),
                     SearchAttempts, Unmatched)
        dict == Walk(dms, ip, WINDOW_START_INDEX,
                     Larger(0, WINDOW_START_INDEX + Len(content) - CycleSize),
                     own.left, own.best)
    IN  [tables |-> t,
         best |-> IF mode = "dictMatchState" THEN dict.best ELSE own.best]

-----------------------------------------------------------------------------
(* Rows.                                                                   *)

Row(t, bucket) == IF bucket \in DOMAIN t.rows THEN t.rows[bucket] ELSE <<>>

\* One slot of a row holds its head, so it has room for one entry less.
RowInsert(t, hash, idx) ==
    LET row == <<[idx |-> idx, tag |-> hash.tag]>> \o Row(t, hash.bucket)
    IN  [t EXCEPT !.rows =
            (hash.bucket :> SubSeq(row, 1, Smaller(Len(row), RowEntries - 1))) @@ @]

row_fill_hash_cache(t, idx, i_limit) ==
    LET filled == Positions(idx, Smaller(idx + CacheSize, i_limit + 1))
    IN  FoldLeft(LAMBDA s, i : [s EXCEPT !.cache[i % CacheSize] = HashAt(i)], t, filled)

\* The start of a block and the end of skipping, where the positions passed over
\* did not go through the cache.
RefilledCache(t) ==
    [(IF Rows THEN row_fill_hash_cache(t, t.next, ilimit) ELSE t)
        EXCEPT !.skipping = FALSE]

\* Mutant of LeaveSkipping: the hashes from before skipping stay.
LeaveSkipping_Stale(t) == [t EXCEPT !.skipping = FALSE]

LeaveSkipping(t) == IF t.skipping THEN RefilledCache(t) ELSE t

\* row_update_impl: enter the positions first .. last - 1. Each takes its hash from
\* the cache and leaves there that of the position CacheSize further on; a
\* dictionary is entered without the cache.
RowUpdate(t, first, last, use_cache) ==
    LET enter_one(s, idx) ==
            IF use_cache
            THEN [RowInsert(s, s.cache[idx % CacheSize], idx)
                     EXCEPT !.cache[idx % CacheSize] = HashAt(idx + CacheSize)]
            ELSE RowInsert(s, HashAt(idx), idx)
    IN  FoldLeft(enter_one, t, Positions(first, last))

row_update_internal(t, target, use_cache) ==
    LET resume == target - RowEnd
        caught_up ==
            IF use_cache /\ target - t.next > UpdateGap
            THEN RowUpdate(row_fill_hash_cache(
                               RowUpdate(t, t.next, t.next + RowStart, use_cache),
                               resume, target + 1),
                           resume, target, use_cache)
            ELSE RowUpdate(t, t.next, target, use_cache)
    IN  [caught_up EXCEPT !.next = target]

\* The entries with the tag, the newest first, down to low and as far as the
\* attempts go.
RowMatches(row, tag, low, attempts) ==
    LET tagged == SelectSeq(row, LAMBDA e : e.tag = tag /\ e.idx >= low)
    IN  SubSeq(tagged, 1, Smaller(Len(tagged), attempts))

row_find_best_match(ip) ==
    LET updated == IF tables.skipping THEN [tables EXCEPT !.next = ip]
                   ELSE row_update_internal(tables, ip, TRUE)
        hash  == IF tables.skipping THEN HashAt(ip) ELSE updated.cache[ip % CacheSize]
        taken == IF tables.skipping THEN updated
                 ELSE [updated EXCEPT !.cache[ip % CacheSize] = HashAt(ip + CacheSize)]
        t     == [RowInsert(taken, hash, ip) EXCEPT !.next = ip + 1]
        attempts == Smaller(SearchAttempts, RowEntries)
        own   == RowMatches(Row(updated, hash.bucket), hash.tag, WindowLowAt(ip), attempts)
        dict  == IF mode = "dictMatchState"
                 THEN RowMatches(Row(dms, HashAt(ip).bucket), HashAt(ip).tag,
                                 WINDOW_START_INDEX, attempts - Len(own))
                 ELSE <<>>
    IN  [tables |-> t,
         best |-> FoldLeft(LAMBDA b, e : Improved(b, e.idx, ip), Unmatched, own \o dict)]

-----------------------------------------------------------------------------
(* The binary tree.  A node has two subtrees, of the positions whose bytes  *)
(* are smaller and larger, all of them older; a node not sorted yet keeps  *)
(* its predecessor in the list of its bucket and a mark.                    *)

Node(t, idx) == t.tree[idx % CycleSize]

\* How many bytes agree at idx and older, from bytes of which already do.
CommonLength(idx, older, from, end) ==
    CHOOSE n \in from .. end - idx :
        /\ \A k \in from .. n - 1 : ByteAt(idx + k) = ByteAt(older + k)
        /\ idx + n = end \/ ByteAt(idx + n) # ByteAt(older + n)

\* Where a link of the tree is kept: a side of the node of an index.
SetLink(t, slot, idx) ==
    IF slot.side = "small" THEN [t EXCEPT !.tree[slot.at % CycleSize].small = idx]
    ELSE [t EXCEPT !.tree[slot.at % CycleSize].large = idx]

\* How a descent compares matches, and whether it links: sorting goes by the length
\* alone; a search also weighs the size of the offset, that of an attached dictionary
\* slightly differently, and only reads the dictionary's tree.  No length is enough.
Sorting == [weighs |-> FALSE, add |-> 0, links |-> TRUE, enough |-> NoMatch.off_base]
Rooting == [Sorting EXCEPT !.weighs = TRUE]
Reading == [Rooting EXCEPT !.add = 1, !.links = FALSE]

Better(best, len, idx, older, kind) ==
    /\ len > best.len
    /\ kind.weighs => 4 * (len - best.len) > highbit32(idx - older + 1)
                                                 - highbit32(best.off_base + kind.add)

\* A node that agrees with position idx in len bytes goes to one of the two ends of
\* the new root's subtrees, unless it is equal up to the end: it cannot be ordered,
\* and the descent stops. It also stops at nodes that have left the ring, and it
\* collects the matches that were better than those before.
Meet(a, idx, len, end, bt_low, kind) ==
    LET side   == IF ByteAt(a.idx + len) < ByteAt(idx + len) THEN "small" ELSE "large"
        other  == IF side = "small" THEN "large" ELSE "small"
        match  == [len |-> len, off_base |-> idx - a.idx + 3]
        better == Better(a.best, len, idx, a.idx, kind)
        stops  == idx + len = end \/ (better /\ len > kind.enough)
        found  == [a EXCEPT
                      !.end = IF len > a.best.len THEN Larger(@, a.idx + len) ELSE @,
                      !.best = IF better THEN match ELSE @,
                      !.matches = IF better THEN Append(@, match) ELSE @]
        linked == [found EXCEPT !.t = IF kind.links THEN SetLink(@, a.slot[side], a.idx) ELSE @,
                                !.common[side] = len]
    IN  CASE stops -> [found EXCEPT !.done = TRUE, !.left = 0]
          [] ~stops /\ a.idx <= bt_low ->
                [linked EXCEPT !.done = TRUE, !.open = @ \ {side}]
          [] ~stops /\ a.idx > bt_low ->
                [linked EXCEPT !.slot[side] = [at |-> a.idx, side |-> other],
                               !.idx = Node(linked.t, a.idx)[other],
                               !.left = @ - 1]

\* Below the last node met there is nothing on either side.
Closed(a) ==
    LET close(t, side) == IF side \in a.open THEN SetLink(t, a.slot[side], 0) ELSE t
    IN  [a EXCEPT !.t = close(close(@, "small"), "large")]

\* The descent for position idx, which becomes the root, from an older position
\* down, inside the window and as far as the compares go.
Descend(start, idx, older, end, low, bt_low, compares, kind, best) ==
    LET visit(a, n) ==
            IF a.done \/ a.idx <= low THEN [a EXCEPT !.done = TRUE]
            ELSE Meet(a, idx,
                      CommonLength(idx, a.idx, Smaller(a.common.small, a.common.large), end),
                      end, bt_low, kind)
        root == [t |-> start, idx |-> older, end |-> idx + HashReadSize + 1, best |-> best,
                 matches |-> <<>>, common |-> [small |-> 0, large |-> 0],
                 slot |-> [small |-> [at |-> idx, side |-> "small"],
                           large |-> [at |-> idx, side |-> "large"]],
                 open |-> {"small", "large"}, left |-> compares, done |-> FALSE]
    IN  Closed(FoldLeft(visit, root, Positions(0, compares)))

\* Mutant of BtLow: the tree is not limited by its ring.
BtLow_Unlimited(idx) == 0

\* The lowest node whose links are still in the ring when idx is entered.
BtLow(idx) == Larger(0, idx - (CycleSize - 1))

\* update_dubt: positions up to target join the list of their bucket, unsorted.
update_dubt(t, target) ==
    LET enter_one(s, idx) ==
            LET bucket == Bucket(WordAt(idx))
            IN  [s EXCEPT !.tree[idx % CycleSize] =
                              [small |-> HeadOf(s.hash, bucket), large |-> DUBT_UNSORTED_MARK],
                          !.hash = (bucket :> idx) @@ @]
    IN  [FoldLeft(enter_one, t, Positions(t.next, target)) EXCEPT !.next = target]

\* The unsorted positions of the bucket are stacked, as many as there are attempts;
\* the first that is too many is cut off from the rest.
Stacked(t, newest, unsort_limit) ==
    LET unsorted(s, idx) == idx > unsort_limit /\ Node(s, idx).large = DUBT_UNSORTED_MARK
        visit(a, n) ==
            IF ~unsorted(a.t, a.idx) THEN a
            ELSE [a EXCEPT !.stack = <<a.idx>> \o @, !.idx = Node(a.t, a.idx).small]
        last == FoldLeft(visit, [t |-> t, idx |-> newest, stack |-> <<>>],
                         Positions(1, SearchAttempts))
    IN  IF ~unsorted(t, last.idx) THEN last
        ELSE [last EXCEPT !.t.tree[last.idx % CycleSize] = [small |-> 0, large |-> 0]]

\* insert_dubt1 for each of them, the oldest first, each with one compare more.
Sorted(stacked, unsort_limit) ==
    LET sort_one(t, n) ==
            LET idx == stacked.stack[n]
            IN  Descend(t, idx, Node(t, idx).small,
                        IF idx >= window.dict_limit THEN iend ELSE window.dict_limit,
                        WindowLowAt(idx), unsort_limit,
                        SearchAttempts - Len(stacked.stack) + n - 1, Sorting, NoMatch).t
    IN  FoldLeft(sort_one, stacked.t, Positions(1, Len(stacked.stack) + 1))

\* ZSTD_DUBT_findBetterDictMatch reads the tree of the attached dictionary only.
DictDescend(ip, compares, kind, best) ==
    LET high   == WINDOW_START_INDEX + Len(content)
        bt_low == Larger(WINDOW_START_INDEX, high - (CycleSize - 1))
    IN  Descend(dms, ip, HeadOf(dms.hash, Bucket(WordAt(ip))), iend, WINDOW_START_INDEX,
                bt_low, compares, kind, best)

\* What the descent found, and where the next update resumes: past a repetition.
BtFound(ip, own) ==
    [tables |-> [own.t EXCEPT !.next = own.end - HashReadSize],
     best |-> IF mode = "dictMatchState" /\ own.left > 0
              THEN DictDescend(ip, own.left, Reading, own.best).best ELSE own.best]

\* A position inside a match found before is not searched.
bt_find_best_match(ip) ==
    LET t      == update_dubt(tables, ip)
        bucket == Bucket(WordAt(ip))
        head   == HeadOf(t.hash, bucket)
        limit  == Larger(BtLow(ip), WindowLowAt(ip))
        sorted == Sorted(Stacked(t, head, limit), limit)
    IN  IF ip < tables.next THEN [tables |-> tables, best |-> NoMatch]
        ELSE BtFound(ip, Descend([sorted EXCEPT !.hash = (bucket :> ip) @@ @], ip, head,
                                 iend, WindowLowAt(ip), BtLow(ip), SearchAttempts,
                                 Rooting, NoMatch))

\* search_max.
search_max(ip) ==
    CASE config.method = "HashChain" -> hc_find_best_match(ip)
      [] config.method = "RowHash" -> row_find_best_match(ip)
      [] config.method = "BinaryTree" -> bt_find_best_match(ip)

-----------------------------------------------------------------------------
(* Loading a dictionary, of which the last HashReadSize positions are never *)
(* entered.                                                                *)

\* The position to go on at: a repetition is skipped.
Beyond(idx, done) ==
    LET over == done.best.len - UpdateGap
    IN  [t |-> done.t,
         next |-> idx + Larger(IF over > 0 THEN Smaller(UpdateKeep, over) ELSE 0,
                               done.end - (idx + HashReadSize))]

\* update_tree_nodict: a dictionary is sorted at once.
update_tree_nodict(t, target, end, low) ==
    LET insert(a, idx) ==
            LET bucket == Bucket(WordAt(idx))
            IN  IF idx < a.next THEN a
                ELSE Beyond(idx, Descend([a.t EXCEPT !.hash = (bucket :> idx) @@ @], idx,
                                         HeadOf(a.t.hash, bucket), end, low,
                                         BtLow(idx), SearchAttempts, Sorting,
                                         [NoMatch EXCEPT !.len = HashReadSize]))
    IN  [FoldLeft(insert, [t |-> t, next |-> t.next], Positions(t.next, target)).t
            EXCEPT !.next = target]

load_dictionary ==
    LET end    == WINDOW_START_INDEX + Len(content)
        target == end - HashReadSize
        filled == CASE config.method = "HashChain" ->
                          insert_and_find_first_index(NewLazyCtx, target)
                    [] config.method = "RowHash" ->
                          row_update_internal(NewLazyCtx, target, FALSE)
                    [] config.method = "BinaryTree" ->
                          update_tree_nodict(NewLazyCtx, target, end, WINDOW_START_INDEX - 1)
    IN  [filled EXCEPT !.next = end]

\* The context of a frame resumes behind its dictionary, also if that is attached.
LazyTablesInit ==
    /\ Lazy
    /\ tables = IF InTables THEN load_dictionary
                ELSE [NewLazyCtx EXCEPT !.next = window.dict_limit]
    /\ dms = IF config.dict = "attached" THEN load_dictionary ELSE NewLazyCtx

-----------------------------------------------------------------------------
(* The driver.                                                             *)

\* limit_update: of the positions a long match ran over, most are given up.
limit_update(t) ==
    LET gap == istart - t.next
    IN  IF gap > UpdateGap
        THEN [t EXCEPT !.next = istart - Smaller(UpdateKeep, gap - UpdateGap)] ELSE t

lazy_enter ==
    /\ Lazy /\ EnterSearch
    /\ tables' = IF pc' = "leave" THEN tables ELSE RefilledCache(limit_update(tables))

LazySearching == pc = "start" /\ Lazy /\ search.ip < ilimit

lazy_leave ==
    /\ pc = "start" /\ Lazy /\ search.ip >= ilimit
    /\ pc' = "leave"
    /\ UNCHANGED <<frame, tables, search, seqs>>

\* The most recent offset at ip, as a match that starts there.
RepeatAt(ip) == [start |-> ip, len |-> MatchLength(ip, ip - search.off[1], W),
                 off_base |-> 1]
FoundAt(ip, found) == [start |-> ip, len |-> found.len, off_base |-> found.off_base]

\* Greedy takes a repeated match at the next position without a search.
lazy_repcode ==
    /\ LazySearching /\ config.depth = 0 /\ Repeats(search.ip + 1, search.off[1])
    /\ search' = [search EXCEPT !.best = RepeatAt(search.ip + 1), !.level = 1]
    /\ pc' = "better"
    /\ UNCHANGED <<frame, tables, seqs>>

\* The first search. Nothing found: the steps get longer, and from a certain length
\* on the positions passed over are not entered; the extDict driver compares the
\* length before it adds the one.
lazy_search ==
    LET ip     == search.ip
        repeat == Repeats(ip + 1, search.off[1])
        first  == IF repeat THEN RepeatAt(ip + 1) ELSE NoSearch.best
        step   == (ip - search.anchor) \div SearchStrength
        compared == IF mode = "extDict" THEN step ELSE step + 1
    IN  /\ LazySearching /\ ~(config.depth = 0 /\ repeat)
        /\ \E found \in {search_max(ip)} :
            LET best == IF found.best.len > first.len THEN FoundAt(ip, found.best) ELSE first
            IN  IF best.len < W
                THEN /\ search' = [search EXCEPT !.ip = ip + step + 1]
                     /\ tables' = [found.tables EXCEPT !.skipping = compared > SkippingStep]
                     /\ UNCHANGED pc
                ELSE /\ search' = [search EXCEPT !.best = best, !.level = 1]
                     /\ tables' = found.tables
                     /\ pc' = "better"
        /\ UNCHANGED <<frame, seqs>>

\* Is the second match worth more than the first?  A literal costs about a bit, an
\* offset its logarithm.
Gains(second, factor, first, margin) ==
    /\ second.len >= W
    /\ factor * second.len - highbit32(second.off_base)
           > factor * first.len - highbit32(first.off_base) + margin

\* One position further on, the repeated offset and a search are weighed against
\* the match so far. At depth 2 a second position is tried before giving up, and
\* any better match found by a search starts over.
lazy_better ==
    LET ip     == search.ip + 1
        level  == search.level
        repeat == RepeatAt(ip)
        first  == IF /\ Repeats(ip, search.off[1])
                     /\ Gains(repeat, level + 2, search.best, 1)
                  THEN repeat ELSE search.best
    IN  /\ pc = "better" /\ level <= config.depth /\ search.ip < ilimit
        /\ \E found \in {search_max(ip)} :
            LET better == Gains(FoundAt(ip, found.best), 4, first,
                                IF level = 1 THEN 4 ELSE 7)
            IN  /\ search' = [search EXCEPT !.ip = ip,
                                  !.best = IF better THEN FoundAt(ip, found.best) ELSE first,
                                  !.level = IF better THEN 1 ELSE level + 1]
                /\ tables' = found.tables
        /\ UNCHANGED <<frame, seqs, pc>>

\* The match is extended backwards, if its offset is not a repeated one, and stored.
lazy_store ==
    LET best   == search.best
        offset == best.off_base - 3
        real   == best.off_base > 3
        back   == IF real THEN CatchUp(best.start, best.start - offset, search.anchor) ELSE 0
        off    == IF real THEN <<offset, search.off[1]>> ELSE search.off
    IN  /\ pc = "better" /\ (search.level > config.depth \/ search.ip >= ilimit)
        /\ StoreSeq(best.start - back, best.off_base, best.len + back)
        /\ search' = [Behind(best.start - back, best.len + back, off)
                         EXCEPT !.best = NoSearch.best, !.level = 0]
        /\ tables' = LeaveSkipping(tables)
        /\ pc' = "immediate"
        /\ UNCHANGED frame

LazyNext ==
    \/ lazy_enter \/ lazy_leave \/ lazy_repcode \/ lazy_search \/ lazy_better \/ lazy_store
=============================================================================
