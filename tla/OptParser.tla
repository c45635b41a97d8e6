------------------------------ MODULE OptParser ------------------------------
(***************************************************************************)
(* The optimal parser of btopt, btultra and btultra2 (opt.rs).  Over a     *)
(* series of positions it keeps the cheapest way found to reach each: a    *)
(* match, or one literal more than the position before.  At every position *)
(* that is worth it, it searches all matches: repeated offsets as they     *)
(* would be there, a hash of short words, a sorted binary tree, an attached*)
(* dictionary's tree and the long-distance matches.  Then it follows the   *)
(* cheapest way back and stores it as sequences.                           *)
(*                                                                         *)
(* A node is only worth something together with the node its match starts  *)
(* from, and its offset history with the whole way there; both are reused  *)
(* and overwritten while the way is still being looked for.                *)
(*                                                                         *)
(* The prices stand for the statistics of the symbols stored so far, in    *)
(* whole or fractional bits: any of a few tables of numbers.               *)
(***************************************************************************)
EXTENDS LazyFinder, LongDistance

CONSTANTS
    OptNum,         \* ZSTD_OPT_NUM
    ShortWindow,    \* 1 << 18: how far back a match of the shortest length may be
    PredefThreshold,\* ZSTD_PREDEF_THRESHOLD
    HalfBit,        \* BITCOST_MULTIPLIER / 2
    MaxPrice        \* ZSTD_MAX_PRICE

ASSUME OptAssumption ==
    /\ OptNum > HashReadSize /\ W > 1 /\ Overlap > HashReadSize
    /\ \A c \in Configs : c.matcher = "opt" => c.sufficient < OptNum

\* config has: level, 0 or 2; ultra2, whether a first block is parsed twice; mls, the
\* least match length; sufficient, a length that ends the search; ldm, long-distance
\* matches of each "block", of a whole "job", or "none", in fragments that end with the
\* bytes split_after; and prices.
MinMatch == IF config.mls = 3 THEN W - 1 ELSE W

\* raw: the long-distance sequences of the block or job; cursor: how far the blocks
\* of a job have consumed them; seeded: whether there are statistics.
NewOptCtx ==
    [hash |-> <<>>, hash3 |-> <<>>,
     tree |-> [n \in 0 .. CycleSize - 1 |-> [small |-> 0, large |-> 0]],
     next |-> WINDOW_START_INDEX, seeded |-> FALSE,
     ldm  |-> NewLdmState, raw |-> <<>>, cursor |-> [pos |-> 1, in_seq |-> 0]]

-----------------------------------------------------------------------------
(* Long-distance candidates.                                               *)

Never == 999999999

\* skip_bytes, of LdmCursor and OptLdm alike.
skip_bytes(c, raw, bytes) ==
    LET pass(a, k) ==
            LET size == raw[k].lit_length + raw[k].match_length
            IN  IF k = a.pos /\ a.left > 0 /\ a.left >= size
                THEN [pos |-> k + 1, left |-> a.left - size] ELSE a
        done == FoldLeft(pass, [pos |-> c.pos, left |-> c.in_seq + bytes],
                         Positions(c.pos, Len(raw) + 1))
    IN  [c EXCEPT !.pos = done.pos, !.in_seq = IF done.pos > Len(raw) THEN 0 ELSE done.left]

\* What is left of the next sequence, in the block of which remaining bytes are left.
get_next_match(c, raw, at, remaining) ==
    LET seq      == raw[c.pos]
        literals == Larger(0, seq.lit_length - c.in_seq)
        start    == at + literals
        end      == Smaller(at + remaining,
                            at + seq.lit_length + seq.match_length - c.in_seq)
    IN  CASE c.pos > Len(raw) -> [c EXCEPT !.start = Never, !.end = Never]
          [] c.pos <= Len(raw) /\ literals >= remaining ->
                skip_bytes([c EXCEPT !.start = Never, !.end = Never], raw, remaining)
          [] c.pos <= Len(raw) /\ literals < remaining ->
                skip_bytes([c EXCEPT !.start = start, !.end = end, !.offset = seq.offset],
                           raw, end - at)

PrimedLdm(cursor, raw, size) ==
    get_next_match([pos |-> cursor.pos, in_seq |-> cursor.in_seq,
                    start |-> 0, end |-> 0, offset |-> 0], raw, 0, size)

Offered(found, c, at) ==
    LET best == IF found.matches = <<>> THEN 0 ELSE Last(found.matches).len
    IN  IF at >= c.start /\ c.end - at >= Larger(MinMatch, best + 1)
        THEN [found EXCEPT !.ldm = c, !.matches =
                 Append(@, [len |-> c.end - at, off_base |-> c.offset + 3])]
        ELSE [found EXCEPT !.ldm = c]

\* Position at is searched: the cursor, which may be behind, catches up and the
\* candidate is offered if it is the longest.  Once the cursor has left the last
\* sequence, nothing is offered any more.
WithLdm(found, c, raw, at, remaining) ==
    IF c.pos > Len(raw) THEN [found EXCEPT !.ldm = c]
    ELSE Offered(found, IF at < c.end THEN c
                        ELSE get_next_match(skip_bytes(c, raw, at - c.end), raw, at, remaining),
                 at)

-----------------------------------------------------------------------------
(* Matches.                                                                *)

Collecting == [Sorting EXCEPT !.enough = OptNum]
CollectingDict == [Collecting EXCEPT !.links = FALSE]

\* The offsets behind a match, from the speculative ones before it.
RepOffset(reps, code) == IF code = 3 THEN reps[1] - 1 ELSE reps[code + 1]

new_rep(reps, off_base, ll0) ==
    LET code == off_base - 1 + IF ll0 THEN 1 ELSE 0
    IN  CASE off_base > 3 -> <<off_base - 3, reps[1], reps[2]>>
          [] off_base <= 3 /\ code = 0 -> reps
          [] off_base <= 3 /\ code > 0 ->
                <<RepOffset(reps, code), reps[1], IF code >= 2 THEN reps[2] ELSE reps[3]>>

\* How long the match with this offset is: in the segment, or in the one before,
\* where its first bytes must not cross the seam.
RepLength(ip, off) ==
    LET idx   == ip - off
        lower == IF mode = "extDict" THEN WindowLowAt(ip) ELSE WINDOW_START_INDEX
        usable == IF idx >= window.dict_limit THEN idx >= WindowLowAt(ip)
                  ELSE mode # "noDict" /\ idx >= lower /\ index_overlap_check(idx)
    IN  IF off > 0 /\ usable /\ Same(idx, ip, MinMatch) THEN MatchLength(ip, idx, MinMatch)
        ELSE 0

\* A match that ends the search.
Ends(ip, len) == len > config.sufficient \/ ip + len = iend

RepMatches(ip, reps, ll0) ==
    LET try(a, code) ==
            LET len == RepLength(ip, RepOffset(reps, code))
            IN  IF len > a.len /\ ~a.ends
                THEN [len |-> len, ends |-> Ends(ip, len),
                      matches |-> Append(a.matches,
                          [len |-> len, off_base |-> code + 1 - IF ll0 THEN 1 ELSE 0])]
                ELSE a
        first == IF ll0 THEN 1 ELSE 0
    IN  FoldLeft(try, [len |-> MinMatch - 1, ends |-> FALSE, matches |-> <<>>],
                 Positions(first, first + 3))

Word3(idx) == Word(pos_p(idx), W - 1)
insert_hash3(t, first, last) ==
    [t EXCEPT !.hash3 =
        FoldLeft(LAMBDA h, idx : (Bucket(Word3(idx)) :> idx) @@ h, @, Positions(first, last))]

\* The last position with the same short word, if nothing was found yet.
ShortMatch(t, ip) ==
    LET idx == Lookup(t.hash3, Word3(ip))
        len == IF idx >= WindowLowAt(ip) /\ ip - idx < ShortWindow
               THEN MatchLength(ip, idx, 0) ELSE 0
    IN  IF len < MinMatch THEN <<>> ELSE <<[len |-> len, off_base |-> ip - idx + 3]>>

\* What a search returns: the tables, the next position of the hash of short words,
\* and the matches by increasing length.
Searched(t, next3, matches) == [t |-> t, next3 |-> next3, ldm |-> 0, matches |-> matches]

\* Compares left over are spent on the tree of an attached dictionary.
WithDictMatches(own, next3, ip, so_far) ==
    LET both(dict) == Searched([own.t EXCEPT !.next = Larger(own.end, dict.end) - HashReadSize],
                               next3, so_far \o own.matches \o dict.matches)
    IN  both(IF mode = "dictMatchState" /\ own.left > 0
             THEN DictDescend(ip, own.left, CollectingDict, own.best)
             ELSE [end |-> 0, matches |-> <<>>])

\* ip becomes the root of its tree, and what it passes on its way is collected.
TreeMatches(t, next3, ip, so_far) ==
    LET bucket == Bucket(WordAt(ip))
        best   == [NoMatch EXCEPT !.len =
                      IF so_far = <<>> THEN MinMatch - 1 ELSE Last(so_far).len]
    IN  WithDictMatches(Descend([t EXCEPT !.hash = (bucket :> ip) @@ @], ip,
                                HeadOf(t.hash, bucket), iend, Larger(WindowLowAt(ip), 1) - 1,
                                BtLow(ip), SearchAttempts, Collecting, best),
                        next3, ip, so_far)

\* A short match that ends the search is not entered in the tree.
WithShort(t, ip, short) ==
    IF short # <<>> /\ Ends(ip, Last(short).len)
    THEN Searched([t EXCEPT !.next = ip + 1], ip, short)
    ELSE TreeMatches(t, ip, ip, short)

ShortFirst(t, ip) == WithShort(t, ip, ShortMatch(t, ip))

insert_bt_and_get_all_matches(t, next3, ip, repeats) ==
    CASE repeats.ends -> Searched(t, next3, repeats.matches)
      [] ~repeats.ends /\ config.mls = 3 /\ repeats.matches = <<>> ->
            ShortFirst(insert_hash3(t, next3, ip), ip)
      [] OTHER -> TreeMatches(t, next3, ip, repeats.matches)

\* update_tree: the positions before ip are entered, except what a repetition skips.
update_tree(t, ip) == update_tree_nodict(t, ip, iend, WindowLowAt(ip) - 1)

\* Nothing is found at a position that was skipped.
get_all_matches(t, next3, ip, reps, ll0) ==
    IF ip < t.next THEN Searched(t, next3, <<>>)
    ELSE insert_bt_and_get_all_matches(update_tree(t, ip), next3, ip,
                                       RepMatches(ip, reps, ll0))

-----------------------------------------------------------------------------
(* Entering a block.                                                       *)

\* The tables of a dictionary, sorted at once but for its last positions; short
\* words are not entered.
opt_load_dictionary ==
    LET end == WINDOW_START_INDEX + Len(content) - PrefixFrom
        target == end - HashReadSize
    IN  [update_tree_nodict(NewOptCtx, target, end,
                            LowestIndex(target, WINDOW_START_INDEX) - 1)
            EXCEPT !.next = end]

OptTablesInit ==
    /\ Opt
    /\ tables = IF InTables THEN opt_load_dictionary
                ELSE [NewOptCtx EXCEPT !.next = window.dict_limit]
    /\ dms = IF config.dict = "attached" THEN opt_load_dictionary ELSE NewOptCtx

\* A job: its section follows its history in the buffer.
job_fill ==
    /\ pc = "feed" /\ Job /\ window.next_src_pos = Len(content)
    /\ \E first, second \in Blocks : data' = content \o first \o second
    /\ window' = update(window, Len(content), Len(data'))
    /\ pc' = "serial"
    /\ UNCHANGED <<config, content, history, tables, dms, rep, drep, block, search, seqs>>

\* The serial state has seen the history section by section, and now finds the
\* long-distance matches of this one.
job_generate ==
    LET seen(s, start, end) == [s EXCEPT !.window = update(@, start, end)]
        before == generate_sequences(seen(NewLdmState, 0, Len(content)), 0, Len(content)).state
    IN  /\ pc = "serial"
        /\ tables' = [tables EXCEPT !.raw =
               generate_sequences(seen(before, Len(content), Len(data)),
                                  Len(content), Len(data)).seqs]
        /\ pc' = "feed"
        /\ UNCHANGED <<frame, search, seqs>>

\* The next block of the section.
job_block ==
    LET start == Len(history)
        end   == Smaller(start + BlockSize, Len(data))
    IN  /\ pc = "feed" /\ Job /\ window.next_src_pos = Len(data)
        /\ start < Len(data)
        /\ window' = SlideFor(window, start, end)
        /\ tables' = [tables EXCEPT !.next = Larger(@, window'.low_limit)]
        /\ history' = SubSeq(data, 1, end)
        /\ block' = [start |-> start, end |-> end]
        /\ pc' = "enter"
        /\ UNCHANGED <<config, content, data, dms, rep, drep, search, seqs>>

\* The long-distance sequences of a block, if they are its own.
opt_enter ==
    LET generated(t, own) == [t EXCEPT !.ldm = own.state, !.raw = own.seqs]
        limited == limit_update(tables)
    IN  /\ pc = "enter" /\ Opt
        /\ tables' = IF HasLdm
                     THEN generated(limited,
                                    generate_sequences(tables.ldm, block.start, block.end))
                     ELSE limited
        /\ pc' = "parse"
        /\ UNCHANGED <<frame, search, seqs>>

\* btultra2 parses the first block once for the statistics, if it is at the start of
\* the window.
Seeds ==
    /\ config.ultra2 /\ ~tables.seeded /\ BlockMode = "noDict"
    /\ ~has_ext_dict(window) /\ istart = window.dict_limit
    /\ block.end - block.start > PredefThreshold

\* What a pass keeps besides the cursors: its prices, the state of the long-distance
\* matches and of the short words; and for a series the nodes, the position it is
\* at, the last one reached, and the match to end with.
opt_parse ==
    /\ pc = "parse"
    /\ \E chosen \in config.prices :
        search' = [NoSearch EXCEPT
            !.mode = BlockMode, !.prefix_start_index = PrefixStart, !.lowest_index = Lowest,
            !.ip = istart + IF istart = window.dict_limit THEN 1 ELSE 0,
            !.anchor = istart, !.off = rep,
            !.series = [seeds |-> Seeds, prices |-> chosen, next3 |-> tables.next,
                        ldm |-> PrimedLdm(tables.cursor, tables.raw, block.end - block.start),
                        nodes |-> <<>>, cur |-> 0, last |-> 0, stretch |-> <<>>]]
    /\ tables' = [tables EXCEPT !.seeded = TRUE]
    /\ pc' = "start"
    /\ UNCHANGED <<frame, seqs>>

\* The first of two passes: the window moves past its indices, and nothing of what
\* it found is kept.
opt_slide ==
    /\ pc = "start" /\ Opt /\ search.ip >= ilimit /\ search.series.seeds
    /\ window' = slide_for_init_stats(window, block.end - block.start)
    /\ tables' = [tables EXCEPT !.next = window'.dict_limit]
    /\ search' = NoSearch /\ seqs' = <<>>
    /\ pc' = "parse"
    /\ UNCHANGED <<config, content, history, data, dms, rep, drep, block>>

\* The cursor of a job moves on by the block, whatever its parse consumed.
opt_leave ==
    /\ pc = "start" /\ Opt /\ search.ip >= ilimit /\ ~search.series.seeds
    /\ tables' = IF Job THEN [tables EXCEPT !.cursor =
                                 skip_bytes(@, tables.raw, block.end - block.start)]
                 ELSE [tables EXCEPT !.raw = <<>>]
    /\ search' = [search EXCEPT !.series = 0]
    /\ pc' = "leave"
    /\ UNCHANGED <<frame, seqs>>

-----------------------------------------------------------------------------
(* Prices.                                                                 *)

prices == search.series.prices
Literal(ip) == prices.lit[At(pos_p(ip))]
\* What one literal more adds.
Incprice(n) == prices.ll[n] - prices.ll[n - 1]
MatchPrice(match, len) == prices.off[highbit32(match.off_base)] + prices.ml[len]

\* The match a length is taken from.
MatchFor(matches, len) ==
    LET n == CHOOSE k \in DOMAIN matches :
                 /\ matches[k].len >= len
                 /\ \A j \in 1 .. k - 1 : matches[j].len < len
    IN  matches[n]

-----------------------------------------------------------------------------
(* A series.                                                               *)

\* What is found at ip, by way of the offsets reps.
Found(ip, reps, ll0) ==
    WithLdm(get_all_matches(tables, search.series.next3, ip, reps, ll0),
            search.series.ldm, tables.raw, ip - istart, iend - ip)

After(found, series) ==
    [series EXCEPT !.next3 = found.next3, !.ldm = found.ldm]

\* What an earlier series left in the nodes.
Left == [price |-> prices.left, off |-> 1, mlen |-> W, litlen |-> 0, rep |-> <<1, 1, 1>>]

Reached(node, match, len, price) ==
    [node EXCEPT !.mlen = len, !.off = match.off_base, !.litlen = 0, !.price = price]

\* The first node, and those its matches reach; no match is shorter than MinMatch.
FirstNodes(litlen, matches) ==
    LET first   == [Left EXCEPT !.mlen = 0, !.litlen = litlen, !.price = prices.ll[litlen],
                                !.rep = search.off]
        longest == IF matches = <<>> THEN 0 ELSE Last(matches).len
        node(p) ==
            CASE p = 0 -> first
              [] p \in 1 .. MinMatch - 1 ->
                    [Left EXCEPT !.price = MaxPrice, !.mlen = 0, !.litlen = litlen + p]
              [] p \in MinMatch .. longest ->
                    LET match == MatchFor(matches, p)
                    IN  Reached(Left, match, p,
                                first.price + MatchPrice(match, p) + prices.ll[0])
              [] p = longest + 1 -> [Left EXCEPT !.price = MaxPrice]
              [] OTHER -> Left
    IN  [p \in 0 .. OptNum + 2 |-> node(p)]

\* The first position: without a match it is a literal, and a long match is taken.
opt_begin ==
    LET ip     == search.ip
        litlen == ip - search.anchor
    IN  /\ pc = "start" /\ Opt /\ ip < ilimit
        /\ \E found \in {Found(ip, search.off, litlen = 0)} :
            LET none    == found.matches = <<>>
                longest == Last(found.matches)
                long    == ~none /\ longest.len > config.sufficient
                series  == After(found, search.series)
                nodes   == FirstNodes(litlen, IF long THEN <<>> ELSE found.matches)
            IN  /\ tables' = found.t
                /\ \/ /\ none
                      /\ search' = [search EXCEPT !.ip = ip + 1, !.series = series]
                      /\ UNCHANGED pc
                   \/ /\ long
                      /\ search' = [search EXCEPT !.series =
                             [series EXCEPT !.nodes = nodes, !.cur = 0, !.last = longest.len,
                                            !.stretch = Reached(Left, longest, longest.len, 0)]]
                      /\ pc' = "emit"
                   \/ /\ ~none /\ ~long
                      /\ search' = [search EXCEPT !.series =
                             [series EXCEPT !.nodes = nodes, !.cur = 1, !.last = longest.len]]
                      /\ pc' = "price"
        /\ UNCHANGED <<frame, seqs>>

\* The offsets behind the match that ends at a node.
RepBehind(nodes, p, node) ==
    LET from == nodes[p - node.mlen]
    IN  new_rep(from.rep, node.off, from.litlen = 0)

\* A node is settled: a literal behind the node before may be cheaper than the match
\* that ends here, or as cheap; that match may still be good for one literal at the
\* next node.
Settled(s) ==
    LET cur     == s.cur
        ip      == search.ip + cur
        node    == s.nodes[cur]
        before  == s.nodes[cur - 1]
        litlen  == before.litlen + 1
        price   == before.price + Literal(ip - 1) + Incprice(litlen)
        cheaper == price <= node.price
        one     == node.price + Literal(ip) + Incprice(1)
        kept    == /\ cheaper /\ config.level >= 1 /\ node.litlen = 0
                   /\ Incprice(1) < 0 /\ ip < iend
                   /\ one < price + Literal(ip) + Incprice(litlen + 1)
                   /\ one < s.nodes[cur + 1].price
        here    == IF cheaper THEN [before EXCEPT !.litlen = litlen, !.price = price]
                   ELSE node
        ends    == here.litlen = 0
    IN  [s EXCEPT
            !.nodes[cur] = IF ends THEN [here EXCEPT !.rep = RepBehind(s.nodes, cur, here)]
                           ELSE here,
            !.nodes[cur + 1] =
                IF kept THEN [node EXCEPT !.rep = RepBehind(s.nodes, cur, node),
                                          !.litlen = 1, !.price = one]
                ELSE @,
            !.last = IF kept THEN Larger(@, cur + 1) ELSE @]

\* Is the next node hardly dearer?
Unpromising(s) ==
    config.level = 0 /\ s.nodes[s.cur + 1].price <= s.nodes[s.cur].price + HalfBit

\* The nodes reached by the matches at cur. At level 0 the lengths of a match are
\* tried from the longest down to the first that is no gain.
Extended(s, matches) ==
    LET cur     == s.cur
        base    == s.nodes[cur].price + prices.ll[0]
        longest == Last(matches).len
        last    == Larger(s.last, cur + longest)
        price(len) == base + MatchPrice(MatchFor(matches, len), len)
        gains(len) == cur + len > s.last \/ price(len) < s.nodes[cur + len].price
        taken(len) ==
            /\ len \in MinMatch .. longest
            /\ gains(len)
            /\ config.level = 0 =>
                  \A more \in len + 1 .. MatchFor(matches, len).len : gains(more)
        node(p) ==
            CASE taken(p - cur) ->
                    Reached(s.nodes[p], MatchFor(matches, p - cur), p - cur, price(p - cur))
              [] ~taken(p - cur) /\ p \in s.last + 1 .. last ->
                    [s.nodes[p] EXCEPT !.price = MaxPrice, !.litlen = 1]
              [] p = last + 1 -> [s.nodes[p] EXCEPT !.price = MaxPrice]
              [] OTHER -> s.nodes[p]
    IN  [s EXCEPT !.nodes = [p \in DOMAIN s.nodes |-> node(p)], !.last = last]

NextNode(s) == search' = [search EXCEPT !.series = [s EXCEPT !.cur = @ + 1]]

\* One position: near the end of the block and at the last node nothing is searched.
opt_position ==
    /\ pc = "price" /\ search.series.cur <= search.series.last
    /\ \E s \in {Settled(search.series)} :
        LET ip     == search.ip + s.cur
            passes == ip > ilimit \/ s.cur = s.last \/ Unpromising(s)
            node   == s.nodes[s.cur]
        IN  \/ passes /\ NextNode(s) /\ UNCHANGED <<tables, pc>>
            \/ /\ ~passes
               /\ \E found \in {Found(ip, node.rep, node.litlen = 0)} :
                    LET none    == found.matches = <<>>
                        longest == Last(found.matches)
                        ends    == /\ ~none
                                   /\ \/ Ends(ip, longest.len) \/ ip + longest.len > iend
                                      \/ s.cur + longest.len >= OptNum
                        series  == After(found, s)
                    IN  /\ tables' = found.t
                        /\ \/ none /\ NextNode(series) /\ UNCHANGED pc
                           \/ /\ ends
                              /\ search' = [search EXCEPT !.series =
                                     [series EXCEPT !.last = s.cur + longest.len,
                                          !.stretch = Reached(Left, longest, longest.len, 0)]]
                              /\ pc' = "emit"
                           \/ /\ ~none /\ ~ends
                              /\ NextNode(Extended(series, found.matches))
                              /\ UNCHANGED pc
    /\ UNCHANGED <<frame, seqs>>

\* All positions are settled: the last node is where the series ends.
opt_reached ==
    LET s == search.series
        node == s.nodes[s.last]
    IN  /\ pc = "price" /\ s.cur > s.last
        /\ search' = [search EXCEPT !.series =
               [s EXCEPT !.cur = s.last - node.mlen, !.stretch = node]]
        /\ pc' = "emit"
        /\ UNCHANGED <<frame, tables, seqs>>

\* The cheapest way back from a node: the matches, and before each the literals of
\* the node it starts from. Literals behind the last match are left to the next series.
Way(nodes) ==
    LET way[p \in 0 .. OptNum + 2] ==
            LET node == nodes[p]
                from == p - node.litlen - node.mlen
            IN  IF node.mlen = 0 THEN <<>>
                ELSE Append(way[from], [lit_len   |-> nodes[from].litlen,
                                        off_base  |-> node.off,
                                        match_len |-> node.mlen])
    IN  way

opt_emit ==
    LET s       == search.series
        stretch == s.stretch
        from    == s.cur - stretch.litlen
        way     == Append(Way(s.nodes)[from], [lit_len   |-> s.nodes[from].litlen,
                                               off_base  |-> stretch.off,
                                               match_len |-> stretch.mlen])
        anchor  == FoldLeft(LAMBDA a, q : a + q.lit_len + q.match_len, search.anchor, way)
        resting == [s EXCEPT !.nodes = <<>>, !.cur = 0, !.last = 0, !.stretch = <<>>]
    IN  /\ pc = "emit"
        /\ \/ /\ stretch.mlen = 0
              /\ search' = [search EXCEPT !.ip = @ + s.last, !.series = resting]
              /\ UNCHANGED seqs
           \/ /\ stretch.mlen # 0
              /\ seqs' = seqs \o way
              /\ search' = [search EXCEPT
                     !.ip = anchor, !.anchor = anchor, !.series = resting,
                     !.off = IF stretch.litlen # 0 THEN stretch.rep
                             ELSE new_rep(s.nodes[from].rep, stretch.off,
                                          s.nodes[from].litlen = 0)]
        /\ pc' = "start"
        /\ UNCHANGED <<frame, tables>>

OptNext ==
    \/ job_fill \/ job_generate \/ job_block
    \/ opt_enter \/ opt_parse \/ opt_slide \/ opt_leave
    \/ opt_begin \/ opt_position \/ opt_reached \/ opt_emit
=============================================================================
