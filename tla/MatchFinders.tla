---------------------------- MODULE MatchFinders ----------------------------
(***************************************************************************)
(* A frame compressed block by block with the fast, the double-fast or the *)
(* lazy finder or the optimal parser, and what a decoder makes of the      *)
(* sequences.                                                              *)
(***************************************************************************)
EXTENDS FastFinder, DoubleFastFinder, OptParser

Init == FrameInit /\ (TablesInit \/ LazyTablesInit \/ OptTablesInit)

Next ==
    \/ feed \/ enter \/ leave
    \/ immediate_repcode \/ no_immediate_repcode
    \/ FastNext \/ DfastNext \/ LazyNext \/ OptNext

Spec == Init /\ [][Next]_vars

-----------------------------------------------------------------------------
(* Properties.                                                             *)

\* Where the sequences of the block put their matches, as a decoder sees them:
\* position in history and offset.
Executed ==
    LET step(acc, q) ==
            LET r  == resolve_offset(q.off_base, q.lit_len, acc.rep)
                at == acc.at + q.lit_len
            IN  [rep |-> r, at |-> at + q.match_len,
                 copies |-> acc.copies \cup {[at |-> at, off |-> r[1], len |-> q.match_len]}]
    IN  FoldLeft(step, [rep |-> drep, at |-> Len(history) - (block.end - block.start),
                        copies |-> {}], seqs)

\* The sequences mean the block: resolving the repeat codes as the decoder does,
\* each match copies the bytes that the block has there, out of the frame's
\* history, and the matches and literals account for all of it.  It is what the
\* two-segment views, the seam checks and the offset bookkeeping are for.
ParseReproduces ==
    pc \in {"start", "search", "immediate", "leave"} =>
        LET done == Executed
        IN  /\ done.at = Len(history) - (iend - search.anchor)
            /\ search.anchor <= iend
            /\ \A c \in done.copies :
                /\ c.off \in 1 .. c.at
                /\ \A k \in 1 .. c.len : history[c.at + k] = history[c.at + k - c.off]

\* No offset reaches further back than the decoder keeps: the window size of the
\* frame header, or the whole dictionary as long as the output fits the window; the
\* prefix of a job is no dictionary to the decoder.
OffsetsWithinWindow ==
    \A c \in Executed.copies :
        \/ c.off <= WindowSize
        \/ config.dict # "prefix" /\ c.at + c.len - Len(content) <= WindowSize

\* Once a block is emitted, in whatever form, the recent offsets the next search
\* starts with are those the decoder holds, including offsets set aside because
\* they reach out of the window.
OffsetHistoriesAgree == pc = "feed" => rep = SubSeq(drep, 1, Len(rep))

\* The positions a chain leads through, from the head of a bucket on: those the
\* walk of a search at the next position would visit.
Chain(t) ==
    LET through[idx \in Nat] ==
            IF idx < lowest_index \/ idx + CycleSize <= search.ip THEN <<>>
            ELSE <<idx>> \o through[t.chain[idx % CycleSize]]
    IN  [bucket \in DOMAIN t.hash |-> through[t.hash[bucket]]]

RowOf(t) == [bucket \in DOMAIN t.rows |->
                [k \in DOMAIN t.rows[bucket] |-> t.rows[bucket][k].idx]]

Trees == Opt \/ (Lazy /\ config.method = "BinaryTree")

\* The index lists a search of a late finder can follow: bucket -> indices.
Lists(t) ==
    CASE Rows -> RowOf(t)
      [] Lazy /\ config.method = "HashChain" -> Chain(t)
      [] Trees -> [bucket \in DOMAIN t.hash |-> <<t.hash[bucket]>>]

\* The next position to be entered.
Entering == IF Opt THEN tables.next ELSE search.ip

Denotes(idx, n) ==
    LET at == Len(history) - (iend - idx)
    IN  idx >= lowest_index =>
            /\ idx < Entering
            /\ Word(pos_seg(idx), n) = SubSeq(history, at + 1, at + n)

\* An index that is still valid denotes the bytes that stood there when it was
\* entered: the buffer holds, at the position it is read through, the history at
\* its own distance from the start, with the bytes that a hash was taken of.  The
\* lazy finder and the optimal parser enter positions long after they went by, out of
\* a cache of hashes taken earlier and past gaps they gave up, but still each under
\* the hash of its own bytes: a chain or a row has the positions of one hash only,
\* the newest first.
TablesDenoteHistory ==
    pc \in {"start", "search"} =>
        IF ~Late
        THEN /\ \A bucket \in DOMAIN tables.small : Denotes(tables.small[bucket], W)
             /\ \A bucket \in DOMAIN tables.long : Denotes(tables.long[bucket], LongW)
        ELSE /\ \A bucket \in DOMAIN Lists(tables) :
                    LET list == Lists(tables)[bucket]
                    IN  \A k \in DOMAIN list :
                            /\ k > 1 => list[k - 1] > list[k]
                            /\ Denotes(list[k], W)
                            /\ list[k] >= lowest_index =>
                                  LET word == Word(pos_seg(list[k]), W)
                                  IN  /\ Bucket(word) = bucket
                                      /\ Rows => tables.rows[bucket][k].tag = Tag(word)
             /\ Opt => \A bucket \in DOMAIN tables.hash3 :
                          Denotes(tables.hash3[bucket], W - 1)

\* The binary trees of btlazy2 and the optimal parser are search trees: below a
\* sorted position, one side has older positions with smaller bytes only and the
\* other with larger ones, although positions are sorted late, in batches, out of a
\* ring that newer ones overwrite, and although positions equal up to the end of a
\* block are dropped.
TreesAreOrdered ==
    pc = "start" /\ Trees =>
        LET t == tables
            gone(idx) == idx <= lowest_index \/ idx + CycleSize <= Entering
            below[idx \in Nat] ==
                IF gone(idx) THEN {}
                ELSE {idx} \cup below[Node(t, idx).small]
                          \cup (IF Node(t, idx).large = DUBT_UNSORTED_MARK THEN {}
                                ELSE below[Node(t, idx).large])
            less(a, b) ==
                LET n == CommonLength(Larger(a, b), Smaller(a, b), 0, iend)
                IN  Larger(a, b) + n < iend /\ ByteAt(a + n) < ByteAt(b + n)
        IN  \A bucket \in DOMAIN t.hash : \A idx \in below[t.hash[bucket]] :
                /\ \A older \in below[Node(t, idx).small] : older < idx
                /\ Node(t, idx).large # DUBT_UNSORTED_MARK =>
                    /\ \A older \in below[Node(t, idx).small] : less(older, idx)
                    /\ \A older \in below[Node(t, idx).large] :
                           older < idx /\ less(idx, older)
=============================================================================
