---------------------------- MODULE LongDistance ----------------------------
(***************************************************************************)
(* The long-distance matcher (ldm.rs).  A rolling hash cuts the input into *)
(* fragments; the last LdmMinMatch bytes of each are entered in a table of *)
(* buckets, and a fragment found there becomes a raw sequence: literals, a *)
(* match length and an offset, which the optimal parser takes as a further *)
(* candidate.  The matcher keeps a window of its own, in step with that of *)
(* the frame, and its table lives as long as the frame.                    *)
(*                                                                         *)
(* Where the rolling hash cuts is abstracted to the last byte of a         *)
(* fragment; a checksum is the first bytes of a fragment, so that two may  *)
(* have the same one by chance.                                            *)
(***************************************************************************)
EXTENDS MatchFinder

CONSTANTS
    LdmMinMatch,    \* min_match_length
    LdmBucketSize,  \* 1 << bucket_size_log
    LdmBatch,       \* LDM_BATCH_SIZE: fragments looked at in one go
    LdmChunk        \* K_MAX_CHUNK_SIZE

ASSUME LongDistanceAssumption ==
    /\ LdmMinMatch > W /\ LdmBucketSize > 0 /\ LdmBatch > 0 /\ LdmChunk > 0
    /\ \A c \in Configs : c.matcher = "opt" => c.split_after \subseteq Byte

NewLdmState == [window |-> NewWindow, buckets |-> <<>>]

\* A bucket is a ring of entries; an empty one has offset 0.
EmptyBucket ==
    [slots |-> [k \in 0 .. LdmBucketSize - 1 |-> [offset |-> 0, checksum |-> <<>>]],
     next |-> 0]
BucketOf(state, hash) ==
    IF hash \in DOMAIN state.buckets THEN state.buckets[hash] ELSE EmptyBucket

insert_entry(state, hash, entry) ==
    LET bucket == BucketOf(state, hash)
        added  == [slots |-> [bucket.slots EXCEPT ![bucket.next] = entry],
                   next  |-> (bucket.next + 1) % LdmBucketSize]
    IN  [state EXCEPT !.buckets = (hash :> added) @@ @]

-----------------------------------------------------------------------------
(* Matches.                                                                *)

count_backwards_match(p, anchor, q, low) ==
    CHOOSE n \in 0 .. Smaller(p - anchor, q - low) :
        /\ \A k \in 1 .. n : At(p - k) = At(q - k)
        /\ p - n = anchor \/ q - n = low \/ At(p - n - 1) # At(q - n - 1)

\* Backwards over the start of the prefix into the end of the extDict.
count_backwards_match_2segments(p, anchor, q, low, dict_start, dict_end) ==
    LET n == count_backwards_match(p, anchor, q, low)
    IN  IF q - n # low \/ low = dict_start THEN n
        ELSE n + count_backwards_match(p - n, anchor, dict_end, dict_start)

NoLongMatch == [forward |-> 0, backward |-> 0, offset |-> 0]

\* What an entry is worth for the fragment at p, if it may be looked at: the entry is
\* at position q of the segment first .. last - 1.
LongMatchAt(w, entry, p, anchor, end, q, first, last) ==
    LET prefix  == w.dict_limit - w.seg_bias
        forward == count_2segments(p, q, end, last, prefix)
    IN  IF forward < LdmMinMatch THEN NoLongMatch
        ELSE [forward  |-> forward, offset |-> entry.offset,
              backward |-> IF has_ext_dict(w)
                  THEN count_backwards_match_2segments(p, anchor, q, first,
                           w.low_limit - w.dict_bias, w.dict_limit - w.dict_bias)
                  ELSE count_backwards_match(p, anchor, q, prefix)]

LongMatch(w, entry, p, anchor, end) ==
    LET lowest == IF has_ext_dict(w) THEN w.low_limit ELSE w.dict_limit
    IN  CASE entry.offset <= lowest \/ entry.checksum # Word(p, W) -> NoLongMatch
          [] OTHER ->
                IF has_ext_dict(w) /\ entry.offset < w.dict_limit
                THEN LongMatchAt(w, entry, p, anchor, end, entry.offset - w.dict_bias,
                                 w.low_limit - w.dict_bias, w.dict_limit - w.dict_bias)
                ELSE LongMatchAt(w, entry, p, anchor, end, entry.offset - w.seg_bias,
                                 w.dict_limit - w.seg_bias, end)

Total(m) == m.forward + m.backward

Longer(m, best) == IF Total(m) > Total(best) THEN m ELSE best

\* The first of the longest in the order of the slots.
LongestOf(state, slots, p, anchor, end) ==
    FoldLeft(LAMBDA best, n : Longer(LongMatch(state.window, slots[n], p, anchor, end), best),
             NoLongMatch, Positions(0, LdmBucketSize))

-----------------------------------------------------------------------------
(* Raw sequences.                                                          *)

\* A match becomes a sequence; one that runs past the bytes hashed so far ends the
\* batch.
Sequenced(a, p, m, hashed) ==
    IF m = NoLongMatch THEN a
    ELSE [a EXCEPT
             !.seqs = Append(@, [lit_length   |-> p - m.backward - a.anchor,
                                 match_length |-> Total(m),
                                 offset       |-> W32(p + a.state.window.seg_bias) - m.offset]),
             !.anchor = p + m.forward,
             !.stop = p + m.forward > hashed]

\* The fragment at p is looked up, unless a match ran over its start, and entered.
Fragment(a, p, hash, end, hashed) ==
    LET entry == [offset |-> W32(p + a.state.window.seg_bias), checksum |-> Word(p, W)]
        found == IF p < a.anchor THEN NoLongMatch
                 ELSE LongestOf(a.state, BucketOf(a.state, hash).slots, p, a.anchor, end)
    IN  IF a.stop THEN a
        ELSE Sequenced([a EXCEPT !.state = insert_entry(@, hash, entry)], p, found, hashed)

\* A batch of fragments, given by where they end; the next one begins where the hash
\* stopped, or behind the match that ended this one.
Resumed(a, hashed) ==
    [a EXCEPT !.ip = IF a.stop THEN a.anchor ELSE hashed, !.stop = FALSE]

Batch(a, ends, end, hashed) ==
    LET look_up(s, k) ==
            LET p == ends[k] - LdmMinMatch
            IN  Fragment(s, p, Bucket(Word(p, LdmMinMatch)), end, hashed)
    IN  Resumed(FoldLeft(look_up, a, Positions(1, Smaller(Len(ends), LdmBatch) + 1)), hashed)

\* generate_sequences_internal for the bytes start .. end - 1, batch by batch.
generate_sequences_internal(state, start, end) ==
    LET limit == end - HashReadSize
        turn(a, n) ==
            LET ends == SelectSeq(Positions(a.ip + 1, limit + 1),
                                  LAMBDA e : At(e - 1) \in config.split_after)
            IN  IF a.ip >= limit THEN a
                ELSE Batch(a, ends, end,
                           IF Len(ends) >= LdmBatch THEN ends[LdmBatch] ELSE limit)
        first == [state |-> state, seqs |-> <<>>, ip |-> start + LdmMinMatch,
                  anchor |-> start, stop |-> FALSE]
    IN  IF end - start < LdmMinMatch THEN first
        ELSE FoldLeft(turn, first, Positions(start, limit))

\* The literals a chunk leaves over belong to the next sequence.
Joined(a, done, size, to) ==
    IF done.seqs = <<>> THEN [a EXCEPT !.state = done.state, !.leftover = @ + size]
    ELSE [state    |-> done.state, leftover |-> to - done.anchor,
          seqs     |-> a.seqs \o [done.seqs EXCEPT ![1].lit_length = @ + a.leftover]]

\* The chunks of a block or section: the window slides at the end of each.
generate_sequences(state, start, end) ==
    LET chunk(a, n) ==
            LET from == start + n * LdmChunk
                to   == Smaller(from + LdmChunk, end)
                slid == [a.state EXCEPT !.window =
                            enforce_max_dist(@, W32(to + @.seg_bias), WindowSize)]
            IN  Joined(a, generate_sequences_internal(slid, from, to), to - from, to)
    IN  FoldLeft(chunk, [state |-> state, seqs |-> <<>>, leftover |-> 0],
                 Positions(0, (end - start + LdmChunk - 1) \div LdmChunk))
=============================================================================
