----------------------------- MODULE BlockEncode -----------------------------
(***************************************************************************)
(* The blocks of a frame from the encoder's side (compress.rs, the end of  *)
(* the block loop; post_split.rs): a match finder fills the sequence store,*)
(* the store becomes one compressed, raw or RLE block, or is split into    *)
(* partitions that become one block each.  Offsets and tables are carried  *)
(* to the next block only where the decoder carries them as well: dec is   *)
(* that decoder, reading each block as it is emitted.                      *)
(*                                                                         *)
(* A byte of a block is its position.  read says where the decoder took    *)
(* each from: the position itself for a literal or a copied byte, the      *)
(* negative offset for a byte of a match, Garbage if it lost the thread.   *)
(***************************************************************************)
EXTENDS EntropyTables

CONSTANTS
    Dictionaries,           \* what a frame may start from, NoDict among them
    Parses,                 \* what a match finder may find: [n, seqs]
    Alphabets,              \* the symbols a block's literals may consist of
    BLOCK_SIZE_MAX, MaxInput,
    MIN_CBLOCK,             \* blocks below it are not parsed
    Strategies,             \* the kinds of strategy to look at
    MIN_SEQUENCES_BLOCK_SPLITTING, ZSTD_MAX_NB_BLOCK_SPLITS,
    MaxJobs                 \* jobs of a multithreaded frame, 1 without

NoDict == [content_len |-> 0]

ASSUME BlockEncodeAssumption ==
    /\ LongMod \in Nat \ {0} /\ MIN_MATCH \in Nat \ {0}
    /\ BLOCK_SIZE_MAX \in 1 .. 2 * LongMod /\ MIN_CBLOCK \in Nat /\ MaxInput \in Nat
    /\ NoDict \in Dictionaries
    /\ \A dict \in Dictionaries : dict.content_len \in Nat
    /\ \A p \in Parses :
        /\ p.seqs \in Seq([off_base : Nat \ {0}, lit_len : Nat,
                           match_len : {m \in Nat : m >= MIN_MATCH}])
        /\ p.n \in Nat /\ SpanOf(p.seqs) <= p.n /\ p.n <= BLOCK_SIZE_MAX
    /\ IsFiniteSet(LiteralSymbols)
    /\ \A a \in Alphabets : a \subseteq LiteralSymbols /\ a # {}
    /\ Strategies \subseteq StrategyKinds
    /\ MIN_SEQUENCES_BLOCK_SPLITTING \in Nat \ {0, 1}
    /\ MaxJobs \in Nat \ {0}

VARIABLES
    strategy,
    content_len,    \* of the dictionary
    rep, entropy, is_first_block,   \* fields of FrameCompressor
    pos,            \* bytes compressed so far
    job,
    block,          \* the block at work: bytes, parse, its offsets, store, next_rep
    cuts,           \* where it is split
    todo,           \* the bounds of the ranges derive_splits has yet to look at
    part, d_rep, c_rep, ip_at,      \* locals of compress_block_split
    dec, read,
    panicked, pc

locals == <<cuts, todo, part, d_rep, c_rep, ip_at>>
vars == <<strategy, content_len, rep, entropy, is_first_block, pos, job, block, locals, dec, read,
          panicked, pc>>

Garbage == 0
NoBlock == [n |-> 0, seqs |-> <<>>, offsets |-> <<>>, store |-> EmptyStore, next_rep |-> <<>>]
NoDecoderTables == [s \in Slots \cup {"huf"} |-> NoTable]

DecoderWith(offsets, tables) ==
    [rep |-> offsets, ll |-> tables.ll, of |-> tables.of, ml |-> tables.ml, huf |-> tables.huf]

StartFrom(dict) ==
    /\ content_len = dict.content_len
    /\ rep = IF dict = NoDict THEN <<1, 4, 8>> ELSE dict.rep
    /\ entropy = IF dict = NoDict THEN FreshState ELSE load_c_entropy(dict, BLOCK_SIZE_MAX)
    /\ dec = DecoderWith(rep, IF dict = NoDict THEN NoDecoderTables ELSE dict)

Init ==
    /\ strategy \in Strategies
    /\ \E dict \in Dictionaries : StartFrom(dict)
    /\ is_first_block = TRUE /\ pos = 0 /\ job = 1
    /\ block = NoBlock /\ cuts = <<>> /\ todo = <<>> /\ part = 0
    /\ d_rep = rep /\ c_rep = rep /\ ip_at = 0
    /\ read = <<>> /\ panicked = FALSE /\ pc = "next"

-----------------------------------------------------------------------------
(* The decoder's side of an emission.                                      *)

\* One sequence read after acc.
RegeneratedStep(literals, acc, c) ==
    LET s == SequenceRead(c)
        r == resolve_offset(s.of_value, s.lit_len, acc.rep)
    IN  [rep |-> r, lits |-> acc.lits + s.lit_len,
         out |-> acc.out \o SubSeq(literals, acc.lits + 1, acc.lits + s.lit_len)
                         \o [k \in 1 .. s.match_len |-> -r[1]]]

\* How the bytes of a compressed block are regenerated.
Regenerated(body, decoder) ==
    LET acc[k \in 0 .. Len(body.coded)] ==
            IF k = 0 THEN [rep |-> decoder.rep, lits |-> 0, out |-> <<>>]
            ELSE RegeneratedStep(body.literals, acc[k - 1], body.coded[k])
        end == acc[Len(body.coded)]
    IN  [out |-> end.out \o SubSeq(body.literals, end.lits + 1, Len(body.literals)),
         rep |-> end.rep]

\* A raw or RLE block of the bytes first + 1 .. last.
DecodeCopied(first, last) ==
    /\ read' = read \o [k \in 1 .. last - first |-> first + k]
    /\ UNCHANGED dec

DecodeCompressed(body) ==
    LET seen == Regenerated(body, dec)
    IN  IF Readable(dec, body)
        THEN /\ read' = read \o seen.out
             /\ dec' = DecoderWith(seen.rep, TablesAfter(dec, body))
        ELSE /\ read' = Append(read, Garbage)
             /\ UNCHANGED dec

-----------------------------------------------------------------------------
(* Parsing a block.                                                        *)

BlockDone(n) == pos' = pos + n /\ is_first_block' = FALSE /\ pc' = "done"

\* The matcher's history after each sequence of a parse that starts from `start`:
\* it codes an offset by any code that means it, the head of the history then.
HistoryAlong(start, seqs) ==
    LET after[k \in 0 .. Len(seqs)] ==
            IF k = 0 THEN start
            ELSE update_rep(after[k - 1], seqs[k].off_base, seqs[k].lit_len = 0)
    IN  after

AfterParse(start, seqs) == HistoryAlong(start, seqs)[Len(seqs)]

OffsetsOf(start, seqs) == [k \in DOMAIN seqs |-> HistoryAlong(start, seqs)[k][1]]

\* Offsets stay inside what precedes them.
OffsetsReach(seqs) ==
    \A k \in DOMAIN seqs :
        OffsetsOf(rep, seqs)[k] \in
            1 .. content_len + pos + SpanTo(seqs, k - 1) + seqs[k].lit_len

\* Too small to be parsed.
TinyBlock ==
    /\ pc = "next"
    /\ \E n \in 1 .. MIN_CBLOCK - 1 :
        /\ pos + n <= MaxInput
        /\ block' = [NoBlock EXCEPT !.n = n]
        /\ read' = [k \in 1 .. n |-> k]
        /\ BlockDone(n)
    /\ UNCHANGED <<strategy, content_len, rep, entropy, job, locals, dec, panicked>>

\* build_seq_store: the matcher's parse fills the store; it works on a copy of
\* the offsets.
BuildSeqStore ==
    /\ pc = "next"
    /\ \E p \in Parses :
        /\ p.n >= MIN_CBLOCK /\ pos + p.n <= MaxInput
        /\ OffsetsReach(p.seqs)
        /\ block' = [n |-> p.n, seqs |-> p.seqs, offsets |-> OffsetsOf(rep, p.seqs),
                     store |-> StoreOf(p.seqs, p.n), next_rep |-> AfterParse(rep, p.seqs)]
        /\ todo' = <<0, Len(p.seqs)>>
    /\ read' = <<>>
    /\ pc' = IF strategy.splitter THEN "split" ELSE "emit"
    /\ UNCHANGED <<strategy, content_len, rep, entropy, is_first_block, pos, job,
                   cuts, part, d_rep, c_rep, ip_at, dec, panicked>>

-----------------------------------------------------------------------------
(* Without the splitter.                                                   *)

\* Which block it was: the third for the literals, and the sequences' part.
Stamp == <<job, pos, part>>

Bodies(state, chunk, seqs) ==
    UNION {entropy_compress_seq_view(strategy, state, seqs, chunk.long, chunk.literals, a, Stamp) :
           a \in Alphabets}

WholeStore == derive_chunk(block.store, 0, Len(block.store.sequences))

\* Mutant of EmitCompressed: an RLE block commits offsets and tables as well.
EmitCompressed_AnyKind ==
    /\ pc = "emit"
    /\ \E b \in Bodies(entropy, WholeStore, block.store.sequences), is_rle \in BOOLEAN :
        /\ IF is_rle /\ ~is_first_block
           THEN DecodeCopied(0, block.n)
           ELSE DecodeCompressed(b.body)
        /\ rep' = block.next_rep /\ entropy' = b.next
    /\ BlockDone(block.n)
    /\ UNCHANGED <<strategy, content_len, job, block, locals, panicked>>

\* A body that is small enough: a compressed block, or an RLE block if the
\* bytes are all the same.  Only the first commits offsets and tables.
EmitCompressed ==
    /\ pc = "emit"
    /\ \E b \in Bodies(entropy, WholeStore, block.store.sequences), is_rle \in BOOLEAN :
        IF is_rle /\ ~is_first_block
        THEN DecodeCopied(0, block.n) /\ UNCHANGED <<rep, entropy>>
        ELSE DecodeCompressed(b.body) /\ rep' = block.next_rep /\ entropy' = b.next
    /\ BlockDone(block.n)
    /\ UNCHANGED <<strategy, content_len, job, block, locals, panicked>>

\* No body: the block is not compressible enough.
EmitRaw ==
    /\ pc = "emit"
    /\ DecodeCopied(0, block.n)
    /\ BlockDone(block.n)
    /\ UNCHANGED <<strategy, content_len, rep, entropy, job, block, locals, panicked>>

-----------------------------------------------------------------------------
(* With the splitter.                                                      *)

nb_seq == Len(block.store.sequences)

\* derive_splits: a step for each range that derive_splits_helper is called for.
EstimatePanics(range) ==
    LET chunk == derive_chunk(block.store, range[1], range[2])
    IN  CodesOutOfBounds(SequencesOf(block.store, chunk), chunk.long)

\* derive_splits_helper comes to the range todo[1] .. todo[2]: the ranges it
\* estimates there.
middle == (todo[1] + todo[2]) \div 2

estimated ==
    IF \/ todo[2] - todo[1] < MIN_SEQUENCES_BLOCK_SPLITTING
       \/ Len(cuts) >= ZSTD_MAX_NB_BLOCK_SPLITS
    THEN {} ELSE {<<todo[1], todo[2]>>, <<todo[1], middle>>, <<middle, todo[2]>>}

Estimating(next) ==
    /\ panicked' = \E range \in estimated : EstimatePanics(range)
    /\ pc' = IF panicked' THEN "panicked" ELSE next
    /\ part' = 0 /\ d_rep' = rep /\ c_rep' = rep /\ ip_at' = 0
    /\ UNCHANGED <<strategy, content_len, rep, entropy, is_first_block, pos, job, block, dec, read>>

\* The halves are not cheaper together: the range stays whole, and the cut in
\* front of the next range is made.
KeepRange ==
    /\ pc = "split"
    /\ Estimating(IF Len(todo) = 2 THEN "part" ELSE "split")
    /\ cuts' = IF Len(todo) = 2 THEN cuts ELSE Append(cuts, todo[2])
    /\ todo' = Tail(todo)

\* They are: first the left half, then the cut, then the right one.
HalveRange ==
    /\ pc = "split"
    /\ estimated # {}
    /\ Estimating("split")
    /\ todo' = <<todo[1], middle>> \o Tail(todo)
    /\ UNCHANGED cuts

whole   == cuts = <<>>
last_partition == part = Len(cuts)

chunk ==
    derive_chunk(block.store, IF part = 0 THEN 0 ELSE cuts[part],
                 IF last_partition THEN nb_seq ELSE cuts[part + 1])

\* The bytes of the partition; the last one takes what is left of the block.
src_bytes ==
    IF last_partition THEN block.n - ip_at
    ELSE count_literals_bytes(block.store, chunk.first, chunk.last)
         + count_match_bytes(block.store, chunk.first, chunk.last)

\* The partition's sequences and both histories after it.
resolved ==
    LET seqs == SequencesOf(block.store, chunk)
    IN  IF whole THEN [seqs |-> seqs, d_rep |-> d_rep, c_rep |-> c_rep]
        ELSE resolve_off_codes(seqs, chunk.long, d_rep, c_rep)

\* The offset table of a dictionary is good for the first block only.
demoted(state) ==
    IF state.of.repeat = "valid" THEN [state EXCEPT !.of.repeat = "check"] ELSE state

\* After a partition: to the next, or the block's offsets are settled.
Advance(next_rep, next_d_rep) ==
    /\ d_rep' = next_d_rep /\ c_rep' = resolved.c_rep /\ ip_at' = ip_at + src_bytes
    /\ IF last_partition
       THEN /\ rep' = IF whole THEN next_rep ELSE next_d_rep
            /\ BlockDone(block.n) /\ UNCHANGED part
       ELSE /\ part' = part + 1
            /\ UNCHANGED <<rep, pos, is_first_block, pc>>
    /\ UNCHANGED <<strategy, content_len, job, block, cuts, todo, panicked>>

\* A raw or RLE partition: the decoder sees no offsets, d_rep is put back.
PartitionCopied ==
    /\ DecodeCopied(ip_at, ip_at + src_bytes)
    /\ entropy' = demoted(entropy)

EmitPartRaw ==
    /\ pc = "part"
    /\ PartitionCopied
    /\ Advance(rep, d_rep)

EmitPartCompressed ==
    /\ pc = "part"
    /\ \E b \in Bodies(entropy, chunk, resolved.seqs), is_rle \in BOOLEAN :
        IF is_rle /\ ~is_first_block
        THEN PartitionCopied /\ Advance(rep, d_rep)
        ELSE /\ DecodeCompressed(b.body)
             /\ entropy' = demoted(b.next)
             /\ Advance(block.next_rep, resolved.d_rep)

-----------------------------------------------------------------------------
(* The next job of a multithreaded frame: a new FrameCompressor, whose     *)
(* blocks the decoder reads as further blocks of the same frame.           *)

NextJob ==
    /\ pc = "next" /\ job < MaxJobs /\ pos > 0
    /\ job' = job + 1
    /\ rep' = <<1, 4, 8>> /\ entropy' = FreshState /\ is_first_block' = TRUE
    /\ UNCHANGED <<strategy, content_len, pos, block, locals, dec, read, panicked, pc>>

\* The block is out, its locals go out of scope.
BlockOut ==
    /\ pc = "done"
    /\ block' = NoBlock /\ read' = <<>>
    /\ cuts' = <<>> /\ todo' = <<>> /\ part' = 0 /\ d_rep' = rep /\ c_rep' = rep /\ ip_at' = 0
    /\ pc' = "next"
    /\ UNCHANGED <<strategy, content_len, rep, entropy, is_first_block, pos, job, dec, panicked>>

Next ==
    \/ TinyBlock \/ BuildSeqStore
    \/ EmitCompressed \/ EmitRaw
    \/ KeepRange \/ HalveRange \/ EmitPartRaw \/ EmitPartCompressed
    \/ BlockOut

Spec == Init /\ [][Next]_vars

\* The blocks of a multithreaded frame.
JobsSpec == Init /\ [][Next \/ NextJob]_vars

-----------------------------------------------------------------------------
(* Properties.                                                             *)

\* The offset with which the matcher meant byte p of the block, 0 for a literal.
MeantOffset(p) ==
    LET End(k) == SpanTo(block.seqs, k)
        Match  == {k \in DOMAIN block.seqs :
                      p > End(k) - block.seqs[k].match_len /\ p <= End(k)}
    IN  IF Match = {} THEN 0 ELSE block.offsets[CHOOSE k \in Match : TRUE]

\* Whatever blocks a parse became, the decoder takes each byte from where the
\* matcher had it: literals and raw bytes from their own place, the bytes of a
\* match from the offset the matcher meant, although what is on the wire may be a
\* repeat code rewritten for the decoder's history, and a table it has to know.
\* At the end of a block it has all of it.
DecoderReadsWhatWasMeant ==
    /\ \A p \in DOMAIN read :
        read[p] = p \/ (MeantOffset(p) > 0 /\ read[p] = -MeantOffset(p))
    /\ pc = "done" => Len(read) = block.n

\* Between blocks the encoder's offsets are the decoder's, and a table it may
\* repeat is the one the decoder holds; among partitions the simulated history is
\* the decoder's.
InStepWithDecoder ==
    /\ pc \in {"next", "emit", "split", "done"} => rep = dec.rep
    /\ pc = "part" /\ ~whole => d_rep = dec.rep
    /\ \A s \in DOMAIN entropy :
        entropy[s].repeat # "none" => entropy[s].table = dec[s]

\* A length that does not fit the 16 bits of its field.
IsLong(s) == s.lit_len >= LongMod \/ s.match_len - MIN_MATCH >= LongMod

\* The two halves of a range to be estimated meet in front of a long length.
HalvedAtLongLength ==
    pc = "split" /\ estimated # {} /\ IsLong(block.seqs[middle + 1])

\* Splitting a block indexes a sequence outside of a partition exactly when it first
\* comes to a range whose middle is right before the sequence with the long length:
\* the left half keeps the marker (derive_chunk's inclusive bound), and seq_to_codes
\* writes its code behind the half's last.  At no other place, on no other step and in
\* no range that another one left behind.
SplitterPanicsAtLongMiddle == [][panicked' <=> panicked \/ HalvedAtLongLength]_vars
=============================================================================
