----------------------------- MODULE MatchFinder -----------------------------
(***************************************************************************)
(* What the match finders of compress.rs share: the history buffer of a    *)
(* frame, the tables that map a hash to the last index seen under it, the  *)
(* view a block's search has of the window, the sequences it stores, and   *)
(* the block-by-block loop of compress_continue around it.                 *)
(*                                                                         *)
(* A finder works on indices of the Window module and reads bytes of the   *)
(* buffer through the segment an index belongs to.  It emits sequences     *)
(* whose offsets may be repeat codes, resolved by a decoder that only sees *)
(* the sequences: the hazard is that the two disagree about what a byte, an*)
(* index or a recent offset is.                                            *)
(*                                                                         *)
(* Scaled down: read32 compares W bytes and read64 LongW bytes.  A hash is *)
(* a bucket and a tag of the bytes hashed, under one of several functions. *)
(***************************************************************************)
EXTENDS Window, BlockDecode, TLC

CONSTANTS
    Byte,               \* the bytes
    W, LongW,           \* the widths of read32 and read64
    WindowSize,         \* 1 << window_log
    Blocks,             \* the contents of a block, sequences of bytes
    Contents,           \* the contents of a dictionary or a prefix
    InitialReps,        \* repeat offsets a frame may start with
    SearchStrength,     \* 1 << K_SEARCH_STRENGTH
    CacheSize,          \* ROW_HASH_CACHE_SIZE, of the lazy finder over rows
    Overlap,            \* the bytes of a job's prefix, see OptParser
    Configs,            \* the combinations of a matcher, a hash and a dictionary
    MaxBlocks           \* bound: blocks of a frame

ASSUME FinderAssumption ==
    /\ W \in Nat \ {0} /\ LongW >= W /\ HashReadSize >= LongW
    /\ {0} \cup UNION {{b[k] : k \in DOMAIN b} : b \in Blocks \cup Contents} \subseteq Byte
    /\ \A b \in Blocks : Len(b) <= WindowSize

VARIABLES
    config,     \* [matcher, hash, dict] and step_size; method and depth if lazy; see
                \* OptParser for the optimal parser
    content,    \* the dictionary content or the prefix of the frame
    history,    \* content and everything fed so far
    data,       \* the buffer
    window,
    tables,     \* [small, long]: bucket -> index, or the LazyCtx or OptCtx of
                \* LazyFinder and OptParser
    dms,        \* those of an attached dictionary; small and long keep a tag too
    rep,        \* FrameCompressor.rep
    drep,       \* the offset history of a decoder of the blocks emitted
    block,      \* [start, end]: the block in the buffer
    search,     \* the locals of the finder's loop
    seqs,       \* the sequences stored for the block
    pc

vars == <<config, content, history, data, window, tables, dms, rep, drep, block,
          search, seqs, pc>>
frame == <<config, content, history, data, window, dms, rep, drep, block>>

-----------------------------------------------------------------------------
(* Bytes.  Positions start at 0.                                           *)

\* The positions first .. last - 1, in order.
Positions(first, last) == [k \in 1 .. Larger(0, last - first) |-> first + k - 1]

At(p) == data[p + 1]
Word(p, n) == SubSeq(data, p + 1, p + n)

count_eq(a, b, limit) ==
    CHOOSE n \in 0 .. Larger(0, limit - a) :
        /\ \A k \in 0 .. n - 1 : At(a + k) = At(b + k)
        /\ a + n >= limit \/ At(a + n) # At(b + n)

\* A match that starts in the dictionary and reaches its end goes on at the
\* start of the prefix.
count_2segments(ip, matched, iend, mend, istart) ==
    LET n == count_eq(ip, matched, Smaller(ip + (mend - matched), iend))
    IN  IF matched + n # mend THEN n ELSE n + count_eq(ip + n, istart, iend)

Bucket(word) ==
    CASE config.hash = "word" -> word
      [] config.hash = "first" -> word[1]
      [] config.hash = "one" -> 0
Tag(word) == IF config.hash = "word" THEN 0 ELSE word[2]

Lazy == config.matcher = "lazy"
Opt == config.matcher = "opt"
\* These two enter a position when they search, and keep the next one to enter.
Late == Lazy \/ Opt
Rows == Lazy /\ config.method = "RowHash"

-----------------------------------------------------------------------------
(* The view of the window a block is searched with.                        *)

max_distance == WindowSize
istart == block.start + window.seg_bias
iend == block.end + window.seg_bias
ilimit == iend - HashReadSize - IF Rows THEN CacheSize ELSE 0

\* ZSTD_getLowestPrefixIndex.
LowestIndex(idx, lowest_valid) ==
    IF idx - lowest_valid > max_distance THEN idx - max_distance ELSE lowest_valid

\* Mutant of dict_start_index: the window is ignored.
dict_start_index_LowLimit == window.low_limit

\* ZSTD_getLowestMatchIndex: a loaded dictionary stays whole while it is valid.
dict_start_index ==
    IF window.loaded_dict_end # 0 THEN window.low_limit
    ELSE LowestIndex(iend, window.low_limit)

\* Which variant of the finder runs: an attached dictionary before an extDict,
\* and (fast and double-fast) the extDict only if the window reaches into it.
BlockMode ==
    CASE config.dict = "attached" -> "dictMatchState"
      [] /\ config.dict # "attached" /\ has_ext_dict(window)
         /\ Late \/ dict_start_index < window.dict_limit -> "extDict"
      [] OTHER -> "noDict"

\* The first index of the segment the block is in, and the lowest one valid. The
\* late finders tighten both for every position they search at.
PrefixStart == IF BlockMode = "noDict" /\ ~Late THEN LowestIndex(iend, window.dict_limit)
               ELSE window.dict_limit
Lowest == CASE BlockMode = "noDict" -> PrefixStart
            [] BlockMode = "extDict" -> IF Late THEN window.low_limit ELSE dict_start_index
            [] BlockMode = "dictMatchState" -> WINDOW_START_INDEX

\* A finder works these out when it is entered.
mode == search.mode
prefix_start_index == search.prefix_start_index
lowest_index == search.lowest_index

InDict(idx) == mode # "noDict" /\ idx < prefix_start_index

pos_p(idx) == idx - window.seg_bias
pos_seg(idx) == idx - IF InDict(idx) THEN window.dict_bias ELSE window.seg_bias
match_end_pos(idx) ==
    IF InDict(idx) THEN prefix_start_index - window.dict_bias ELSE block.end

Same(idx, ip, n) == Word(pos_seg(idx), n) = Word(pos_p(ip), n)

\* A match of n bytes already compared, extended forwards over the seam.
MatchLength(ip, idx, n) ==
    n + count_2segments(pos_p(ip) + n, pos_seg(idx) + n, block.end,
                        match_end_pos(idx), pos_p(prefix_start_index))

\* How far a match can be extended backwards: not into a stored sequence and not
\* out of the segment of its source.
CatchUp(ip, idx, anchor) ==
    LET low == IF InDict(idx) THEN lowest_index ELSE prefix_start_index
    IN  CHOOSE n \in 0 .. Smaller(ip - anchor, idx - low) :
            /\ \A k \in 1 .. n : At(pos_p(ip) - k) = At(pos_seg(idx) - k)
            /\ \/ ip - n = anchor \/ idx - n = low
               \/ At(pos_p(ip) - n - 1) # At(pos_seg(idx) - n - 1)

\* Mutant of index_overlap_check: a repeated match may straddle the seam.
index_overlap_check_Missing(rep_index) == TRUE

\* The W bytes at rep_index do not cross the seam; an index at or above it wraps
\* around to a large number.
index_overlap_check(rep_index) ==
    W32(prefix_start_index - 1 - rep_index) >= W - 1

-----------------------------------------------------------------------------
(* Tables.                                                                 *)

Lookup(table, word) == IF Bucket(word) \in DOMAIN table THEN table[Bucket(word)] ELSE 0
small_at(idx) == Lookup(tables.small, Word(pos_p(idx), W))
long_at(idx) == Lookup(tables.long, Word(pos_p(idx), LongW))

\* The tables after writing the given indices of the current segment in order.
Put(table, n, indices) ==
    FoldLeft(LAMBDA t, idx : (Bucket(Word(pos_p(idx), n)) :> idx) @@ t, table, indices)
PutSmall(t, indices) == [t EXCEPT !.small = Put(@, W, indices)]
PutLong(t, indices) == [t EXCEPT !.long = Put(@, LongW, indices)]
PutBoth(t, indices) == PutLong(PutSmall(t, indices), indices)

\* The candidate of an attached dictionary: only if the tags agree.
DictLookup(table, word) ==
    LET bucket == Bucket(word)
    IN  IF bucket \in DOMAIN table /\ table[bucket].tag = Tag(word)
        THEN table[bucket].idx ELSE 0

\* The fills of the tables from a dictionary, every third position: one position
\* of each step for a prefix, all three for a dictionary that is attached or
\* copied, the second and third only into an empty bucket.
FillEnd(c) == Len(c) - HashReadSize - 1
FillSteps(c) == IF FillEnd(c) <= 0 THEN <<>>
                ELSE [k \in 1 .. (FillEnd(c) + 2) \div 3 |-> 3 * (k - 1)]
AllOf(steps) == FlattenSeq([k \in 1 .. Len(steps) |->
                               [i \in 1 .. 3 |-> steps[k] + i - 1]])
\* An attached table keeps a tag of the hash with the index.
Entry(idx, word, tagged) == IF tagged THEN [idx |-> idx, tag |-> Tag(word)] ELSE idx

Filled(c, steps, n, full, tagged) ==
    FoldLeft(LAMBDA t, p :
                 LET word == SubSeq(c, p + 1, p + n)
                 IN  IF p % 3 = 0 \/ (full /\ Bucket(word) \notin DOMAIN t)
                     THEN (Bucket(word) :> Entry(p + WINDOW_START_INDEX, word, tagged)) @@ t
                     ELSE t,
             <<>>, steps)

\* The small table of double-fast gets the first position of a step only.
FillTables(c, full, tagged) ==
    LET first == FillSteps(c)
        all   == IF full THEN AllOf(first) ELSE first
        fast  == config.matcher = "fast"
    IN  [small |-> Filled(c, IF fast THEN all ELSE first, W, full, tagged),
         long  |-> IF fast THEN <<>> ELSE Filled(c, all, LongW, full, tagged)]

-----------------------------------------------------------------------------
(* Frames and blocks.                                                      *)

EmptyTables == [small |-> <<>>, long |-> <<>>]

\* The locals of a finder: its view of the window, its cursors, the two recent
\* offsets it works with, and those it set aside because they reach too far; of the
\* lazy one, the match it has so far and the depth it looks for a better one at; of
\* the optimal parser, the series of positions it prices.
NoSearch == [mode |-> "noDict", prefix_start_index |-> 0, lowest_index |-> 0,
             ip |-> 0, ip1 |-> 0, ip2 |-> 0, ip3 |-> 0, anchor |-> 0,
             off |-> <<0, 0>>, saved |-> <<0, 0>>, step |-> 0, next_step |-> 0,
             half |-> 0, best |-> [start |-> 0, len |-> 0, off_base |-> 1],
             level |-> 0, series |-> 0]

\* Window::preloaded_ext_dict: a dictionary in a segment of its own, in front of
\* the source.
preloaded_ext_dict(len) ==
    [streaming_attached_dict(len) EXCEPT !.low_limit = WINDOW_START_INDEX,
                                         !.loaded_dict_end = len + WINDOW_START_INDEX]

\* Window::preloaded_contiguous_prefix: a prefix in the source's own segment.
preloaded_contiguous_prefix(len) ==
    [streaming_attached_dict(len) EXCEPT !.low_limit = WINDOW_START_INDEX,
                                         !.dict_limit = WINDOW_START_INDEX]

\* A job with long-distance matches: they reach further back than its prefix, so
\* its positions are those of the frame.  The indices start at the prefix.
Job == Opt /\ config.ldm = "job"
PrefixFrom == IF Job THEN Larger(0, Len(content) - Overlap) ELSE 0
InFrame(w) == [w EXCEPT !.seg_bias = @ - PrefixFrom, !.dict_bias = @ - PrefixFrom,
                        !.next_src_pos = @ + PrefixFrom]

BlockSize == CHOOSE n \in {Len(b) : b \in Blocks} : \A b \in Blocks : Len(b) <= n

\* A frame without a dictionary is streamed through a buffer that wraps; with one,
\* the content and the source lie in one buffer.
FrameInit ==
    /\ config \in Configs
    /\ content \in IF config.dict = "none" THEN {<<>>} ELSE Contents
    /\ history = content
    /\ data = IF config.dict = "none" THEN [k \in 1 .. WindowSize + BlockSize |-> 0]
              ELSE content
    /\ window = CASE config.dict = "none" -> NewWindow
                  [] config.dict \in {"loaded", "copied"} -> preloaded_ext_dict(Len(content))
                  [] config.dict = "prefix" ->
                        InFrame(preloaded_contiguous_prefix(Len(content) - PrefixFrom))
                  [] config.dict = "attached" -> streaming_attached_dict(Len(content))
    /\ drep \in InitialReps
    /\ rep = IF Opt THEN drep ELSE <<drep[1], drep[2]>>
    /\ block = [start |-> 0, end |-> 0]
    /\ search = NoSearch /\ seqs = <<>>
    /\ pc = "feed"

\* A loaded dictionary (prime_raw_prefix) and the prefix of a job fill the tables
\* sparsely, a copied one completely; an attached one has tables of its own.
InTables == config.dict \in {"loaded", "prefix", "copied"}

TablesInit ==
    /\ ~Late
    /\ tables = IF InTables THEN FillTables(content, config.dict = "copied", FALSE)
                ELSE EmptyTables
    /\ dms = IF config.dict = "attached" THEN FillTables(content, TRUE, TRUE)
             ELSE EmptyTables

Overwritten(start, b) ==
    [k \in 1 .. Larger(Len(data), start + Len(b)) |->
        IF k \in start + 1 .. start + Len(b) THEN b[k - start] ELSE data[k]]

\* The state of the long-distance matcher has a window of its own, which is
\* told of every chunk as well.
HasLdm == Opt /\ config.ldm = "block"

\* The window slides before a block of a chunk it knows.
SlideFor(w, start, end) ==
    enforce_max_dist(check_dict_validity(w, W32(end + w.seg_bias), WindowSize),
                     W32(start + w.seg_bias), WindowSize)

\* compress_continue for one block: the chunk is registered with the window, which
\* then slides.  The late finders go on in the new segment if the chunk begins one,
\* and never below the window.
compress_continue(b) ==
    LET wraps == config.dict = "none" /\ window.next_src_pos > WindowSize
        start == IF wraps THEN 0 ELSE window.next_src_pos
        end   == start + Len(b)
        next  == update(window, start, end)
    IN  /\ pc = "feed"
        /\ Len(history) - Len(content) + Len(b) <= MaxBlocks * BlockSize
        \* cdict_attach_overflow: an attached dictionary ends with the window.
        /\ config.dict = "attached" => end + window.seg_bias <= WindowSize
        /\ window' = SlideFor(next, start, end)
        /\ LET resumed == [tables EXCEPT !.next =
                              Larger(IF contiguous(window, start) THEN @
                                     ELSE next.dict_limit, window'.low_limit)]
           IN  tables' = CASE HasLdm -> [resumed EXCEPT !.ldm.window = update(@, start, end)]
                           [] Late /\ ~HasLdm -> resumed
                           [] OTHER -> tables
        /\ data' = Overwritten(start, b)
        /\ history' = history \o b
        /\ block' = [start |-> start, end |-> end]
        /\ pc' = "enter"
        /\ UNCHANGED <<config, content, dms, rep, drep, search, seqs>>

feed == ~Job /\ \E b \in Blocks : compress_continue(b)

\* The recent offsets that a search must not use, by the window at the start of
\* the block; one variant compares with >= where the other has >.
TooFarBack(off, ip) ==
    IF BlockMode = "noDict" THEN off > ip - LowestIndex(ip, window.dict_limit)
    ELSE off >= ip - dict_start_index

SetsAside == BlockMode = "noDict" \/ (BlockMode = "extDict" /\ config.matcher = "fast")

\* Entering a finder: a short block is not searched, the first position of a
\* window is skipped, and offsets out of reach are set aside.
SkipsFirst == BlockMode = "noDict" \/ (BlockMode = "extDict" /\ Lazy)

EnterSearch ==
    LET ip  == istart + IF SkipsFirst /\ istart = PrefixStart THEN 1 ELSE 0
        far == [k \in 1 .. 2 |-> SetsAside /\ TooFarBack(rep[k], ip)]
    IN  /\ pc = "enter"
        /\ search' = [NoSearch EXCEPT !.mode = BlockMode,
                          !.prefix_start_index = PrefixStart, !.lowest_index = Lowest,
                          !.ip = ip, !.anchor = istart,
                          !.off = [k \in 1 .. 2 |-> IF far[k] THEN 0 ELSE rep[k]],
                          !.saved = [k \in 1 .. 2 |-> IF far[k] THEN rep[k] ELSE 0]]
        /\ pc' = IF block.end - block.start < HashReadSize
                 THEN "leave" ELSE "start"
        /\ UNCHANGED <<frame, seqs>>

enter == ~Late /\ EnterSearch /\ UNCHANGED tables

\* Mutant of RestoredOffsets: the offset set aside does not rotate.
RestoredOffsets_NoRotation(s) ==
    [k \in 1 .. 2 |-> IF s.off[k] # 0 THEN s.off[k] ELSE s.saved[k]]

\* The offsets for the next block: what was set aside comes back unless a newer
\* offset took its place, and moves on if one took the place before it.
RestoredOffsets(s) ==
    LET saved2 == IF s.saved[1] # 0 /\ s.off[1] # 0 THEN s.saved[1] ELSE s.saved[2]
    IN  <<IF s.off[1] # 0 THEN s.off[1] ELSE s.saved[1],
          IF s.off[2] # 0 THEN s.off[2] ELSE saved2>>

DecoderRep(r, sequences) ==
    FoldLeft(LAMBDA acc, q : resolve_offset(q.off_base, q.lit_len, acc), r, sequences)

\* The block is emitted compressed, or raw if that is no gain: only the former
\* commits the offsets and shows them to the decoder.
leave ==
    /\ pc = "leave"
    /\ \/ /\ rep' = IF Opt THEN search.off ELSE RestoredOffsets(search)
          /\ drep' = DecoderRep(drep, seqs)
       \/ UNCHANGED <<rep, drep>>
    /\ search' = NoSearch /\ seqs' = <<>>
    /\ pc' = "feed"
    /\ UNCHANGED <<config, content, history, data, window, tables, dms, block>>

-----------------------------------------------------------------------------
(* Storing a sequence.                                                     *)

StoreSeq(ip, off_base, len) ==
    seqs' = Append(seqs, [lit_len |-> ip - search.anchor, off_base |-> off_base,
                          match_len |-> len])

\* The search behind a match of len bytes at ip.
Behind(ip, len, off) ==
    [search EXCEPT !.ip = ip + len, !.anchor = ip + len, !.off = off, !.half = 0]

\* An ordinary match at ip with index idx, found by comparing n bytes; search'.ip
\* is the position behind it, on which the entries of the tables depend.
Take(ip, idx, n) ==
    LET back == CatchUp(ip, idx, search.anchor)
        len  == back + MatchLength(ip, idx, n)
    IN  /\ StoreSeq(ip - back, ip - idx + 3, len)
        /\ search' = Behind(ip - back, len, <<ip - idx, search.off[1]>>)
        /\ pc' = "immediate"
        /\ UNCHANGED frame

\* A match with the most recent offset, extended backwards by back bytes.
TakeRepeat(ip, back) ==
    LET len == back + MatchLength(ip, ip - search.off[1], W)
    IN  /\ StoreSeq(ip - back, 1, len)
        /\ search' = Behind(ip - back, len, search.off)
        /\ pc' = "immediate"
        /\ UNCHANGED frame

\* ZSTD_getLowestMatchIndex at a position, as the lazy finder asks for it.
WindowLowAt(idx) ==
    IF window.loaded_dict_end # 0 THEN window.low_limit
    ELSE LowestIndex(idx, window.low_limit)

\* Is offset off usable at ip: it has not been set aside, its bytes do not
\* straddle the seam and (double-fast and lazy over an extDict) it is within the
\* window.
Repeats(ip, off) ==
    /\ mode # "dictMatchState" => off > 0
    /\ mode # "noDict" => index_overlap_check(ip - off)
    /\ mode = "extDict" /\ config.matcher = "dfast" => off <= ip - dict_start_index
    /\ mode = "extDict" /\ Lazy => off <= ip - WindowLowAt(ip)
    /\ Same(ip - off, ip, W)

\* Behind a match the second offset is tried at once, without literals, as often
\* as it matches; it becomes the first.
ImmediateRepeat == search.ip <= ilimit /\ Repeats(search.ip, search.off[2])

immediate_repcode ==
    LET len == MatchLength(search.ip, search.ip - search.off[2], W)
    IN  /\ pc = "immediate" /\ ImmediateRepeat
        /\ StoreSeq(search.ip, 1, len)
        /\ search' = Behind(search.ip, len, <<search.off[2], search.off[1]>>)
        /\ tables' = CASE config.matcher = "fast" -> PutSmall(tables, <<search.ip>>)
                       [] config.matcher = "dfast" -> PutBoth(tables, <<search.ip>>)
                       [] Lazy -> tables
        /\ UNCHANGED <<frame, pc>>

no_immediate_repcode ==
    /\ pc = "immediate" /\ ~ImmediateRepeat
    /\ pc' = "start"
    /\ UNCHANGED <<frame, tables, search, seqs>>
=============================================================================
