--------------------------- MODULE FrameParameters ---------------------------
(***************************************************************************)
(* From a level and the sizes to the parameters of a frame (compress.rs),  *)
(* and from these to its header and back (write_frame_header, frame.rs).   *)
(*                                                                         *)
(* Sizes are integers, Unknown where the code has CONTENTSIZE_UNKNOWN.     *)
(* A byte of a field has HeaderByte bits, eight in the code, so that the   *)
(* sizes at which a field gets wider are small enough for TLC; descriptor  *)
(* and window byte keep their eight.                                       *)
(***************************************************************************)
EXTENDS BitStreams, FiniteSets

CONSTANTS
    HeaderByte,             \* 8
    WINDOWLOG_MAX,          \* 31
    DEFAULT_CPARAMETERS     \* rows: by size class and row

WINDOWLOG_ABSOLUTEMIN == 10
HASHLOG_MIN == 6
SHORT_CACHE_TAG_BITS == 8
ZSTD_MAX_CLEVEL == 22
ZSTD_CLEVEL_DEFAULT == 3

Unknown == -1

Least(a, b) == IF a < b THEN a ELSE b

-----------------------------------------------------------------------------
(* Parameters.                                                             *)

RowMatchers  == {"greedy", "lazy", "lazy2"}
TreeMatchers == {"btlazy2", "btopt", "btultra", "btultra2"}

\* How many of the bounds a size is within: the class of its row.
TableId(r_size) ==
    Cardinality({bound \in {256 * 1024, 128 * 1024, 16 * 1024} : r_size # Unknown /\ r_size <= bound})

\* The size a row is chosen for.  Unknown is the largest number: with a dictionary
\* the sum wraps.
RowSize(src_size, dict_size) ==
    CASE src_size # Unknown                  -> src_size + dict_size
      [] src_size = Unknown /\ dict_size # 0 -> dict_size + 499
      [] src_size = Unknown /\ dict_size = 0 -> Unknown

RowOf(level) ==
    CASE level = 0 -> ZSTD_CLEVEL_DEFAULT
      [] level < 0 -> 0
      [] level > 0 -> Least(level, ZSTD_MAX_CLEVEL)

cycle_log(log, strategy) == log - IF strategy \in TreeMatchers THEN 1 ELSE 0

dict_and_window_log(window_log, src_size, dict_size) ==
    LET both == dict_size + 2^window_log
    IN  CASE dict_size = 0 \/ 2^window_log >= dict_size + src_size -> window_log
          [] /\ dict_size # 0 /\ 2^window_log < dict_size + src_size
             /\ both >= 2^WINDOWLOG_MAX                            -> WINDOWLOG_MAX
          [] /\ dict_size # 0 /\ 2^window_log < dict_size + src_size
             /\ both < 2^WINDOWLOG_MAX                             -> highbit(both - 1) + 1

\* The window that a source and a dictionary of these sizes need.
ResizedWindowLog(window_log, src_size, dict_size) ==
    LET t_size  == src_size + dict_size
        src_log == IF t_size < 2^HASHLOG_MIN THEN HASHLOG_MIN ELSE highbit(t_size - 1) + 1
        max_resize == 2^(WINDOWLOG_MAX - 1)
    IN  IF src_size # Unknown /\ src_size <= max_resize /\ dict_size <= max_resize
        THEN Least(window_log, src_log) ELSE window_log

\* Hash and chain tables for the indices that window and dictionary have together.
ResizedTables(cp, src_size, dict_size) ==
    LET daw_log == dict_and_window_log(cp.window_log, src_size, dict_size)
        cyc_log == cycle_log(cp.chain_log, cp.strategy)
    IN  IF src_size = Unknown THEN cp
        ELSE [cp EXCEPT !.hash_log  = Least(@, daw_log + 1),
                        !.chain_log = IF cyc_log > daw_log THEN @ - (cyc_log - daw_log) ELSE @]

\* The widest hashes that leave room for a tag in an index.
Capped(cp, mode) ==
    LET short_cache == 32 - SHORT_CACHE_TAG_BITS
        row_log     == IF cp.search_log < 4 THEN 4 ELSE Least(cp.search_log, 6)
    IN  IF mode = "create cdict" /\ cp.strategy \in {"fast", "dfast"}
        THEN [cp EXCEPT !.hash_log = Least(@, short_cache), !.chain_log = Least(@, short_cache)]
        ELSE IF cp.strategy \in RowMatchers
        THEN [cp EXCEPT !.hash_log = Least(@, 32 - 8 + row_log)]
        ELSE cp

adjust_cparams_internal(cp, src_size, dict_size, mode) ==
    LET assumed == IF mode = "create cdict" /\ dict_size # 0 /\ src_size = Unknown
                   THEN 513 ELSE src_size
        resized == [cp EXCEPT !.window_log = ResizedWindowLog(@, assumed, dict_size)]
        tables  == ResizedTables(resized, assumed, dict_size)
    IN  Capped([tables EXCEPT !.window_log = IF @ < WINDOWLOG_ABSOLUTEMIN
                                             THEN WINDOWLOG_ABSOLUTEMIN ELSE @], mode)

RowFor(level, src_size, dict_size) ==
    DEFAULT_CPARAMETERS[TableId(RowSize(src_size, dict_size))][RowOf(level)]

get_cparams_mode(level, src_size, dict_size, mode) ==
    adjust_cparams_internal(RowFor(level, src_size, dict_size), src_size, dict_size, mode)

get_cparams(level, src_size, dict_size) == get_cparams_mode(level, src_size, dict_size, "no attach")

cdict_attach_cutoff(strategy) ==
    CASE strategy \in {"greedy", "lazy", "lazy2", "btlazy2", "btopt"} -> 32 * 1024
      [] strategy = "dfast"                                           -> 16 * 1024
      [] strategy \in {"fast", "btultra", "btultra2"}                 -> 8 * 1024

CDictCParams(level, dict_size) == get_cparams_mode(level, Unknown, dict_size, "create cdict")

\* How a frame gets its dictionary, if any: not at all, loaded into its own tables
\* (compress_with_dict), or from a CDict, which small or unknown inputs attach
\* and larger ones copy.
Applies(path, level, src_size, dict_size) ==
    LET small == src_size = Unknown
                 \/ src_size <= cdict_attach_cutoff(CDictCParams(level, dict_size).strategy)
    IN  CASE path = "plain"  -> dict_size = 0
          [] path = "load"   -> dict_size # 0 /\ src_size # Unknown
          [] path = "attach" -> dict_size # 0 /\ small
          [] path = "copy"   -> dict_size # 0 /\ ~small

\* The parameters the frame is compressed with.
FrameCParams(path, level, src_size, dict_size) ==
    LET cdict == CDictCParams(level, dict_size)
        own   == get_cparams(level, src_size, IF path = "attach" THEN 0 ELSE dict_size)
    IN  CASE path \in {"plain", "load"} -> own
          [] path = "attach" -> [adjust_cparams_internal(cdict, src_size, 0, "no attach")
                                    EXCEPT !.window_log = own.window_log]
          [] path = "copy"   -> [cdict EXCEPT !.window_log = own.window_log]

-----------------------------------------------------------------------------
(* Header.                                                                 *)

Reaches(value, bounds) == Cardinality({b \in bounds : value >= b})

FcsCode(size) ==
    IF size = Unknown THEN 0
    ELSE Reaches(size, {2^HeaderByte, 2^(2 * HeaderByte) + 2^HeaderByte, 2^(4 * HeaderByte) - 1})

DidCode(id) == Reaches(id, {1, 2^HeaderByte, 2^(2 * HeaderByte)})

Field(value, bytes) == LowBits(value, bytes * HeaderByte)

ContentSizeField(size, single_segment) ==
    CASE FcsCode(size) = 0 -> IF single_segment THEN Field(size, 1) ELSE <<>>
      [] FcsCode(size) = 1 -> Field(size - 2^HeaderByte, 2)
      [] FcsCode(size) = 2 -> Field(size, 4)
      [] FcsCode(size) = 3 -> Field(size, 8)

DictIdField(id) == Field(id, <<0, 1, 2, 4>>[DidCode(id) + 1])

\* What follows the magic number.
write_frame_header(window_log, pledged, checksum, dict_id) ==
    LET single == pledged # Unknown /\ 2^window_log >= pledged
    IN  LowBits(DidCode(dict_id), 2) \o <<IF checksum THEN 1 ELSE 0, 0, 0>>
        \o <<IF single THEN 1 ELSE 0>> \o LowBits(FcsCode(pledged), 2)
        \o (IF single THEN <<>> ELSE LowBits(0, 3) \o LowBits(window_log - WINDOWLOG_ABSOLUTEMIN, 5))
        \o DictIdField(dict_id) \o ContentSizeField(pledged, single)

Refused(why) == [kind |-> "error", why |-> why]

WindowByte(bits) == [exponent |-> ValueOf(SubSeq(bits, 4, 8)), mantissa |-> ValueOf(SubSeq(bits, 1, 3))]

\* The two fields behind descriptor and window byte, of d and f bytes; window is
\* the declared one, or Unknown in a single segment.
FieldsOf(rest, d, f, window, limit) ==
    LET size == IF f = 0 THEN Unknown
                ELSE ValueOf(SubSeq(rest, d * HeaderByte + 1, (d + f) * HeaderByte))
                     + IF f = 2 THEN 2^HeaderByte ELSE 0
        fits == window # Unknown \/ size <= 2^limit
    IN  IF Len(rest) < (d + f) * HeaderByte THEN Refused("short")
        ELSE IF ~fits THEN Refused("window")
        ELSE [kind |-> "header", content_size |-> size,
              dict_id |-> ValueOf(SubSeq(rest, 1, d * HeaderByte)),
              window_size |-> IF window = Unknown THEN size ELSE window,
              left |-> Len(rest) - (d + f) * HeaderByte]

\* frame::parse.  The exponents of windows that no limit allows are not computed.
parse(bits, window_log_max) ==
    LET limit  == Least(window_log_max, WINDOWLOG_MAX)
        single == bits[6] = 1
        fcs    == ValueOf(SubSeq(bits, 7, 8))
        d      == <<0, 1, 2, 4>>[ValueOf(SubSeq(bits, 1, 2)) + 1]
        f      == (IF single THEN <<1, 2, 4, 8>> ELSE <<0, 2, 4, 8>>)[fcs + 1]
        wd     == WindowByte(SubSeq(bits, 9, 16))
        base   == 2^(10 + wd.exponent)
        Behind(n) == SubSeq(bits, n + 1, Len(bits))
    IN  IF Len(bits) < 8 THEN Refused("short")
        ELSE IF bits[4] = 1 THEN Refused("reserved")
        ELSE [checksum |-> bits[3] = 1] @@
             (IF single THEN FieldsOf(Behind(8), d, f, Unknown, limit)
              ELSE IF Len(bits) < 16 THEN Refused("short")
              ELSE IF 10 + wd.exponent > limit THEN Refused("window")
              ELSE FieldsOf(Behind(16), d, f, base + (base \div 8) * wd.mantissa, limit))
=============================================================================
