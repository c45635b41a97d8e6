---------------------------- MODULE EntropyCoding ----------------------------
(***************************************************************************)
(* The entropy stages of both sides at work: a table is built from a       *)
(* histogram, described, and read back; with it literals and sequences     *)
(* are written and read back.  The encoder keeps its table of literals     *)
(* (huf) from one section to the next, and so does the decoder (held).     *)
(* The decoder also reads descriptions that no encoder wrote.  Encoder and *)
(* decoder both load a dictionary, and a frame's parameters go from one to *)
(* the other in its header.                                                *)
(***************************************************************************)
EXTENDS DictionaryTables, FrameParameters

CONSTANTS
    Histograms,     \* of literals: functions on 0 .. n
    Counts,         \* of codes: [count, log, low_prob]
    SequenceLists,  \* of [seqs, long]: long is the index and side of a long length
    FewestCounted,  \* sequences from which a slot may get a table that it need not have
    Headers,        \* sizes of sections too long to be written out here
    SequenceCounts, \* numbers of sequences, likewise
    Descriptions,   \* of tables: sequences of bits
    Dictionaries,   \* of tables, offsets and content: sequences of bits
    FrameSetups,    \* [path, level, src_size, dict_size, checksum, dict_id]
    WindowLimits,   \* window logs a decoder may be limited to
    LiteralSizes,   \* of sections of literals
    MaxSections     \* sections of literals coded with one table

VARIABLES
    huf,        \* the encoder's table of literals, with its histogram and limit
    fse,        \* its distribution and table of codes
    wire,       \* what is on its way: what it is, of what it was made, its bits
    held,       \* the decoder's table of literals
    result,     \* what the decoder made of the last thing on the wire
    sections    \* sections written

vars == <<huf, fse, wire, held, result, sections>>

None == [kind |-> "none"]

Init ==
    /\ huf = None /\ fse = None /\ wire = None /\ result = None
    /\ held = NoHuffman
    /\ sections = 0

Used(count) == {s \in DOMAIN count : count[s] > 0}

Wire(kind, of, bits) == [kind |-> kind, of |-> of, bits |-> bits]

Sent(kind, of, table) ==
    IF table.kind = "error" THEN [kind |-> "refused"] ELSE Wire(kind, of, table.bits)

-----------------------------------------------------------------------------
(* Literals.                                                               *)

\* The limits huf_optimal_table_log may settle for: its estimate, and what it
\* probes at the strategies that do.
Limits(count) ==
    LET src_size == TotalOf(count, DOMAIN count)
    IN  highbit(Cardinality(Used(count))) + 1 .. HUF_TABLELOG_DEFAULT
        \cup {optimal_table_log_internal(HUF_TABLELOG_DEFAULT, src_size, Max(DOMAIN count), 1)}

BuildHuffman(count, limit) ==
    /\ huf = None /\ fse = None /\ wire = None
    /\ huf' = [kind |-> "table", count |-> count, limit |-> limit,
               ct |-> huf_build_ctable(count, limit)]
    /\ UNCHANGED <<fse, wire, held, result, sections>>

\* The description alone, as a dictionary holds it.
DescribeHuffman ==
    /\ huf # None /\ wire = None
    /\ wire' = Sent("huffman table", huf.ct, write_ctable(huf.ct))
    /\ UNCHANGED <<huf, fse, held, result, sections>>

ReadHuffman ==
    /\ wire.kind = "huffman table"
    /\ result' = [kind |-> "huffman table", decoder |-> read_table(wire.bits),
                  encoder |-> read_ctable(wire.bits)]
    /\ UNCHANGED <<huf, fse, wire, held, sections>>

\* Literals of every symbol the histogram has, the first one often.
Message(count, size) ==
    LET order == huf_sort(count)
        n     == Cardinality(DOMAIN order)
    IN  [k \in 1 .. size |-> order[IF k % 3 = 0 THEN 0 ELSE k % n]]

\* compress_literals: a section with the table, or one that relies on the table
\* sent before it; plain ones may come between.
WriteLiterals(kind, size, single) ==
    /\ huf # None /\ wire = None /\ sections < MaxSections
    /\ kind = "treeless" => held # NoHuffman /\ validate_ctable(huf.ct, huf.count)
    /\ ~single => size >= MIN_FOUR_STREAMS
    /\ LET src == Message(huf.count, size)
           lit == IF kind = "rle" THEN [k \in 1 .. size |-> src[1]] ELSE src
       IN  wire' = Wire("literals", lit, literals_section(kind, huf.ct, single, lit))
    /\ sections' = sections + 1
    /\ UNCHANGED <<huf, fse, held, result>>

ReadLiterals ==
    /\ wire.kind = "literals"
    /\ result' = decode_literals_section(held, wire.bits)
    /\ held' = IF result'.kind = "error" THEN held ELSE result'.table
    /\ UNCHANGED <<huf, fse, wire, sections>>

\* On to the next section.
Received ==
    /\ wire.kind = "literals" /\ result.kind = "symbols"
    /\ wire' = None /\ result' = None
    /\ UNCHANGED <<huf, fse, held, sections>>

-----------------------------------------------------------------------------
(* Codes.                                                                  *)

FseOf(c, norm) ==
    [kind |-> "table", of |-> c, norm |-> norm,
     ct |-> IF norm.kind = "table" THEN build_ctable(norm.norm, c.log) ELSE None]

BuildFse(c) ==
    /\ huf = None /\ fse = None /\ wire = None
    /\ fse' = FseOf(c, normalize_count(c.count, TotalOf(c.count, DOMAIN c.count),
                                       c.log, c.low_prob))
    /\ UNCHANGED <<huf, wire, held, result, sections>>

DescribeFse ==
    /\ fse # None /\ wire = None
    /\ fse.norm.kind = "table"
    /\ wire' = Sent("fse table", fse.norm.norm, write_ncount(fse.norm.norm, fse.of.log))
    /\ UNCHANGED <<huf, fse, held, result, sections>>

ReadFse ==
    /\ wire.kind = "fse table"
    /\ result' = [kind |-> "fse table",
                  ncount |-> read_ncount(wire.bits, Max(DOMAIN wire.of), FSE_MAX_TABLELOG)]
    /\ UNCHANGED <<huf, fse, wire, held, sections>>

-----------------------------------------------------------------------------
(* Sequences, headers, and descriptions from elsewhere.                    *)

CodesOfList(list) ==
    Tabulated([k \in DOMAIN list.seqs |->
                codes_of(list.seqs[k], IF k = list.long.at THEN list.long.side ELSE "none")])

\* What the decoder is to get: the values behind the codes.
Meant(list) ==
    LET Long(k, side) == IF list.long = [at |-> k, side |-> side] THEN 65536 ELSE 0
    IN  [k \in DOMAIN list.seqs |->
            [of_value  |-> list.seqs[k].off_base,
             match_len |-> list.seqs[k].ml_base + 3 + Long(k, "match"),
             lit_len   |-> list.seqs[k].lit_length + Long(k, "literal")]]

SentSequences(meant, section) ==
    IF section.kind = "error" THEN [kind |-> "refused"]
    ELSE Wire("sequences", meant, section.bits) @@ [lost |-> section.lost]

WriteSequences(list, types) ==
    /\ huf = None /\ fse = None /\ wire = None
    /\ LET codes == CodesOfList(list)
       IN  /\ \A slot \in DOMAIN SPEC :
                LET allowed == TypesFor(slot, [k \in DOMAIN codes |-> codes[k][slot]])
                IN  /\ types[slot] \in IF codes = <<>> THEN {"basic"} ELSE allowed
                    /\ types[slot] = "compressed" =>
                            Len(codes) >= FewestCounted \/ "basic" \notin allowed
           /\ wire' = SentSequences(Meant(list), sequences_section(types, codes, list.seqs))
    /\ UNCHANGED <<huf, fse, held, result, sections>>

ReadSequences ==
    /\ wire.kind = "sequences"
    /\ result' = decode_sequences_section(wire.bits)
    /\ UNCHANGED <<huf, fse, wire, held, sections>>

WriteHeader(h) ==
    /\ huf = None /\ fse = None /\ wire = None
    /\ wire' = Wire("header", h,
                    IF h.type <= 1 THEN write_basic_header(h.type, h.size)
                    ELSE compressed_header(h.type, h.size, h.c_size, h.single))
    /\ UNCHANGED <<huf, fse, held, result, sections>>

ReadHeader ==
    /\ wire.kind = "header"
    /\ result' = [kind |-> "header", head |-> literals_header(wire.bits)]
    /\ UNCHANGED <<huf, fse, wire, held, sections>>

WriteCount(n) ==
    /\ huf = None /\ fse = None /\ wire = None
    /\ wire' = Wire("count", n, write_nb_seq(n))
    /\ UNCHANGED <<huf, fse, held, result, sections>>

ReadCount ==
    /\ wire.kind = "count"
    /\ result' = [kind |-> "count"] @@ read_nb_seq(wire.bits)
    /\ UNCHANGED <<huf, fse, wire, held, sections>>

ReadForeign(bits) ==
    /\ huf = None /\ fse = None /\ wire = None
    /\ wire' = Wire("foreign", <<>>, bits)
    /\ result' = [kind |-> "foreign",
                  ncount |-> read_ncount(bits, SPEC.of.max_symbol, SPEC.of.max_log),
                  huffman |-> read_table(bits)]
    /\ UNCHANGED <<huf, fse, held, sections>>

\* A dictionary is loaded on both sides.
LoadDictionary(bits) ==
    /\ huf = None /\ fse = None /\ wire = None
    /\ wire' = Wire("dictionary", <<>>, bits)
    /\ result' = [kind |-> "dictionary",
                  decoder |-> parse_formatted(bits), encoder |-> load_c_entropy(bits)]
    /\ UNCHANGED <<huf, fse, held, sections>>

WriteFrameHeader(f) ==
    /\ huf = None /\ fse = None /\ wire = None
    /\ Applies(f.path, f.level, f.src_size, f.dict_size)
    /\ LET cp == FrameCParams(f.path, f.level, f.src_size, f.dict_size)
       IN  wire' = Wire("frame header", [cp |-> cp] @@ f,
                        write_frame_header(cp.window_log, f.src_size, f.checksum, f.dict_id))
    /\ UNCHANGED <<huf, fse, held, result, sections>>

\* So much of it as has arrived.
ReadFrameHeader(limit, arrived) ==
    /\ wire.kind = "frame header" /\ result = None
    /\ result' = [kind |-> "frame header", limit |-> limit, arrived |-> arrived,
                  head |-> parse(SubSeq(wire.bits, 1, arrived), limit)]
    /\ UNCHANGED <<huf, fse, wire, held, sections>>

\* Bits of the header that may have arrived.
Arrivals == IF wire.kind = "frame header" THEN 0 .. Len(wire.bits) ELSE {}

-----------------------------------------------------------------------------

Next ==
    \/ \E bits \in Descriptions : ReadForeign(bits)
    \/ \E bits \in Dictionaries : LoadDictionary(bits)
    \/ \E f \in FrameSetups : WriteFrameHeader(f)
    \/ \E limit \in WindowLimits :
         \E arrived \in Arrivals : ReadFrameHeader(limit, arrived)
    \/ \E c \in Counts : BuildFse(c)
    \/ DescribeFse
    \/ ReadFse
    \/ \E list \in SequenceLists :
         \E types \in [DOMAIN SPEC -> {"basic", "rle", "compressed"}] : WriteSequences(list, types)
    \/ ReadSequences
    \/ \E h \in Headers : WriteHeader(h)
    \/ ReadHeader
    \/ \E n \in SequenceCounts : WriteCount(n)
    \/ ReadCount
    \/ \E count \in Histograms : \E limit \in Limits(count) : BuildHuffman(count, limit)
    \/ DescribeHuffman
    \/ ReadHuffman
    \/ \E kind \in {"raw", "rle", "huffman", "treeless"} :
         \E size \in LiteralSizes : \E single \in BOOLEAN : WriteLiterals(kind, size, single)
    \/ ReadLiterals
    \/ Received

Spec == Init /\ [][Next]_vars

-----------------------------------------------------------------------------
(* Properties.                                                             *)

\* The units of 2^-table_log which a symbol's code word takes.
Takes(ct, s) == IF ct.nb_bits[s] = 0 THEN {}
                ELSE LET width == 2^(ct.table_log - ct.nb_bits[s])
                     IN  ct.code[s] * width .. (ct.code[s] + 1) * width - 1

\* Bits a message with this histogram takes.
CostOf(count, nb_bits) == MapThenSumSet(LAMBDA s : count[s] * nb_bits[s], Used(count))

PrefixLengths(symbols) ==
    LET longest == Cardinality(symbols) - 1
    IN  {nb_bits \in [symbols -> 1 .. longest] :
            MapThenSumSet(LAMBDA s : 2^(longest - nb_bits[s]), symbols) <= 2^longest}

\* No prefix code is shorter than the tree huf_build_tree makes, as long as the
\* limit does not bite (up to four symbols, where all codes can be listed).
ShortestIfUnlimited ==
    huf # None =>
        LET symbols == Used(huf.count)
        IN  Cardinality(symbols) \in 2 .. 4 /\ huf.limit >= Cardinality(symbols) - 1 =>
                \A nb_bits \in PrefixLengths(symbols) :
                    CostOf(huf.count, huf.ct.nb_bits) <= CostOf(huf.count, nb_bits)

\* A code of literals is a complete prefix code within its limit in which a more
\* frequent symbol is never the longer one, and a shortest one if unlimited;
\* build_ctable, and above all what huf_set_max_height cuts and repays, must leave
\* no code word out or given twice.
HuffmanCodeIsComplete ==
    /\ ShortestIfUnlimited
    /\ huf # None =>
        LET ct == huf.ct
            symbols == Used(huf.count)
        IN  /\ ct.table_log <= huf.limit
            /\ \A s \in DOMAIN ct.nb_bits : ct.nb_bits[s] > 0 <=> s \in symbols
            /\ UNION {Takes(ct, s) : s \in symbols} = 0 .. 2^ct.table_log - 1
            /\ \A s, t \in symbols : s # t => Takes(ct, s) \cap Takes(ct, t) = {}
            /\ \A s, t \in symbols :
                    huf.count[s] > huf.count[t] => ct.nb_bits[s] <= ct.nb_bits[t]

\* The decoder's table gives for the bits of each code word its symbol.
Decodes(table, ct) ==
    /\ table.table_log = ct.table_log
    /\ \A s \in DOMAIN ct.nb_bits : \A u \in Takes(ct, s) :
            table.entries[u] = [symbol |-> s, nb_bits |-> ct.nb_bits[s]]

\* A description brings the table it was made of to the other side, and ends where
\* the reader thinks it does: the Huffman table to the decoder (read_table) and to
\* an encoder that loads a dictionary (read_ctable), the distribution (read_ncount).
\* The distribution fills its table, and has room for each symbol that occurs.
TablesComeBack ==
    /\ result.kind = "huffman table" =>
            /\ result.decoder.kind = "table" /\ result.encoder.kind = "table"
            /\ Decodes(result.decoder.table, wire.of)
            /\ result.encoder.table = wire.of
            /\ 8 * result.decoder.bytes = Len(wire.bits)
            /\ 8 * result.encoder.bytes = Len(wire.bits)
    /\ fse # None =>
            /\ fse.norm.kind \in {"table", "rle"}
            /\ fse.norm.kind = "table" =>
                    \A s \in DOMAIN fse.of.count : fse.of.count[s] > 0 <=> fse.norm.norm[s] # 0
    /\ wire.kind # "refused"
    /\ result.kind = "fse table" =>
            /\ result.ncount.kind = "ncount"
            /\ result.ncount.norm = wire.of
            /\ 8 * result.ncount.bytes = Len(wire.bits)

Inverts(ct, dt, norm, log) ==
    LET size == 2^log
    IN  \A s \in {t \in DOMAIN norm : norm[t] # 0} :
            /\ dt.entries[init_cstate2(ct, s) - size].symbol = s
            /\ \A x \in size .. 2 * size - 1 :
                    LET e     == encode_symbol(NewWriter, ct, x, s)
                        entry == dt.entries[e.state - size]
                    IN  entry = [symbol |-> s, nb_bits |-> Len(e.writer.bits),
                                 base |-> x - size - ValueOf(e.writer.bits)]

\* From any state, coding a symbol leads to a state at which the decoder finds this
\* symbol, and from which the bits shed lead it back (encode_symbol, FseState): the
\* encoder's table and the decoder's are built by different code from the spread.
StatesInvert ==
    fse # None /\ fse.norm.kind = "table" =>
        Inverts(fse.ct, build_dtable(fse.norm.norm, fse.of.log), fse.norm.norm, fse.of.log)

\* The codes of repeats and of all offsets in a block that starts behind the content.
\* An offset is coded as three more, and the last match starts three before the end.
FirstOffCodes(content) == {highbit(off_base) : off_base \in 1 .. content + DictBlockMax}

\* Encoder and decoder, which parse a dictionary on their own, take the same ones,
\* and then start a frame in step: same content, same offsets, tables that invert
\* each other although the encoder pads one.  A table the encoder uses without
\* a look at the block has every code the first block can need (load_c_entropy).
DictionaryServesBothSides ==
    result.kind = "dictionary" =>
        LET e == result.encoder
            d == result.decoder
        IN  /\ e.kind = d.kind
            /\ e.kind = "dictionary" =>
                    /\ e.rep = d.rep /\ e.content = d.content
                    /\ Decodes(d.huf, e.huf)
                    /\ e.huf_repeat = "valid" => \A b \in 0 .. MaxLiteral : e.huf.nb_bits[b] > 0
                    /\ \A slot \in DOMAIN SPEC :
                            /\ e.tables[slot].log = d.tables[slot].log
                            /\ Inverts(e.tables[slot], d.tables[slot], e.norm[slot],
                                       d.tables[slot].log)
                    /\ e.repeat.of = "valid" =>
                            \A c \in FirstOffCodes(e.content) :
                                c \in DOMAIN e.norm.of /\ e.norm.of[c] # 0

\* A header tells the decoder what the frame is: cut off, it is refused; if the
\* decoder's limit allows the window, it gets the size, and a window that is the
\* one searched or, if that is less, all of the content.
FrameHeaderComesBack ==
    result.kind = "frame header" =>
        LET f    == wire.of
            head == result.head
            needed == IF f.src_size = Unknown THEN 2^f.cp.window_log
                      ELSE Least(f.src_size, 2^f.cp.window_log)
        IN  IF result.arrived < Len(wire.bits) THEN head.kind = "error"
            ELSE IF needed > 2^Least(result.limit, WINDOWLOG_MAX)
            THEN head = Refused("window") @@ [checksum |-> f.checksum]
            ELSE /\ head.kind = "header" /\ head.left = 0
                 /\ head.content_size = f.src_size /\ head.window_size = needed
                 /\ head.dict_id = f.dict_id /\ head.checksum = f.checksum

\* However small the input, the tables that the parameters ask for can be hashed
\* into: a row has a bit left beside its position, a tree two slots for an index.
TablesCanBeIndexed ==
    wire.kind = "frame header" =>
        LET cp      == wire.of.cp
            row_log == IF cp.search_log < 4 THEN 4 ELSE Least(cp.search_log, 6)
        IN  /\ cp.window_log \in WINDOWLOG_ABSOLUTEMIN .. WINDOWLOG_MAX
            /\ cp.strategy \in RowMatchers => cp.hash_log > row_log
            /\ cp.chain_log > 1 /\ cp.hash_log > 1

\* What is written is what is read, to the last bit: literals plain, with a table and
\* with the table of an earlier section; sequences with any tables; the fields of
\* a header, of a section or of the frame, at every size at which its format changes.
\* The register of the writer of sequences never runs over (FlushesBetween).
SectionsComeBack ==
    /\ FrameHeaderComesBack /\ TablesCanBeIndexed
    /\ wire.kind = "literals" /\ result # None =>
            /\ result.kind = "symbols" /\ result.out = wire.of
            /\ 8 * result.bytes = Len(wire.bits)
    /\ wire.kind = "sequences" =>
            /\ ~wire.lost
            /\ result # None => result.kind = "sequences" /\ result.seqs = wire.of
    /\ result.kind = "header" =>
            /\ 8 * result.head.bytes = Len(wire.bits)
            /\ result.head.type = wire.of.type /\ result.head.size = wire.of.size
            /\ wire.of.type >= 2 => /\ result.head.c_size = wire.of.c_size
                                    /\ result.head.single = wire.of.single
    /\ result.kind = "count" =>
            result.nb_seq = wire.of /\ 8 * result.bytes = Len(wire.bits)

\* Whatever a description says, what the decoder accepts is a table it can decode with:
\* every state and every entry has a symbol of the alphabet, and leads to states of
\* the table; none of it was read from behind the end.
ForeignTablesAreComplete ==
    result.kind = "foreign" =>
        /\ result.ncount.kind = "ncount" =>
                LET nc == result.ncount
                    dt == build_dtable(nc.norm, nc.table_log)
                IN  /\ 8 * nc.bytes <= Len(wire.bits)
                    /\ Max(DOMAIN nc.norm) <= SPEC.of.max_symbol
                    /\ SlotsOf(nc.norm) = 2^nc.table_log
                    /\ Len(SpreadOrder(nc.table_log, High(nc.norm, nc.table_log)))
                            = High(nc.norm, nc.table_log) + 1
                    /\ \A u \in DOMAIN dt.entries :
                            LET e == dt.entries[u]
                            IN  e.base >= 0 /\ e.base + 2^e.nb_bits <= 2^nc.table_log
        /\ result.huffman.kind = "table" =>
                LET table == result.huffman.table
                IN  /\ 8 * result.huffman.bytes <= Len(wire.bits)
                    /\ \A u \in DOMAIN table.entries :
                            table.entries[u].nb_bits \in 1 .. table.table_log
                    /\ Decodes(table, read_ctable(wire.bits).table)
=============================================================================
