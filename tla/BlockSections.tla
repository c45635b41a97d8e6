---------------------------- MODULE BlockSections ----------------------------
(***************************************************************************)
(* The two sections of a compressed block as bits: their headers, the      *)
(* table descriptions, and the stream of the sequences, as the encoder     *)
(* writes them (literals_encode.rs, sequences_encode.rs) and the decoder   *)
(* reads them (block.rs).                                                  *)
(***************************************************************************)
EXTENDS HuffmanTables

-----------------------------------------------------------------------------
(* Literals section.                                                       *)

\* How many of the bounds a size reaches.
Steps(size, bounds) == Cardinality({b \in bounds : size >= b})

\* write_basic_header, of type 0 (raw) or 1 (RLE).
write_basic_header(type, size) ==
    CASE size <= 31                 -> LowBits(type, 2) \o <<0>> \o LowBits(size, 5)
      [] size > 31 /\ size <= 4095  -> LowBits(type, 2) \o <<1, 0>> \o LowBits(size, 12)
      [] size > 4095                -> LowBits(type, 2) \o <<1, 1>> \o LowBits(size, 20)

\* compressed_header, of type 2 (a new table) or 3 (the last one).
compressed_header(type, size, c_size, single) ==
    LET step   == Steps(size, {1024, 16384})
        format == IF step = 0 THEN (IF single THEN 0 ELSE 1) ELSE step + 1
        width  == 10 + 4 * step
    IN  LowBits(type, 2) \o LowBits(format, 2) \o LowBits(size, width) \o LowBits(c_size, width)

\* The head of decode_literals: bytes the header takes, and what it says.
literals_header(bits) ==
    LET type   == ValueOf(SubSeq(bits, 1, 2))
        format == ValueOf(SubSeq(bits, 3, 4))
        Field(from, n) == ValueOf(SubSeq(bits, from, from + n - 1))
        width  == CASE format <= 1 -> 10 [] format = 2 -> 14 [] format = 3 -> 18
    IN  IF type <= 1
        THEN [type |-> type, single |-> TRUE, c_size |-> 0] @@
             (CASE format \in {0, 2} -> [bytes |-> 1, size |-> Field(4, 5)]
                [] format = 1        -> [bytes |-> 2, size |-> Field(5, 12)]
                [] format = 3        -> [bytes |-> 3, size |-> Field(5, 20)])
        ELSE [type |-> type, single |-> format = 0, bytes |-> (4 + 2 * width) \div 8,
              size |-> Field(5, width), c_size |-> Field(5 + width, width)]

\* compress_literals once its kind is decided: "raw", "rle", or the table, in a
\* section of its own or as the one the decoder holds.
HuffmanSection(type, payload, size, single) ==
    compressed_header(type, size, Len(payload) \div 8, single) \o payload

HuffmanStreams(ct, single, src) == IF single THEN compress1x(ct, src) ELSE compress4x(ct, src)

literals_section(kind, ct, single, src) ==
    LET Byte(b) == LowBits(b, 8)
    IN  CASE kind = "raw" -> write_basic_header(0, Len(src))
                             \o FlattenSeq([k \in DOMAIN src |-> Byte(src[k])])
          [] kind = "rle" -> write_basic_header(1, Len(src)) \o Byte(src[1])
          [] kind = "huffman"  -> HuffmanSection(2, write_ctable(ct).bits
                                                    \o HuffmanStreams(ct, single, src),
                                                 Len(src), single)
          [] kind = "treeless" -> HuffmanSection(3, HuffmanStreams(ct, single, src),
                                                 Len(src), single)

NoHuffman == <<>>

BLOCK_SIZE_MAX == 131072

\* decode_literals, of a header h and what follows it; held is the decoder's table
\* from earlier blocks.
PlainLiterals(held, h, payload) ==
    [kind |-> "symbols", bytes |-> h.bytes + Len(payload) \div 8, table |-> held,
     out |-> [k \in 1 .. h.size |-> ValueOf(BytesAt(payload, IF h.type = 0 THEN k - 1 ELSE 0, 1))]]

Decoded(read, table, bytes) ==
    IF read.kind = "error" THEN Failed
    ELSE [kind |-> "symbols", bytes |-> bytes, table |-> table, out |-> read.out]

HuffmanLiterals(table, h, streams, bytes) ==
    IF table = NoHuffman THEN Failed
    ELSE Decoded(IF h.single THEN decode_stream(table, streams, h.size)
                 ELSE decode_four_streams(table, streams, h.size), table, bytes)

FreshLiterals(fresh, h, payload) ==
    IF fresh.kind = "error" THEN Failed
    ELSE HuffmanLiterals(fresh.table, h, SubSeq(payload, 8 * fresh.bytes + 1, Len(payload)),
                         h.bytes + h.c_size)

LiteralsBehind(held, h, bits) ==
    LET c_size  == CASE h.type = 0 -> h.size [] h.type = 1 -> 1 [] h.type >= 2 -> h.c_size
        payload == BytesAt(bits, h.bytes, c_size)
    IN  IF Len(bits) < 8 * (h.bytes + c_size) \/ h.size > BLOCK_SIZE_MAX THEN Failed
        ELSE CASE h.type <= 1 -> PlainLiterals(held, h, payload)
               [] h.type = 2  -> FreshLiterals(read_table(payload), h, payload)
               [] h.type = 3  -> HuffmanLiterals(held, h, payload, h.bytes + c_size)

decode_literals_section(held, bits) == LiteralsBehind(held, literals_header(bits), bits)

-----------------------------------------------------------------------------
(* The number of sequences.                                                *)

LONG_NB_SEQ == 32512   \* 0x7F00

write_nb_seq(n) ==
    CASE n < 128                      -> LowBits(n, 8)
      [] n >= 128 /\ n < LONG_NB_SEQ  -> LowBits(n \div 256 + 128, 8) \o LowBits(n, 8)
      [] n >= LONG_NB_SEQ             -> LowBits(255, 8) \o LowBits(n - LONG_NB_SEQ, 16)

read_nb_seq(bits) ==
    LET Byte(k) == ValueOf(BytesAt(bits, k, 1))
    IN  CASE Byte(0) < 128 -> [nb_seq |-> Byte(0), bytes |-> 1]
          [] Byte(0) >= 128 /\ Byte(0) < 255 -> [nb_seq |-> (Byte(0) - 128) * 256 + Byte(1), bytes |-> 2]
          [] Byte(0) = 255 -> [nb_seq |-> Byte(1) + 256 * Byte(2) + LONG_NB_SEQ, bytes |-> 3]

-----------------------------------------------------------------------------
(* Codes.  Tables are sequences, entry i that of code i - 1.               *)

LL_BITS == <<0, 0, 0, 0, 0, 0, 0, 0, 0, 0, 0, 0, 0, 0, 0, 0,
             1, 1, 1, 1, 2, 2, 3, 3, 4, 6, 7, 8, 9, 10, 11, 12, 13, 14, 15, 16>>
LL_BASE == <<0, 1, 2, 3, 4, 5, 6, 7, 8, 9, 10, 11, 12, 13, 14, 15,
             16, 18, 20, 22, 24, 28, 32, 40, 48, 64, 128, 256, 512, 1024, 2048, 4096,
             8192, 16384, 32768, 65536>>
ML_BITS == [k \in 1 .. 32 |-> 0]
           \o <<1, 1, 1, 1, 2, 2, 3, 3, 4, 4, 5, 7, 8, 9, 10, 11, 12, 13, 14, 15, 16>>
ML_BASE == [k \in 1 .. 32 |-> k + 2]
           \o <<35, 37, 39, 41, 43, 47, 51, 59, 67, 83, 99, 131, 259, 515, 1027, 2051,
                4099, 8195, 16387, 32771, 65539>>

LL_CODE == <<0, 1, 2, 3, 4, 5, 6, 7, 8, 9, 10, 11, 12, 13, 14, 15,
             16, 16, 17, 17, 18, 18, 19, 19, 20, 20, 20, 20, 21, 21, 21, 21>>
           \o [k \in 1 .. 8 |-> 22] \o [k \in 1 .. 8 |-> 23] \o [k \in 1 .. 16 |-> 24]
ML_CODE == [k \in 1 .. 32 |-> k - 1]
           \o <<32, 32, 33, 33, 34, 34, 35, 35, 36, 36, 36, 36, 37, 37, 37, 37>>
           \o [k \in 1 .. 8 |-> 38] \o [k \in 1 .. 8 |-> 39]
           \o [k \in 1 .. 16 |-> 40] \o [k \in 1 .. 16 |-> 41] \o [k \in 1 .. 32 |-> 42]

ll_code(length)  == IF length > 63 THEN highbit(length) + 19 ELSE LL_CODE[length + 1]
ml_code(ml_base) == IF ml_base > 127 THEN highbit(ml_base) + 36 ELSE ML_CODE[ml_base + 1]

\* The codes of one sequence: its lengths as the store holds them, in 16 bits,
\* long the one that lost its 17th.
codes_of(s, long) ==
    [ll |-> IF long = "literal" THEN 35 ELSE ll_code(s.lit_length),
     of |-> highbit(s.off_base),
     ml |-> IF long = "match" THEN 52 ELSE ml_code(s.ml_base)]

-----------------------------------------------------------------------------
(* The tables of a block.                                                  *)

AsNorm(s) == [k \in 0 .. Len(s) - 1 |-> s[k + 1]]

SPEC == [
    ll |-> [norm |-> AsNorm(<<4, 3, 2, 2, 2, 2, 2, 2, 2, 2, 2, 2, 2, 1, 1, 1, 2, 2, 2, 2, 2, 2,
                              2, 2, 2, 3, 2, 1, 1, 1, 1, 1, -1, -1, -1, -1>>),
            log |-> 6, max_symbol |-> 35, max_log |-> 9],
    of |-> [norm |-> AsNorm(<<1, 1, 1, 1, 1, 1, 2, 2, 2, 1, 1, 1, 1, 1, 1, 1, 1, 1, 1, 1, 1, 1,
                              1, 1, -1, -1, -1, -1, -1>>),
            log |-> 5, max_symbol |-> 31, max_log |-> 8],
    ml |-> [norm |-> AsNorm(<<1, 4, 3, 2, 2, 2, 2, 2, 2>> \o [k \in 1 .. 37 |-> 1]
                            \o <<-1, -1, -1, -1, -1, -1, -1>>),
            log |-> 6, max_symbol |-> 52, max_log |-> 9]]

DefaultEncoder == Tabulated([slot \in DOMAIN SPEC |-> build_ctable(SPEC[slot].norm, SPEC[slot].log)])
DefaultDecoder == Tabulated([slot \in DOMAIN SPEC |-> build_dtable(SPEC[slot].norm, SPEC[slot].log)])

LOW_PROB_MIN == 2048   \* use_low_prob_count

DescribedTable(norm, log, header) ==
    IF header.kind # "bits" THEN Failed
    ELSE [kind |-> "table", ct |-> build_ctable(norm, log), bits |-> header.bits]

NewTable(norm, log) ==
    IF norm.kind # "table" THEN Failed
    ELSE DescribedTable(norm.norm, log, write_ncount(norm.norm, log))

CountedTable(count, total, log) ==
    NewTable(normalize_count(count, total, log, IF total >= LOW_PROB_MIN THEN -1 ELSE 1), log)

\* build_seq_ctable: the table and its description.  Of a new table the last code
\* is counted once less, for it needs no transition.
build_seq_ctable(type, slot, codes) ==
    LET last   == codes[Len(codes)]
        full   == Tabulated([c \in 0 .. Max({codes[k] : k \in DOMAIN codes}) |->
                                Cardinality({k \in DOMAIN codes : codes[k] = c})])
        count  == IF full[last] > 1 THEN [full EXCEPT ![last] = @ - 1] ELSE full
    IN  CASE type = "basic" -> [kind |-> "table", ct |-> DefaultEncoder[slot], bits |-> <<>>]
          [] type = "rle"   -> [kind |-> "table", ct |-> RleEncoder(last), bits |-> LowBits(last, 8)]
          [] type = "compressed" ->
                CountedTable(count, TotalOf(count, DOMAIN count),
                             optimal_table_log(SPEC[slot].max_log, Len(codes), Max(DOMAIN full)))

\* Which types a slot may take; costs decide among them.
TypesFor(slot, codes) ==
    LET used == {codes[k] : k \in DOMAIN codes}
    IN  (IF used \subseteq DOMAIN SPEC[slot].norm THEN {"basic"} ELSE {})
        \cup IF Cardinality(used) = 1 THEN {"rle"} ELSE {"compressed"}

ModeOf(type) == CASE type = "basic" -> 0 [] type = "rle" -> 1 [] type = "compressed" -> 2

\* build_sequence_table: the table, and how many bytes it took.
TableRead(nc) ==
    IF nc.kind = "error" THEN Failed
    ELSE [kind |-> "table", dt |-> build_dtable(nc.norm, nc.table_log), bytes |-> nc.bytes]

build_sequence_table(mode, slot, bits) ==
    LET symbol == ValueOf(BytesAt(bits, 0, 1))
    IN  CASE mode = 0 -> [kind |-> "table", dt |-> DefaultDecoder[slot], bytes |-> 0]
          [] mode = 1 -> IF bits = <<>> THEN Failed
                         ELSE IF symbol > SPEC[slot].max_symbol THEN Failed
                         ELSE [kind |-> "table", dt |-> RleDecoder(symbol), bytes |-> 1]
          [] mode = 2 -> TableRead(read_ncount(bits, SPEC[slot].max_symbol, SPEC[slot].max_log))
          [] mode = 3 -> Failed   \* a table of an earlier block; here there is none

-----------------------------------------------------------------------------
(* The stream of the sequences.                                            *)

\* Mutant of FlushesBefore: the states' bits are forgotten.
FlushesBefore_Late(bits) == bits >= 57

\* After the states' bits, before those of the lengths.
FlushesBefore(bits) == bits >= 31

\* After those of the lengths, before a long offset's.
FlushesBetween(bits) == bits > 56

\* encode_sequences: from the last to the first.  Each is its states' bits, then
\* its extra bits, the low ones of the values themselves.
encode_sequences(ct, codes, seqs) ==
    LET n    == Len(seqs)
        Lengths(w, k) == add_bits(add_bits(w, seqs[k].lit_length, LL_BITS[codes[k].ll + 1]),
                                  seqs[k].ml_base, ML_BITS[codes[k].ml + 1])
        Offset(w, k)  == flush_bits(add_bits(w, seqs[k].off_base, codes[k].of))
        ExtraBits(k)  == codes[k].of + LL_BITS[codes[k].ll + 1] + ML_BITS[codes[k].ml + 1]
        Flushed(w, flush) == IF flush THEN flush_bits(w) ELSE w
        Step(acc, k) ==
            LET of == encode_symbol(acc.writer, ct.of, acc.state.of, codes[k].of)
                ml == encode_symbol(of.writer, ct.ml, acc.state.ml, codes[k].ml)
                ll == encode_symbol(ml.writer, ct.ll, acc.state.ll, codes[k].ll)
                lengths == Lengths(Flushed(ll.writer, FlushesBefore(ExtraBits(k))), k)
            IN  [writer |-> Offset(Flushed(lengths, FlushesBetween(ExtraBits(k))), k),
                 state |-> [of |-> of.state, ml |-> ml.state, ll |-> ll.state]]
        end == FoldLeft(Step, [writer |-> Offset(Lengths(NewWriter, n), n),
                               state |-> [slot \in DOMAIN ct |->
                                            init_cstate2(ct[slot], codes[n][slot])]],
                        [k \in 1 .. n - 1 |-> n - k])
        ml == flush_cstate(end.writer, ct.ml, end.state.ml)
        of == flush_cstate(ml, ct.of, end.state.of)
    IN  close(flush_cstate(of, ct.ll, end.state.ll))

\* The decoding pass of decode_and_execute_sequences: value, lengths, and whether
\* the stream was used up exactly.
decode_sequences(dt, payload, nb_seq) ==
    LET ll == ReadState(dt.ll, ReverseReader(payload))
        of == ReadState(dt.of, ll.reader)
        ml == ReadState(dt.ml, of.reader)
        Step(acc, k) ==
            LET Code(slot) == SymbolAt(dt[slot], acc.state[slot])
                r1 == consume(acc.reader, Code("of"))
                r2 == consume(r1, ML_BITS[Code("ml") + 1])
                r3 == consume(r2, LL_BITS[Code("ll") + 1])
                s  == [of_value  |-> 2^Code("of") + peek(acc.reader, Code("of")),
                       match_len |-> ML_BASE[Code("ml") + 1] + peek(r1, ML_BITS[Code("ml") + 1]),
                       lit_len   |-> LL_BASE[Code("ll") + 1] + peek(r2, LL_BITS[Code("ll") + 1])]
                n1 == NextState(dt.ll, acc.state.ll, r3)
                n2 == NextState(dt.ml, acc.state.ml, n1.reader)
                n3 == NextState(dt.of, acc.state.of, n2.reader)
            IN  IF k = nb_seq
                THEN [acc EXCEPT !.out = Append(@, s), !.reader = r3]
                ELSE [out |-> Append(acc.out, s), reader |-> n3.reader,
                      state |-> [ll |-> n1.state, ml |-> n2.state, of |-> n3.state]]
        end == FoldLeft(Step, [out |-> <<>>, reader |-> ml.reader,
                               state |-> [ll |-> ll.state, of |-> of.state, ml |-> ml.state]],
                        [k \in 1 .. nb_seq |-> k])
    IN  IF NoMark(payload) THEN Failed
        ELSE IF ~finished_exactly(end.reader) THEN Failed
        ELSE [kind |-> "sequences", seqs |-> end.out]

-----------------------------------------------------------------------------
(* Sequences section: count, modes, descriptions, stream.                  *)

SectionOf(built, types, codes, seqs) ==
    LET stream == encode_sequences(Tabulated([slot \in DOMAIN SPEC |-> built[slot].ct]), codes, seqs)
        modes  == LowBits(0, 2) \o LowBits(ModeOf(types.ml), 2) \o LowBits(ModeOf(types.of), 2)
                  \o LowBits(ModeOf(types.ll), 2)
    IN  IF \E slot \in DOMAIN SPEC : built[slot].kind = "error" THEN Failed
        ELSE [kind |-> "section", lost |-> stream.lost,
              bits |-> write_nb_seq(Len(seqs)) \o modes \o built.ll.bits \o built.of.bits
                       \o built.ml.bits \o stream.payload]

sequences_section(types, codes, seqs) ==
    LET CodesAt(slot) == [k \in DOMAIN codes |-> codes[k][slot]]
    IN  IF seqs = <<>> THEN [kind |-> "section", bits |-> write_nb_seq(0), lost |-> FALSE]
        ELSE SectionOf(Tabulated([slot \in DOMAIN SPEC |->
                            build_seq_ctable(types[slot], slot, CodesAt(slot))]),
                       types, codes, seqs)

\* The tables one after the other: known are those read, bits what is left.
WithTable(read, known, slot, bits) ==
    IF read.kind = "error" THEN Failed
    ELSE [kind |-> "tables", dt |-> (slot :> read.dt) @@ known,
          bits |-> SubSeq(bits, 8 * read.bytes + 1, Len(bits))]

AndTable(mode, slot, tables) ==
    IF tables.kind = "error" THEN Failed
    ELSE WithTable(build_sequence_table(mode, slot, tables.bits), tables.dt, slot, tables.bits)

SequencesWith(tables, nb_seq) ==
    IF tables.kind = "error" THEN Failed ELSE decode_sequences(tables.dt, tables.bits, nb_seq)

decode_sequences_section(bits) ==
    LET h == read_nb_seq(bits)
        modes == BytesAt(bits, h.bytes, 1)
        Mode(at) == ValueOf(SubSeq(modes, at, at + 1))
        Start == [kind |-> "tables", dt |-> <<>>,
                  bits |-> SubSeq(bits, 8 * (h.bytes + 1) + 1, Len(bits))]
    IN  IF h.nb_seq = 0 THEN IF Len(bits) = 8 * h.bytes THEN [kind |-> "sequences", seqs |-> <<>>]
                             ELSE Failed
        ELSE IF modes = <<>> \/ Mode(1) # 0 THEN Failed
        ELSE SequencesWith(AndTable(Mode(3), "ml", AndTable(Mode(5), "of",
                                    AndTable(Mode(7), "ll", Start))), h.nb_seq)
=============================================================================
