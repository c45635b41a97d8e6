---------------------------- MODULE EntropyTables ----------------------------
(***************************************************************************)
(* The entropy tables an encoder carries from block to block, and how the  *)
(* tables of a block are chosen (sequences_encode.rs, literals_encode.rs,  *)
(* huffman_encode.rs, dict_encode.rs).                                     *)
(*                                                                         *)
(* Of a table only two things matter here: which symbols it can code, and  *)
(* which table it is, for a decoder that holds another one reads garbage.  *)
(* Costs are not computed: each choice which they may decide is open.      *)
(***************************************************************************)
EXTENDS SequenceStore

CONSTANTS
    MAX_OFF,                \* largest offset code of the format
    DEFAULT_MAX_OFF,        \* largest one of the predefined table
    static_fse_nb_seq_max,  \* 1000
    prefer_repeat_max,      \* 1024 literals
    LiteralSymbols          \* the literals' alphabet

Slots == {"ll", "of", "ml"}

\* What a strategy decides here: whether tables are chosen by cost (ZSTD_LAZY
\* and better), whether literals are left alone (negative levels), whether blocks
\* are split after parsing (btopt and better, with a large window).
StrategyKinds ==
    {[by_cost |-> FALSE, plain_literals |-> TRUE,  splitter |-> FALSE],
     [by_cost |-> FALSE, plain_literals |-> FALSE, splitter |-> FALSE],
     [by_cost |-> TRUE,  plain_literals |-> FALSE, splitter |-> FALSE],
     [by_cost |-> TRUE,  plain_literals |-> FALSE, splitter |-> TRUE]}

NoTable == [syms |-> {}, id |-> <<"none">>]
Basic   == [ll |-> [syms |-> 0 .. MAX_LL, id |-> <<"basic">>],
            of |-> [syms |-> 0 .. DEFAULT_MAX_OFF, id |-> <<"basic">>],
            ml |-> [syms |-> 0 .. MAX_ML, id |-> <<"basic">>]]
RleOf(symbol) == [syms |-> {symbol}, id |-> <<"rle">>]

\* FseEntropyState: a table and a repeat status for each slot and for the
\* literals.
FreshState == [s \in Slots \cup {"huf"} |-> [table |-> NoTable, repeat |-> "none"]]

-----------------------------------------------------------------------------
(* A dictionary's tables (load_c_entropy): usable without a look at the    *)
(* block only if they code every symbol up to a bound.                     *)

dict_ncount_repeat(table, max_symbol) ==
    IF 0 .. max_symbol \subseteq table.syms THEN "valid" ELSE "check"

\* The bound for offsets is that of the furthest one in the first block.
offcode_max(dict, block_max) ==
    LET bound == OffCode(dict.content_len + block_max)
    IN  IF bound < MAX_OFF THEN bound ELSE MAX_OFF

load_c_entropy(dict, block_max) ==
    [ll  |-> [table |-> dict.ll, repeat |-> dict_ncount_repeat(dict.ll, MAX_LL)],
     of  |-> [table |-> dict.of,
              repeat |-> dict_ncount_repeat(dict.of, offcode_max(dict, block_max))],
     ml  |-> [table |-> dict.ml, repeat |-> dict_ncount_repeat(dict.ml, MAX_ML)],
     huf |-> [table |-> dict.huf,
              repeat |-> IF dict.huf.syms = LiteralSymbols THEN "valid" ELSE "check"]]

-----------------------------------------------------------------------------
(* Choosing the table of a slot.  A choice is its type, the table used and *)
(* the entry of the candidate state it leaves.                             *)

Choice(type, table, repeat) ==
    [type |-> type, table |-> table, next |-> [table |-> table, repeat |-> repeat]]

DefaultAllowed(slot, codes) == codes \subseteq Basic[slot].syms

\* fse_bit_cost, or "no cost" if the table misses a code.
Reusable(entry, codes) == entry.repeat # "none" /\ codes \subseteq entry.table.syms

UseBasic(slot)       == Choice("basic", Basic[slot], "none")
UseRle(codes)        == Choice("rle", RleOf(CHOOSE c \in codes : TRUE), "none")
UseRepeat(entry)     == Choice("repeat", entry.table, entry.repeat)
UseNew(codes, stamp) == Choice("compressed", [syms |-> codes, id |-> stamp], "check")

\* select_encoding_type and build_seq_ctable; entry is the slot's current one.
select_encoding_type(strategy, slot, entry, codes, nb_seq, stamp) ==
    LET default == DefaultAllowed(slot, codes)
        basic   == IF default THEN {UseBasic(slot)} ELSE {}
    IN  CASE Cardinality(codes) = 1 ->
                IF default /\ nb_seq <= 2 THEN basic ELSE {UseRle(codes)}
          [] Cardinality(codes) > 1 /\ strategy.by_cost ->
                basic \cup {UseNew(codes, stamp)}
                \cup IF Reusable(entry, codes) THEN {UseRepeat(entry)} ELSE {}
          [] Cardinality(codes) > 1 /\ ~strategy.by_cost ->
                IF default /\ entry.repeat = "valid" /\ nb_seq < static_fse_nb_seq_max
                THEN {UseRepeat(entry)}
                ELSE basic \cup {UseNew(codes, stamp)}

\* build_sequences_statistics
build_sequences_statistics(strategy, entropy, coded, stamp) ==
    LET ChoicesFor(slot) ==
            select_encoding_type(strategy, slot, entropy[slot],
                                 {coded[k][slot] : k \in DOMAIN coded},
                                 Len(coded), stamp)
    IN  [ll : ChoicesFor("ll"), of : ChoicesFor("of"), ml : ChoicesFor("ml")]

-----------------------------------------------------------------------------
(* The literals: "plain" is a raw or an RLE section, and keeps the state.  *)

\* huf_compress with what compress_literals makes of it.  At low strategies a
\* few literals are coded with a usable table, or left raw.
compress_literals(strategy, entry, literals, symbols, stamp) ==
    LET plain    == [type |-> "plain", table |-> NoTable, next |-> entry]
        treeless == [type |-> "treeless", table |-> entry.table, next |-> entry]
        huffman  == Choice("huffman", [syms |-> symbols, id |-> stamp], "check")
        valid    == entry.repeat = "valid"
        usable   == valid \/ Reusable(entry, symbols)
        prefer_repeat == ~strategy.by_cost /\ Len(literals) <= prefer_repeat_max
        coded == CASE prefer_repeat /\ valid -> {treeless}
                   [] ~(prefer_repeat /\ valid) /\ Cardinality(symbols) = 1 -> {}
                   [] ~(prefer_repeat /\ valid) /\ Cardinality(symbols) > 1 ->
                        (IF usable THEN {treeless} ELSE {})
                        \cup (IF prefer_repeat /\ usable THEN {} ELSE {huffman})
    IN  {plain} \cup IF strategy.plain_literals \/ literals = <<>> THEN {} ELSE coded

\* entropy_compress_seq_view: the bodies a view may get, each with the state
\* that is the next one if the body is used.  That the block may turn out too
\* large, and get no body, is the caller's alternative.
entropy_compress_seq_view(strategy, entropy, seqs, long, literals, symbols, stamp) ==
    LET coded == seq_to_codes(seqs, long)
        stats == IF seqs = <<>> THEN {<<>>}
                 ELSE build_sequences_statistics(strategy, entropy, coded, stamp)
        Entry(st, slot) == IF seqs = <<>> THEN entropy[slot] ELSE st[slot].next
    IN  {[body |-> [literals |-> literals, symbols |-> symbols, lit |-> lit,
                    coded |-> coded, stats |-> st],
          next |-> [ll |-> Entry(st, "ll"), of |-> Entry(st, "of"),
                    ml |-> Entry(st, "ml"), huf |-> lit.next]] :
            lit \in compress_literals(strategy, entropy.huf, literals, symbols, stamp),
            st \in stats}

-----------------------------------------------------------------------------
(* What a decoder does with a body: its tables after it, and whether it    *)
(* can read it with them.  dec is its table in each slot and its offsets.  *)

TableAfter(dec, body, slot) ==
    IF body.coded = <<>> \/ body.stats[slot].type = "repeat" THEN dec[slot]
    ELSE body.stats[slot].table

HuffmanAfter(dec, body) == IF body.lit.type = "huffman" THEN body.lit.table ELSE dec.huf

TablesAfter(dec, body) ==
    [ll  |-> TableAfter(dec, body, "ll"), of |-> TableAfter(dec, body, "of"),
     ml  |-> TableAfter(dec, body, "ml"), huf |-> HuffmanAfter(dec, body)]

Readable(dec, body) ==
    /\ body.lit.type # "plain" =>
            HuffmanAfter(dec, body) = body.lit.table /\ body.symbols \subseteq body.lit.table.syms
    /\ body.coded # <<>> =>
            \A slot \in Slots :
                /\ TableAfter(dec, body, slot) = body.stats[slot].table
                /\ \A k \in DOMAIN body.coded :
                        body.coded[k][slot] \in body.stats[slot].table.syms
=============================================================================
