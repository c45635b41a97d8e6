--------------------------- MODULE DictionaryTables ---------------------------
(***************************************************************************)
(* A trained dictionary behind its magic number and id: four tables, three *)
(* offsets, content.  The decoder (parse_formatted, dictionary.rs) and the *)
(* encoder (load_c_entropy, dict_encode.rs) each read it for themselves.   *)
(***************************************************************************)
EXTENDS BlockSections

CONSTANTS
    RepBytes,       \* of an offset in a dictionary: 4
    DictBlockMax,   \* bytes of the first block, in which its tables are trusted: 128 KiB
    MaxLiteral      \* 255

Behind(bits, bytes) == SubSeq(bits, 8 * bytes + 1, Len(bits))

\* The distribution of a slot, read at pos, added to those read before.
WithDistribution(nc, slot, read) ==
    IF nc.kind = "error" THEN Failed
    ELSE [kind |-> "read", nc |-> (slot :> nc) @@ read.nc, pos |-> read.pos + nc.bytes]

AndDistribution(bits, read, slot) ==
    IF read.kind = "error" THEN Failed
    ELSE WithDistribution(read_ncount(Behind(bits, read.pos), SPEC[slot].max_symbol,
                                      SPEC[slot].max_log), slot, read)

\* The distributions from a place on, in the order given.
Distributions(bits, from, order) ==
    FoldLeft(LAMBDA read, slot : AndDistribution(bits, read, slot),
             [kind |-> "read", nc |-> <<>>, pos |-> from], order)

\* The offsets at pos; there must be content for them to reach into.
Rep(bits, pos) == [k \in 1 .. 3 |-> ValueOf(BytesAt(bits, pos + (k - 1) * RepBytes, RepBytes))]

ContentAt(bits, pos) == Len(bits) \div 8 - (pos + 3 * RepBytes)

Accepted(bits, pos) ==
    /\ ContentAt(bits, pos) >= 0
    /\ \A k \in 1 .. 3 : Rep(bits, pos)[k] # 0 /\ Rep(bits, pos)[k] <= ContentAt(bits, pos)

-----------------------------------------------------------------------------
(* Decoder.                                                                *)

DecoderSide(literals, read, bits) ==
    IF read.kind = "error" THEN Failed
    ELSE IF ~Accepted(bits, read.pos) THEN Failed
    ELSE [kind |-> "dictionary", huf |-> literals.table,
          tables |-> [slot \in DOMAIN SPEC |-> build_dtable(read.nc[slot].norm,
                                                            read.nc[slot].table_log)],
          rep |-> Rep(bits, read.pos), content |-> ContentAt(bits, read.pos)]

DecoderFrom(literals, bits) ==
    IF literals.kind = "error" THEN Failed
    ELSE DecoderSide(literals, Distributions(bits, literals.bytes, <<"of", "ml", "ll">>), bits)

parse_formatted(bits) == DecoderFrom(read_table(bits), bits)

-----------------------------------------------------------------------------
(* Encoder.                                                                *)

\* dict_ncount_repeat: a table is used unseen only if it has all codes up to a bound.
dict_ncount_repeat(norm, max_symbol) ==
    IF \A s \in 0 .. max_symbol : s \in DOMAIN norm /\ norm[s] # 0 THEN "valid" ELSE "check"

\* Mutant of offcode_max: the first block's own bytes are forgotten.
offcode_max_ContentOnly(content) == Min({highbit(content), SPEC.of.max_symbol})

\* The code of the farthest offset in the first block.
offcode_max(content) == Min({highbit(content + DictBlockMax), SPEC.of.max_symbol})

\* The table of offsets is built over all codes.
Padded(norm) == [s \in 0 .. SPEC.of.max_symbol |-> IF s \in DOMAIN norm THEN norm[s] ELSE 0]

NormFor(slot, norm) == IF slot = "of" THEN Padded(norm) ELSE norm

MaxFor(slot, content) == IF slot = "of" THEN offcode_max(content) ELSE SPEC[slot].max_symbol

EncoderSide(literals, read, bits) ==
    IF read.kind = "error" THEN Failed
    ELSE IF ~Accepted(bits, read.pos) THEN Failed
    ELSE [kind |-> "dictionary", huf |-> literals.table,
          huf_repeat |-> IF ~literals.has_zero_weights /\ Max(DOMAIN literals.table.nb_bits) = MaxLiteral
                         THEN "valid" ELSE "check",
          tables |-> [slot \in DOMAIN SPEC |->
                        build_ctable(NormFor(slot, read.nc[slot].norm), read.nc[slot].table_log)],
          repeat |-> [slot \in DOMAIN SPEC |->
                        dict_ncount_repeat(read.nc[slot].norm,
                                           MaxFor(slot, ContentAt(bits, read.pos)))],
          norm |-> [slot \in DOMAIN SPEC |-> read.nc[slot].norm],
          rep |-> Rep(bits, read.pos), content |-> ContentAt(bits, read.pos)]

EncoderFrom(literals, bits) ==
    IF literals.kind = "error" THEN Failed
    ELSE EncoderSide(literals, Distributions(bits, literals.bytes, <<"of", "ml", "ll">>), bits)

load_c_entropy(bits) == EncoderFrom(read_ctable(bits), bits)
=============================================================================
