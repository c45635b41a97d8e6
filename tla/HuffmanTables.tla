---------------------------- MODULE HuffmanTables ----------------------------
(***************************************************************************)
(* Huffman coding of literals: from a histogram to a code of limited       *)
(* length, its description, and the streams written and read with it       *)
(* (huffman_encode.rs, huffman.rs).                                        *)
(*                                                                         *)
(* Symbols are sorted by falling count; their places in that order are     *)
(* positions 0, 1, ... as in the code's node array.  Equal counts stand in *)
(* symbol order, as they do there below the counts that share a bucket.    *)
(***************************************************************************)
EXTENDS FseTables

CONSTANTS
    HUF_TABLELOG_MAX,       \* 12
    HUF_TABLELOG_DEFAULT,   \* 11
    WEIGHT_FSE_MAX_LOG,     \* 6
    DirectMark              \* 128: from there a description is a direct one

NO_SYMBOL == -1

-----------------------------------------------------------------------------
(* The tree.                                                               *)

\* huf_sort, without the symbols that do not occur.
huf_sort(count) ==
    LET used == {s \in DOMAIN count : count[s] > 0}
        Before(s) == {t \in used : count[t] > count[s] \/ (count[t] = count[s] /\ t < s)}
    IN  [p \in 0 .. Cardinality(used) - 1 |->
            CHOOSE s \in used : Cardinality(Before(s)) = p]

\* One of the two cheapest nodes: the next leaf if it is cheaper than the oldest
\* inner node.
TakeNode(f, count) ==
    IF f.low >= 0 /\ (f.inner = <<>> \/ count[f.low] < Head(f.inner).count)
    THEN [node |-> [count |-> count[f.low], leaves |-> {f.low}], rest |-> [f EXCEPT !.low = @ - 1]]
    ELSE [node |-> Head(f.inner), rest |-> [f EXCEPT !.inner = Tail(@)]]

Merge(f, count) ==
    LET one == TakeNode(f, count)
        two == TakeNode(one.rest, count)
        leaves == one.node.leaves \cup two.node.leaves
    IN  [two.rest EXCEPT
            !.inner = Append(@, [count |-> one.node.count + two.node.count, leaves |-> leaves]),
            !.nb_bits = [p \in DOMAIN @ |-> @[p] + IF p \in leaves THEN 1 ELSE 0]]

\* huf_build_tree: the depth of each position; count is by position here.
huf_build_tree(count) ==
    LET last == Max(DOMAIN count)
    IN  FoldLeft(LAMBDA f, k : Merge(f, count),
                 [low |-> last, inner |-> <<>>, nb_bits |-> [p \in DOMAIN count |-> 0]],
                 [k \in 1 .. last |-> k]).nb_bits

-----------------------------------------------------------------------------
(* huf_set_max_height.  What is too deep is cut off, and the code words    *)
(* this takes are paid for by lengthening others.  rank_last[d] is the     *)
(* last position that is d shorter than the limit.                         *)

Deepened(t, target) ==
    LET rank    == t.rank_last
        Stop(d) == /\ rank[d] # NO_SYMBOL
                   /\ \/ rank[d - 1] = NO_SYMBOL
                      \/ t.count[rank[d]] <= 2 * t.count[rank[d - 1]]
        wanted  == Max({1} \cup {d \in 2 .. highbit(t.cost) + 1 : Stop(d)})
        d       == Min({k \in wanted .. HUF_TABLELOG_MAX : rank[k] # NO_SYMBOL})
        longer  == [t.nb_bits EXCEPT ![rank[d]] = @ + 1]
        next    == rank[d] - 1
    IN  [t EXCEPT
            !.cost = @ - 2^(d - 1),
            !.nb_bits = longer,
            !.rank_last = [@ EXCEPT
                ![d - 1] = IF @ = NO_SYMBOL THEN rank[d] ELSE @,
                ![d] = IF next >= 0 /\ longer[next] = target - d THEN next ELSE NO_SYMBOL]]

Raised(t, target) ==
    LET p == 1 + IF t.rank_last[1] = NO_SYMBOL
                 THEN Max({q \in 0 .. t.n : t.nb_bits[q] # target})
                 ELSE t.rank_last[1]
    IN  [t EXCEPT !.cost = @ + 1, !.nb_bits = [@ EXCEPT ![p] = @ - 1],
                  !.rank_last = [@ EXCEPT ![1] = p]]

RECURSIVE Repaid(_, _)
Repaid(t, target) ==
    CASE t.cost > 0 -> Repaid(Deepened(t, target), target)
      [] t.cost < 0 -> Repaid(Raised(t, target), target)
      [] t.cost = 0 -> t.nb_bits

\* Mutant of huf_set_max_height: what the cut takes is not paid for.
huf_set_max_height_Unpaid(count, nb_bits, target) ==
    [p \in DOMAIN nb_bits |-> Min({nb_bits[p], target})]

huf_set_max_height(count, nb_bits, target) ==
    LET deepest == nb_bits[Max(DOMAIN nb_bits)]
        excess  == deepest - target
        cut     == [p \in DOMAIN nb_bits |-> Min({nb_bits[p], target})]
        debt    == MapThenSumSet(LAMBDA p : 2^excess - 2^(deepest - nb_bits[p]),
                                 {p \in DOMAIN nb_bits : nb_bits[p] > target})
        At(d)   == {p \in DOMAIN cut : cut[p] = target - d}
    IN  IF deepest <= target THEN nb_bits
        ELSE Repaid([count |-> count, nb_bits |-> cut, cost |-> debt \div 2^excess,
                     n |-> Max({p \in DOMAIN cut : cut[p] < target}),
                     rank_last |-> [d \in 0 .. HUF_TABLELOG_MAX + 1 |->
                                        IF d = 0 \/ At(d) = {} THEN NO_SYMBOL ELSE Max(At(d))]],
                    target)

-----------------------------------------------------------------------------
(* The code.                                                               *)

\* Codes from lengths: the longest get the lowest values, and symbol order
\* decides within a length (build_ctable_from_tree and read_ctable).
CodesOf(nb_bits, table_log) ==
    LET Num(b) == Cardinality({s \in DOMAIN nb_bits : nb_bits[s] = b})
        val_per_rank[b \in 1 .. table_log] ==
            IF b = table_log THEN 0 ELSE (val_per_rank[b + 1] + Num(b + 1)) \div 2
    IN  Tabulated([s \in DOMAIN nb_bits |->
            IF nb_bits[s] = 0 THEN 0
            ELSE val_per_rank[nb_bits[s]]
                 + Cardinality({t \in 0 .. s - 1 : nb_bits[t] = nb_bits[s]})])

HufCTable(nb_bits, table_log) ==
    [table_log |-> table_log, nb_bits |-> nb_bits, code |-> CodesOf(nb_bits, table_log)]

\* huffman_encode::build_ctable, of a histogram over 0 .. max_symbol.
huf_build_ctable(count, limit) ==
    LET byte    == huf_sort(count)
        sorted  == [p \in DOMAIN byte |-> count[byte[p]]]
        height  == huf_set_max_height(sorted, huf_build_tree(sorted), limit)
        PosOfSymbol(s) == CHOOSE p \in DOMAIN byte : byte[p] = s
        nb_bits == [s \in DOMAIN count |-> IF count[s] = 0 THEN 0 ELSE height[PosOfSymbol(s)]]
    IN  HufCTable(nb_bits, Max({nb_bits[s] : s \in DOMAIN count}))

\* validate_ctable
validate_ctable(ct, count) ==
    \A s \in DOMAIN count : count[s] = 0 \/ (s \in DOMAIN ct.nb_bits /\ ct.nb_bits[s] # 0)

-----------------------------------------------------------------------------
(* The description: the weights of all symbols but the last, whose weight  *)
(* follows from the others.                                                *)

WeightsOf(ct) ==
    [i \in 1 .. Max(DOMAIN ct.nb_bits) |->
        IF ct.nb_bits[i - 1] = 0 THEN 0 ELSE ct.table_log + 1 - ct.nb_bits[i - 1]]

\* A distribution of the weights, its description, and the weights coded with it.
CompressedWith(norm, table_log, weights) ==
    LET header == write_ncount(norm.norm, table_log)
    IN  IF norm.kind # "table" THEN Failed
        ELSE IF header.kind # "bits" THEN Failed
        ELSE [kind |-> "bits",
              bits |-> header.bits
                       \o fse_compress_using_ctable(build_ctable(norm.norm, table_log),
                                                    weights).payload]

\* compress_weights
compress_weights(weights) ==
    LET max_symbol == Max({weights[i] : i \in DOMAIN weights})
        count == Tabulated([w \in 0 .. max_symbol |->
                                Cardinality({i \in DOMAIN weights : weights[i] = w})])
        most  == Max({count[w] : w \in DOMAIN count})
        table_log == optimal_table_log(WEIGHT_FSE_MAX_LOG, Len(weights), max_symbol)
    IN  IF Len(weights) <= 1 \/ most \in {1, Len(weights)} THEN Failed
        ELSE CompressedWith(normalize_count(count, Len(weights), table_log, 1), table_log, weights)

\* Mutant of Nibbles: the first weight in the lower half.
Nibbles_LowFirst(weights) == FlattenSeq([i \in DOMAIN weights |-> LowBits(weights[i], 4)])

\* Two weights in a byte, the first in its upper half.
Nibbles(weights) ==
    LET W(i) == IF i \in DOMAIN weights THEN weights[i] ELSE 0
    IN  FlattenSeq([k \in 1 .. DivCeil(Len(weights), 2) |->
                        LowBits(W(2 * k), 4) \o LowBits(W(2 * k - 1), 4)])

\* write_ctable: coded weights if they take less than half, or two in a byte.
Written(weights, fse) ==
    LET h_size == Len(fse.bits) \div 8
    IN  IF fse.kind = "bits" /\ h_size > 1 /\ h_size < Len(weights) \div 2
        THEN [kind |-> "bits", bits |-> LowBits(h_size, 8) \o fse.bits]
        ELSE IF Len(weights) > 256 - DirectMark THEN Failed
        ELSE [kind |-> "bits",
              bits |-> LowBits(DirectMark + Len(weights) - 1, 8) \o Nibbles(weights)]

write_ctable(ct) == Written(WeightsOf(ct), compress_weights(WeightsOf(ct)))

BytesAt(payload, first, n) == SubSeq(payload, 8 * first + 1, 8 * (first + n))

\* The weights as they stand in the description: two in a byte, or coded.
DirectWeights(payload, n) ==
    LET From(i)   == 8 + 8 * ((i - 1) \div 2) + IF i % 2 = 1 THEN 4 ELSE 0
    IN  IF Len(payload) < 8 * (1 + DivCeil(n, 2)) THEN Failed
        ELSE [kind |-> "weights", bytes |-> 1 + DivCeil(n, 2),
              weights |-> [i \in 1 .. n |-> ValueOf(SubSeq(payload, From(i) + 1, From(i) + 4))]]

Listed(read, bytes) ==
    IF read.kind = "error" THEN Failed
    ELSE [kind |-> "weights", weights |-> read.out, bytes |-> bytes]

CodedWeights(nc, body) ==
    IF nc.kind = "error" THEN Failed
    ELSE Listed(decode_interleaved(build_dtable(nc.norm, nc.table_log),
                                   SubSeq(body, 8 * nc.bytes + 1, Len(body)), 255),
                1 + Len(body) \div 8)

ListedWeights(payload) ==
    LET header == ValueOf(BytesAt(payload, 0, 1))
        body   == BytesAt(payload, 1, header)
    IN  CASE payload = <<>> -> Failed
          [] payload # <<>> /\ header < DirectMark ->
                IF Len(payload) < 8 * (1 + header) THEN Failed
                ELSE CodedWeights(read_ncount(body, 255, WEIGHT_FSE_MAX_LOG), body)
          [] payload # <<>> /\ header >= DirectMark ->
                DirectWeights(payload, header - (DirectMark - 1))

Share(weight) == IF weight = 0 THEN 0 ELSE 2^(weight - 1)

\* read_weights: the last weight makes the sum a power of two.
Completed(listed, total) ==
    LET table_log == highbit(total) + 1
        rest      == 2^table_log - total
    IN  IF \/ total = 0 \/ table_log > HUF_TABLELOG_MAX
           \/ rest # 2^highbit(rest)
           \/ Len(listed.weights) > 255
        THEN Failed
        ELSE [kind |-> "weights", table_log |-> table_log, bytes |-> listed.bytes,
              weights |-> Append(listed.weights, highbit(rest) + 1)]

Complete(listed) ==
    IF listed.kind = "error" THEN Failed
    ELSE IF \E i \in DOMAIN listed.weights : listed.weights[i] > HUF_TABLELOG_MAX THEN Failed
    ELSE Completed(listed, FoldLeft(LAMBDA sum, w : sum + Share(w), 0, listed.weights))

read_weights(payload) == Complete(ListedWeights(payload))

\* read_ctable, of a dictionary's table.
CTableOf(read) ==
    IF read.kind = "error" THEN Failed
    ELSE [kind |-> "table", bytes |-> read.bytes,
          table |-> HufCTable([s \in 0 .. Len(read.weights) - 1 |->
                                    IF read.weights[s + 1] = 0 THEN 0
                                    ELSE read.table_log + 1 - read.weights[s + 1]],
                              read.table_log),
          has_zero_weights |-> \E i \in DOMAIN read.weights : read.weights[i] = 0]

read_ctable(payload) == CTableOf(read_weights(payload))

\* huffman::build: each symbol takes as many entries as its weight says, small
\* weights first.
huf_build(weights, table_log) ==
    LET Start(i) == MapThenSumSet(LAMBDA k : Share(weights[k]),
                                  {k \in DOMAIN weights : \/ weights[k] < weights[i]
                                                          \/ weights[k] = weights[i] /\ k < i})
        Owner(u) == CHOOSE i \in DOMAIN weights :
                        u \in Start(i) .. Start(i) + Share(weights[i]) - 1
    IN  [table_log |-> table_log,
         entries |-> Tabulated([u \in 0 .. 2^table_log - 1 |->
                        LET i == Owner(u)
                        IN  [symbol |-> i - 1, nb_bits |-> table_log + 1 - weights[i]]])]

TableOf(read) ==
    IF read.kind = "error" THEN Failed
    ELSE [kind |-> "table", table |-> huf_build(read.weights, read.table_log),
          bytes |-> read.bytes]

read_table(payload) == TableOf(read_weights(payload))

-----------------------------------------------------------------------------
(* Streams.                                                                *)

\* compress1x: from the last symbol to the first.
compress1x(ct, src) ==
    close(FoldRight(LAMBDA s, w : flush_bits(add_bits(w, ct.code[s], ct.nb_bits[s])),
                    src, NewWriter)).payload

MIN_FOUR_STREAMS == 12

Segment(src, k) ==
    LET segment == DivCeil(Len(src), 4)
    IN  SubSeq(src, k * segment + 1, Min({(k + 1) * segment, Len(src)}))

\* compress4x: the sizes of the first three, then the four; nothing if the source is
\* too small, or a stream too large for the sizes.
compress4x(ct, src) ==
    LET stream == [k \in 1 .. 4 |-> compress1x(ct, Segment(src, k - 1))]
    IN  IF \/ Len(src) < MIN_FOUR_STREAMS
           \/ \E k \in 1 .. 4 : Len(stream[k]) \div 8 \notin 1 .. 2^16 - 1
        THEN <<>>
        ELSE FlattenSeq([k \in 1 .. 3 |-> LowBits(Len(stream[k]) \div 8, 16)]) \o FlattenSeq(stream)

\* decode_stream_into
decode_stream(table, payload, count) ==
    LET Step(acc, k) ==
            LET e == table.entries[peek(acc.reader, table.table_log)]
            IN  [out |-> Append(acc.out, e.symbol), reader |-> consume(acc.reader, e.nb_bits)]
        end == FoldLeft(Step, [out |-> <<>>, reader |-> ReverseReader(payload)],
                        [k \in 1 .. count |-> k])
    IN  IF NoMark(payload) THEN Failed
        ELSE IF ~finished_exactly(end.reader) THEN Failed
        ELSE [kind |-> "symbols", out |-> end.out]

decode_four_streams(table, payload, regenerated_size) ==
    LET size    == [k \in 1 .. 3 |-> ValueOf(BytesAt(payload, 2 * (k - 1), 2))]
        rest    == Len(payload) \div 8 - 6
        segment == DivCeil(regenerated_size, 4)
        Before(k) == MapThenSumSet(LAMBDA j : size[j], 1 .. k - 1)
        SizeOf(k) == IF k = 4 THEN rest - Before(4) ELSE size[k]
        CountOf(k) == IF k = 4 THEN regenerated_size - 3 * segment ELSE segment
        read    == [k \in 1 .. 4 |->
                        decode_stream(table, BytesAt(payload, 6 + Before(k), SizeOf(k)), CountOf(k))]
    IN  IF \/ Len(payload) < 8 * 6 \/ Before(4) >= rest
           \/ regenerated_size - 3 * segment <= 0
        THEN Failed
        ELSE IF \E k \in 1 .. 4 : read[k].kind = "error" THEN Failed
        ELSE [kind |-> "symbols", out |-> FlattenSeq([k \in 1 .. 4 |-> read[k].out])]
=============================================================================
