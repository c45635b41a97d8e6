------------------------------ MODULE FseTables ------------------------------
(***************************************************************************)
(* Finite state entropy: from a histogram to a distribution over the       *)
(* states of a table, its description, the encoder's table and the         *)
(* decoder's (fse_encode.rs, fse.rs).                                      *)
(*                                                                         *)
(* Histograms and distributions are functions on 0 .. max_symbol; -1 is    *)
(* the probability "less than one", which has one state.  The code scales  *)
(* probabilities to 62 bits, here to Precision.                            *)
(***************************************************************************)
EXTENDS BitStreams, FiniteSetsExt

CONSTANTS
    Precision,          \* 62
    FSE_MIN_TABLELOG,   \* 5
    FSE_MAX_TABLELOG    \* 12

Magnitude(p) == IF p < 0 THEN -p ELSE p
SlotsOf(norm) == MapThenSumSet(LAMBDA s : Magnitude(norm[s]), DOMAIN norm)
SlotsBelow(norm, symbol) == MapThenSumSet(LAMBDA s : Magnitude(norm[s]), 0 .. symbol - 1)
TotalOf(count, symbols) == MapThenSumSet(LAMBDA s : count[s], symbols)

-----------------------------------------------------------------------------
(* The size of a table.                                                    *)

min_table_log(src_size, max_symbol) ==
    Min({highbit(src_size) + 1, highbit(max_symbol) + 2})

Clamped(x, low, high) == Max({low, Min({x, high})})

\* A difference that goes below zero wraps, and is then no limit.
optimal_table_log_internal(max_table_log, src_size, max_symbol, minus) ==
    LET bits_src == highbit(src_size - 1) - minus
        bounded  == IF bits_src >= 0 THEN Min({bits_src, max_table_log}) ELSE max_table_log
    IN  Clamped(Max({bounded, min_table_log(src_size, max_symbol)}),
                FSE_MIN_TABLELOG, FSE_MAX_TABLELOG)

optimal_table_log(max_table_log, src_size, max_symbol) ==
    optimal_table_log_internal(max_table_log, src_size, max_symbol, 2)

-----------------------------------------------------------------------------
(* Normalisation.                                                          *)

Failed == [kind |-> "error"]
Distribution(norm) == [kind |-> "table", norm |-> norm]

\* normalize_m2: what is left when rounding would have taken too much from the
\* largest.  poor symbols get one state; the rest share the others.
normalize_m2(count, total, table_log, low_prob) ==
    LET symbols == DOMAIN count
        size    == 2^table_log
        low     == total \div size
        one     == (3 * total) \div (2 * size)
        lowest  == {s \in symbols : count[s] > 0 /\ count[s] <= low}
        single  == {s \in symbols : count[s] > low /\ count[s] <= one}
        open    == {s \in symbols : count[s] > one /\ count[s] > low}
        free    == size - Cardinality(lowest \cup single)
        left    == TotalOf(count, open)
        \* a share could be rounded to nothing: the small ones get one
        one2    == (3 * left) \div (2 * free)
        raised  == IF free > 0 /\ left \div free > one
                   THEN {s \in open : count[s] <= one2} ELSE {}
        open2   == open \ raised
        free2   == free - Cardinality(raised)
        left2   == TotalOf(count, open2)
        Given(s) == CASE s \in lowest -> low_prob
                      [] s \in single \cup raised -> 1
                      [] OTHER -> 0
        largest == CHOOSE s \in symbols :
                      /\ \A t \in symbols : count[t] <= count[s]
                      /\ \A t \in 0 .. s - 1 : count[t] < count[s]
        \* round robin over those that have a positive share
        lucky   == {s \in symbols : Given(s) > 0}
        Turns(s) == free2 \div Cardinality(lucky)
                    + IF Cardinality({t \in lucky : t < s}) < free2 % Cardinality(lucky)
                      THEN 1 ELSE 0
        unit    == 2^(Precision - table_log)
        mid     == unit \div 2 - 1
        r_step  == (unit * free2 + mid) \div left2
        Before(s) == mid + r_step * TotalOf(count, {t \in open2 : t < s})
        Weight(s) == (Before(s) + count[s] * r_step) \div unit - Before(s) \div unit
    IN  CASE free = 0 -> Distribution([s \in symbols |-> Given(s)])
          [] free > 0 /\ \A s \in symbols : Given(s) # 0 ->
                Distribution([s \in symbols |-> Given(s) + IF s = largest THEN free2 ELSE 0])
          [] free > 0 /\ (\E s \in symbols : Given(s) = 0) /\ left2 = 0 ->
                IF lucky = {} THEN [kind |-> "hangs"]
                ELSE Distribution([s \in symbols |->
                         Given(s) + IF s \in lucky THEN Turns(s) ELSE 0])
          [] free > 0 /\ (\E s \in symbols : Given(s) = 0) /\ left2 > 0 ->
                IF \E s \in open2 : Weight(s) < 1 THEN Failed
                ELSE Distribution([s \in symbols |-> IF s \in open2 THEN Weight(s) ELSE Given(s)])

\* rtbTable
RTB == <<0, 473195, 504333, 520860, 550000, 700000, 750000, 830000>>

\* normalize_count
normalize_count(count, total, table_log, low_prob) ==
    LET symbols == DOMAIN count
        scale   == Precision - table_log
        step    == 2^Precision \div total
        low     == total \div 2^table_log
        Whole(s) == (count[s] * step) \div 2^scale
        Over(s)  == count[s] * step - Whole(s) * 2^scale
        Rounded(s) == Whole(s) + IF /\ Whole(s) < 8
                                    /\ Over(s) > 2^(scale - 20) * RTB[Whole(s) + 1]
                                 THEN 1 ELSE 0
        norm == [s \in symbols |-> CASE count[s] = 0 -> 0
                                     [] count[s] > 0 /\ count[s] <= low -> low_prob
                                     [] count[s] > low -> Rounded(s)]
        scaled  == {s \in symbols : count[s] > low /\ norm[s] > 0}
        largest == IF scaled = {} THEN 0
                   ELSE CHOOSE s \in scaled : /\ \A t \in scaled : norm[t] <= norm[s]
                                              /\ \A t \in scaled : t < s => norm[t] < norm[s]
        still   == 2^table_log - SlotsOf(norm)
    IN  CASE table_log < min_table_log(total, Max(symbols)) -> Failed
          [] \E s \in symbols : count[s] = total -> [kind |-> "rle"]
          [] OTHER ->
                IF -still >= norm[largest] \div 2
                THEN normalize_m2(count, total, table_log, low_prob)
                ELSE Distribution([norm EXCEPT ![largest] = @ + still])

-----------------------------------------------------------------------------
(* Descriptions.  Both sides keep remaining, one more than the states not  *)
(* yet described, and a field width that shrinks with it.                  *)

Narrowed(threshold, remaining) ==
    CHOOSE t \in {2^k : k \in 0 .. highbit(threshold)} :
        /\ t <= threshold
        /\ t = 1 \/ t <= remaining
        /\ \A u \in {2^k : k \in 0 .. highbit(threshold)} :
                u <= threshold /\ u > t => remaining < u

FieldBits(threshold) == highbit(threshold) + 1

\* write_ncount.  A symbol that follows a zero one writes the length of the run of
\* zeros before itself; the zeros inside a run write nothing.
write_ncount(norm, table_log) ==
    LET AfterZero(s) == s > 0 /\ norm[s - 1] = 0
        run(s) ==
            LET zeros == Cardinality({u \in 0 .. s - 1 : \A v \in u .. s - 1 : norm[v] = 0}) - 1
            IN  IF AfterZero(s) THEN [i \in 1 .. 2 * (zeros \div 3) |-> 1] \o LowBits(zeros % 3, 2)
                ELSE <<>>
        field(s) ==
            LET remaining == 2^table_log + 1 - SlotsBelow(norm, s)
                threshold == 2^highbit(remaining)
                max       == 2 * threshold - 1 - remaining
                count     == norm[s] + 1 + IF norm[s] + 1 >= threshold THEN max ELSE 0
            IN  LowBits(count, FieldBits(threshold) - IF count < max THEN 1 ELSE 0)
        last    == Max({s \in DOMAIN norm : norm[s] # 0})
        written == {s \in 0 .. last : norm[s] # 0 \/ ~AfterZero(s)}
    IN  IF SlotsOf(norm) # 2^table_log THEN Failed
        ELSE [kind |-> "bits",
              bits |-> PaddedToBytes(LowBits(table_log - FSE_MIN_TABLELOG, 4)
                           \o FlattenSeq([k \in 1 .. last + 1 |->
                                IF k - 1 \in written THEN run(k - 1) \o field(k - 1) ELSE <<>>]))]

\* The zero symbols at bit `at`: how many, and where the field after them is.
RECURSIVE ZeroRun(_, _)
ZeroRun(bits, at) ==
    LET flag == ForwardPeek(bits, at, 2)
        more == ZeroRun(bits, at + 2)
    IN  IF flag = 3 THEN [zeros |-> 3 + more.zeros, at |-> more.at]
        ELSE [zeros |-> flag, at |-> at + 2]

\* Mutant of Overread: nothing is checked.
Overread_Never(bits, at) == FALSE

\* The reader went on past the end, where it saw zeros.
Overread(bits, at) == at > Len(bits)

\* counts is a sequence, its first the count of symbol 0.
RECURSIVE ReadFrom(_, _, _, _)
ReadFrom(bits, max_symbol, table_log, r) ==
    LET run    == IF r.previous0 THEN ZeroRun(bits, r.at) ELSE [zeros |-> 0, at |-> r.at]
        counts == r.counts \o [i \in 1 .. run.zeros |-> 0]
        max    == 2 * r.threshold - 1 - r.remaining
        low    == ForwardPeek(bits, run.at, FieldBits(r.threshold) - 1)
        full   == ForwardPeek(bits, run.at, FieldBits(r.threshold))
        count  == (CASE low < max -> low
                     [] low >= max /\ full >= r.threshold -> full - max
                     [] low >= max /\ full < r.threshold -> full) - 1
        left   == r.remaining - Magnitude(count)
    IN  CASE r.remaining = 1 ->
                IF Overread(bits, r.at) THEN Failed
                ELSE [kind |-> "ncount", table_log |-> table_log,
                      norm |-> [s \in 0 .. Len(r.counts) - 1 |-> r.counts[s + 1]],
                      bytes |-> DivCeil(r.at, 8)]
          [] r.remaining > 1 ->
                IF Len(counts) > max_symbol \/ left < 1 THEN Failed
                ELSE ReadFrom(bits, max_symbol, table_log,
                              [counts |-> Append(counts, count), remaining |-> left,
                               threshold |-> Narrowed(r.threshold, left),
                               previous0 |-> count = 0,
                               at |-> run.at + FieldBits(r.threshold)
                                      - IF low < max THEN 1 ELSE 0])

read_ncount(bits, max_symbol, max_table_log) ==
    LET table_log == ForwardPeek(bits, 0, 4) + FSE_MIN_TABLELOG
    IN  IF table_log > max_table_log THEN Failed
        ELSE ReadFrom(bits, max_symbol, table_log,
                      [counts |-> <<>>, remaining |-> 2^table_log + 1,
                       threshold |-> 2^table_log, previous0 |-> FALSE, at |-> 4])

-----------------------------------------------------------------------------
(* The spread of the symbols over the states, the same on both sides.      *)

\* Symbols of probability "less than one" take the highest states: the highest that
\* is left.  Where they take all, the decoder's is below zero, and the encoder's,
\* which has no sign, wraps.
UsizeMax == 2^30        \* more than any table has states
High(norm, table_log) == 2^table_log - 1 - Cardinality({s \in DOMAIN norm : norm[s] = -1})

UnsignedHigh(norm, table_log) ==
    IF High(norm, table_log) < 0 THEN UsizeMax ELSE High(norm, table_log)

SpreadStep(table_log) == 2^table_log \div 2 + 2^table_log \div 8 + 3

\* The states in the order they are given out, those above high passed over.
SpreadOrder(table_log, high) ==
    SelectSeq([k \in 1 .. 2^table_log |-> ((k - 1) * SpreadStep(table_log)) % 2^table_log],
              LAMBDA pos : pos <= high)

\* The symbol of each state.
Spread(norm, table_log, high) ==
    LET order  == SpreadOrder(table_log, high)
        first(s) == MapThenSumSet(LAMBDA t : norm[t], {t \in 0 .. s - 1 : norm[t] > 0})
        low(s)   == Cardinality({t \in 0 .. s - 1 : norm[t] = -1})
        owner  == UNION {{<<order[first(s) + i], s>> : i \in 1 .. norm[s]} :
                         s \in {t \in DOMAIN norm : norm[t] > 0}}
                  \cup {<<2^table_log - 1 - low(s), s>> : s \in {t \in DOMAIN norm : norm[t] = -1}}
    IN  Tabulated([u \in 0 .. 2^table_log - 1 |-> (CHOOSE o \in owner : o[1] = u)[2]])

-----------------------------------------------------------------------------
(* The decoder's table.                                                    *)

\* build_dtable; the states of a symbol are numbered on from its probability.
build_dtable(norm, table_log) ==
    LET spread == Spread(norm, table_log, High(norm, table_log))
        Rank(u) == Cardinality({v \in 0 .. u - 1 : spread[v] = spread[u]})
        Next(u) == Magnitude(norm[spread[u]]) + Rank(u)
        Bits(u) == table_log - highbit(Next(u))
    IN  [log |-> table_log,
         entries |-> Tabulated([u \in 0 .. 2^table_log - 1 |->
                        [symbol |-> spread[u], nb_bits |-> Bits(u),
                         base |-> Next(u) * 2^Bits(u) - 2^table_log]])]

RleDecoder(symbol) == [log |-> 0, entries |-> [u \in {0} |-> [symbol |-> symbol, nb_bits |-> 0,
                                                              base |-> 0]]]

\* FseState::new and advance, of a reader and a state.
ReadState(table, r) == [state |-> peek(r, table.log), reader |-> consume(r, table.log)]

SymbolAt(table, state) == table.entries[state].symbol

NextState(table, state, r) ==
    LET e == table.entries[state]
    IN  [state |-> e.base + peek(r, e.nb_bits), reader |-> consume(r, e.nb_bits)]

\* decode_interleaved: two states in turn, until one overdraws the stream and the
\* other gives its symbol.
RECURSIVE DecodeInterleaved(_, _, _, _, _, _)
DecodeInterleaved(table, max_out, r, now, other, out) ==
    LET next == NextState(table, now, r)
    IN  IF Len(out) + 2 > max_out THEN Failed
        ELSE IF next.reader.remaining < 0
             THEN [kind |-> "symbols",
                   out |-> out \o <<SymbolAt(table, now), SymbolAt(table, other)>>]
             ELSE DecodeInterleaved(table, max_out, next.reader, other, next.state,
                                    Append(out, SymbolAt(table, now)))

decode_interleaved(table, payload, max_out) ==
    LET one == ReadState(table, ReverseReader(payload))
        two == ReadState(table, one.reader)
    IN  IF NoMark(payload) THEN Failed
        ELSE DecodeInterleaved(table, max_out, two.reader, one.state, two.state, <<>>)

-----------------------------------------------------------------------------
(* The encoder's table.                                                    *)

\* build_ctable: the states of each symbol in ascending order, one symbol after
\* the other, and what turns a state into an index of them.
build_ctable(norm, table_log) ==
    LET size   == 2^table_log
        spread == Spread(norm, table_log, UnsignedHigh(norm, table_log))
        Rank(u) == Cardinality({v \in 0 .. u - 1 : spread[v] = spread[u]})
        place  == Tabulated([u \in 0 .. size - 1 |-> SlotsBelow(norm, spread[u]) + Rank(u)])
        Transform(s) ==
            LET n    == Magnitude(norm[s])
                bits == IF n = 1 THEN table_log ELSE table_log - highbit(n - 1)
            IN  IF n = 0 THEN [delta_nb_bits |-> (table_log + 1) * 2^16 - size, delta_find_state |-> 0]
                ELSE [delta_nb_bits |-> bits * 2^16 - n * 2^bits,
                      delta_find_state |-> SlotsBelow(norm, s) - n]
    IN  [log |-> table_log,
         next_state |-> Tabulated([p \in 0 .. size - 1 |->
                            size + CHOOSE u \in 0 .. size - 1 : place[u] = p]),
         symbol_tt |-> Tabulated([s \in DOMAIN norm |-> Transform(s)])]

RleEncoder(symbol) ==
    [log |-> 0, next_state |-> [p \in 0 .. 1 |-> 0],
     symbol_tt |-> [s \in 0 .. symbol |-> [delta_nb_bits |-> 0, delta_find_state |-> 0]]]

init_cstate2(ct, symbol) ==
    LET tt   == ct.symbol_tt[symbol]
        bits == (tt.delta_nb_bits + 2^15) \div 2^16
    IN  ct.next_state[(bits * 2^16 - tt.delta_nb_bits) \div 2^bits + tt.delta_find_state]

\* Mutant of encode_symbol: the next state is looked up before the bits are shed.
encode_symbol_Unshifted(w, ct, state, symbol) ==
    LET tt   == ct.symbol_tt[symbol]
        bits == (state + tt.delta_nb_bits) \div 2^16
    IN  [writer |-> add_bits(w, state, bits),
         state  |-> ct.next_state[(state \div 2 + tt.delta_find_state) % 2^ct.log]]

encode_symbol(w, ct, state, symbol) ==
    LET tt   == ct.symbol_tt[symbol]
        bits == (state + tt.delta_nb_bits) \div 2^16
    IN  [writer |-> add_bits(w, state, bits),
         state  |-> ct.next_state[state \div 2^bits + tt.delta_find_state]]

flush_cstate(w, ct, state) == flush_bits(add_bits(w, state, ct.log))

\* fse_compress_using_ctable: from the last symbol to the first, those at even
\* places with the first state and the others with the second; the register is
\* emptied after every fourth.
fse_compress_using_ctable(ct, src) ==
    LET n       == Len(src)
        Even(i) == i % 2 = 1    \* of the code's places, which count from 0
        Which(i) == IF Even(i) THEN 1 ELSE 2
        Start(which) == LET i == IF Which(n) = which THEN n ELSE n - 1
                        IN  init_cstate2(ct, src[i])
        Flushes(i) == (i - 1) % 4 = 0 \/ (n % 2 = 1 /\ i = n - 2)
        Step(acc, i) ==
            LET e == encode_symbol(acc.writer, ct, acc.state[Which(i)], src[i])
            IN  [writer |-> IF Flushes(i) THEN flush_bits(e.writer) ELSE e.writer,
                 state |-> [acc.state EXCEPT ![Which(i)] = e.state]]
        end == FoldLeft(Step, [writer |-> NewWriter, state |-> <<Start(1), Start(2)>>],
                        [k \in 1 .. n - 2 |-> n - 1 - k])
    IN  close(flush_cstate(flush_cstate(end.writer, ct, end.state[2]), ct, end.state[1]))
=============================================================================
