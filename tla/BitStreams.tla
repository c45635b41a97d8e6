----------------------------- MODULE BitStreams -----------------------------
(***************************************************************************)
(* The bit streams of the entropy stages: the writer (BitCStream in        *)
(* fse_encode.rs, HufCStream in huffman_encode.rs), the reader that goes   *)
(* backwards through what it wrote, and the forward reader of table        *)
(* descriptions (bits.rs).                                                 *)
(*                                                                         *)
(* A stream is the sequence of its bits, in the order they were written.   *)
(* The registers that hold 64 of them are not modelled, except that the    *)
(* writer must empty its own before it runs over.                          *)
(***************************************************************************)
EXTENDS Integers, Sequences, SequencesExt, TLC

CONSTANT ContainerBits  \* 64

LowBits(value, n) == [i \in 1 .. n |-> (value \div 2^(i - 1)) % 2]

ValueOf(bits) == FoldRight(LAMBDA b, v : b + 2 * v, bits, 0)

\* f itself, which TLC then evaluates once and not at each application.
Tabulated(f) == f @@ <<>>

\* highbit32
highbit(x) == CHOOSE n \in 0 .. 29 : 2^n <= x /\ x < 2^(n + 1)

DivCeil(a, b) == (a + b - 1) \div b

-----------------------------------------------------------------------------
(* The writer.  held is what the register holds, lost that it ran over.    *)

NewWriter == [bits |-> <<>>, held |-> 0, lost |-> FALSE]

add_bits(w, value, n) ==
    [bits |-> w.bits \o LowBits(value, n),
     held |-> w.held + n,
     lost |-> w.lost \/ w.held + n > ContainerBits]

flush_bits(w) == [w EXCEPT !.held = @ % 8]

PaddedToBytes(bits) == bits \o [i \in 1 .. 8 * DivCeil(Len(bits), 8) - Len(bits) |-> 0]

\* The mark of the end, behind which zeros fill the last byte.
close(w) ==
    LET marked == add_bits(w, 1, 1)
    IN  [payload |-> PaddedToBytes(marked.bits), lost |-> marked.lost]

-----------------------------------------------------------------------------
(* ReverseBitReader.  remaining goes below zero when it reads too far.     *)

NoMark(payload) == payload = <<>> \/ \A i \in Len(payload) - 7 .. Len(payload) : payload[i] = 0

ReverseReader(payload) ==
    [bits |-> payload,
     remaining |-> (CHOOSE i \in 1 .. Len(payload) :
                        payload[i] = 1 /\ \A k \in i + 1 .. Len(payload) : payload[k] = 0) - 1]

\* The next bits of the stream are the upper ones of the value; those that are
\* missing read as zero.
peek(r, n) ==
    LET from  == IF r.remaining < n THEN 0 ELSE r.remaining - n
        avail == IF r.remaining < n THEN r.remaining ELSE n
    IN  IF r.remaining <= 0 THEN 0
        ELSE ValueOf(SubSeq(r.bits, from + 1, from + avail)) * 2^(n - avail)

consume(r, n) == [r EXCEPT !.remaining = @ - n]

finished_exactly(r) == r.remaining = 0

-----------------------------------------------------------------------------
(* ForwardBitReader: zeros behind the end.                                 *)

ForwardPeek(bits, at, n) ==
    ValueOf([i \in 1 .. n |-> IF at + i <= Len(bits) THEN bits[at + i] ELSE 0])
=============================================================================
