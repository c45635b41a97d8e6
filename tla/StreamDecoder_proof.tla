------------------------- MODULE StreamDecoder_proof -------------------------
(***************************************************************************)
(* The streaming decoder, for every input, dictionary, window limit and way*)
(* of cutting the input and of asking for the output: what it buffers is   *)
(* bounded, its window is the recent history, the frame state is there when*)
(* it is needed, and the limit on the output is kept.                      *)
(***************************************************************************)
EXTENDS StreamDecoder, BlockDecode_proof

-----------------------------------------------------------------------------
(* Fields.                                                                 *)

Headers == [kind : {"header"}, window : Nat, content_size : Int,
            has_checksum : BOOLEAN, dict_id : Nat]

BlockHeaders == [kind : {"block"}, type : {"raw", "rle", "compressed"},
                 size : 0 .. BlockSizeField, last : BOOLEAN]

\* What is read is a field that was written, or garbage.
LEMMA FieldIsRead ==
    ASSUME NEW buf \in Seq(Cell), NEW at \in Nat, NEW n \in Nat, at + n <= Len(buf)
    PROVE  FieldAt(buf, at, n) \in Fields \cup {Garbage}
<1>1. CASE n > 0
  <2>1. at + 1 \in 1 .. Len(buf)
    BY <1>1
  <2>2. buf[at + 1] \in Cell
    BY <2>1, ElementOfSeq
  <2>3. buf[at + 1].field \in Fields
    BY <2>2 DEF Cell
  <2> QED
    BY <2>3 DEF FieldAt
<1>2. CASE ~(n > 0)
  BY <1>2 DEF FieldAt
<1> QED
  BY <1>1, <1>2

\* A field of a kind has what a field of that kind has.
LEMMA FieldOfKind ==
    ASSUME NEW f \in Fields \cup {Garbage}
    PROVE  /\ f.kind = "header" => f \in Headers
           /\ f.kind = "size" => f.n \in Nat
           /\ f.kind = "body" => f.body \in BodyType(Nat)
           /\ f.kind = "byte" => f.value \in Nat
           /\ ~BlockRefused(f) => f \in BlockHeaders
<1>1. CASE f \in [kind : {"magic", "skipmagic"}]
  BY <1>1 DEF BlockRefused
<1>2. CASE f \in [kind : {"size"}, n : Nat]
  BY <1>2 DEF BlockRefused
<1>3. CASE f \in Headers
  BY <1>3 DEF BlockRefused, Headers
<1>4. CASE f \in [kind : {"block"}, type : {"raw", "rle", "compressed", "reserved"},
                  size : 0 .. BlockSizeField, last : BOOLEAN]
  BY <1>4 DEF BlockRefused, BlockHeaders
<1>5. CASE f \in [kind : {"body"}, body : BodyType(Nat)]
  BY <1>5 DEF BlockRefused
<1>6. CASE f \in [kind : {"checksum"}, of : Seq(Nat)]
  BY <1>6 DEF BlockRefused
<1>7. CASE f \in [kind : {"byte"}, value : Nat]
  BY <1>7 DEF BlockRefused
<1>8. CASE f = Garbage
  BY <1>8 DEF BlockRefused, Garbage
<1> QED
  BY <1>1, <1>2, <1>3, <1>4, <1>5, <1>6, <1>7, <1>8 DEF Fields, Headers

\* The size of a skippable frame is a number, and a header that is accepted is one.
LEMMA SizeIsNat ==
    ASSUME NEW buf \in Seq(Cell), NEW at \in Nat, at + SizeCells <= Len(buf)
    PROVE  SizeAt(buf, at) \in Nat
<1> DEFINE f == FieldAt(buf, at, SizeCells)
<1>1. f \in Fields \cup {Garbage}
  BY FieldIsRead DEF SizeCells
<1> HIDE DEF f
<1>2. f.kind = "size" => f.n \in Nat
  BY <1>1, FieldOfKind
<1>3. SizeAt(buf, at) = IF f.kind = "size" THEN f.n ELSE GarbageSize
  BY DEF SizeAt, f
<1> QED
  BY <1>2, <1>3 DEF GarbageSize

LEMMA HeaderIsRead ==
    ASSUME NEW buf \in Seq(Cell), NEW at \in Nat, ~HeaderRefused(HeaderAt(buf, at))
    PROVE  /\ HeaderAt(buf, at) \in Headers
           /\ at + HeaderCells <= Len(buf)
<1>1. Len(buf) \in Nat
  OBVIOUS
<1>2. at + HeaderCells <= Len(buf)
  BY <1>1 DEF HeaderRefused, HeaderAt, Garbage, HeaderCells
<1>3. HeaderAt(buf, at) = FieldAt(buf, at, HeaderCells)
  BY <1>1, <1>2 DEF HeaderAt, HeaderCells
<1>4. HeaderAt(buf, at) \in Fields \cup {Garbage}
  BY <1>2, <1>3, FieldIsRead DEF HeaderCells
<1>5. HeaderAt(buf, at).kind = "header"
  BY DEF HeaderRefused
<1> QED
  BY <1>2, <1>4, <1>5, FieldOfKind

\* Bytes, those of a block that is stored.
LEMMA BytesAreRead ==
    ASSUME NEW buf \in Seq(Cell), NEW at \in Nat, NEW n \in Nat, at + n <= Len(buf)
    PROVE  BytesAt(buf, at, n) \in Seq(Nat) /\ Len(BytesAt(buf, at, n)) = n
<1> DEFINE b == BytesAt(buf, at, n)
<1>1. b = [k \in 1 .. n |-> IF buf[at + k].field.kind = "byte"
                            THEN buf[at + k].field.value ELSE GarbageByte]
  BY DEF BytesAt
<1>2. ASSUME NEW k \in 1 .. n
      PROVE  (IF buf[at + k].field.kind = "byte"
              THEN buf[at + k].field.value ELSE GarbageByte) \in Nat
  <2>1. at + k \in 1 .. Len(buf)
    OBVIOUS
  <2>2. buf[at + k] \in Cell
    BY <2>1, ElementOfSeq
  <2>3. buf[at + k].field \in Fields
    BY <2>2 DEF Cell
  <2>4. buf[at + k].field.kind = "byte" => buf[at + k].field.value \in Nat
    BY <2>3, FieldOfKind
  <2> QED
    BY <2>4 DEF GarbageByte
<1>3. b \in [1 .. n -> Nat]
  BY <1>1, <1>2
<1> HIDE DEF b
<1>4. b \in Seq(Nat)
  BY <1>3, SeqDef
<1>5. Len(b) = n
  BY <1>3, <1>4, LenProperties
<1> QED
  BY <1>4, <1>5 DEF b

\* The body of a block adds to the window, also one that is refused on the way.
LEMMA BodyGrows ==
    ASSUME NEW hd \in BlockHeaders, NEW buf \in Seq(Cell), NEW at \in Nat,
           at + body_needed(hd) <= Len(buf),
           NEW ctx \in FrameContexts, NEW out \in Seq(Nat), NEW h, InPlace(h, out)
    PROVE  /\ Extends(DecodeBody(hd, buf, at, ctx, h, out).out, out)
           /\ DecodeBody(hd, buf, at, ctx, h, out).ctx \in FrameContexts
<1> DEFINE d == DecodeBody(hd, buf, at, ctx, h, out)
<1>1. hd.size \in Nat /\ hd.type \in {"raw", "rle", "compressed"}
  BY FrameAssumption DEF BlockHeaders
<1>2. CASE hd.type = "compressed"
  <2> DEFINE f == FieldAt(buf, at, hd.size)
  <2>1. at + hd.size <= Len(buf)
    BY <1>2 DEF body_needed
  <2>2. f \in Fields \cup {Garbage}
    BY <1>1, <2>1, FieldIsRead
  <2>3. d = IF f.kind # "body" THEN [ok |-> FALSE, out |-> out, ctx |-> ctx]
            ELSE decode_compressed_block(ctx, f.body, h, out)
    BY <1>2 DEF DecodeBody
  <2> HIDE DEF d, f
  <2>4. CASE f.kind # "body"
    <3>1. d.out = out /\ d.ctx = ctx
      BY <2>3, <2>4
    <3>2. Extends(d.out, out)
      BY <3>1, ExtendsItself
    <3> QED
      BY <3>1, <3>2 DEF d
  <2>5. CASE f.kind = "body"
    <3>1. f.body \in BodyType(Nat)
      BY <2>2, <2>5, FieldOfKind
    <3>2. d = decode_compressed_block(ctx, f.body, h, out)
      BY <2>3, <2>5
    <3>3. Extends(d.out, out) /\ d.ctx \in FrameContexts
      BY <3>1, <3>2, BlockGrows
    <3> QED
      BY <3>3 DEF d
  <2> QED
    BY <2>4, <2>5
<1>3. CASE hd.type = "raw"
  <2>1. at + hd.size <= Len(buf)
    BY <1>3 DEF body_needed
  <2>2. BytesAt(buf, at, hd.size) \in Seq(Nat)
    BY <1>1, <2>1, BytesAreRead
  <2>3. d.out = out \o BytesAt(buf, at, hd.size) /\ d.ctx = ctx
    BY <1>3 DEF DecodeBody
  <2> HIDE DEF d
  <2>4. Extends(d.out, out)
    BY <2>2, <2>3, ExtendsByConcat
  <2> QED
    BY <2>3, <2>4 DEF d
<1>4. CASE hd.type = "rle"
  <2> DEFINE byte == BytesAt(buf, at, 1)[1]
             run == Repeated(byte, hd.size)
  <2>1. at + 1 <= Len(buf)
    BY <1>4 DEF body_needed
  <2>2. BytesAt(buf, at, 1) \in Seq(Nat) /\ Len(BytesAt(buf, at, 1)) = 1
    BY <2>1, BytesAreRead
  <2>3. byte \in Nat
    BY <2>2, ElementOfSeq
  <2>4. d.out = out \o run /\ d.ctx = ctx
    BY <1>4 DEF DecodeBody
  <2> HIDE DEF d, byte
  <2>5. run \in [1 .. hd.size -> Nat]
    BY <1>1, <2>3 DEF Repeated
  <2> HIDE DEF run
  <2>6. run \in Seq(Nat)
    BY <1>1, <2>5, SeqDef
  <2>7. Extends(out \o run, out)
    BY <2>6, ExtendsByConcat
  <2> QED
    BY <2>4, <2>7 DEF d, run
<1> QED
  BY <1>1, <1>2, <1>3, <1>4

-----------------------------------------------------------------------------
(* The invariant.                                                          *)

FrameStates == [kind : {"frame"}, header : Headers, ctx : FrameContexts,
                win : Seq(Nat), hashed : Seq(Nat), produced : Nat]

Phases == {"FrameStart", "Skippable", "Blocks", "Footer", "Done"}

Input ==
    /\ source \in Seq(Cell) /\ reader_pos \in 0 .. Len(source)
    /\ in_buf \in Seq(Cell) /\ in_pos \in 0 .. Len(in_buf)

State ==
    /\ phase \in Phases /\ left \in Nat
    /\ frame \in FrameStates \cup {None}
    /\ pc \in FillPoints \cup {"idle", "turn", "drain"}

\* Where in the buffer each fill waits, and what is there while it does: a turn
\* begins with what is not consumed yet, at the front.
Waiting ==
    /\ pc \in {"magic", "skip_size", "skippable", "block_header", "checksum"} =>
           in_pos = 0
    /\ pc = "header" => in_pos = MagicCells
    /\ pc = "body" => in_pos = BlockHeaderCells /\ bh \in BlockHeaders
    /\ pc \in {"block_header", "body"} => phase = "Blocks"
    /\ phase = "Blocks" => frame \in FrameStates

\* A frame is what was hashed of it, and its window the end of that, or the whole
\* dictionary before there is any; but not with what a refused block left in it.
Recent ==
    frame # None =>
        /\ frame.produced = Len(frame.hashed)
        /\ \/ refused
           \/ frame.win = LastOf(Dictionary.content \o frame.hashed, frame.header.window)
           \/ frame.hashed = <<>> /\ frame.win = Dictionary.content

IInv == Input /\ State /\ Waiting /\ InputBufferBounded /\ Recent

-----------------------------------------------------------------------------
(* The window.                                                             *)

\* The end of a sequence, byte by byte.
LEMMA LastOfIs ==
    ASSUME NEW s \in Seq(Nat), NEW n \in Nat, Len(s) >= n
    PROVE  /\ LastOf(s, n) \in Seq(Nat) /\ Len(LastOf(s, n)) = n
           /\ \A i \in 1 .. n : LastOf(s, n)[i] = s[(Len(s) - n) + i]
<1>1. Len(s) \in Nat
  OBVIOUS
<1>2. CASE Len(s) > n
  <2> DEFINE f == Len(s) - n
  <2>1. f \in 0 .. Len(s) /\ Len(s) \in f .. Len(s) /\ Len(s) - f = n
    BY <1>1, <1>2
  <2>2. LastOf(s, n) = SubSeq(s, f + 1, Len(s))
    BY <1>2 DEF LastOf
  <2> HIDE DEF f
  <2>3. /\ SubSeq(s, f + 1, Len(s)) \in Seq(Nat) /\ Len(SubSeq(s, f + 1, Len(s))) = Len(s) - f
        /\ \A i \in 1 .. Len(s) - f : SubSeq(s, f + 1, Len(s))[i] = s[f + i]
    BY <2>1, Slice
  <2>4. /\ LastOf(s, n) \in Seq(Nat) /\ Len(LastOf(s, n)) = n
        /\ \A i \in 1 .. n : LastOf(s, n)[i] = s[f + i]
    BY <2>1, <2>2, <2>3
  <2> QED
    BY <2>4 DEF f
<1>3. CASE Len(s) = n
  <2>1. LastOf(s, n) = s
    BY <1>1, <1>3 DEF LastOf
  <2>2. \A i \in 1 .. n : (Len(s) - n) + i = i
    BY <1>3
  <2> QED
    BY <1>3, <2>1, <2>2
<1> QED
  BY <1>1, <1>2, <1>3

\* Trimming now and again later is trimming once.
LEMMA LastOfLastOf ==
    ASSUME NEW s \in Seq(Nat), NEW t \in Seq(Nat), NEW n \in Nat
    PROVE  /\ LastOf(s, n) \in Seq(Nat)
           /\ LastOf(LastOf(s, n) \o t, n) = LastOf(s \o t, n)
<1>1. Len(s) \in Nat /\ Len(t) \in Nat
  OBVIOUS
<1>2. CASE ~(Len(s) > n)
  <2>1. LastOf(s, n) = s
    BY <1>2 DEF LastOf
  <2> QED
    BY <2>1
<1>3. CASE Len(s) > n
  <2> DEFINE a == LastOf(s, n)
             x == a \o t
             y == s \o t
  <2>1. /\ a \in Seq(Nat) /\ Len(a) = n
        /\ \A i \in 1 .. n : a[i] = s[(Len(s) - n) + i]
    BY <1>1, <1>3, LastOfIs, SMTT(30)
  <2> HIDE DEF a
  <2>2. /\ x \in Seq(Nat) /\ Len(x) = n + Len(t)
        /\ \A i \in 1 .. n + Len(t) : x[i] = IF i <= n THEN a[i] ELSE t[i - n]
    BY <2>1, ConcatProperties
  <2>3. /\ y \in Seq(Nat) /\ Len(y) = Len(s) + Len(t)
        /\ \A i \in 1 .. Len(s) + Len(t) : y[i] = IF i <= Len(s) THEN s[i] ELSE t[i - Len(s)]
    BY ConcatProperties
  <2> HIDE DEF x, y
  <2>4. /\ LastOf(x, n) \in Seq(Nat) /\ Len(LastOf(x, n)) = n
        /\ \A i \in 1 .. n : LastOf(x, n)[i] = x[(Len(x) - n) + i]
    <3>1. x \in Seq(Nat) /\ Len(x) >= n
      BY <1>1, <2>2
    <3> QED
      BY <3>1, LastOfIs
  <2>5. /\ LastOf(y, n) \in Seq(Nat) /\ Len(LastOf(y, n)) = n
        /\ \A i \in 1 .. n : LastOf(y, n)[i] = y[(Len(y) - n) + i]
    <3>1. y \in Seq(Nat) /\ Len(y) >= n
      BY <1>1, <1>3, <2>3
    <3> QED
      BY <3>1, LastOfIs
  <2>6. ASSUME NEW i \in 1 .. n PROVE LastOf(x, n)[i] = LastOf(y, n)[i]
    <3>1. LastOf(x, n)[i] = x[(Len(x) - n) + i] /\ LastOf(y, n)[i] = y[(Len(y) - n) + i]
      BY <2>4, <2>5
    <3>2. /\ (Len(x) - n) + i = Len(t) + i
          /\ (Len(y) - n) + i = (Len(s) - n) + (Len(t) + i)
          /\ Len(t) + i \in 1 .. n + Len(t)
          /\ (Len(s) - n) + (Len(t) + i) \in 1 .. Len(s) + Len(t)
      <4>1. Len(x) = n + Len(t) /\ Len(y) = Len(s) + Len(t)
        BY <2>2, <2>3
      <4> DEFINE ls == Len(s)
                 lt == Len(t)
                 lx == Len(x)
                 ly == Len(y)
      <4>2. ls \in Nat /\ lt \in Nat /\ lx = n + lt /\ ly = ls + lt /\ ls > n
        BY <1>1, <1>3, <4>1
      <4> HIDE DEF ls, lt, lx, ly
      <4>3. /\ (lx - n) + i = lt + i /\ (ly - n) + i = (ls - n) + (lt + i)
            /\ lt + i \in 1 .. n + lt /\ (ls - n) + (lt + i) \in 1 .. ls + lt
        BY <4>2
      <4> QED
        BY <4>3 DEF ls, lt, lx, ly
    <3>3. x[Len(t) + i] = IF Len(t) + i <= n THEN a[Len(t) + i] ELSE t[(Len(t) + i) - n]
      BY <2>2, <3>2
    <3>4. y[(Len(s) - n) + (Len(t) + i)]
              = IF (Len(s) - n) + (Len(t) + i) <= Len(s)
                THEN s[(Len(s) - n) + (Len(t) + i)]
                ELSE t[((Len(s) - n) + (Len(t) + i)) - Len(s)]
      BY <2>3, <3>2
    <3>5. CASE Len(t) + i <= n
      <4>1. Len(t) + i \in 1 .. n /\ (Len(s) - n) + (Len(t) + i) <= Len(s)
        BY <1>1, <3>5
      <4>2. a[Len(t) + i] = s[(Len(s) - n) + (Len(t) + i)]
        BY <2>1, <4>1
      <4> QED
        BY <3>1, <3>2, <3>3, <3>4, <3>5, <4>1, <4>2
    <3>6. CASE ~(Len(t) + i <= n)
      <4>1. /\ ~((Len(s) - n) + (Len(t) + i) <= Len(s))
            /\ ((Len(s) - n) + (Len(t) + i)) - Len(s) = (Len(t) + i) - n
        BY <1>1, <3>6
      <4> QED
        BY <3>1, <3>2, <3>3, <3>4, <3>6, <4>1
    <3> QED
      BY <3>5, <3>6
  <2>7. LastOf(x, n) = LastOf(y, n)
    BY <2>4, <2>5, <2>6, SeqEqual
  <2> QED
    BY <2>1, <2>7 DEF a, x, y
<1> QED
  BY <1>2, <1>3

\* What was added to a sequence is what stands after it.
LEMMA AddedIs ==
    ASSUME NEW out \in Seq(Nat), NEW new, Extends(new, out)
    PROVE  LET added == SubSeq(new, Len(out) + 1, Len(new))
           IN  new \in Seq(Nat) /\ added \in Seq(Nat) /\ new = out \o added
<1> DEFINE added == SubSeq(new, Len(out) + 1, Len(new))
<1>1. PICK n \in Nat : Grown(Nat, new, out, n)
  BY DEF Extends
<1>2. Len(out) \in Nat
  OBVIOUS
<1>3. /\ new \in Seq(Nat) /\ Len(new) = Len(out) + n
      /\ \A j \in 1 .. Len(out) : new[j] = out[j]
  BY <1>1 DEF Grown
<1>4. Len(out) \in 0 .. Len(new) /\ Len(new) \in Len(out) .. Len(new) /\ Len(new) - Len(out) = n
  BY <1>2, <1>3
<1>5. /\ added \in Seq(Nat) /\ Len(added) = n
      /\ \A i \in 1 .. n : added[i] = new[Len(out) + i]
  BY <1>3, <1>4, Slice
<1> HIDE DEF added
<1> DEFINE c == out \o added
<1>6. /\ c \in Seq(Nat) /\ Len(c) = Len(out) + n
      /\ \A i \in 1 .. Len(out) + n : c[i] = IF i <= Len(out) THEN out[i] ELSE added[i - Len(out)]
  BY <1>5, ConcatProperties
<1> HIDE DEF c
<1>7. ASSUME NEW i \in 1 .. Len(new) PROVE new[i] = c[i]
  <2>1. i \in 1 .. Len(out) + n
    BY <1>3
  <2>2. CASE i <= Len(out)
    <3>1. i \in 1 .. Len(out)
      BY <1>2, <2>2
    <3> QED
      BY <1>3, <1>6, <2>1, <2>2, <3>1
  <2>3. CASE ~(i <= Len(out))
    <3>1. i - Len(out) \in 1 .. n /\ Len(out) + (i - Len(out)) = i
      BY <1>2, <1>3, <2>1, <2>3
    <3>2. added[i - Len(out)] = new[Len(out) + (i - Len(out))]
      BY <1>5, <3>1
    <3> QED
      BY <1>6, <2>1, <2>3, <3>1, <3>2
  <2> QED
    BY <2>2, <2>3
<1>8. new = c
  BY <1>3, <1>6, <1>7, SeqEqual
<1>9. new \in Seq(Nat) /\ added \in Seq(Nat) /\ new = out \o added
  BY <1>3, <1>5, <1>8 DEF c
<1> QED
  BY <1>9 DEF added

-----------------------------------------------------------------------------
(* The invariant is inductive.                                             *)

\* Invalid data that was reported stays on record.
LEMMA RefusalStays ==
    ASSUME Next, refused
    PROVE  refused'
<1>1. CASE drain \/ Reads
  BY <1>1 DEF drain, Reads, read, HandOut, Return
<1>2. CASE turn_done \/ turn_frame_start \/ turn_skippable \/ turn_blocks \/ turn_footer
  BY <1>2 DEF turn_done, turn_frame_start, turn_skippable, turn_blocks, turn_footer,
              Return, Goto, Fail
<1>3. CASE truncated \/ skip_size \/ skippable \/ header \/ block_header \/ checksum
  BY <1>3 DEF truncated, skip_size, skippable, header, block_header, checksum, Return,
              Goto, Fail
<1>4. CASE magic
  <2> DEFINE kind == FieldAt(in_buf, in_pos, MagicCells).kind
  <2>1. CASE kind = "magic" \/ kind = "skipmagic"
    BY <1>4, <2>1 DEF magic, Goto
  <2>2. CASE ~(kind = "magic" \/ kind = "skipmagic")
    BY <1>4, <2>2 DEF magic, Fail
  <2> QED
    BY <2>1, <2>2
<1>5. CASE body
  <2>1. (refused' = refused) \/ refused' = TRUE
    BY <1>5 DEF body, Goto, Fail
  <2> QED
    BY <2>1
<1>6. CASE Reader
  BY <1>6 DEF Reader, reader_ends, reader_fails, reader_returns, Return
<1> QED
  BY <1>1, <1>2, <1>3, <1>4, <1>5, <1>6 DEF Next, Decoding

\* Nothing is buffered, and there is no frame.
LEMMA InitInvariant == Init => IInv
<1> SUFFICES ASSUME Init PROVE IInv
  OBVIOUS
<1>1. source \in Seq(Cell) /\ Len(source) \in Nat
  BY StreamAssumption DEF Init
<1>2. Input
  BY <1>1 DEF Init, Input
<1>3. State /\ Waiting
  BY DEF Init, State, Waiting, Phases, FillPoints
<1>4. InputBufferBounded
  <2>1. PICK n \in PullSizes : n \in Nat \ {0}
    BY StreamAssumption
  <2>2. Len(in_buf) = 0
    BY DEF Init
  <2>3. Len(in_buf) < BlockHeaderCells + BlockSizeField + n
    BY <2>1, <2>2, FrameAssumption DEF BlockHeaderCells
  <2> QED
    BY <2>3 DEF InputBufferBounded
<1>5. Recent
  BY DEF Init, Recent
<1> QED
  BY <1>2, <1>3, <1>4, <1>5 DEF IInv

\* What compact leaves in the buffer.
LEMMA CompactKeeps ==
    ASSUME Input, InputBufferBounded, compact
    PROVE  /\ in_buf' \in Seq(Cell) /\ in_pos' = 0 /\ in_pos' \in 0 .. Len(in_buf')
           /\ InputBufferBounded'
<1>1. in_buf \in Seq(Cell) /\ Len(in_buf) \in Nat /\ in_pos \in 0 .. Len(in_buf)
  BY DEF Input
<1>2. in_buf' = SubSeq(in_buf, in_pos + 1, Len(in_buf)) /\ in_pos' = 0
  BY DEF compact
<1>3. Len(in_buf) \in in_pos .. Len(in_buf)
  BY <1>1
<1>4. in_buf' \in Seq(Cell) /\ Len(in_buf') = Len(in_buf) - in_pos
  BY <1>1, <1>2, <1>3, Slice
<1>5. Len(in_buf') \in Nat /\ Len(in_buf') <= Len(in_buf)
  BY <1>1, <1>4
<1>6. PICK n \in PullSizes : Len(in_buf) < BlockHeaderCells + BlockSizeField + n
  BY DEF InputBufferBounded
<1>7. n \in Nat
  BY StreamAssumption
<1>8. Len(in_buf') < BlockHeaderCells + BlockSizeField + n
  BY <1>1, <1>5, <1>6, <1>7, FrameAssumption DEF BlockHeaderCells
<1>9. InputBufferBounded'
  BY <1>8 DEF InputBufferBounded
<1> QED
  BY <1>2, <1>4, <1>5, <1>9

\* The reader is only called while there is less than a fill needs, which is never
\* more than the body of a block.
LEMMA ReaderReturns ==
    ASSUME IInv, NEW n \in PullSizes, reader_returns(n)
    PROVE  IInv'
<1> USE DEF IInv
<1>1. /\ source \in Seq(Cell) /\ reader_pos \in 0 .. Len(source)
      /\ in_buf \in Seq(Cell) /\ in_pos \in 0 .. Len(in_buf)
      /\ Len(source) \in Nat /\ Len(in_buf) \in Nat
  BY DEF Input
<1>2. n \in Nat \ {0} /\ reader_pos + n <= Len(source)
  BY StreamAssumption DEF reader_returns
<1>3. /\ in_buf' = in_buf \o SubSeq(source, reader_pos + 1, reader_pos + n)
      /\ reader_pos' = reader_pos + n /\ source' = source
      /\ in_pos' = in_pos /\ pc' = pc /\ bh' = bh
      /\ phase' = phase /\ left' = left /\ frame' = frame /\ refused' = refused
  BY DEF reader_returns, decoder, locals
<1> DEFINE more == SubSeq(source, reader_pos + 1, reader_pos + n)
<1>4. more \in Seq(Cell) /\ Len(more) = n
  <2>1. reader_pos + n \in reader_pos .. Len(source) /\ (reader_pos + n) - reader_pos = n
    BY <1>1, <1>2
  <2> QED
    BY <1>1, <2>1, Slice
<1> HIDE DEF more
<1>5. in_buf' \in Seq(Cell) /\ Len(in_buf') = Len(in_buf) + n
  BY <1>1, <1>3, <1>4, ConcatProperties DEF more
<1>6. Input'
  BY <1>1, <1>2, <1>3, <1>5 DEF Input
<1>7. State' /\ Waiting' /\ Recent'
  BY <1>3 DEF State, Waiting, Recent
<1>8. Len(in_buf) < BlockHeaderCells + BlockSizeField
  <2>1. pc \in FillPoints /\ Len(in_buf) - in_pos < Need
    BY DEF reader_returns, Reading, Avail
  <2>2. BlockSizeField \in Nat /\ BlockSizeField >= 3
    BY FrameAssumption, StreamAssumption DEF MAX_FRAME_HEADER, HeaderCells
  <2>3. in_pos + Need <= BlockHeaderCells + BlockSizeField /\ Need \in Nat
    <3>1. CASE pc = "magic"
      BY <2>2, <3>1 DEF Need, Waiting, MagicCells, BlockHeaderCells
    <3>2. CASE pc = "skip_size"
      BY <2>2, <3>2 DEF Need, Waiting, MagicCells, SizeCells, BlockHeaderCells
    <3>3. CASE pc = "header"
      BY <2>2, <3>3 DEF Need, Waiting, MagicCells, MAX_FRAME_HEADER, HeaderCells, BlockHeaderCells
    <3>4. CASE pc = "skippable"
      BY <2>2, <3>4 DEF Need, Waiting, BlockHeaderCells
    <3>5. CASE pc = "block_header"
      BY <2>2, <3>5 DEF Need, Waiting, BlockHeaderCells
    <3>6. CASE pc = "body"
      <4>1. bh \in BlockHeaders /\ in_pos = BlockHeaderCells
        BY <3>6 DEF Waiting
      <4>2. bh.size \in 0 .. BlockSizeField
        BY <4>1 DEF BlockHeaders
      <4>3. Need = IF bh.type = "rle" THEN 1 ELSE bh.size
        BY <3>6 DEF Need, body_needed
      <4> QED
        BY <2>2, <4>1, <4>2, <4>3 DEF BlockHeaderCells
    <3>7. CASE pc = "checksum"
      BY <2>2, <3>7 DEF Need, Waiting, ChecksumCells, BlockHeaderCells
    <3> QED
      BY <2>1, <3>1, <3>2, <3>3, <3>4, <3>5, <3>6, <3>7 DEF FillPoints
  <2> QED
    BY <1>1, <2>1, <2>2, <2>3 DEF BlockHeaderCells
<1>9. InputBufferBounded'
  <2>1. BlockSizeField \in Nat
    BY FrameAssumption
  <2>2. Len(in_buf') < BlockHeaderCells + BlockSizeField + n
    BY <1>1, <1>2, <1>5, <1>8, <2>1 DEF BlockHeaderCells
  <2> QED
    BY <2>2 DEF InputBufferBounded
<1> QED
  BY <1>6, <1>7, <1>9

\* The actions that only read the buffer, as far as the buffer goes.
LEMMA BufferStays ==
    ASSUME Input, InputBufferBounded, UNCHANGED <<source, reader_pos, in_buf>>,
           in_pos' \in 0 .. Len(in_buf)
    PROVE  Input' /\ InputBufferBounded'
  BY DEF Input, InputBufferBounded

\* A turn of the loop up to its first fill.
LEMMA Turns ==
    ASSUME IInv, \/ turn_done \/ turn_frame_start \/ turn_skippable
                 \/ turn_blocks \/ turn_footer
    PROVE  IInv'
<1> USE DEF IInv
<1>1. compact /\ source' = source /\ reader_pos' = reader_pos
  BY DEF turn_done, turn_frame_start, turn_skippable, turn_blocks, turn_footer, Turn, reader
<1>2. Input' /\ InputBufferBounded' /\ in_pos' = 0
  <2>1. /\ in_buf' \in Seq(Cell) /\ in_pos' = 0 /\ in_pos' \in 0 .. Len(in_buf')
        /\ InputBufferBounded'
    BY <1>1, CompactKeeps
  <2> QED
    BY <1>1, <2>1 DEF Input
<1>0. refused => refused'
  BY RefusalStays DEF Next, Decoding
<1>3. CASE turn_done \/ turn_frame_start \/ turn_blocks
  <2>1. phase' = phase /\ left' = left /\ frame' = frame
    BY <1>3 DEF turn_done, turn_frame_start, turn_blocks, decoder
  <2>2. \/ pc' = "idle"
        \/ pc' = "magic"
        \/ pc' = "block_header" /\ phase' = "Blocks"
    BY <1>3, <2>1 DEF turn_done, turn_frame_start, turn_blocks, Turn, Answer, Return, Goto
  <2>3. Recent'
    BY <1>0, <2>1 DEF Recent
  <2>4. State' /\ Waiting'
    BY <1>2, <2>1, <2>2 DEF State, Waiting, FillPoints
  <2> QED
    BY <1>2, <2>3, <2>4
<1>4. CASE turn_skippable
  <2>1. left' = left /\ frame' = frame
    BY <1>4 DEF turn_skippable
  <2>2. \/ pc' = pc /\ pc = "turn" /\ phase' = "FrameStart"
        \/ pc' = "skippable" /\ phase' = "Skippable"
    BY <1>4 DEF turn_skippable, Turn, Goto
  <2>3. Recent'
    BY <1>0, <2>1 DEF Recent
  <2>4. State' /\ Waiting'
    BY <1>2, <2>1, <2>2 DEF State, Waiting, FillPoints, Phases
  <2> QED
    BY <1>2, <2>3, <2>4
<1>5. CASE turn_footer
  <2>1. left' = left /\ frame' = None
    BY <1>5 DEF turn_footer
  <2>2. /\ phase' \in {"Footer", "FrameStart"}
        /\ \/ pc' = "idle" \/ pc' = "checksum" \/ pc' = "turn"
    BY <1>5 DEF turn_footer, Turn, Goto, Answer, Return, Fail
  <2>3. Recent'
    BY <1>0, <2>1 DEF Recent
  <2>4. State' /\ Waiting'
    BY <1>2, <2>1, <2>2 DEF State, Waiting, FillPoints, Phases
  <2> QED
    BY <1>2, <2>3, <2>4
<1> QED
  BY <1>3, <1>4, <1>5

\* The caller, and the reader when it has nothing to give.
LEMMA NothingRead ==
    ASSUME IInv, \/ reader_ends \/ reader_fails \/ truncated \/ drain
                 \/ \E n \in ReadSizes : read(n)
    PROVE  IInv'
<1> USE DEF IInv
<1>1. /\ source' = source /\ reader_pos' = reader_pos
      /\ in_buf' = in_buf /\ in_pos' = in_pos
      /\ left' = left /\ frame' = frame
  BY DEF reader_ends, reader_fails, truncated, drain, read, reader, buffer, decoder
<1>2. Input' /\ InputBufferBounded'
  BY <1>1, BufferStays DEF Input
<1>0. refused => refused'
  BY RefusalStays DEF Next, Decoding, Reader, Reads
<1>3. Recent'
  BY <1>0, <1>1 DEF Recent
<1>4. CASE reader_ends
  <2>1. pc' = pc /\ phase' = phase /\ bh' = bh
    BY <1>4 DEF reader_ends, decoder, locals
  <2>2. State' /\ Waiting'
    BY <1>1, <2>1 DEF State, Waiting
  <2> QED
    BY <1>2, <1>3, <2>2
<1>5. CASE reader_fails \/ drain \/ \E n \in ReadSizes : read(n)
  <2>1. phase' = phase /\ (pc' = "idle" \/ pc' = "turn")
    BY <1>5 DEF reader_fails, drain, read, decoder, Answer, Return, HandOut
  <2>2. State' /\ Waiting'
    BY <1>1, <2>1 DEF State, Waiting, FillPoints
  <2> QED
    BY <1>2, <1>3, <2>2
<1>6. CASE truncated
  <2>1. /\ pc' = "idle"
        /\ \/ phase' = "Done"
           \/ phase' = phase
    BY <1>6 DEF truncated, Answer, Return, Fail
  <2>2. State' /\ Waiting'
    BY <1>1, <2>1 DEF State, Waiting, Phases, FillPoints
  <2> QED
    BY <1>2, <1>3, <2>2
<1> QED
  BY <1>4, <1>5, <1>6

\* Fields outside of blocks.
LEMMA FieldsRead ==
    ASSUME IInv, magic \/ skip_size \/ skippable \/ checksum
    PROVE  IInv'
<1> USE DEF IInv
<1>1. /\ in_buf \in Seq(Cell) /\ in_pos \in 0 .. Len(in_buf) /\ Len(in_buf) \in Nat
      /\ left \in Nat
  BY DEF Input, State
<1>2. /\ source' = source /\ reader_pos' = reader_pos /\ in_buf' = in_buf
      /\ frame' = frame
  BY DEF magic, skip_size, skippable, checksum, At, reader, decoder
<1>0. refused => refused'
  BY RefusalStays DEF Next, Decoding
<1>3. Recent'
  BY <1>0, <1>2 DEF Recent
<1>4. Filled /\ in_pos = 0 /\ Avail \in Nat /\ Avail = Len(in_buf)
  BY <1>1 DEF magic, skip_size, skippable, checksum, At, Waiting, Avail
<1>5. CASE magic
  <2>1. Len(in_buf) >= MagicCells
    BY <1>4, <1>5 DEF magic, At, Filled, Need
  <2>2. left' = left /\ phase' = phase /\ pc = "magic"
    BY <1>5 DEF magic, decoder, At
  <2>3. \/ pc' = "header" /\ in_pos' = MagicCells
        \/ pc' \in {"skip_size", "idle"} /\ in_pos' = in_pos
    <3> DEFINE kind == FieldAt(in_buf, in_pos, MagicCells).kind
    <3>1. CASE kind = "magic"
      BY <1>4, <1>5, <3>1 DEF magic, Consume, Goto, MagicCells
    <3>2. CASE kind = "skipmagic"
      BY <1>5, <3>2 DEF magic, Goto
    <3>3. CASE kind # "magic" /\ kind # "skipmagic"
      BY <1>5, <3>3 DEF magic, Fail, Answer, Return
    <3> QED
      BY <3>1, <3>2, <3>3
  <2>4. in_pos' \in 0 .. Len(in_buf)
    BY <1>1, <2>1, <2>3 DEF MagicCells
  <2>5. Input' /\ InputBufferBounded'
    BY <1>2, <2>4, BufferStays
  <2>6. State' /\ Waiting'
    BY <1>2, <1>4, <2>2, <2>3 DEF State, Waiting, FillPoints
  <2> QED
    BY <1>3, <2>5, <2>6
<1>6. CASE skip_size
  <2>1. Len(in_buf) >= MagicCells + SizeCells
    BY <1>4, <1>6 DEF skip_size, At, Filled, Need
  <2>2. left' \in Nat
    <3>1. in_pos + MagicCells \in Nat /\ in_pos + MagicCells + SizeCells <= Len(in_buf)
      BY <1>4, <2>1 DEF MagicCells, SizeCells
    <3>2. SizeAt(in_buf, in_pos + MagicCells) \in Nat
      BY <1>1, <3>1, SizeIsNat
    <3> QED
      BY <1>6, <3>2 DEF skip_size
  <2>3. pc' = "turn" /\ phase' = "Skippable" /\ in_pos' = in_pos + (MagicCells + SizeCells)
    BY <1>6 DEF skip_size, Goto, Consume
  <2>4. in_pos' \in 0 .. Len(in_buf)
    BY <1>1, <1>4, <2>1, <2>3 DEF MagicCells, SizeCells
  <2>5. Input' /\ InputBufferBounded'
    BY <1>2, <2>4, BufferStays
  <2>6. State' /\ Waiting'
    BY <1>2, <2>2, <2>3 DEF State, Waiting, Phases
  <2> QED
    BY <1>3, <2>5, <2>6
<1>7. CASE skippable
  <2>1. pc' = "turn" /\ phase' = phase
    BY <1>7 DEF skippable, Goto
  <2>2. in_pos' \in 0 .. Len(in_buf) /\ left' \in Nat
    BY <1>1, <1>4, <1>7 DEF skippable, Consume
  <2>3. Input' /\ InputBufferBounded'
    BY <1>2, <2>2, BufferStays
  <2>4. State' /\ Waiting'
    BY <1>2, <2>1, <2>2 DEF State, Waiting
  <2> QED
    BY <1>3, <2>3, <2>4
<1>8. CASE checksum
  <2>1. Len(in_buf) >= ChecksumCells
    BY <1>4, <1>8 DEF checksum, At, Filled, Need
  <2>2. left' = left /\ in_pos' = in_pos + ChecksumCells
    BY <1>8 DEF checksum, Consume
  <2>3. \/ pc' = "turn" /\ phase' = "FrameStart"
        \/ pc' = "idle" /\ phase' = phase
    BY <1>8 DEF checksum, Goto, Fail, Answer, Return
  <2>4. in_pos' \in 0 .. Len(in_buf)
    BY <1>1, <1>4, <2>1, <2>2 DEF ChecksumCells
  <2>5. Input' /\ InputBufferBounded'
    BY <1>2, <2>4, BufferStays
  <2>6. State' /\ Waiting'
    BY <1>2, <2>2, <2>3 DEF State, Waiting, Phases
  <2> QED
    BY <1>3, <2>5, <2>6
<1> QED
  BY <1>5, <1>6, <1>7, <1>8

\* The frame a header starts has the dictionary for its window.
LEMMA HeaderRead ==
    ASSUME IInv, header
    PROVE  IInv'
<1> USE DEF IInv
<1> DEFINE hd == HeaderAt(in_buf, in_pos)
<1>1. /\ in_buf \in Seq(Cell) /\ in_pos \in 0 .. Len(in_buf) /\ Len(in_buf) \in Nat
      /\ left \in Nat
  BY DEF Input, State
<1>2. /\ source' = source /\ reader_pos' = reader_pos /\ in_buf' = in_buf
  BY DEF header, reader
<1>3. CASE HeaderRefused(hd)
  <2>1. /\ in_pos' = in_pos /\ pc' = "idle"
        /\ phase' = phase /\ left' = left /\ frame' = frame
    BY <1>3 DEF header, Fail, Answer, Return, decoder
  <2>2. Input' /\ InputBufferBounded'
    BY <1>1, <1>2, <2>1, BufferStays
  <2>3. refused => refused'
    BY RefusalStays DEF Next, Decoding
  <2>4. State' /\ Waiting' /\ Recent'
    BY <2>1, <2>3 DEF State, Waiting, Recent
  <2> QED
    BY <2>2, <2>4
<1>4. CASE ~HeaderRefused(hd)
  <2>1. /\ in_pos' = in_pos + HeaderCells /\ pc' = "turn"
        /\ phase' = "Blocks" /\ left' = left
        /\ frame' = [kind |-> "frame", header |-> hd,
                     ctx |-> with_dictionary(Dictionary), win |-> Dictionary.content,
                     hashed |-> <<>>, produced |-> 0]
    BY <1>4 DEF header, Consume, Goto
  <2>2. hd \in Headers /\ in_pos + HeaderCells <= Len(in_buf)
    BY <1>1, <1>4, HeaderIsRead
  <2>3. in_pos' \in 0 .. Len(in_buf)
    BY <1>1, <2>1, <2>2 DEF HeaderCells
  <2>4. Input' /\ InputBufferBounded'
    BY <1>2, <2>3, BufferStays
  <2>5. with_dictionary(Dictionary) \in FrameContexts
    <3>1. Dictionary.rep \in Seq(Nat)
      BY FrameAssumption, SeqMonotonic
    <3>2. ASSUME NEW k \in 1 .. 3 PROVE Dictionary.rep[k] >= 1
      <4>1. Dictionary.rep[k] \in Nat \ {0}
        BY FrameAssumption, ElementOfSeq
      <4> QED
        BY <4>1
    <3>3. Dictionary.rep \in Triples /\ Positive(Dictionary.rep)
      BY <3>1, <3>2, FrameAssumption DEF Triples, Positive
    <3> QED
      BY <3>3, FrameAssumption DEF with_dictionary, FrameContexts
  <2> HIDE DEF hd
  <2>6. frame' \in FrameStates
    BY <2>1, <2>2, <2>5, FrameAssumption DEF FrameStates
  <2>7. State' /\ Waiting'
    BY <2>1, <2>6 DEF State, Waiting, Phases
  <2>8. Recent'
    BY <2>1 DEF Recent
  <2> QED
    BY <2>4, <2>7, <2>8
<1> QED
  BY <1>3, <1>4

\* A block header that is accepted says how much its fill will ask for.
LEMMA BlockHeaderRead ==
    ASSUME IInv, block_header
    PROVE  IInv'
<1> USE DEF IInv
<1> DEFINE field == FieldAt(in_buf, in_pos, BlockHeaderCells)
<1>1. /\ in_buf \in Seq(Cell) /\ in_pos \in 0 .. Len(in_buf) /\ Len(in_buf) \in Nat
      /\ in_pos = 0 /\ pc = "block_header" /\ phase = "Blocks"
  BY DEF Input, block_header, At, Waiting
<1>2. /\ source' = source /\ reader_pos' = reader_pos /\ in_buf' = in_buf
      /\ phase' = phase /\ left' = left /\ frame' = frame
      /\ in_pos' = in_pos + BlockHeaderCells
  BY DEF block_header, At, reader, decoder, Consume
<1>3. Len(in_buf) >= BlockHeaderCells
  BY <1>1 DEF block_header, At, Filled, Avail, Need
<1>4. in_pos' \in 0 .. Len(in_buf) /\ in_pos' = BlockHeaderCells
  BY <1>1, <1>2, <1>3 DEF BlockHeaderCells
<1>5. Input' /\ InputBufferBounded'
  BY <1>2, <1>4, BufferStays
<1>6. \/ pc' = "idle"
      \/ pc' = "body" /\ bh' \in BlockHeaders
  <2>1. field \in Fields \cup {Garbage}
    BY <1>1, <1>3, FieldIsRead DEF BlockHeaderCells
  <2>2. CASE BlockRefused(field)
    BY <2>2 DEF block_header, Fail, Answer, Return
  <2>3. CASE ~BlockRefused(field)
    <3>1. pc' = "body" /\ bh' = field
      BY <2>3 DEF block_header, Goto
    <3>2. field \in BlockHeaders
      <4> HIDE DEF field
      <4> QED
        BY <2>1, <2>3, FieldOfKind
    <3> QED
      BY <3>1, <3>2
  <2> QED
    BY <2>2, <2>3
<1>7. refused => refused'
  BY RefusalStays DEF Next, Decoding
<1>8. State' /\ Waiting' /\ Recent'
  BY <1>1, <1>2, <1>4, <1>6, <1>7 DEF State, Waiting, Recent, FillPoints
<1> QED
  BY <1>5, <1>8

\* The window is trimmed after each block, and each block adds to what was left of
\* it, so that it is the end of everything the frame has produced, until a block is
\* refused.
LEMMA BodyDecoded ==
    ASSUME IInv, body
    PROVE  IInv'
<1> USE DEF IInv
<1> DEFINE max    == BlockSizeMax(frame.header)
           before == Len(frame.win)
           h      == [content |-> <<>>, frame_base |-> 0, block_start |-> before,
                      block_size_max |-> max, limit |-> NoLimit]
           block  == DecodeBody(bh, in_buf, in_pos, frame.ctx, h, frame.win)
           new    == SubSeq(block.out, before + 1, Len(block.out))
<1>1. /\ in_buf \in Seq(Cell) /\ in_pos \in 0 .. Len(in_buf) /\ Len(in_buf) \in Nat
      /\ pc = "body" /\ phase = "Blocks" /\ frame \in FrameStates
      /\ in_pos = BlockHeaderCells /\ bh \in BlockHeaders
  BY DEF Input, body, At, Waiting
<1>2. /\ source' = source /\ reader_pos' = reader_pos /\ in_buf' = in_buf
  BY DEF body, At, reader
<1>3. bh.size \in Nat /\ body_needed(bh) \in Nat
  BY <1>1, FrameAssumption DEF BlockHeaders, body_needed
<1>4. in_pos + body_needed(bh) <= Len(in_buf)
  <2>1. Len(in_buf) - in_pos >= body_needed(bh)
    BY <1>1 DEF body, At, Filled, Avail, Need
  <2> QED
    BY <1>1, <1>3, <2>1
<1>5. \/ /\ in_pos' = in_pos /\ pc' = "idle"
         /\ phase' = phase /\ left' = left /\ frame' = frame
      \/ /\ in_pos' \in {in_pos, in_pos + body_needed(bh)} /\ pc' = "idle" /\ refused'
         /\ phase' = phase /\ left' = left
         /\ frame' = [frame EXCEPT !.ctx = block.ctx, !.win = block.out]
      \/ /\ in_pos' = in_pos + body_needed(bh)
         /\ pc' \in {"turn", "drain"} /\ left' = left
         /\ frame' = [frame EXCEPT !.ctx = block.ctx,
                            !.win = trim(block.out, frame.header.window, before),
                            !.hashed = @ \o new,
                            !.produced = @ + Len(new)]
         /\ phase' \in {"Footer", "Blocks"}
  <2>0. CASE bh.size > max
    BY <2>0 DEF body, Fail, Answer, decoder
  <2>1. CASE ~(bh.size > max) /\ ~block.ok
    BY <2>1 DEF body, Fail, Answer
  <2>2. CASE ~(bh.size > max \/ ~block.ok)
    <3>1. CASE total' > Limit
      BY <2>2, <3>1 DEF body, Fail, Answer, Consume
    <3>2. CASE ~(total' > Limit)
      BY <2>2, <3>2 DEF body, Goto, Consume
    <3> QED
      BY <3>1, <3>2
  <2> QED
    BY <2>0, <2>1, <2>2
<1>6. in_pos' \in 0 .. Len(in_buf)
  BY <1>1, <1>3, <1>4, <1>5
<1>7. Input' /\ InputBufferBounded'
  BY <1>2, <1>6, BufferStays
<1>8. refused => refused'
  BY RefusalStays DEF Next, Decoding
<1>9. /\ frame.ctx \in FrameContexts /\ frame.win \in Seq(Nat)
       /\ frame.hashed \in Seq(Nat) /\ frame.produced \in Nat
       /\ frame.header.window \in Nat
  BY <1>1 DEF FrameStates, Headers
<1>10. InPlace(h, frame.win)
  BY <1>9 DEF InPlace
<1>11. Extends(block.out, frame.win) /\ block.ctx \in FrameContexts
  <2> HIDE DEF h
  <2> QED
    BY <1>1, <1>4, <1>9, <1>10, BodyGrows
<1> HIDE DEF block, h
<1>12. /\ block.out \in Seq(Nat) /\ new \in Seq(Nat)
       /\ block.out = frame.win \o new
  BY <1>9, <1>11, AddedIs
<1> HIDE DEF new, before
<1>13. frame.produced = Len(frame.hashed)
  BY <1>1 DEF Recent, FrameStates, None
<1>14. CASE pc' = "idle" /\ phase' = phase /\ left' = left /\ frame' = frame
  <2>1. State' /\ Waiting' /\ Recent'
    BY <1>8, <1>14 DEF State, Waiting, Recent
  <2> QED
    BY <1>7, <2>1
<1>15. CASE /\ pc' = "idle" /\ refused' /\ phase' = phase /\ left' = left
            /\ frame' = [frame EXCEPT !.ctx = block.ctx, !.win = block.out]
  <2>1. /\ frame' \in FrameStates /\ frame'.hashed = frame.hashed
        /\ frame'.produced = frame.produced
    BY <1>1, <1>11, <1>12, <1>15 DEF FrameStates
  <2>2. State' /\ Waiting'
    BY <1>1, <1>15, <2>1 DEF State, Waiting
  <2>3. Recent'
    BY <1>13, <1>15, <2>1 DEF Recent
  <2> QED
    BY <1>7, <2>2, <2>3
<1>16. CASE /\ pc' \in {"turn", "drain"} /\ left' = left
           /\ frame' = [frame EXCEPT !.ctx = block.ctx,
                              !.win = trim(block.out, frame.header.window, before),
                              !.hashed = @ \o new,
                              !.produced = @ + Len(new)]
           /\ phase' \in {"Footer", "Blocks"}
  <2> DEFINE w    == frame.header.window
             told == Dictionary.content \o frame.hashed
  <2>5. /\ told \in Seq(Nat) /\ frame.hashed \o new \in Seq(Nat)
        /\ Len(frame.hashed \o new) = Len(frame.hashed) + Len(new)
        /\ Dictionary.content \o (frame.hashed \o new) = told \o new
    <3>1. Dictionary.content \in Seq(Nat)
      BY FrameAssumption
    <3>2. told \in Seq(Nat) /\ frame.hashed \o new \in Seq(Nat)
          /\ Len(frame.hashed \o new) = Len(frame.hashed) + Len(new)
      BY <1>9, <1>12, <3>1, ConcatProperties
    <3>3. Dictionary.content \o (frame.hashed \o new) = told \o new
      <4> DEFINE d == Dictionary.content
                 x == frame.hashed
      <4>1. d \in Seq(Nat) /\ x \in Seq(Nat) /\ new \in Seq(Nat)
        BY <1>9, <1>12, <3>1
      <4> HIDE DEF d, x
      <4>2. (d \o x) \o new = d \o (x \o new)
        BY <4>1, ConcatAssociative
      <4> QED
        BY <4>2 DEF d, x
    <3> QED
      BY <3>2, <3>3
  <2>6. trim(block.out, w, before) = LastOf(frame.win \o new, w)
    BY <1>12 DEF trim, LastOf
  <2>7. ASSUME ~refused PROVE LastOf(frame.win \o new, w) = LastOf(told \o new, w)
    <3>0. frame # None
      BY <1>1 DEF FrameStates, None
    <3>1. CASE frame.win = LastOf(told, w)
      <4> HIDE DEF told, w
      <4>1. told \in Seq(Nat) /\ w \in Nat
        BY <1>9, <2>5 DEF w
      <4>2. LastOf(LastOf(told, w) \o new, w) = LastOf(told \o new, w)
        BY <1>12, <4>1, LastOfLastOf
      <4> QED
        BY <3>1, <4>2
    <3>2. CASE frame.hashed = <<>> /\ frame.win = Dictionary.content
      <4>1. told = Dictionary.content
        BY <3>2, FrameAssumption, ConcatEmptySeq
      <4> QED
        BY <3>2, <4>1
    <3> QED
      BY <2>7, <3>0, <3>1, <3>2 DEF Recent
  <2>8. LastOf(frame.win \o new, w) \in Seq(Nat)
    <3> DEFINE x == frame.win \o new
    <3>1. x \in Seq(Nat) /\ w \in Nat
      BY <1>9, <1>12, ConcatProperties
    <3> HIDE DEF x, w
    <3>2. LastOf(x, w) \in Seq(Nat)
      BY <3>1, LastOfLastOf, EmptySeq
    <3> QED
      BY <3>2 DEF x
  <2>9. /\ frame'.kind = "frame" /\ frame'.header = frame.header
        /\ frame'.ctx = block.ctx /\ frame'.win = LastOf(frame.win \o new, w)
        /\ frame'.hashed = frame.hashed \o new
        /\ frame'.produced = frame.produced + Len(new)
        /\ frame' \in FrameStates
    <3>2. frame.produced + Len(new) \in Nat
      BY <1>9, <1>12
    <3> DEFINE win == trim(block.out, w, before)
               hashed == frame.hashed \o new
               produced == frame.produced + Len(new)
    <3>3. /\ win \in Seq(Nat) /\ hashed \in Seq(Nat) /\ produced \in Nat
          /\ block.ctx \in FrameContexts /\ frame \in FrameStates
          /\ frame' = [frame EXCEPT !.ctx = block.ctx, !.win = win,
                             !.hashed = hashed, !.produced = produced]
      BY <1>1, <1>16, <1>11, <2>5, <2>6, <2>8, <3>2
    <3> HIDE DEF win, hashed, produced
    <3>4. /\ frame'.kind = "frame" /\ frame'.header = frame.header
          /\ frame'.ctx = block.ctx /\ frame'.win = win
          /\ frame'.hashed = hashed /\ frame'.produced = produced
          /\ frame' \in FrameStates
      BY <3>3 DEF FrameStates
    <3> QED
      BY <2>6, <3>4 DEF win, hashed, produced
  <2>10. frame'.produced = Len(frame'.hashed)
    BY <1>13, <2>5, <2>9
  <2>11. ~refused => frame'.win = LastOf(Dictionary.content \o frame'.hashed,
                                         frame'.header.window)
    BY <2>5, <2>7, <2>9
  <2>12. Recent'
    BY <1>8, <2>10, <2>11 DEF Recent
  <2>13. State' /\ Waiting'
    BY <1>16, <2>9 DEF State, Waiting, Phases
  <2> QED
    BY <1>7, <2>12, <2>13
<1> QED
  BY <1>5, <1>14, <1>15, <1>16

\* Every step of the decoder, its reader and its caller keeps the invariant.
LEMMA InvariantStep == IInv /\ [Next]_vars => IInv'
<1> SUFFICES ASSUME IInv, [Next]_vars PROVE IInv'
  OBVIOUS
<1>1. CASE drain \/ truncated \/ reader_ends \/ reader_fails \/ Reads
  BY <1>1, NothingRead DEF Reads
<1>2. CASE turn_done \/ turn_frame_start \/ turn_skippable \/ turn_blocks \/ turn_footer
  BY <1>2, Turns
<1>3. CASE magic \/ skip_size \/ skippable \/ checksum
  BY <1>3, FieldsRead
<1>4. CASE header
  BY <1>4, HeaderRead
<1>5. CASE block_header
  BY <1>5, BlockHeaderRead
<1>6. CASE body
  BY <1>6, BodyDecoded
<1>7. CASE \E n \in PullSizes : reader_returns(n)
  BY <1>7, ReaderReturns
<1>8. CASE UNCHANGED vars
  BY <1>8 DEF IInv, Input, State, Waiting, InputBufferBounded, Recent, vars, reader,
              buffer, decoder, locals
<1> QED
  BY <1>1, <1>2, <1>3, <1>4, <1>5, <1>6, <1>7, <1>8 DEF Next, Decoding, Reader

\* The invariant of the streaming decoder: its input, its state, what each fill
\* waits for, and the window of its frame.
THEOREM Invariance == Spec => []IInv
<1> QED
  BY InitInvariant, InvariantStep, PTL DEF Spec

\* The decoder buffers no more compressed input than a block header, the block it
\* announces and the end of the answer that completed it: fill asks for nothing
\* that it has, and compact drops what was consumed.
THEOREM InputStaysBounded == Spec => []InputBufferBounded
<1>1. IInv => InputBufferBounded
  BY DEF IInv
<1> QED
  BY <1>1, Invariance, PTL

\* Until invalid data is reported, the window of every frame is the end of its
\* dictionary and output together, whatever blocks it has and however often the
\* reader fails: what decode_block trims is out of range.
THEOREM WindowsAreRecent == Spec => []WindowIsRecentHistory
<1>1. IInv => WindowIsRecentHistory
  <2> SUFFICES ASSUME IInv, frame # None, frame.produced > 0, ~refused
               PROVE  frame.win = LastOf(Dictionary.content \o frame.hashed,
                                         frame.header.window)
    BY DEF WindowIsRecentHistory
  <2>1. frame.produced = Len(frame.hashed)
    BY DEF IInv, Recent
  <2>2. frame.hashed # <<>>
    BY <2>1
  <2> QED
    BY <2>2 DEF IInv, Recent
<1> QED
  BY <1>1, Invariance, PTL

-----------------------------------------------------------------------------
(* The frame state is there when it is needed.                             *)

\* finish_frame took the frame state and did not get to the next frame.
Lost == phase = "Footer" /\ frame = None /\ pc # "checksum"

\* What the fills outside of blocks belong to, and that nothing is queued while the
\* decoder runs; a frame state is lost with an error, after which a read turns to
\* the footer again.
Footed ==
    /\ pc \in {"magic", "skip_size", "header"} => phase = "FrameStart"
    /\ pc = "skippable" => phase = "Skippable"
    /\ pc = "checksum" => phase = "Footer"
    /\ pc \notin {"idle", "drain"} => out_ready = <<>> /\ out_pos = 0
    /\ Lost => /\ pc \in {"idle", "turn"} /\ result \in Errors \cup {"panic"}
               /\ out_ready = <<>> /\ out_pos = 0

\* A panic, and a turn that is about to, come of reading on.
PanicOrigins ==
    /\ result' = "panic" => result = "panic" \/ (Lost /\ pc = "turn")
    /\ Lost' /\ pc' = "turn" => Lost /\ (pc = "turn" \/ (Reads /\ pc = "idle"))

\* A block ends in an error, or the frame goes on.
LEMMA BodyGoesOn ==
    ASSUME body, frame \in FrameStates
    PROVE  \/ pc' = "idle" /\ phase' = phase /\ result' = "invalid data"
           \/ /\ pc' \in {"turn", "drain"} /\ result' = result /\ frame' # None
              /\ pc' = "turn" => out_ready' = <<>>
              /\ out_pos' = out_pos
<1> DEFINE max    == BlockSizeMax(frame.header)
           before == Len(frame.win)
           h      == [content |-> <<>>, frame_base |-> 0, block_start |-> before,
                      block_size_max |-> max, limit |-> NoLimit]
           block  == DecodeBody(bh, in_buf, in_pos, frame.ctx, h, frame.win)
           new    == SubSeq(block.out, before + 1, Len(block.out))
<1>1. CASE bh.size > max
  BY <1>1 DEF body, Fail, Answer, decoder
<1>2. CASE ~(bh.size > max) /\ ~block.ok
  BY <1>2 DEF body, Fail, Answer
<1>3. CASE ~(bh.size > max \/ ~block.ok)
  <2>1. CASE total' > Limit
    BY <1>3, <2>1 DEF body, Fail, Answer
  <2>2. CASE ~(total' > Limit)
    <3>1. /\ pc' = (IF out_ready' = <<>> THEN "turn" ELSE "drain") /\ result' = result
          /\ out_pos' = out_pos
          /\ frame' = [frame EXCEPT !.ctx = block.ctx,
                             !.win = trim(block.out, frame.header.window, before),
                             !.hashed = @ \o new,
                             !.produced = @ + Len(new)]
      BY <1>3, <2>2 DEF body, Goto
    <3> HIDE DEF block, new, before
    <3>2. frame'.kind = "frame"
      BY <3>1 DEF FrameStates
    <3>3. frame' # None
      BY <3>2 DEF None
    <3> QED
      BY <3>1, <3>3
  <2> QED
    BY <2>1, <2>2
<1> QED
  BY <1>1, <1>2, <1>3

LEMMA NothingQueued ==
    ASSUME NEW ready, NEW at, ready = <<>>, at = 0 PROVE ~(at < Len(ready))
<1>1. Len(ready) = 0
  OBVIOUS
<1> QED
  BY <1>1

\* No step loses the frame state but with an error, and none panics but for it.
LEMMA FooterStep ==
    ASSUME IInv, Footed, [Next]_vars
    PROVE  Footed' /\ PanicOrigins
<1> USE DEF Footed, PanicOrigins, Lost, Errors
<1>1. CASE drain
  <2>1. /\ pc = "drain" /\ pc' = "idle" /\ result' = "bytes"
        /\ phase' = phase /\ frame' = frame
    BY <1>1 DEF drain, HandOut, Answer, Return, decoder
  <2> QED
    BY <2>1
<1>2. CASE turn_done \/ turn_frame_start \/ turn_blocks \/ turn_skippable
  <2>1. pc = "turn" /\ out_ready' = out_ready /\ out_pos' = out_pos /\ phase # "Footer"
    BY <1>2 DEF turn_done, turn_frame_start, turn_blocks, turn_skippable, Turn, output
  <2> QED
    BY <1>2, <2>1 DEF turn_done, turn_frame_start, turn_blocks, turn_skippable, Turn,
                      Goto, Answer, Return, decoder
<1>3. CASE turn_footer
  <2>1. /\ phase = "Footer" /\ pc = "turn" /\ frame' = None
        /\ out_ready' = out_ready /\ out_pos' = out_pos
    BY <1>3 DEF turn_footer, Turn, output
  <2>2. \/ frame = None /\ pc' = "idle" /\ result' = "panic" /\ phase' = phase
        \/ pc' = "idle" /\ result' = "invalid data" /\ phase' = phase
        \/ pc' = "checksum" /\ phase' = phase /\ result' = result
        \/ pc' = pc /\ phase' = "FrameStart" /\ result' = result
    BY <1>3 DEF turn_footer, Fail, Answer, Return, Goto
  <2> QED
    BY <2>1, <2>2
<1>4. CASE truncated
  <2>1. /\ pc' = "idle" /\ frame' = frame /\ pc \notin {"idle", "drain"}
        /\ out_ready' = out_ready /\ out_pos' = out_pos
        /\ \/ phase' = "Done" /\ result' = "end"
           \/ phase' = phase /\ result' = "invalid data"
    BY <1>4 DEF truncated, Short, FillPoints, Fail, Answer, Return, output
  <2> QED
    BY <2>1
<1>5. CASE magic
  <2> DEFINE kind == FieldAt(in_buf, in_pos, MagicCells).kind
  <2>1. /\ phase = "FrameStart" /\ phase' = phase /\ pc = "magic"
        /\ out_ready' = out_ready /\ out_pos' = out_pos
    BY <1>5 DEF magic, At, decoder, output
  <2>2. /\ pc' \in {"header", "skip_size", "idle"}
        /\ result' \in {result, "invalid data"}
    <3>1. CASE kind = "magic" \/ kind = "skipmagic"
      BY <1>5, <3>1 DEF magic, Goto
    <3>2. CASE ~(kind = "magic" \/ kind = "skipmagic")
      BY <1>5, <3>2 DEF magic, Fail, Answer
    <3> QED
      BY <3>1, <3>2
  <2> QED
    BY <2>1, <2>2
<1>6. CASE skip_size
  BY <1>6 DEF skip_size, At, Goto, output
<1>7. CASE skippable
  BY <1>7 DEF skippable, At, Goto, output
<1>8. CASE header
  <2>1. /\ pc = "header" /\ phase = "FrameStart"
        /\ out_ready' = out_ready /\ out_pos' = out_pos
    BY <1>8 DEF header, output
  <2>2. \/ pc' = "idle" /\ phase' = phase /\ result' = "invalid data"
        \/ pc' = "turn" /\ phase' = "Blocks" /\ result' = result
    BY <1>8 DEF header, Fail, Answer, Goto, decoder
  <2> QED
    BY <2>1, <2>2
<1>9. CASE block_header
  <2>1. /\ pc = "block_header" /\ phase = "Blocks" /\ phase' = phase
        /\ out_ready' = out_ready /\ out_pos' = out_pos
    BY <1>9 DEF block_header, At, decoder, output, IInv, Waiting
  <2>2. pc' \in {"idle", "body"} /\ result' \in {result, "invalid data"}
    BY <1>9 DEF block_header, Fail, Answer, Goto
  <2> QED
    BY <2>1, <2>2
<1>10. CASE body
  <2>1. pc = "body" /\ phase = "Blocks" /\ frame \in FrameStates
    BY <1>10 DEF IInv, Waiting, body, At
  <2>2. \/ pc' = "idle" /\ phase' = phase /\ result' = "invalid data"
        \/ /\ pc' \in {"turn", "drain"} /\ result' = result /\ frame' # None
           /\ pc' = "turn" => out_ready' = <<>>
           /\ out_pos' = out_pos
    BY <1>10, <2>1, BodyGoesOn
  <2> QED
    BY <2>1, <2>2
<1>11. CASE checksum
  <2>1. pc = "checksum" /\ out_ready' = out_ready /\ out_pos' = out_pos
    BY <1>11 DEF checksum, At, output
  <2>2. \/ pc' = "turn" /\ phase' = "FrameStart" /\ result' = result
        \/ pc' = "idle" /\ phase' = phase /\ result' = "invalid data"
    BY <1>11 DEF checksum, Fail, Answer, Goto
  <2> QED
    BY <2>1, <2>2
<1>12. CASE reader_ends \/ \E n \in PullSizes : reader_returns(n)
  BY <1>12 DEF reader_ends, reader_returns, decoder, output
<1>13. CASE reader_fails
  <2>1. /\ pc \in FillPoints /\ pc' = "idle" /\ result' = "reader error"
        /\ phase' = phase /\ frame' = frame /\ out_ready' = out_ready /\ out_pos' = out_pos
    BY <1>13 DEF reader_fails, Reading, Answer, Return, decoder, output
  <2> QED
    BY <2>1 DEF FillPoints
<1>14. CASE Reads
  <2>1. PICK n \in ReadSizes : read(n)
    BY <1>14 DEF Reads
  <2>2. pc = "idle" /\ phase' = phase /\ frame' = frame
    BY <2>1 DEF read, decoder
  <2>3. CASE out_pos < Len(out_ready)
    <3>1. pc' = "idle" /\ result' = "bytes"
      BY <2>1, <2>3 DEF read, HandOut, Answer, Return
    <3>2. Lost => out_ready = <<>> /\ out_pos = 0
      OBVIOUS
    <3>3. out_ready = <<>> /\ out_pos = 0 => ~(out_pos < Len(out_ready))
      BY NothingQueued
    <3>4. ~Lost
      <4> HIDE DEF Lost
      <4> QED
        BY <2>3, <3>2, <3>3, Zenon
    <3> QED
      BY <2>2, <3>1, <3>4
  <2>4. CASE ~(out_pos < Len(out_ready))
    <3>1. pc' = "turn" /\ result' = result /\ out_ready' = <<>> /\ out_pos' = 0
      BY <2>1, <2>4 DEF read
    <3> QED
      BY <1>14, <2>2, <3>1
  <2> QED
    BY <2>3, <2>4
<1>15. CASE UNCHANGED vars
  BY <1>15 DEF vars, decoder, output
<1> QED
  BY <1>1, <1>2, <1>3, <1>4, <1>5, <1>6, <1>7, <1>8, <1>9, <1>10, <1>11, <1>12,
     <1>13, <1>14, <1>15 DEF Next, Decoding, Reader

LEMMA FootedHolds == Spec => []Footed
<1>1. Init => Footed
  BY DEF Init, Footed, Lost
<1>2. IInv /\ Footed /\ [Next]_vars => Footed'
  BY FooterStep
<1> QED
  BY <1>1, <1>2, Invariance, PTL DEF Spec

\* finish_frame finds the frame state it takes, except in a read that follows an
\* error it reported itself: a wrong content size, a checksum that is wrong or
\* missing, or a failure of the reader in the middle of it.
THEOREM PanicsAreAnnounced == Spec => PanicsFollowFooterErrors
<1>1. IInv /\ Footed /\ [Next]_vars =>
          [result' = "panic" /\ result # "panic" => phase = "Footer" /\ result \in Errors]_vars
  <2> SUFFICES ASSUME IInv, Footed, [Next]_vars, result' = "panic", result # "panic"
               PROVE  phase = "Footer" /\ result \in Errors
    OBVIOUS
  <2>1. Lost
    BY FooterStep DEF PanicOrigins
  <2> QED
    BY <2>1 DEF Footed, Lost
<1> QED
  BY <1>1, Invariance, FootedHolds, PTL DEF Spec, PanicsFollowFooterErrors

\* A caller that stops at the errors of a footer never sees a panic, whatever other
\* errors it reads on after.
THEOREM NothingPanics == Spec /\ StopsAtFooterErrors => []NeverPanics
<1> DEFINE Unharmed == result # "panic" /\ ~(Lost /\ pc = "turn")
<1>1. Init => Unharmed
  BY DEF Init, Lost
<1>2. IInv /\ Footed /\ Unharmed /\ [Next]_vars
          /\ [Reads => ~(phase = "Footer" /\ result \in Errors)]_vars
      => Unharmed'
  <2> SUFFICES ASSUME IInv, Footed, Unharmed, [Next]_vars,
                      [Reads => ~(phase = "Footer" /\ result \in Errors)]_vars
               PROVE  Unharmed'
    OBVIOUS
  <2>1. PanicOrigins
    BY FooterStep
  <2>2. result' # "panic"
    BY <2>1 DEF PanicOrigins
  <2>3. ASSUME Lost', pc' = "turn" PROVE FALSE
    <3>1. Lost /\ Reads /\ pc = "idle"
      BY <2>1, <2>3 DEF PanicOrigins
    <3>2. phase = "Footer" /\ result \in Errors
      BY <3>1 DEF Footed, Lost
    <3>3. vars' = vars
      BY <3>1, <3>2
    <3> QED
      BY <2>3, <3>1, <3>3 DEF vars
  <2> QED
    BY <2>2, <2>3
<1>3. Unharmed => NeverPanics
  BY DEF NeverPanics
<1> QED
  BY <1>1, <1>2, <1>3, Invariance, FootedHolds, PTL DEF Spec, StopsAtFooterErrors

-----------------------------------------------------------------------------
(* The limit on the output.                                                *)

Produced == Len(delivered) + (Len(out_ready) - out_pos)

\* What was decoded has been delivered or is queued, in all frames together, but
\* for the blocks that went beyond the limit: the rest is within it.
Queue ==
    /\ out_ready \in Seq(Nat) /\ delivered \in Seq(Nat)
    /\ out_pos \in 0 .. Len(out_ready) /\ total \in Nat
    /\ Produced <= Limit
    /\ Produced <= total
    /\ buf_len \in Nat

\* Bytes that are handed out leave the queue.
LEMMA HandOutQueued ==
    ASSUME Queue, NEW n \in Nat, HandOut(n)
    PROVE  Queue'
<1> DEFINE m == IF Len(out_ready) - out_pos < n THEN Len(out_ready) - out_pos ELSE n
           piece == SubSeq(out_ready, out_pos + 1, out_pos + m)
<1>1. /\ out_ready \in Seq(Nat) /\ delivered \in Seq(Nat)
      /\ out_pos \in 0 .. Len(out_ready) /\ total \in Nat
  BY DEF Queue
<1>2. Len(out_ready) \in Nat /\ Len(delivered) \in Nat
  BY <1>1, LenProperties
<1> DEFINE ready == Len(out_ready)
           given == Len(delivered)
<1>3. ready \in Nat /\ given \in Nat /\ out_pos \in 0 .. ready
  BY <1>1, <1>2
<1> HIDE DEF ready, given
<1>4. m = IF ready - out_pos < n THEN ready - out_pos ELSE n
  BY DEF ready
<1>5. /\ delivered' = delivered \o piece /\ out_pos' = out_pos + m
      /\ out_ready' = out_ready /\ total' = total
      /\ buf_len' = 0
  BY DEF HandOut, Answer, Return
<1> HIDE DEF m
<1>6. m \in Nat /\ out_pos + m \in out_pos .. ready /\ (out_pos + m) - out_pos = m
  BY <1>3, <1>4
<1>7. piece \in Seq(Nat) /\ Len(piece) = m
  BY <1>1, <1>6, Slice DEF ready
<1> HIDE DEF piece
<1>8. delivered' \in Seq(Nat) /\ Len(delivered') = given + m
  BY <1>1, <1>5, <1>7, ConcatProperties DEF given
<1>9. out_pos' \in 0 .. Len(out_ready')
  <2>1. out_pos + m \in 0 .. ready
    BY <1>3, <1>6
  <2> QED
    BY <1>5, <2>1 DEF ready
<1>10. Produced' = Produced
  <2>1. (given + m) + (ready - (out_pos + m)) = given + (ready - out_pos)
    BY <1>3, <1>6
  <2>2. Produced' = (given + m) + (ready - (out_pos + m))
    BY <1>5, <1>8 DEF Produced, ready
  <2>3. Produced = given + (ready - out_pos)
    BY DEF Produced, ready, given
  <2> QED
    BY <2>1, <2>2, <2>3
<1>11. Produced <= Limit /\ Produced <= total
  BY DEF Queue
<1> QED
  BY <1>1, <1>5, <1>8, <1>9, <1>10, <1>11 DEF Queue

\* A block that is accepted has its output queued, within the limit.
LEMMA BodyQueued ==
    ASSUME IInv, Queue, body
    PROVE  Queue'
<1> DEFINE max    == BlockSizeMax(frame.header)
           before == Len(frame.win)
           h      == [content |-> <<>>, frame_base |-> 0, block_start |-> before,
                      block_size_max |-> max, limit |-> NoLimit]
           block  == DecodeBody(bh, in_buf, in_pos, frame.ctx, h, frame.win)
           new    == SubSeq(block.out, before + 1, Len(block.out))
<1> DEFINE ready == Len(out_ready)
           given == Len(delivered)
<1>1. /\ out_ready \in Seq(Nat) /\ delivered \in Seq(Nat)
      /\ out_pos \in 0 .. Len(out_ready) /\ total \in Nat
      /\ Produced <= Limit /\ Produced <= total /\ buf_len \in Nat
  BY DEF Queue
<1>0. /\ ready \in Nat /\ given \in Nat /\ Limit \in Nat /\ total \in Nat
      /\ out_pos \in 0 .. ready /\ given + (ready - out_pos) <= total
  <2>1. Len(out_ready) \in Nat /\ Len(delivered) \in Nat
    BY <1>1, LenProperties
  <2>2. given + (ready - out_pos) <= total
    BY <1>1 DEF Produced
  <2> QED
    BY <1>1, <2>1, <2>2, FrameAssumption
<1>2. delivered' = delivered
  BY DEF body, At
<1>3. CASE bh.size > max \/ ~block.ok
  <2>1. /\ out_ready' = out_ready /\ out_pos' = out_pos /\ total' = total
        /\ buf_len' = 0
    BY <1>3 DEF body, Fail, Answer, output
  <2> QED
    BY <1>1, <1>2, <2>1 DEF Queue, Produced
<1>4. CASE ~(bh.size > max \/ ~block.ok)
  <2>1. new \in Seq(Nat)
    <3>1. /\ in_buf \in Seq(Cell) /\ in_pos \in 0 .. Len(in_buf) /\ Len(in_buf) \in Nat
          /\ frame \in FrameStates /\ bh \in BlockHeaders
          /\ Len(in_buf) - in_pos >= body_needed(bh)
      BY DEF IInv, Input, body, At, Waiting, Filled, Avail, Need
    <3>2. body_needed(bh) \in Nat
      BY <3>1, FrameAssumption DEF BlockHeaders, body_needed
    <3>3. in_pos + body_needed(bh) <= Len(in_buf)
      BY <3>1, <3>2
    <3>4. frame.ctx \in FrameContexts /\ frame.win \in Seq(Nat)
      BY <3>1 DEF FrameStates
    <3>5. InPlace(h, frame.win)
      BY <3>4 DEF InPlace
    <3>6. Extends(block.out, frame.win)
      <4> HIDE DEF h
      <4> QED
        BY <1>4, <3>1, <3>3, <3>4, <3>5, BodyGrows
    <3> HIDE DEF block
    <3> QED
      BY <3>4, <3>6, AddedIs
  <2>2. /\ total' = total + Len(new)
        /\ \/ /\ total' > Limit /\ buf_len' = 0
              /\ out_ready' = out_ready /\ out_pos' = out_pos
           \/ /\ total' <= Limit /\ buf_len' = buf_len
              /\ out_ready' = out_ready \o new /\ out_pos' = out_pos
    <3>0. total' = total + Len(new) /\ Len(new) \in Nat
      <4>1. total' = total + Len(new)
        BY <1>4 DEF body
      <4> HIDE DEF new
      <4>2. Len(new) \in Nat
        BY <2>1, LenProperties
      <4> QED
        BY <4>1, <4>2
    <3>1. CASE total' > Limit
      BY <1>4, <3>0, <3>1 DEF body, Fail, Answer
    <3>2. CASE ~(total' > Limit)
      <4>1. total' <= Limit
        <5> HIDE DEF new
        <5>1. total' \in Nat
          BY <1>0, <3>0
        <5> QED
          BY <1>0, <3>2, <5>1
      <4> QED
        BY <1>4, <3>0, <3>2, <4>1 DEF body, Goto
    <3> QED
      BY <3>1, <3>2
  <2> HIDE DEF new, block
  <2>3. /\ out_ready \o new \in Seq(Nat)
        /\ Len(out_ready \o new) = ready + Len(new)
        /\ Len(new) \in Nat
    BY <1>1, <2>1, ConcatProperties, LenProperties
  <2> DEFINE added == Len(new)
  <2>0. added \in Nat
    BY <2>3
  <2>4. CASE /\ total' > Limit /\ buf_len' = 0
             /\ out_ready' = out_ready /\ out_pos' = out_pos
    <3>1. Produced' = Produced
      BY <1>2, <2>4 DEF Produced
    <3>2. total' \in Nat /\ Produced <= total'
      <4>1. Produced = given + (ready - out_pos)
        BY DEF Produced
      <4>2. total' = total + added
        BY <2>2
      <4> HIDE DEF added, ready, given
      <4> QED
        BY <1>0, <2>0, <4>1, <4>2
    <3> QED
      BY <1>1, <1>2, <2>4, <3>1, <3>2 DEF Queue
  <2>5. CASE /\ total' <= Limit /\ buf_len' = buf_len
             /\ out_ready' = out_ready \o new /\ out_pos' = out_pos
    <3>1. Produced' = given + ((ready + added) - out_pos)
      BY <1>2, <2>3, <2>5 DEF Produced
    <3>2. total' = total + added
      BY <2>2
    <3> HIDE DEF added, ready, given
    <3>3. /\ given + ((ready + added) - out_pos) <= total + added
          /\ total + added \in Nat /\ out_pos \in 0 .. ready + added
      BY <1>0, <2>0
    <3>4. Produced' <= total' /\ total' \in Nat /\ Produced' \in Nat
      BY <1>0, <2>0, <3>1, <3>2, <3>3
    <3>5. out_ready' \in Seq(Nat) /\ out_pos' \in 0 .. Len(out_ready')
      BY <2>3, <2>5, <3>3 DEF added
    <3>6. delivered' \in Seq(Nat) /\ buf_len' \in Nat
      BY <1>1, <1>2, <2>5
    <3>7. Produced' <= Limit
      BY <1>0, <2>5, <3>4
    <3> QED
      BY <3>4, <3>5, <3>6, <3>7 DEF Queue
  <2> QED
    BY <2>2, <2>4, <2>5
<1> QED
  BY <1>3, <1>4

\* The caller never gets more than the limit it set (DecodeOptions::limit), over all
\* the frames of the input together.
THEOREM LimitKept == Spec => [](Len(delivered) <= Limit)
<1>1. Init => Queue
  BY FrameAssumption DEF Init, Queue, Produced
<1>2. IInv /\ Queue /\ [Next]_vars => Queue'
  <2> SUFFICES ASSUME IInv, Queue, [Next]_vars PROVE Queue'
    OBVIOUS
  <2>1. CASE drain
    <3>1. buf_len \in Nat /\ HandOut(buf_len)
      BY <2>1 DEF drain, Queue
    <3> QED
      BY <3>1, HandOutQueued
  <2>2. CASE Reads
    <3>1. PICK n \in ReadSizes : read(n)
      BY <2>2 DEF Reads
    <3>2. n \in Nat
      BY StreamAssumption
    <3>3. CASE out_pos < Len(out_ready)
      BY <3>1, <3>2, <3>3, HandOutQueued DEF read
    <3>4. CASE ~(out_pos < Len(out_ready))
      <4>1. /\ out_ready' = <<>> /\ out_pos' = 0 /\ total' = total
            /\ delivered' = delivered /\ buf_len' = n
        BY <3>1, <3>4 DEF read
      <4>2. Len(out_ready) - out_pos = 0
        BY <3>4 DEF Queue
      <4>3. Len(out_ready') = 0 /\ out_ready' \in Seq(Nat) /\ Len(delivered) \in Nat
        BY <4>1, EmptySeq DEF Queue
      <4>4. Produced' = Produced
        <5>1. Produced' = Len(delivered) + (0 - 0) /\ Produced = Len(delivered) + 0
          BY <4>1, <4>2, <4>3 DEF Produced
        <5> QED
          BY <4>3, <5>1
      <4>5. /\ Produced <= Limit /\ Produced <= total /\ delivered \in Seq(Nat)
            /\ total \in Nat
        BY <4>1 DEF Queue
      <4>6. out_pos' \in 0 .. Len(out_ready')
        BY <4>1, <4>3
      <4> QED
        BY <3>2, <4>1, <4>3, <4>4, <4>5, <4>6 DEF Queue
    <3> QED
      BY <3>3, <3>4
  <2>3. CASE body
    BY <2>3, BodyQueued
  <2>4. ASSUME UNCHANGED <<output, delivered>>, buf_len' \in {0, buf_len}
        PROVE  Queue'
    BY <2>4 DEF Queue, Produced, output
  <2>5. CASE turn_done \/ turn_frame_start \/ turn_skippable \/ turn_blocks
    BY <2>4, <2>5 DEF turn_done, turn_frame_start, turn_skippable, turn_blocks, Turn,
                      Answer, Return, Goto
  <2>6. CASE turn_footer
    BY <2>4, <2>6 DEF turn_footer, Turn, Answer, Return, Fail, Goto
  <2>7. CASE truncated
    BY <2>4, <2>7 DEF truncated, Answer, Return, Fail
  <2>8. CASE magic
    BY <2>4, <2>8 DEF magic, At, Answer, Return, Fail, Goto
  <2>9. CASE skip_size \/ skippable \/ checksum
    BY <2>4, <2>9 DEF skip_size, skippable, checksum, At, Answer, Return, Fail, Goto
  <2>10. CASE header \/ block_header
    BY <2>4, <2>10 DEF header, block_header, At, Answer, Return, Fail, Goto
  <2>11. CASE reader_ends \/ reader_fails \/ \E n \in PullSizes : reader_returns(n)
    BY <2>4, <2>11 DEF reader_ends, reader_fails, reader_returns, locals, Answer, Return
  <2>12. CASE UNCHANGED vars
    BY <2>12 DEF Queue, Produced, vars, output, locals
  <2> QED
    BY <2>1, <2>2, <2>3, <2>5, <2>6, <2>7, <2>8, <2>9, <2>10, <2>11, <2>12
       DEF Next, Decoding, Reader
<1>3. Queue => Len(delivered) <= Limit
  <2> SUFFICES ASSUME Queue PROVE Len(delivered) <= Limit
    OBVIOUS
  <2>1. /\ Len(delivered) \in Nat /\ Len(out_ready) - out_pos \in Nat
        /\ Len(delivered) + (Len(out_ready) - out_pos) <= Limit
    BY DEF Queue, Produced
  <2> QED
    BY <2>1, FrameAssumption
<1> QED
  BY <1>1, <1>2, <1>3, Invariance, PTL DEF Spec
=============================================================================
