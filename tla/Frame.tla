-------------------------------- MODULE Frame --------------------------------
(***************************************************************************)
(* Compressed data as both decoders read it.  A field of the format (a     *)
(* magic number, a header, a block body ...) is a record; on the wire it is*)
(* a number of cells, which are what is buffered, counted and cut off: a   *)
(* cell says which piece of which field it is.  Literal bytes are cells of *)
(* their own.  Reading a field where there is none yields Garbage.         *)
(***************************************************************************)
EXTENDS BlockDecode

CONSTANTS
    WindowMax,          \* the largest window accepted, window_log_max
    Limit,              \* the limit on the whole output
    BLOCK_SIZE_MAX,
    BlockSizeField,     \* the largest size a block header can say (21 bits)
    Dictionary          \* the caller's dictionary, or NoDictionary

\* The number of cells of the fields whose size is fixed.
MagicCells == 2
SizeCells == 2          \* of a skippable frame, after its magic
HeaderCells == 2
BlockHeaderCells == 2
ChecksumCells == 2

Garbage == [kind |-> "garbage"]
GarbageByte == 99
GarbageSize == 99

\* The fields that are written.
Fields ==
    [kind : {"magic", "skipmagic"}]
    \cup [kind : {"size"}, n : Nat]
    \cup [kind : {"header"}, window : Nat, content_size : Int,
          has_checksum : BOOLEAN, dict_id : Nat]
    \cup [kind : {"block"}, type : {"raw", "rle", "compressed", "reserved"},
          size : 0 .. BlockSizeField, last : BOOLEAN]
    \cup [kind : {"body"}, body : BodyType(Nat)]
    \cup [kind : {"checksum"}, of : Seq(Nat)]
    \cup [kind : {"byte"}, value : Nat]

Cell == [field : Fields, piece : Nat, of : Nat]

\* The offsets a dictionary starts with are not zero: dictionary.rs sees to it.
ASSUME FrameAssumption ==
    /\ WindowMax \in Nat /\ Limit \in Nat
    /\ BLOCK_SIZE_MAX \in Nat /\ BlockSizeField \in Nat
    /\ Dictionary.content \in Seq(Nat)
    /\ Dictionary.slots \subseteq TableSlots \cup {"huffman"}
    /\ Dictionary.rep \in Seq(Nat \ {0}) /\ Len(Dictionary.rep) = 3

Cells(field, n) == [k \in 1 .. n |-> [field |-> field, piece |-> k, of |-> n]]
ByteCells(bytes) ==
    [k \in DOMAIN bytes |->
        [field |-> [kind |-> "byte", value |-> bytes[k]], piece |-> 1, of |-> 1]]

\* The field of n cells that follows the first `at` cells of buf.
FieldAt(buf, at, n) ==
    IF n > 0 /\ \A k \in 1 .. n : buf[at + k] = [field |-> buf[at + 1].field,
                                                 piece |-> k, of |-> n]
    THEN buf[at + 1].field ELSE Garbage

BytesAt(buf, at, n) ==
    [k \in 1 .. n |-> IF buf[at + k].field.kind = "byte"
                      THEN buf[at + k].field.value ELSE GarbageByte]

\* The size of a skippable frame is whatever its four bytes say.
SizeAt(buf, at) ==
    LET field == FieldAt(buf, at, SizeCells)
    IN  IF field.kind = "size" THEN field.n ELSE GarbageSize

\* frame::parse, and what both callers make of the header: the window limit and
\* the dictionary the frame asks for.
HeaderAt(buf, at) ==
    IF at + HeaderCells > Len(buf) THEN Garbage ELSE FieldAt(buf, at, HeaderCells)

HeaderRefused(header) ==
    \/ header.kind # "header"
    \/ header.window > WindowMax
    \/ header.dict_id # 0 /\ header.dict_id # Dictionary.id

BlockSizeMax(header) == IF header.window < BLOCK_SIZE_MAX
                        THEN header.window ELSE BLOCK_SIZE_MAX

NoContentSize == -1
SizeMismatch(header, n) ==
    header.content_size # NoContentSize /\ header.content_size # n

\* Blocks: the cells a block takes, and the frame after it.
body_needed(bh) == IF bh.type = "rle" THEN 1 ELSE bh.size

BlockRefused(bh) == bh.kind # "block" \/ bh.type = "reserved"

DecodeBody(bh, buf, at, ctx, h, out) ==
    IF bh.type = "compressed"
    THEN LET field == FieldAt(buf, at, bh.size)
         IN  IF field.kind # "body" THEN [ok |-> FALSE, out |-> out, ctx |-> ctx]
             ELSE decode_compressed_block(ctx, field.body, h, out)
    ELSE [ok |-> Len(out) + bh.size <= h.limit,
          out |-> out \o IF bh.type = "raw" THEN BytesAt(buf, at, bh.size)
                         ELSE Repeated(BytesAt(buf, at, 1)[1], bh.size),
          ctx |-> ctx]
=============================================================================
