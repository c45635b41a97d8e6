----------------------------- MODULE Decompress -----------------------------
(***************************************************************************)
(* One-shot decompression (decompress.rs): frames and skippable frames one *)
(* after the other, each frame block by block, the whole output kept.  The *)
(* result is the output, or ok FALSE for any error.                        *)
(***************************************************************************)
EXTENDS Frame

Refused == [ok |-> FALSE, out |-> <<>>, at |-> 0]

RECURSIVE decode_blocks(_, _, _, _, _, _)
\* The blocks of a frame whose output starts at frame_base.
decode_blocks(input, at, header, frame_base, ctx, out) ==
    IF at + BlockHeaderCells > Len(input) THEN Refused
    ELSE
    LET bh   == FieldAt(input, at, BlockHeaderCells)
        data == at + BlockHeaderCells
        max  == BlockSizeMax(header)
        h    == [content |-> Dictionary.content, frame_base |-> frame_base,
                 block_start |-> Len(out), block_size_max |-> max, limit |-> Limit]
    IN  IF BlockRefused(bh) THEN Refused
        ELSE IF bh.size > max \/ data + body_needed(bh) > Len(input) THEN Refused
        ELSE LET block == DecodeBody(bh, input, data, ctx, h, out)
                 next  == data + body_needed(bh)
             IN  IF ~block.ok THEN Refused
                 ELSE IF bh.last THEN [ok |-> TRUE, out |-> block.out, at |-> next]
                 ELSE decode_blocks(input, next, header, frame_base,
                                    block.ctx, block.out)

\* Content size and checksum, once the last block is there.
frame_end(input, header, frame_base, blocks) ==
    LET content == SubSeq(blocks.out, frame_base + 1, Len(blocks.out))
        next    == blocks.at + ChecksumCells
    IN  IF SizeMismatch(header, Len(content)) THEN Refused
        ELSE IF ~header.has_checksum THEN blocks
        ELSE IF next > Len(input) THEN Refused
        ELSE IF FieldAt(input, blocks.at, ChecksumCells)
                    # [kind |-> "checksum", of |-> content]
        THEN Refused
        ELSE [blocks EXCEPT !.at = next]

decode_frame(input, at, out) ==
    LET header == HeaderAt(input, at)
    IN  IF HeaderRefused(header) THEN Refused
        ELSE IF /\ header.content_size # NoContentSize
                /\ header.content_size + Len(out) > Limit
        THEN Refused
        ELSE LET blocks == decode_blocks(input, at + HeaderCells, header, Len(out),
                                         with_dictionary(Dictionary), out)
             IN  IF blocks.ok THEN frame_end(input, header, Len(out), blocks)
                 ELSE Refused

RECURSIVE decompress_from(_, _, _)
decompress_from(input, at, out) ==
    IF at = Len(input) THEN [ok |-> TRUE, out |-> out, at |-> at]
    ELSE IF at + MagicCells > Len(input) THEN Refused
    ELSE
    LET magic == FieldAt(input, at, MagicCells)
        after == at + MagicCells
    IN  IF magic.kind = "magic"
        THEN LET frame == decode_frame(input, after, out)
             IN  IF frame.ok THEN decompress_from(input, frame.at, frame.out)
                 ELSE Refused
        ELSE IF magic.kind # "skipmagic" \/ after + SizeCells > Len(input)
        THEN Refused
        ELSE LET size == SizeAt(input, after)
             IN  IF after + SizeCells + size > Len(input) THEN Refused
                 ELSE decompress_from(input, after + SizeCells + size, out)

decompress(input) == decompress_from(input, 0, <<>>)
=============================================================================
