--------------------------- MODULE MCStreamDecoder ---------------------------
(* Sources for the stream decoder.  Windows are four bytes, so are blocks.    *)
EXTENDS StreamDecoderAgreement

Header(window, size, sum, id) ==
    Cells([kind |-> "header", window |-> window, content_size |-> size,
           has_checksum |-> sum, dict_id |-> id], HeaderCells)

BH(type, size, last) ==
    Cells([kind |-> "block", type |-> type, size |-> size, last |-> last],
          BlockHeaderCells)

\* A block is what it is made of: BlockCells gives it its header.
Raw(bytes) == [type |-> "raw", size |-> Len(bytes), data |-> ByteCells(bytes)]
Rle(b, n)  == [type |-> "rle", size |-> n, data |-> ByteCells(<<b>>)]
Packed(lit_type, literals, sequences, repeats) ==
    [type |-> "compressed", size |-> 2,
     data |-> Cells([kind |-> "body",
                     body |-> [lit_type |-> lit_type, literals |-> literals,
                               repeats |-> repeats, sequences |-> sequences,
                               overdraws |-> 0, exact |-> TRUE]], 2)]

BlockCells(b, last) == BH(b.type, b.size, last) \o b.data

Blocks(bs) ==
    FlattenSeq([k \in DOMAIN bs |-> BlockCells(bs[k], k = Len(bs))])

Seq1(of_value, lit_len, match_len) ==
    <<[of_value |-> of_value, lit_len |-> lit_len, match_len |-> match_len]>>

Magic == Cells([kind |-> "magic"], MagicCells)
Sum(bytes) == Cells([kind |-> "checksum", of |-> bytes], ChecksumCells)
Skip(n) == Cells([kind |-> "skipmagic"], MagicCells)
           \o Cells([kind |-> "size", n |-> n], SizeCells)
           \o ByteCells([k \in 1 .. n |-> 0])

Cuts(s) == {SubSeq(s, 1, n) : n \in 0 .. Len(s)}

-----------------------------------------------------------------------------
(* Frames of up to three blocks: stored, repeated, matches at the full        *)
(* distance of the window and at a repeated offset, tables used again.        *)
Kinds == {Raw(<<1, 2, 3>>), Raw(<<>>), Rle(5, 2),
          Packed("plain", <<6>>, Seq1(7, 1, 3), {}),
          Packed("plain", <<7>>, Seq1(1, 1, 3), {"of"}),
          Packed("huffman", <<8, 9>>, <<>>, {}),
          Packed("treeless", <<9>>, Seq1(1, 0, 3), {})}

WindowSources ==
    {Magic \o Header(4, NoContentSize, FALSE, 0) \o Blocks(bs) :
        bs \in UNION {[1 .. n -> Kinds] : n \in 1 .. 3}}

-----------------------------------------------------------------------------
(* One or two frames, data or skippable, each with one thing that may be      *)
(* wrong with it, and cut off anywhere.                                       *)
Frames ==
    {Magic \o Header(4, 3, TRUE, 0) \o Blocks(<<Raw(<<>>), Raw(<<1, 2, 3>>)>>)
           \o Sum(<<1, 2, 3>>),
     Magic \o Header(4, 3, FALSE, 0) \o Blocks(<<Rle(1, 4)>>),
     Magic \o Header(4, NoContentSize, TRUE, 0) \o Blocks(<<Rle(1, 2)>>)
           \o Sum(<<1>>),
     Magic \o Header(4, 9, FALSE, 0) \o Blocks(<<Raw(<<1>>)>>),
     Magic \o Header(9, 1, FALSE, 0) \o Blocks(<<Raw(<<1>>)>>),
     Magic \o Header(4, 1, FALSE, 7) \o Blocks(<<Raw(<<1>>)>>),
     Magic \o Header(4, 5, FALSE, 0) \o Blocks(<<Raw(<<1, 2, 3, 4, 5>>)>>),
     Magic \o Header(4, 1, FALSE, 0) \o BH("reserved", 1, TRUE),
     Magic \o Header(4, 5, FALSE, 0)
           \o Blocks(<<Packed("huffman", <<1, 2>>, Seq1(4, 2, 3), {})>>),
     Magic \o Header(4, 2, FALSE, 0) \o Blocks(<<Packed("treeless", <<1, 2>>, <<>>, {})>>),
     Magic \o Header(4, 5, FALSE, 0)
           \o Blocks(<<Packed("plain", <<1, 2>>, Seq1(4, 2, 3), {"ll"})>>),
     Skip(0), Skip(3),
     ByteCells(<<1, 2>>)}

Accepted == Magic \o Header(4, 3, TRUE, 0) \o Blocks(<<Rle(4, 3)>>) \o Sum(<<4, 4, 4>>)

FramingSources == UNION {Cuts(f) : f \in Frames}
    \cup UNION {{f \o c : c \in Cuts(Accepted)} : f \in Frames}

RetrySources == {Skip(2) \o Accepted \o Accepted}

-----------------------------------------------------------------------------
(* A dictionary of six bytes, more than the window; the first block may match *)
(* anywhere in it and use its tables and offsets, a later one reaches no      *)
(* further back than the window.                                              *)
MCDictionary == [id |-> 7, content |-> <<21, 22, 23, 24, 25, 26>>,
                 slots |-> TableSlots \cup {"huffman"}, rep |-> <<2, 1, 6>>]

DictFirst == {Raw(<<1, 2, 3>>), Rle(5, 1),
              Packed("treeless", <<9>>, Seq1(10, 1, 3), TableSlots),
              Packed("plain", <<>>, Seq1(9, 0, 3), {"ll"}),
              Packed("plain", <<9>>, Seq1(3, 1, 3), {}),
              Packed("plain", <<9>>, Seq1(11, 1, 3), {})}
DictSecond == {Packed("treeless", <<>>, Seq1(7, 0, 4), {"ml"}),
               Packed("plain", <<8>>, Seq1(5, 1, 3), {})}
DictRepeat == Packed("plain", <<8>>, Seq1(1, 1, 3), {})

DictSources ==
    {Magic \o Header(4, NoContentSize, FALSE, id) \o Blocks(bs) :
        id \in {0, 7, 8},
        bs \in {<<a>> : a \in DictFirst}
                 \cup (DictFirst \X (DictSecond \cup {Rle(4, 3)}))
                 \cup (DictFirst \X DictSecond \X {DictRepeat})}

BlockSources == WindowSources \cup DictSources

\* Three bytes of output, then a match back to the first byte of the dictionary:
\* the format allows it as long as no more than the window was decoded.
FarDictSources ==
    {Magic \o Header(4, NoContentSize, FALSE, 7)
           \o Blocks(<<Raw(<<1, 2, 3>>), Packed("plain", <<>>, Seq1(12, 0, 3), {})>>)}

NoDict == NoDictionary
=============================================================================
