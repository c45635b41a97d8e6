# TLA+ models of libzstd-bitexact-rs

`libzstd-bitexact-rs` is a pure Rust port of zstd: compression that reproduces the
bytes of C libzstd 1.5.7, decompression, and streaming for both. The program is
single-threaded and does no I/O of its own. What is hard in it is not concurrency but
*bookkeeping over time*: a staging buffer that wraps under live match indices, an index
space that is recycled, sections that hand a prefix to the next one, a decoder that
discards history while blocks still refer to it, and callers that slice, flush, pledge,
fail and retry as they like. The differential tests compare whole outputs with the C
library; these models look at the interleavings of calls and the boundaries which such
tests seldom meet.

Source references are to `src/src/`. Every definition that stands for code is listed with
its lines in `PROJECT.json` under `map`.

## 1. Inventory

| Component | State | Operations | What makes it correct |
|---|---|---|---|
| `StreamEncoder` (`stream_encode.rs`) | staging buffer and three cursors, deferred parameters, `frame_ended` | `compress`, `flush`, `finish`; first call initialises | nothing lost, repeated or reordered; flush drains; one well-formed frame; errors never end in a frame; calls return |
| `Window` (`compress.rs` 491-805) | two biases, `low_limit`, `dict_limit`, `next_src_*`, `loaded_dict_end` | `update`, `check_dict_validity`, `enforce_max_dist`, `correct_overflow`, `slide_for_init_stats` | a valid index denotes the byte it was inserted for; indices bounded; nothing usable forgotten |
| `FrameCompressor` (`compress.rs` 3200-3766) | stage, pledge counters, repeat offsets, entropy state, matcher | `compress_continue`, `compress_end` | header, blocks, exactly one last block, checksum, pledge honoured |
| Multithreaded frames (`compress.rs` 3922-4722) | section buffer, prefix, job count, digest, job-0 dictionary | `push`, `flush`, `end`, `emit`; `compress_mt` | jobs concatenate to one frame; prefixes are the preceding input; layout independent of slicing; offsets within the declared window |
| Dictionary compression (`compress.rs` 3794-3920, 4729-5088) | attached or copied tables | `compress_with_dict`, `compress_with_cdict` | dictionary used only while the decoder has it |
| Match finders, parser (`compress.rs`, `lazy.rs`, `opt.rs`) | hash tables, chains, trees, `next_to_update` | insert, search, reduce | matches lie inside the valid window and are equal bytes |
| Long-distance matching (`ldm.rs`) | own window, bucketed table, raw sequence cursor | generate, consume | sequences stay aligned with the blocks |
| Block splitters (`pre_split.rs`, `post_split.rs`) | two repeat-offset histories | split, estimate, emit | the decoder's history is the one the offsets were coded with |
| Section encoders (`literals_encode.rs`, `sequences_encode.rs`, `huffman_encode.rs`, `fse_encode.rs`) | tables of the previous block and their repeat status | choose mode, build, encode | what the decoder rebuilds is what was encoded; tables committed only when emitted |
| `StreamDecoder` (`stream.rs`) | input buffer, phase, frame state, window, output queue | `read`; `fill` calls the inner reader | delivers what one-shot decompression returns; refuses the same; bounded buffers; no panic |
| One-shot decoder (`decompress.rs`, `frame.rs`) | output and position | `decompress` | reference for the streaming decoder |
| Block decoder (`block.rs`) | tables, repeat offsets | `decode_compressed_block` | two passes equal interleaved decoding; no underflow; overlap-exact copies |
| Entropy decoders, bit readers (`fse.rs`, `huffman.rs`, `bits.rs`) | bit position, table state | read, build, advance | inverse of the encoders; exact end of stream |
| Dictionaries, parameters, frame header (`dictionary.rs`, `dict_encode.rs`, `compress.rs` 30-380, `frame.rs`) | - | parse, select, clamp, write, parse | encoder and decoder read the same dictionary; the header tells the window that is searched |
| Hash, errors | - | digest | pure functions |

Interaction is by calls only. The encoder calls `FrameCompressor`, which calls the window
and a match finder for each block and then the section encoders; `MtStreamState` creates a
fresh `FrameCompressor` per job. The stream decoder calls back into the caller's `Read`,
the only place where foreign code runs in the middle of an operation; it can answer with
any number of bytes, with the end, or with an error that the caller of the decoder may
retry (`std`'s `read_to_end` retries `Interrupted`).

Nothing is persisted, so there is no crash recovery, and there are no threads, despite the
name of `with_workers`: jobs run one after the other.

## 2. Modules and plan

An arrow points from a module to those that extend it; MC modules hold instances for TLC.

```
Window <- StreamEncoder <- MCStreamEncoder <- MCEncoders     EncoderContract (abstract)
   ^           ^
   |           +- StreamEncoder_proof    (and Window_proof)
   +- Window_proof
   +- MtStream <- MCMtStream                                 EncoderContract (abstract)
   |     ^
   |     +- MtStream_proof         (and Window_proof)
   +- MatchFinder <- FastFinder, DoubleFastFinder,  \
      (and           LazyFinder,                      MatchFinders <- MCMatchFinders
      BlockDecode)   LongDistance <- OptParser      /

BlockDecode <- SequenceExecution <- MCSequenceExecution, SequenceExecution_proof
   ^
   +- Frame <- StreamDecoder \
   |    ^                     StreamDecoderAgreement <- MCStreamDecoder <- MCDecoders
   |    +---- Decompress     /                       DecoderContract (abstract)
   +- SequenceStore <- EntropyTables <- BlockEncode <- MCBlockEncode, BlockEncode_proof

BlockDecode <- BlockDecode_proof <- SequenceExecution_proof, StreamDecoder_proof,
                                    BlockEncode_proof
SetInduction <- MtStream_proof, BlockDecode_proof

BitStreams <- FseTables <- HuffmanTables <- BlockSections <- DictionaryTables  \
   ^                                                      EntropyCoding <- MCEntropyCoding
   +--------------------------------------- FrameParameters                    /
```

The encoder is modelled in layers that meet at what they hand on. `StreamEncoder` has the
calls, the buffer and the window, and takes the parse of a block as a set of indices;
`MatchFinders` has the parse over real bytes, and takes its blocks as given; `BlockEncode`
has what becomes of a parse, with tables that are sets of symbols; `EntropyCoding` has the
bits of those tables. In each, a decoder of the same layer stands on the other side.

| Module | Models |
|---|---|
| `Window`, `StreamEncoder` | `struct Window`; `stream_encode.rs`, the block loop and the frame of `FrameCompressor` |
| `MtStream` | `MtStreamState`, `compress_mt` and their jobs |
| `MatchFinder` | tables, views, block loop and dictionaries, shared by all finders |
| `FastFinder`, `DoubleFastFinder`, `LazyFinder` | the search loops of `compress.rs` and `lazy.rs` |
| `LongDistance`, `OptParser` | `ldm.rs`; `opt.rs` and its consumption of raw sequences |
| `SequenceStore` | `SeqStore`, codes and long lengths; chunks and offset rewriting of `post_split.rs` |
| `EntropyTables`, `BlockEncode` | repeat status of tables, mode choice; block body, splitter, commit or fallback |
| `BitStreams`, `FseTables`, `HuffmanTables` | `bits.rs`; `fse.rs` with `fse_encode.rs`; `huffman.rs` with `huffman_encode.rs` |
| `BlockSections` | literals and sequences sections, written and read |
| `DictionaryTables`, `FrameParameters` | both dictionary parsers; parameter selection and the frame header |
| `BlockDecode`, `SequenceExecution` | meaning of a compressed block; `block.rs`'s two passes |
| `Frame`, `Decompress`, `StreamDecoder` | fields of a frame; `decompress.rs`; `stream.rs` |

Done: everything named above. Left, in this order:

1. the influence of long-distance matching on the job and overlap sizes of `MtStream`;
2. the index space that wraps with real bytes (`MatchFinders` over `correct_overflow`).

## 3. Streaming encoder

### Model

`Window.tla` translates `struct Window` one method per operator. Index arithmetic is taken
modulo `IndexMod` (2^32 in the code); a usize read at `idx - bias` is *not* reduced, so a
bias that wrapped shows as a position outside the buffer. `StreamEncoder.tla` has one
action per call (`FirstCall`, `FirstCallRejected`, `Call`) and one per step of
`stream_op`: load and stop, load and refuse, load and enter `compress_continue`, one
`CompressBlock` per block, and three ways a chunk ends.

| Model | Code |
|---|---|
| `in_buff`, `in_to_compress`, `in_buff_pos`, `in_buff_target` | fields of `StreamState` |
| `window`, `next_to_update` | `FrameCompressor::window`, the matcher's field |
| `table` | what the hash, chain and tree tables hold: index and the byte it stood for when inserted |
| `stage`, `consumed`, `pledged` | fields of `FrameCompressor` |
| `items`, `emitted` | the frame written, and the bytes it decodes to |
| `pc`, `op`, `left`, `pos` | where the call is, its directive, input left, block position |

A byte is its position in the input; dictionary content is -`ContentLen` .. -1. So "the
right byte" can be told from any other byte, which is stronger than comparing values.

Abstractions: the parse of a block is replaced by the indices it inserts and the interval
of indices it may look up; sizes are scaled (a block of 2 or 4 bytes, windows of 2 to 16);
the pledge is chosen when it is first used; pre-splitting may choose any size of
`SplitSizes`; after an error inside `compress_continue` nothing is claimed about the
window. A slot read outside of the buffer yields a value no input byte has (the code would
panic).

### Runs

| Run | Shows | Bounds |
|---|---|---|
| `encoder` | three encoders, one per behaviour (`MCEncoders`): *wrap*, whose buffer of 6 slots wraps twice or more under every mix of calls with slices of 0-3 bytes, with and without a pledge of 3 that is met, missed or exceeded, first block parsed twice; *dict*, whose attached dictionary stays whole and in reach until the stream is refused; *overflow*, whose index space (128, corrected above 50) is recycled, also while the extDict is live | wrap: input 14, two windows, two block sizes; every flip, trim, wrap, slide and restart occurs with an offset of its own. dict: dictionary 2, window up to 8, input 12. overflow: input 100, flushed and finished anywhere, in slices of 0 and 7, which are no multiple of the block (4), the window (4 or 16) or the buffer, so that corrections meet the extDict at any length; indices of both residues below and above `WINDOW_START_INDEX` |
| `encoder_overflow_wrap` (violation) | see findings | index space 64 with a live extDict |

The bounds are enough in the sense that the behaviour depends on positions only through
comparisons with the window, block and buffer sizes. *wrap* goes round its buffer twice and
more, with chunks that end at any place in it. *overflow* is corrected more than once, with
an extDict that is whole, partly overwritten or gone, but not in every phase of the
correction relative to the buffer: that would take longer inputs.

`RecycledTableDenotes` is about the entries of the current segment, and of an extDict whose
bias did not wrap (`ExtDictMapped`: `dict_bias <= low_limit`). Where `correct_overflow` takes
the bias below zero (`compress.rs:791`) the code itself loses the extDict; that case occurs
in *overflow* too, and is the finding `encoder_overflow_wrap`. The property says that it is the
only one: the limits, the other bias and the tables all move by the same amount.

Properties: `HistoryIntact` (every index the window calls valid reads the byte its
distance back), `HistoryComplete` (nothing usable is forgotten), `TableDenotesInserted`,
`NothingLostOrRepeated`, `WellFormedFrame`, `IInv`, `FlushDrains`, `NoFrameAfterError`,
`ImplementsContract` (refinement of `EncoderContract`) and `EveryCallReturns` of *wrap*;
`WholeDict` of *dict*; `RecycledTableDenotes` and `RecycledCycleBits` of *overflow*.
`ExtDictAddressable` is what `encoder_overflow_wrap` refutes.

Fairness: `WF_vars(Loop)`, the code of a call that was made. Calls are synchronous Rust
functions; once entered nothing but their own code runs. Callers are not fair: nobody has
to call again. Deadlock is not checked, since a finished encoder stops.

### Proofs

`Window_proof` and `StreamEncoder_proof` prove for *all* window and block sizes, buffers, dictionaries, pledges and inputs:

- `Invariance`: `Spec => []IInv`. `IInv` is `TypeOK` with five parts that make it
  inductive: `Pointers` (the cursors are ordered and inside the buffer; a chunk being
  compressed lies between them), `Accounting` (written bytes are the input's prefix, the
  staged bytes continue it, `consumed` counts them), `FrameShape` (which items a frame has
  at each stage and where the mark is), `Doomed` (what caused an error still holds, so
  every later call fails as well) and `Offered` (no input is pending between calls).
  `NothingLostOrRepeated` alone is not inductive: that a loaded byte continues the staged
  ones needs the pointers, that the frame is well formed needs the stage.
- `NothingLost`, `FramesWellFormed`, `ErrorIsFinal`, `FlushComplete`, `TypeCorrect` from
  it, and `Refinement`: `Spec => Contract!Spec`, step by step.

They rest on `EncoderAssumption` and `WindowAssumption` (sizes are positive naturals, the
dictionary fits), which TLC evaluates in each run. The window enters through lemmas that
`update`, the slides and the correction return well-typed windows.

The second part of `StreamEncoder_proof` is about what indices denote, under
hypotheses on the constants. `Unrecycled` says that all the input has indices below `CurrentMax` (3500 MiB),
so no overflow correction happens; it is the case of nearly every frame, and without it
`ExtDictAddressable` is false (section 9). Under it:

- `HistoryStaysIntact`, `TablesDenoteInserted`: `HistoryIntact` and `TableDenotesInserted`
  hold however the buffer wraps, the window slides and a first block is parsed twice;
- `ExtDictStaysAddressable`: the extDict is read inside the buffer, so the finding needs a
  recycled index space.
- `NothingInReachForgotten`: the converse of the first. `HistoryComplete` holds if, besides,
  a window is at least `HASH_READ_SIZE` long (`Searchable`; 2^10 and 8 in the code), since
  `update` forgets a shorter segment when the buffer wraps.

The invariant `HInv` adds to `IInv` that the index of a byte is its position in the stream
plus one `Shift`, which only the second parse of a first block changes (`WindowShape`);
that a valid index is read in the buffer and reads its byte, except that the chunk being
staged may be overwriting it (`Content`); and that an entry which is still valid denotes
`index - Shift` (`TableSound`). The exception is what makes it inductive: while input is
loaded over the extDict's head, indices are briefly wrong, and `TrimOverwritten` makes them
invalid before anything is searched. `EnforceReads`, `UpdateReads` and `SlideReads` of
`Window_proof` say what each window operation keeps readable.

For the converse, `RInv` adds to `HInv` the parts of `Reach`. `Remembered` is the claim
itself, for each slot that is not being staged; it survives a wrap only because the buffer
wraps behind a whole window and a dictionary (`Wrapped`, and `Segment`: the segment starts
where the buffer or its dictionary ends, or out of reach), so that what is in reach is all
in the segment that becomes the extDict. A source that is pledged to be shorter than the
window has a smaller buffer, which would break this if it wrapped; it never does, since the
source stays within its pledge (`WithinPledge`, `OnePass`). And a chunk that
follows on must not come upon the extDict from behind, where `TrimOverwritten` would forget
more than is overwritten (`Ahead`). TLC finds `Reach` an invariant of *wrap* and *dict*, and
`UpdateRetains` and `EnforceRetains` of `Window_proof` say what each window operation forgets.

- `AttachedDictStays`: when a window is no larger than `CurrentMax` (`WindowsBelowMax`, 2^27
  and 3500 MiB in the code), `AttachedDictIntact` holds for input of any length: the buffer
  of an attached frame never wraps, since the source is refused first.

Only model-checked: everything about recycled indices (`RecycledTableDenotes`,
`RecycledCycleBits`: modular arithmetic by a variable modulus, which the provers do not do)
and liveness.

## 4. Decoders

### Model

`BlockDecode` has the meaning of a compressed block: repeat offsets, table slots, match
copy, and the interleaved reading of sequences which the format prescribes.
`SequenceExecution` is the code's order: literals, tables, all sequences decoded, then all
executed, the offsets committed last. `Frame` describes compressed data: a field is a
record, on the wire a number of cells that are buffered, counted and cut off; a field read
at the wrong place is garbage. `Decompress` is the one-shot decoder (recursive operators,
used by TLC only). `StreamDecoder` has an action for each stretch of `decode_more` between
two calls of the reader; `pc` is the `fill` it waits in.

| Model | Code |
|---|---|
| `in_buf`, `in_pos`, `eof` | fields of `StreamDecoder` |
| `phase`, `left`, `frame` | `Phase`, its payload, `Option<FrameState>` |
| `frame.win`, `frame.ctx`, `frame.hashed`, `frame.produced` | window, tables and offsets, digest, counter |
| `out_ready`, `out_pos`, `total` | output queue |
| `bh`, `taken` | locals that live across a `fill` |

A caller may read again whatever it was told, also after invalid data, as the code lets it.
So a block that is refused leaves what the code leaves: the tables installed before the one
that was refused (`SlotsAfterTables`; literal lengths, offsets, match lengths), what was
written of it by then, its header consumed and its body not. `refused` remembers that it
happened, for the properties that speak of what was decoded until then; `StreamDecoder` has
no use for it in the code's actions.

Abstractions: the bit layout of a section is replaced by what the bits say; a digest by
what it is of. Of the dictionary its parsed content is given.

### Runs

| Run | Shows | Bounds |
|---|---|---|
| `sequences` | two-pass decoding accepts, writes and leaves what interleaved decoding does (`TwoPassIsInterleaved`); offsets are never zero and literals not overrun (`NothingUnderflows`); a match is the byte-by-byte copy across dictionary, seam and itself (`CopyIsByteByByte`) | all blocks of up to two sequences over every kind of offset value, two contexts, with and without a dictionary, behind an earlier frame; every fault of one block |
| `decoder` | two decoders, one per behaviour (`MCDecoders`). *framing*: cut off anywhere, in any pieces, with one reader error retried at each harmless fill: same verdict as one-shot (`ImplementsContract`), bounded input buffer (`InputBufferBounded`), reads come to an end (`ReadsTerminate`). *windowed*: the trimmed window is the recent history (`WindowedHistory`), and the delivered bytes are those of one-shot decoding (`WindowedContract`) | framing: thirteen frames with one fault each, alone, and followed by a good one cut anywhere. windowed: all frames of up to three blocks of seven kinds and blocks after a dictionary longer than the window, window 4 |
| `decoder_retry_panic`, `decoder_dict_window` (violations) | see findings | - |

Two sequences are enough for every pair of offset kinds, that is for every transition of
the history and back; three blocks for a window that is filled, trimmed and referred to.

The windowed sources refer to no more than the format allows (offsets within the window,
the dictionary only where one-shot and window agree; the remaining case is
`decoder_dict_window`).

Fairness: the code runs on (`Decoding`); the reader answers each request in the end
(`Reader`); the caller reads, like `read_to_end`, until the end or invalid data
(`ReadsToEnd`), may read on after that, but need not. `ReadsTerminate` is stated under that fairness,
with one error of the reader (`MaxErrors`) before a magic number, the size of a skippable
frame, in such a frame, or before a block header: retried there, the decoder loses nothing.
Errors in a frame's header, in a block's body and before a checksum are left out of this
run, since a retry after them misreads the input or panics (section 9), which
`ImplementsContract` would report; the proofs below leave none out. Deadlock is not checked: a decoder that was read to its end stops.

### Proof

`SequenceExecution_proof`: `NoUnderflow`, for every set of blocks, contexts and places, no
offset is ever zero and the literals are not overrun, so `rep[0] - 1` and
`literals.len() - lit_pos` never wrap and `copy_match`'s assertion holds. The proof's
invariant adds that the local history has three positive entries in each stage, and that
what was decoded was resolved from them. `TwoPassesAreOne`: `TwoPassIsInterleaved` for every
block, context and place. The reference, `InterleavedSequences`, is a recursive function of
the sequences not yet read; the proof unfolds it one sequence at a time (`Histories`,
`After`), and its invariant `TInv` relates each pass to it: what the first pass has decoded
is what the reference reads there, what the second has written is what the reference has
after as many sequences, and a refusal names its cause in the block (`Cause`), which
`SetInduction` traces back to the sequence where both refuse. `BlockAssumption` says what a parsed block and a
context are; contexts start with positive offsets, which holds for a fresh frame (1, 4, 8)
and is checked by the dictionary parser.

`BlockDecode_proof` is about the operators both decoders are built from. `CopyMatchGrows`:
`copy_match` is the byte-by-byte copy of the format, in each of its five ways (a run of one
byte, a match that does not overlap itself, chunks of `offset` bytes, a match that begins in
the dictionary and one that runs from it across the seam into the output). Its loops are
recursive functions, unfolded one round at a time; what is kept in each round is that the
output has grown and that the bytes added have period `offset` (`Copied`). `BlockGrows`: an
accepted block only appends to the output and leaves a context that is one. With them
`MatchesCopyByteByByte` (`CopyIsByteByByte`) follows for every block, context and place, from
an invariant (`OInv`) which says that while executing, the output holds at least the history
a match was allowed to refer to.

`StreamDecoder_proof`, for every input, dictionary, window limit, and way of cutting the
input and asking for the output, with the reader failing anywhere. The invariant `IInv` says
where in the buffer each fill waits (`Waiting`), that the window of a frame is the end of its
history or the whole dictionary before there is any (`Recent`), and types; with it:

- `InputStaysBounded` (`InputBufferBounded`). The bound has the largest block a header can
  announce (`BlockSizeField`, 21 bits) and not the largest that is accepted, because the code
  fills the body before it compares `size` with `block_size_max` (`stream.rs:282-292`);
- `WindowsAreRecent` (`WindowIsRecentHistory`), from `BlockGrows` and from the lemma that
  trimming after each block is trimming once at the end (`LastOfLastOf`);
- `PanicsAreAnnounced` (`PanicsFollowFooterErrors`): a panic is the answer to a read that
  follows an error which `finish_frame` reported after it had taken the frame state, and to
  no other. There are three such errors: a content size that differs, a wrong or missing
  checksum (`stream.rs:359-375`), and the reader's own before the checksum, which
  `decoder_retry_panic` shows. What makes it inductive is that the state is missing in the
  footer only while such an error is the last thing the caller was told, or a panic is
  (`Footed`). No run checks it beside `NeverPanics`;
- `NothingPanics`: `NeverPanics`, for a caller that does not read on after an error in a footer
  (`StopsAtFooterErrors`), whatever other errors it retries;
- `LimitKept`: what was decoded is delivered or queued and within the limit (`Queue`), so the
  caller never gets more than `DecodeOptions::limit` bytes, over all frames together.

They assume of the input that its cells are pieces of fields of the format (`Cell`), in any
order, and of the dictionary that its offsets are positive.

Only model-checked: the agreement of the decoders, whose reference is recursive, and
liveness.

## 5. Multithreaded frames

`MtStream` models `MtStreamState` and `compress_mt` together: the section buffer with its
prefix, `Fill`/`Flush`/`RunJob`/`JobDone` for `push`, `flush`, `end` and `emit`,
`RunOneShot` for a one-shot frame, `FallsThrough` for inputs that C (and this port) hands to the
single-threaded encoder, `RefusesToStart` for what `new` rejects, and a job that fails on
its pledge, after which the caller may go on calling. A job is a record of its segment,
prefix, pledge and flags. What it may match with is computed from the window its
constructor builds and the slides of the block loop (`Reaches`), with the operators of
`Window.tla`.

Run `mt` (five levels with overlaps of a whole window, half of it and none, explicit and
computed sections, an overlap that is refused, two dictionaries, before sections within the
window and of two and four windows; pledges below and above the floor; input up to 11 bytes in slices of 0, 1, 4 and 7 with flushes anywhere): frames
are well formed with one checksum of all the input (`WellFormedFrame`), the prefix is
always the input just before the section (`PrefixIsHistory`), the layout of the jobs does
not depend on slicing or on streaming (`JobsAreArithmetic`), a job can refer beyond the
declared window, or to the dictionary from behind it, exactly when it is a first section
longer than the window that a dictionary is attached to (`ReachWithinWindow`, see section 9),
and the encoder contract is kept (`ImplementsContract`). Sections are 3 to 8 bytes, so a
frame has up to four jobs.

The match finders of a job appear in `MatchFinders` (a frame behind a prefix, and the
long-distance sequences of a job, consumed by its blocks), the offsets a job starts with
in `BlockEncode` (`blocks_jobs`). How long-distance matching changes the sizes of sections
and overlaps is not modelled. The reach of an attached dictionary is that of the fast and
double-fast finders, which compare with neither `low_limit` nor the distance.

### Proof

`MtStream_proof`, for all levels, section and overlap sizes, dictionaries, pledges and
inputs, streamed and one-shot:

- `Invariance`: `Spec => []IInv`, where `IInv` is `TypeOK` with the section and its prefix
  within their bounds (`Pointers`), the buffer holding the end of the input (`Buffered`),
  the job being run (`Running`), `Accounting`, `FrameShape`, and the cause of an error,
  which stays (`Doomed`). From it `TypeCorrect`, `FramesWellFormed`, `ErrorIsFinal` and
  `PrefixesAreHistory` (`PrefixIsHistory`), and `Refinement`: `Spec => Contract!Spec`;
- `BoundariesArithmetic` (`JobsAreArithmetic`): job k of a frame is a function of k and the
  sizes, by an invariant (`Arithmetic`) which says so of each job already compressed and of
  the section that is filling. It holds of streams that were not flushed in between, and a
  one-shot frame is placed by the same function.

The second part of `MtStream_proof` bounds what the blocks of a job look up. `Slides`, the window at each block,
is a recursive function that is unfolded block by block with `SetInduction`; on the way no
index wraps, and `low_limit` stays within the window of the block. An invariant (`Placed`)
says which jobs can have a dictionary. `ReachBounded` is all of `ReachWithinWindow`, both ways:
jobs that keep within the window, and the one that does not (`OutgrownReach`), whose last
block still looks up the first index of its dictionary. It assumes that the first section
behind its dictionary has indices below `IndexMod` (`DictAddressable`, 4 GiB).

Only model-checked: nothing of the run `mt` but the bounds themselves; liveness is not
claimed, since the caller need not call.

## 6. Blocks

### Model

A match finder fills the sequence store with any parse of a set; `BlockEncode` makes one
compressed, raw or RLE block of it, or splits it. `SequenceStore` has the store, its one
marker of a long length, the chunks the splitter derives, and the rewriting of repeat
codes for a decoder whose history differs (`resolve_off_codes`). `EntropyTables` has the
table of each slot with its repeat status (none, check, valid), and what each encoding
type commits. `dec` is a decoder that reads every block as it is emitted, with the
operators of `BlockDecode`; `read` says where it took each byte from.

| Model | Code |
|---|---|
| `rep`, `entropy`, `is_first_block` | fields of `FrameCompressor` |
| `block` | the bytes, the sequence store and `next_rep` of one turn of the block loop |
| `cuts`, `todo` | `splits` of `derive_splits`; the ranges its recursion has still to look at |
| `part`, `d_rep`, `c_rep`, `ip_at` | locals of `compress_block_split` |

Abstractions: a table is the set of symbols it codes and where it came from; whether a
block is worth compressing, which of the valid modes is cheapest, and where to split are
free choices, as the cost estimates decide them. Lengths wrap at `LongMod` (65536 in the
code). The recursion of `derive_splits_helper` is a worklist: `KeepRange` leaves a range whole and
makes the cut in front of the next one, `HalveRange` puts both halves on the list; both look
at what the code estimates there before they may go on.

### Runs

`blocks`: parses of up to two sequences over all offset codes, and one of six sequences,
on inputs of 12 bytes, under every strategy kind, with and without a dictionary; a long
literal or match length in any of them, splits at 3 and then at 1 and 4.
`DecoderReadsWhatWasMeant`, `InStepWithDecoder` (both as far as the encoder gets), and
`SplitterPanicsAtLongMiddle`: the encoder panics in the splitter, when and only when it first
comes to a range whose halves meet in front of the long length (section 9). Two blocks of two sequences cover every
transition of an offset history followed by a fallback and a use; six sequences are two
levels of splits, which is the smallest recursion of `derive_splits` that meets itself.
`blocks_jobs` and `blocks_offcodes` are violations, see section 9. Deadlock is not checked:
a frame ends.

### Proof

`BlockEncode_proof`, for all parses, literals, tables and strategies, and for blocks of any
size up to twice `LongMod` (64 KiB of 128 KiB in the code, where a block holds one long
length at most: `OneIsLong`):

- `EncoderInStepWithDecoder` (`InStepWithDecoder`) and `EveryByteIsMeant`
  (`DecoderReadsWhatWasMeant`), from the inductive invariant `EncoderInv`;
- `SplitterPanicsExactly` (`SplitterPanicsAtLongMiddle`), and `EstimatePanicsBehindRange`,
  which says of any range when its estimate panics.

The first two assume `DictionariesReach`: an offset table of a dictionary that is taken to
code every offset of the first block codes at least what the predefined table does.
`blocks_offcodes` shows that the code breaks without it (section 9), `blocks` has dictionaries
that satisfy it. They are about frames of one `FrameCompressor`; `blocks_jobs` shows the
second job out of step.

`EncoderInv` adds to the two properties: that a table with status *valid* codes whatever the
predefined one does (`TablesCover`; at low strategies it is repeated for codes that were only
compared with the predefined table); that the store is that of the parse at work and every
offset of it positive (`BlockParsed`); that cuts and ranges are in order (`Splitting`); and
that between two partitions both histories, the position and the bytes read so far stand at
the same sequence (`Partitioned`). Without the last, a step of the splitter says nothing of
the byte positions of the next partition. TLC checked it on `blocks` first.

The argument goes up in five steps, each for whole sequences of any length:

1. `HistoriesInStep`: the encoder's `update_rep` and the decoder's `resolve_offset` are one
   function; `RewrittenCodeMeansTheSame`: one turn of `resolve_off_codes` emits a code which
   the decoder's history resolves to the offset meant;
2. `StoreIsWhole`: filling the store sequence by sequence keeps every length modulo `LongMod`,
   the marker of the one that wrapped, and each literal at its place; `BytesCounted` and
   `ChunkMarks` say the same of a chunk;
3. `CodesAreResolved`: over a chunk, from any two histories, the rewritten codes lead the
   decoder from offset to offset as the match finder went;
4. `BodyServes`: whatever modes are chosen, the decoder can read the body with the tables it
   holds, and the state committed is what it holds afterwards;
5. `ChunkIsRead`: reading codes and literals of a chunk gives the sequences of the parse,
   hence (`CompressedOut`) the bytes that were meant.

The recursive functions are unfolded one element at a time (`SumsUnfold` to
`ReadingUnfold`), with `SetInduction` in place of induction.

`SplitterPanicsExactly` assumes nothing but the sizes. Its invariant says of every range to come
that it does not end in front of the long length (`RangesAhead`): the end of a range is that
of the block, or the middle of a range that was estimated without a panic. So of the three
estimates only that of the left half can panic (`EstimatesPanic`).

## 7. Entropy coding, parameters, headers

### Model

A stream is a sequence of bits. `FseTables` has a distribution from its counts
(`normalize_count` with its second method), its description and the reader of one,
the spread, the encoder's and the decoder's table; `HuffmanTables` the tree, its height
limit with the debt that is repaid rank by rank, the canonical code, the weights written
direct or compressed, both readers, one stream and four; `BlockSections` the headers and
contents of both sections; `DictionaryTables` the two parsers of a trained dictionary;
`FrameParameters` the parameters of a plain frame and of one whose dictionary is loaded,
attached or copied, and the header they end in. `EntropyCoding` runs them: one side writes,
the other reads, a second section may repeat the first one's table.

Abstractions: the table log and the mode, where a cost estimate decides, are free choices
among the allowed ones; the register of the bit writer is not a number, but its overflow
is noticed (`lost`). In a frame header a byte of a field has three bits, so that the
sizes at which a field widens are within TLC's integers; the largest window log is 28
for the same reason. Offsets in a dictionary take one byte and the first block has 16.

### Run

`codec`, one behaviour for each input of `MCEntropyCoding`: all histograms of four symbols
over three counts, Fibonacci counts (the deepest trees), flat and gapped ones, at every
height limit; counts that normalise by either method or overdraw, at two table sizes; lists
of sequences that fill the bit register; every section header at a format boundary;
all descriptions of three bytes from a set that reaches each branch of the readers;
dictionaries with offset tables just large enough and one code short, offsets at the ends
of the content, and cut off at each byte; frames at each size where a field, a class of
sizes or the use of a dictionary changes, read under three limits and cut at each bit.

- `HuffmanCodeIsComplete`: a complete prefix code within the limit, in which a more frequent
  symbol is never longer; without a limit no prefix code is shorter;
- `TablesComeBack`: a description is read back as the table, and to its last byte;
- `StatesInvert`: the two FSE tables, built by different code, invert each other;
- `SectionsComeBack`: literals, sequences, section headers and frame headers are read as
  they were written; the decoder's window is the one searched; tables asked for can be
  indexed however small the input;
- `DictionaryServesBothSides`: both parsers take the same dictionaries and agree on them,
  and a table that is used without a look at the block has every code it needs;
- `ForeignTablesAreComplete`: what a reader accepts of any bytes is a whole table.

Deadlock is not checked: an exchange ends. These are pure functions on recursive data, so
nothing of this section is proved.

## 8. Match finders

### Model

`MatchFinder` has what the finders share: bytes, buckets, the view that a block's search has
of a window in two segments, dictionaries (none, loaded into the frame's tables, copied
from a CDict, attached with tables of their own, and a job's prefix), offset
bookkeeping at both ends of a block, and the block loop. Each finder is a state machine
whose step is one turn of its search loop, with the loop's locals in `search`.
`FastFinder` and `DoubleFastFinder` have the plain, extDict and attached loops;
`LazyFinder` greedy to lazy2 over chains, rows with their cache of hashes, and the binary
tree whose entries are sorted late; `OptParser` the series of positions, the histories kept
per position, the way back, the double parse of a first block and the candidates of
`LongDistance`.

Scaled or abstracted: the words compared have 3 and 4 bytes, the window 24; a hash is a
bucket and a tag of the bytes, under one of several functions, so that collisions occur; skip
strength, update gap and cache are small. Without a dictionary the buffer is the
streaming one, which wraps; with one, content and input are one piece, as in the one-shot
paths. Prices of the optimal parser are any of a few tables, chosen per pass, instead of
symbol statistics; nodes left over from an earlier series are one stale node that looks
attractive. The gear hash cuts after given bytes, and a checksum is a fragment's first
bytes; the capacity of the list of raw sequences is not modelled.

### Run

`finders`: frames of up to three blocks out of six contents, which repeat near, far and
across the seams, in thirty-five configurations of finder, hash, depth, dictionary,
prices and long-distance matching, from two offset histories (1.2 million states).

- `ParseReproduces`: resolved as a decoder does, each match copies the bytes the block has
  there, and literals and matches account for all of it;
- `OffsetsWithinWindow`: no offset reaches further back than the decoder keeps;
- `OffsetHistoriesAgree`: the history handed to the next block is the decoder's, also when
  an offset was set aside;
- `TablesDenoteHistory`: a valid entry denotes the bytes under whose hash it was
  entered, however late;
- `TreesAreOrdered`: the trees are search trees, with older positions below.

Three blocks of up to 14 bytes pass the window of 24 with one block to spare, so that
entries, offsets and dictionaries go out of reach and are met again. Deadlock is not
checked: a frame ends. Not proved.

## 9. Findings

Runs with `expect: violation` state what the repository says of itself and find it untrue:

- `encoder_overflow_wrap`: `correct_overflow` subtracts the correction from `dict_bias`
  without wrapping (`compress.rs:791`); with a live extDict whose bias is small it goes
  below zero, and the matchers index the buffer outside of it.
- `decoder_retry_panic`: after a reader error before the checksum, reading again panics
  (`stream.rs:355`). The same pattern at `stream.rs:276` and `stream.rs:178` makes a retry
  misread the stream; it is a hazard without a run of its own.
- `decoder_dict_window`: the streaming decoder trims the dictionary out of its window and
  refuses a match which one-shot decompression accepts (`stream.rs:342`).
- `blocks_jobs`: every job of a multithreaded frame starts with the offsets 1, 4, 8 and may
  use them for a repeat code, while the decoder carries on the history of the job before
  (`compress.rs:3300`).
- `blocks_offcodes`: without the post-splitter, the offset table of a dictionary stays
  valid after the first block, and a later block may be coded with it although it lacks a
  code (`compress.rs:3697`).

Seen while modelling, without a run:

- a multithreaded frame gives its pledge to its first job only (`compress.rs:4687`): a
  stream whose input does not match is closed without an error, against
  `stream_encode.rs:144-146`;
- with an attached dictionary, which with an unknown size is the default, job 0 is compressed
  past the window (`compress.rs:4661`), since a computed section has at least four windows:
  nothing drops the dictionary, and the finders for it compare with neither `low_limit` nor
  the distance. The comment at `compress.rs:725-726` says "the attach path never reaches a
  window-filling size here". `mt` has such sections, and `ReachWithinWindow` says that they are
  the only ones;
- the long-distance matcher's window is never corrected for overflow (`compress.rs:3396`);
  the comment at `ldm.rs:545` relies on a limit that was lifted;
- `derive_chunk` keeps the marker of a long length with an inclusive upper bound
  (`post_split.rs:84-86`, marked as a quirk of C). When the middle of a range is right in
  front of the marked sequence, the left half has a marker behind its last sequence, and
  `seq_to_codes` indexes past the slices of that half (`sequences_encode.rs:191-195`), a panic;
  C writes the same code into arrays that are as long as the whole block's.
  `blocks` has such parses, and `SplitterPanicsAtLongMiddle` says that these are the only ranges
  at which it happens;
- a decoder read again after a size mismatch or a bad checksum panics (`stream.rs:359-375`) as
  after a reader's error in that place: `PanicsAreAnnounced`;
- a dictionary table whose symbols of low probability fill all its states makes the
  `high_threshold` of `build_ctable` go below zero (`fse_encode.rs:455`): a panic in a debug
  build, and without consequence in the release build, since no state is then left to spread
  over. `FseTables` has the wrapped value (`UnsignedHigh`), and `codec` such a dictionary.

## 10. Not modelled

- Price estimation and symbol statistics, fingerprints of the pre-splitter, hash functions,
  entropy cost estimates: they choose between valid outputs (the models leave the choice
  open) and have no correctness claim beyond equality with the C library, which the
  differential tests compare byte by byte and no model could.
- The job sizing of long-distance matching in multithreaded frames, planned.
- The arithmetic of XXH64: a digest is modelled by the bytes it is of.
- `error.rs`, `lib.rs`, tests, benches, examples: without behaviour of their own.

Out of the prover's reach: liveness under fairness, and what `RECURSIVE` operators compute
for every input (`Decompress`, the codecs); they stay with TLC. Recursive *functions* over
numbers can be unfolded, and `SetInduction` has the one principle of induction that is
needed then: a non-empty set of numbers has a least one.

## 11. Running

In `tla/`: `tlc -workers 2 -config mt.cfg MCMtStream.tla` and likewise for the other runs
(`PROJECT.json` lists module and configuration of each); `finders` takes a few minutes.
`tlapm` on each module whose name ends in `_proof`, and on `SetInduction.tla`, checks the
proofs. Every property of a passing run has a mutant,
an operator in the module next to the definition it alters, that makes TLC report the
property violated.
