# Verification of the Lepton JPEG codec

This directory holds a TLA+ model of the codec in this repository, TLC
configurations that check it on small instances, and proofs checked by TLAPS.
`PROJECT.json` is the machine-readable index: components, runs, mutants, the map
from definitions to source lines, findings, hazards and theorems.

## 1. The system

The repository compresses JPEG files losslessly into Lepton files and back. It
contains two implementations: the Rust one (`rust/lib`, with wrappers in
`rust/dll`, `rust/util`, `rust/python`) and a Go port (`lepton/`, with the tool
`cmd/verify`). The Go codec is sequential; the Rust codec splits the image into
up to 16 partitions that are coded by threads of a pool.

Compression reads the JPEG, remembers the state of its bit stream at the
beginning of every MCU row (handoffs), groups the handoffs into partitions, and
codes the coefficients of each partition with an adaptive binary arithmetic
coder. The coded partitions are interleaved in blocks (multiplexed).
Decompression parses the headers, feeds the blocks to one closure per partition
and writes what they produce, in partition order, until the recorded size is
reached. Since the promise is *lossless*, almost every correctness property has
the same form: two walks over the same data (reader and writer, encoder and
decoder, one thread and many, Rust and Go) stay in step.

### Inventory

| component (source) | state | operations | what makes it correct |
|---|---|---|---|
| `SimpleThreadPool` (`simple_threadpool.rs`) | mutex-protected stack of idle threads, one channel per thread | `execute`, loop of a thread | a closure never waits behind another one; none lost or run twice; each starts |
| `multiplex_write` (`multiplexer.rs`) | queue of closures, buffer and channel per partition, carousel of the caller | `write`, `flush`, final flush, the caller's loop, `receive_results` | output independent of the schedule; Ok means complete; the real error is reported; the call returns |
| `multiplex_read` (`multiplexer.rs`, `partial_buffer.rs`) | parser state, extra buffer, channels, results | `process_buffer`, `retrieve_result`, the blocking reader | data and results complete and in order for every slicing and schedule; the size trailer is not parsed; right verdict |
| `LeptonFileReader` (`lepton_file_reader.rs`) | decoder state, extra buffer, pending output, byte limit | `process_buffer`, `process_limited_buffer` | output independent of slicing, of output buffers and of thread timing; every file has an outcome |
| `Branch` (`branch.rs`, `branch.go`) | two counts in a `u16` | `record_and_update_bit`, `get_probability` | counts never 0, split inside the range; Rust, Go and C++ alike |
| `VPXBoolWriter`, `VPXBoolReader` | low value, range, pending bytes | `put`, `get`, flush, carry | the reader returns what the writer was given |
| `Model` (`model.rs`, `model.go`) | arrays of branches | `write_/read_` of coefficient, edge, DC | same branches on both sides, numbers restored, indices inside |
| `BitReader`, `BitWriter` | register, read-ahead, pending marker, padding bit | peek, advance, overhang, reset codes, flush, pad | bytes rebuilt exactly, also when threads split inside a byte |
| `JpegPositionState` | component, block, MCU, restart counter, runs | next position, `skip_eobrun`, `check_optimal_eobrun` | every block once; a row restarted from its number is in step |
| `jpeg_read.rs`, `jpeg_write.rs` | image, handoffs, truncation bounds, header between scans | loop over scans, scan loops, passes over a block, Huffman coding | what is accepted is written back |
| row ranges (`row_spec.rs`, `truncate_components.rs`, `thread_handoff.rs`, `block_based_image.rs`, the row loops of `lepton_encoder.rs` and `lepton_decoder.rs`, the split of `lepton_file_writer.rs`) | handoffs, images, offsets | split, combine, code a row, serialise, decode a row | every row by one thread, decodable from its own rows, in place and in order |
| block coding (`lepton_encoder.rs`, `lepton_decoder.rs`, `probability_tables.rs`) | neighbour summaries | contexts, edge and DC prediction | both sides see the same context |
| headers (`lepton_header.rs`, `jpeg_header.rs`) | parsed header, Huffman tables, sections | parse, write | a written header is read back; encoder and decoder keep the same header from scan to scan; a table that is accepted decodes what it encodes |
| wrappers (`dll`, `util`, `python`), metrics, errors | contexts behind pointers | C interface, options | a failed decompression is retried once in 16-bit arithmetic |
| Go port (`lepton/*.go`, `cmd/verify`) | as above, sequential | as above | interoperates with Rust |

Interactions: `LeptonFileReader` feeds `multiplex_read`, whose closures run
`lepton_decode_row_range` over a `VPXBoolReader` and send rows to the JPEG writer
(`BitWriter`, `JpegPositionState`). `encode_lepton` runs `read_jpeg_file`
(`BitReader`, `JpegPositionState`), splits the rows and calls `multiplex_write`,
whose closures run `lepton_encode_row_range` over a `VPXBoolWriter`. Both
multiplexers take their threads from the pool. Threads share no data but
channels, the queue of closures and the pool's stack.

What is hard to test: schedules of threads, closures that fail or panic while the
caller waits, workers the pool drops, input that arrives in any slices with any
output buffers, carries through pending 0xFF bytes, escapes and markers at the
boundaries of read-ahead, files that end anywhere, runs that cross padding and
restarts, and sums and shifts at the limits of their types. The list, line by
line with the properties against each, is under `hazards` in `PROJECT.json`.

## 2. Modules

Modules are small and composed by `EXTENDS` (shared operators and threads) or
`INSTANCE` (`JpegScans`, `StreamCoding`). Definitions keep the names of the source. `MC*` modules
hold only the values of the constants; each `.cfg` names them. Definitions whose
names begin with `Mut` (and a few named for the fault, such as
`RemovePartitionStops`) are faulty versions of the definition after them. No
specification uses them: they show, by replacement, that a property would notice
that fault.

* **ThreadPool** - `execute` is two steps (`ExecuteOnIdle` or `ExecuteFindsNoIdle`
  under the mutex, then `Spawn` outside it); a pool thread sets its priority,
  runs, parks or exits (`StartFirst`, `SetPriorityFails`, `Finish`, `Panic`,
  `Park`, `Receive`).
* **MultiplexFormat** - block headers and what the reader makes of them.
* **ProcessorThreads** - `spawn_processor_threads`: workers that take closures
  from a shared queue; extended by the two multiplexers.
* **MultiplexWrite** - a processor is an arbitrary plan (how many bytes, how it
  ends). `BeginWrite`/`CopyIntoBuffer`/`FinalFlush`/`SendEof` are the writer,
  `WriteBlock`/`RemovePartition`/`OutputFails`/`Collect` the caller.
* **PartialBuffer** - extra buffer and slice with retention.
* **MultiplexRead** - parser (`ParseMarker`, `ParseLength`, `ParseBlock`,
  `ParseStarved`), blocking readers (`ReadBuffer`, `ReadSlow`), results
  (`SendPartial`, `SendLast`, `SendComplete`, `SendError`) and the caller
  (`TryGet...`, `VerifySize`, `SendEof`, `Wait...`, `RunInline`). The caller
  behaves as the `ScanBaseline` state of the file reader.
* **GoMultiplex** - the Go port's demultiplexer and its multiplexer of one
  partition, as operators over a whole file; extended by MultiplexRead, which
  reads files of the Go port and compares both readers.
* **LeptonFile** - what becomes of each byte of a JPEG: `Accepts` and
  `EncodeLepton` (`read_jpeg_file`, `read_jpeg`, `encode_lepton`,
  `write_lepton_header`) divide a file, cut off anywhere, into header, segments
  and garbage; the decoder's half reads the sections, fills in what they leave
  out and lists the pieces to write.
* **FileReader** - the push state machine with both output writers over the
  files of LeptonFile, called as `process_limited_buffer`, as the pull loop of
  `decode_lepton`, or through the DLL's context. Threads are reduced to "the
  result of a segment becomes available once its input has been passed on", which
  is what MultiplexRead shows of them.
* **Branch** - one context at its real width, with the Go port and the C++
  original of the unit test beside it.
* **VPXBoolWriter, VPXBoolReader, BoolCoder** - the arithmetic coder, and a
  writer and a reader that share a sequence of operations.
* **CoefCoding** - the binarisation of `model.rs` and the DC step. A stream is a
  sequence of (branch, bit): BoolCoder shows that the coder returns a bit to a
  reader that consults the same branch.
* **Prediction** - the contexts: neighbour summaries, averages, edge prediction,
  the inverse DCT and DC prediction of `probability_tables.rs`,
  `neighbor_summary.rs` and `idct.rs`, at full width.
* **BlockCoding** - one block, in the order of `write_coefficient_block` and
  `read_coefficient_block` with their edges, and `BlockContext`.
* **PictureCoding** - rows of blocks with the ring of summaries, a writer and a
  reader, streams nobody wrote, and the DLL's one-shot function with its second
  attempt in 16-bit arithmetic.
* **StreamCoding** - PictureCoding and BoolCoder as the two levels of a partition's
  stream: `level` tells which.
* **BitReader, BitWriter, BitIO** - the bit level of a scan, read and rewritten
  by threads split at any point; **GoBitReader** - the Go port's reader, which
  BitIO runs as well (its writer is the Rust one).
* **JpegPosition, ScanOrder, AcScan** - positions and geometry; the first scan,
  walked by reader and row-wise writer side by side; AC scans with runs.
* **BlockCodes** - the symbols of a block in the baseline coding and in the two
  progressive AC passes; **HuffmanTable** - codes, tree and peek table of a DHT
  segment, and the bits of one symbol.
* **JpegHeader** - what each segment leaves in the header, and the checks on the
  way; **ScanSequence** - the loop over headers and scans, in the encoder (which
  adds what each scan codes to the coefficients) and in the decoder (which derives
  each scan from the final coefficients).
* **JpegScans** - these five levels of a JPEG scan and BitIO as one specification: `kind`
  tells which. Each level takes what the next one codes for granted, so that a
  file is restored if every level is.
* **RowRanges** - from the reader's handoffs to the rows given to the JPEG
  writer. A coded block carries the neighbours it was coded with.
* **ThreadPoolProofs, BranchProofs, MultiplexWriteProofs, MultiplexReadProofs,
  MultiplexResultProofs, FileReaderProofs, RowRangesProofs** - theorems;
  **StreamLemmas** - what they need about naturals, sequences and streams.

### Abstractions

Payload bytes are numbered so that a lost, repeated or misplaced one shows.
Formatting, logging, metrics and capacity management are left out. Words are
scaled where the width only sets the period of an event:

* the coder's 64-bit word is 24 bits (`FlushBytes` = 1 byte per flush instead of
  6, so that flushes, carries and refills happen within a few operations); the
  guard bits and shifts keep their relations to the width;
* the bit reader's register has 3 bytes instead of 8 (`RegBytes`);
* block lengths are scaled by `BlockLen`; the proof covers the real ones;
* fixed header, retention and output buffers of FileReader are a few bytes, the
  length of a JPEG segment is one byte, and zlib's data a byte that may be bad;
* blocks of BlockCodes have 5 coefficients of up to 2 bits and runs of up to 1;
  Huffman codes have up to 5 bits, 9 symbols and a tree of 9 nodes, so that codes
  wrap and the tree overflows as with 16 bits and 256 nodes;
* ScanSequence has one block of 3 coefficients per component, of 5 bits
  (`HalfI16` = 16), so that shifts overflow.

`Branch`, the coefficients and the DC arithmetic keep their real widths
(`AsI16`, `U16`). TLC's integers have 32 bits, so priors of CoefCoding stay at
or below 10^9; of the 32-bit arithmetic of the inverse DCT only `R2Times` can
leave that range and wraps explicitly. The thread split multiplies in `f32`: `SplitIndex` allows the
exact floor and, where the product is an integer, one less.

## 3. Runs

| run | instance | shows |
|---|---|---|
| `pool` | 2 callers, 4 closures, 1 CPU, failing priority changes | `IdleThreadsAreFree`, `NeverBehindBusyThread`, `ExactlyOnePlace`; `EveryTaskStarts` |
| `mux_write` | 3 partitions, 11 plans, 0-3 workers or inline | `OutputIsCarousel`, `OkMeansComplete`, `RealErrorReported`; `CallReturns` |
| `mux_read` | 2 partitions, 7 files, one of the Go port, 4 plans, slices of 1, 4 or 20 bytes | `ResultsInOrder`, `BlocksIntact`, `PendingIsUnread`, `VerdictJustified`; `CallReturns` |
| `file_reader` | two JPEGs cut at every byte, files of other encoders, 12 broken ones, all slicings, output buffers of 0, 1, 5 and 99 bytes | `OutputIsPrefix`, `OutcomeFitsFile`; `DecodeEnds` |
| `branch` | every reachable context | `SplitInside`, `SameSplitAsOriginal`, `GoPortAgrees` |
| `stream_coding` | numbers at their limits; ranges of up to 3 rows of 2 blocks; 3 operations of the coder after several openings, fresh and skewed contexts | `ReaderInStep`, `ValueRestored`, `BranchesExist`; `WriterNeverPanics`, `ValueBelowRange`, `DecodesWhatWasCoded` |
| `jpeg_scans` | files of up to 6 scans; pictures up to 5x5 blocks, 5 intervals; AC scans up to 6 blocks; all symbols of a block; Huffman tables; bytes of 6 scans, buffers of 1, 4 and 16 bytes, every split, Rust and Go | `RowsRestartInStep`, `EveryBlockOnce`, `HandoffsAtRows`, `PositionsAgree`, `Rewritten`, `NoSpuriousRefusal`; `RebuildsFile`, `ScanRebuilt`, `MarkerOnlyWhenReached` |
| `row_ranges` | pictures up to 10 MCU rows, cut anywhere, up to 4 threads | `EveryRowByOneThread`, `ThreadsDecodeTheirOwn`, `RowsRestored`, `ImagesFit`, `EndStaysEnd` |
| `row_ranges_last_first_doc` | first scan of the last component | `EndStaysEnd` is violated (finding 1) |
| `coef_go_dc` | the Go encoder's DC step | `GoDcRestored` is violated (finding 2) |
| `scans_tables_doc` | progressive files with segments between their scans | `UpdatedTablesRestored` is violated (finding 3) |
| `pool_idle_doc` | 2 closures, 1 CPU | `IdleThreadsLimited` is violated (finding 4) |

Why these bounds are enough to be interesting:

* `pool`: with one CPU the idle stack's limit is reached, threads exit, and two
  callers race for the last idle thread; four closures are enough for a thread
  to be used again after parking while another exits. There are as many thread
  names as closures, so that a new thread always has one.
* `mux_write`: plans include an empty partition, less than a block, exactly one
  and more than one, and failures in first, middle and last place and two at
  once. With fewer workers than partitions closures wait in the queue.
* `mux_read`: flagged and explicit lengths, interleaved blocks, an empty
  partition, a whole block of a partition that does not exist (which the Rust parser
  refuses and the Go demultiplexer leaves out) before another block of one that
  does, a wrong size, and files cut in a
  header and in the trailer. A slice of 1 byte stops the parser in every state.
* `file_reader`: a baseline and a progressive JPEG with data behind the end, cut
  at every byte, with rows that start inside a byte or not and one or two threads;
  garbage as other encoders store it; a wrong trailer, wrong markers and sections,
  failing and starving threads, and cut Lepton files.
* `stream_coding`, coder: the second opening leaves two 0xFF bytes pending before a
  possible carry, the case the writer's loop over the buffer exists for; skewed
  contexts make a bit consume up to seven, in their opening several times in a row.
* `stream_coding`, model: every inner coefficient, edge coefficients on both sides of
  every power of two, under every noise threshold and extreme priors, and DC
  values and predictions beyond the limits on both sides. Six kinds of blocks
  (empty, full, only edges, extreme, sparse, refused) in every arrangement of the
  first three, ranges that begin inside the picture and end inside a row, so that
  every neighbourhood occurs and the ring of summaries is overwritten. For the
  second attempt, pictures on which the two arithmetics differ, and headers that
  tell the arithmetic or not. Noise: every repetition of a pattern of six bits.
* `jpeg_scans`, bytes: escapes at the start, inside and at the end of the fast path, reset
  codes, and scans that end with a marker, with the last byte, and with an 0xFF
  cut from its escape.
* `jpeg_scans`: sizes that are no multiple of the MCU give padding on both axes;
  intervals divide rows, straddle them and equal one MCU; `max_eob_run` 1 and 3
  are reached within a scan. Block symbols are taken in any order, legal or not,
  until the block is full. Tables: every distribution of up to four codes over
  five lengths, incomplete, full and overfull, with symbols in order, reversed,
  repeated and missing, and four that exhaust the tree. Files: every sequence of
  up to three scans of seven kinds, refinements over five scans, every pair of
  nine kinds of segments between scans, and headers with each part missing.
* `row_ranges`: `RowsRestored` says of the rows handed to the JPEG writer that they
  come in order, each once, and cover every block that was read; one to four threads
  of one to several rows, three components,
  and one sampling in which the first component is the smaller one.

### Fairness

Weak fairness on what a thread that can run does next: the operating system
schedules callers and pool threads. None on `Finish` of the pool, because a
closure may block for ever (the pool must not care; closures that a failing change of
priority drops do not start, and what becomes of their callers is `CallReturns` and
`VerdictJustified` of the multiplexers), none on a failing output
or a lost worker. In the multiplexers the closures are fair because a processor
works through a finite amount of data; in `mux_read` the caller goes on feeding
the file. In `file_reader` the caller may repeat useless calls (no input, no
room) for ever; strong fairness on `UsefulCall` says that it makes a useful one
again and again, without which no interface of this kind can end.

### Findings

1. `get_row_spec_from_index` (`row_spec.rs:70`) does not look at the last
   component when it decides whether rows are left. For a sequential file that
   is not interleaved, begins with the scan of its last component and ends early,
   the encoder's closing assertion fails.
2. The Go encoder does not check that DC and prediction can be restored, as the
   Rust encoder does, so a DC value beyond 1024 is encoded to another one.
3. `jpeg_read.rs:382` speaks of quantisation tables updated between scans. The
   encoder codes the blocks with the tables as they are after the last scan
   (`lepton_file_writer.rs:255`), the decoder with those of the first header
   (`lepton_file_reader.rs:576`), so a file that redefines a table it uses is
   accepted and not restored. (`Rewritten` leaves these files out, as `odd` =
   "DQT" in ScanSequence; it says that other tables may change.)
4. `simple_threadpool.rs:129` compares the length of the idle stack before the push,
   so that `NUM_CPUS` + 1 threads stay idle, where line 73 promises `NUM_CPUS`. What
   holds is proved as `PoolIdleThreadsBounded`.

Differences between comments and code met on the way that need no run:

* `multiplexer.rs:303` says that the end of the input breaks the channels, which
  makes a reading processor "error out"; `retrieve_result` first sends Eof to all
  (line 504), so a processor sees an ordinary end of file;
* `multiplexer.rs:490` says that `retrieve_result(true)` blocks until all threads
  are complete; it returns with the first result of the front channel (line 526);
* `jpeg_position_state.rs:30` calls `rstw` the number of blocks left;
  `new` (line 52) derives it from MCUs. In scans of one component with sampling
  factors above 1 and a restart interval reader and writer disagree and the
  verification refuses the file, so `jpeg_scans` leaves such headers out;
* `check_optimal_eobrun` (line 261) means to refuse every run that an optimal
  encoder would have merged with the next; a run of one block leaves `prev_eobrun`
  at 0 and passes (line 271), and `skip_eobrun` accepts a run one block past the
  interval (lines 205-208).

Files that are accepted and not restored, so that only the verification of
`encode_lepton_verify` refuses them. Each is named in its module, mostly by the
variable `odd`, and `Rewritten` and `OutcomeFitsFile` are stated for all others:

* the two kinds of runs above (AcScan);
* baseline symbols for zeros that are no run of 16, and, in progressive passes, a
  run of 16 zeros directly before the end of the block (BlockCodes);
* progressions in which a scan repeats, skips or overflows bits (ScanSequence);
  on the other hand scans of a single AC coefficient, which are legal, are refused;
* a progressive file with segments behind its last scan and no EOI: the last two
  bytes of these segments are taken for the EOI (`jpeg_header.rs:162`, LeptonFile);
* a baseline file that ends inside a code which spans an escaped 0xFF (BitIO);
* progressive files that redefine a quantisation table between scans (finding 3).

The Go encoder does not verify its output, so what it accepts without being able
to restore it is lost. Besides finding 2: the last fill bits of a scan are not
looked at once the pad bit is known, and a file that ends early is encoded as if
it did not (`jpeg_read.go:479` and 485; both are exceptions in `ScanRebuilt`); and
`getMaxEobRun` (`jpeg_read.go:1337`) gives 2^n for the longest run where the writer
(`jpeg_writer.go:74`) uses 2^(n+1) - 1, so that the reader accepts runs that the
writer merges (no run covers this one).

## 4. Proofs

For every value of the constants, under the named assumptions of each module.

**ThreadPoolProofs** (any sets of callers, closures and threads, any number of CPUs;
`PoolAssumption`).
* `PoolSafe`, `PoolIdleFree`, `PoolNeverBehind`, `PoolIdleThreadsBounded`: the pool never
  sends a closure to a thread that is dead or busy, and no more than `NUM_CPUS` + 1
  threads wait for work: all of these are on the stack, which is bounded.
  `IdleThreadsAreFree` is not inductive alone: `ExecuteOnIdle` keeps it only if no
  thread is on the stack twice, `Park` only if a thread that is not waiting has an
  empty channel. The inductive invariant is
  `PoolInv == TypeOK /\ IdleThreadsAreFree /\ NeverBehindBusyThread /\ StackBound`.
* `PoolExactlyOnePlace`: `ExactlyOnePlace` counts places, so the invariant `OnePlace`
  says of every closure that no two of its places exist at once and that one does;
  it needs `PoolInv`, because only an empty channel can take a closure safely. A closure in
  the channel of a thread that has exited is in no place, since nobody will receive it:
  `ChannelsAreAlive` says that there is none, and `DroppedWithPriority` that only a
  failing change of priority drops one.

**BranchProofs** (no assumptions; every context that some sequence of bits reaches).
* `BranchSafe` (`CountsPositive` is inductive: case split on whether the top byte
  overflows, with the rotation lemma `RotateSwaps` for true bits), `BranchUpdate`
  (the branch-free update is the documented one) and `BranchSplit` (from
  `CountsPositive`: the probability is in 1..255 by `DivBounds`, hence the split is
  strictly inside every normalised range).
* `BranchGoPort`: update and probability of the Go port are the same functions of
  the 16 bits. `BranchSameSplit`: the C++ original keeps two counts and the
  probability; `OriginalInStep` says that its counts are the two bytes and that its
  probability is that of the counts, except for a 0 it stores where the table says 1.

**MultiplexWriteProofs** (1 to 16 partitions, any amounts of
data, any block capacity, any number of workers; `WriteAssumption`).
* `HeadersRoundTrip`: what the writer puts before a block and what the reader makes
  of it, for all partitions and lengths up to 65536 and every table of abbreviated
  lengths (`BlockLenAssumption`); the runs use scaled lengths.
* `WriteControl`: the invariant `ControlInv` joins the types, `QueueInv` (queued
  closures are those nobody took), `CallerInv` (what the caller holds in each of its
  phases), `SendersHeard` (unless the output failed, whoever may still send is
  listened to), `EofInv` and `VerdictInv` (the verdict after the first results).
  `WriteReportsRealError` follows at the end of the collection.
* `WriteOutputIsCarousel`, `WriteOkMeansComplete`: that the output does not depend
  on the schedule. `Reference` is the stream that rounds over the partitions define,
  a recursive function of the visit. `StreamInv` says that the blocks which a
  partition has still to give are those in its channel followed by those its closure
  has still to make, that the caller is at a visit of the reference (`AtTurn`), and
  that the output is the reference up to there. A partition is removed at its Eof:
  the visits of the reference that it would have had give nothing (`StreamSkips`).

**MultiplexReadProofs** (any number of partitions, any bytes, slices, sizes of reads
and results, any schedule; `ReadAssumption`, `FilesAssumption`).
* `ReadPendingIsUnread`: inductive with `PlaceInv`, which says entry by entry that
  the two buffers hold the file's bytes from `Parsed` on.
* `ReadBlocksIntact`: the reference is `GoDemultiplex`, the loop of the Go port over
  the whole body, with what it adds from every position on. `AtBlock(b)` ties the
  incremental parser to the block that starts at b: its state is what the header at
  b says, as far as it has been taken. `BlockInv`: for every partition that still
  listens, what was sent as results, is in the processor, in the current block and
  in the channel, followed by what the reference adds from b on, is what the
  reference gives altogether; for the others some rest makes up the whole. Each step moves a border
  between these parts (`ChainMoves`). `StarvedInv` (the parser only stops when it
  lacks data, and the size is only verified once all was fed) gives, with `ValidEnds`, that
  a valid file is parsed to the end of its last block.
  `FilesAssumption` says what `payload` and `valid` mean: the payload begins with what
  the blocks hold (for arbitrary bytes, take it to be just that), and a valid file consists of whole
  blocks, which hold the payloads, and its own size. In a file that is not valid the size
  does not stand where the parser stops (`Reaches`, `StopsAt`): damage after which the
  four bytes there happen to be the size cannot be told from a shorter file, and the
  code accepts it. TLC evaluates the assumption on the run's files.

**MultiplexResultProofs** (the same constants and assumptions).
* `ReadResultsInOrder`, `ReadVerdictJustified`: what the caller gets, whatever the
  schedule. While the call goes on, `ResultInv` says that for some partition k, the
  first one that is not complete, `Open(k)` holds: the channels before k are gone, and
  their processors returned Ok; what was handed out followed by what is in channel k is
  the contributions before k and what processor k has sent; every later channel holds
  what its processor has sent; a closure that has returned has left its one final
  message behind all results (`ChannelInv`). `CallInv` is why that message is the right
  one: as long as the caller listens no closure meets a closed channel, each is told of
  the end of its input exactly once and only after its last block (`InputInv`), so that
  a processor which finds the end, or has what it wants, has read all that it
  contributes (`ReadyMeansAll`), and a closure that is lost was dropped with the pool's
  queue. `SizeTells`: the size is accepted exactly for valid files. After the end of
  the call closures still run (`DoneKept`), and the outcome stands.

**FileReaderProofs** (any files of any length, any sizes of fixed header and retention,
any slices, output buffers and timing of the threads; `SizesAssumption`,
`PiecesAssumption`, `FilesAssumption`).
* `ReaderOutputIsPrefix`, `ReaderOutcomeFitsFile`: the inductive invariant is
  `Inv == HeaderInv /\ OutputInv /\ InputInv /\ ThreadInv /\ EndInv`. `OutputInv` has
  what both theorems rest on: what was delivered followed by the queue is what was
  written so far (`SoFar`), cut at the JPEG's size, and the counter `left` is the
  rest of that size. It is kept across calls only because nothing goes to the
  output buffer while the queue is not empty (`queue # << >> => room = 0`).
  `HeaderInv` and `InputInv` tie the state to the bytes of the file that were taken
  (`Place`): what is pending is the file from there on, and the retained bytes are
  in it once anything of the body was passed on, so that at the end of the input
  `verify_eof_file_size` sees the last bytes and `consumed` is the length of the
  body. `ThreadInv`: results taken so far have not failed, and until the end of the
  input only results whose input was there have arrived. With these, `FinishScan`
  means that the file was well-formed as far as it was fed (`WellFormed`), and each
  failing step that it was not, which is `EndInv`.
* `FilesAssumption` says what `jpeg` and `sound` mean: the pieces that the header and
  the coded rows of a file give, cut at the recorded size, begin the JPEG; a file
  that is well-formed is sound, also when only a part of it was fed; a sound one
  gives all of the JPEG. That the files `encode_lepton` writes are sound in this
  sense (the default garbage, the shortened last segment, the ends of handoffs) is a
  round trip over data; TLC evaluates it, as this assumption, on JPEGs cut at every
  byte. The theorems add that no slicing, buffer, timing or failure changes it.

**RowRangesProofs** (any pictures of up to three components with any sampling, height,
width and restart interval, cut off after any block; any number of threads and file
size; `PicturesAssumption`, `ThreadsAssumption`).
* `RowsByOneThread`, `RowsEndStaysEnd`. Their hypothesis, that no first scan begins with
  the last of several components (`LastNotFirst`), is what finding 1 is about: without
  it the end can be declared too early, as `row_ranges_last_first_doc` shows. The
  pictures of `row_ranges` satisfy it.
* `RowRangesInvariant`: the inductive invariant follows the phases. While reading
  (`ReadInv`), the rows noted are consecutive, and no component has a block in a later
  MCU row than the component that the scan begins with: within an MCU that one is read
  first (`NextFacts`, from `next_mcu_pos` with its padding and both of its orders).
  That is why the end, which is not looked for in the last component, is never
  declared too early (`EndFacts`). The split (`RangesInv`) gives each thread rows
  although a product of floats may come out just below an integer: with two MCU rows
  for each thread the shares are two apart (`SharesApart`), so one lost does not make a
  range empty or reversed. While threads code (`EncodeInv`), `coded` holds exactly the
  rows in the ranges of the threads before `t` and, of thread `t`, those before `index`;
  `SpecFacts` says that the index is the row's number in the order of `RowSpec` and
  `IndexOrder` that `luma_y` never goes back in it, so that a thread that leaves its
  loop has nothing left (`NothingLeft`).

**StreamLemmas**: the library's induction theorems take the property as an operator,
which the provers cannot instantiate. `InductionOnSet` is induction for a set of
naturals, from well-foundedness; with it existence and uniqueness of joins of
infinitely many pieces, `FlattenSeq` of a longer sequence, the data of a channel,
quotients.

Only model-checked: liveness (fairness and ENABLED are out of the prover's reach), and
the round trips of boolean coder, bit I/O, scans and coefficients; of the row ranges,
what the decoding threads restore (`ThreadsDecodeTheirOwn`, `RowsRestored`,
`ImagesFit`). These are statements about what folds compute from data, which take
induction over the data. Before a proof its inductive invariant was checked with TLC on
the states of the run; that of the row ranges also on scans that are not interleaved,
on other orders of the components and with restart intervals.

## 5. Not modelled, and why

* I/O errors of the streams below (they end the operation with `?`), allocation
  failure, metrics, logging.
* zlib, which packs the header, is external: data that is bad or good.
* The SIMD form of the inverse DCT: the same arithmetic in lanes.
* Wrappers (`util`, `python`, most of `dll`): options and conversions around the
  library.
* `rst_cnt` is never set by the reader of this version; files in which another
  encoder set it are among those of `file_reader`.
* Early end of file in `ScanOrder`: `RowRanges` models it.
* The levels of `jpeg_scans` and `stream_coding`, and `RowRanges`, are not
  composed into one specification: the product of their states is out of TLC's
  reach. What one takes for granted of the next is said at the head of each.
* Go: boolean coder, block coding and positions are ports of the Rust code that
  were compared with it; definitions of their own would repeat those of the Rust
  code. Go's Lepton header and its JPEG reader's and writer's loops are left out.
* Benchmarks, fuzz target and tests: read as statements about the program.
* `decode_lepton_file_image` and `generate_huff_table_from_distribution`: for
  debugging and tests.

## 6. Plan

Done: all components of the Rust library and the demultiplexer and the bit reader of the
Go port; the theorems about pool, branch, block headers, both multiplexers and the file
reader: every safety invariant that the runs of these components check; those about the
division of the rows between threads.

Next, in this order:

1. `JpegHeader` and `ScanSequence`: encoder and decoder hold the same header at the
   same scan; `DivPow2` undoes a sound refinement of either sign.
2. `ImagesFit`, and the lemma for `JpegScans` that a restarted position equals the
   walked one.
3. The Go reader's longest run in AcScan.
