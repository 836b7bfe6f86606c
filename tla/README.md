# BoundsCheckExplorer: specifications, model checks and proofs

BoundsCheckExplorer measures what Rust's bounds checks cost. A driver removes
subsets of the checks of a program, builds and times each variant, and searches
for the fewest checks that have to go for the program to stay near the speed of
the unchecked one. LLVM passes remove, count and attribute checks, and the
repository carries the program that is explored most closely: a brotli
decompressor (`brotli-exp`), whose unchecked accesses are sound only as long as
its own protocol keeps every index where it must be.

This directory specifies those parts of the repository that are hard to test:
the decoder's streaming protocol, its commands and prefix codes, its ring
buffer, the loops that drive it, the exploration with its concurrent builds, and
the profiler that picks the loops worth exploring. Paths are relative to the
repository's root; in the files of this directory they start with `src/`.

## 1. Inventory

| Part | Source | State it keeps | Operations | Hard about it |
|---|---|---|---|---|
| Bit reader | `brotli-exp/src/bit_reader/mod.rs` | `val_`, `bit_pos_`, `next_in`, `avail_in` | fill, peek, drop, safe reads, save and restore, warm-up, unload, jump to a byte, copy bytes | loads of 4 or 8 bytes that count fewer; `^=` used as subtraction; unsigned cursors |
| Input protocol | `brotli-exp/src/decode.rs` (`BrotliDecompressStream`, `ProcessCommands`, `SafeProcessCommands`, the reads), `state.rs` | the 8-byte `buffer` and its length, `error_code`, the sub-states, the caller's cursor | a call, the loop with its retries, every read, leaving the call | input cut anywhere; a read retried from saved bytes; five edges that loop without returning |
| Ring buffer and output | `decode.rs` (`WriteRingBuffer`, `WrapRingBuffer`, `BrotliAllocateRingBuffer`, the copies, `BrotliDecoderTakeOutput`) | `ringbuffer`, `pos`, `rb_roundtrips`, `partial_pos_out`, `should_wrap_ringbuffer`, `max_distance` | literals, words, copies, uncompressed bytes, writing out, wrapping | the window is also the output queue; writes go past its end; the output may be full at any write |
| Command control | `decode.rs` | block types and lengths, `dist_rb`, tree selection | block switches, distances | rings of two and four elements moved back and forward |
| Metablock headers, prefix codes | `decode.rs`, `huffman/mod.rs` | sub-states, histograms, tables | header fields, code lengths, tables, context maps | resumable loops; canonical codes |
| Reader, Writer, io wrappers | `reader.rs`, `writer.rs`, `io_wrappers.rs` | buffers, offsets, one stored error | read, write, close | loops around the decoder that rest on what it promises |
| C interface, allocators, tables | `ffi/`, `memory.rs`, `dictionary/`, `context.rs`, `prefix.rs`, `transform.rs` | none of a protocol | conversions | |
| Source explorer | `SourceCorvair.py`, `oneGenFromSource.sh`, `GreedyRemove.py` (`runExpWithName`) | the lines still unsafe, the baseline, one directory a variant | measure a baseline, build all single removals at once, run them, remove what is harmless | concurrent builds in directories used before; exit codes nobody reads; noise |
| Multi-file explorer | `SourceCorvair_multifile.py` | the same for several files | the same | the same |
| Function explorer | `GreedyRemove.py` | groups of functions, results | leave-one-out, final list, top N | off-by-one lists, missing results |
| Source converter | `regexify.py` | none | replace `get_unchecked` | matching parentheses |
| remove-bc pass | `remove-bc-pass/` | a list of branches to replace | rewrite control flow | entries logged twice |
| Outer loop profiler | `outer-loop-prof-instr/`, `outer-loop-prof-runtime/` | visited functions, time stamps | choose loops, time them | order of visits, recursion |
| Life cycle passes | `bc-life-cycle-pass/`, `instr-cnt-dump-pass/`, `ParseCount.py` | identities of checks | number, dump, count | checks copied and merged by the optimiser |
| The rest | `show-fn-names`, `avoid-bench-inline`, `ParseCallgrind.py`, `ResultPresenter.py`, `BenchmarkSelection`, benchmarks, scripts | none | straight-line | |

How they meet:

- A Reader or Writer (or a C caller) calls `BrotliDecompressStream` with a slice
  of input and a slice of room. Inside, the bit reader is the only way to input
  and the ring the only way to output; the command loop couples the two: it may
  stop at a read (needs input) or at a write (needs room), and every call has to
  start again exactly there.
- The explorers run the decoder as a program. They share a directory tree with
  the build scripts: the converter writes `src/lib.rs`, cargo builds, the script
  copies `exp.exe`, and the run takes whatever `exp.exe` is there.
- The passes are run by the scripts, one after the other, on bitcode files.

What makes each part correct:

- *Input*: every bit of the stream is decoded once and in order, however it is
  cut; the caller is told exactly what was taken; no load leaves the slice; a
  call with finite input returns.
- *Output*: the caller gets the decoded bytes once and in order; no byte is
  overwritten before it is written out, or while a copy may still reach it; no
  write leaves the buffer; the result of a call tells the truth.
- *Explorer*: a time belongs to the program it is reported for; an exploration
  ends; where it ends no single further removal fits; its result is below the
  threshold under whose name it is printed.
- *Passes*: a rewriting keeps every path but those to the panics it removes;
  counts add up.

## 2. Modules

| Module | Models | Lines it answers to |
|---|---|---|
| `BitReader` | `struct BrotliBitReader` as a record, its functions as operators | `bit_reader/mod.rs` |
| `StreamInput` (EXTENDS `BitReader`) | the input protocol | `decode.rs` 2644-2780, the reads, the ends of a metablock |
| `MCStreamInput` | its instances for TLC | |
| `StreamInputProofs` | its theorems | |
| `OutputStream` | what the output promises, without a ring | |
| `OutputRing` | the ring buffer, implementing `OutputStream` | `decode.rs` 1678-1874, 2151-2186, 2248-2575, 3156-3237 |
| `OutputRingProofs` | theorems about its counters, the bytes in it and the refinement | |
| `RecentDistances` | what the distances of a stream mean | |
| `Commands` | the commands of compressed metablocks, implementing `RecentDistances` | `decode.rs` 1442-1657, 1907-2071, 2224-2593, 2904-3209 without the ring |
| `MCCommands` | its instance for TLC | |
| `CommandsProofs` | its theorems | |
| `PrefixCode` | what a prefix code in a stream is | |
| `PowersOfTwo` | `1 << n` as a recursive function | |
| `HuffmanTable` | its lookup tables, as operators | `huffman/mod.rs` 135-472, the decoders in `decode.rs` 379-442 |
| `PrefixCodeReader` (EXTENDS `HuffmanTable`) | reading a code piece by piece, implementing `PrefixCode` | `decode.rs` 501-1012 |
| `MCPrefixCode` | its instance for TLC | |
| `HuffmanTableProofs` | theorems about sums, reversed bits and the tables | |
| `PrefixCodeProofs` (EXTENDS both) | theorems about the reader: its tables decode, it implements `PrefixCode` | |
| `Decoder` | the decoder as its callers see it, the source and the sink | `BrotliDecompressStream` as a whole |
| `Decompressor`, `DecompressorWriter`, `DecompressCustomIo` (EXTEND `Decoder`) | one loop around the decoder each | `reader.rs`, `writer.rs`, `lib.rs` |
| `DecompressorIo` | the three loops with their user, implementing `OutputStream` | |
| `DecompressorIoProofs` | its theorems | |
| `OuterLoopInstr` | the pass that chooses loops | `outer-loop-prof-instr/src/CatPass.cpp` |
| `LoopTimes` | what a profile of loops promises | |
| `OuterLoopProf` (EXTENDS `OuterLoopInstr`) | an instrumented program and the profiler's runtime, implementing `LoopTimes` | `OuterLoopProfRT.cpp` |
| `MCOuterLoopProf` | its instance for TLC | |
| `OuterLoopProofs` | its theorems | |
| `SourceExplorer` | the exploration and its builds | `SourceCorvair.py`, `oneGenFromSource.sh` |
| `MCSourceExplorer` | its instances for TLC | |
| `SourceExplorerProofs` | its theorems | |

Definitions named "Mutation" in a comment are plausible mistakes in the code.
Each is the replacement of the definition after it for one test of a property:
with the mistake in place TLC finds the property violated.

### 2.1 BitReader and StreamInput

The record keeps `bit_pos_`, `next_in`, `avail_in` and, in the place of the bits
of `val_`, `loaded`: how many bytes of the stream the register has taken in. The
unread bits of the register are then the last `64 - bit_pos` bits of those
bytes, and `BitPosition` says which bit of the stream a read returns next.
Everything the protocol can get wrong (a byte lost, repeated or reordered, a bit
used twice) is a wrong `loaded` or `bit_pos`, so the values of the bits are not
needed: after each read the next operation is *any* member of `Operations`.
Only the 64-bit register is modelled.

An operation is one read with its kind and widths (a header field, a symbol, a
command, a block switch, a distance, the bytes of an uncompressed metablock).
Codes of length 0 are left out: a read that takes no input changes nothing here.

| Action | Code |
|---|---|
| `Call`, `CallAfterError` | entry: the copy of the missing bytes into `s.buffer`, the early return after an error |
| `SafeRead` | one read of a `Safe...` function, with the memento of `BrotliBitReaderSaveState` |
| `EnterFast`, `FastRead`, `LeaveFast` | `ProcessCommands`: warm-up, the reads between two checks of 28 bytes, falling back to `SafeProcessCommands` |
| `FastCodeLength` | `ReadSymbolCodeLengths` with 4 bytes loaded |
| `WriteRing` | the write states, seen from the input: all written or output full |
| `FinishLast`, `StillDone` | the end of the last metablock, parked at a byte boundary |
| `SwitchToInput`, `TakeOneByte`, `GiveUp`, `SaveTail`, `ForcedWriteFails`, `ReturnOther` | the branches of the loop for a result that is not success |

`op`, `phase` and `budget` stand for `s.state` and its sub-states. `budget`
counts the bits that the fast path may still read before its next check; the
comments at `Allowance` derive the 167 bits from the longest path through the
loop: a block switch (54), a literal (15), another block switch (54) and a
distance (44, of which 29 are extra bits: large windows are accepted by default,
and there a distance symbol may be as large as `BrotliMaxDistanceSymbol`
allows). The code's own comments count 162 and 156, for 24 extra bits. Array contents are numbers of bytes of the stream, so order shows.

### 2.2 OutputRing and OutputStream

A cell of the ring holds the number of the output byte in it, a negative number
for a byte of the custom dictionary (or one of the two zeros before the first
byte), or `Junk`. A block move writes `Junk` past the bytes it means to copy,
and where its source is not what it should be. The stream is open: any command
lengths, distances, words, metablocks, and errors, so invalid streams (longer
than their metablock says, for one) are included.

`Call`, `TakeOutput` and the room offered are the caller; `Header`,
`MetablockDone`, `Done`, `CopyUncompressed`, `OutOfInput` and `InvalidStream`
are metablocks; `ReadCommand`, `Literal`, `CopyBack`, `DictionaryWord`,
`WrapCopy`, `EndWrapCopy` and `WriteStep` are a command and the write states it
goes through. `WriteRingBuffer` and `Wrapped` are the functions of that name.
`OutOfInput` is the seam to `StreamInput`: in the states that read, a call may
run out of input, and then the pending output is forced out first.
`BrotliDecoderHasMoreOutput` and `BrotliDecoderIsFinished` only read.

One discipline of the caller is assumed (the conjunct on
`should_wrap_ringbuffer` in `Call`): whoever takes bytes with `TakeOutput` takes
them all before offering a buffer again. The code would wrap too late otherwise.

`OutputStream` has two variables, `produced` and `delivered`, and two actions.
`OutputRing` implements it with `produced <- Total`, checked as `StreamSpec`.

### 2.3 SourceExplorer

The driver is `iterativeExplore`, called for one threshold after the other on
what the last left; `pc` is the place in it. Each directory has the state of its
child process, the lines left unsafe in its `src/lib.rs` and those left unsafe
in its `exp.exe`. Builds are processes of their own: they end in any order,
successfully or not; after a failure the old `exp.exe` stays. `Time(lines)` is
the set of times that program may take, so noise and costs that depend on each
other are included, and `Failed` is a run without a result. Floating-point times
are natural numbers; `1 + sensitivity` is a ratio of two.

### 2.4 Commands and RecentDistances

`Commands` is `ProcessCommandsInternal` in both versions (`safe`): the block
types of the three categories with the rings of two types, the context maps, the
trees that symbols are read with, and the ring of four distances. A symbol is
chosen, as the bits are `StreamInput`'s; `pos` is the number of bytes decoded,
not wrapped, as the ring is `OutputRing`'s. `FastEnds` (less input than 28
bytes) is possible at every check of the fast version, `SafeEnds` in every
symbol of the safe one. The bits of a symbol that was cut are put back; when it
is read again it may be any symbol, so what the first try left in the state is
put to the test. `dist_rb_idx` is kept modulo 4, which is the only way the code
uses it.

`RecentDistances` has the list of the last four distances and no ring, no
index and no half-read symbol. `Commands` implements it: `DistancesSpec`.

Two effects at the rim of the code, seen while modelling: a block of the only
type lasts 2^24 symbols because each symbol is assumed to produce a byte or to
end the stream. Words that their transform empties produce none; a stream of
nothing but such commands could use the block up, and then the safe version asks
for input forever. In the fast version the length of such a block wraps, on
streams that have run past their metablock. The history variable `empty_words`
counts these words in a metablock (bounded by `MaxEmptyWords`), so that
`OneTypeLasts` says exactly this: a block is used up only by as many of them.

### 2.5 HuffmanTable, PrefixCodeReader and PrefixCode

A table is a function from the next `RootBits` bits to a symbol and its length,
or to a table of the second level. The three builders and the two decoders are
operators. `PrefixCodeReader` has one action per symbol read by
`ReadHuffmanCode`, and one for the end of the input in each of its loops. Three
of the loops work on copies of the fields of the state (`local`); what they do
not save is lost when the input ends (`PauseSimple`, `PauseComplex`,
`FastEnds`). Left out: the bits (a symbol is any that the table in use can
return), the size of the memory for tables, the wrapping of the unsigned `space`
(it is an `Int`, and negative where the code tests for a wrapped one), and the
values of fields that the next code overwrites.

Powers of two and the steps of `BuildHuffmanTable` are recursive functions, sums
are `SumFunction`: forms that the prover can unfold.

`PrefixCode` reads the same list with nothing in between: lengths one by one,
runs that go on, `Complete` when the lengths use up all words, `Listed` for the
simple codes. Its `code` maps symbols to lengths, and `WordsOf` gives the
canonical words. The refinement takes the code from the table that was built, by
decoding every input with it.

### 2.6 Decoder and the loops around it

`Decoder` is what `StreamInput` and `OutputRing` promise: a call takes input in
order and puts out what was decoded, `NeedsMoreInput` means all input was taken,
`NeedsMoreOutput` that the buffer is full, a failure that the stream is invalid.
How much it decodes from a byte is open. The source gives a part, nothing for
now (an error that is not the end) or ends; the sink accepts a part or fails, for
good or for a while. Once a write of it has failed the rest of its output is gone
and so is the input that write had left: the decoder goes on with what comes
next, which may then be invalid (`Skipped`), and `later` holds what such a sink
still gets. `Decompressor` is `read`, `DecompressorWriter` is `write`, `flush`,
`into_inner` and `drop`, `DecompressCustomIo` the function of that name. A
behaviour uses one of the three. The return value of every call is in `ret`, and
a panic is a phase of its own.

### 2.7 OuterLoopInstr, OuterLoopProf and LoopTimes

The pass takes the functions with loops in the order of their addresses, so any
order is possible; `frames` is the recursion of `visitAndRemoveFnRec`. Calls by
pointer are in the program and not seen by the pass. The program that runs then
is any with these calls and loops. `again` is a history variable: a loop that
begins again before it ended (recursion) overwrites its time stamp and is off
the record in `LoopTimes`, as nothing true can be said of it. Not modelled:
panics that leave a loop past its exit blocks, threads, and time stamps that
differ between cores.

`exp-depth` is no bound on how many profiled loops run inside each other. The
walk of another function, or `bench` calling everything, leaves functions on the
list that a first walk would have taken off, and chains of three nest with
`exp-depth` 0 and 1. What holds is weaker: `NestsWithinDepth`.

## 3. Runs

| Run | Instance | What it shows | Distinct states |
|---|---|---|---|
| `stream_input` | 16 bytes in chunks of 0, 1, 3, 15; six reads; 15 bytes for the fast path | the properties below | 5,727,976 |
| `stream_padding` | 3 bytes | violation, see 3.1 | |
| `output_ring` | window 8, slack 4, up to 14 bytes | six invariants and the refinement | 1,496,183 |
| `ring_dictionary` | window 16, shortened to 8, dictionary of 4 | violation, see 3.1 | |
| `commands` | two metablocks of 4 bytes, three types of literals or two of commands and distances | three invariants and the refinement | 762,726 |
| `prefix_code` | 6 symbols, words of up to 5 bits, tables of 3 bits, two codes | one invariant, one step property and the refinement | 338,755 |
| `decompressor_io` | streams of 1 or 4 bytes, sources of 1, 2 or 5, output of 0 or 3, buffers of 1 or 3 | five invariants, the refinement, two liveness properties | 122,189 |
| `io_panics` | the same | violation, see 3.1 | |
| `loop_profile` | 3 functions with a loop each, up to 3 calls, `exp-depth` 0 and 1 | one invariant and the refinement | 2,005,516 |
| `source_explorer` | 3 lines, 2 thresholds, times 10, 11, 12 or none | three invariants and termination | 77,613 |
| `explorer_threshold` | exact times, 0.8 percent a line | violation, see 3.1 | |
| `explorer_stale_binary` | the same, with builds that fail | violation, see 3.1 | |

**stream_input.** The cuts and the stream length put every chunk border before,
inside and after every read, make reads longer than the tail buffer (63 bits
against 8 bytes), and leave room to go through the buffer, the chunk and the
fast path in one behaviour. `Command(15, 24, 24)` is the longest command of the
format, and `Distance(15, 29)` the longest distance, one of a large window. The
two constants of the fast path are scaled to 15 bytes and 63 bits (one command, or
a literal and a distance, between two checks) so that a stream of 16 bytes enters
and leaves it; the assumption that relates them is that of the code. In the code
they are 28 bytes and 167 bits, and the bound is tight: 8 * 28 = 167 + 57. That
case is covered by the theorem `FastPathIsSafe`, not by a run.

- `NextBytesInOrder`: in a call, the bytes yet to load are the ones that follow
  those loaded, wherever they are kept.
- `RetryKeepsBits`: a read that runs short has used no bit.
- `ConsumedIsKept`: between calls, what the caller was told is consumed is in
  the register or in the tail buffer.
- `ExactConsumption`: when the stream ends or the output is full, every byte no
  bit of which was used is the caller's again.
- `SwitchHoldsLessThanAByte`, `BufferAssertion`, `CursorInSlice`: the comments
  and assertions of the code, and the unsigned subtractions.
- `FastLoadsAreSound`: between two checks no load passes the end of the chunk and
  no load meets an empty register, where `bit_pos_ ^= 56` would not subtract. The
  theorem `FastPathIsSafe` says it for all constants, those of the code included.
- `CallMakesProgress`: each turn of the loop reads on in the stream, or else has
  fewer bytes left to try, or else goes down in a rank of the states, so a call
  with finite input returns. It takes the place of a liveness property, and needs
  no fairness: the loop is sequential code.

**output_ring.** A window of 8 bytes with a gap and a first guess of 2 keeps the
proportions of the code (guess <= gap, two guesses <= slack). 14 bytes go round
the ring, with copies of one guess, two guesses and more, at all distances,
overlapping and wrapping, words that go past the end, small output buffers and
`TakeOutput`. Lengths and dictionary sizes are such that a ring with a
dictionary is never a shortened one; the other case is the run
`ring_dictionary`.

- `UnwrittenIntact`: no byte is overwritten before the caller has it.
- `WindowIntact`: no copy reads a cell that was overwritten.
- `ContextIntact`: the last two bytes are found across the ring's end.
- `WritesInBounds`: writes start in the ring, the slack takes the rest.
- `ResultIsHonest`: what a call returns fits what it did.
- `StreamSpec`: the refinement.

**commands.** Three types let a switch ask for the type before last, the next and
any other; four bytes of a metablock hold two commands, the longest of which
runs past it; a second metablock finds what the first one left. The short codes
are one of each form, and neighbours that are not positive; distances are inside
and outside what was written. Deadlock is checked: the decoder never stops but
in `done`.

- `TreesAreOfBlocks`: every symbol is read with the prefix code of its block's
  type and its context, whatever was cut, switched or remembered before.
- `OneTypeLasts`: a category with one type comes to a block switch only after as
  many words without bytes as its block is long (2.4). One such word is allowed
  in a metablock of the run (`WordBytes`, `MaxEmptyWords`).
- `DistancesSpec`: the refinement.

**prefix_code.** Words of five bits with tables of three have all the cases of the
code's 15 and 8: codes in the first table, second tables of one and of two bits,
several of them. The code of code lengths is chosen among those of `SomeChoices`
(lengths of 1, 3, 4 and 5 and the codes of runs), the lists are then all that it
can give. A second code, which meets what the first one left in the state, is
read only after a first one of the simplest kind (`CONSTRAINT SecondCode`).

- `CodesSpec`: the code read is the one in the stream, wherever the input ended.
- `SmallCodeIsAsRead`: the code of code lengths too, and its table is canonical.
- `TableDecodes`: both decoders read with a finished table what the canonical
  code says; at the end of the input the careful one finds no symbol unless all
  its bits are there.

**decompressor_io.** Every source length against the stream's: too short, longer,
and a byte at a time. `CHECK_DEADLOCK FALSE`: a panic, and a user who closed.

- `InputInOrder`: the decoder gets every byte once and in order, though the buffer
  is moved and refilled under it.
- `InvalidIsHonest`, `EndIsHonest`: the two reports are true. Behind a write that
  failed the second says only that the stream is valid: `into_inner` may succeed
  although a part of the output is gone, of which that write has told.
- `NothingTwice`: a sink that fails for a while gets no byte twice and none out of
  order, by the next write, `into_inner` or `drop`.
- `PanicsOnlyWhenTold`: the assertion in the loop of `write` holds, and no panic
  but the one of 3.1.
- `StreamSpec`: what arrives is the decoded stream; at a sink, up to the first
  write that failed.
- `CallsReturn`, `OutputArrives`: with `Fairness`: the loops run (`WF`: they are
  sequential code); a source asked again and again answers with bytes or its end
  (`SF`: it may fail for a while in between); a sink accepts at least a byte, as
  `lib.rs:254` demands, or says that it failed; the user calls again with room
  (`SF`: between calls there is nothing else to do) and ends.

**loop_profile.** All programs of three functions with one loop each and up to
three direct calls, or two of which one is by pointer, that `bench` reaches; all
orders of the walk; up to three calls on the stack, two runs of a loop, two
ticks. Three functions are the least for a function that is reached at two
depths. The two functions that are not `bench` are interchangeable. Which loops
are profiled does depend on the order of the walk; the property admits each
order's list, and says what holds of all of them.

- `NestsWithinDepth`: of two profiled loops, one inside the other by direct calls,
  the inner is in a function that some loop reaches within `exp-depth` calls (one
  more for `bench`).
- `TimesSpec`: the time of a loop is the sum of its runs, though other profiled
  loops begin and end inside.

**source_explorer.** Three lines suffice for a round in which some go and some
stay, one in which none goes, and one after it; two thresholds for the state
left by a first call. Fairness: `WF(Driver)` because the driver is a sequential
program that nothing but its children stops, and `WF(Build(slot))` because a
compiler ends; nothing else is assumed, no build has to succeed.

- `MeasuredAsBuilt`: a run measures the program of its own lines, or one whose
  own build failed.
- `LocallyMinimal`: an exploration that gives up has just measured every single
  removal at or above the threshold.
- `Termination`: it ends, whatever the times and failures.

`CHECK_DEADLOCK FALSE` is in the configurations of `StreamInput`,
`SourceExplorer`, `DecompressorIo`, `PrefixCodeReader` and `OuterLoopProf`: the
caller's bytes are used up, the exploration is over, the stream is closed, the
codes are read, the program has ended.

### 3.1 Disagreements found

Five runs check a claim of a comment, a message or a result in the repository
and find it violated by the code as it is.

- `stream_padding` (`decode.rs:3211`): nonzero padding bits at the end of the
  stream set an error, which the result of the final write then replaces. The
  call reports success whenever a ring was allocated.
- `io_panics` (`reader.rs:319`): the error for invalid data is taken out of an
  option where it is returned. Reading on after it, or dropping a writer whose
  write reported it, takes it a second time and panics.
- `ring_dictionary` (`decode.rs:2511`): the bytes of the first guess past the
  end of a copy are said to be irrelevant. In a ring shortened for the last
  metablock there is no gap between them and the custom dictionary.
- `explorer_threshold` (`SourceCorvair.py:234`): lines that are harmless one by
  one are removed together, and the new baseline may be past the threshold under
  whose name the list is printed. The recorded results have such a list.
- `explorer_stale_binary` (`SourceCorvair.py:263`): after a build that failed
  the program of an earlier round is measured for the new list.

## 4. Proofs

All theorems hold for every value of the constants that the named assumptions
admit; TLC evaluates these assumptions in the runs.

**StreamInputProofs.** From `OperationsAssumption` (reads have the widths of the
format) and `LengthsAssumption` (the budget is at least one command, and the
bytes checked for cover it with 57 bits to spare; 28 bytes just cover 167 bits).
The widths admit what the decoder admits: 24 extra bits for a length, 29 for a
distance.

*Invariant.* None of the properties is inductive: that the tail fits in 8 bytes,
for example, depends on how many bits a half-done read may have pulled, and that
on where its bytes come from. `InputInvariant` is `TypeOK`, `Cursor` (the
unsigned values) and one of three descriptions. `InSlice`: reading the caller's
chunk, the next byte to load is `loaded`, the chunk is `next_in + avail_in`
long, and what the register holds from before the caller's cursor (`Behind`) is
less than a byte, or less than the current read; short of input, the read is
wider than what is left. `InBuffer`: the register has loaded and is still to
load exactly the bytes fed; the buffered bytes are consecutive; the current read
is wider than the buffer but for the byte just taken. `BetweenCalls`: the same
for what stays in the state.

*Argument.* Lemmas describe each function of the bit reader by `Advanced(r, q,
n)`: `q` is `r` with n bits read, and what is loaded and what is to be loaded
add up to the same bytes. Reads compose (`AdvancedTwice`). One lemma per action
carries the invariant over. `CallsGetOn` is the step-by-step half of a
termination proof: reads gain a bit (`OutcomeGains`), the retries have a byte
less, what is unloaded at the end of the stream is not more than what the caller
offered (`UnloadedIsNotMore`, which needs `Behind` to count from the cursor),
and every other turn of the loop goes down in rank.

| Theorem | Property |
|---|---|
| `InvariantHolds` | `InputInvariant` |
| `TypesHold` | `TypeOK` |
| `BytesStayInOrder` | `NextBytesInOrder` |
| `RetriesKeepBits` | `RetryKeepsBits` |
| `ConsumptionHolds` | `ConsumedIsKept` |
| `ConsumptionIsExact` | `ExactConsumption` |
| `SwitchIsSafe` | `SwitchHoldsLessThanAByte` |
| `CursorStaysInside` | `CursorInSlice` |
| `BufferIsSafe` | `BufferAssertion` |
| `FastPathIsSafe` | `FastLoadsAreSound` |
| `MoreInputIsHonest` | `MoreInputTookAll`, the assertion of the Writer (`writer.rs:334`), which no run checks |
| `CallsGetOn` | `CallMakesProgress` |

**SourceExplorerProofs.** From `ConstantsAssumption` (the lines are distinct,
times are numbers or `Failed`). `ExplorerInvariant` is `TypeOK`,
`RoundInvariant` (as long as nothing was removed `next_unsafe` is `cur_unsafe`,
and it contains every line whose run is still to come, so `list.remove` never
fails), `BuildInvariant` (the child of a line was started in this round with its
source; a built `exp.exe` is that of the source beside it) and `EndInvariant`
(an exploration that is no longer sensitive has all its times at or above the
threshold). The least time of a round exists because the naturals are
well-founded (`SmallestExists`, `CheapestIs`).

| Theorem | Property |
|---|---|
| `ExplorerInvariantHolds` | `ExplorerInvariant` |
| `ExplorerTypes` | `TypeOK` |
| `RunsMeasureTheirBuild` | `MeasuredAsBuilt` |
| `EndsAreMinimal` | `LocallyMinimal` |

**OutputRingProofs.** From `SizesAssumption` (the constants
of the code: a first guess is no longer than the gap, two fit in the slack, the
slack is smaller than the window, the smallest ring holds three bytes) and
`LengthsAssumption` (a word fits in the slack). Every stream is admitted,
invalid ones included.

*Counters.* `RingInvariant` says where `pos` may be in each state: in the ring
but in the write states, past its end by no more than the slack after a word,
and in a shortened ring never past the bytes of its only metablock, which is why
such a ring never wraps. `DistanceInvariant` (no copy reaches further back than
the decoder has been) and `OutputInvariant` (the caller is in this round, and
bytes past the end wait until it has the rest) are needed for the bytes.

*Bytes.* `WindowIntact` alone is not inductive: a copy guesses 16 bytes ahead and
what it spilled must be out of every later copy's reach. `ContentInvariant` says
which cells are right at any time: those of this round (`BehindIntact`), and
those of the last one but for `Spill` cells ahead of `pos` (`AheadIntact`). The
gap of the window covers the spill, so a copy only reads cells that are right
(`SourceIs`): in one block move, or a byte at a time where the copy overlaps
itself or meets the end of the ring. `delivered` is `Bytes(partial_pos_out)`,
which with the types gives the refinement.

*Condition.* These hold as long as no custom dictionary is in a shortened ring
(`DictionaryIsSafe`). Where one is, the code breaks them: `ring_dictionary`
(3.1). The condition is on the state and not on the constants, so a stream with
a dictionary and a ring of full size is covered; `RingIsStreamWithoutDictionary`
says it for the constants, with no condition on the runs.

| Theorem | Property |
|---|---|
| `RingIsKept` | `RingInvariant` |
| `RingTypes` | `TypeOK` |
| `RingIsWrittenInBounds` | `WritesInBounds` |
| `RingResultsAreHonest` | `ResultIsHonest` |
| `RingContentsAreKept` | `ContentsHold` |
| `UnwrittenStaysIntact` | `DictionaryIsSafe => UnwrittenIntact` |
| `WindowStaysIntact` | `DictionaryIsSafe => WindowIntact` |
| `ContextStaysIntact` | `DictionaryIsSafe => ContextIntact` |
| `RingIsStream` | `[]DictionaryIsSafe => StreamSpec` |
| `RingIsStreamWithoutDictionary` | `StreamSpec`, with `DictionarySizes \subseteq {0}` |

**CommandsProofs.** From `CommandsAssumption` (1 to 256 types, copies of at
least two bytes, a ring longer than the farthest distance) and `MapsAssumption`
(the maps have a tree for every type and context). `CommandsInvariant` is
`TypeOK` and four parts. `BlocksInvariant`: the indexes are those of the block
types in the rings, and a remembered tree is that of the type. `CommandInvariant`:
a half-read distance has forgotten its context only if no switch can come before
it is read again. `LengthInvariant`: in a category of one type the symbols left,
with the empty words, are enough for the bytes left; `OneTypeLasts` speaks of
the moment the count is 0 and says nothing of the steps before.
`ReachInvariant`: when the farthest distance is allowed, there are so many bytes.

The refinement maps the ring of four distances to the list of the last four,
most recent first, starting before `dist_rb_idx`. A symbol that is cut leaves the
ring alone and maps to a stutter. The last distance used again moves the index
back, is written where it was and moves the index on: the list stays as it is. A
word of the dictionary must leave the list alone too, for which `distance_context`
makes up for the index that was moved.

| Theorem | Property |
|---|---|
| `InvariantHolds` | `CommandsInvariant` |
| `TypesHold` | `TypeOK` |
| `TreesFollowBlocks` | `TreesAreOfBlocks` |
| `OneTypeOutlasts` | `OneTypeLasts` |
| `RingMeansDistances` | `DistancesSpec` |

**DecompressorIoProofs.** From `SizesAssumption` of `Decoder` (streams and
buffers are not empty). `IoInvariant` ties the loops to the decoder:
`Operations` (which phase belongs to which loop), `DecoderInvariant` (what the
last result says, as long as the loop has not gone on), `SourceInvariant` (the
source is asked only when all input was taken, with room for it), and
`DeliveryInvariant` (the output buffer and what was handed over are all that was
put out, but for what a write that failed has lost). The properties are conjuncts of
it: `InputInOrder`, for one, needs to know that a source that is asked again
finds the cursor at the end of the buffer. The refinement is that
`received` grows by the next bytes only; slices of runs of bytes are the lemmas
it rests on (`BytesAre`, `BytesJoin`). `RisingInvariant` adds what a sink has got
after a failure: all of it rises and is below the first byte still held, which a
dropped rest only moves on (`SameOutput`), so that the next part joins
(`RisingJoins`).

| Theorem | Property |
|---|---|
| `IoInvariantHolds` | `IoInvariant` |
| `TypesHold` | `TypeOK` |
| `InputStaysInOrder` | `InputInOrder` |
| `InvalidIsReportedHonestly` | `InvalidIsHonest` |
| `EndIsReportedHonestly` | `EndIsHonest` |
| `PanicsOnlyAfterTheError` | `PanicsOnlyWhenTold` |
| `OutputIsAStream` | `StreamSpec` |
| `NothingGoesTwice` | `NothingTwice` |

**OuterLoopProofs.** From `ProgramsAssumption` (calls are between functions, from
a body or a loop of the caller) and `MainAssumption`. `LoopsInvariant` has one
part for the pass and three for the program. `WalkInvariant`: what was visited
is closed under direct calls but for the calls that the walk has still to look
at, and what was visited and kept is near some loop. It is the closure that
`NestsWithinDepth` rests on: when the pass is done no call is awaited, so
everything that a profiled loop calls by name was visited (`NestingInvariant`,
along the stack), and if it is profiled it was kept, therefore near a loop.
`TimesInvariant`: a loop that is on the stack twice is off the record, which is
what lets an exit be paired with its start in `TimesSpec`.

| Theorem | Property |
|---|---|
| `LoopsInvariantHolds` | `LoopsInvariant` |
| `NestingIsWithinDepth` | `NestsWithinDepth` |
| `TimesAreOfRuns` | `TimesSpec` |

Each of these invariants was checked by TLC, on the instance of its run, before
it was proved.

**HuffmanTableProofs, PrefixCodeProofs.** From `WidthsAssumption` (a key has the
bits of a root index and of a second one; a code of code lengths is no longer
than another) and `ReaderAssumption` (four symbols or more, every code length in
its order once).

*Tables.* What a table contains is a sum over the codes before an entry, and the
prover has no induction over operators. The claim is therefore made a set, of
the numbers (`NatSetInduction`) or the subsets (`SetInduction`) for which it
holds. On these rest sums over finite sets, and the reversal of bits: reversed
twice it is the number again (`ReversedTwice`). Each code covers a range of
keys; the ranges of a list of lengths that is not too long do not meet
(`OneCodeCovers`), and without a gap they are all keys (`SomeCodeCovers`). So no
entry of a table is written for two codes, and the order of writing is of no
matter (`RootTableIs`). The counting sort lists the symbols of a length in their
order (`SortedIsListing`), and the key of a symbol in such a list is its first
canonical word (`FirstWordIs`): hence `SmallTableEntry`.

*Reader.* `TypeOK` is not inductive: that `histo` and the small table stay in
range depends on how the space, the counts and the lengths hang together.
`ReaderInv` has a part for each phase. `ComplexPhase`: what is left of the space
and the keys used add up to all keys (`CodeLengthsRead`), `repeat` is how many
symbols have a length, `histo` counts the lengths, lengths not yet in turn are 0,
all of it in the copies as in the saved fields. When the loop ends with no space
or one symbol, the code is whole (`CodeIsWhole`). `LengthsPhase`: no count
exceeds the symbols read, a run is of no length or of three and more, and
`small` has only code length codes as values.

*Two levels.* `Filled` says of a builder that has placed all codes below a key
what every input below it decodes to, within the entries written so far. A code
no longer than `RootBits` is in the first table (`RootBuilt`); each longer one
either goes on in the row of second entries that is open, or closes it and opens
the next (`CodeInRow`, `OpenRow`), whose size `NextTableBitSize` makes large
enough for all codes with the same root index (`TableIsLargeEnough`). Induction
over the codes of a length, then over the lengths, ends in `BuiltTableDecodes`.

*Lists.* `DecodeInv` adds to `ReaderInv` what the table is built from. While the
lengths are read (`LengthsLinked`), the list of each length holds its symbols in
their order, `histo` counts them, and the space left is what their words leave
over. Hence a code without space left has the counts of a complete one, and its
lists lead `BuildHuffmanTable` through the symbols in the canonical order. The
listed symbols of a simple code are in their places and distinct (`SimpleRead`,
`SimpleListed`); its table repeats a pattern of eight entries or fewer
(`SimpleShape`), and so decodes for every width. Both kinds end in `TableIsCode`:
each entry is that of a word of the canonical code. The careful decoder then
differs from the other only where the word found is longer than what is there
(`CodeIsDecodedWhole`).

*Refinement.* `CodesSpec` takes the lengths for the abstract state out of the
linked lists and the code out of the finished table. `LengthsAreRead` says of the
first (`ReadOf`) what the fields stand for: the space left is full space less what
these lengths take (`Taken`), `prev_code_len` is the last of them that is not 0,
and a run that `repeat` counts is of the length they end with. The counts of the
lists alone do not tell that: a run that is extended gives its length anew, by
`(repeat - 2) << extra_bits`, and only what it adds goes into the lists
(`RunIsReading`). Each step then reads a length or a run of the abstract
specification (`GrowsRefines`), or changes nothing there, as entering a loop and
leaving one do (`CopiesRefine`). For the last step, the table decodes as a code
says, so the code it is read back as is that one (`LengthsAre`): that of the
lengths read, if they fill the space (`EndLengthsRefines`), or in a simple code
that of the one to four symbols listed (`SimpleCodeIsListed`). That no code is taken for none yet
(`CodesAreNot`) makes the end of one and the start of the next two steps.

| Theorem | Property |
|---|---|
| `ReaderInvariant` | `ReaderInv` |
| `ReaderTypeCorrect` | `TypeOK` |
| `SmallCodeCorrect` | `SmallCodeIsAsRead` |
| `BuiltTableDecodes` | the table of `BrotliBuildHuffmanTable`, for every complete code |
| `DecodeInvariant` | `DecodeInv` |
| `TablesDecode` | `TableDecodes` |
| `LengthsInvariant` | `LengthsAreRead` |
| `CodesAreRead` | `CodesSpec` |

Model-checked only: `Termination`, `CallsReturn` and `OutputArrives`, the liveness
properties. They hold under fairness, and neither that nor `ENABLED` is in the
prover's reach. What the five failing runs show is a counterexample each, and
stays with TLC.

## 5. Not modelled

The bits of the stream, transforms and the static dictionary are data to the
protocol modules. Of the metablock header, the values of its fields and the
decoding of context maps have no model; how their reading is cut and resumed is
in `StreamInput`. Allocation failure, the C interface and the command line are
conversions around the library. The benchmarks are third-party programs. Text
parsers and plots have no state to get wrong over time. `PROJECT.json` lists each
part with its reason.

Nine tenths of the repository's lines are not code of their own: `brotli-expand`
holds four copies of `brotli-exp` with macros expanded (95,000 lines), and
`dictionary/mod.rs` and `prefix.rs` are constant tables. The definitions answer
to the original, `brotli-exp`, so they cover a small share of all lines
and most of those that keep state.

## 6. Plan

In place: `BitReader`, `StreamInput` and their proofs; `OutputStream` and
`OutputRing`; `SourceExplorer` and its proofs; `RecentDistances` and `Commands`;
`HuffmanTable`, `PrefixCode` and `PrefixCodeReader`; the loops around the decoder; the outer loop
profiler; and the proofs of section 4.

Left, in this order:

1. `GreedyExplorer` and the one-shot experiments of the source explorer; the
   multi-file variant as an instance.
2. Context maps: run lengths and the inverse move-to-front, resumed at any symbol,
   against a definition in one piece.
3. `RemoveBC`: rewriting of small control flow graphs, run twice, with phi nodes
   and branches both sides of which panic; the identities of checks in the life
   cycle passes; the converter as an operator.
