------------------------------ MODULE OutputRing ------------------------------
(***************************************************************************)
(* The output side of BrotliDecompressStream (brotli-exp/src/decode.rs).   *)
(*                                                                         *)
(* Literals, dictionary words and copies of earlier output are written to  *)
(* a ring buffer, which is also the window that copies read from.  When it *)
(* is full the decoder hands it to the caller, who may come with too small *)
(* an output buffer and call again, or take the bytes out of the ring with *)
(* BrotliDecoderTakeOutput.  Bytes written past the end of the ring are    *)
(* moved to its start afterwards.                                          *)
(*                                                                         *)
(* Byte k of the output is the number k; a byte of the custom dictionary,  *)
(* or one of the two zeros before the first byte, is a negative number; a  *)
(* cell of the ring holds the number of the byte in it, or Junk.  What the *)
(* stream says (lengths, distances, errors) is left open, invalid streams  *)
(* included.                                                               *)
(***************************************************************************)
EXTENDS Integers, Sequences

CONSTANTS
  WindowSize,       \* 1 << s.window_bits
  WindowGap,        \* 16: kBrotliWindowGap
  Guess,            \* 16: the bytes memmove16 copies
  MinRing,          \* 32: the smallest ring for a short last metablock
  Slack,            \* 66: cells past the end of the ring
  BlockLengths,     \* lengths of metablocks
  InsertLengths,    \* literals of a command
  CopyLengths,      \* bytes of a copy
  WordLengths,      \* bytes of a dictionary word after its transform
  DictionarySizes,  \* bytes of the custom dictionary
  OutputSizes,      \* bytes the caller has room for, or asks for
  Everything,       \* 1 << 24: what a request for no bytes stands for
  MaxTotal          \* bound: no metablock is started that would go past it

ASSUME SizesAssumption ==
  /\ WindowSize \in Nat /\ WindowGap \in Nat /\ Guess \in Nat /\ MinRing \in Nat
  /\ Slack \in Nat /\ MaxTotal \in Nat
  /\ Guess <= WindowGap /\ WindowGap < WindowSize /\ MinRing <= WindowSize
  /\ 2 <= WindowSize - WindowGap /\ 2 * Guess <= Slack /\ Slack < WindowSize
  /\ 3 <= MinRing

ASSUME LengthsAssumption ==
  /\ BlockLengths \subseteq Nat /\ InsertLengths \subseteq Nat
  /\ CopyLengths \subseteq Nat \ {0} /\ WordLengths \subseteq 0 .. Slack
  /\ DictionarySizes \subseteq Nat /\ OutputSizes \subseteq Nat /\ Everything \in Nat

VARIABLES
  state,                  \* s.state; "uncompressed_write" is a sub-state
  ringbuffer,             \* s.ringbuffer
  ringbuffer_size,        \* s.ringbuffer_size, 0 before it is allocated
  pos,                    \* s.pos
  rb_roundtrips,          \* s.rb_roundtrips
  partial_pos_out,        \* s.partial_pos_out
  should_wrap_ringbuffer, \* s.should_wrap_ringbuffer
  max_distance,           \* s.max_distance
  distance_code,          \* s.distance_code, of the copy in progress
  loop_counter,           \* s.loop_counter: literals or copied bytes to go
  remaining,              \* s.meta_block_remaining_len, negative after an overrun
  is_last_metablock,      \* s.is_last_metablock
  ends,                   \* the byte after the metablock starts an empty last one
  custom_dict_size,       \* s.custom_dict_size
  calling,                \* inside BrotliDecompressStream
  available_out,          \* room left in the caller's output buffer
  error_code,             \* s.error_code: what the last call returned
  delivered               \* the bytes the caller has been given

rings == <<ringbuffer, ringbuffer_size, should_wrap_ringbuffer>>
outs == <<partial_pos_out, rb_roundtrips, available_out, delivered>>
copies == <<max_distance, distance_code, loop_counter>>
blocks == <<remaining, is_last_metablock, ends, custom_dict_size>>
calls == <<calling, error_code>>
vars == <<state, pos, rings, outs, copies, blocks, calls>>

Success == "SUCCESS"
MoreInput == "NEEDS_MORE_INPUT"
MoreOutput == "NEEDS_MORE_OUTPUT"
BlockLength == "ERROR_FORMAT_BLOCK_LENGTH_1"
Invalid == "ERROR_FORMAT"
Codes == {Success, MoreInput, MoreOutput, BlockLength, Invalid}

IsFatal(code) == code \in {BlockLength, Invalid}

WriteStates == {"inner_write", "post_write_1", "post_write_2"}

Junk == -(WindowSize + 1)

\* Mutation: copies may reach into the gap that the first guess spills into.
WholeWindow == WindowSize

\* s.max_backward_distance.
MaxBackward == WindowSize - WindowGap

\* The bytes decoded so far.
Total == rb_roundtrips * ringbuffer_size + pos

Cell(i) == i % ringbuffer_size

Smaller(a, b) == IF a <= b THEN a ELSE b

Init ==
  /\ state = "metablock_begin"
  /\ ringbuffer = <<>> /\ ringbuffer_size = 0
  /\ pos = 0 /\ rb_roundtrips = 0 /\ partial_pos_out = 0
  /\ should_wrap_ringbuffer = FALSE
  /\ max_distance = 0 /\ distance_code = 0 /\ loop_counter = 0
  /\ remaining = 0 /\ is_last_metablock = FALSE /\ ends = FALSE
  /\ custom_dict_size \in DictionarySizes
  /\ calling = FALSE /\ available_out = 0 /\ error_code = Success
  /\ delivered = <<>>
-----------------------------------------------------------------------------
(* Writing the ring buffer out *)

UnwrittenBytes(wrap) ==
  rb_roundtrips * ringbuffer_size
    + (IF wrap /\ pos > ringbuffer_size THEN ringbuffer_size ELSE pos) - partial_pos_out

FullRing == ringbuffer_size = WindowSize

Written(offered) == Smaller(offered, UnwrittenBytes(TRUE))

AllWritten(offered) == remaining >= 0 /\ UnwrittenBytes(TRUE) <= offered

\* Mutation: the ring is left before the caller has all of it.
RoundTripUnwritten(offered) == remaining >= 0 /\ FullRing /\ pos >= ringbuffer_size

\* The write finishes the ring, and decoding goes on at its start.
RoundTrip(offered) == AllWritten(offered) /\ FullRing /\ pos >= ringbuffer_size

ShouldWrap(offered) ==
  IF RoundTrip(offered) THEN pos # ringbuffer_size ELSE should_wrap_ringbuffer

\* Mutation: a metablock that overran its length is not noticed.
WriteUnchecked(cells, offered, force, code) ==
  /\ code = IF ~(UnwrittenBytes(TRUE) <= offered) /\ (FullRing \/ force)
              THEN MoreOutput ELSE Success
  /\ partial_pos_out' = partial_pos_out + Written(offered)
  /\ delivered' = delivered \o
       [k \in 1 .. Written(offered) |-> cells[Cell(partial_pos_out) + k - 1]]
  /\ IF UnwrittenBytes(TRUE) <= offered /\ FullRing /\ pos >= ringbuffer_size
       THEN pos' = pos - ringbuffer_size /\ rb_roundtrips' = rb_roundtrips + 1
       ELSE UNCHANGED <<pos, rb_roundtrips>>

\* WriteRingBuffer, from these cells to a caller with room for so many bytes.
WriteRingBuffer(cells, offered, force, code) ==
  \/ /\ remaining < 0 /\ code = BlockLength
     /\ UNCHANGED <<pos, rb_roundtrips, partial_pos_out, delivered>>
  \/ /\ remaining >= 0
     /\ code = IF ~AllWritten(offered) /\ (FullRing \/ force) THEN MoreOutput ELSE Success
     /\ partial_pos_out' = partial_pos_out + Written(offered)
     /\ delivered' = delivered \o
          [k \in 1 .. Written(offered) |-> cells[Cell(partial_pos_out) + k - 1]]
     /\ IF RoundTrip(offered)
          THEN pos' = pos - ringbuffer_size /\ rb_roundtrips' = rb_roundtrips + 1
          ELSE UNCHANGED <<pos, rb_roundtrips>>

\* The same with the buffer of the call.
WriteOutput(force, code) ==
  /\ WriteRingBuffer(ringbuffer, available_out, force, code)
  /\ available_out' = available_out - (partial_pos_out' - partial_pos_out)

\* Mutation: what went past the end stays there.
NotWrapped(position) == ringbuffer

\* WrapRingBuffer: what went past the end comes to the start.
Wrapped(position) ==
  [c \in DOMAIN ringbuffer |->
     IF c < position THEN ringbuffer[ringbuffer_size + c] ELSE ringbuffer[c]]

Return(code) == calling' = FALSE /\ error_code' = code

GoOn == UNCHANGED calls
-----------------------------------------------------------------------------
(* The caller *)

\* A caller that takes bytes out of the ring takes them all before it comes with an
\* output buffer again: WrapRingBuffer would come too late for the bytes that went
\* past the end of the ring.
Call(n) ==
  /\ ~calling /\ ~IsFatal(error_code)
  /\ should_wrap_ringbuffer => n = 0
  /\ calling' = TRUE /\ available_out' = n
  /\ UNCHANGED <<state, pos, rings, partial_pos_out, rb_roundtrips, delivered, copies,
                 blocks, error_code>>

\* After a fatal error a call returns at once and touches nothing.
CallAfterError == ~calling /\ IsFatal(error_code) /\ UNCHANGED vars

\* BrotliDecoderTakeOutput.  Its pointer into the ring is read before the next call.
TakeOutput(n) ==
  /\ ~calling /\ ~IsFatal(error_code) /\ ringbuffer_size # 0
  /\ LET cells == IF should_wrap_ringbuffer THEN Wrapped(pos) ELSE ringbuffer
     IN  /\ ringbuffer' = cells
         /\ \E code \in Codes : WriteRingBuffer(cells, n, TRUE, code)
  /\ should_wrap_ringbuffer' = (RoundTrip(n) /\ pos # ringbuffer_size)
  /\ UNCHANGED <<state, ringbuffer_size, available_out, copies, blocks, calls>>
-----------------------------------------------------------------------------
(* Metablocks *)

\* BrotliAllocateRingBuffer: for a last metablock the ring is halved as long as what
\* has to fit fills at most half of it.
FitsInHalf(size, needed) == size >= 2 * needed /\ size > MinRing

\* What halving a window leads to.
Halvings ==
  {s \in 1 .. WindowSize :
     \A sizes \in SUBSET (1 .. WindowSize) :
       /\ WindowSize \in sizes
       /\ \A t \in sizes \ {1} : t \div 2 \in sizes
       => s \in sizes}

RingSize(needed, last) ==
  IF last THEN CHOOSE s \in Halvings :
                 /\ ~FitsInHalf(s, needed)
                 /\ \A t \in Halvings : t > s => FitsInHalf(t, needed)
          ELSE WindowSize

\* Mutation: the two bytes before the output are not set.
AllocateUncleared(length, last) ==
  LET dict == Smaller(custom_dict_size, MaxBackward)
      size == RingSize(dict + length, last)
  IN  /\ custom_dict_size' = dict /\ ringbuffer_size' = size
      /\ ringbuffer' = [c \in 0 .. size + Slack - 1 |->
                          IF c \in size - dict .. size - 1 THEN c - size ELSE Junk]

\* The end of the ring holds the custom dictionary, and two zeros for the contexts of
\* the first literals.
Allocate(length, last) ==
  LET dict == Smaller(custom_dict_size, MaxBackward)
      size == RingSize(dict + length, last)
      kept == IF dict < 2 THEN 2 ELSE dict
  IN  /\ custom_dict_size' = dict
      /\ ringbuffer_size' = size
      /\ ringbuffer' = [c \in 0 .. size + Slack - 1 |->
                          IF c \in size - kept .. size - 1 THEN c - size ELSE Junk]

\* The header of a metablock.  One without output (empty, or metadata) is over at
\* once.  The byte that follows an uncompressed one may already be there, and tell
\* that the stream ends with it.
Header(length, last, uncompressed, peeked) ==
  /\ calling /\ state = "metablock_begin"
  /\ Total + length <= MaxTotal
  /\ ends => length = 0 /\ last
  /\ uncompressed => length > 0 /\ ~last
  /\ peeked => uncompressed
  /\ remaining' = length /\ is_last_metablock' = last /\ ends' = peeked
  /\ IF ringbuffer_size = 0 /\ length > 0
       THEN Allocate(length, last \/ peeked)
       ELSE UNCHANGED <<ringbuffer, ringbuffer_size, custom_dict_size>>
  /\ state' = CASE length = 0 -> "metablock_done"
                [] uncompressed -> "uncompressed"
                [] OTHER -> "command_begin"
  /\ UNCHANGED <<pos, should_wrap_ringbuffer, outs, copies>> /\ GoOn

MetablockDone ==
  /\ calling /\ state = "metablock_done"
  /\ IF is_last_metablock
       THEN state' = "done" /\ UNCHANGED remaining
       ELSE state' = "metablock_begin" /\ remaining' = 0
  /\ UNCHANGED <<pos, rings, outs, copies, is_last_metablock, ends, custom_dict_size>>
  /\ GoOn

\* BROTLI_STATE_DONE: a call returns once the caller has room for all there is.
Done ==
  /\ calling /\ state = "done"
  /\ IF ringbuffer_size = 0
       THEN Return(Success) /\ UNCHANGED <<pos, outs, should_wrap_ringbuffer>>
       ELSE /\ \E code \in Codes : WriteOutput(TRUE, code) /\ Return(code)
            /\ should_wrap_ringbuffer' = ShouldWrap(available_out)
  /\ UNCHANGED <<state, ringbuffer, ringbuffer_size, copies, blocks>>

\* CopyUncompressedBlockToOutput: as many bytes as there are, and the ring has room for.
\* A metablock that ended at the end of a full ring goes round once more, with none.
CopyUncompressed(n) ==
  /\ calling /\ state = "uncompressed"
  /\ n = 0 => remaining = 0
  /\ n <= remaining /\ pos + n <= ringbuffer_size
  /\ ringbuffer' = [c \in DOMAIN ringbuffer |->
                      IF c \in pos .. pos + n - 1 THEN Total + c - pos ELSE ringbuffer[c]]
  /\ pos' = pos + n /\ remaining' = remaining - n
  /\ state' = CASE pos' >= WindowSize -> "uncompressed_write"
                [] pos' < WindowSize /\ remaining' = 0 -> "metablock_done"
                [] OTHER -> "uncompressed"
  /\ UNCHANGED <<ringbuffer_size, should_wrap_ringbuffer, outs, copies, is_last_metablock,
                 ends, custom_dict_size>>
  /\ GoOn

\* Whatever needs input may run out of it; then the caller is given what there is, and
\* the call returns or goes on with bytes it had not looked at.
OutOfInput ==
  /\ calling
  /\ state \in {"metablock_begin", "command_begin", "inner", "post_literals", "uncompressed"}
  /\ state = "uncompressed" => remaining > 0
  /\ IF ringbuffer_size = 0
       THEN (GoOn \/ Return(MoreInput)) /\ UNCHANGED <<pos, outs, should_wrap_ringbuffer>>
       ELSE /\ \E code \in Codes :
                 /\ WriteOutput(TRUE, code)
                 /\ IF IsFatal(code) THEN Return(code) ELSE GoOn \/ Return(MoreInput)
            /\ should_wrap_ringbuffer' = ShouldWrap(available_out)
  /\ UNCHANGED <<state, ringbuffer, ringbuffer_size, copies, blocks>>

\* What is read may be wrong: a header, a prefix code, a distance, a dictionary reference.
InvalidStream ==
  /\ calling /\ state \in {"metablock_begin", "command_begin", "post_literals"}
  /\ Return(Invalid)
  /\ UNCHANGED <<state, pos, rings, outs, copies, blocks>>
-----------------------------------------------------------------------------
(* Commands *)

\* The state after a command, or after the literals of one.
Following(left, next) == IF left <= 0 THEN "metablock_done" ELSE next

ReadCommand(insert) ==
  /\ calling /\ state = "command_begin"
  /\ loop_counter' = insert
  /\ remaining' = remaining - insert
  /\ state' = IF insert = 0 THEN "post_literals" ELSE "inner"
  /\ UNCHANGED <<pos, rings, outs, max_distance, distance_code, is_last_metablock, ends,
                 custom_dict_size>>
  /\ GoOn

Literal ==
  /\ calling /\ state = "inner"
  /\ ringbuffer' = [ringbuffer EXCEPT ![pos] = Total]
  /\ pos' = pos + 1 /\ loop_counter' = loop_counter - 1
  /\ state' = CASE pos' = ringbuffer_size -> "inner_write"
                [] pos' # ringbuffer_size /\ loop_counter' > 0 -> "inner"
                [] OTHER -> Following(remaining, "post_literals")
  /\ UNCHANGED <<ringbuffer_size, should_wrap_ringbuffer, outs, max_distance,
                 distance_code, blocks>>
  /\ GoOn

\* Mutation: the distance grows with the position without an end.
UncappedDistance ==
  IF max_distance # MaxBackward THEN pos + custom_dict_size ELSE MaxBackward

\* How far back a copy may reach: to the start of the output or of the dictionary
\* until that is a window away.
NewMaxDistance ==
  IF max_distance # MaxBackward /\ pos < MaxBackward - custom_dict_size
    THEN pos + custom_dict_size ELSE MaxBackward

\* Cells from .. to - 1 of a copy over length bytes, as a block move writes them.
BlockMove(cells, source, distance, length, from, to) ==
  [c \in DOMAIN cells |->
     LET j == c - pos
     IN  IF j \notin from .. to - 1 THEN cells[c]
         ELSE IF j < length /\ cells[source + j] = Total + j - distance THEN Total + j
         ELSE Junk]

\* When a copy cannot be a block move: it reads what it writes, or leaves the ring.
Overlaps(source, length) == source + length > pos /\ pos + length > source

\* Mutation: only the source is looked at.
MeetsEndAtSource(source, length) == source + length >= ringbuffer_size

MeetsEnd(source, length) ==
  pos + length >= ringbuffer_size \/ source + length >= ringbuffer_size

\* The first guess moves 16 bytes; a copy that neither overlaps itself nor reaches the
\* end of the ring goes on with one more such move, or one of the exact length.
CopyBack(length, distance) ==
  LET source == Cell(pos - distance)
      guessed == BlockMove(ringbuffer, source, distance, length, 0, Guess)
  IN  /\ calling /\ state = "post_literals" /\ distance <= NewMaxDistance
      /\ max_distance' = NewMaxDistance
      /\ remaining' = remaining - length
      /\ IF Overlaps(source, length) \/ MeetsEnd(source, length)
           THEN /\ ringbuffer' = guessed
                /\ loop_counter' = length /\ distance_code' = distance
                /\ state' = "wrap_copy" /\ UNCHANGED pos
           ELSE /\ ringbuffer' =
                     IF length <= Guess THEN guessed
                     ELSE BlockMove(guessed, source, distance, length, Guess,
                                    IF length <= 2 * Guess THEN 2 * Guess ELSE length)
                /\ pos' = pos + length
                /\ loop_counter' = 0 /\ UNCHANGED distance_code
                /\ state' = Following(remaining', "command_begin")
      /\ UNCHANGED <<ringbuffer_size, should_wrap_ringbuffer, outs, is_last_metablock, ends,
                     custom_dict_size>>
      /\ GoOn

\* A dictionary word may go past the end of the ring.
DictionaryWord(length) ==
  /\ calling /\ state = "post_literals"
  /\ max_distance' = NewMaxDistance
  /\ ringbuffer' = [c \in DOMAIN ringbuffer |->
                      IF c \in pos .. pos + length - 1 THEN Total + c - pos ELSE ringbuffer[c]]
  /\ pos' = pos + length /\ remaining' = remaining - length
  /\ state' = IF pos' >= ringbuffer_size THEN "post_write_1"
              ELSE Following(remaining', "command_begin")
  /\ UNCHANGED <<ringbuffer_size, should_wrap_ringbuffer, outs, distance_code, loop_counter,
                 is_last_metablock, ends, custom_dict_size>>
  /\ GoOn

\* A byte of a copy that wraps around or overlaps, read where the ring begins again.
WrapCopy ==
  LET source == Cell(pos - distance_code)
  IN  /\ calling /\ state = "wrap_copy" /\ loop_counter > 0
      /\ ringbuffer' = [ringbuffer EXCEPT ![pos] =
                          IF ringbuffer[source] = Total - distance_code THEN Total ELSE Junk]
      /\ pos' = pos + 1 /\ loop_counter' = loop_counter - 1
      /\ state' = IF pos' = ringbuffer_size THEN "post_write_2" ELSE "wrap_copy"
      /\ UNCHANGED <<ringbuffer_size, should_wrap_ringbuffer, outs, max_distance,
                     distance_code, blocks>>
      /\ GoOn

EndWrapCopy ==
  /\ calling /\ state = "wrap_copy" /\ loop_counter = 0
  /\ state' = Following(remaining, "command_begin")
  /\ UNCHANGED <<pos, rings, outs, copies, blocks>> /\ GoOn

\* Where decoding goes on after the ring was written.
Resumed ==
  CASE state = "post_write_1" -> Following(remaining, "command_begin")
    [] state = "post_write_2" -> "wrap_copy"
    [] state = "inner_write" /\ loop_counter # 0 -> "inner"
    [] state = "inner_write" /\ loop_counter = 0 -> Following(remaining, "post_literals")
    [] state = "uncompressed_write" -> "uncompressed"

\* The write states.  An uncompressed metablock ends at the end of the ring, so only
\* commands have something to bring to its start.
WriteStep ==
  /\ calling /\ state \in WriteStates \cup {"uncompressed_write"}
  /\ \E code \in Codes :
       /\ WriteOutput(FALSE, code)
       /\ IF code = Success
            THEN /\ GoOn /\ state' = Resumed
                 /\ max_distance' = IF FullRing THEN MaxBackward ELSE max_distance
                 /\ IF state \in WriteStates /\ ShouldWrap(available_out)
                      THEN ringbuffer' = Wrapped(pos') /\ should_wrap_ringbuffer' = FALSE
                      ELSE /\ should_wrap_ringbuffer' = ShouldWrap(available_out)
                           /\ UNCHANGED ringbuffer
            ELSE /\ Return(code)
                 /\ UNCHANGED <<state, max_distance, ringbuffer, should_wrap_ringbuffer>>
  /\ UNCHANGED <<ringbuffer_size, distance_code, loop_counter, blocks>>

Decode ==
  \/ \E length \in BlockLengths, last, uncompressed, peeked \in BOOLEAN :
       Header(length, last, uncompressed, peeked)
  \/ MetablockDone \/ Done
  \/ \E n \in 0 .. WindowSize : CopyUncompressed(n)
  \/ \E insert \in InsertLengths : ReadCommand(insert)
  \/ Literal
  \/ \E length \in CopyLengths, distance \in 1 .. MaxBackward : CopyBack(length, distance)
  \/ \E length \in WordLengths : DictionaryWord(length)
  \/ WrapCopy \/ EndWrapCopy \/ WriteStep
  \/ OutOfInput \/ InvalidStream

Next ==
  \/ (\E n \in OutputSizes : Call(n)) \/ CallAfterError
  \/ \E n \in OutputSizes : TakeOutput(IF n = 0 THEN Everything ELSE n)
  \/ Decode

Spec == Init /\ [][Next]_vars
-----------------------------------------------------------------------------
(* Properties *)

\* The types of the ring's state: its size is a halving of the window, and a copy never
\* reaches further back than max_backward_distance.
TypeOK ==
  /\ state \in {"metablock_begin", "command_begin", "inner", "post_literals", "wrap_copy",
                "uncompressed", "uncompressed_write", "metablock_done", "done"}
               \cup WriteStates
  /\ ringbuffer_size \in {0} \cup Halvings
  /\ IF ringbuffer_size = 0 THEN ringbuffer = <<>>
     ELSE DOMAIN ringbuffer = 0 .. ringbuffer_size + Slack - 1
  /\ pos \in Nat /\ rb_roundtrips \in Nat /\ partial_pos_out \in Nat
  /\ should_wrap_ringbuffer \in BOOLEAN /\ calling \in BOOLEAN
  /\ max_distance \in 0 .. MaxBackward /\ distance_code \in Nat /\ loop_counter \in Nat
  /\ remaining \in Int /\ is_last_metablock \in BOOLEAN /\ ends \in BOOLEAN
  /\ custom_dict_size \in Nat /\ available_out \in Nat /\ error_code \in Codes

\* The ring hands out what was decoded once and in order: it implements a stream of
\* bytes without a ring, whatever the output buffers, TakeOutput and the wraps.
Stream == INSTANCE OutputStream WITH produced <- Total

StreamSpec == Stream!Spec

\* A byte the caller has not got yet is still in the cell it will be read from: no
\* copy, guess, word or wrap has written over it.
UnwrittenIntact ==
  \A k \in partial_pos_out .. Total - 1 :
    LET c == k - rb_roundtrips * ringbuffer_size
    IN  c >= 0 /\ ringbuffer[IF should_wrap_ringbuffer THEN ringbuffer_size + c ELSE c] = k

\* What the comment on the first guess (decode.rs:2511) says of the bytes it spills
\* past the end of a copy: they are irrelevant.  Whatever distance the decoder is about
\* to let through, the cell it leads to holds the byte that far back.
GuessIsIrrelevant ==
  state = "post_literals" =>
    \A distance \in 1 .. NewMaxDistance : ringbuffer[Cell(pos - distance)] = Total - distance

\* The source of a copy is the byte that far back, at its start and at every byte of a
\* copy that wraps around the ring or overlaps itself.
WindowIntact ==
  /\ GuessIsIrrelevant
  /\ state = "wrap_copy" /\ loop_counter > 0 =>
       ringbuffer[Cell(pos - distance_code)] = Total - distance_code

\* The two bytes that choose the context of the next literal are the last two bytes
\* of the output, also across the end of the ring.
ContextIntact ==
  state = "inner" =>
    ringbuffer[Cell(pos - 1)] = Total - 1 /\ ringbuffer[Cell(pos - 2)] = Total - 2

\* Whatever the stream says, a write starts inside the ring, the slack takes what
\* goes past its end, and a shortened ring is never left behind.
WritesInBounds ==
  /\ state \in {"inner", "post_literals"} \/ (state = "wrap_copy" /\ loop_counter > 0) =>
       pos < ringbuffer_size
  /\ pos <= ringbuffer_size + Slack
  /\ rb_roundtrips > 0 => FullRing

\* A call that asks for more output has filled the buffer it was given; one that
\* reports success at the end of the stream has handed out every byte of it, and the
\* last metablock had exactly the length it declared.
ResultIsHonest ==
  ~calling =>
    /\ error_code = MoreOutput => available_out = 0
    /\ error_code = Success /\ state = "done" => partial_pos_out = Total /\ remaining = 0
=============================================================================
