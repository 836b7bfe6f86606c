----------------------------- MODULE StreamInput -----------------------------
(***************************************************************************)
(* How BrotliDecompressStream (brotli-exp/src/decode.rs) takes its input.  *)
(*                                                                         *)
(* A caller hands the compressed stream over in chunks of any length.  The *)
(* decoder reads bits from the chunk; when a read that must not be half    *)
(* done runs out of input, the bit reader goes back to where the read      *)
(* began and the unread tail of the chunk moves to an 8-byte buffer in the *)
(* state.  The next call retries the read from that buffer, one byte more  *)
(* at a time, and then switches to its own chunk.                          *)
(*                                                                         *)
(* The bytes of the stream are numbered from 0 and a slice or buffer cell  *)
(* holds the number of a byte, so that losing, repeating or reordering a   *)
(* byte shows.  What the bits say is left open: after each read the next   *)
(* operation is any member of Operations, the decoder may find an error,   *)
(* want to write output, or reach the end of the last metablock.           *)
(***************************************************************************)
EXTENDS BitReader

CONSTANTS
  Operations,    \* the reads the decoder may perform
  StreamLength,  \* bytes the caller has, those after the end of the stream included
  ChunkLengths,  \* lengths of the chunks a call may offer
  CommandInput,  \* 28: input bytes the fast path checks for now and then
  FastBits       \* 167: bits its reads may take between two checks

BufferSize == 8  \* s.buffer: [u8; 8]

(***************************************************************************)
(* An operation is one read, with its kind and its widths:                 *)
(*   "header"   one SafeReadBits, or a code length; the sub-state of the   *)
(*              caller keeps what was read before it                       *)
(*   "symbol"   a prefix code alone: a literal, a context map entry        *)
(*   "command"  a symbol and two runs of extra bits                        *)
(*   "switch"   a block switch: a symbol, a second one and extra bits      *)
(*   "distance" a symbol and extra bits                                    *)
(*   "copy"     the bytes of an uncompressed metablock                     *)
(* Codes of length 0 (one symbol in the whole code) are left out: a read   *)
(* that takes no input changes nothing this module looks at.               *)
(***************************************************************************)
Operation(kind, symbol, second, extra1, extra2, bytes) ==
  [kind |-> kind, symbol |-> symbol, second |-> second,
   extra1 |-> extra1, extra2 |-> extra2, bytes |-> bytes]

Header(n) == Operation("header", 0, 0, n, 0, 0)
Symbol(length) == Operation("symbol", length, 0, 0, 0, 0)
Command(length, extra1, extra2) == Operation("command", length, 0, extra1, extra2, 0)
Switch(length, second, extra) == Operation("switch", length, second, extra, 0, 0)
Distance(length, extra) == Operation("distance", length, 0, extra, 0, 0)
Copy(bytes) == Operation("copy", 0, 0, 0, 0, bytes)

MaxCodeLength == 15

\* Lengths and header fields have up to 24 extra bits.  A distance has up to 29 in a
\* stream with a large window, which the state accepts by default: its symbol stays
\* below BrotliMaxDistanceSymbol, so distval is at most 57.
MaxLengthBits == 24
MaxExtraBits == 29

Operand ==
  [kind : {"header", "symbol", "command", "switch", "distance", "copy"},
   symbol : 0 .. MaxCodeLength, second : 0 .. MaxCodeLength,
   extra1 : 0 .. MaxExtraBits, extra2 : 0 .. MaxExtraBits, bytes : Nat]

\* What ends in extra bits is read again from its start when they are not there.
HasMemento(o) == o.kind \in {"command", "switch", "distance"}

InCommands(o) == o.kind = "symbol" \/ HasMemento(o)

\* The widest reads of each kind: 63, 54, 44, 24 and 15 bits.
WidestRead(o) ==
  CASE o.kind = "command" -> MaxCodeLength + 2 * MaxLengthBits
    [] o.kind = "switch" -> 2 * MaxCodeLength + MaxLengthBits
    [] o.kind = "distance" -> MaxCodeLength + MaxExtraBits
    [] o.kind = "header" -> MaxLengthBits
    [] OTHER -> MaxCodeLength

Width(o) == o.symbol + o.second + o.extra1 + o.extra2

WellFormed(o) ==
  /\ o \in Operand
  /\ o.kind = "copy" <=> o.bytes > 0
  /\ InCommands(o) <=> o.symbol > 0
  /\ o.kind = "header" => o.extra1 > 0
  /\ o.kind \in {"symbol", "copy"} => o.extra1 = 0
  /\ o.kind = "switch" <=> o.second > 0
  /\ o.kind # "command" => o.extra2 = 0
  /\ o.kind # "distance" => o.extra1 <= MaxLengthBits /\ o.extra2 <= MaxLengthBits
  /\ Width(o) <= WidestRead(o)

ASSUME OperationsAssumption == \A o \in Operations : WellFormed(o)

ASSUME LengthsAssumption ==
  /\ StreamLength \in Nat
  /\ ChunkLengths \subseteq Nat
  /\ CommandInput \in Nat /\ FastBits \in Nat
  /\ FastBits >= MaxCodeLength + 2 * MaxLengthBits
  /\ 8 * CommandInput >= FastBits + 57

VARIABLES
  br,              \* s.br
  op,              \* the read the decoder is at (s.state and its sub-states)
  phase,           \* "read", "fast" (in ProcessCommands), "write" (a ring buffer
                   \* write state), "last" (end of the last metablock) or "done"
  budget,          \* bits the fast path may still read before its next check
  ring,            \* the ring buffer is allocated
  buffer,          \* s.buffer, and saved_buffer with it
  buffer_length,   \* s.buffer_length
  error_code,      \* s.error_code
  calling,         \* inside BrotliDecompressStream
  result,          \* its variable result; between calls, what it returned
  local_input,     \* "xinput" or "buffer"
  base,            \* number of the byte at xinput[0]
  input_offset, available_in  \* the caller's cursor in xinput

decoder == <<br, op, phase, budget, ring>>
inputs == <<buffer, buffer_length, local_input, base, input_offset, available_in>>
vars == <<decoder, inputs, error_code, calling, result>>

Success == "SUCCESS"
MoreInput == "NEEDS_MORE_INPUT"
MoreOutput == "NEEDS_MORE_OUTPUT"
Failure == "ERROR"
Padding == "ERROR_FORMAT_PADDING_2"
Results == {Success, MoreInput, MoreOutput, Failure, Padding}

IsFatal(code) == code \in {Failure, Padding}

Indices == 0 .. BufferSize - 1

Init ==
  /\ br = InitBitReader
  /\ op \in {o \in Operations : o.kind = "header"}
  /\ phase = "read" /\ budget = 0 /\ ring = FALSE
  /\ buffer = [i \in Indices |-> 0]
  /\ buffer_length = 0
  /\ error_code = Success
  /\ calling = FALSE
  /\ result = Success
  /\ local_input = "xinput"
  /\ base = 0 /\ input_offset = 0 /\ available_in = 0

\* The bytes the caller has given and been told are consumed.
Fed == base + input_offset
-----------------------------------------------------------------------------
(* Entering and leaving a call *)

\* Mutation: the bytes missing from the buffer are not copied upfront.
CallWithoutCopy(n) ==
  /\ ~calling /\ ~IsFatal(error_code)
  /\ Fed + n <= StreamLength
  /\ calling' = TRUE
  /\ base' = Fed /\ input_offset' = 0 /\ available_in' = n
  /\ local_input' = IF buffer_length = 0 THEN "xinput" ELSE "buffer"
  /\ br' = Offered(br, 0, IF buffer_length = 0 THEN n ELSE br.avail_in)
  /\ result' = IF buffer_length = 0 THEN Success ELSE MoreInput
  /\ UNCHANGED <<op, phase, budget, ring, buffer, buffer_length, error_code>>

\* A call with a fresh slice of length n, its first byte the next one of the
\* stream.  A buffered tail is retried first: the missing bytes of the buffer are
\* copied upfront, uncounted, and the loop starts at its "more input" branch.
Call(n) ==
  /\ ~calling /\ ~IsFatal(error_code)
  /\ Fed + n <= StreamLength
  /\ calling' = TRUE
  /\ base' = Fed /\ input_offset' = 0 /\ available_in' = n
  /\ \/ /\ buffer_length = 0
        /\ local_input' = "xinput"
        /\ br' = Offered(br, 0, n)
        /\ result' = Success
        /\ UNCHANGED buffer
     \/ /\ buffer_length # 0
        /\ local_input' = "buffer"
        /\ br' = Offered(br, 0, br.avail_in)
        /\ result' = MoreInput
        /\ buffer' = [i \in Indices |->
                        IF buffer_length <= i /\ i < buffer_length + n
                          THEN base' + i - buffer_length ELSE buffer[i]]
  /\ UNCHANGED <<op, phase, budget, ring, buffer_length, error_code>>

\* After a fatal error a call returns at once and touches nothing else.
CallAfterError ==
  /\ ~calling /\ IsFatal(error_code)
  /\ result' = Failure
  /\ UNCHANGED <<decoder, inputs, error_code, calling>>

\* SaveErrorCode!(s, code): every way out of a call.
Return(code) ==
  /\ calling' = FALSE
  /\ error_code' = code
  /\ result' = code

\* Mutation: the register keeps its whole bytes.
KeepInto(reader) ==
  /\ br' = reader
  /\ available_in' = br'.avail_in
  /\ input_offset' = br'.next_in

\* The unread bytes of the register go back to the caller's chunk.
UnloadInto(reader) ==
  /\ br' = BitReaderUnload(reader)
  /\ available_in' = br'.avail_in
  /\ input_offset' = br'.next_in

(* The reads *)

\* SafeReadSymbol looks at 15 bits when it can get them and at what there is when
\* it cannot; what it pulled for a failed look-up stays in the register.
SafeReadSymbol(reader, length) == TakeBits(SafeFill(reader, MaxCodeLength), length)

SafeReadSecond(reader, o) ==
  IF o.second = 0 THEN [ok |-> TRUE, br |-> reader] ELSE SafeReadSymbol(reader, o.second)

SafeReadExtra(reader, o) ==
  LET second == SafeReadSecond(reader, o)
      extra1 == SafeReadBits(second.br, o.extra1)
  IN  IF ~second.ok THEN second
      ELSE IF ~extra1.ok THEN extra1
      ELSE SafeReadBits(extra1.br, o.extra2)

\* Mutation: the memento is not restored.
SafeReadNoMemento(reader, o) ==
  LET symbol == SafeReadSymbol(reader, o.symbol)
  IN  IF symbol.ok THEN SafeReadExtra(symbol.br, o) ELSE symbol

\* Mutation: the memento restores the register and forgets the cursor.
SafeReadHalfRestored(reader, o) ==
  LET symbol == SafeReadSymbol(reader, o.symbol)
      extra == SafeReadExtra(symbol.br, o)
  IN  IF ~symbol.ok THEN symbol
      ELSE IF extra.ok THEN extra
      ELSE [ok |-> FALSE, br |-> Offered(reader, extra.br.next_in, extra.br.avail_in)]

\* A symbol and what follows it: the memento is restored when what follows is not
\* all there, and only then.
SafeReadCommand(reader, o) ==
  LET symbol == SafeReadSymbol(reader, o.symbol)
      extra == SafeReadExtra(symbol.br, o)
  IN  IF ~symbol.ok THEN symbol
      ELSE IF extra.ok THEN extra
      ELSE [ok |-> FALSE, br |-> reader]

\* The bytes of an uncompressed metablock that can be copied now.
CopyNow(reader, o) ==
  IF GetRemainingBytes(reader) <= o.bytes THEN GetRemainingBytes(reader) ELSE o.bytes

SafeOutcome(reader, o) ==
  CASE o.kind = "header" -> SafeReadBits(reader, o.extra1)
    [] o.kind = "symbol" -> SafeReadSymbol(reader, o.symbol)
    [] HasMemento(o) -> SafeReadCommand(reader, o)
    [] o.kind = "copy" -> [ok |-> CopyNow(reader, o) = o.bytes,
                           br |-> CopyBytes(reader, CopyNow(reader, o))]

\* What is left of an operation that ran out of input.
Remainder(reader, o) ==
  IF o.kind = "copy" THEN [o EXCEPT !.bytes = @ - CopyNow(reader, o)] ELSE o

FastReadSymbol(reader, length) == DropBits(FillBitWindow(reader, 16), length)

FastReadSecond(reader, o) ==
  IF o.second = 0 THEN reader ELSE FastReadSymbol(reader, o.second)

FastReadFirst(reader, n_bits) ==
  IF n_bits = 0 THEN reader ELSE ReadBits(reader, n_bits)

\* The copy length of a command is read even when it has no extra bits.
FastReadCommand(reader, o) ==
  LET second == FastReadSecond(FastReadSymbol(reader, o.symbol), o)
      first == FastReadFirst(second, o.extra1)
  IN  IF o.kind = "command" THEN ReadBits(first, o.extra2) ELSE first

\* ReadPreloadedSymbol: a short code needs only the 8 bits PreloadSymbol asked
\* for, and the next 8 are asked for at once.
FastReadLiteral(reader, length) ==
  LET sym == IF length <= 8 THEN DropBits(FillBitWindow(reader, 8), length)
                            ELSE FastReadSymbol(reader, length)
  IN  FillBitWindow(sym, 8)

\* No load of a fast read reaches past the bytes offered.
FastInBounds(reader, o) ==
  LET symbol == FastReadSymbol(reader, o.symbol)
      second == FastReadSecond(symbol, o)
      first == FastReadFirst(second, o.extra1)
      short == DropBits(FillBitWindow(reader, 8), o.symbol)
  IN  /\ FillInBounds(reader, 16)
      /\ IF o.kind = "symbol"
           THEN /\ FillInBounds(symbol, 8)
                /\ FillInBounds(reader, 8)
                /\ o.symbol <= 8 => FillInBounds(short, 8)
           ELSE /\ o.second # 0 => FillInBounds(symbol, 16)
                /\ o.extra1 # 0 => FillInBounds(second, o.extra1)
                /\ o.kind = "command" => FillInBounds(first, o.extra2)

FastOutcomes(reader, o) ==
  IF o.kind = "symbol"
    THEN {FastReadSymbol(reader, o.symbol), FastReadLiteral(reader, o.symbol)}
    ELSE {FastReadCommand(reader, o)}
-----------------------------------------------------------------------------
(* One turn of the loop in BrotliDecompressStream *)

Running == calling /\ result = Success

\* After a read that left the reader at r, the decoder meets one of: the next
\* read; a ring buffer that must be written first; the end of the last metablock;
\* a stream that is not valid.  A copy starts on a byte boundary, and fails when
\* the bits skipped to get there are not zero.
Continue(r, in) ==
  \/ \E o \in Operations, allocate, write \in BOOLEAN :
       /\ op' = o
       /\ ring' = (ring \/ allocate)
       /\ HasMemento(o) \/ o.kind = "copy" => ring'
       /\ write => ring /\ op.kind # "header"
       /\ phase' = IF write THEN "write"
                   ELSE IF InCommands(o) THEN in ELSE "read"
       /\ IF o.kind = "copy"
            THEN /\ br' = JumpToByteBoundary(r)
                 /\ result' \in IF PadBitsCount(r) = 0 THEN {Success}
                                ELSE {Success, Padding}
            ELSE br' = r /\ result' = Success
  \/ /\ br' = r /\ phase' = "last"
     /\ UNCHANGED <<op, ring, result>>
  \/ /\ br' = r /\ result' = Failure
     /\ UNCHANGED <<op, phase, ring>>

\* A read by the safe functions.  Commands come here only without the input the
\* fast path wants.
SafeRead ==
  /\ Running /\ phase = "read"
  /\ HasMemento(op) => ~CheckInputAmount(br, CommandInput)
  /\ LET tried == SafeOutcome(br, op)
     IN  \/ tried.ok /\ Continue(tried.br, "read")
         \/ /\ ~tried.ok
            /\ br' = tried.br /\ op' = Remainder(br, op)
            /\ result' = MoreInput
            /\ UNCHANGED <<phase, ring>>
  /\ UNCHANGED <<budget, inputs, error_code, calling>>

\* ProcessCommands is entered: enough input, and a register that is not empty.
EnterFast ==
  /\ Running /\ phase = "read" /\ InCommands(op)
  /\ CheckInputAmount(br, CommandInput)
  /\ br' = WarmupBitReader(br)
  /\ phase' = "fast" /\ budget' = FastBits
  /\ UNCHANGED <<op, ring, inputs, error_code, calling, result>>

\* Between two checks the fast path reads a command, a block switch and a distance
\* (161 bits), or a block switch, a literal, another block switch and a distance
\* (167 bits; the code's comments say 156 and 162, those of a distance of 24 extra
\* bits); the look-up of a literal also peeks at the 8 bits after it.
Allowance == IF CheckInputAmount(br, CommandInput) THEN FastBits ELSE budget

Reserved(o) == WidestRead(o) + (IF o.kind = "symbol" THEN 8 ELSE 0)

FastRead ==
  /\ Running /\ phase = "fast" /\ Reserved(op) <= Allowance
  /\ \E r \in FastOutcomes(br, op) : Continue(r, "fast")
  /\ budget' = IF phase' = "fast" THEN Allowance - WidestRead(op) ELSE 0
  /\ UNCHANGED <<inputs, error_code, calling>>

\* ReadSymbolCodeLengths: a field of up to 8 bits may be a code length with its
\* repeat count; these are read from 4 bytes loaded at once.
CodeLengthBits == 8

ReadsCodeLength(reader, o) ==
  /\ o.kind = "header" /\ o.extra1 <= CodeLengthBits
  /\ CheckInputAmount(reader, FillLoads(17))

FastCodeLength ==
  LET warm == WarmupBitReader(br)
  IN  /\ Running /\ phase = "read"
      /\ br.avail_in > 0 /\ ReadsCodeLength(warm, op)
      /\ Continue(DropBits(FillBitWindow(warm, 17), op.extra1), "read")
      /\ UNCHANGED <<budget, inputs, error_code, calling>>

\* The fast path finds too little input: SafeProcessCommands takes over.
LeaveFast ==
  /\ Running /\ phase = "fast"
  /\ ~CheckInputAmount(br, CommandInput)
  /\ phase' = "read" /\ budget' = 0
  /\ UNCHANGED <<br, op, ring, inputs, error_code, calling, result>>

\* WriteRingBuffer of a write state: all written, or the output is full.
WriteRing ==
  /\ Running /\ phase = "write"
  /\ \/ phase' = "read" /\ UNCHANGED result
     \/ result' = MoreOutput /\ UNCHANGED phase
  /\ UNCHANGED <<br, op, budget, ring, inputs, error_code, calling>>

\* BROTLI_STATE_DONE: the result of the last write replaces the result so far.
Done(code) ==
  \/ ring /\ Return(Success)
  \/ /\ ring /\ result' \in {MoreOutput, Failure}
     /\ UNCHANGED <<calling, error_code>>
  \/ ~ring /\ Return(code)

\* BROTLI_STATE_METABLOCK_DONE of the last metablock, which falls through to
\* BROTLI_STATE_DONE.  The bits up to the byte boundary should be zero.
FinishLast(padding_ok) ==
  /\ Running /\ phase = "last"
  /\ ~padding_ok => PadBitsCount(br) > 0
  /\ phase' = "done"
  /\ LET parked == JumpToByteBoundary(br)
     IN  IF buffer_length = 0 THEN UnloadInto(parked)
         ELSE br' = parked /\ UNCHANGED <<available_in, input_offset>>
  /\ Done(IF padding_ok THEN Success ELSE Padding)
  /\ UNCHANGED <<op, budget, ring, buffer, buffer_length, local_input, base>>

\* A call after the end only writes what is left.
StillDone ==
  /\ Running /\ phase = "done"
  /\ Done(Success)
  /\ UNCHANGED <<decoder, inputs>>
-----------------------------------------------------------------------------
(* The branches for a result that is not success *)

ShortOfInput == calling /\ result = MoreInput

\* Mutations: the cursor of the chunk is not taken over; the buffer is not emptied.
SwitchToStart ==
  /\ ShortOfInput /\ buffer_length # 0 /\ br.avail_in = 0
  /\ buffer_length' = 0
  /\ local_input' = "xinput"
  /\ br' = Offered(br, 0, available_in)
  /\ result' = Success
  /\ UNCHANGED <<op, phase, budget, ring, buffer, base, input_offset, available_in,
                 error_code, calling>>

SwitchKeepsBuffer ==
  /\ ShortOfInput /\ buffer_length # 0 /\ br.avail_in = 0
  /\ local_input' = "xinput"
  /\ br' = Offered(br, input_offset, available_in)
  /\ result' = Success
  /\ UNCHANGED <<op, phase, budget, ring, buffer, buffer_length, base, input_offset,
                 available_in, error_code, calling>>

\* The bytes of the buffer are used up: on with the caller's chunk.
SwitchToInput ==
  /\ ShortOfInput /\ buffer_length # 0 /\ br.avail_in = 0
  /\ buffer_length' = 0
  /\ local_input' = "xinput"
  /\ br' = Offered(br, input_offset, available_in)
  /\ result' = Success
  /\ UNCHANGED <<op, phase, budget, ring, buffer, base, input_offset, available_in,
                 error_code, calling>>

\* The byte after the buffered ones, which the assertion in the code expects the
\* upfront copy to have put there.
NewByte == base + input_offset

\* Mutation: the buffer takes all it has room for at once.
TakeAllBytes ==
  LET taken == IF available_in <= BufferSize - buffer_length
                 THEN available_in ELSE BufferSize - buffer_length
  IN  /\ ShortOfInput /\ buffer_length # 0 /\ br.avail_in # 0 /\ available_in # 0
      /\ buffer_length' = buffer_length + taken
      /\ br' = Offered(br, br.next_in, buffer_length + taken)
      /\ input_offset' = input_offset + taken /\ available_in' = available_in - taken
      /\ result' = Success
      /\ UNCHANGED <<op, phase, budget, ring, buffer, local_input, base, error_code, calling>>

TakeOneByte ==
  /\ ShortOfInput /\ buffer_length # 0 /\ br.avail_in # 0 /\ available_in # 0
  /\ buffer_length' = buffer_length + 1
  /\ buffer' = [buffer EXCEPT ![buffer_length] = NewByte]
  /\ br' = Offered(br, br.next_in, buffer_length + 1)
  /\ input_offset' = input_offset + 1 /\ available_in' = available_in - 1
  /\ result' = Success
  /\ UNCHANGED <<op, phase, budget, ring, local_input, base, error_code, calling>>

\* Neither the buffer nor the chunk has a byte left to try.
GiveUp ==
  /\ ShortOfInput /\ buffer_length # 0 /\ br.avail_in # 0 /\ available_in = 0
  /\ Return(MoreInput)
  /\ UNCHANGED <<decoder, inputs>>

\* Mutation: the bytes of the tail are not counted as consumed.
SaveTailUncounted ==
  /\ ShortOfInput /\ buffer_length = 0
  /\ buffer' = [i \in Indices |->
                  IF i < br.avail_in THEN base + br.next_in + i ELSE buffer[i]]
  /\ buffer_length' = br.avail_in
  /\ input_offset' = br.next_in /\ available_in' = 0
  /\ Return(MoreInput)
  /\ UNCHANGED <<decoder, local_input, base>>

\* The unread tail of the chunk moves to the buffer.
SaveTail ==
  /\ ShortOfInput /\ buffer_length = 0
  /\ buffer' = [i \in Indices |->
                  IF i < br.avail_in THEN base + br.next_in + i ELSE buffer[i]]
  /\ buffer_length' = br.avail_in
  /\ input_offset' = br.next_in + br.avail_in /\ available_in' = 0
  /\ Return(MoreInput)
  /\ UNCHANGED <<decoder, local_input, base>>

\* Before any of these the pending output is written, which finds a metablock
\* that is longer than it said.
ForcedWriteFails ==
  /\ ShortOfInput /\ ring /\ phase # "done"
  /\ Return(Failure)
  /\ UNCHANGED <<decoder, inputs>>

\* Fail or needs more output.
ReturnOther ==
  /\ calling /\ result \notin {Success, MoreInput}
  /\ Return(result)
  /\ IF buffer_length # 0
       THEN buffer_length' = 0 /\ UNCHANGED <<br, available_in, input_offset>>
       ELSE UnloadInto(br) /\ UNCHANGED buffer_length
  /\ UNCHANGED <<op, phase, budget, ring, buffer, local_input, base>>

Resolve == SwitchToInput \/ TakeOneByte \/ GiveUp \/ SaveTail \/ ForcedWriteFails
             \/ ReturnOther

Step == SafeRead \/ EnterFast \/ FastRead \/ FastCodeLength \/ LeaveFast \/ WriteRing
          \/ (\E padding_ok \in BOOLEAN : FinishLast(padding_ok)) \/ StillDone \/ Resolve

Next == (\E n \in ChunkLengths : Call(n)) \/ CallAfterError \/ Step

Spec == Init /\ [][Next]_vars

-----------------------------------------------------------------------------
(* Properties *)

\* The types of the decoder's state; the counters of the bit reader and of the cursor,
\* unsigned in the code, are never negative where the code subtracts from them.
TypeOK ==
  /\ br \in BrotliBitReader
  /\ WellFormed(op) /\ budget \in 0 .. FastBits
  /\ phase \in {"read", "fast", "write", "last", "done"}
  /\ ring \in BOOLEAN /\ calling \in BOOLEAN
  /\ buffer \in [Indices -> Nat] /\ buffer_length \in 0 .. BufferSize
  /\ local_input \in {"xinput", "buffer"}
  /\ base \in Nat /\ input_offset \in Int /\ available_in \in Nat
  /\ result \in Results /\ error_code \in Results

ByteAt(i) == IF local_input = "xinput" THEN base + i ELSE buffer[i]

\* The bytes the bit reader has yet to load are those that follow in the stream
\* the bytes it has loaded, wherever they are kept: no byte is lost, repeated or
\* read out of order by the tail buffer, the memento or the switch to the input.
NextBytesInOrder ==
  calling =>
    \A i \in 0 .. br.avail_in - 1 :
      /\ local_input = "buffer" => br.next_in + i \in Indices
      /\ ByteAt(br.next_in + i) = br.loaded + i

\* A read that runs out of input has used no bit, however many bytes it pulled and
\* however many parts of it were there: the retry, which starts from its beginning,
\* reads the same bits again (the memento of bit_reader/mod.rs:72, decode.rs:1487).
RetryKeepsBits ==
  [][Running /\ result' = MoreInput /\ op.kind # "copy" =>
       BitPosition(br)' = BitPosition(br)]_vars

\* Between calls, what the caller was told is consumed is what the register took
\* in plus the tail that is buffered, and that tail is the next bytes in order.
ConsumedIsKept ==
  ~calling /\ ~IsFatal(error_code) =>
    LET tail == IF buffer_length = 0 THEN 0 ELSE br.avail_in
    IN  /\ Fed = br.loaded + tail
        /\ tail > 0 => /\ tail = buffer_length
                       /\ \A i \in 0 .. tail - 1 : buffer[i] = br.loaded + i

\* A call that ends because the stream ended or the output is full leaves to the
\* caller every byte no bit of which was used.
ExactConsumption ==
  ~calling /\ error_code \in {Success, MoreOutput} =>
    8 * Fed - BitPosition(br) \in 0 .. 7

\* The comment at decode.rs:2713: when the buffer is used up the register holds
\* less than a byte, so nothing of an earlier chunk can be unloaded into this one.
SwitchHoldsLessThanAByte ==
  ShortOfInput /\ buffer_length # 0 /\ br.avail_in = 0 => GetAvailableBits(br) < 8

\* The u32 subtractions of the cursor never pass the start of the slice, and the
\* cursor never passes its end.
CursorInSlice ==
  /\ br.next_in >= 0 /\ input_offset >= 0
  /\ calling /\ local_input = "xinput" => br.next_in + br.avail_in = input_offset + available_in

\* The assertion of TakeOneByte (decode.rs:2736) and the index of the tail copy:
\* the buffer has room, and the upfront copy put the same byte there.
BufferAssertion ==
  /\ ShortOfInput /\ buffer_length # 0 /\ br.avail_in # 0 /\ available_in # 0 =>
       buffer_length \in Indices /\ buffer[buffer_length] = NewByte
  /\ ShortOfInput /\ buffer_length = 0 => br.avail_in <= BufferSize

\* The fast paths load 4 or 8 bytes at once: never past the bytes offered, and
\* never into an empty register, where the ^= on bit_pos_ is not a subtraction.
FastLoadsAreSound ==
  Running =>
    /\ phase = "fast" =>
         /\ br.bit_pos < RegBits
         /\ Reserved(op) <= Allowance => FastInBounds(br, op)
    /\ phase = "read" /\ br.avail_in > 0 /\ ReadsCodeLength(WarmupBitReader(br), op) =>
         WarmupBitReader(br).bit_pos < RegBits

\* The assertion of the writer (writer.rs:334): a call that wants more input has
\* taken all it was offered.
MoreInputTookAll == ~calling /\ error_code = MoreInput => available_in = 0

\* Every turn of the loop gets the call closer to its end: it reads on in the
\* stream, or else takes from the chunk or leaves the buffer, or else goes down in
\* rank.  A call with finite input therefore returns (the loop has five "continue"
\* and "break to retry" edges that only this order keeps from going round).
Rank ==
  IF result # Success THEN IF result = MoreInput THEN 1 ELSE 0
  ELSE CASE phase = "write" -> 6
         [] phase = "read" -> IF CheckInputAmount(br, CommandInput) THEN 5 ELSE 3
         [] phase = "fast" -> 4
         [] phase \in {"last", "done"} -> 2

Untried == available_in + (IF buffer_length = 0 THEN 0 ELSE 1)

MakesProgress ==
  \/ BitPosition(br)' > BitPosition(br)
  \/ /\ BitPosition(br)' = BitPosition(br)
     /\ Untried' < Untried \/ (Untried' = Untried /\ Rank' < Rank)

CallMakesProgress == [][calling /\ calling' => MakesProgress]_vars

\* What the comment on BrotliJumpToByteBoundary (bit_reader/mod.rs:379) says of the
\* skipped bits, at the end of the stream: when they are not zero, the call that
\* parks there does not report success.
PaddingIsVerified == [][FinishLast(FALSE) => result' # Success]_vars

=============================================================================
