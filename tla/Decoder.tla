------------------------------- MODULE Decoder -------------------------------
(***************************************************************************)
(* BrotliDecompressStream as its callers see it (brotli-exp/src/decode.rs).*)
(*                                                                         *)
(* The decoder is what StreamInput and OutputRing show of it: a call that  *)
(* asks for input has taken all it was given, one that asks for output has *)
(* filled its buffer, one that reports success has handed out everything,  *)
(* and after a failure every call fails.  The state below is shared by the *)
(* loops around it: Decompressor, DecompressorWriter, DecompressCustomIo.  *)
(*                                                                         *)
(* Bytes are numbers: byte k of the encoded stream, byte k of the output.  *)
(***************************************************************************)
EXTENDS Integers, Sequences

CONSTANTS
  StreamLengths,   \* bytes of the encoded stream
  SourceLengths,   \* bytes the source has: fewer, or more that follow the stream
  OutputLengths,   \* bytes of the output
  BufferSizes,     \* bytes of the buffer of the loop
  CallSizes        \* bytes of the buffers the user comes with

ASSUME SizesAssumption ==
  /\ StreamLengths \subseteq Nat \ {0} /\ SourceLengths \subseteq Nat
  /\ OutputLengths \subseteq Nat /\ BufferSizes \subseteq Nat \ {0}
  /\ CallSizes \subseteq Nat

VARIABLES
  front,         \* the loop in use
  stream,        \* its length, that of its output, what the source has, is it invalid
  buffer_size,   \* of the buffer of the loop: input for a reader, output for a writer
  given,         \* bytes the source or the user has given
  taken,         \* bytes the decoder has taken
  produced,      \* bytes decoded
  emitted,       \* bytes put into output buffers
  decoder,       \* how far decoding has come
  result,        \* what the last call of the decoder returned
  op,            \* the operation of the user in progress
  phase,         \* where it is
  input_buffer,  \* the bytes in the input buffer
  input_offset,  \* the first the decoder has not taken
  input_len,     \* the end of what was read; input_offset + available_in
  capacity,      \* room in the output buffer of the operation
  output,        \* the bytes put into it; their number is output_offset
  written,       \* total_written: those the sink has accepted
  error_if_invalid_data,  \* is there still an error to return
  ret,           \* what the last operation returned
  sink_ok,       \* the sink has not failed in any write so far
  received,      \* the bytes the sink, or the reader's user, has got up to then
  later          \* and those a sink has got that failed and works again

setup == <<front, stream, buffer_size>>
decoding == <<taken, produced, emitted, decoder, result>>
inputs == <<input_buffer, input_offset, input_len>>
outputs == <<capacity, output, written>>
calls == <<op, phase, ret, error_if_invalid_data>>
vars == <<setup, given, decoding, inputs, outputs, calls, sink_ok, received, later>>

MoreInput == "NeedsMoreInput"
MoreOutput == "NeedsMoreOutput"
Success == "ResultSuccess"
Failure == "ResultFailure"

avail_in == input_len - input_offset

avail_out == capacity - Len(output)

\* The bytes from .. to - 1 of a stream.
Bytes(from, to) == [k \in 1 .. to - from |-> from + k - 1]

\* What of an operation is left to say when it returns.
Ok(n) == [kind |-> "ok", count |-> n]
Err(kind) == [kind |-> kind, count |-> 0]

Return(r) == phase' = "idle" /\ op' = "none" /\ ret' = r /\ UNCHANGED error_if_invalid_data

\* error_if_invalid_data.take().unwrap(): there is one error, and a second unwrap panics.
ReturnInvalid(next) ==
  IF error_if_invalid_data
    THEN /\ phase' = next /\ op' = "none" /\ ret' = Err("invalid")
         /\ error_if_invalid_data' = FALSE
    ELSE phase' = "panicked_unwrap" /\ UNCHANGED <<op, ret, error_if_invalid_data>>

Goto(next) == phase' = next /\ UNCHANGED <<op, ret, error_if_invalid_data>>

Init(fronts) ==
  /\ front \in fronts
  /\ stream \in [length : StreamLengths, supplied : SourceLengths,
                 output : OutputLengths, corrupt : BOOLEAN]
  /\ buffer_size \in BufferSizes
  /\ given = 0 /\ taken = 0 /\ produced = 0 /\ emitted = 0
  /\ decoder = "running" /\ result = MoreInput
  /\ op = "none" /\ phase = "idle" /\ ret = Err("none") /\ error_if_invalid_data = TRUE
  /\ input_buffer = [i \in 0 .. buffer_size - 1 |-> -1]
  /\ input_offset = 0 /\ input_len = 0
  /\ capacity = 0 /\ output = <<>> /\ written = 0
  /\ sink_ok = TRUE /\ received = <<>> /\ later = <<>>
-----------------------------------------------------------------------------
(* BrotliDecompressStream *)

\* Decoding takes some input, decodes some output and hands out some of it, whichever
\* the result is; never past the end of the stream, and nothing without input.
Advance(n, more, put) ==
  /\ taken' = taken + n /\ taken' <= stream.length
  /\ produced' = produced + more /\ (taken' = 0 => produced' = 0)
  /\ emitted' = emitted + put /\ emitted' <= produced'
  /\ input_offset' = input_offset + n
  /\ output' = output \o Bytes(emitted, emitted')

AsksForInput ==
  /\ result' = MoreInput /\ UNCHANGED decoder
  /\ taken' < stream.length /\ input_offset' = input_len
  /\ Len(output') = capacity \/ emitted' = produced'

AsksForOutput ==
  /\ result' = MoreOutput /\ UNCHANGED decoder
  /\ Len(output') = capacity /\ emitted' < produced'

Succeeds ==
  /\ result' = Success /\ decoder' = "done"
  /\ ~stream.corrupt /\ taken' = stream.length
  /\ produced' = stream.output /\ emitted' = stream.output

\* A write whose sink fails leaves input behind that the next write does not bring
\* again: what follows is not the stream, and may be invalid.
Skipped == taken + avail_in < given

Fails == result' = Failure /\ decoder' = "failed" /\ (stream.corrupt \/ Skipped)

\* A call of the decoder from the loop around it.
BrotliDecompressStream ==
  /\ phase = "decode" /\ Goto("result")
  /\ \/ /\ decoder = "running"
        /\ \E n \in 0 .. avail_in, more \in 0 .. stream.output - produced,
              put \in 0 .. avail_out : Advance(n, more, put)
        /\ AsksForInput \/ AsksForOutput \/ Succeeds \/ Fails
     \/ /\ decoder = "done" /\ result' = Success
        /\ UNCHANGED <<taken, produced, emitted, decoder, input_offset, output>>
     \/ /\ decoder = "failed" /\ result' = Failure
        /\ UNCHANGED <<taken, produced, emitted, decoder, input_offset, output>>
  /\ written' = 0
  /\ UNCHANGED <<setup, given, input_buffer, input_len, capacity, sink_ok, received, later>>
-----------------------------------------------------------------------------
(* The source and the sink (io_wrappers.rs): an interrupted call is made again. *)

\* The source fills part of the buffer from this index on.
SourceGives(at) ==
  /\ phase = "source" /\ Goto("decode")
  /\ \E n \in 1 .. stream.supplied - given :
       /\ at + n <= buffer_size
       /\ input_buffer' = [i \in DOMAIN input_buffer |->
                             IF i \in at .. at + n - 1 THEN given + i - at
                             ELSE input_buffer[i]]
       /\ given' = given + n /\ input_len' = at + n
  /\ UNCHANGED <<setup, decoding, outputs, sink_ok, received, later>>

\* It has nothing left, or was asked for nothing: Ok(0).
SourceEnds(at) == phase = "source" /\ (given = stream.supplied \/ at = buffer_size)

Interrupted == phase \in {"source", "sink"} /\ UNCHANGED vars

\* The sink accepts at least one byte.
SinkAccepts ==
  /\ phase = "sink" /\ Goto("sink")
  /\ \E n \in 1 .. Len(output) - written :
       LET accepted == SubSeq(output, written + 1, written + n)
       IN  /\ written' = written + n
           /\ \/ sink_ok /\ received' = received \o accepted /\ UNCHANGED later
              \/ ~sink_ok /\ later' = later \o accepted /\ UNCHANGED received
  /\ UNCHANGED <<setup, given, decoding, inputs, capacity, output, sink_ok>>

\* An error of the sink ends the operation; what is left of its output is gone.  Only
\* interruptions are retried below, so a sink may fail for a while: one that would
\* block fails (io_wrappers.rs:131) and works again later.
SinkFails(next) ==
  /\ phase = "sink" /\ written < Len(output)
  /\ sink_ok' = FALSE
  /\ phase' = next /\ op' = "none" /\ ret' = Err("sink")
  /\ UNCHANGED <<setup, given, decoding, inputs, outputs, error_if_invalid_data, received,
                 later>>
=============================================================================
