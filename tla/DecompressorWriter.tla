-------------------------- MODULE DecompressorWriter --------------------------
(***************************************************************************)
(* DecompressorWriterCustomIo (brotli-exp/src/writer.rs), a Write around   *)
(* the decoder: what is written to it is decoded and written to the sink.  *)
(* Dropping it, or taking the sink out of it, first closes the stream.     *)
(***************************************************************************)
EXTENDS Decoder

closing == op \in {"into_inner", "drop"}

\* Mutation: what a failed write has left in the buffer is written again.
OutputLeft ==
  /\ capacity' = buffer_size
  /\ IF written < Len(output) THEN UNCHANGED output ELSE output' = <<>>
  /\ written' = 0

\* A round of the decoder with an empty output buffer.
OutputBuffer == capacity' = buffer_size /\ output' = <<>> /\ written' = 0

\* The user writes the next n bytes.
Write(n) ==
  /\ front = "DecompressorWriter" /\ phase = "idle"
  /\ given + n <= stream.supplied
  /\ op' = "write" /\ phase' = "decode" /\ ret' = Err("none")
  /\ input_buffer' = [i \in 0 .. n - 1 |-> given + i]
  /\ input_offset' = 0 /\ input_len' = n /\ given' = given + n
  /\ OutputBuffer
  /\ UNCHANGED <<setup, decoding, error_if_invalid_data, sink_ok, received, later>>

\* flush reaches the sink only, which may fail: what the decoder still holds stays there.
Flush ==
  /\ front = "DecompressorWriter" /\ phase = "idle"
  /\ Return(Ok(0)) \/ Return(Err("sink"))
  /\ UNCHANGED <<setup, given, decoding, inputs, outputs, sink_ok, received, later>>

\* into_inner and drop both close: the decoder is run without input to its end.
Close(how) ==
  /\ front = "DecompressorWriter" /\ phase = "idle"
  /\ op' = how /\ phase' = "decode" /\ ret' = Err("none")
  /\ input_buffer' = <<>> /\ input_offset' = 0 /\ input_len' = 0
  /\ OutputBuffer
  /\ UNCHANGED <<setup, given, decoding, error_if_invalid_data, sink_ok, received, later>>

IntoInner == Close("into_inner")

Drop == Close("drop")

WriteOutput ==
  /\ front = "DecompressorWriter" /\ phase = "result" /\ Goto("sink")
  /\ UNCHANGED <<setup, given, decoding, inputs, outputs, sink_ok, received, later>>

AllWritten == phase = "sink" /\ written = Len(output)

AgainOr(r, next) ==
  \/ /\ result = MoreOutput /\ Goto("decode") /\ OutputBuffer
  \/ /\ result # MoreOutput /\ UNCHANGED outputs
     /\ phase' = next /\ op' = "none" /\ ret' = r /\ UNCHANGED error_if_invalid_data

\* Mutation: no difference is made between a decoder without input and one without room.
WriteResultAsserts ==
  /\ op = "write" /\ AllWritten
  /\ \/ /\ result \in {MoreInput, MoreOutput} /\ UNCHANGED outputs
        /\ IF avail_in = 0 THEN Return(Ok(input_len)) ELSE Goto("panicked_assert")
     \/ result = Success /\ AgainOr(Ok(input_len), "idle")
     \/ result = Failure /\ ReturnInvalid("idle") /\ UNCHANGED outputs
  /\ UNCHANGED <<setup, given, decoding, inputs, sink_ok, received, later>>

\* Mutation: write returns when the buffer is full.
WriteResultStops ==
  /\ op = "write" /\ AllWritten
  /\ \/ result # Failure /\ Return(Ok(input_len)) /\ UNCHANGED outputs
     \/ result = Failure /\ ReturnInvalid("idle") /\ UNCHANGED outputs
  /\ UNCHANGED <<setup, given, decoding, inputs, sink_ok, received, later>>

\* What write makes of the result once write_all has written the output.
WriteResult ==
  /\ op = "write" /\ AllWritten
  /\ \/ result = MoreInput /\ avail_in # 0 /\ Goto("panicked_assert") /\ UNCHANGED outputs
     \/ result = MoreInput /\ avail_in = 0 /\ AgainOr(Ok(input_len), "idle")
     \/ result \in {MoreOutput, Success} /\ AgainOr(Ok(input_len), "idle")
     \/ result = Failure /\ ReturnInvalid("idle") /\ UNCHANGED outputs
  /\ UNCHANGED <<setup, given, decoding, inputs, sink_ok, received, later>>

\* Mutation: closing stops when the buffer is full.
CloseResultOnce ==
  /\ closing /\ AllWritten
  /\ \/ /\ result \in {MoreOutput, Success} /\ UNCHANGED outputs
        /\ phase' = "closed" /\ op' = "none" /\ ret' = Ok(0) /\ UNCHANGED error_if_invalid_data
     \/ result \in {MoreInput, Failure} /\ ReturnInvalid("closed") /\ UNCHANGED outputs
  /\ UNCHANGED <<setup, given, decoding, inputs, sink_ok, received, later>>

\* What close makes of it.
CloseResult ==
  /\ closing /\ AllWritten
  /\ \/ result \in {MoreOutput, Success} /\ AgainOr(Ok(0), "closed")
     \/ result \in {MoreInput, Failure} /\ ReturnInvalid("closed") /\ UNCHANGED outputs
  /\ UNCHANGED <<setup, given, decoding, inputs, sink_ok, received, later>>

WriteSinkError ==
  /\ front = "DecompressorWriter"
  /\ SinkFails(IF closing THEN "closed" ELSE "idle")
=============================================================================
