-------------------------- MODULE DecompressCustomIo --------------------------
(***************************************************************************)
(* BrotliDecompressCustomIo (brotli-exp/src/lib.rs): one call that reads   *)
(* the source, decodes, and writes the sink until the stream ends.         *)
(***************************************************************************)
EXTENDS Decoder

\* Both buffers are not empty: asserted before the loop.
CustomIo(n) ==
  /\ front = "DecompressCustomIo" /\ phase = "idle"
  /\ n > 0
  /\ op' = "custom_io" /\ phase' = "source" /\ ret' = Err("none")
  /\ capacity' = n /\ output' = <<>> /\ written' = 0
  /\ UNCHANGED <<setup, given, decoding, inputs, error_if_invalid_data, sink_ok, received, later>>

Finish(r) ==
  /\ phase' = "closed" /\ op' = "none" /\ ret' = r /\ UNCHANGED error_if_invalid_data
  /\ UNCHANGED <<setup, given, decoding, inputs, outputs, sink_ok, received, later>>

\* What was in the buffer is overwritten.
PumpMore == op = "custom_io" /\ SourceGives(0) /\ input_offset' = 0

PumpEnds == op = "custom_io" /\ SourceEnds(0) /\ Finish(Err("invalid"))

PumpSourceError == op = "custom_io" /\ phase = "source" /\ Finish(Err("source"))

PumpOutput ==
  /\ op = "custom_io" /\ phase = "result" /\ Goto("sink")
  /\ UNCHANGED <<setup, given, decoding, inputs, outputs, sink_ok, received, later>>

\* Mutation: the next round starts behind what was written.
BufferKept == UNCHANGED outputs

\* The output buffer is empty again once it was written.
BufferReset ==
  output' = <<>> /\ written' = 0 /\ UNCHANGED capacity

\* Mutation: the source is read once.
PumpGoesOnUnread ==
  /\ op = "custom_io" /\ phase = "sink" /\ written = Len(output)
  /\ result \in {MoreInput, MoreOutput}
  /\ Goto("decode")
  /\ BufferReset
  /\ UNCHANGED <<setup, given, decoding, inputs, sink_ok, received, later>>

PumpGoesOn ==
  /\ op = "custom_io" /\ phase = "sink" /\ written = Len(output)
  /\ result \in {MoreInput, MoreOutput}
  /\ Goto(IF result = MoreInput THEN "source" ELSE "decode")
  /\ BufferReset
  /\ UNCHANGED <<setup, given, decoding, inputs, sink_ok, received, later>>

PumpResult ==
  /\ op = "custom_io" /\ phase = "sink" /\ written = Len(output)
  /\ \/ result = Success /\ Finish(Ok(0))
     \/ result = Failure /\ Finish(Err("invalid"))

PumpSinkError == op = "custom_io" /\ SinkFails("closed")
=============================================================================
