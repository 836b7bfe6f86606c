----------------------------- MODULE Decompressor -----------------------------
(***************************************************************************)
(* DecompressorCustomIo (brotli-exp/src/reader.rs), a Read around the      *)
(* decoder: read gives the user what can be decoded, and reads from the    *)
(* source only when there is nothing to give.                              *)
(***************************************************************************)
EXTENDS Decoder

CONSTANT NearEnd   \* 256: how near its end the input buffer is moved to its front

ASSUME NearEndAssumption == NearEnd \in Nat

\* Mutation: the bytes of the last call are still counted.
ReadKeepsOutput(n) ==
  /\ front = "Decompressor" /\ phase = "idle"
  /\ op' = "read" /\ phase' = "decode" /\ ret' = Err("none")
  /\ capacity' = n /\ UNCHANGED output /\ written' = 0
  /\ UNCHANGED <<setup, given, decoding, inputs, error_if_invalid_data, sink_ok, received, later>>

\* The user calls read with a buffer of n bytes.
Read(n) ==
  /\ front = "Decompressor" /\ phase = "idle"
  /\ op' = "read" /\ phase' = "decode" /\ ret' = Err("none")
  /\ capacity' = n /\ output' = <<>> /\ written' = 0
  /\ UNCHANGED <<setup, given, decoding, inputs, error_if_invalid_data, sink_ok, received, later>>

\* Mutation: a full buffer stays full.
NotMoved == UNCHANGED inputs

\* Mutation: the end of what was read stays where it was.
MovedKeepingLength ==
  IF input_offset + NearEnd > buffer_size
    THEN input_offset' = 0 /\ UNCHANGED <<input_buffer, input_len>>
    ELSE UNCHANGED inputs

copy_to_front ==
  CASE input_offset = buffer_size ->
         input_offset' = 0 /\ input_len' = 0 /\ UNCHANGED input_buffer
    [] /\ input_offset # buffer_size
       /\ input_offset + NearEnd > buffer_size /\ avail_in < input_offset ->
         /\ input_offset' = 0 /\ input_len' = avail_in
         /\ input_buffer' = [i \in DOMAIN input_buffer |->
                               IF i < avail_in THEN input_buffer[input_offset + i]
                               ELSE input_buffer[i]]
    [] OTHER -> UNCHANGED inputs

\* The user gets the bytes in the buffer.
ReturnOutput ==
  /\ Return(Ok(Len(output))) /\ received' = received \o output

\* What read makes of the result of the decoder.
ReadResult ==
  /\ op = "read" /\ phase = "result"
  /\ \/ /\ result = MoreInput /\ output # <<>>
        /\ copy_to_front /\ ReturnOutput
     \/ /\ result = MoreInput /\ output = <<>>
        /\ copy_to_front /\ Goto("source") /\ UNCHANGED received
     \/ /\ result \in {MoreOutput, Success}
        /\ ReturnOutput /\ UNCHANGED inputs
     \/ /\ result = Failure
        /\ ReturnInvalid("idle") /\ UNCHANGED <<inputs, received>>
  /\ UNCHANGED <<setup, given, decoding, outputs, sink_ok, later>>

\* Reading from the source: bytes, its end, or an error the user may get over.
ReadMore == op = "read" /\ SourceGives(input_len) /\ UNCHANGED input_offset

ReadEnds ==
  /\ op = "read" /\ SourceEnds(input_len) /\ ReturnInvalid("idle")
  /\ UNCHANGED <<setup, given, decoding, inputs, outputs, sink_ok, received, later>>

ReadSourceError ==
  /\ op = "read" /\ phase = "source" /\ Return(Err("source"))
  /\ UNCHANGED <<setup, given, decoding, inputs, outputs, sink_ok, received, later>>
=============================================================================
