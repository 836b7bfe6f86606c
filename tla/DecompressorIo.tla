---------------------------- MODULE DecompressorIo ----------------------------
(***************************************************************************)
(* The three loops of brotli-exp around BrotliDecompressStream, each with  *)
(* its user, a source that may block, fail for a while or end too early,   *)
(* and a sink that accepts what it likes, fails, and may work again.  A    *)
(* behaviour uses one of them.                                             *)
(***************************************************************************)
EXTENDS Decompressor, DecompressorWriter, DecompressCustomIo

Fronts == {"Decompressor", "DecompressorWriter", "DecompressCustomIo"}

\* What the user does.
Uses(n) == Read(n) \/ Write(n) \/ CustomIo(n)

Ends == IntoInner \/ Drop

\* What the loops do by themselves.
Step ==
  \/ BrotliDecompressStream
  \/ ReadResult \/ WriteOutput \/ WriteResult \/ CloseResult
  \/ PumpOutput \/ PumpGoesOn \/ PumpResult

\* What the source and the sink do.
SourceAnswers == ReadMore \/ ReadEnds \/ PumpMore \/ PumpEnds

SourceErrors == ReadSourceError \/ PumpSourceError

SinkErrors == WriteSinkError \/ PumpSinkError

Next ==
  \/ (\E n \in CallSizes : Uses(n)) \/ Flush \/ Ends
  \/ Step
  \/ SourceAnswers \/ SourceErrors \/ Interrupted
  \/ SinkAccepts \/ SinkErrors

\* The loops run; a source asked again and again answers with what it has; a sink accepts
\* at least a byte or fails; the user goes on to the end of the stream, with buffers that
\* are not empty.
Fairness ==
  /\ WF_vars(Step)
  /\ SF_vars(SourceAnswers)
  /\ WF_vars(SinkAccepts \/ SinkErrors)
  /\ SF_vars(\E n \in CallSizes \ {0} : Uses(n))
  /\ SF_vars(Ends)

Spec == Init(Fronts) /\ [][Next]_vars /\ Fairness
-----------------------------------------------------------------------------
(* Properties *)

Returned(r) == phase \in {"idle", "closed"} /\ ret = r

\* The types of the state of the loops.
TypeOK ==
  /\ front \in Fronts /\ buffer_size \in BufferSizes
  /\ given \in 0 .. stream.supplied /\ taken \in 0 .. stream.length
  /\ emitted <= produced /\ produced <= stream.output
  /\ decoder \in {"running", "done", "failed"}
  /\ result \in {MoreInput, MoreOutput, Success, Failure}
  /\ op \in {"none", "read", "write", "into_inner", "drop", "custom_io"}
  /\ phase \in {"idle", "source", "decode", "result", "sink", "closed",
                "panicked_unwrap", "panicked_assert"}
  /\ input_offset \in 0 .. input_len
  /\ 0 .. input_len - 1 \subseteq DOMAIN input_buffer
  /\ Len(output) <= capacity /\ written \in 0 .. Len(output)
  /\ error_if_invalid_data \in BOOLEAN /\ sink_ok \in BOOLEAN
  /\ Len(received) + Len(later) <= emitted

\* The decoder is given the encoded stream once and in order, also when the source
\* blocked in between or the input buffer was moved: what it has not taken is what
\* comes next, and nothing the source gave is left out (reader.rs:258, lib.rs:243).
\* A writer takes more bytes than that once its decoder is at the end or has failed.
InputInOrder ==
  (front = "DecompressorWriter" => decoder = "running" /\ sink_ok) =>
    /\ \A i \in input_offset .. input_len - 1 : input_buffer[i] = taken + i - input_offset
    /\ given = taken + avail_in

\* The user, or the sink, gets the decoded bytes once and in order, whatever the sizes
\* of the buffers, and also when the sink accepts a part or the source fails for a
\* while; from a sink, up to the first write that failed.
Stream == INSTANCE OutputStream WITH delivered <- received

StreamSpec == Stream!Spec

\* The stream is reported invalid only if it is, or ended too early: the decoder has
\* taken all the source had, or the user wrote; or a write that failed has left a part of
\* it out.  Never because the source was asked to read into no room at all, which is 0
\* bytes as well (reader.rs:304).
InvalidIsHonest ==
  Returned(Err("invalid")) =>
    \/ stream.corrupt
    \/ ~sink_ok /\ taken < given
    \/ /\ taken < stream.length
       /\ sink_ok => taken = given
       /\ front # "DecompressorWriter" => given = stream.supplied

\* The end is reported only when every byte of the stream has been handed over: by a
\* read of no bytes into a buffer with room, by into_inner and by the call that does
\* everything.  The output of a write whose sink failed is gone, and into_inner may
\* well succeed after that (writer.rs:331): only the error of that write tells of it.
EndIsHonest ==
  LET ended == CASE front = "Decompressor" -> capacity > 0 /\ Returned(Ok(0))
                 [] OTHER -> phase = "closed" /\ Returned(Ok(0))
  IN  ended => ~stream.corrupt /\ (sink_ok => Len(received) = stream.output)

\* A sink that failed and works again gets no byte twice and none out of order: the
\* part it took of the write that failed is not written again by the next one, by
\* into_inner or by drop, and the rest of it leaves a gap and comes no more.
NothingTwice ==
  LET all == received \o later
  IN  \A i, j \in 1 .. Len(all) : i < j => all[i] < all[j]

\* The loops panic for one reason only: the stream was invalid, the user was told, and
\* went on.  The assertion that a write which needs input has taken it all holds.
PanicsOnlyWhenTold ==
  /\ phase # "panicked_assert"
  /\ phase = "panicked_unwrap" => ~error_if_invalid_data /\ front # "DecompressCustomIo"

\* Code behind an error is prepared to be called again: read returns Err, and drop
\* ignores what closing returns.
NeverPanics == phase \notin {"panicked_unwrap", "panicked_assert"}

\* Every call returns: no loop goes round for ever between a decoder that wants input or
\* room, a source that is interrupted and a sink that takes a part.
CallsReturn ==
  phase \in {"source", "decode", "result", "sink"}
    ~> phase \in {"idle", "closed", "panicked_unwrap"}

\* Who gave up before the end: the sink, the user of a writer, or the source of the
\* call that does everything.
GaveUp ==
  \/ ~sink_ok
  \/ front = "DecompressorWriter" /\ phase = "closed" /\ given < stream.length
  \/ front = "DecompressCustomIo" /\ Returned(Err("source"))

\* Who goes on to the end of a valid stream gets all of its output.
OutputArrives ==
  ~stream.corrupt /\ stream.supplied >= stream.length
    ~> Len(received) = stream.output \/ GaveUp
=============================================================================
