------------------------- MODULE DecompressorIoProofs -------------------------
(***************************************************************************)
(* Theorems about the loops around the decoder, for every stream, every    *)
(* size of the buffers and whatever the source, the sink and the user do.  *)
(***************************************************************************)
EXTENDS DecompressorIo, SequenceTheorems, TLAPS

\* Which operation is in progress in which loop, and the phases it has.
Operations ==
  /\ op = "none" <=> phase \in {"idle", "closed"}
  /\ op = "read" => front = "Decompressor"
  /\ op \in {"write", "into_inner", "drop"} => front = "DecompressorWriter"
  /\ op = "custom_io" => front = "DecompressCustomIo"
  /\ phase = "source" => front # "DecompressorWriter"
  /\ phase = "sink" => front # "Decompressor"
  /\ phase \in {"source", "decode", "result"} => written = 0
  /\ front = "Decompressor" => written = 0 /\ sink_ok
  /\ front = "DecompressorWriter" /\ phase = "idle" /\ sink_ok => written = Len(output)

\* What the decoder has come to, and what its last result says as long as the loop has
\* not gone on.
DecoderInvariant ==
  /\ decoder = "failed" => stream.corrupt \/ (~sink_ok /\ taken < given)
  /\ decoder = "done" =>
       /\ ~stream.corrupt /\ taken = stream.length
       /\ produced = stream.output /\ emitted = stream.output
  /\ phase \in {"result", "sink"} =>
       /\ result = MoreInput =>
            decoder = "running" /\ input_offset = input_len /\ taken < stream.length
       /\ result = MoreOutput => decoder = "running" /\ Len(output) = capacity
       /\ result = Success => decoder = "done"
       /\ result = Failure => decoder = "failed"

\* The source is asked for bytes only when there are none left, to read into an empty
\* output buffer, and with room for them.
SourceInvariant ==
  /\ front # "DecompressorWriter" =>
       DOMAIN input_buffer = 0 .. buffer_size - 1 /\ input_len <= buffer_size
  /\ phase = "source" \/ (front = "DecompressCustomIo" /\ phase = "idle") =>
       /\ decoder = "running" /\ input_offset = input_len /\ taken < stream.length
       /\ output = <<>>
  /\ phase = "source" /\ front = "Decompressor" => input_len < buffer_size
  /\ front = "DecompressorWriter" /\ phase = "idle" /\ decoder = "running" /\ sink_ok =>
       input_offset = input_len

\* Bytes of the output buffer that are still to be handed over.
Held == IF front = "Decompressor" /\ op = "none" THEN 0 ELSE Len(output) - written

\* What the decoder put out is in the output buffer or was handed over, in order; a
\* write whose sink fails, or a read that fails, loses what was in the buffer.
DeliveryInvariant ==
  /\ capacity \in Nat
  /\ Len(output) <= emitted /\ output = Bytes(emitted - Len(output), emitted)
  /\ received = Bytes(0, Len(received))
  /\ Len(received) + Len(later) + Held <= emitted
  /\ sink_ok => later = <<>>
  /\ sink_ok /\ (front = "Decompressor" => decoder # "failed") =>
       Len(received) + Held = emitted

IoTypes ==
  /\ TypeOK
  /\ stream \in [length : StreamLengths, supplied : SourceLengths,
                 output : OutputLengths, corrupt : BOOLEAN]
  /\ given \in Nat /\ taken \in Nat /\ produced \in Nat /\ emitted \in Nat
  /\ input_len \in Nat /\ input_offset \in Nat /\ written \in Nat
  /\ output \in Seq(Nat) /\ received \in Seq(Nat) /\ later \in Seq(Nat)

IoInvariant ==
  /\ IoTypes /\ Operations /\ DecoderInvariant /\ SourceInvariant /\ DeliveryInvariant
  /\ InputInOrder /\ InvalidIsHonest /\ EndIsHonest /\ PanicsOnlyWhenTold
-----------------------------------------------------------------------------
(* Runs of bytes *)

LEMMA BytesAre ==
  ASSUME NEW a \in Nat, NEW b \in Nat, a <= b
  PROVE  /\ Bytes(a, b) \in Seq(Nat) /\ Len(Bytes(a, b)) = b - a
         /\ \A k \in 1 .. b - a : Bytes(a, b)[k] = a + k - 1
         /\ a = b <=> Bytes(a, b) = <<>>
  <1>1. b - a \in Nat
    OBVIOUS
  <1>2. Bytes(a, b) \in [1 .. b - a -> Nat]
    BY DEF Bytes
  <1>3. Bytes(a, b) \in Seq(Nat) /\ Len(Bytes(a, b)) = b - a
    BY <1>1, <1>2
  <1>4. QED
    BY <1>3 DEF Bytes

LEMMA NoBytes ==
  ASSUME NEW a \in Nat
  PROVE  Bytes(a, a) = <<>>
  BY BytesAre

LEMMA BytesJoin ==
  ASSUME NEW a \in Nat, NEW b \in Nat, NEW c \in Nat, a <= b, b <= c
  PROVE  Bytes(a, b) \o Bytes(b, c) = Bytes(a, c)
  <1>1. Bytes(a, b) \in Seq(Nat) /\ Len(Bytes(a, b)) = b - a
    BY BytesAre
  <1>2. Bytes(b, c) \in Seq(Nat) /\ Len(Bytes(b, c)) = c - b
    BY BytesAre
  <1>3. Bytes(a, c) \in Seq(Nat) /\ Len(Bytes(a, c)) = c - a
    <2>1. a <= c
      OBVIOUS
    <2>2. QED
      BY <2>1, BytesAre
  <1> DEFINE s == Bytes(a, b) \o Bytes(b, c)
  <1>4. /\ s \in Seq(Nat) /\ Len(s) = Len(Bytes(a, b)) + Len(Bytes(b, c))
        /\ \A k \in 1 .. Len(Bytes(a, b)) + Len(Bytes(b, c)) :
             s[k] = IF k <= Len(Bytes(a, b)) THEN Bytes(a, b)[k]
                    ELSE Bytes(b, c)[k - Len(Bytes(a, b))]
    BY <1>1, <1>2, ConcatProperties
  <1> HIDE DEF s
  <1>5. \A k \in 1 .. Len(s) : s[k] = Bytes(a, c)[k]
    <2>0. Len(s) = c - a
      BY <1>1, <1>2, <1>4
    <2> SUFFICES ASSUME NEW k \in 1 .. c - a
                 PROVE  s[k] = Bytes(a, c)[k]
      BY <2>0
    <2>1. Bytes(a, c)[k] = a + k - 1
      BY DEF Bytes
    <2>2. CASE k <= b - a
      <3>1. Bytes(a, b)[k] = a + k - 1
        BY <2>2 DEF Bytes
      <3>2. QED
        BY <1>1, <1>2, <1>4, <2>1, <2>2, <3>1
    <2>3. CASE k > b - a
      <3>1. k - (b - a) \in 1 .. c - b
        BY <2>3
      <3>2. Bytes(b, c)[k - (b - a)] = b + (k - (b - a)) - 1
        BY <3>1 DEF Bytes
      <3>3. QED
        BY <1>1, <1>2, <1>4, <2>1, <2>3, <3>1, <3>2
    <2>4. QED
      BY <2>2, <2>3
  <1>6. Len(s) = Len(Bytes(a, c))
    BY <1>1, <1>2, <1>3, <1>4
  <1>7. s = Bytes(a, c)
    BY <1>3, <1>4, <1>5, <1>6, SeqEqual
  <1>8. QED
    BY <1>7 DEF s

LEMMA BytesPart ==
  ASSUME NEW a \in Nat, NEW b \in Nat, a <= b, NEW i \in Nat, NEW j \in Nat,
         i <= j, j <= b - a
  PROVE  SubSeq(Bytes(a, b), i + 1, j) = Bytes(a + i, a + j)
  <1>1. Bytes(a, b) \in Seq(Nat) /\ Len(Bytes(a, b)) = b - a
    BY BytesAre
  <1>2. Bytes(a + i, a + j) \in Seq(Nat) /\ Len(Bytes(a + i, a + j)) = j - i
    <2>1. a + i \in Nat /\ a + j \in Nat /\ a + i <= a + j /\ (a + j) - (a + i) = j - i
      OBVIOUS
    <2>2. QED
      BY <2>1, BytesAre
  <1> DEFINE s == SubSeq(Bytes(a, b), i + 1, j)
  <1>3. \A k \in i + 1 .. j : Bytes(a, b)[k] \in Nat /\ Bytes(a, b)[k] = a + k - 1
    BY DEF Bytes
  <1>4. s \in Seq(Nat) /\ Len(s) = j - i
    BY <1>1
  <1>5. \A k \in 1 .. Len(s) : s[k] = Bytes(a + i, a + j)[k]
    <2> SUFFICES ASSUME NEW k \in 1 .. j - i
                 PROVE  s[k] = Bytes(a + i, a + j)[k]
      BY <1>4
    <2>1. s[k] = Bytes(a, b)[i + k] /\ i + k \in i + 1 .. j
      BY <1>1
    <2>2. Bytes(a + i, a + j)[k] = a + i + k - 1
      BY DEF Bytes
    <2>3. QED
      BY <1>3, <2>1, <2>2
  <1> HIDE DEF s
  <1>6. s = Bytes(a + i, a + j)
    BY <1>2, <1>4, <1>5, SeqEqual
  <1>7. QED
    BY <1>6 DEF s
-----------------------------------------------------------------------------
(* The steps *)

\* The sizes of a behaviour are those the constants allow.
LEMMA SizesAre ==
  ASSUME IoTypes
  PROVE  /\ stream.length \in Nat \ {0} /\ stream.supplied \in Nat /\ stream.output \in Nat
         /\ stream.corrupt \in BOOLEAN /\ buffer_size \in Nat \ {0}
  <1>1. stream \in [length : StreamLengths, supplied : SourceLengths,
                    output : OutputLengths, corrupt : BOOLEAN] /\ buffer_size \in BufferSizes
    BY DEF IoTypes, TypeOK
  <1>2. QED
    BY <1>1, SizesAssumption

\* What a call of the decoder adds to the output buffer are the next bytes, and what it
\* takes are the bytes it was given.
LEMMA DecodingAdvances ==
  ASSUME IoTypes, Operations, DeliveryInvariant, BrotliDecompressStream,
         stream.length \in Nat, stream.output \in Nat
  PROVE  /\ output' \in Seq(Nat) /\ Len(output') <= capacity
         /\ emitted' \in Nat /\ emitted <= emitted' /\ emitted' <= produced'
         /\ produced' \in Nat /\ produced <= produced' /\ produced' <= stream.output
         /\ Len(output') - Len(output) = emitted' - emitted
         /\ output' = Bytes(emitted' - Len(output'), emitted')
         /\ taken' \in Nat /\ taken <= taken' /\ taken' <= stream.length
         /\ input_offset' \in Nat /\ input_offset <= input_offset' /\ input_offset' <= input_len
         /\ taken' - input_offset' = taken - input_offset
         /\ Held = Len(output)
  <1>1. /\ emitted \in Nat /\ produced \in Nat /\ taken \in Nat /\ input_len \in Nat
        /\ input_offset \in Nat /\ input_offset <= input_len
        /\ output \in Seq(Nat) /\ Len(output) <= capacity /\ capacity \in Nat
        /\ emitted <= produced /\ produced <= stream.output /\ taken <= stream.length
        /\ Len(output) \in Nat /\ Len(received) \in Nat
    BY DEF IoTypes, TypeOK, DeliveryInvariant
  <1>2. Held = Len(output)
    BY <1>1 DEF Held, Operations, BrotliDecompressStream
  <1>3. Len(output) <= emitted /\ output = Bytes(emitted - Len(output), emitted)
    BY DEF DeliveryInvariant
  <1>4. CASE decoder = "running"
    <2>1. PICK n \in 0 .. avail_in, more \in 0 .. stream.output - produced,
               put \in 0 .. avail_out : Advance(n, more, put)
      BY <1>4 DEF BrotliDecompressStream
    <2>2. n \in Nat /\ n <= input_len - input_offset /\ more \in Nat
          /\ more <= stream.output - produced /\ put \in Nat /\ put <= capacity - Len(output)
      BY <1>1 DEF avail_in, avail_out
    <2>3. /\ taken' = taken + n /\ taken' <= stream.length
          /\ produced' = produced + more
          /\ emitted' = emitted + put /\ emitted' <= produced'
          /\ input_offset' = input_offset + n
          /\ output' = output \o Bytes(emitted, emitted')
      BY <2>1 DEF Advance
    <2>4. emitted' \in Nat /\ emitted <= emitted'
      BY <1>1, <2>2, <2>3
    <2>5. Bytes(emitted, emitted') \in Seq(Nat) /\ Len(Bytes(emitted, emitted')) = put
      <3>1. Bytes(emitted, emitted') \in Seq(Nat)
            /\ Len(Bytes(emitted, emitted')) = emitted' - emitted
        BY <1>1, <2>4, BytesAre
      <3>2. QED
        BY <1>1, <2>2, <2>3, <3>1
    <2>6. output' \in Seq(Nat) /\ Len(output') = Len(output) + Len(Bytes(emitted, emitted'))
      BY <1>1, <2>3, <2>5, ConcatProperties
    <2>7. Len(output') = Len(output) + put
      BY <2>5, <2>6
    <2>8. output' = Bytes(emitted - Len(output), emitted')
      <3>1. emitted - Len(output) \in Nat /\ emitted - Len(output) <= emitted
        BY <1>1, <1>3
      <3>2. Bytes(emitted - Len(output), emitted) \o Bytes(emitted, emitted')
              = Bytes(emitted - Len(output), emitted')
        BY <1>1, <2>4, <3>1, BytesJoin
      <3>3. QED
        BY <1>3, <2>3, <3>2
    <2>9. emitted' - Len(output') = emitted - Len(output)
      <3>1. /\ emitted' = emitted + put /\ emitted \in Nat /\ put \in Nat
            /\ Len(output) \in Nat
        BY <1>1, <2>2, <2>3
      <3>2. QED
        BY <2>7, <3>1
    <2>10. output' = Bytes(emitted' - Len(output'), emitted')
      BY <2>8, <2>9
    <2>11. /\ emitted <= emitted' /\ Len(output') - Len(output) = emitted' - emitted
           /\ Len(output') <= capacity
      <3>1. /\ emitted' = emitted + put /\ emitted \in Nat /\ put \in Nat
            /\ Len(output) \in Nat /\ capacity \in Nat /\ put <= capacity - Len(output)
        BY <1>1, <2>2, <2>3
      <3>2. QED
        BY <2>7, <3>1
    <2>12. /\ produced' \in Nat /\ produced <= produced' /\ produced' <= stream.output
      <3>1. /\ produced' = produced + more /\ produced \in Nat /\ more \in Nat
            /\ more <= stream.output - produced /\ stream.output \in Nat
        BY <1>1, <2>2, <2>3
      <3>2. QED
        BY <3>1
    <2>13. /\ taken' \in Nat /\ taken <= taken' /\ taken' - input_offset' = taken - input_offset
           /\ input_offset' \in Nat /\ input_offset <= input_offset' /\ input_offset' <= input_len
      <3>1. /\ taken' = taken + n /\ taken \in Nat /\ n \in Nat /\ input_len \in Nat
            /\ input_offset \in Nat /\ n <= input_len - input_offset
            /\ input_offset' = input_offset + n
        BY <1>1, <2>2, <2>3
      <3>2. QED
        BY <3>1
    <2>14. QED
      BY <1>2, <2>3, <2>4, <2>6, <2>10, <2>11, <2>12, <2>13
  <1>5. CASE decoder # "running"
    <2>1. UNCHANGED <<taken, produced, emitted, decoder, input_offset, output>>
      BY <1>5 DEF BrotliDecompressStream
    <2>2. QED
      BY <1>1, <1>2, <1>3, <2>1
  <1>6. QED
    BY <1>4, <1>5

\* Moving the input to the front of its buffer loses none of it, and makes room.
LEMMA CopyingKeepsInput ==
  ASSUME IoTypes, SourceInvariant, front = "Decompressor", copy_to_front
  PROVE  /\ input_offset' \in Nat /\ input_len' \in Nat /\ input_offset' <= input_len'
         /\ avail_in' = avail_in /\ input_len' <= buffer_size
         /\ DOMAIN input_buffer' = 0 .. buffer_size - 1
         /\ \A i \in input_offset' .. input_len' - 1 :
              /\ i + input_offset - input_offset' \in input_offset .. input_len - 1
              /\ input_buffer'[i] = input_buffer[i + input_offset - input_offset']
         /\ input_offset = input_len => input_offset' = input_len' /\ input_len' < buffer_size
  <1>1. /\ input_offset \in Nat /\ input_len \in Nat /\ input_offset <= input_len
        /\ buffer_size \in Nat \ {0} /\ input_len <= buffer_size
        /\ DOMAIN input_buffer = 0 .. buffer_size - 1
    <2>1. buffer_size \in Nat \ {0}
      BY SizesAre
    <2>2. QED
      BY <2>1 DEF IoTypes, TypeOK, SourceInvariant
  <1>2. CASE input_offset = buffer_size
    <2>1. input_offset' = 0 /\ input_len' = 0 /\ UNCHANGED input_buffer
      BY <1>2 DEF copy_to_front
    <2>2. QED
      BY <1>1, <1>2, <2>1 DEF avail_in
  <1>3. CASE /\ input_offset # buffer_size
             /\ input_offset + NearEnd > buffer_size /\ avail_in < input_offset
    <2>1. /\ input_offset' = 0 /\ input_len' = avail_in
          /\ input_buffer' = [i \in DOMAIN input_buffer |->
                                IF i < avail_in THEN input_buffer[input_offset + i]
                                ELSE input_buffer[i]]
      BY <1>3 DEF copy_to_front
    <2>2. avail_in \in Nat /\ avail_in < buffer_size /\ avail_in' = avail_in
      BY <1>1, <1>3, <2>1 DEF avail_in
    <2>3. DOMAIN input_buffer' = 0 .. buffer_size - 1
      BY <1>1, <2>1
    <2>4. ASSUME NEW i \in input_offset' .. input_len' - 1
          PROVE  /\ i + input_offset - input_offset' \in input_offset .. input_len - 1
                 /\ input_buffer'[i] = input_buffer[i + input_offset - input_offset']
      <3>1. i \in 0 .. avail_in - 1 /\ i \in 0 .. buffer_size - 1
        BY <1>1, <2>1, <2>2
      <3>2. i + input_offset - input_offset' = input_offset + i
        BY <1>1, <2>1, <3>1
      <3>3. input_buffer'[i] = input_buffer[input_offset + i]
        BY <1>1, <2>1, <2>2, <3>1
      <3>4. input_offset + i \in input_offset .. input_len - 1
        BY <1>1, <3>1 DEF avail_in
      <3>5. QED
        BY <3>2, <3>3, <3>4
    <2>5. QED
      BY <1>1, <2>1, <2>2, <2>3, <2>4 DEF avail_in
  <1>4. CASE /\ input_offset # buffer_size
             /\ ~(input_offset + NearEnd > buffer_size /\ avail_in < input_offset)
    <2>1. UNCHANGED inputs
      BY <1>4 DEF copy_to_front
    <2>2. UNCHANGED <<input_buffer, input_offset, input_len>>
      BY <2>1 DEF inputs
    <2>3. QED
      BY <1>1, <1>4, <2>2 DEF avail_in
  <1>5. QED
    BY <1>2, <1>3, <1>4

\* A read that returns the bytes in its buffer returns the next ones, and all there are.
LEMMA ReadHandsOver ==
  ASSUME IoTypes, Operations, DecoderInvariant, DeliveryInvariant, ReadResult, ReturnOutput
  PROVE  /\ output = Bytes(Len(received), emitted) /\ Len(received) + Len(output) = emitted
         /\ received' = Bytes(0, emitted) /\ received' \in Seq(Nat) /\ Len(received') = emitted
  <1>1. /\ emitted \in Nat /\ output \in Seq(Nat) /\ received \in Seq(Nat)
        /\ Len(output) \in Nat /\ Len(received) \in Nat
    BY DEF IoTypes
  <1>2. front = "Decompressor" /\ op = "read" /\ phase = "result" /\ sink_ok /\ written = 0
    BY DEF ReadResult, Operations
  <1>3. decoder # "failed"
    <2>1. result # Failure
      BY <1>2 DEF ReadResult, ReturnOutput, Return, ReturnInvalid, Ok, Err, MoreInput, MoreOutput,
                  Success, Failure
    <2>2. QED
      BY <1>2, <2>1 DEF DecoderInvariant, IoTypes, TypeOK, MoreInput, MoreOutput, Success, Failure
  <1>4. Len(received) + Len(output) = emitted
    BY <1>1, <1>2, <1>3 DEF DeliveryInvariant, Held
  <1>5. output = Bytes(Len(received), emitted)
    <2>1. emitted - Len(output) = Len(received)
      BY <1>1, <1>4
    <2>2. QED
      BY <2>1 DEF DeliveryInvariant
  <1>6. received' = Bytes(0, emitted)
    <2>1. received' = Bytes(0, Len(received)) \o Bytes(Len(received), emitted)
      BY <1>5 DEF ReturnOutput, DeliveryInvariant
    <2>2. 0 <= Len(received) /\ Len(received) <= emitted
      BY <1>1, <1>4
    <2>3. QED
      BY <1>1, <2>1, <2>2, BytesJoin
  <1>7. Bytes(0, emitted) \in Seq(Nat) /\ Len(Bytes(0, emitted)) = emitted - 0
    <2>1. 0 <= emitted
      BY <1>1
    <2>2. QED
      BY <1>1, <2>1, BytesAre
  <1>8. QED
    BY <1>1, <1>4, <1>5, <1>6, <1>7

\* What a sink accepts are the next bytes.
LEMMA SinkIsGiven ==
  ASSUME IoTypes, Operations, DeliveryInvariant, SinkAccepts, sink_ok
  PROVE  /\ written' - written \in 1 .. Len(output) - written
         /\ Len(received) + (Len(output) - written) = emitted
         /\ received' = received \o Bytes(Len(received), Len(received) + (written' - written))
         /\ received' = Bytes(0, Len(received) + (written' - written))
         /\ received' \in Seq(Nat)
         /\ Len(received') = Len(received) + (written' - written)
  <1>1. /\ emitted \in Nat /\ output \in Seq(Nat) /\ received \in Seq(Nat)
        /\ Len(output) \in Nat /\ Len(received) \in Nat /\ written \in Nat
        /\ written <= Len(output)
    BY DEF IoTypes, TypeOK
  <1>2. front # "Decompressor" /\ sink_ok
    BY DEF SinkAccepts, Operations
  <1>3. Len(received) + (Len(output) - written) = emitted
    BY <1>1, <1>2 DEF DeliveryInvariant, Held
  <1>4. PICK n \in 1 .. Len(output) - written :
             /\ received' = received \o SubSeq(output, written + 1, written + n)
             /\ written' = written + n
    BY DEF SinkAccepts
  <1>5. n \in Nat /\ 1 <= n /\ n <= Len(output) - written /\ written' - written = n
    BY <1>1, <1>4
  <1>6. SubSeq(output, written + 1, written + n) = Bytes(Len(received), Len(received) + n)
    <2>1. emitted - Len(output) \in Nat /\ emitted - Len(output) <= emitted
      <3>1. Len(output) <= emitted
        BY DEF DeliveryInvariant
      <3>2. QED
        BY <1>1, <3>1
    <2>2. /\ written + n \in Nat /\ written <= written + n
          /\ written + n <= emitted - (emitted - Len(output))
      BY <1>1, <1>5
    <2>3. SubSeq(Bytes(emitted - Len(output), emitted), written + 1, written + n)
            = Bytes((emitted - Len(output)) + written, (emitted - Len(output)) + (written + n))
      <3>1. emitted \in Nat /\ written \in Nat
        BY <1>1
      <3>2. QED
        BY <2>1, <2>2, <3>1, BytesPart
    <2>4. /\ (emitted - Len(output)) + written = Len(received)
          /\ (emitted - Len(output)) + (written + n) = Len(received) + n
      <3>1. Len(received) \in Nat /\ Len(output) \in Nat /\ written \in Nat /\ n \in Nat
        BY <1>1, <1>5
      <3>2. QED
        BY <1>3, <3>1
    <2>5. output = Bytes(emitted - Len(output), emitted)
      BY DEF DeliveryInvariant
    <2>6. QED
      BY <2>3, <2>4, <2>5
  <1>7. received' = received \o Bytes(Len(received), Len(received) + n)
    BY <1>4, <1>6
  <1>8. Len(received) + n \in Nat /\ 0 <= Len(received) /\ Len(received) <= Len(received) + n
    BY <1>1, <1>5
  <1>9. received' = Bytes(0, Len(received) + n)
    <2>1. Bytes(0, Len(received)) \o Bytes(Len(received), Len(received) + n)
            = Bytes(0, Len(received) + n)
      BY <1>1, <1>8, BytesJoin
    <2>2. received = Bytes(0, Len(received))
      BY DEF DeliveryInvariant
    <2>3. QED
      BY <1>7, <2>1, <2>2
  <1>10. /\ Bytes(0, Len(received) + n) \in Seq(Nat)
         /\ Len(Bytes(0, Len(received) + n)) = (Len(received) + n) - 0
    <2>1. 0 <= Len(received) + n
      BY <1>8
    <2>2. QED
      BY <1>8, <2>1, BytesAre
  <1>11. Len(received') = Len(received) + n /\ received' \in Seq(Nat)
    BY <1>8, <1>9, <1>10
  <1>12. QED
    BY <1>3, <1>5, <1>7, <1>9, <1>11

\* A sink that has failed before is given bytes too, which are counted apart.
LEMMA SinkTakes ==
  ASSUME IoTypes, Operations, DeliveryInvariant, SinkAccepts
  PROVE  /\ written' - written \in 1 .. Len(output) - written /\ written' \in 0 .. Len(output)
         /\ received' \in Seq(Nat) /\ later' \in Seq(Nat)
         /\ received' = Bytes(0, Len(received'))
         /\ sink_ok => later' = <<>>
         /\ Len(received') + Len(later')
              = Len(received) + Len(later) + (written' - written)
  <1>1. /\ received \in Seq(Nat) /\ later \in Seq(Nat) /\ Len(received) \in Nat
        /\ Len(later) \in Nat /\ Len(output) \in Nat /\ written \in Nat
        /\ output \in Seq(Nat) /\ written <= Len(output)
    BY DEF IoTypes, TypeOK
  <1>2. PICK n \in 1 .. Len(output) - written :
             /\ written' = written + n
             /\ \/ /\ sink_ok /\ UNCHANGED later
                \/ /\ ~sink_ok /\ UNCHANGED received
                   /\ later' = later \o SubSeq(output, written + 1, written + n)
    BY DEF SinkAccepts
  <1>3. /\ n \in Nat /\ 1 <= n /\ n <= Len(output) - written /\ written' - written = n
        /\ written' \in 0 .. Len(output)
    BY <1>1, <1>2
  <1>4. CASE sink_ok
    <2>1. /\ received' = Bytes(0, Len(received) + n) /\ received' \in Seq(Nat)
          /\ Len(received') = Len(received) + n
      BY <1>3, <1>4, SinkIsGiven
    <2>2. later = <<>> /\ later' = later /\ Len(later') = Len(later)
      BY <1>2, <1>4 DEF DeliveryInvariant
    <2>3. received' = Bytes(0, Len(received')) /\ later' \in Seq(Nat) /\ later' = <<>>
      BY <1>1, <2>1, <2>2
    <2>4. Len(received') + Len(later') = Len(received) + Len(later) + n
      BY <1>1, <1>3, <2>1, <2>2
    <2>5. QED
      BY <1>3, <2>1, <2>3, <2>4
  <1>5. CASE ~sink_ok
    <2>1. /\ SubSeq(output, written + 1, written + n) \in Seq(Nat)
          /\ Len(SubSeq(output, written + 1, written + n)) = n
      <3>1. /\ written + 1 \in Int /\ written + n \in Int /\ written + 1 <= written + n
            /\ (written + n) - (written + 1) + 1 = n
            /\ \A i \in written + 1 .. written + n : i \in 1 .. Len(output)
        BY <1>1, <1>3
      <3>2. \A i \in 1 .. Len(output) : output[i] \in Nat
        BY <1>1, ElementOfSeq
      <3>3. \A i \in written + 1 .. written + n : output[i] \in Nat
        BY <3>1, <3>2
      <3>4. QED
        BY <3>1, <3>3, SubSeqProperties
    <2>2. later' \in Seq(Nat) /\ Len(later') = Len(later) + n
      <3>1. PICK t \in Seq(Nat) : t = SubSeq(output, written + 1, written + n) /\ Len(t) = n
        BY <2>1
      <3>2. later' = later \o t
        BY <1>2, <1>5, <3>1
      <3>3. QED
        BY <1>1, <3>1, <3>2, ConcatProperties
    <2>3. received' = received
      BY <1>2, <1>5
    <2>4. received = Bytes(0, Len(received))
      BY DEF DeliveryInvariant
    <2>5. Len(received') + Len(later') = Len(received) + Len(later) + n
      BY <1>1, <1>3, <2>2, <2>3
    <2>6. QED
      BY <1>1, <1>3, <1>5, <2>2, <2>3, <2>4, <2>5
  <1>6. QED
    BY <1>4, <1>5

\* A call of the decoder (decode.rs:2644).
LEMMA DecodingKeeps ==
  ASSUME IoInvariant, BrotliDecompressStream
  PROVE  IoInvariant'
  <1>1. /\ IoTypes /\ Operations /\ DecoderInvariant /\ SourceInvariant /\ DeliveryInvariant
        /\ InputInOrder /\ InvalidIsHonest /\ EndIsHonest /\ PanicsOnlyWhenTold
    BY DEF IoInvariant
  <1>2. /\ stream.length \in Nat \ {0} /\ stream.supplied \in Nat /\ stream.output \in Nat
        /\ stream.corrupt \in BOOLEAN /\ buffer_size \in Nat \ {0}
    BY <1>1, SizesAre
  <1>3. IoTypes'
    <2>1. /\ output' \in Seq(Nat) /\ Len(output') <= capacity
          /\ emitted' \in Nat /\ emitted <= emitted' /\ emitted' <= produced'
          /\ produced' \in Nat /\ produced <= produced' /\ produced' <= stream.output
          /\ Len(output') - Len(output) = emitted' - emitted
          /\ output' = Bytes(emitted' - Len(output'), emitted')
          /\ taken' \in Nat /\ taken <= taken' /\ taken' <= stream.length
          /\ input_offset' \in Nat /\ input_offset <= input_offset' /\ input_offset' <= input_len
          /\ taken' - input_offset' = taken - input_offset
          /\ Held = Len(output)
      BY <1>1, <1>2, DecodingAdvances
    <2>2. UNCHANGED <<setup, given, input_buffer, input_len, capacity, sink_ok, received, later, op,
                    ret, error_if_invalid_data>>
      BY DEF BrotliDecompressStream, Goto
    <2>3. /\ decoder' \in {"running", "done", "failed"} /\ phase' = "result" /\ written' = 0
          /\ result' \in {MoreInput, MoreOutput, Success, Failure}
      BY DEF BrotliDecompressStream, Goto, AsksForInput, AsksForOutput, Succeeds, Fails
    <2>4. /\ Len(received) + Len(later) \in Nat /\ Len(received) + Len(later) <= emitted
          /\ emitted \in Nat /\ capacity \in Nat
          /\ input_offset \in Nat /\ input_len \in Nat /\ taken \in Nat
      BY <1>1 DEF IoTypes, TypeOK, DeliveryInvariant
    <2>5. /\ Len(received) + Len(later) <= emitted' /\ taken' \in 0 .. stream.length /\ input_offset' \in Nat
          /\ input_offset' \in 0 .. input_len /\ Len(output') \in Nat /\ 0 \in 0 .. Len(output')
      <3>1. /\ emitted <= emitted' /\ emitted' \in Nat /\ input_offset' \in Nat
            /\ input_offset' <= input_len /\ taken' \in Nat /\ taken' <= stream.length
        BY <2>1
      <3>2. Len(received) + Len(later) <= emitted'
        BY <2>4, <3>1
      <3>3. taken' \in 0 .. stream.length
        BY <1>2, <3>1
      <3>4. input_offset' \in 0 .. input_len
        BY <2>4, <3>1
      <3>5. Len(output') \in Nat
        BY <2>1
      <3>6. QED
        BY <3>1, <3>2, <3>3, <3>4, <3>5
    <2>6. QED
      BY <1>1, <1>2, <2>1, <2>2, <2>3, <2>5 DEF IoTypes, TypeOK, setup, decoding,
          inputs, outputs
  <1>4. Operations'
    BY <1>1, <1>2 DEF BrotliDecompressStream, Goto, Advance, AsksForInput,
        AsksForOutput, Succeeds, Fails, avail_in, avail_out, Operations, IoTypes,
        TypeOK, setup, decoding, inputs, outputs, MoreInput, MoreOutput, Success,
        Failure
  <1>5. DecoderInvariant'
    <2>1. decoder' = "failed" => stream.corrupt \/ (~sink_ok /\ taken' < given)
      <3>1. CASE decoder = "failed"
        BY <1>1, <3>1 DEF BrotliDecompressStream, DecoderInvariant
      <3>2. CASE decoder # "failed" /\ ~stream.corrupt /\ decoder' = "failed"
        <4>1. /\ decoder = "running" /\ Skipped
              /\ \E n \in 0 .. avail_in : taken' = taken + n
          BY <3>2 DEF BrotliDecompressStream, Advance, AsksForInput, AsksForOutput, Succeeds, Fails
        <4>2. /\ input_len \in Nat /\ input_offset \in Nat /\ taken \in Nat /\ given \in Nat
              /\ input_offset <= input_len
          BY <1>1 DEF IoTypes, TypeOK
        <4>3. taken' < given /\ given # taken + avail_in
          BY <4>1, <4>2 DEF Skipped, avail_in
        <4>4. ~sink_ok
          BY <1>1, <4>1, <4>3 DEF InputInOrder
        <4>5. QED
          BY <4>3, <4>4
      <3>3. QED
        BY <3>1, <3>2
    <2>2. UNCHANGED <<stream, given, sink_ok>>
      BY DEF BrotliDecompressStream, setup
    <2>3. /\ decoder' = "done" =>
               /\ ~stream.corrupt /\ taken' = stream.length
               /\ produced' = stream.output /\ emitted' = stream.output
          /\ phase' = "result" =>
               /\ result' = MoreInput =>
                    decoder' = "running" /\ input_offset' = input_len /\ taken' < stream.length
               /\ result' = MoreOutput => decoder' = "running" /\ Len(output') = capacity
               /\ result' = Success => decoder' = "done"
               /\ result' = Failure => decoder' = "failed"
      BY <1>1, <1>2 DEF BrotliDecompressStream, Advance, AsksForInput, AsksForOutput, Succeeds,
          Fails, DecoderInvariant, MoreInput, MoreOutput, Success, Failure
    <2>4. UNCHANGED <<input_len, capacity>> /\ phase' = "result"
      BY DEF BrotliDecompressStream, Goto
    <2>5. QED
      BY <2>1, <2>2, <2>3, <2>4 DEF DecoderInvariant
  <1>6. SourceInvariant'
    BY <1>1, <1>2 DEF BrotliDecompressStream, Goto, Advance, AsksForInput,
        AsksForOutput, Succeeds, Fails, avail_in, avail_out, SourceInvariant,
        DecoderInvariant, Operations, IoTypes, TypeOK, InputInOrder, setup, decoding,
        inputs, outputs, MoreInput, MoreOutput, Success, Failure
  <1>7. DeliveryInvariant'
    <2>1. /\ output' \in Seq(Nat) /\ Len(output') <= capacity
          /\ emitted' \in Nat /\ emitted <= emitted' /\ emitted' <= produced'
          /\ produced' \in Nat /\ produced <= produced' /\ produced' <= stream.output
          /\ Len(output') - Len(output) = emitted' - emitted
          /\ output' = Bytes(emitted' - Len(output'), emitted')
          /\ taken' \in Nat /\ taken <= taken' /\ taken' <= stream.length
          /\ input_offset' \in Nat /\ input_offset <= input_offset' /\ input_offset' <= input_len
          /\ taken' - input_offset' = taken - input_offset
          /\ Held = Len(output)
      BY <1>1, <1>2, DecodingAdvances
    <2>2. UNCHANGED <<capacity, received, later, sink_ok, front, op>> /\ written' = 0 /\ op # "none"
      BY <1>1 DEF BrotliDecompressStream, Goto, Operations, setup, decoding, inputs,
          outputs
    <2>3. decoder = "failed" => decoder' = "failed"
      BY DEF BrotliDecompressStream
    <2>4. /\ Len(output) \in Nat /\ Len(output') \in Nat /\ emitted \in Nat /\ Len(received) \in Nat
          /\ Len(later) \in Nat
      BY <1>1, <2>1 DEF IoTypes
    <2>5. Held' = Len(output')
      BY <2>2, <2>4 DEF Held
    <2>6. Len(received) + Len(later) + Len(output') <= emitted'
      <3>1. PICK l \in Nat, e \in Nat : l = Len(output') /\ e = emitted'
        BY <2>1, <2>4
      <3>2. l - Len(output) = e - emitted
        BY <2>1, <3>1
      <3>3. Len(received) + Len(later) + Len(output) <= emitted
        BY <1>1, <2>1 DEF DeliveryInvariant
      <3>4. Len(received) + Len(later) + l <= e
        <4>1. /\ Len(output) \in Nat /\ emitted \in Nat /\ Len(received) \in Nat
              /\ Len(later) \in Nat
          BY <2>4
        <4>2. QED
          BY <3>2, <3>3, <4>1
      <3>5. QED
        BY <3>1, <3>4
    <2>7. Len(output') <= emitted'
      BY <2>1, <2>4, <2>6
    <2>8. sink_ok /\ (front = "Decompressor" => decoder' # "failed") =>
            Len(received) + Len(output') = emitted'
      <3>1. sink_ok /\ (front = "Decompressor" => decoder' # "failed") =>
              Len(received) + Len(output) = emitted
        BY <1>1, <2>1, <2>3 DEF DeliveryInvariant
      <3>2. Len(output') - Len(output) = emitted' - emitted /\ emitted' \in Nat
        BY <2>1
      <3>3. QED
        BY <2>4, <3>1, <3>2
    <2>9. QED
      BY <1>1, <2>1, <2>2, <2>5, <2>6, <2>7, <2>8 DEF DeliveryInvariant
  <1>8. InputInOrder'
    <2>1. /\ output' \in Seq(Nat) /\ Len(output') <= capacity
          /\ emitted' \in Nat /\ emitted <= emitted' /\ emitted' <= produced'
          /\ produced' \in Nat /\ produced <= produced' /\ produced' <= stream.output
          /\ Len(output') - Len(output) = emitted' - emitted
          /\ output' = Bytes(emitted' - Len(output'), emitted')
          /\ taken' \in Nat /\ taken <= taken' /\ taken' <= stream.length
          /\ input_offset' \in Nat /\ input_offset <= input_offset' /\ input_offset' <= input_len
          /\ taken' - input_offset' = taken - input_offset
          /\ Held = Len(output)
      BY <1>1, <1>2, DecodingAdvances
    <2>2. decoder' = "running" => decoder = "running"
      BY DEF BrotliDecompressStream, Succeeds, Fails
    <2>3. UNCHANGED <<front, sink_ok, given, input_buffer, input_len>>
      BY DEF BrotliDecompressStream, setup, decoding, inputs, outputs
    <2>4. /\ input_len \in Nat /\ input_offset \in Nat /\ taken \in Nat /\ given \in Nat
          /\ 0 .. input_len - 1 \subseteq DOMAIN input_buffer
      BY <1>1 DEF IoTypes, TypeOK
    <2>5. /\ input_len \in Nat /\ input_offset \in Nat /\ taken \in Nat /\ given \in Nat
          /\ taken' \in Nat /\ input_offset' \in Nat /\ input_offset <= input_offset'
          /\ taken' - input_offset' = taken - input_offset
      BY <2>1, <2>4
    <2>6. ASSUME front = "DecompressorWriter" => decoder' = "running" /\ sink_ok
          PROVE  /\ \A i \in input_offset' .. input_len - 1 :
                      input_buffer[i] = taken' + i - input_offset'
                 /\ given = taken' + (input_len - input_offset')
      <3>1. /\ \A i \in input_offset .. input_len - 1 : input_buffer[i] = taken + i - input_offset
            /\ given = taken + (input_len - input_offset)
        BY <1>1, <2>2, <2>6 DEF InputInOrder, avail_in
      <3>2. given = taken' + (input_len - input_offset')
        <4>1. given = taken + (input_len - input_offset)
          BY <3>1
        <4>2. PICK t \in Nat, o \in Nat : t = taken' /\ o = input_offset'
          BY <2>5
        <4>3. /\ t - o = taken - input_offset /\ taken \in Nat /\ input_offset \in Nat
              /\ input_len \in Nat
          BY <2>5, <4>2
        <4>4. given = t + (input_len - o)
          BY <4>1, <4>3
        <4>5. QED
          BY <4>2, <4>4
      <3>3. ASSUME NEW i \in input_offset' .. input_len - 1
            PROVE  input_buffer[i] = taken' + i - input_offset'
        <4>1. i \in input_offset .. input_len - 1 /\ i \in Nat
          BY <2>5
        <4>2. input_buffer[i] = taken + i - input_offset
          BY <3>1, <4>1
        <4>3. taken + i - input_offset = taken' + i - input_offset'
          <5>1. PICK t \in Nat, o \in Nat : t = taken' /\ o = input_offset'
            BY <2>5
          <5>2. t - o = taken - input_offset /\ taken \in Nat /\ input_offset \in Nat /\ i \in Nat
            BY <2>5, <4>1, <5>1
          <5>3. taken + i - input_offset = t + i - o
            BY <5>2
          <5>4. QED
            BY <5>1, <5>3
        <4>4. QED
          BY <4>2, <4>3
      <3>4. QED
        BY <3>2, <3>3
    <2>7. QED
      BY <2>3, <2>6 DEF InputInOrder, avail_in
  <1>9. InvalidIsHonest'
    BY <1>1, <1>2 DEF BrotliDecompressStream, Goto, Advance, AsksForInput,
        AsksForOutput, Succeeds, Fails, avail_in, avail_out, InvalidIsHonest, Returned,
        Ok, Err, SourceInvariant, DecoderInvariant, InputInOrder, Operations, IoTypes,
        TypeOK, setup, decoding, inputs, outputs, MoreInput, MoreOutput, Success,
        Failure
  <1>10. EndIsHonest'
    BY <1>1, <1>2 DEF BrotliDecompressStream, Goto, Advance, AsksForInput,
        AsksForOutput, Succeeds, Fails, avail_in, avail_out, EndIsHonest, Returned, Ok,
        Err, DecoderInvariant, DeliveryInvariant, Held, Operations, IoTypes, TypeOK,
        setup, decoding, inputs, outputs, MoreInput, MoreOutput, Success, Failure
  <1>11. PanicsOnlyWhenTold'
    BY <1>1, <1>2 DEF BrotliDecompressStream, Goto, Advance, AsksForInput,
        AsksForOutput, Succeeds, Fails, avail_in, avail_out, PanicsOnlyWhenTold,
        DecoderInvariant, Operations, setup, decoding, inputs, outputs, MoreInput,
        MoreOutput, Success, Failure
  <1>12. QED
    BY <1>3, <1>4, <1>5, <1>6, <1>7, <1>8, <1>9, <1>10, <1>11 DEF IoInvariant

\* The reader: the user calls, the decoder has answered, the source answers.
LEMMA ReadKeeps ==
  ASSUME IoInvariant, NEW n \in CallSizes, Read(n)
  PROVE  IoInvariant'
  <1>1. /\ IoTypes /\ Operations /\ DecoderInvariant /\ SourceInvariant /\ DeliveryInvariant
        /\ InputInOrder /\ InvalidIsHonest /\ EndIsHonest /\ PanicsOnlyWhenTold
    BY DEF IoInvariant
  <1>2. /\ stream.length \in Nat \ {0} /\ stream.supplied \in Nat /\ stream.output \in Nat
        /\ stream.corrupt \in BOOLEAN /\ buffer_size \in Nat \ {0}
    BY <1>1, SizesAre
  <1>3. IoTypes'
    <2>1. output' = <<>> /\ Len(output') = 0 /\ output' \in Seq(Nat)
      BY <1>1, EmptySeq DEF Read
    <2>2. capacity' \in Nat
      BY <1>1, <1>2, SizesAssumption DEF DeliveryInvariant, Read, setup, decoding,
          inputs, outputs
    <2>3. QED
      BY <1>1, <1>2, <2>1, <2>2, SizesAssumption DEF Read, IoTypes, TypeOK, Operations,
          Fronts, setup, decoding, inputs, outputs, MoreInput, MoreOutput, Success,
          Failure
  <1>4. Operations'
    BY <1>1, <1>2 DEF Read, Operations, IoTypes, TypeOK, setup, decoding, inputs,
        outputs, MoreInput, MoreOutput, Success, Failure
  <1>5. DecoderInvariant'
    BY <1>1, <1>2 DEF Read, DecoderInvariant, Operations, IoTypes, TypeOK, setup,
        decoding, inputs, outputs, MoreInput, MoreOutput, Success, Failure
  <1>6. SourceInvariant'
    BY <1>1, <1>2 DEF Read, SourceInvariant, DecoderInvariant, Operations, IoTypes,
        TypeOK, InputInOrder, avail_in, setup, decoding, inputs, outputs, MoreInput,
        MoreOutput, Success, Failure
  <1>7. DeliveryInvariant'
    <2>1. output' = <<>> /\ Len(output') = 0 /\ written' = 0
      BY EmptySeq DEF Read
    <2>2. UNCHANGED <<emitted, received, later, sink_ok, front, decoder>>
      BY DEF Read, setup, decoding, inputs, outputs
    <2>3. Len(received) \in Nat /\ emitted \in Nat /\ Bytes(emitted, emitted) = <<>>
      BY <1>1, NoBytes DEF IoTypes
    <2>4. Held' = 0
      BY <2>1 DEF Held
    <2>5. Held \in Nat /\ (sink_ok /\ (front = "Decompressor" => decoder # "failed") => Held = 0)
      BY <1>1, <1>2 DEF Read, Held, Operations, SourceInvariant, DecoderInvariant,
          IoTypes, TypeOK, setup, decoding, inputs, outputs
    <2>6. capacity' \in Nat
      BY <1>1, <1>2, SizesAssumption DEF DeliveryInvariant, Read, setup, decoding,
          inputs, outputs
    <2>7. QED
      BY <1>1, <2>1, <2>2, <2>3, <2>4, <2>5, <2>6 DEF DeliveryInvariant
  <1>8. InputInOrder'
    BY <1>1, <1>2 DEF Read, InputInOrder, avail_in, SourceInvariant, DecoderInvariant,
        Operations, IoTypes, TypeOK, setup, decoding, inputs, outputs, MoreInput,
        MoreOutput, Success, Failure
  <1>9. InvalidIsHonest'
    BY <1>1, <1>2 DEF Read, InvalidIsHonest, Returned, Ok, Err, SourceInvariant,
        DecoderInvariant, InputInOrder, avail_in, Operations, IoTypes, TypeOK, setup,
        decoding, inputs, outputs, MoreInput, MoreOutput, Success, Failure
  <1>10. EndIsHonest'
    BY <1>1, <1>2 DEF Read, EndIsHonest, Returned, Ok, Err, DecoderInvariant,
        DeliveryInvariant, Held, Operations, IoTypes, TypeOK, setup, decoding, inputs,
        outputs, MoreInput, MoreOutput, Success, Failure
  <1>11. PanicsOnlyWhenTold'
    BY <1>1, <1>2 DEF Read, PanicsOnlyWhenTold, DecoderInvariant, Operations, setup,
        decoding, inputs, outputs, MoreInput, MoreOutput, Success, Failure
  <1>12. QED
    BY <1>3, <1>4, <1>5, <1>6, <1>7, <1>8, <1>9, <1>10, <1>11 DEF IoInvariant

LEMMA ReadResultKeeps ==
  ASSUME IoInvariant, ReadResult
  PROVE  IoInvariant'
  <1>1. /\ IoTypes /\ Operations /\ DecoderInvariant /\ SourceInvariant /\ DeliveryInvariant
        /\ InputInOrder /\ InvalidIsHonest /\ EndIsHonest /\ PanicsOnlyWhenTold
    BY DEF IoInvariant
  <1>2. /\ stream.length \in Nat \ {0} /\ stream.supplied \in Nat /\ stream.output \in Nat
        /\ stream.corrupt \in BOOLEAN /\ buffer_size \in Nat \ {0}
    BY <1>1, SizesAre
  <1>3. IoTypes'
    <2>1. front = "Decompressor" /\ op = "read" /\ phase = "result" /\ sink_ok /\ written = 0
      BY <1>1 DEF ReadResult, Operations
    <2>2. (front = "Decompressor" /\ copy_to_front) =>
            /\ input_offset' \in Nat /\ input_len' \in Nat /\ input_offset' <= input_len'
            /\ avail_in' = avail_in /\ input_len' <= buffer_size
            /\ DOMAIN input_buffer' = 0 .. buffer_size - 1
            /\ input_offset = input_len =>
                 input_offset' = input_len' /\ input_len' < buffer_size
      BY <1>1, CopyingKeepsInput
    <2>3. ReturnOutput =>
            /\ Len(received) + Len(output) = emitted /\ received' = Bytes(0, emitted)
            /\ received' \in Seq(Nat) /\ Len(received') = emitted
      BY <1>1, ReadHandsOver
    <2>4. \/ (copy_to_front \/ UNCHANGED inputs) /\ ReturnOutput /\ decoder # "failed"
          \/ /\ copy_to_front /\ Goto("source") /\ UNCHANGED received
             /\ result = MoreInput /\ output = <<>>
          \/ ReturnInvalid("idle") /\ UNCHANGED <<inputs, received>> /\ decoder = "failed"
      BY <1>1, <2>1 DEF ReadResult, DecoderInvariant, MoreInput, MoreOutput, Success,
          Failure
    <2>5. UNCHANGED <<setup, given, decoding, outputs, sink_ok, later>>
      BY DEF ReadResult
    <2>6. /\ Len(received) <= emitted /\ emitted \in Nat /\ input_len \in Nat /\ input_offset \in Nat
          /\ received \in Seq(Nat) /\ later = <<>> /\ Len(later) = 0
      BY <1>1, <2>1, EmptySeq DEF IoTypes, TypeOK, DeliveryInvariant
    <2>7. /\ received' \in Seq(Nat) /\ Len(received') + Len(later') <= emitted'
          /\ later' \in Seq(Nat)
      BY <1>1, <2>3, <2>4, <2>5, <2>6 DEF decoding
    <2>8. /\ input_offset' \in Nat /\ input_len' \in Nat /\ input_offset' \in 0 .. input_len'
          /\ 0 .. input_len' - 1 \subseteq DOMAIN input_buffer'
      <3>1. CASE copy_to_front
        <4>1. /\ input_offset' \in Nat /\ input_len' \in Nat /\ input_offset' <= input_len'
              /\ input_len' <= buffer_size /\ DOMAIN input_buffer' = 0 .. buffer_size - 1
          BY <2>1, <2>2, <3>1
        <4>2. input_offset' \in 0 .. input_len'
          BY <4>1
        <4>3. 0 .. input_len' - 1 \subseteq 0 .. buffer_size - 1
          <5>1. PICK l \in Nat : l = input_len'
            BY <4>1
          <5>2. l <= buffer_size /\ buffer_size \in Nat
            BY <1>2, <4>1, <5>1
          <5>3. 0 .. l - 1 \subseteq 0 .. buffer_size - 1
            BY <5>2
          <5>4. QED
            BY <5>1, <5>3
        <4>4. QED
          BY <4>1, <4>2, <4>3
      <3>2. CASE UNCHANGED inputs
        BY <1>1, <3>2 DEF inputs, IoTypes, TypeOK
      <3>3. QED
        BY <2>4, <3>1, <3>2
    <2>9. /\ op' \in {"none", "read"} /\ error_if_invalid_data' \in BOOLEAN
          /\ phase' \in {"idle", "source", "panicked_unwrap"}
      BY <1>1, <2>1, <2>4 DEF Return, ReturnOutput, ReturnInvalid, Goto, Ok, Err,
          IoTypes, TypeOK
    <2>10. QED
      BY <1>1, <1>2, <2>5, <2>6, <2>7, <2>8, <2>9 DEF IoTypes, TypeOK, setup, decoding,
          inputs, outputs
  <1>4. Operations'
    BY <1>1, <1>2 DEF ReadResult, copy_to_front, ReturnOutput, Return, Goto,
        ReturnInvalid, avail_in, Ok, Err, Operations, IoTypes, TypeOK, setup, decoding,
        inputs, outputs, MoreInput, MoreOutput, Success, Failure
  <1>5. DecoderInvariant'
    BY <1>1, <1>2 DEF ReadResult, copy_to_front, ReturnOutput, Return, Goto,
        ReturnInvalid, avail_in, Ok, Err, DecoderInvariant, Operations, IoTypes, TypeOK,
        setup, decoding, inputs, outputs, MoreInput, MoreOutput, Success, Failure
  <1>6. SourceInvariant'
    <2>1. front = "Decompressor" /\ op = "read" /\ phase = "result" /\ sink_ok /\ written = 0
      BY <1>1 DEF ReadResult, Operations
    <2>2. (front = "Decompressor" /\ copy_to_front) =>
            /\ input_offset' \in Nat /\ input_len' \in Nat /\ input_offset' <= input_len'
            /\ avail_in' = avail_in /\ input_len' <= buffer_size
            /\ DOMAIN input_buffer' = 0 .. buffer_size - 1
            /\ input_offset = input_len =>
                 input_offset' = input_len' /\ input_len' < buffer_size
      BY <1>1, CopyingKeepsInput
    <2>3. ReturnOutput =>
            /\ Len(received) + Len(output) = emitted /\ received' = Bytes(0, emitted)
            /\ received' \in Seq(Nat) /\ Len(received') = emitted
      BY <1>1, ReadHandsOver
    <2>4. \/ (copy_to_front \/ UNCHANGED inputs) /\ ReturnOutput /\ decoder # "failed"
          \/ /\ copy_to_front /\ Goto("source") /\ UNCHANGED received
             /\ result = MoreInput /\ output = <<>>
          \/ ReturnInvalid("idle") /\ UNCHANGED <<inputs, received>> /\ decoder = "failed"
      BY <1>1, <2>1 DEF ReadResult, DecoderInvariant, MoreInput, MoreOutput, Success,
          Failure
    <2>5. UNCHANGED <<setup, given, decoding, outputs, sink_ok, later>>
      BY DEF ReadResult
    <2>6. QED
      BY <1>1, <1>2, <2>1, <2>2, <2>4, <2>5 DEF Return, ReturnOutput, ReturnInvalid,
          Goto, Ok, Err, SourceInvariant, DecoderInvariant, IoTypes, setup, decoding,
          inputs, outputs, MoreInput, MoreOutput, Success, Failure
  <1>7. DeliveryInvariant'
    <2>1. front = "Decompressor" /\ op = "read" /\ phase = "result" /\ sink_ok /\ written = 0
      BY <1>1 DEF ReadResult, Operations
    <2>2. (front = "Decompressor" /\ copy_to_front) =>
            /\ input_offset' \in Nat /\ input_len' \in Nat /\ input_offset' <= input_len'
            /\ avail_in' = avail_in /\ input_len' <= buffer_size
            /\ DOMAIN input_buffer' = 0 .. buffer_size - 1
            /\ input_offset = input_len =>
                 input_offset' = input_len' /\ input_len' < buffer_size
      BY <1>1, CopyingKeepsInput
    <2>3. ReturnOutput =>
            /\ Len(received) + Len(output) = emitted /\ received' = Bytes(0, emitted)
            /\ received' \in Seq(Nat) /\ Len(received') = emitted
      BY <1>1, ReadHandsOver
    <2>4. \/ (copy_to_front \/ UNCHANGED inputs) /\ ReturnOutput /\ decoder # "failed"
          \/ /\ copy_to_front /\ Goto("source") /\ UNCHANGED received
             /\ result = MoreInput /\ output = <<>>
          \/ ReturnInvalid("idle") /\ UNCHANGED <<inputs, received>> /\ decoder = "failed"
      BY <1>1, <2>1 DEF ReadResult, DecoderInvariant, MoreInput, MoreOutput, Success,
          Failure
    <2>5. UNCHANGED <<setup, given, decoding, outputs, sink_ok, later>>
      BY DEF ReadResult
    <2>6. /\ Len(received) \in Nat /\ Len(output) \in Nat /\ emitted \in Nat
          /\ later = <<>> /\ Len(later) = 0
      BY <1>1, <2>1, EmptySeq DEF IoTypes, DeliveryInvariant
    <2>7. CASE ReturnOutput /\ decoder # "failed"
      BY <1>1, <2>1, <2>3, <2>5, <2>6, <2>7 DEF DeliveryInvariant, Held, ReturnOutput,
          Return, setup, decoding, inputs, outputs
    <2>8. CASE UNCHANGED received /\ Goto("source")
      BY <1>1, <2>1, <2>5, <2>6, <2>8 DEF DeliveryInvariant, Held, Goto, setup,
          decoding, inputs, outputs
    <2>9. CASE UNCHANGED received /\ decoder = "failed"
      BY <1>1, <2>1, <2>5, <2>6, <2>9 DEF DeliveryInvariant, Held, setup, decoding,
          inputs, outputs
    <2>10. QED
      BY <2>4, <2>7, <2>8, <2>9
  <1>8. InputInOrder'
    <2>1. front = "Decompressor" /\ op = "read" /\ phase = "result" /\ sink_ok /\ written = 0
      BY <1>1 DEF ReadResult, Operations
    <2>2. UNCHANGED <<taken, given, decoder, sink_ok, front>>
      BY DEF ReadResult, setup, decoding, inputs, outputs
    <2>3. copy_to_front \/ UNCHANGED inputs
      BY DEF ReadResult
    <2>4. /\ input_len \in Nat /\ input_offset \in Nat /\ taken \in Nat /\ given \in Nat
      BY <1>1 DEF IoTypes, TypeOK
    <2>5. /\ \A i \in input_offset .. input_len - 1 : input_buffer[i] = taken + i - input_offset
          /\ given = taken + avail_in
      BY <1>1, <2>1 DEF InputInOrder
    <2>6. CASE UNCHANGED inputs
      BY <2>2, <2>5, <2>6 DEF InputInOrder, avail_in, inputs
    <2>7. CASE copy_to_front
      <3>1. /\ input_offset' \in Nat /\ input_len' \in Nat /\ avail_in' = avail_in
            /\ \A i \in input_offset' .. input_len' - 1 :
                 /\ i + input_offset - input_offset' \in input_offset .. input_len - 1
                 /\ input_buffer'[i] = input_buffer[i + input_offset - input_offset']
        BY <1>1, <2>1, <2>7, CopyingKeepsInput
      <3>2. given' = taken' + avail_in'
        BY <2>2, <2>5, <3>1
      <3>3. ASSUME NEW i \in input_offset' .. input_len' - 1
            PROVE  input_buffer'[i] = taken' + i - input_offset'
        <4>1. input_buffer'[i] = taken + (i + input_offset - input_offset') - input_offset
          BY <2>5, <3>1
        <4>2. QED
          BY <2>2, <2>4, <3>1, <4>1
      <3>4. QED
        BY <3>2, <3>3 DEF InputInOrder
    <2>8. QED
      BY <2>3, <2>6, <2>7
  <1>9. InvalidIsHonest'
    <2>1. front = "Decompressor" /\ op = "read" /\ phase = "result" /\ sink_ok /\ written = 0
      BY <1>1 DEF ReadResult, Operations
    <2>2. (front = "Decompressor" /\ copy_to_front) =>
            /\ input_offset' \in Nat /\ input_len' \in Nat /\ input_offset' <= input_len'
            /\ avail_in' = avail_in /\ input_len' <= buffer_size
            /\ DOMAIN input_buffer' = 0 .. buffer_size - 1
            /\ input_offset = input_len =>
                 input_offset' = input_len' /\ input_len' < buffer_size
      BY <1>1, CopyingKeepsInput
    <2>3. ReturnOutput =>
            /\ Len(received) + Len(output) = emitted /\ received' = Bytes(0, emitted)
            /\ received' \in Seq(Nat) /\ Len(received') = emitted
      BY <1>1, ReadHandsOver
    <2>4. \/ (copy_to_front \/ UNCHANGED inputs) /\ ReturnOutput /\ decoder # "failed"
          \/ /\ copy_to_front /\ Goto("source") /\ UNCHANGED received
             /\ result = MoreInput /\ output = <<>>
          \/ ReturnInvalid("idle") /\ UNCHANGED <<inputs, received>> /\ decoder = "failed"
      BY <1>1, <2>1 DEF ReadResult, DecoderInvariant, MoreInput, MoreOutput, Success,
          Failure
    <2>5. UNCHANGED <<setup, given, decoding, outputs, sink_ok, later>>
      BY DEF ReadResult
    <2>6. Returned(Err("invalid"))' => stream.corrupt
      BY <1>1, <2>1, <2>4 DEF Returned, DecoderInvariant, Return, ReturnOutput, ReturnInvalid,
          Goto, Ok, Err
    <2>7. QED
      BY <2>5, <2>6 DEF InvalidIsHonest, setup
  <1>10. EndIsHonest'
    BY <1>1, <1>2 DEF ReadResult, copy_to_front, ReturnOutput, Return, Goto,
        ReturnInvalid, avail_in, Ok, Err, EndIsHonest, Returned, DecoderInvariant,
        DeliveryInvariant, Held, Operations, IoTypes, TypeOK, setup, decoding, inputs,
        outputs, MoreInput, MoreOutput, Success, Failure
  <1>11. PanicsOnlyWhenTold'
    BY <1>1, <1>2 DEF ReadResult, copy_to_front, ReturnOutput, Return, Goto,
        ReturnInvalid, avail_in, Ok, Err, PanicsOnlyWhenTold, DecoderInvariant,
        Operations, setup, decoding, inputs, outputs, MoreInput, MoreOutput, Success,
        Failure
  <1>12. QED
    BY <1>3, <1>4, <1>5, <1>6, <1>7, <1>8, <1>9, <1>10, <1>11 DEF IoInvariant

LEMMA ReadMoreKeeps ==
  ASSUME IoInvariant, ReadMore
  PROVE  IoInvariant'
  <1>1. /\ IoTypes /\ Operations /\ DecoderInvariant /\ SourceInvariant /\ DeliveryInvariant
        /\ InputInOrder /\ InvalidIsHonest /\ EndIsHonest /\ PanicsOnlyWhenTold
    BY DEF IoInvariant
  <1>2. /\ stream.length \in Nat \ {0} /\ stream.supplied \in Nat /\ stream.output \in Nat
        /\ stream.corrupt \in BOOLEAN /\ buffer_size \in Nat \ {0}
    BY <1>1, SizesAre
  <1>3. IoTypes'
    BY <1>1, <1>2 DEF ReadMore, SourceGives, Goto, IoTypes, TypeOK, Operations,
        DecoderInvariant, SourceInvariant, Fronts, setup, decoding, inputs, outputs,
        MoreInput, MoreOutput, Success, Failure
  <1>4. Operations'
    BY <1>1, <1>2 DEF ReadMore, SourceGives, Goto, Operations, IoTypes, TypeOK, setup,
        decoding, inputs, outputs, MoreInput, MoreOutput, Success, Failure
  <1>5. DecoderInvariant'
    BY <1>1, <1>2 DEF ReadMore, SourceGives, Goto, DecoderInvariant, Operations,
        IoTypes, TypeOK, setup, decoding, inputs, outputs, MoreInput, MoreOutput,
        Success, Failure
  <1>6. SourceInvariant'
    BY <1>1, <1>2 DEF ReadMore, SourceGives, Goto, SourceInvariant, DecoderInvariant,
        Operations, IoTypes, TypeOK, InputInOrder, avail_in, setup, decoding, inputs,
        outputs, MoreInput, MoreOutput, Success, Failure
  <1>7. DeliveryInvariant'
    BY <1>1, <1>2 DEF ReadMore, SourceGives, Goto, DeliveryInvariant, Held, Operations,
        DecoderInvariant, IoTypes, TypeOK, setup, decoding, inputs, outputs, MoreInput,
        MoreOutput, Success, Failure
  <1>8. InputInOrder'
    BY <1>1, <1>2 DEF ReadMore, SourceGives, Goto, InputInOrder, avail_in,
        SourceInvariant, DecoderInvariant, Operations, IoTypes, TypeOK, setup, decoding,
        inputs, outputs, MoreInput, MoreOutput, Success, Failure
  <1>9. InvalidIsHonest'
    BY <1>1, <1>2 DEF ReadMore, SourceGives, Goto, InvalidIsHonest, Returned, Ok, Err,
        SourceInvariant, DecoderInvariant, InputInOrder, avail_in, Operations, IoTypes,
        TypeOK, setup, decoding, inputs, outputs, MoreInput, MoreOutput, Success,
        Failure
  <1>10. EndIsHonest'
    BY <1>1, <1>2 DEF ReadMore, SourceGives, Goto, EndIsHonest, Returned, Ok, Err,
        DecoderInvariant, DeliveryInvariant, Held, Operations, IoTypes, TypeOK, setup,
        decoding, inputs, outputs, MoreInput, MoreOutput, Success, Failure
  <1>11. PanicsOnlyWhenTold'
    BY <1>1, <1>2 DEF ReadMore, SourceGives, Goto, PanicsOnlyWhenTold, DecoderInvariant,
        Operations, setup, decoding, inputs, outputs, MoreInput, MoreOutput, Success,
        Failure
  <1>12. QED
    BY <1>3, <1>4, <1>5, <1>6, <1>7, <1>8, <1>9, <1>10, <1>11 DEF IoInvariant

LEMMA ReadEndsKeeps ==
  ASSUME IoInvariant, ReadEnds
  PROVE  IoInvariant'
  <1>1. /\ IoTypes /\ Operations /\ DecoderInvariant /\ SourceInvariant /\ DeliveryInvariant
        /\ InputInOrder /\ InvalidIsHonest /\ EndIsHonest /\ PanicsOnlyWhenTold
    BY DEF IoInvariant
  <1>2. /\ stream.length \in Nat \ {0} /\ stream.supplied \in Nat /\ stream.output \in Nat
        /\ stream.corrupt \in BOOLEAN /\ buffer_size \in Nat \ {0}
    BY <1>1, SizesAre
  <1>3. IoTypes'
    <2>1. /\ UNCHANGED <<front, buffer_size, stream, given, taken, produced, emitted, decoder>>
          /\ UNCHANGED <<result, input_buffer, input_offset, input_len, output, capacity>>
          /\ UNCHANGED <<written, sink_ok, received, later>>
      BY DEF ReadEnds, setup, decoding, inputs, outputs
    <2>2. /\ op' \in {"none", "read"} /\ phase' \in {"idle", "panicked_unwrap"}
          /\ error_if_invalid_data' \in BOOLEAN
      BY <1>1 DEF ReadEnds, SourceEnds, ReturnInvalid, IoTypes, TypeOK
    <2>3. QED
      BY <1>1, <2>1, <2>2 DEF IoTypes, TypeOK
  <1>4. Operations'
    BY <1>1, <1>2 DEF ReadEnds, SourceEnds, ReturnInvalid, Err, Operations, IoTypes,
        TypeOK, setup, decoding, inputs, outputs, MoreInput, MoreOutput, Success,
        Failure
  <1>5. DecoderInvariant'
    BY <1>1, <1>2 DEF ReadEnds, SourceEnds, ReturnInvalid, Err, DecoderInvariant,
        Operations, IoTypes, TypeOK, setup, decoding, inputs, outputs, MoreInput,
        MoreOutput, Success, Failure
  <1>6. SourceInvariant'
    BY <1>1, <1>2 DEF ReadEnds, SourceEnds, ReturnInvalid, Err, SourceInvariant,
        DecoderInvariant, Operations, IoTypes, TypeOK, InputInOrder, avail_in, setup,
        decoding, inputs, outputs, MoreInput, MoreOutput, Success, Failure
  <1>7. DeliveryInvariant'
    <2>1. UNCHANGED <<front, setup, given, decoding, inputs, outputs, sink_ok, received, later>>
      BY DEF ReadEnds, setup
    <2>2. Len(output) = 0 /\ written = 0 /\ op = "read"
      BY <1>1 DEF ReadEnds, SourceEnds, SourceInvariant, Operations
    <2>3. Held = 0 /\ Held' = 0
      BY <2>1, <2>2 DEF Held, outputs
    <2>4. QED
      BY <1>1, <2>1, <2>3 DEF DeliveryInvariant, decoding, outputs
  <1>8. InputInOrder'
    BY <1>1, <1>2 DEF ReadEnds, SourceEnds, ReturnInvalid, Err, InputInOrder, avail_in,
        SourceInvariant, DecoderInvariant, Operations, IoTypes, TypeOK, setup, decoding,
        inputs, outputs, MoreInput, MoreOutput, Success, Failure
  <1>9. InvalidIsHonest'
    BY <1>1, <1>2 DEF ReadEnds, SourceEnds, ReturnInvalid, Err, InvalidIsHonest,
        Returned, Ok, SourceInvariant, DecoderInvariant, InputInOrder, avail_in,
        Operations, IoTypes, TypeOK, setup, decoding, inputs, outputs, MoreInput,
        MoreOutput, Success, Failure
  <1>10. EndIsHonest'
    BY <1>1, <1>2 DEF ReadEnds, SourceEnds, ReturnInvalid, Err, EndIsHonest, Returned,
        Ok, DecoderInvariant, DeliveryInvariant, Held, Operations, IoTypes, TypeOK,
        setup, decoding, inputs, outputs, MoreInput, MoreOutput, Success, Failure
  <1>11. PanicsOnlyWhenTold'
    BY <1>1, <1>2 DEF ReadEnds, SourceEnds, ReturnInvalid, Err, PanicsOnlyWhenTold,
        DecoderInvariant, Operations, setup, decoding, inputs, outputs, MoreInput,
        MoreOutput, Success, Failure
  <1>12. QED
    BY <1>3, <1>4, <1>5, <1>6, <1>7, <1>8, <1>9, <1>10, <1>11 DEF IoInvariant

LEMMA ReadSourceErrorKeeps ==
  ASSUME IoInvariant, ReadSourceError
  PROVE  IoInvariant'
  <1>1. /\ IoTypes /\ Operations /\ DecoderInvariant /\ SourceInvariant /\ DeliveryInvariant
        /\ InputInOrder /\ InvalidIsHonest /\ EndIsHonest /\ PanicsOnlyWhenTold
    BY DEF IoInvariant
  <1>2. /\ stream.length \in Nat \ {0} /\ stream.supplied \in Nat /\ stream.output \in Nat
        /\ stream.corrupt \in BOOLEAN /\ buffer_size \in Nat \ {0}
    BY <1>1, SizesAre
  <1>3. IoTypes'
    BY <1>1, <1>2 DEF ReadSourceError, Return, Err, IoTypes, TypeOK, Operations,
        DecoderInvariant, SourceInvariant, Fronts, setup, decoding, inputs, outputs,
        MoreInput, MoreOutput, Success, Failure
  <1>4. Operations'
    BY <1>1, <1>2 DEF ReadSourceError, Return, Err, Operations, IoTypes, TypeOK, setup,
        decoding, inputs, outputs, MoreInput, MoreOutput, Success, Failure
  <1>5. DecoderInvariant'
    BY <1>1, <1>2 DEF ReadSourceError, Return, Err, DecoderInvariant, Operations,
        IoTypes, TypeOK, setup, decoding, inputs, outputs, MoreInput, MoreOutput,
        Success, Failure
  <1>6. SourceInvariant'
    BY <1>1, <1>2 DEF ReadSourceError, Return, Err, SourceInvariant, DecoderInvariant,
        Operations, IoTypes, TypeOK, InputInOrder, avail_in, setup, decoding, inputs,
        outputs, MoreInput, MoreOutput, Success, Failure
  <1>7. DeliveryInvariant'
    <2>1. Held' = Held
      BY <1>1, <1>2 DEF ReadSourceError, Return, Held, Operations, SourceInvariant,
          IoTypes, TypeOK, setup, decoding, inputs, outputs
    <2>2. UNCHANGED <<capacity, emitted, output, received, later>>
      BY <1>1 DEF ReadSourceError, Return, setup, decoding, inputs, outputs
    <2>3. (sink_ok /\ (front = "Decompressor" => decoder # "failed"))' => sink_ok /\ (front = "Decompressor" => decoder # "failed")
      BY <1>1 DEF ReadSourceError, Return, setup, decoding, inputs, outputs
    <2>4. UNCHANGED sink_ok
      BY DEF ReadSourceError, Return
    <2>5. QED
      BY <1>1, <2>1, <2>2, <2>3, <2>4 DEF DeliveryInvariant
  <1>8. InputInOrder'
    BY <1>1, <1>2 DEF ReadSourceError, Return, Err, InputInOrder, avail_in,
        SourceInvariant, DecoderInvariant, Operations, IoTypes, TypeOK, setup, decoding,
        inputs, outputs, MoreInput, MoreOutput, Success, Failure
  <1>9. InvalidIsHonest'
    BY <1>1, <1>2 DEF ReadSourceError, Return, Err, InvalidIsHonest, Returned, Ok,
        SourceInvariant, DecoderInvariant, InputInOrder, avail_in, Operations, IoTypes,
        TypeOK, setup, decoding, inputs, outputs, MoreInput, MoreOutput, Success,
        Failure
  <1>10. EndIsHonest'
    BY <1>1, <1>2 DEF ReadSourceError, Return, Err, EndIsHonest, Returned, Ok,
        DecoderInvariant, DeliveryInvariant, Held, Operations, IoTypes, TypeOK, setup,
        decoding, inputs, outputs, MoreInput, MoreOutput, Success, Failure
  <1>11. PanicsOnlyWhenTold'
    BY <1>1, <1>2 DEF ReadSourceError, Return, Err, PanicsOnlyWhenTold,
        DecoderInvariant, Operations, setup, decoding, inputs, outputs, MoreInput,
        MoreOutput, Success, Failure
  <1>12. QED
    BY <1>3, <1>4, <1>5, <1>6, <1>7, <1>8, <1>9, <1>10, <1>11 DEF IoInvariant

\* The writer: the user writes, flushes and closes; the decoder has answered.
LEMMA WriteKeeps ==
  ASSUME IoInvariant, NEW n \in CallSizes, Write(n)
  PROVE  IoInvariant'
  <1>1. /\ IoTypes /\ Operations /\ DecoderInvariant /\ SourceInvariant /\ DeliveryInvariant
        /\ InputInOrder /\ InvalidIsHonest /\ EndIsHonest /\ PanicsOnlyWhenTold
    BY DEF IoInvariant
  <1>2. /\ stream.length \in Nat \ {0} /\ stream.supplied \in Nat /\ stream.output \in Nat
        /\ stream.corrupt \in BOOLEAN /\ buffer_size \in Nat \ {0}
    BY <1>1, SizesAre
  <1>3. IoTypes'
    <2>1. output' = <<>> /\ Len(output') = 0 /\ output' \in Seq(Nat)
      BY <1>1, EmptySeq DEF Write, OutputBuffer
    <2>2. capacity' \in Nat
      BY <1>1, <1>2, SizesAssumption DEF DeliveryInvariant, Write, OutputBuffer, setup,
          decoding, inputs, outputs
    <2>3. QED
      BY <1>1, <1>2, <2>1, <2>2, SizesAssumption DEF Write, OutputBuffer, IoTypes,
          TypeOK, Operations, Fronts, setup, decoding, inputs, outputs, MoreInput,
          MoreOutput, Success, Failure
  <1>4. Operations'
    BY <1>1, <1>2 DEF Write, OutputBuffer, Operations, IoTypes, TypeOK, setup, decoding,
        inputs, outputs, MoreInput, MoreOutput, Success, Failure
  <1>5. DecoderInvariant'
    <2>1. n \in Nat /\ given \in Nat /\ taken \in Nat /\ given' = given + n /\ phase' = "decode"
      BY <1>1, SizesAssumption DEF Write, IoTypes
    <2>2. UNCHANGED <<stream, decoder, taken, produced, emitted, sink_ok>>
      BY DEF Write, setup, decoding
    <2>3. taken < given => taken < given'
      BY <2>1
    <2>4. QED
      BY <1>1, <2>1, <2>2, <2>3 DEF DecoderInvariant
  <1>6. SourceInvariant'
    BY <1>1, <1>2 DEF Write, OutputBuffer, SourceInvariant, DecoderInvariant,
        Operations, IoTypes, TypeOK, InputInOrder, avail_in, setup, decoding, inputs,
        outputs, MoreInput, MoreOutput, Success, Failure
  <1>7. DeliveryInvariant'
    <2>1. output' = <<>> /\ Len(output') = 0 /\ written' = 0
      BY EmptySeq DEF Write, OutputBuffer
    <2>2. UNCHANGED <<emitted, received, later, sink_ok, front, decoder>>
      BY DEF Write, setup, decoding, inputs, outputs
    <2>3. Len(received) \in Nat /\ emitted \in Nat /\ Bytes(emitted, emitted) = <<>>
      BY <1>1, NoBytes DEF IoTypes
    <2>4. Held' = 0
      BY <2>1 DEF Held
    <2>5. front = "DecompressorWriter" /\ phase = "idle" /\ Held = Len(output) - written
      BY DEF Held, Write
    <2>6. /\ Len(output) \in Nat /\ written \in Nat /\ written <= Len(output)
          /\ sink_ok => written = Len(output)
      BY <1>1, <2>5 DEF IoTypes, TypeOK, Operations
    <2>7. capacity' \in Nat
      BY <1>1, <1>2, SizesAssumption DEF DeliveryInvariant, Write, OutputBuffer, setup,
          decoding, inputs, outputs
    <2>8. QED
      BY <1>1, <2>1, <2>2, <2>3, <2>4, <2>5, <2>6, <2>7 DEF DeliveryInvariant
  <1>8. InputInOrder'
    <2>1. n \in Nat
      BY SizesAssumption
    <2>2. /\ front = "DecompressorWriter" /\ phase = "idle"
          /\ input_buffer' = [i \in 0 .. n - 1 |-> given + i]
          /\ input_offset' = 0 /\ input_len' = n /\ given' = given + n
          /\ UNCHANGED <<front, taken, decoder, sink_ok>>
      BY DEF Write, setup, decoding, inputs, outputs
    <2>3. given \in Nat /\ taken \in Nat /\ input_offset \in Nat /\ input_len \in Nat
      BY <1>1 DEF IoTypes
    <2>4. decoder = "running" /\ sink_ok => given = taken
      BY <1>1, <2>2, <2>3 DEF InputInOrder, avail_in, SourceInvariant
    <2>5. QED
      BY <2>1, <2>2, <2>3, <2>4 DEF InputInOrder, avail_in
  <1>9. InvalidIsHonest'
    BY <1>1, <1>2 DEF Write, OutputBuffer, InvalidIsHonest, Returned, Ok, Err,
        SourceInvariant, DecoderInvariant, InputInOrder, avail_in, Operations, IoTypes,
        TypeOK, setup, decoding, inputs, outputs, MoreInput, MoreOutput, Success,
        Failure
  <1>10. EndIsHonest'
    BY <1>1, <1>2 DEF Write, OutputBuffer, EndIsHonest, Returned, Ok, Err,
        DecoderInvariant, DeliveryInvariant, Held, Operations, IoTypes, TypeOK, setup,
        decoding, inputs, outputs, MoreInput, MoreOutput, Success, Failure
  <1>11. PanicsOnlyWhenTold'
    BY <1>1, <1>2 DEF Write, OutputBuffer, PanicsOnlyWhenTold, DecoderInvariant,
        Operations, setup, decoding, inputs, outputs, MoreInput, MoreOutput, Success,
        Failure
  <1>12. QED
    BY <1>3, <1>4, <1>5, <1>6, <1>7, <1>8, <1>9, <1>10, <1>11 DEF IoInvariant

LEMMA FlushKeeps ==
  ASSUME IoInvariant, Flush
  PROVE  IoInvariant'
  <1>1. /\ IoTypes /\ Operations /\ DecoderInvariant /\ SourceInvariant /\ DeliveryInvariant
        /\ InputInOrder /\ InvalidIsHonest /\ EndIsHonest /\ PanicsOnlyWhenTold
    BY DEF IoInvariant
  <1>2. /\ stream.length \in Nat \ {0} /\ stream.supplied \in Nat /\ stream.output \in Nat
        /\ stream.corrupt \in BOOLEAN /\ buffer_size \in Nat \ {0}
    BY <1>1, SizesAre
  <1>3. IoTypes'
    BY <1>1, <1>2 DEF Flush, Return, Ok, IoTypes, TypeOK, Operations, DecoderInvariant,
        SourceInvariant, Fronts, setup, decoding, inputs, outputs, MoreInput,
        MoreOutput, Success, Failure
  <1>4. Operations'
    BY <1>1, <1>2 DEF Flush, Return, Ok, Operations, IoTypes, TypeOK, setup, decoding,
        inputs, outputs, MoreInput, MoreOutput, Success, Failure
  <1>5. DecoderInvariant'
    BY <1>1, <1>2 DEF Flush, Return, Ok, DecoderInvariant, Operations, IoTypes, TypeOK,
        setup, decoding, inputs, outputs, MoreInput, MoreOutput, Success, Failure
  <1>6. SourceInvariant'
    BY <1>1, <1>2 DEF Flush, Return, Ok, SourceInvariant, DecoderInvariant, Operations,
        IoTypes, TypeOK, InputInOrder, avail_in, setup, decoding, inputs, outputs,
        MoreInput, MoreOutput, Success, Failure
  <1>7. DeliveryInvariant'
    BY <1>1, <1>2 DEF Flush, Return, Ok, DeliveryInvariant, Held, Operations,
        DecoderInvariant, IoTypes, TypeOK, setup, decoding, inputs, outputs, MoreInput,
        MoreOutput, Success, Failure
  <1>8. InputInOrder'
    BY <1>1, <1>2 DEF Flush, Return, Ok, InputInOrder, avail_in, SourceInvariant,
        DecoderInvariant, Operations, IoTypes, TypeOK, setup, decoding, inputs, outputs,
        MoreInput, MoreOutput, Success, Failure
  <1>9. InvalidIsHonest'
    BY <1>1, <1>2 DEF Flush, Return, Ok, InvalidIsHonest, Returned, Err,
        SourceInvariant, DecoderInvariant, InputInOrder, avail_in, Operations, IoTypes,
        TypeOK, setup, decoding, inputs, outputs, MoreInput, MoreOutput, Success,
        Failure
  <1>10. EndIsHonest'
    BY <1>1, <1>2 DEF Flush, Return, Ok, EndIsHonest, Returned, Err, DecoderInvariant,
        DeliveryInvariant, Held, Operations, IoTypes, TypeOK, setup, decoding, inputs,
        outputs, MoreInput, MoreOutput, Success, Failure
  <1>11. PanicsOnlyWhenTold'
    BY <1>1, <1>2 DEF Flush, Return, Ok, PanicsOnlyWhenTold, DecoderInvariant,
        Operations, setup, decoding, inputs, outputs, MoreInput, MoreOutput, Success,
        Failure
  <1>12. QED
    BY <1>3, <1>4, <1>5, <1>6, <1>7, <1>8, <1>9, <1>10, <1>11 DEF IoInvariant

LEMMA CloseKeeps ==
  ASSUME IoInvariant, NEW how \in {"into_inner", "drop"}, Close(how)
  PROVE  IoInvariant'
  <1>1. /\ IoTypes /\ Operations /\ DecoderInvariant /\ SourceInvariant /\ DeliveryInvariant
        /\ InputInOrder /\ InvalidIsHonest /\ EndIsHonest /\ PanicsOnlyWhenTold
    BY DEF IoInvariant
  <1>2. /\ stream.length \in Nat \ {0} /\ stream.supplied \in Nat /\ stream.output \in Nat
        /\ stream.corrupt \in BOOLEAN /\ buffer_size \in Nat \ {0}
    BY <1>1, SizesAre
  <1>3. IoTypes'
    <2>1. output' = <<>> /\ Len(output') = 0 /\ output' \in Seq(Nat)
      BY <1>1, EmptySeq DEF Close, OutputBuffer
    <2>2. capacity' \in Nat
      BY <1>1, <1>2 DEF DeliveryInvariant, Close, OutputBuffer, setup, decoding, inputs,
          outputs
    <2>3. QED
      BY <1>1, <1>2, <2>1, <2>2 DEF Close, OutputBuffer, IoTypes, TypeOK, Operations,
          Fronts, setup, decoding, inputs, outputs, MoreInput, MoreOutput, Success,
          Failure
  <1>4. Operations'
    BY <1>1, <1>2 DEF Close, OutputBuffer, Operations, IoTypes, TypeOK, setup, decoding,
        inputs, outputs, MoreInput, MoreOutput, Success, Failure
  <1>5. DecoderInvariant'
    BY <1>1, <1>2 DEF Close, OutputBuffer, DecoderInvariant, Operations, IoTypes,
        TypeOK, setup, decoding, inputs, outputs, MoreInput, MoreOutput, Success,
        Failure
  <1>6. SourceInvariant'
    BY <1>1, <1>2 DEF Close, OutputBuffer, SourceInvariant, DecoderInvariant,
        Operations, IoTypes, TypeOK, InputInOrder, avail_in, setup, decoding, inputs,
        outputs, MoreInput, MoreOutput, Success, Failure
  <1>7. DeliveryInvariant'
    <2>1. output' = <<>> /\ Len(output') = 0 /\ written' = 0
      BY EmptySeq DEF Close, OutputBuffer
    <2>2. UNCHANGED <<emitted, received, later, sink_ok, front, decoder>>
      BY DEF Close, setup, decoding, inputs, outputs
    <2>3. Len(received) \in Nat /\ emitted \in Nat /\ Bytes(emitted, emitted) = <<>>
      BY <1>1, NoBytes DEF IoTypes
    <2>4. Held' = 0
      BY <2>1 DEF Held
    <2>5. front = "DecompressorWriter" /\ phase = "idle" /\ Held = Len(output) - written
      BY DEF Held, Close
    <2>6. /\ Len(output) \in Nat /\ written \in Nat /\ written <= Len(output)
          /\ sink_ok => written = Len(output)
      BY <1>1, <2>5 DEF IoTypes, TypeOK, Operations
    <2>7. capacity' \in Nat
      BY <1>1, <1>2 DEF DeliveryInvariant, Close, OutputBuffer, setup, decoding, inputs,
          outputs
    <2>8. QED
      BY <1>1, <2>1, <2>2, <2>3, <2>4, <2>5, <2>6, <2>7 DEF DeliveryInvariant
  <1>8. InputInOrder'
    BY <1>1, <1>2 DEF Close, OutputBuffer, InputInOrder, avail_in, SourceInvariant,
        DecoderInvariant, Operations, IoTypes, TypeOK, setup, decoding, inputs, outputs,
        MoreInput, MoreOutput, Success, Failure
  <1>9. InvalidIsHonest'
    BY <1>1, <1>2 DEF Close, OutputBuffer, InvalidIsHonest, Returned, Ok, Err,
        SourceInvariant, DecoderInvariant, InputInOrder, avail_in, Operations, IoTypes,
        TypeOK, setup, decoding, inputs, outputs, MoreInput, MoreOutput, Success,
        Failure
  <1>10. EndIsHonest'
    BY <1>1, <1>2 DEF Close, OutputBuffer, EndIsHonest, Returned, Ok, Err,
        DecoderInvariant, DeliveryInvariant, Held, Operations, IoTypes, TypeOK, setup,
        decoding, inputs, outputs, MoreInput, MoreOutput, Success, Failure
  <1>11. PanicsOnlyWhenTold'
    BY <1>1, <1>2 DEF Close, OutputBuffer, PanicsOnlyWhenTold, DecoderInvariant,
        Operations, setup, decoding, inputs, outputs, MoreInput, MoreOutput, Success,
        Failure
  <1>12. QED
    BY <1>3, <1>4, <1>5, <1>6, <1>7, <1>8, <1>9, <1>10, <1>11 DEF IoInvariant

LEMMA WriteOutputKeeps ==
  ASSUME IoInvariant, WriteOutput
  PROVE  IoInvariant'
  <1>1. /\ IoTypes /\ Operations /\ DecoderInvariant /\ SourceInvariant /\ DeliveryInvariant
        /\ InputInOrder /\ InvalidIsHonest /\ EndIsHonest /\ PanicsOnlyWhenTold
    BY DEF IoInvariant
  <1>2. /\ stream.length \in Nat \ {0} /\ stream.supplied \in Nat /\ stream.output \in Nat
        /\ stream.corrupt \in BOOLEAN /\ buffer_size \in Nat \ {0}
    BY <1>1, SizesAre
  <1>3. IoTypes'
    BY <1>1, <1>2 DEF WriteOutput, Goto, IoTypes, TypeOK, Operations, DecoderInvariant,
        SourceInvariant, Fronts, setup, decoding, inputs, outputs, MoreInput,
        MoreOutput, Success, Failure
  <1>4. Operations'
    BY <1>1, <1>2 DEF WriteOutput, Goto, Operations, IoTypes, TypeOK, setup, decoding,
        inputs, outputs, MoreInput, MoreOutput, Success, Failure
  <1>5. DecoderInvariant'
    BY <1>1, <1>2 DEF WriteOutput, Goto, DecoderInvariant, Operations, IoTypes, TypeOK,
        setup, decoding, inputs, outputs, MoreInput, MoreOutput, Success, Failure
  <1>6. SourceInvariant'
    BY <1>1, <1>2 DEF WriteOutput, Goto, SourceInvariant, DecoderInvariant, Operations,
        IoTypes, TypeOK, InputInOrder, avail_in, setup, decoding, inputs, outputs,
        MoreInput, MoreOutput, Success, Failure
  <1>7. DeliveryInvariant'
    BY <1>1, <1>2 DEF WriteOutput, Goto, DeliveryInvariant, Held, Operations,
        DecoderInvariant, IoTypes, TypeOK, setup, decoding, inputs, outputs, MoreInput,
        MoreOutput, Success, Failure
  <1>8. InputInOrder'
    BY <1>1, <1>2 DEF WriteOutput, Goto, InputInOrder, avail_in, SourceInvariant,
        DecoderInvariant, Operations, IoTypes, TypeOK, setup, decoding, inputs, outputs,
        MoreInput, MoreOutput, Success, Failure
  <1>9. InvalidIsHonest'
    BY <1>1, <1>2 DEF WriteOutput, Goto, InvalidIsHonest, Returned, Ok, Err,
        SourceInvariant, DecoderInvariant, InputInOrder, avail_in, Operations, IoTypes,
        TypeOK, setup, decoding, inputs, outputs, MoreInput, MoreOutput, Success,
        Failure
  <1>10. EndIsHonest'
    BY <1>1, <1>2 DEF WriteOutput, Goto, EndIsHonest, Returned, Ok, Err,
        DecoderInvariant, DeliveryInvariant, Held, Operations, IoTypes, TypeOK, setup,
        decoding, inputs, outputs, MoreInput, MoreOutput, Success, Failure
  <1>11. PanicsOnlyWhenTold'
    BY <1>1, <1>2 DEF WriteOutput, Goto, PanicsOnlyWhenTold, DecoderInvariant,
        Operations, setup, decoding, inputs, outputs, MoreInput, MoreOutput, Success,
        Failure
  <1>12. QED
    BY <1>3, <1>4, <1>5, <1>6, <1>7, <1>8, <1>9, <1>10, <1>11 DEF IoInvariant

LEMMA WriteResultKeeps ==
  ASSUME IoInvariant, WriteResult
  PROVE  IoInvariant'
  <1>1. /\ IoTypes /\ Operations /\ DecoderInvariant /\ SourceInvariant /\ DeliveryInvariant
        /\ InputInOrder /\ InvalidIsHonest /\ EndIsHonest /\ PanicsOnlyWhenTold
    BY DEF IoInvariant
  <1>2. /\ stream.length \in Nat \ {0} /\ stream.supplied \in Nat /\ stream.output \in Nat
        /\ stream.corrupt \in BOOLEAN /\ buffer_size \in Nat \ {0}
    BY <1>1, SizesAre
  <1>3. IoTypes'
    <2>1. front = "DecompressorWriter" /\ phase = "sink" /\ written = Len(output)
      BY <1>1 DEF WriteResult, closing, AllWritten, Operations
    <2>2. UNCHANGED <<setup, given, decoding, inputs, sink_ok, received, later>>
      BY DEF WriteResult
    <2>3. \/ result = MoreOutput /\ Goto("decode") /\ OutputBuffer
          \/ UNCHANGED outputs
      BY DEF WriteResult, AgainOr
    <2>4. /\ output' \in Seq(Nat) /\ Len(output') <= capacity' /\ written' \in 0 .. Len(output')
          /\ written' \in Nat
      <3>1. CASE OutputBuffer
        <4>1. output' = <<>> /\ Len(output') = 0 /\ output' \in Seq(Nat) /\ written' = 0
              /\ capacity' = buffer_size
          BY <3>1, EmptySeq DEF OutputBuffer
        <4>2. QED
          BY <1>2, <4>1
      <3>2. CASE UNCHANGED outputs
        BY <1>1, <3>2 DEF outputs, IoTypes, TypeOK
      <3>3. QED
        BY <2>3, <3>1, <3>2
    <2>5. /\ op' \in {"none", "write", "into_inner", "drop"} /\ error_if_invalid_data' \in BOOLEAN
          /\ phase' \in {"idle", "decode", "closed", "panicked_unwrap", "panicked_assert"}
      BY <1>1 DEF WriteResult, closing, AgainOr, ReturnInvalid, Goto, IoTypes, TypeOK
    <2>6. QED
      BY <1>1, <1>2, <2>2, <2>4, <2>5 DEF IoTypes, TypeOK, setup, decoding, inputs,
          outputs
  <1>4. Operations'
    BY <1>1, <1>2 DEF WriteResult, AllWritten, AgainOr, OutputBuffer, ReturnInvalid,
        Goto, avail_in, Ok, Err, Operations, IoTypes, TypeOK, setup, decoding, inputs,
        outputs, MoreInput, MoreOutput, Success, Failure
  <1>5. DecoderInvariant'
    BY <1>1, <1>2 DEF WriteResult, AllWritten, AgainOr, OutputBuffer, ReturnInvalid,
        Goto, avail_in, Ok, Err, DecoderInvariant, Operations, IoTypes, TypeOK, setup,
        decoding, inputs, outputs, MoreInput, MoreOutput, Success, Failure
  <1>6. SourceInvariant'
    BY <1>1, <1>2 DEF WriteResult, AllWritten, AgainOr, OutputBuffer, ReturnInvalid,
        Goto, avail_in, Ok, Err, SourceInvariant, DecoderInvariant, Operations, IoTypes,
        TypeOK, InputInOrder, setup, decoding, inputs, outputs, MoreInput, MoreOutput,
        Success, Failure
  <1>7. DeliveryInvariant'
    <2>1. front = "DecompressorWriter" /\ phase = "sink" /\ written = Len(output)
      BY <1>1 DEF WriteResult, closing, AllWritten, Operations
    <2>2. UNCHANGED <<setup, given, decoding, inputs, sink_ok, received, later>>
      BY DEF WriteResult
    <2>3. \/ result = MoreOutput /\ Goto("decode") /\ OutputBuffer
          \/ UNCHANGED outputs
      BY DEF WriteResult, AgainOr
    <2>4. /\ Len(received) \in Nat /\ Len(output) \in Nat /\ emitted \in Nat
          /\ Bytes(emitted, emitted) = <<>>
      BY <1>1, NoBytes DEF IoTypes
    <2>5. Held = 0
      BY <2>1, <2>4 DEF Held
    <2>6. CASE OutputBuffer
      <3>1. output' = <<>> /\ Len(output') = 0 /\ written' = 0 /\ capacity' = buffer_size
        BY <2>6, EmptySeq DEF OutputBuffer
      <3>2. Held' = 0
        BY <2>1, <2>2, <3>1 DEF Held, setup
      <3>3. QED
        BY <1>1, <1>2, <2>1, <2>2, <2>4, <2>5, <3>1, <3>2 DEF DeliveryInvariant, setup, decoding
    <2>7. CASE UNCHANGED outputs
      BY <1>1, <2>1, <2>2, <2>4, <2>5, <2>7 DEF DeliveryInvariant, Held, outputs, setup,
          decoding
    <2>8. QED
      BY <2>3, <2>6, <2>7
  <1>8. InputInOrder'
    BY <1>1, <1>2 DEF WriteResult, AllWritten, AgainOr, OutputBuffer, ReturnInvalid,
        Goto, avail_in, Ok, Err, InputInOrder, SourceInvariant, DecoderInvariant,
        Operations, IoTypes, TypeOK, setup, decoding, inputs, outputs, MoreInput,
        MoreOutput, Success, Failure
  <1>9. InvalidIsHonest'
    BY <1>1, <1>2 DEF WriteResult, AllWritten, AgainOr, OutputBuffer, ReturnInvalid,
        Goto, avail_in, Ok, Err, InvalidIsHonest, Returned, SourceInvariant,
        DecoderInvariant, InputInOrder, Operations, IoTypes, TypeOK, setup, decoding,
        inputs, outputs, MoreInput, MoreOutput, Success, Failure
  <1>10. EndIsHonest'
    BY <1>1, <1>2 DEF WriteResult, AllWritten, AgainOr, OutputBuffer, ReturnInvalid,
        Goto, avail_in, Ok, Err, EndIsHonest, Returned, DecoderInvariant,
        DeliveryInvariant, Held, Operations, IoTypes, TypeOK, setup, decoding, inputs,
        outputs, MoreInput, MoreOutput, Success, Failure
  <1>11. PanicsOnlyWhenTold'
    <2>1. front = "DecompressorWriter" /\ phase = "sink"
      BY <1>1 DEF WriteResult, AllWritten, Operations
    <2>2. result = MoreInput => avail_in = 0
      BY <1>1, <2>1 DEF DecoderInvariant, IoTypes, avail_in
    <2>3. UNCHANGED front
      BY DEF WriteResult, setup
    <2>4. /\ phase' # "panicked_assert"
          /\ phase' = "panicked_unwrap" => ~error_if_invalid_data'
      BY <2>2 DEF WriteResult, AgainOr, ReturnInvalid, Goto
    <2>5. QED
      BY <2>1, <2>3, <2>4 DEF PanicsOnlyWhenTold
  <1>12. QED
    BY <1>3, <1>4, <1>5, <1>6, <1>7, <1>8, <1>9, <1>10, <1>11 DEF IoInvariant

LEMMA CloseResultKeeps ==
  ASSUME IoInvariant, CloseResult
  PROVE  IoInvariant'
  <1>1. /\ IoTypes /\ Operations /\ DecoderInvariant /\ SourceInvariant /\ DeliveryInvariant
        /\ InputInOrder /\ InvalidIsHonest /\ EndIsHonest /\ PanicsOnlyWhenTold
    BY DEF IoInvariant
  <1>2. /\ stream.length \in Nat \ {0} /\ stream.supplied \in Nat /\ stream.output \in Nat
        /\ stream.corrupt \in BOOLEAN /\ buffer_size \in Nat \ {0}
    BY <1>1, SizesAre
  <1>3. IoTypes'
    <2>1. front = "DecompressorWriter" /\ phase = "sink" /\ written = Len(output)
      BY <1>1 DEF CloseResult, closing, AllWritten, Operations
    <2>2. UNCHANGED <<setup, given, decoding, inputs, sink_ok, received, later>>
      BY DEF CloseResult
    <2>3. \/ result = MoreOutput /\ Goto("decode") /\ OutputBuffer
          \/ UNCHANGED outputs
      BY DEF CloseResult, AgainOr
    <2>4. /\ output' \in Seq(Nat) /\ Len(output') <= capacity' /\ written' \in 0 .. Len(output')
          /\ written' \in Nat
      <3>1. CASE OutputBuffer
        <4>1. output' = <<>> /\ Len(output') = 0 /\ output' \in Seq(Nat) /\ written' = 0
              /\ capacity' = buffer_size
          BY <3>1, EmptySeq DEF OutputBuffer
        <4>2. QED
          BY <1>2, <4>1
      <3>2. CASE UNCHANGED outputs
        BY <1>1, <3>2 DEF outputs, IoTypes, TypeOK
      <3>3. QED
        BY <2>3, <3>1, <3>2
    <2>5. /\ op' \in {"none", "write", "into_inner", "drop"} /\ error_if_invalid_data' \in BOOLEAN
          /\ phase' \in {"idle", "decode", "closed", "panicked_unwrap", "panicked_assert"}
      BY <1>1 DEF CloseResult, closing, AgainOr, ReturnInvalid, Goto, IoTypes, TypeOK
    <2>6. QED
      BY <1>1, <1>2, <2>2, <2>4, <2>5 DEF IoTypes, TypeOK, setup, decoding, inputs,
          outputs
  <1>4. Operations'
    BY <1>1, <1>2 DEF CloseResult, closing, AllWritten, AgainOr, OutputBuffer,
        ReturnInvalid, Goto, Ok, Err, Operations, IoTypes, TypeOK, setup, decoding,
        inputs, outputs, MoreInput, MoreOutput, Success, Failure
  <1>5. DecoderInvariant'
    BY <1>1, <1>2 DEF CloseResult, closing, AllWritten, AgainOr, OutputBuffer,
        ReturnInvalid, Goto, Ok, Err, DecoderInvariant, Operations, IoTypes, TypeOK,
        setup, decoding, inputs, outputs, MoreInput, MoreOutput, Success, Failure
  <1>6. SourceInvariant'
    BY <1>1, <1>2 DEF CloseResult, closing, AllWritten, AgainOr, OutputBuffer,
        ReturnInvalid, Goto, Ok, Err, SourceInvariant, DecoderInvariant, Operations,
        IoTypes, TypeOK, InputInOrder, avail_in, setup, decoding, inputs, outputs,
        MoreInput, MoreOutput, Success, Failure
  <1>7. DeliveryInvariant'
    <2>1. front = "DecompressorWriter" /\ phase = "sink" /\ written = Len(output)
      BY <1>1 DEF CloseResult, closing, AllWritten, Operations
    <2>2. UNCHANGED <<setup, given, decoding, inputs, sink_ok, received, later>>
      BY DEF CloseResult
    <2>3. \/ result = MoreOutput /\ Goto("decode") /\ OutputBuffer
          \/ UNCHANGED outputs
      BY DEF CloseResult, AgainOr
    <2>4. /\ Len(received) \in Nat /\ Len(output) \in Nat /\ emitted \in Nat
          /\ Bytes(emitted, emitted) = <<>>
      BY <1>1, NoBytes DEF IoTypes
    <2>5. Held = 0
      BY <2>1, <2>4 DEF Held
    <2>6. CASE OutputBuffer
      <3>1. output' = <<>> /\ Len(output') = 0 /\ written' = 0 /\ capacity' = buffer_size
        BY <2>6, EmptySeq DEF OutputBuffer
      <3>2. Held' = 0
        BY <2>1, <2>2, <3>1 DEF Held, setup
      <3>3. QED
        BY <1>1, <1>2, <2>1, <2>2, <2>4, <2>5, <3>1, <3>2 DEF DeliveryInvariant, setup, decoding
    <2>7. CASE UNCHANGED outputs
      BY <1>1, <2>1, <2>2, <2>4, <2>5, <2>7 DEF DeliveryInvariant, Held, outputs, setup,
          decoding
    <2>8. QED
      BY <2>3, <2>6, <2>7
  <1>8. InputInOrder'
    BY <1>1, <1>2 DEF CloseResult, closing, AllWritten, AgainOr, OutputBuffer,
        ReturnInvalid, Goto, Ok, Err, InputInOrder, avail_in, SourceInvariant,
        DecoderInvariant, Operations, IoTypes, TypeOK, setup, decoding, inputs, outputs,
        MoreInput, MoreOutput, Success, Failure
  <1>9. InvalidIsHonest'
    BY <1>1, <1>2 DEF CloseResult, closing, AllWritten, AgainOr, OutputBuffer,
        ReturnInvalid, Goto, Ok, Err, InvalidIsHonest, Returned, SourceInvariant,
        DecoderInvariant, InputInOrder, avail_in, Operations, IoTypes, TypeOK, setup,
        decoding, inputs, outputs, MoreInput, MoreOutput, Success, Failure
  <1>10. EndIsHonest'
    BY <1>1, <1>2 DEF CloseResult, closing, AllWritten, AgainOr, OutputBuffer,
        ReturnInvalid, Goto, Ok, Err, EndIsHonest, Returned, DecoderInvariant,
        DeliveryInvariant, Held, Operations, IoTypes, TypeOK, setup, decoding, inputs,
        outputs, MoreInput, MoreOutput, Success, Failure
  <1>11. PanicsOnlyWhenTold'
    BY <1>1, <1>2 DEF CloseResult, closing, AllWritten, AgainOr, OutputBuffer,
        ReturnInvalid, Goto, Ok, Err, PanicsOnlyWhenTold, DecoderInvariant, Operations,
        setup, decoding, inputs, outputs, MoreInput, MoreOutput, Success, Failure
  <1>12. QED
    BY <1>3, <1>4, <1>5, <1>6, <1>7, <1>8, <1>9, <1>10, <1>11 DEF IoInvariant

\* The sink accepts a part or fails.
LEMMA SinkAcceptsKeeps ==
  ASSUME IoInvariant, SinkAccepts
  PROVE  IoInvariant'
  <1>1. /\ IoTypes /\ Operations /\ DecoderInvariant /\ SourceInvariant /\ DeliveryInvariant
        /\ InputInOrder /\ InvalidIsHonest /\ EndIsHonest /\ PanicsOnlyWhenTold
    BY DEF IoInvariant
  <1>2. /\ stream.length \in Nat \ {0} /\ stream.supplied \in Nat /\ stream.output \in Nat
        /\ stream.corrupt \in BOOLEAN /\ buffer_size \in Nat \ {0}
    BY <1>1, SizesAre
  <1>3. IoTypes'
    <2>1. /\ written' - written \in 1 .. Len(output) - written /\ written' \in 0 .. Len(output)
          /\ received' \in Seq(Nat) /\ later' \in Seq(Nat)
          /\ received' = Bytes(0, Len(received'))
          /\ sink_ok => later' = <<>>
          /\ Len(received') + Len(later') = Len(received) + Len(later) + (written' - written)
      BY <1>1, SinkTakes
    <2>2. /\ written \in Nat /\ written' \in Nat /\ Len(output) \in Nat /\ Len(received) \in Nat
          /\ Len(later) \in Nat /\ emitted \in Nat /\ written <= Len(output)
          /\ Len(received') \in Nat /\ Len(later') \in Nat
      <3>1. Len(received') \in Nat /\ Len(later') \in Nat
        BY <2>1
      <3>2. written \in Nat /\ Len(output) \in Nat /\ emitted \in Nat /\ written <= Len(output)
        BY <1>1 DEF IoTypes, TypeOK
      <3>3. Len(received) \in Nat /\ Len(later) \in Nat
        BY <1>1 DEF IoTypes
      <3>4. written' \in Nat
        BY <2>1, <3>2
      <3>5. QED
        BY <3>1, <3>2, <3>3, <3>4
    <2>3. UNCHANGED <<setup, given, decoding, inputs, capacity, output, sink_ok>>
      BY DEF SinkAccepts
    <2>4. Len(received') + Len(later') <= emitted
      <3>1. Len(received) + Len(later) + (Len(output) - written) <= emitted
        BY <1>1, <2>3 DEF DeliveryInvariant, Held, Operations, SinkAccepts
      <3>2. QED
        BY <2>1, <2>2, <3>1
    <2>5. QED
      BY <1>1, <1>2, <2>1, <2>2, <2>3, <2>4 DEF IoTypes, TypeOK, Operations, SinkAccepts,
          Goto, setup, decoding, inputs, outputs
  <1>4. Operations'
    BY <1>1, <1>2 DEF SinkAccepts, Goto, Operations, IoTypes, TypeOK, setup, decoding,
        inputs, outputs, MoreInput, MoreOutput, Success, Failure
  <1>5. DecoderInvariant'
    BY <1>1, <1>2 DEF SinkAccepts, Goto, DecoderInvariant, Operations, IoTypes, TypeOK,
        setup, decoding, inputs, outputs, MoreInput, MoreOutput, Success, Failure
  <1>6. SourceInvariant'
    BY <1>1, <1>2 DEF SinkAccepts, Goto, SourceInvariant, DecoderInvariant, Operations,
        IoTypes, TypeOK, InputInOrder, avail_in, setup, decoding, inputs, outputs,
        MoreInput, MoreOutput, Success, Failure
  <1>7. DeliveryInvariant'
    <2>1. /\ written' - written \in 1 .. Len(output) - written /\ written' \in 0 .. Len(output)
          /\ received' \in Seq(Nat) /\ later' \in Seq(Nat)
          /\ received' = Bytes(0, Len(received'))
          /\ sink_ok => later' = <<>>
          /\ Len(received') + Len(later') = Len(received) + Len(later) + (written' - written)
      BY <1>1, SinkTakes
    <2>2. /\ written \in Nat /\ written' \in Nat /\ Len(output) \in Nat /\ Len(received) \in Nat
          /\ Len(later) \in Nat /\ emitted \in Nat /\ written <= Len(output)
          /\ Len(received') \in Nat /\ Len(later') \in Nat
      <3>1. Len(received') \in Nat /\ Len(later') \in Nat
        BY <2>1
      <3>2. written \in Nat /\ Len(output) \in Nat /\ emitted \in Nat /\ written <= Len(output)
        BY <1>1 DEF IoTypes, TypeOK
      <3>3. Len(received) \in Nat /\ Len(later) \in Nat
        BY <1>1 DEF IoTypes
      <3>4. written' \in Nat
        BY <2>1, <3>2
      <3>5. QED
        BY <3>1, <3>2, <3>3, <3>4
    <2>3. UNCHANGED <<setup, given, decoding, inputs, capacity, output, sink_ok>>
      BY DEF SinkAccepts
    <2>4. front # "Decompressor"
      BY <1>1 DEF SinkAccepts, Operations
    <2>5. Held = Len(output) - written /\ Held' = Len(output) - written'
      BY <2>3, <2>4 DEF Held, setup
    <2>6. /\ Len(received') + Len(later') + (Len(output) - written')
               = Len(received) + Len(later) + (Len(output) - written)
          /\ Len(received') + Len(later') + (Len(output) - written') <= emitted
      <3>1. PICK x \in Nat, w \in Nat : x = Len(received') + Len(later') /\ w = written'
        BY <2>2
      <3>2. x = Len(received) + Len(later) + (w - written)
        BY <2>1, <3>1
      <3>3. Len(received) + Len(later) + (Len(output) - written) <= emitted
        BY <1>1, <2>5 DEF DeliveryInvariant
      <3>4. x + (Len(output) - w) = Len(received) + Len(later) + (Len(output) - written)
        BY <2>2, <3>2
      <3>5. QED
        BY <3>1, <3>3, <3>4
    <2>7. sink_ok => Len(received') + (Len(output) - written') = emitted
      <3>1. SUFFICES ASSUME sink_ok
                     PROVE  Len(received') + (Len(output) - written') = emitted
        OBVIOUS
      <3>2. Len(later) = 0 /\ Len(later') = 0
        BY <1>1, <2>1, <3>1, EmptySeq DEF DeliveryInvariant
      <3>3. Len(received) + (Len(output) - written) = emitted
        BY <1>1, <2>4, <2>5, <3>1 DEF DeliveryInvariant
      <3>4. QED
        BY <2>2, <2>6, <3>2, <3>3
    <2>8. QED
      BY <1>1, <2>1, <2>2, <2>3, <2>4, <2>5, <2>6, <2>7 DEF DeliveryInvariant, setup, decoding
  <1>8. InputInOrder'
    BY <1>1, <1>2 DEF SinkAccepts, Goto, InputInOrder, avail_in, SourceInvariant,
        DecoderInvariant, Operations, IoTypes, TypeOK, setup, decoding, inputs, outputs,
        MoreInput, MoreOutput, Success, Failure
  <1>9. InvalidIsHonest'
    BY <1>1, <1>2 DEF SinkAccepts, Goto, InvalidIsHonest, Returned, Ok, Err,
        SourceInvariant, DecoderInvariant, InputInOrder, avail_in, Operations, IoTypes,
        TypeOK, setup, decoding, inputs, outputs, MoreInput, MoreOutput, Success,
        Failure
  <1>10. EndIsHonest'
    BY <1>1, <1>2 DEF SinkAccepts, Goto, EndIsHonest, Returned, Ok, Err,
        DecoderInvariant, DeliveryInvariant, Held, Operations, IoTypes, TypeOK, setup,
        decoding, inputs, outputs, MoreInput, MoreOutput, Success, Failure
  <1>11. PanicsOnlyWhenTold'
    BY <1>1, <1>2 DEF SinkAccepts, Goto, PanicsOnlyWhenTold, DecoderInvariant,
        Operations, setup, decoding, inputs, outputs, MoreInput, MoreOutput, Success,
        Failure
  <1>12. QED
    BY <1>3, <1>4, <1>5, <1>6, <1>7, <1>8, <1>9, <1>10, <1>11 DEF IoInvariant

LEMMA WriteSinkErrorKeeps ==
  ASSUME IoInvariant, WriteSinkError
  PROVE  IoInvariant'
  <1>1. /\ IoTypes /\ Operations /\ DecoderInvariant /\ SourceInvariant /\ DeliveryInvariant
        /\ InputInOrder /\ InvalidIsHonest /\ EndIsHonest /\ PanicsOnlyWhenTold
    BY DEF IoInvariant
  <1>2. /\ stream.length \in Nat \ {0} /\ stream.supplied \in Nat /\ stream.output \in Nat
        /\ stream.corrupt \in BOOLEAN /\ buffer_size \in Nat \ {0}
    BY <1>1, SizesAre
  <1>3. IoTypes'
    BY <1>1, <1>2 DEF WriteSinkError, closing, SinkFails, Err, IoTypes, TypeOK,
        Operations, DecoderInvariant, SourceInvariant, Fronts, setup, decoding, inputs,
        outputs, MoreInput, MoreOutput, Success, Failure
  <1>4. Operations'
    BY <1>1, <1>2 DEF WriteSinkError, closing, SinkFails, Err, Operations, IoTypes,
        TypeOK, setup, decoding, inputs, outputs, MoreInput, MoreOutput, Success,
        Failure
  <1>5. DecoderInvariant'
    BY <1>1, <1>2 DEF WriteSinkError, closing, SinkFails, Err, DecoderInvariant,
        Operations, IoTypes, TypeOK, setup, decoding, inputs, outputs, MoreInput,
        MoreOutput, Success, Failure
  <1>6. SourceInvariant'
    BY <1>1, <1>2 DEF WriteSinkError, closing, SinkFails, Err, SourceInvariant,
        DecoderInvariant, Operations, IoTypes, TypeOK, InputInOrder, avail_in, setup,
        decoding, inputs, outputs, MoreInput, MoreOutput, Success, Failure
  <1>7. DeliveryInvariant'
    BY <1>1, <1>2 DEF WriteSinkError, closing, SinkFails, Err, DeliveryInvariant, Held,
        Operations, DecoderInvariant, IoTypes, TypeOK, setup, decoding, inputs, outputs,
        MoreInput, MoreOutput, Success, Failure
  <1>8. InputInOrder'
    BY <1>1, <1>2 DEF WriteSinkError, closing, SinkFails, Err, InputInOrder, avail_in,
        SourceInvariant, DecoderInvariant, Operations, IoTypes, TypeOK, setup, decoding,
        inputs, outputs, MoreInput, MoreOutput, Success, Failure
  <1>9. InvalidIsHonest'
    BY <1>1, <1>2 DEF WriteSinkError, closing, SinkFails, Err, InvalidIsHonest,
        Returned, Ok, SourceInvariant, DecoderInvariant, InputInOrder, avail_in,
        Operations, IoTypes, TypeOK, setup, decoding, inputs, outputs, MoreInput,
        MoreOutput, Success, Failure
  <1>10. EndIsHonest'
    BY <1>1, <1>2 DEF WriteSinkError, closing, SinkFails, Err, EndIsHonest, Returned,
        Ok, DecoderInvariant, DeliveryInvariant, Held, Operations, IoTypes, TypeOK,
        setup, decoding, inputs, outputs, MoreInput, MoreOutput, Success, Failure
  <1>11. PanicsOnlyWhenTold'
    BY <1>1, <1>2 DEF WriteSinkError, closing, SinkFails, Err, PanicsOnlyWhenTold,
        DecoderInvariant, Operations, setup, decoding, inputs, outputs, MoreInput,
        MoreOutput, Success, Failure
  <1>12. QED
    BY <1>3, <1>4, <1>5, <1>6, <1>7, <1>8, <1>9, <1>10, <1>11 DEF IoInvariant

\* The call that does everything.
LEMMA CustomIoKeeps ==
  ASSUME IoInvariant, NEW n \in CallSizes, CustomIo(n)
  PROVE  IoInvariant'
  <1>1. /\ IoTypes /\ Operations /\ DecoderInvariant /\ SourceInvariant /\ DeliveryInvariant
        /\ InputInOrder /\ InvalidIsHonest /\ EndIsHonest /\ PanicsOnlyWhenTold
    BY DEF IoInvariant
  <1>2. /\ stream.length \in Nat \ {0} /\ stream.supplied \in Nat /\ stream.output \in Nat
        /\ stream.corrupt \in BOOLEAN /\ buffer_size \in Nat \ {0}
    BY <1>1, SizesAre
  <1>3. IoTypes'
    <2>1. output' = <<>> /\ Len(output') = 0 /\ output' \in Seq(Nat)
      BY <1>1, EmptySeq DEF CustomIo
    <2>2. capacity' \in Nat
      BY <1>1, <1>2, SizesAssumption DEF DeliveryInvariant, CustomIo, setup, decoding,
          inputs, outputs
    <2>3. QED
      BY <1>1, <1>2, <2>1, <2>2, SizesAssumption DEF CustomIo, IoTypes, TypeOK,
          Operations, Fronts, setup, decoding, inputs, outputs, MoreInput, MoreOutput,
          Success, Failure
  <1>4. Operations'
    BY <1>1, <1>2 DEF CustomIo, Operations, IoTypes, TypeOK, setup, decoding, inputs,
        outputs, MoreInput, MoreOutput, Success, Failure
  <1>5. DecoderInvariant'
    BY <1>1, <1>2 DEF CustomIo, DecoderInvariant, Operations, IoTypes, TypeOK, setup,
        decoding, inputs, outputs, MoreInput, MoreOutput, Success, Failure
  <1>6. SourceInvariant'
    BY <1>1, <1>2 DEF CustomIo, SourceInvariant, DecoderInvariant, Operations, IoTypes,
        TypeOK, InputInOrder, avail_in, setup, decoding, inputs, outputs, MoreInput,
        MoreOutput, Success, Failure
  <1>7. DeliveryInvariant'
    <2>1. output' = <<>> /\ Len(output') = 0 /\ written' = 0
      BY EmptySeq DEF CustomIo
    <2>2. UNCHANGED <<emitted, received, later, sink_ok, front, decoder>>
      BY DEF CustomIo, setup, decoding, inputs, outputs
    <2>3. Len(received) \in Nat /\ emitted \in Nat /\ Bytes(emitted, emitted) = <<>>
      BY <1>1, NoBytes DEF IoTypes
    <2>4. Held' = 0
      BY <2>1 DEF Held
    <2>5. Held \in Nat /\ (sink_ok /\ (front = "Decompressor" => decoder # "failed") => Held = 0)
      BY <1>1, <1>2 DEF CustomIo, Held, Operations, SourceInvariant, DecoderInvariant,
          IoTypes, TypeOK, setup, decoding, inputs, outputs
    <2>6. capacity' \in Nat
      BY <1>1, <1>2, SizesAssumption DEF DeliveryInvariant, CustomIo, setup, decoding,
          inputs, outputs
    <2>7. QED
      BY <1>1, <2>1, <2>2, <2>3, <2>4, <2>5, <2>6 DEF DeliveryInvariant
  <1>8. InputInOrder'
    BY <1>1, <1>2 DEF CustomIo, InputInOrder, avail_in, SourceInvariant,
        DecoderInvariant, Operations, IoTypes, TypeOK, setup, decoding, inputs, outputs,
        MoreInput, MoreOutput, Success, Failure
  <1>9. InvalidIsHonest'
    BY <1>1, <1>2 DEF CustomIo, InvalidIsHonest, Returned, Ok, Err, SourceInvariant,
        DecoderInvariant, InputInOrder, avail_in, Operations, IoTypes, TypeOK, setup,
        decoding, inputs, outputs, MoreInput, MoreOutput, Success, Failure
  <1>10. EndIsHonest'
    BY <1>1, <1>2 DEF CustomIo, EndIsHonest, Returned, Ok, Err, DecoderInvariant,
        DeliveryInvariant, Held, Operations, IoTypes, TypeOK, setup, decoding, inputs,
        outputs, MoreInput, MoreOutput, Success, Failure
  <1>11. PanicsOnlyWhenTold'
    BY <1>1, <1>2 DEF CustomIo, PanicsOnlyWhenTold, DecoderInvariant, Operations, setup,
        decoding, inputs, outputs, MoreInput, MoreOutput, Success, Failure
  <1>12. QED
    BY <1>3, <1>4, <1>5, <1>6, <1>7, <1>8, <1>9, <1>10, <1>11 DEF IoInvariant

LEMMA PumpMoreKeeps ==
  ASSUME IoInvariant, PumpMore
  PROVE  IoInvariant'
  <1>1. /\ IoTypes /\ Operations /\ DecoderInvariant /\ SourceInvariant /\ DeliveryInvariant
        /\ InputInOrder /\ InvalidIsHonest /\ EndIsHonest /\ PanicsOnlyWhenTold
    BY DEF IoInvariant
  <1>2. /\ stream.length \in Nat \ {0} /\ stream.supplied \in Nat /\ stream.output \in Nat
        /\ stream.corrupt \in BOOLEAN /\ buffer_size \in Nat \ {0}
    BY <1>1, SizesAre
  <1>3. IoTypes'
    BY <1>1, <1>2 DEF PumpMore, SourceGives, Goto, IoTypes, TypeOK, Operations,
        DecoderInvariant, SourceInvariant, Fronts, setup, decoding, inputs, outputs,
        MoreInput, MoreOutput, Success, Failure
  <1>4. Operations'
    BY <1>1, <1>2 DEF PumpMore, SourceGives, Goto, Operations, IoTypes, TypeOK, setup,
        decoding, inputs, outputs, MoreInput, MoreOutput, Success, Failure
  <1>5. DecoderInvariant'
    BY <1>1, <1>2 DEF PumpMore, SourceGives, Goto, DecoderInvariant, Operations,
        IoTypes, TypeOK, setup, decoding, inputs, outputs, MoreInput, MoreOutput,
        Success, Failure
  <1>6. SourceInvariant'
    BY <1>1, <1>2 DEF PumpMore, SourceGives, Goto, SourceInvariant, DecoderInvariant,
        Operations, IoTypes, TypeOK, InputInOrder, avail_in, setup, decoding, inputs,
        outputs, MoreInput, MoreOutput, Success, Failure
  <1>7. DeliveryInvariant'
    BY <1>1, <1>2 DEF PumpMore, SourceGives, Goto, DeliveryInvariant, Held, Operations,
        DecoderInvariant, IoTypes, TypeOK, setup, decoding, inputs, outputs, MoreInput,
        MoreOutput, Success, Failure
  <1>8. InputInOrder'
    BY <1>1, <1>2 DEF PumpMore, SourceGives, Goto, InputInOrder, avail_in,
        SourceInvariant, DecoderInvariant, Operations, IoTypes, TypeOK, setup, decoding,
        inputs, outputs, MoreInput, MoreOutput, Success, Failure
  <1>9. InvalidIsHonest'
    BY <1>1, <1>2 DEF PumpMore, SourceGives, Goto, InvalidIsHonest, Returned, Ok, Err,
        SourceInvariant, DecoderInvariant, InputInOrder, avail_in, Operations, IoTypes,
        TypeOK, setup, decoding, inputs, outputs, MoreInput, MoreOutput, Success,
        Failure
  <1>10. EndIsHonest'
    BY <1>1, <1>2 DEF PumpMore, SourceGives, Goto, EndIsHonest, Returned, Ok, Err,
        DecoderInvariant, DeliveryInvariant, Held, Operations, IoTypes, TypeOK, setup,
        decoding, inputs, outputs, MoreInput, MoreOutput, Success, Failure
  <1>11. PanicsOnlyWhenTold'
    BY <1>1, <1>2 DEF PumpMore, SourceGives, Goto, PanicsOnlyWhenTold, DecoderInvariant,
        Operations, setup, decoding, inputs, outputs, MoreInput, MoreOutput, Success,
        Failure
  <1>12. QED
    BY <1>3, <1>4, <1>5, <1>6, <1>7, <1>8, <1>9, <1>10, <1>11 DEF IoInvariant

LEMMA PumpEndsKeeps ==
  ASSUME IoInvariant, PumpEnds
  PROVE  IoInvariant'
  <1>1. /\ IoTypes /\ Operations /\ DecoderInvariant /\ SourceInvariant /\ DeliveryInvariant
        /\ InputInOrder /\ InvalidIsHonest /\ EndIsHonest /\ PanicsOnlyWhenTold
    BY DEF IoInvariant
  <1>2. /\ stream.length \in Nat \ {0} /\ stream.supplied \in Nat /\ stream.output \in Nat
        /\ stream.corrupt \in BOOLEAN /\ buffer_size \in Nat \ {0}
    BY <1>1, SizesAre
  <1>3. IoTypes'
    BY <1>1, <1>2 DEF PumpEnds, SourceEnds, Finish, Err, IoTypes, TypeOK, Operations,
        DecoderInvariant, SourceInvariant, Fronts, setup, decoding, inputs, outputs,
        MoreInput, MoreOutput, Success, Failure
  <1>4. Operations'
    BY <1>1, <1>2 DEF PumpEnds, SourceEnds, Finish, Err, Operations, IoTypes, TypeOK,
        setup, decoding, inputs, outputs, MoreInput, MoreOutput, Success, Failure
  <1>5. DecoderInvariant'
    BY <1>1, <1>2 DEF PumpEnds, SourceEnds, Finish, Err, DecoderInvariant, Operations,
        IoTypes, TypeOK, setup, decoding, inputs, outputs, MoreInput, MoreOutput,
        Success, Failure
  <1>6. SourceInvariant'
    BY <1>1, <1>2 DEF PumpEnds, SourceEnds, Finish, Err, SourceInvariant,
        DecoderInvariant, Operations, IoTypes, TypeOK, InputInOrder, avail_in, setup,
        decoding, inputs, outputs, MoreInput, MoreOutput, Success, Failure
  <1>7. DeliveryInvariant'
    BY <1>1, <1>2 DEF PumpEnds, SourceEnds, Finish, Err, DeliveryInvariant, Held,
        Operations, DecoderInvariant, IoTypes, TypeOK, setup, decoding, inputs, outputs,
        MoreInput, MoreOutput, Success, Failure
  <1>8. InputInOrder'
    BY <1>1, <1>2 DEF PumpEnds, SourceEnds, Finish, Err, InputInOrder, avail_in,
        SourceInvariant, DecoderInvariant, Operations, IoTypes, TypeOK, setup, decoding,
        inputs, outputs, MoreInput, MoreOutput, Success, Failure
  <1>9. InvalidIsHonest'
    BY <1>1, <1>2 DEF PumpEnds, SourceEnds, Finish, Err, InvalidIsHonest, Returned, Ok,
        SourceInvariant, DecoderInvariant, InputInOrder, avail_in, Operations, IoTypes,
        TypeOK, setup, decoding, inputs, outputs, MoreInput, MoreOutput, Success,
        Failure
  <1>10. EndIsHonest'
    BY <1>1, <1>2 DEF PumpEnds, SourceEnds, Finish, Err, EndIsHonest, Returned, Ok,
        DecoderInvariant, DeliveryInvariant, Held, Operations, IoTypes, TypeOK, setup,
        decoding, inputs, outputs, MoreInput, MoreOutput, Success, Failure
  <1>11. PanicsOnlyWhenTold'
    BY <1>1, <1>2 DEF PumpEnds, SourceEnds, Finish, Err, PanicsOnlyWhenTold,
        DecoderInvariant, Operations, setup, decoding, inputs, outputs, MoreInput,
        MoreOutput, Success, Failure
  <1>12. QED
    BY <1>3, <1>4, <1>5, <1>6, <1>7, <1>8, <1>9, <1>10, <1>11 DEF IoInvariant

LEMMA PumpSourceErrorKeeps ==
  ASSUME IoInvariant, PumpSourceError
  PROVE  IoInvariant'
  <1>1. /\ IoTypes /\ Operations /\ DecoderInvariant /\ SourceInvariant /\ DeliveryInvariant
        /\ InputInOrder /\ InvalidIsHonest /\ EndIsHonest /\ PanicsOnlyWhenTold
    BY DEF IoInvariant
  <1>2. /\ stream.length \in Nat \ {0} /\ stream.supplied \in Nat /\ stream.output \in Nat
        /\ stream.corrupt \in BOOLEAN /\ buffer_size \in Nat \ {0}
    BY <1>1, SizesAre
  <1>3. IoTypes'
    BY <1>1, <1>2 DEF PumpSourceError, Finish, Err, IoTypes, TypeOK, Operations,
        DecoderInvariant, SourceInvariant, Fronts, setup, decoding, inputs, outputs,
        MoreInput, MoreOutput, Success, Failure
  <1>4. Operations'
    BY <1>1, <1>2 DEF PumpSourceError, Finish, Err, Operations, IoTypes, TypeOK, setup,
        decoding, inputs, outputs, MoreInput, MoreOutput, Success, Failure
  <1>5. DecoderInvariant'
    BY <1>1, <1>2 DEF PumpSourceError, Finish, Err, DecoderInvariant, Operations,
        IoTypes, TypeOK, setup, decoding, inputs, outputs, MoreInput, MoreOutput,
        Success, Failure
  <1>6. SourceInvariant'
    BY <1>1, <1>2 DEF PumpSourceError, Finish, Err, SourceInvariant, DecoderInvariant,
        Operations, IoTypes, TypeOK, InputInOrder, avail_in, setup, decoding, inputs,
        outputs, MoreInput, MoreOutput, Success, Failure
  <1>7. DeliveryInvariant'
    BY <1>1, <1>2 DEF PumpSourceError, Finish, Err, DeliveryInvariant, Held, Operations,
        DecoderInvariant, IoTypes, TypeOK, setup, decoding, inputs, outputs, MoreInput,
        MoreOutput, Success, Failure
  <1>8. InputInOrder'
    BY <1>1, <1>2 DEF PumpSourceError, Finish, Err, InputInOrder, avail_in,
        SourceInvariant, DecoderInvariant, Operations, IoTypes, TypeOK, setup, decoding,
        inputs, outputs, MoreInput, MoreOutput, Success, Failure
  <1>9. InvalidIsHonest'
    BY <1>1, <1>2 DEF PumpSourceError, Finish, Err, InvalidIsHonest, Returned, Ok,
        SourceInvariant, DecoderInvariant, InputInOrder, avail_in, Operations, IoTypes,
        TypeOK, setup, decoding, inputs, outputs, MoreInput, MoreOutput, Success,
        Failure
  <1>10. EndIsHonest'
    BY <1>1, <1>2 DEF PumpSourceError, Finish, Err, EndIsHonest, Returned, Ok,
        DecoderInvariant, DeliveryInvariant, Held, Operations, IoTypes, TypeOK, setup,
        decoding, inputs, outputs, MoreInput, MoreOutput, Success, Failure
  <1>11. PanicsOnlyWhenTold'
    BY <1>1, <1>2 DEF PumpSourceError, Finish, Err, PanicsOnlyWhenTold,
        DecoderInvariant, Operations, setup, decoding, inputs, outputs, MoreInput,
        MoreOutput, Success, Failure
  <1>12. QED
    BY <1>3, <1>4, <1>5, <1>6, <1>7, <1>8, <1>9, <1>10, <1>11 DEF IoInvariant

LEMMA PumpOutputKeeps ==
  ASSUME IoInvariant, PumpOutput
  PROVE  IoInvariant'
  <1>1. /\ IoTypes /\ Operations /\ DecoderInvariant /\ SourceInvariant /\ DeliveryInvariant
        /\ InputInOrder /\ InvalidIsHonest /\ EndIsHonest /\ PanicsOnlyWhenTold
    BY DEF IoInvariant
  <1>2. /\ stream.length \in Nat \ {0} /\ stream.supplied \in Nat /\ stream.output \in Nat
        /\ stream.corrupt \in BOOLEAN /\ buffer_size \in Nat \ {0}
    BY <1>1, SizesAre
  <1>3. IoTypes'
    BY <1>1, <1>2 DEF PumpOutput, Goto, IoTypes, TypeOK, Operations, DecoderInvariant,
        SourceInvariant, Fronts, setup, decoding, inputs, outputs, MoreInput,
        MoreOutput, Success, Failure
  <1>4. Operations'
    BY <1>1, <1>2 DEF PumpOutput, Goto, Operations, IoTypes, TypeOK, setup, decoding,
        inputs, outputs, MoreInput, MoreOutput, Success, Failure
  <1>5. DecoderInvariant'
    BY <1>1, <1>2 DEF PumpOutput, Goto, DecoderInvariant, Operations, IoTypes, TypeOK,
        setup, decoding, inputs, outputs, MoreInput, MoreOutput, Success, Failure
  <1>6. SourceInvariant'
    BY <1>1, <1>2 DEF PumpOutput, Goto, SourceInvariant, DecoderInvariant, Operations,
        IoTypes, TypeOK, InputInOrder, avail_in, setup, decoding, inputs, outputs,
        MoreInput, MoreOutput, Success, Failure
  <1>7. DeliveryInvariant'
    BY <1>1, <1>2 DEF PumpOutput, Goto, DeliveryInvariant, Held, Operations,
        DecoderInvariant, IoTypes, TypeOK, setup, decoding, inputs, outputs, MoreInput,
        MoreOutput, Success, Failure
  <1>8. InputInOrder'
    BY <1>1, <1>2 DEF PumpOutput, Goto, InputInOrder, avail_in, SourceInvariant,
        DecoderInvariant, Operations, IoTypes, TypeOK, setup, decoding, inputs, outputs,
        MoreInput, MoreOutput, Success, Failure
  <1>9. InvalidIsHonest'
    BY <1>1, <1>2 DEF PumpOutput, Goto, InvalidIsHonest, Returned, Ok, Err,
        SourceInvariant, DecoderInvariant, InputInOrder, avail_in, Operations, IoTypes,
        TypeOK, setup, decoding, inputs, outputs, MoreInput, MoreOutput, Success,
        Failure
  <1>10. EndIsHonest'
    BY <1>1, <1>2 DEF PumpOutput, Goto, EndIsHonest, Returned, Ok, Err,
        DecoderInvariant, DeliveryInvariant, Held, Operations, IoTypes, TypeOK, setup,
        decoding, inputs, outputs, MoreInput, MoreOutput, Success, Failure
  <1>11. PanicsOnlyWhenTold'
    BY <1>1, <1>2 DEF PumpOutput, Goto, PanicsOnlyWhenTold, DecoderInvariant,
        Operations, setup, decoding, inputs, outputs, MoreInput, MoreOutput, Success,
        Failure
  <1>12. QED
    BY <1>3, <1>4, <1>5, <1>6, <1>7, <1>8, <1>9, <1>10, <1>11 DEF IoInvariant

LEMMA PumpGoesOnKeeps ==
  ASSUME IoInvariant, PumpGoesOn
  PROVE  IoInvariant'
  <1>1. /\ IoTypes /\ Operations /\ DecoderInvariant /\ SourceInvariant /\ DeliveryInvariant
        /\ InputInOrder /\ InvalidIsHonest /\ EndIsHonest /\ PanicsOnlyWhenTold
    BY DEF IoInvariant
  <1>2. /\ stream.length \in Nat \ {0} /\ stream.supplied \in Nat /\ stream.output \in Nat
        /\ stream.corrupt \in BOOLEAN /\ buffer_size \in Nat \ {0}
    BY <1>1, SizesAre
  <1>3. IoTypes'
    <2>1. output' = <<>> /\ Len(output') = 0 /\ output' \in Seq(Nat)
      BY <1>1, EmptySeq DEF PumpGoesOn, BufferReset, Goto
    <2>2. capacity' \in Nat
      BY <1>1, <1>2 DEF DeliveryInvariant, PumpGoesOn, BufferReset, Goto, setup,
          decoding, inputs, outputs
    <2>3. QED
      BY <1>1, <1>2, <2>1, <2>2 DEF PumpGoesOn, BufferReset, Goto, IoTypes, TypeOK,
          Operations, Fronts, setup, decoding, inputs, outputs, MoreInput, MoreOutput,
          Success, Failure
  <1>4. Operations'
    BY <1>1, <1>2 DEF PumpGoesOn, Goto, BufferReset, Operations, IoTypes, TypeOK, setup,
        decoding, inputs, outputs, MoreInput, MoreOutput, Success, Failure
  <1>5. DecoderInvariant'
    BY <1>1, <1>2 DEF PumpGoesOn, Goto, BufferReset, DecoderInvariant, Operations,
        IoTypes, TypeOK, setup, decoding, inputs, outputs, MoreInput, MoreOutput,
        Success, Failure
  <1>6. SourceInvariant'
    BY <1>1, <1>2 DEF PumpGoesOn, Goto, BufferReset, SourceInvariant, DecoderInvariant,
        Operations, IoTypes, TypeOK, InputInOrder, avail_in, setup, decoding, inputs,
        outputs, MoreInput, MoreOutput, Success, Failure
  <1>7. DeliveryInvariant'
    <2>1. output' = <<>> /\ Len(output') = 0 /\ written' = 0
      BY EmptySeq DEF PumpGoesOn, BufferReset, Goto
    <2>2. UNCHANGED <<emitted, received, later, sink_ok, front, decoder>>
      BY DEF PumpGoesOn, BufferReset, Goto, setup, decoding, inputs, outputs
    <2>3. Len(received) \in Nat /\ emitted \in Nat /\ Bytes(emitted, emitted) = <<>>
      BY <1>1, NoBytes DEF IoTypes
    <2>4. Held' = 0
      BY <2>1 DEF Held
    <2>5. Held \in Nat /\ (sink_ok /\ (front = "Decompressor" => decoder # "failed") => Held = 0)
      BY <1>1, <1>2 DEF PumpGoesOn, Held, Operations, SourceInvariant, DecoderInvariant,
          IoTypes, TypeOK, setup, decoding, inputs, outputs
    <2>6. capacity' \in Nat
      BY <1>1, <1>2 DEF DeliveryInvariant, PumpGoesOn, BufferReset, Goto, setup,
          decoding, inputs, outputs
    <2>7. QED
      BY <1>1, <2>1, <2>2, <2>3, <2>4, <2>5, <2>6 DEF DeliveryInvariant
  <1>8. InputInOrder'
    BY <1>1, <1>2 DEF PumpGoesOn, Goto, BufferReset, InputInOrder, avail_in,
        SourceInvariant, DecoderInvariant, Operations, IoTypes, TypeOK, setup, decoding,
        inputs, outputs, MoreInput, MoreOutput, Success, Failure
  <1>9. InvalidIsHonest'
    BY <1>1, <1>2 DEF PumpGoesOn, Goto, BufferReset, InvalidIsHonest, Returned, Ok, Err,
        SourceInvariant, DecoderInvariant, InputInOrder, avail_in, Operations, IoTypes,
        TypeOK, setup, decoding, inputs, outputs, MoreInput, MoreOutput, Success,
        Failure
  <1>10. EndIsHonest'
    BY <1>1, <1>2 DEF PumpGoesOn, Goto, BufferReset, EndIsHonest, Returned, Ok, Err,
        DecoderInvariant, DeliveryInvariant, Held, Operations, IoTypes, TypeOK, setup,
        decoding, inputs, outputs, MoreInput, MoreOutput, Success, Failure
  <1>11. PanicsOnlyWhenTold'
    BY <1>1, <1>2 DEF PumpGoesOn, Goto, BufferReset, PanicsOnlyWhenTold,
        DecoderInvariant, Operations, setup, decoding, inputs, outputs, MoreInput,
        MoreOutput, Success, Failure
  <1>12. QED
    BY <1>3, <1>4, <1>5, <1>6, <1>7, <1>8, <1>9, <1>10, <1>11 DEF IoInvariant

LEMMA PumpResultKeeps ==
  ASSUME IoInvariant, PumpResult
  PROVE  IoInvariant'
  <1>1. /\ IoTypes /\ Operations /\ DecoderInvariant /\ SourceInvariant /\ DeliveryInvariant
        /\ InputInOrder /\ InvalidIsHonest /\ EndIsHonest /\ PanicsOnlyWhenTold
    BY DEF IoInvariant
  <1>2. /\ stream.length \in Nat \ {0} /\ stream.supplied \in Nat /\ stream.output \in Nat
        /\ stream.corrupt \in BOOLEAN /\ buffer_size \in Nat \ {0}
    BY <1>1, SizesAre
  <1>3. IoTypes'
    BY <1>1, <1>2 DEF PumpResult, Finish, Ok, Err, IoTypes, TypeOK, Operations,
        DecoderInvariant, SourceInvariant, Fronts, setup, decoding, inputs, outputs,
        MoreInput, MoreOutput, Success, Failure
  <1>4. Operations'
    BY <1>1, <1>2 DEF PumpResult, Finish, Ok, Err, Operations, IoTypes, TypeOK, setup,
        decoding, inputs, outputs, MoreInput, MoreOutput, Success, Failure
  <1>5. DecoderInvariant'
    BY <1>1, <1>2 DEF PumpResult, Finish, Ok, Err, DecoderInvariant, Operations,
        IoTypes, TypeOK, setup, decoding, inputs, outputs, MoreInput, MoreOutput,
        Success, Failure
  <1>6. SourceInvariant'
    BY <1>1, <1>2 DEF PumpResult, Finish, Ok, Err, SourceInvariant, DecoderInvariant,
        Operations, IoTypes, TypeOK, InputInOrder, avail_in, setup, decoding, inputs,
        outputs, MoreInput, MoreOutput, Success, Failure
  <1>7. DeliveryInvariant'
    <2>1. Held' = Held
      BY <1>1, <1>2 DEF PumpResult, Finish, Held, Operations, SourceInvariant, IoTypes,
          TypeOK, setup, decoding, inputs, outputs
    <2>2. UNCHANGED <<capacity, emitted, output, received, later>>
      BY <1>1 DEF PumpResult, Finish, setup, decoding, inputs, outputs
    <2>3. (sink_ok /\ (front = "Decompressor" => decoder # "failed"))' => sink_ok /\ (front = "Decompressor" => decoder # "failed")
      BY <1>1 DEF PumpResult, Finish, setup, decoding, inputs, outputs
    <2>4. UNCHANGED sink_ok
      BY DEF PumpResult, Finish
    <2>5. QED
      BY <1>1, <2>1, <2>2, <2>3, <2>4 DEF DeliveryInvariant
  <1>8. InputInOrder'
    BY <1>1, <1>2 DEF PumpResult, Finish, Ok, Err, InputInOrder, avail_in,
        SourceInvariant, DecoderInvariant, Operations, IoTypes, TypeOK, setup, decoding,
        inputs, outputs, MoreInput, MoreOutput, Success, Failure
  <1>9. InvalidIsHonest'
    <2>1. UNCHANGED <<stream, sink_ok, taken, given>>
      BY DEF PumpResult, Finish, setup, decoding
    <2>2. ret' = Err("invalid") => result = Failure /\ phase = "sink"
      BY DEF PumpResult, Finish, Ok, Err
    <2>3. ret' = Err("invalid") => decoder = "failed"
      BY <1>1, <2>2 DEF DecoderInvariant
    <2>4. QED
      BY <1>1, <2>1, <2>3 DEF InvalidIsHonest, Returned, DecoderInvariant
  <1>10. EndIsHonest'
    <2>1. UNCHANGED <<front, stream, sink_ok, received>> /\ front = "DecompressCustomIo"
      BY <1>1 DEF PumpResult, Finish, Operations, setup
    <2>2. ret' = Ok(0) => decoder = "done"
      BY <1>1 DEF PumpResult, Finish, Ok, Err, DecoderInvariant
    <2>3. sink_ok /\ decoder = "done" => Len(received) = stream.output
      <3>1. Held = 0
        BY <1>1, <2>1 DEF PumpResult, Held, IoTypes
      <3>2. Len(received) \in Nat
        BY <1>1 DEF IoTypes
      <3>3. QED
        BY <1>1, <2>1, <3>1, <3>2 DEF DeliveryInvariant, DecoderInvariant
    <2>4. QED
      BY <1>1, <2>1, <2>2, <2>3 DEF EndIsHonest, Returned, DecoderInvariant
  <1>11. PanicsOnlyWhenTold'
    BY <1>1, <1>2 DEF PumpResult, Finish, Ok, Err, PanicsOnlyWhenTold, DecoderInvariant,
        Operations, setup, decoding, inputs, outputs, MoreInput, MoreOutput, Success,
        Failure
  <1>12. QED
    BY <1>3, <1>4, <1>5, <1>6, <1>7, <1>8, <1>9, <1>10, <1>11 DEF IoInvariant

LEMMA PumpSinkErrorKeeps ==
  ASSUME IoInvariant, PumpSinkError
  PROVE  IoInvariant'
  <1>1. /\ IoTypes /\ Operations /\ DecoderInvariant /\ SourceInvariant /\ DeliveryInvariant
        /\ InputInOrder /\ InvalidIsHonest /\ EndIsHonest /\ PanicsOnlyWhenTold
    BY DEF IoInvariant
  <1>2. /\ stream.length \in Nat \ {0} /\ stream.supplied \in Nat /\ stream.output \in Nat
        /\ stream.corrupt \in BOOLEAN /\ buffer_size \in Nat \ {0}
    BY <1>1, SizesAre
  <1>3. IoTypes'
    BY <1>1, <1>2 DEF PumpSinkError, SinkFails, Err, IoTypes, TypeOK, Operations,
        DecoderInvariant, SourceInvariant, Fronts, setup, decoding, inputs, outputs,
        MoreInput, MoreOutput, Success, Failure
  <1>4. Operations'
    BY <1>1, <1>2 DEF PumpSinkError, SinkFails, Err, Operations, IoTypes, TypeOK, setup,
        decoding, inputs, outputs, MoreInput, MoreOutput, Success, Failure
  <1>5. DecoderInvariant'
    BY <1>1, <1>2 DEF PumpSinkError, SinkFails, Err, DecoderInvariant, Operations,
        IoTypes, TypeOK, setup, decoding, inputs, outputs, MoreInput, MoreOutput,
        Success, Failure
  <1>6. SourceInvariant'
    BY <1>1, <1>2 DEF PumpSinkError, SinkFails, Err, SourceInvariant, DecoderInvariant,
        Operations, IoTypes, TypeOK, InputInOrder, avail_in, setup, decoding, inputs,
        outputs, MoreInput, MoreOutput, Success, Failure
  <1>7. DeliveryInvariant'
    BY <1>1, <1>2 DEF PumpSinkError, SinkFails, Err, DeliveryInvariant, Held,
        Operations, DecoderInvariant, IoTypes, TypeOK, setup, decoding, inputs, outputs,
        MoreInput, MoreOutput, Success, Failure
  <1>8. InputInOrder'
    BY <1>1, <1>2 DEF PumpSinkError, SinkFails, Err, InputInOrder, avail_in,
        SourceInvariant, DecoderInvariant, Operations, IoTypes, TypeOK, setup, decoding,
        inputs, outputs, MoreInput, MoreOutput, Success, Failure
  <1>9. InvalidIsHonest'
    BY <1>1, <1>2 DEF PumpSinkError, SinkFails, Err, InvalidIsHonest, Returned, Ok,
        SourceInvariant, DecoderInvariant, InputInOrder, avail_in, Operations, IoTypes,
        TypeOK, setup, decoding, inputs, outputs, MoreInput, MoreOutput, Success,
        Failure
  <1>10. EndIsHonest'
    BY <1>1, <1>2 DEF PumpSinkError, SinkFails, Err, EndIsHonest, Returned, Ok,
        DecoderInvariant, DeliveryInvariant, Held, Operations, IoTypes, TypeOK, setup,
        decoding, inputs, outputs, MoreInput, MoreOutput, Success, Failure
  <1>11. PanicsOnlyWhenTold'
    BY <1>1, <1>2 DEF PumpSinkError, SinkFails, Err, PanicsOnlyWhenTold,
        DecoderInvariant, Operations, setup, decoding, inputs, outputs, MoreInput,
        MoreOutput, Success, Failure
  <1>12. QED
    BY <1>3, <1>4, <1>5, <1>6, <1>7, <1>8, <1>9, <1>10, <1>11 DEF IoInvariant
-----------------------------------------------------------------------------
(* Safety *)

LEMMA InitHolds ==
  Init(Fronts) => IoInvariant
  <1> SUFFICES ASSUME Init(Fronts)
               PROVE  IoInvariant
    OBVIOUS
  <1>1. /\ front \in Fronts /\ buffer_size \in BufferSizes
        /\ stream \in [length : StreamLengths, supplied : SourceLengths,
                       output : OutputLengths, corrupt : BOOLEAN]
        /\ given = 0 /\ taken = 0 /\ produced = 0 /\ emitted = 0
        /\ decoder = "running" /\ result = MoreInput
        /\ op = "none" /\ phase = "idle" /\ ret = Err("none") /\ error_if_invalid_data = TRUE
        /\ input_buffer = [i \in 0 .. buffer_size - 1 |-> -1]
        /\ input_offset = 0 /\ input_len = 0
        /\ capacity = 0 /\ output = <<>> /\ written = 0
        /\ sink_ok = TRUE /\ received = <<>> /\ later = <<>>
    BY DEF Init
  <1>2. /\ stream.length \in Nat \ {0} /\ stream.supplied \in Nat /\ stream.output \in Nat
        /\ buffer_size \in Nat \ {0}
    BY <1>1, SizesAssumption
  <1>3. /\ output \in Seq(Nat) /\ Len(output) = 0
        /\ received \in Seq(Nat) /\ Len(received) = 0
    BY <1>1, EmptySeq
  <1>4. Bytes(0, 0) = <<>>
    BY NoBytes
  <1>5. IoTypes
    BY <1>1, <1>2, <1>3 DEF IoTypes, TypeOK, MoreInput
  <1>6. Operations
    BY <1>1, <1>3 DEF Operations
  <1>7. DecoderInvariant
    BY <1>1 DEF DecoderInvariant
  <1>8. SourceInvariant
    BY <1>1, <1>2 DEF SourceInvariant
  <1>9. DeliveryInvariant
    <2>1. Held = 0
      BY <1>1, <1>3 DEF Held
    <2>2. QED
      BY <1>1, <1>3, <1>4, <2>1 DEF DeliveryInvariant
  <1>10. InputInOrder
    BY <1>1 DEF InputInOrder, avail_in
  <1>11. InvalidIsHonest
    BY <1>1 DEF InvalidIsHonest, Returned, Err
  <1>12. EndIsHonest
    BY <1>1 DEF EndIsHonest, Returned, Err, Ok
  <1>13. PanicsOnlyWhenTold
    BY <1>1 DEF PanicsOnlyWhenTold
  <1>14. QED
    BY <1>5, <1>6, <1>7, <1>8, <1>9, <1>10, <1>11, <1>12, <1>13 DEF IoInvariant

LEMMA UnchangedKeeps ==
  ASSUME IoInvariant, UNCHANGED vars
  PROVE  IoInvariant'
  <1>1. /\ UNCHANGED <<front, stream, buffer_size, given, taken, produced, emitted, decoder, result>>
        /\ UNCHANGED <<input_buffer, input_offset, input_len, capacity, output, written>>
        /\ UNCHANGED <<op, phase, ret, error_if_invalid_data, sink_ok, received, later>>
    BY DEF vars, setup, decoding, inputs, outputs, calls
  <1>2. UNCHANGED <<IoTypes, Operations, DecoderInvariant, SourceInvariant>>
    BY <1>1 DEF IoTypes, TypeOK, Operations, DecoderInvariant, SourceInvariant
  <1>3. UNCHANGED <<DeliveryInvariant, InputInOrder, PanicsOnlyWhenTold>>
    BY <1>1 DEF DeliveryInvariant, Held, InputInOrder, avail_in, PanicsOnlyWhenTold
  <1>4. UNCHANGED <<InvalidIsHonest, EndIsHonest>>
    BY <1>1 DEF InvalidIsHonest, EndIsHonest, Returned
  <1>5. QED
    BY <1>2, <1>3, <1>4 DEF IoInvariant

LEMMA NextKeeps ==
  IoInvariant /\ [Next]_vars => IoInvariant'
  <1> SUFFICES ASSUME IoInvariant, [Next]_vars
               PROVE  IoInvariant'
    OBVIOUS
  <1>1. CASE \E n \in CallSizes : Uses(n)
    BY <1>1, ReadKeeps, WriteKeeps, CustomIoKeeps DEF Uses
  <1>2. CASE Flush
    BY <1>2, FlushKeeps
  <1>3. CASE Ends
    BY <1>3, CloseKeeps DEF Ends, IntoInner, Drop
  <1>4. CASE Step
    BY <1>4, DecodingKeeps, ReadResultKeeps, WriteOutputKeeps, WriteResultKeeps,
       CloseResultKeeps, PumpOutputKeeps, PumpGoesOnKeeps, PumpResultKeeps DEF Step
  <1>5. CASE SourceAnswers
    BY <1>5, ReadMoreKeeps, ReadEndsKeeps, PumpMoreKeeps, PumpEndsKeeps DEF SourceAnswers
  <1>6. CASE SourceErrors
    BY <1>6, ReadSourceErrorKeeps, PumpSourceErrorKeeps DEF SourceErrors
  <1>7. CASE Interrupted
    BY <1>7, UnchangedKeeps DEF Interrupted
  <1>8. CASE SinkAccepts
    BY <1>8, SinkAcceptsKeeps
  <1>9. CASE SinkErrors
    BY <1>9, WriteSinkErrorKeeps, PumpSinkErrorKeeps DEF SinkErrors
  <1>10. CASE UNCHANGED vars
    BY <1>10, UnchangedKeeps
  <1>11. QED
    BY <1>1, <1>2, <1>3, <1>4, <1>5, <1>6, <1>7, <1>8, <1>9, <1>10 DEF Next

\* The inductive invariant holds of the three loops.
THEOREM IoInvariantHolds ==
  Spec => []IoInvariant
  <1>1. Init(Fronts) => IoInvariant
    BY InitHolds
  <1>2. IoInvariant /\ [Next]_vars => IoInvariant'
    BY NextKeeps
  <1>3. QED
    BY <1>1, <1>2, PTL DEF Spec

\* The loops' offsets stay within their buffers: what the decoder is given is within what
\* was read, what it put out within the room there is, and what was written within that.
THEOREM TypesHold ==
  Spec => []TypeOK
  <1>1. IoInvariant => TypeOK
    BY DEF IoInvariant, IoTypes
  <1>2. QED
    BY <1>1, IoInvariantHolds, PTL

\* Whatever the source does and however the buffer is moved, the decoder is given the
\* encoded stream once and in order (reader.rs:258, writer.rs:315, lib.rs:243).
THEOREM InputStaysInOrder ==
  Spec => []InputInOrder
  <1>1. IoInvariant => InputInOrder
    BY DEF IoInvariant
  <1>2. QED
    BY <1>1, IoInvariantHolds, PTL

\* A stream is reported invalid only if it is, or ended too early (reader.rs:304), or if
\* a write that failed left a part of it out (writer.rs:331).
THEOREM InvalidIsReportedHonestly ==
  Spec => []InvalidIsHonest
  <1>1. IoInvariant => InvalidIsHonest
    BY DEF IoInvariant
  <1>2. QED
    BY <1>1, IoInvariantHolds, PTL

\* The end is reported only for a valid stream, and only when all of the output has been
\* handed over, unless the error of an earlier write told of a part that is gone.
THEOREM EndIsReportedHonestly ==
  Spec => []EndIsHonest
  <1>1. IoInvariant => EndIsHonest
    BY DEF IoInvariant
  <1>2. QED
    BY <1>1, IoInvariantHolds, PTL

\* The loops panic only on a stream whose user was told that it is invalid and went on.
THEOREM PanicsOnlyAfterTheError ==
  Spec => []PanicsOnlyWhenTold
  <1>1. IoInvariant => PanicsOnlyWhenTold
    BY DEF IoInvariant
  <1>2. QED
    BY <1>1, IoInvariantHolds, PTL
-----------------------------------------------------------------------------
(* The loops hand over a stream of bytes *)

LEMMA DecodingProduces ==
  ASSUME IoInvariant, BrotliDecompressStream
  PROVE  [Stream!Next]_<<produced, received>>
  <1>1. IoTypes /\ Operations /\ DeliveryInvariant
    BY DEF IoInvariant
  <1>2. stream.length \in Nat /\ stream.output \in Nat
    BY <1>1, SizesAre
  <1>3. produced' \in Nat /\ produced <= produced'
    BY <1>1, <1>2, DecodingAdvances
  <1>4. UNCHANGED received
    BY DEF BrotliDecompressStream
  <1>5. CASE produced' = produced
    BY <1>4, <1>5
  <1>6. CASE produced' # produced
    <2>1. produced' > produced
      <3>1. produced \in Nat
        BY <1>1 DEF IoTypes
      <3>2. QED
        BY <1>3, <1>6, <3>1
    <2>2. Stream!Produce
      BY <1>3, <1>4, <2>1 DEF Stream!Produce
    <2>3. QED
      BY <2>2 DEF Stream!Next
  <1>7. QED
    BY <1>5, <1>6

\* Handing over the next n bytes is a step of the stream, or nothing.
LEMMA NextBytesAreDelivered ==
  ASSUME IoTypes, NEW n \in Nat, Len(received) + n <= emitted, UNCHANGED produced,
         received' = received \o Bytes(Len(received), Len(received) + n)
  PROVE  [Stream!Next]_<<produced, received>>
  <1>1. /\ received \in Seq(Nat) /\ Len(received) \in Nat /\ emitted \in Nat /\ produced \in Nat
        /\ emitted <= produced
    BY DEF IoTypes, TypeOK
  <1>2. CASE n = 0
    <2>1. Bytes(Len(received), Len(received) + n) = <<>>
      BY <1>1, <1>2, NoBytes
    <2>2. received' = received
      BY <1>1, <2>1, ConcatEmptySeq
    <2>3. QED
      BY <2>2
  <1>3. CASE n # 0
    <2>1. n \in 1 .. produced - Len(received)
      BY <1>1, <1>3
    <2>2. (Len(received) + n) - Len(received) = n
      BY <1>1
    <2>3. Bytes(Len(received), Len(received) + n) = [k \in 1 .. n |-> Len(received) + k - 1]
      BY <2>2 DEF Bytes
    <2>4. Stream!Deliver
      BY <2>1, <2>3 DEF Stream!Deliver
    <2>5. QED
      BY <2>4 DEF Stream!Next
  <1>4. QED
    BY <1>2, <1>3

LEMMA ReadDelivers ==
  ASSUME IoInvariant, ReadResult
  PROVE  [Stream!Next]_<<produced, received>>
  <1>1. IoTypes /\ Operations /\ DecoderInvariant /\ DeliveryInvariant
    BY DEF IoInvariant
  <1>2. UNCHANGED produced
    BY DEF ReadResult, decoding
  <1>3. CASE ReturnOutput
    <2>1. output = Bytes(Len(received), emitted) /\ Len(received) + Len(output) = emitted
      BY <1>1, <1>3, ReadHandsOver
    <2>2. Len(output) \in Nat /\ emitted \in Nat
      BY <1>1 DEF IoTypes
    <2>3. received' = received \o Bytes(Len(received), Len(received) + Len(output))
      BY <1>3, <2>1 DEF ReturnOutput
    <2>4. Len(received) + Len(output) <= emitted
      BY <2>1, <2>2
    <2>5. QED
      BY <1>1, <1>2, <2>2, <2>3, <2>4, NextBytesAreDelivered
  <1>4. CASE UNCHANGED received
    BY <1>2, <1>4
  <1>5. QED
    BY <1>3, <1>4 DEF ReadResult

LEMMA SinkIsDelivered ==
  ASSUME IoInvariant, SinkAccepts
  PROVE  [Stream!Next]_<<produced, received>>
  <1>1. IoTypes /\ Operations /\ DeliveryInvariant
    BY DEF IoInvariant
  <1>2. UNCHANGED produced
    BY DEF SinkAccepts, decoding
  <1>0. CASE ~sink_ok
    <2>1. UNCHANGED received
      BY <1>0 DEF SinkAccepts
    <2>2. QED
      BY <1>2, <2>1
  <1> SUFFICES ASSUME sink_ok
               PROVE  [Stream!Next]_<<produced, received>>
    BY <1>0
  <1>3. /\ written' - written \in 1 .. Len(output) - written
        /\ Len(received) + (Len(output) - written) = emitted
        /\ received' = received \o Bytes(Len(received), Len(received) + (written' - written))
    BY <1>1, SinkIsGiven
  <1>4. Len(received) \in Nat /\ Len(output) \in Nat /\ written \in Nat /\ emitted \in Nat
    BY <1>1 DEF IoTypes
  <1>5. PICK n \in 1 .. Len(output) - written : n = written' - written
    BY <1>3
  <1>6. n \in Nat /\ Len(received) + n <= emitted
    <2>1. Len(received) + (Len(output) - written) = emitted
      BY <1>3
    <2>2. QED
      BY <1>4, <2>1
  <1>7. received' = received \o Bytes(Len(received), Len(received) + n)
    BY <1>3, <1>5
  <1>8. QED
    BY <1>1, <1>2, <1>6, <1>7, NextBytesAreDelivered

LEMMA NextIsAStep ==
  IoInvariant /\ [Next]_vars => [Stream!Next]_<<produced, received>>
  <1> SUFFICES ASSUME IoInvariant, [Next]_vars
               PROVE  [Stream!Next]_<<produced, received>>
    OBVIOUS
  <1>1. CASE \E n \in CallSizes : Uses(n)
    BY <1>1 DEF Uses, Read, Write, CustomIo, decoding
  <1>2. CASE Flush \/ Ends
    BY <1>2 DEF Flush, Ends, IntoInner, Drop, Close, decoding
  <1>3. CASE BrotliDecompressStream
    BY <1>3, DecodingProduces
  <1>4. CASE ReadResult
    BY <1>4, ReadDelivers
  <1>5. CASE WriteOutput \/ WriteResult \/ CloseResult \/ PumpOutput \/ PumpGoesOn \/ PumpResult
    BY <1>5 DEF WriteOutput, WriteResult, CloseResult, PumpOutput, PumpGoesOn, PumpResult,
                Finish, decoding
  <1>6. CASE SourceAnswers
    BY <1>6 DEF SourceAnswers, ReadMore, ReadEnds, PumpMore, PumpEnds, SourceGives, Finish,
                decoding
  <1>7. CASE SourceErrors
    BY <1>7 DEF SourceErrors, ReadSourceError, PumpSourceError, Finish, decoding
  <1>8. CASE SinkAccepts
    BY <1>8, SinkIsDelivered
  <1>9. CASE SinkErrors
    BY <1>9 DEF SinkErrors, WriteSinkError, PumpSinkError, SinkFails, decoding
  <1>10. CASE Interrupted \/ UNCHANGED vars
    BY <1>10 DEF Interrupted, vars, decoding
  <1>11. QED
    BY <1>1, <1>2, <1>3, <1>4, <1>5, <1>6, <1>7, <1>8, <1>9, <1>10 DEF Next, Step

\* The user of a reader, and the sink of a writer or of the call that does everything, get
\* the decoded bytes once and in order, whatever the sizes of the buffers, however often
\* the source fails or is interrupted, and whatever part of them the sink accepts, up to
\* the first write that fails.
THEOREM OutputIsAStream ==
  Spec => StreamSpec
  <1>1. Init(Fronts) => Stream!Init
    BY DEF Init, Stream!Init
  <1>2. IoInvariant /\ [Next]_vars => [Stream!Next]_<<produced, received>>
    BY NextIsAStep
  <1>3. QED
    BY <1>1, <1>2, IoInvariantHolds, PTL DEF Spec, StreamSpec, Stream!Spec
-----------------------------------------------------------------------------
(* A sink that failed and works again *)

\* Bytes are handed over in the order of the stream, all below this one.
Rising(s, bound) ==
  /\ \A i, j \in 1 .. Len(s) : i < j => s[i] < s[j]
  /\ \A i \in 1 .. Len(s) : s[i] < bound

\* What was handed over rises and comes before what is still held.
RisingInvariant == Rising(received \o later, emitted - Held)

LEMMA BytesRise ==
  ASSUME NEW a \in Nat, NEW b \in Nat, a <= b
  PROVE  Rising(Bytes(a, b), b) /\ \A i \in 1 .. Len(Bytes(a, b)) : Bytes(a, b)[i] >= a
  <1>1. Len(Bytes(a, b)) = b - a /\ \A k \in 1 .. b - a : Bytes(a, b)[k] = a + k - 1
    BY BytesAre
  <1>2. QED
    BY <1>1 DEF Rising

\* Rising bytes go on rising when later ones follow.
LEMMA RisingJoins ==
  ASSUME NEW s \in Seq(Nat), NEW a \in Nat, NEW b \in Nat, a <= b, Rising(s, a)
  PROVE  Rising(s \o Bytes(a, b), b)
  <1>1. /\ Bytes(a, b) \in Seq(Nat) /\ Len(Bytes(a, b)) = b - a
        /\ \A k \in 1 .. b - a : Bytes(a, b)[k] = a + k - 1
    BY BytesAre
  <1>2. PICK l \in Nat, t \in Seq(Nat) :
             /\ l = Len(s) /\ t = s \o Bytes(a, b) /\ Len(t) = l + (b - a)
             /\ \A i \in 1 .. l + (b - a) : t[i] = IF i <= l THEN s[i] ELSE Bytes(a, b)[i - l]
    <2>1. s \o Bytes(a, b) \in Seq(Nat) /\ Len(s) \in Nat
      BY <1>1, ConcatProperties
    <2>2. Len(s \o Bytes(a, b)) = Len(s) + (b - a)
      BY <1>1, ConcatProperties
    <2>3. \A i \in 1 .. Len(s) + (b - a) :
             (s \o Bytes(a, b))[i] = IF i <= Len(s) THEN s[i] ELSE Bytes(a, b)[i - Len(s)]
      BY <1>1, ConcatProperties
    <2>4. QED
      BY <2>1, <2>2, <2>3
  <1>3. \A i \in 1 .. l : s[i] \in Nat /\ s[i] < a
    BY <1>2, ElementOfSeq DEF Rising
  <1>4. \A i \in 1 .. l + (b - a) :
           /\ i <= l => t[i] = s[i] /\ t[i] \in Nat /\ t[i] < a
           /\ i > l => t[i] = a + (i - l) - 1
    <2> SUFFICES ASSUME NEW i \in 1 .. l + (b - a)
                 PROVE  /\ i <= l => t[i] = s[i] /\ t[i] \in Nat /\ t[i] < a
                        /\ i > l => t[i] = a + (i - l) - 1
      OBVIOUS
    <2>1. CASE i <= l
      BY <1>2, <1>3, <2>1
    <2>2. CASE i > l
      <3>1. i - l \in 1 .. b - a
        BY <2>2
      <3>2. QED
        BY <1>1, <1>2, <2>2, <3>1
    <2>3. QED
      BY <2>1, <2>2
  <1>5. \A i, j \in 1 .. l : i < j => s[i] < s[j]
    BY <1>2 DEF Rising
  <1>6. \A i, j \in 1 .. l + (b - a) : i < j => t[i] < t[j]
    <2> SUFFICES ASSUME NEW i \in 1 .. l + (b - a), NEW j \in 1 .. l + (b - a), i < j
                 PROVE  t[i] < t[j]
      OBVIOUS
    <2>1. CASE j <= l
      BY <1>4, <1>5, <2>1
    <2>2. CASE j > l /\ i <= l
      <3>1. t[j] = a + (j - l) - 1 /\ t[i] \in Nat /\ t[i] < a
        BY <1>4, <2>2
      <3>2. QED
        BY <2>2, <3>1
    <2>3. CASE i > l
      <3>1. t[j] = a + (j - l) - 1 /\ t[i] = a + (i - l) - 1
        BY <1>4, <2>3
      <3>2. QED
        BY <3>1
    <2>4. QED
      BY <2>1, <2>2, <2>3
  <1>7. \A i \in 1 .. l + (b - a) : t[i] < b
    <2> SUFFICES ASSUME NEW i \in 1 .. l + (b - a)
                 PROVE  t[i] < b
      OBVIOUS
    <2>1. CASE i <= l
      BY <1>4, <2>1
    <2>2. CASE i > l
      BY <1>4, <2>2
    <2>3. QED
      BY <2>1, <2>2
  <1>8. QED
    BY <1>2, <1>6, <1>7 DEF Rising

\* What is held is a number of bytes the decoder has put out.
LEMMA HeldIs ==
  ASSUME IoInvariant
  PROVE  Held \in Nat /\ emitted \in Nat /\ Held <= emitted
  <1>1. /\ Len(output) \in Nat /\ written \in Nat /\ emitted \in Nat
        /\ Len(output) <= emitted /\ written <= Len(output)
    BY DEF IoInvariant, IoTypes, TypeOK, DeliveryInvariant
  <1>2. QED
    BY <1>1 DEF Held

\* Nothing was handed over, and no more is held than before.
LEMMA HeldBack ==
  ASSUME IoInvariant, IoInvariant', RisingInvariant, UNCHANGED <<received, later>>,
         emitted - Held <= emitted' - Held'
  PROVE  RisingInvariant'
  <1>1. emitted - Held \in Int /\ emitted' - Held' \in Int
    <2>1. Held \in Nat /\ emitted \in Nat
      BY HeldIs
    <2>2. Held' \in Nat /\ emitted' \in Nat
      <3>1. Len(output') \in Nat /\ written' \in Nat /\ emitted' \in Nat /\ written' <= Len(output')
        BY DEF IoInvariant, IoTypes, TypeOK
      <3>2. QED
        BY <3>1 DEF Held
    <2>3. QED
      BY <2>1, <2>2
  <1>2. received \o later \in Seq(Nat)
    BY ConcatProperties DEF IoInvariant, IoTypes
  <1>3. PICK t \in Seq(Nat), x \in Int, y \in Int :
             t = received \o later /\ x = emitted - Held /\ y = emitted' - Held'
    BY <1>1, <1>2
  <1>4. received' \o later' = t /\ x <= y
    BY <1>3
  <1>5. Rising(t, x)
    BY <1>3 DEF RisingInvariant
  <1>6. \A i \in 1 .. Len(t) : t[i] \in Nat
    BY ElementOfSeq
  <1>7. Rising(t, y)
    BY <1>4, <1>5, <1>6 DEF Rising
  <1>8. QED
    BY <1>3, <1>4, <1>7 DEF RisingInvariant

\* An empty buffer, or one left as it is.
LEMMA SameOutput ==
  ASSUME IoInvariant, IoInvariant', RisingInvariant,
         UNCHANGED <<received, later, emitted, front>>,
         \/ output' = <<>> /\ written' = 0
         \/ UNCHANGED <<output, written>> /\ (op # "none" \/ op' = "none")
  PROVE  RisingInvariant'
  <1>1. Held \in Nat /\ emitted \in Nat
    BY HeldIs
  <1>2. Len(output) \in Nat /\ written \in Nat
    BY DEF IoInvariant, IoTypes
  <1>3. Held' = 0 \/ Held' = Held
    <2>1. CASE output' = <<>> /\ written' = 0
      BY <2>1, EmptySeq DEF Held
    <2>2. CASE UNCHANGED <<output, written>> /\ (op # "none" \/ op' = "none")
      BY <2>2 DEF Held
    <2>3. QED
      BY <2>1, <2>2
  <1>4. emitted - Held <= emitted' - Held'
    BY <1>1, <1>3
  <1>5. QED
    BY <1>4, HeldBack

LEMMA DecodingRises ==
  ASSUME IoInvariant, IoInvariant', RisingInvariant, BrotliDecompressStream
  PROVE  RisingInvariant'
  <1>1. /\ IoTypes /\ Operations /\ DeliveryInvariant
        /\ stream.length \in Nat /\ stream.output \in Nat
    BY SizesAre DEF IoInvariant
  <1>2. /\ Len(output') \in Nat /\ emitted' \in Nat /\ Held = Len(output)
        /\ Len(output') - Len(output) = emitted' - emitted
    BY <1>1, DecodingAdvances
  <1>3. Held' = Len(output') /\ UNCHANGED <<received, later>>
    BY <1>1, <1>2 DEF BrotliDecompressStream, Goto, Held, Operations
  <1>4. Len(output) \in Nat /\ emitted \in Nat
    BY <1>1 DEF IoTypes
  <1>5. emitted - Held <= emitted' - Held'
    <2>1. PICK l \in Nat, e \in Nat : l = Len(output') /\ e = emitted'
      BY <1>2
    <2>2. l - Len(output) = e - emitted
      BY <1>2, <2>1
    <2>3. emitted - Len(output) <= e - l
      BY <1>4, <2>2
    <2>4. QED
      BY <1>2, <1>3, <2>1, <2>3
  <1>6. QED
    BY <1>3, <1>5, HeldBack

LEMMA ReadRises ==
  ASSUME IoInvariant, IoInvariant', RisingInvariant, ReadResult
  PROVE  RisingInvariant'
  <1>1. /\ IoTypes /\ Operations /\ DecoderInvariant /\ DeliveryInvariant
    BY DEF IoInvariant
  <1>2. UNCHANGED <<front, emitted, output, written, later>> /\ op # "none"
    BY DEF ReadResult, setup, decoding, outputs
  <1>3. CASE ReturnOutput
    <2>1. received' = Bytes(0, emitted) /\ received' \in Seq(Nat)
      BY <1>1, <1>3, ReadHandsOver
    <2>2. later' = <<>> /\ Held' = 0 /\ emitted \in Nat
      BY <1>1, <1>2, <1>3 DEF ReadResult, ReturnOutput, Return, Operations, DeliveryInvariant,
          Held, IoTypes
    <2>3. received' \o later' = Bytes(0, emitted)
      BY <2>1, <2>2, ConcatEmptySeq
    <2>4. Rising(Bytes(0, emitted), emitted)
      BY <2>2, BytesRise
    <2>5. emitted' - Held' = emitted
      BY <1>2, <2>2
    <2>6. QED
      BY <2>3, <2>4, <2>5 DEF RisingInvariant
  <1>4. CASE UNCHANGED received
    BY <1>2, <1>4, SameOutput
  <1>5. QED
    BY <1>3, <1>4 DEF ReadResult

\* The order of joining makes no difference.
LEMMA JoinsJoin ==
  ASSUME NEW s \in Seq(Nat), NEW t \in Seq(Nat), NEW u \in Seq(Nat)
  PROVE  (s \o t) \o u = s \o (t \o u)
  BY ConcatAssociative

LEMMA SinkRises ==
  ASSUME IoInvariant, IoInvariant', RisingInvariant, SinkAccepts
  PROVE  RisingInvariant'
  <1>1. /\ IoTypes /\ Operations /\ DeliveryInvariant
    BY DEF IoInvariant
  <1>2. /\ Len(output) \in Nat /\ written \in Nat /\ emitted \in Nat /\ written <= Len(output)
        /\ received \in Seq(Nat) /\ later \in Seq(Nat) /\ Len(output) <= emitted
        /\ output = Bytes(emitted - Len(output), emitted)
    BY <1>1 DEF IoTypes, TypeOK, DeliveryInvariant
  <1>3. PICK n \in 1 .. Len(output) - written :
             /\ written' = written + n
             /\ ~sink_ok => /\ UNCHANGED received
                            /\ later' = later \o SubSeq(output, written + 1, written + n)
    BY DEF SinkAccepts
  <1>4. n \in Nat /\ written + n <= Len(output)
    BY <1>2, <1>3
  <1>5. Held = Len(output) - written /\ Held' = Len(output) - (written + n)
    BY <1>1, <1>3 DEF SinkAccepts, Operations, Held, Goto, setup
  <1>6. UNCHANGED <<emitted, sink_ok>>
    BY DEF SinkAccepts, decoding
  <1> DEFINE a == emitted - Held
             b == a + n
  <1>7. a \in Nat /\ b \in Nat /\ a <= b /\ emitted' - Held' = b
        /\ a = (emitted - Len(output)) + written /\ b = (emitted - Len(output)) + (written + n)
    BY <1>2, <1>4, <1>5, <1>6
  <1>8. CASE ~sink_ok
    <2>1. SubSeq(output, written + 1, written + n) = Bytes(a, b)
      <3>1. emitted - Len(output) \in Nat /\ emitted - Len(output) <= emitted
        BY <1>2
      <3>2. /\ written + n \in Nat /\ written <= written + n
            /\ written + n <= emitted - (emitted - Len(output))
        BY <1>2, <1>4
      <3>3. SubSeq(Bytes(emitted - Len(output), emitted), written + 1, written + n)
              = Bytes((emitted - Len(output)) + written, (emitted - Len(output)) + (written + n))
        <4>1. PICK f \in Nat, m \in Nat : f = emitted - Len(output) /\ m = written + n
          BY <3>1, <3>2
        <4>2. SubSeq(Bytes(f, emitted), written + 1, m) = Bytes(f + written, f + m)
          <5>1. f <= emitted /\ written <= m /\ m <= emitted - f
            BY <3>1, <3>2, <4>1
          <5>2. emitted \in Nat /\ written \in Nat
            BY <1>2
          <5>3. QED
            BY <5>1, <5>2, BytesPart
        <4>3. QED
          BY <4>1, <4>2
      <3>4. QED
        BY <1>2, <1>7, <3>3
    <2> HIDE DEF a, b
    <2>2. Bytes(a, b) \in Seq(Nat)
      BY <1>7, BytesAre
    <2>3. received' \o later' = (received \o later) \o Bytes(a, b)
      <3>1. received' = received /\ later' = later \o Bytes(a, b)
        BY <1>3, <1>8, <2>1
      <3>2. QED
        <4>1. PICK t \in Seq(Nat) : t = Bytes(a, b)
          BY <2>2
        <4>2. (received \o later) \o t = received \o (later \o t)
          <5>1. received \in Seq(Nat) /\ later \in Seq(Nat)
            BY <1>2
          <5>2. QED
            BY <4>1, <5>1, JoinsJoin
        <4>3. QED
          BY <3>1, <4>1, <4>2
    <2>4. received \o later \in Seq(Nat) /\ Rising(received \o later, a)
      BY <1>2, ConcatProperties DEF RisingInvariant, a
    <2>5. Rising((received \o later) \o Bytes(a, b), b)
      BY <1>7, <2>4, RisingJoins
    <2>6. QED
      BY <1>7, <2>3, <2>5 DEF RisingInvariant
  <1>9. CASE sink_ok
    <2> HIDE DEF a, b
    <2>1. received' \in Seq(Nat) /\ received' = Bytes(0, Len(received')) /\ later' = <<>>
      BY <1>1, <1>9, SinkTakes
    <2>2. Len(received') = b
      <3>1. Len(received) + Len(later) + (written' - written) = Len(received') + Len(later')
        BY <1>1, SinkTakes
      <3>2. Len(later) = 0 /\ Len(later') = 0
        BY <1>1, <1>9, <2>1, EmptySeq DEF DeliveryInvariant
      <3>3. Len(received) + (Len(output) - written) = emitted
        BY <1>1, <1>9, SinkIsGiven
      <3>4. Len(received) \in Nat /\ Len(received') \in Nat
        BY <1>2, <2>1
      <3>5. Len(received') = Len(received) + n
        BY <1>2, <1>3, <1>4, <3>1, <3>2, <3>4
      <3>6. QED
        BY <1>2, <1>4, <1>7, <3>3, <3>4, <3>5
    <2>3. received' \o later' = Bytes(0, b)
      BY <2>1, <2>2, ConcatEmptySeq
    <2>4. Rising(Bytes(0, b), b)
      <3>1. 0 <= b /\ b \in Nat
        BY <1>7
      <3>2. QED
        BY <3>1, BytesRise
    <2>5. QED
      BY <1>7, <2>3, <2>4 DEF RisingInvariant
  <1>10. QED
    BY <1>8, <1>9

LEMMA NextRises ==
  ASSUME IoInvariant, IoInvariant', RisingInvariant, [Next]_vars
  PROVE  RisingInvariant'
  <1>1. CASE \E n \in CallSizes : Uses(n)
    BY <1>1, SameOutput DEF Uses, Read, Write, OutputBuffer, CustomIo, setup, decoding
  <1>2. CASE Flush \/ Ends
    BY <1>2, SameOutput DEF Flush, Return, Ends, IntoInner, Drop, Close, OutputBuffer, setup,
        decoding, outputs
  <1>3. CASE BrotliDecompressStream
    BY <1>3, DecodingRises
  <1>4. CASE ReadResult
    BY <1>4, ReadRises
  <1>5. CASE WriteOutput \/ PumpOutput \/ PumpGoesOn \/ PumpResult
    BY <1>5, SameOutput DEF WriteOutput, PumpOutput, PumpGoesOn, BufferReset, PumpResult, Finish,
        Goto, IoInvariant, Operations, setup, decoding, outputs
  <1>6. CASE WriteResult \/ CloseResult
    <2>1. UNCHANGED <<received, later, emitted, front>> /\ op # "none"
      BY <1>6 DEF WriteResult, CloseResult, closing, setup, decoding
    <2>2. (output' = <<>> /\ written' = 0) \/ UNCHANGED <<output, written>>
      BY <1>6 DEF WriteResult, CloseResult, AgainOr, OutputBuffer, outputs
    <2>3. QED
      BY <2>1, <2>2, SameOutput
  <1>7. CASE SourceAnswers \/ SourceErrors
    <2>1. /\ UNCHANGED <<received, later, emitted, front, output, written>> /\ op # "none"
      BY <1>7 DEF SourceAnswers, SourceErrors, ReadMore, ReadEnds, PumpMore, PumpEnds,
          ReadSourceError, PumpSourceError, SourceGives, Finish, setup, decoding, outputs
    <2>2. QED
      BY <2>1, SameOutput
  <1>8. CASE SinkAccepts
    BY <1>8, SinkRises
  <1>9. CASE SinkErrors
    BY <1>9, SameOutput DEF SinkErrors, WriteSinkError, PumpSinkError, SinkFails, setup, decoding,
        outputs
  <1>10. CASE Interrupted \/ UNCHANGED vars
    BY <1>10, SameOutput DEF Interrupted, vars, calls, setup, decoding, outputs
  <1>11. QED
    BY <1>1, <1>2, <1>3, <1>4, <1>5, <1>6, <1>7, <1>8, <1>9, <1>10 DEF Next, Step

\* A sink that fails in a write and works again in a later one is given no byte twice
\* and none out of order (writer.rs:327), whatever parts it accepts.
THEOREM NothingGoesTwice ==
  Spec => []NothingTwice
  <1>1. Init(Fronts) => RisingInvariant
    <2> SUFFICES ASSUME Init(Fronts)
                 PROVE  RisingInvariant
      OBVIOUS
    <2>1. received \o later = <<>>
      BY ConcatEmptySeq, EmptySeq DEF Init
    <2>2. QED
      BY <2>1, EmptySeq DEF RisingInvariant, Rising
  <1>2. IoInvariant /\ IoInvariant' /\ RisingInvariant /\ [Next]_vars => RisingInvariant'
    BY NextRises
  <1>3. RisingInvariant => NothingTwice
    BY DEF RisingInvariant, Rising, NothingTwice
  <1>4. QED
    BY <1>1, <1>2, <1>3, IoInvariantHolds, PTL DEF Spec
=============================================================================
