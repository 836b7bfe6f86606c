--------------------------- MODULE OutputRingProofs ---------------------------
(***************************************************************************)
(* Theorems about the ring buffer and the output of the decoder, for every *)
(* window, every stream, valid or not, and every caller that the model     *)
(* admits: its counters first, then the bytes in it and those the caller   *)
(* is given, as long as no dictionary is in a shortened ring.              *)
(***************************************************************************)
EXTENDS OutputRing, SequenceTheorems, WellFoundedInduction, TLAPS

\* The number of the byte in the first cell.
RoundStart == rb_roundtrips * ringbuffer_size

\* There is a ring, smaller than the window.
Shortened == ringbuffer_size > 0 /\ ringbuffer_size < WindowSize

\* Bytes of a command that remaining has been charged for.
Pending ==
  IF state \in {"inner", "inner_write", "wrap_copy", "post_write_2"} THEN loop_counter ELSE 0

\* Before the ring is allocated there is no output.
NoRingInvariant ==
  ringbuffer_size = 0 =>
    /\ state \in {"metablock_begin", "metablock_done", "done"}
    /\ pos = 0 /\ rb_roundtrips = 0 /\ partial_pos_out = 0 /\ remaining = 0
    /\ ~should_wrap_ringbuffer /\ max_distance = 0

\* Outside the write states the position is in the ring; a word may have gone past its
\* end.  The ring goes round only when it is the whole window: a shortened one has room
\* for its only metablock.
PositionInvariant ==
  ringbuffer_size > 0 =>
    /\ custom_dict_size <= MaxBackward
    /\ pos <= ringbuffer_size + (IF state = "post_write_1" THEN Slack ELSE 0)
    /\ FullRing => \/ pos < ringbuffer_size
                   \/ state \in WriteStates \cup {"uncompressed_write"}
    /\ FullRing /\ state \in WriteStates \cup {"uncompressed_write"} =>
         pos >= ringbuffer_size \/ rb_roundtrips > 0
    /\ rb_roundtrips > 0 => FullRing
    /\ Shortened =>
         /\ 2 <= ringbuffer_size
         /\ pos + Pending + remaining <= ringbuffer_size
         /\ is_last_metablock \/ ends
         /\ state = "metablock_begin" => ends
         /\ state \in {"command_begin", "inner", "post_literals"} => pos < ringbuffer_size
         /\ state = "wrap_copy" /\ loop_counter > 0 => pos < ringbuffer_size

\* What the states say of the counters.
CounterInvariant ==
  /\ state = "metablock_begin" => remaining = 0
  /\ state \in {"metablock_done", "done"} => remaining <= 0
  /\ state = "command_begin" => remaining > 0
  /\ state = "uncompressed" => remaining >= 0
  /\ state = "inner" => loop_counter > 0

\* No copy reaches further back than the decoder has been.
DistanceInvariant ==
  ringbuffer_size > 0 =>
    /\ max_distance = MaxBackward =>
         rb_roundtrips > 0 \/ pos >= MaxBackward - custom_dict_size
    /\ state \in {"wrap_copy", "post_write_2"} =>
         /\ distance_code \in 1 .. MaxBackward
         /\ rb_roundtrips = 0 => distance_code <= pos + custom_dict_size

\* The caller has got nothing that was not decoded, and all of a round before the next.
\* Bytes past the end of the ring wait for the caller to take the rest of them.
OutputInvariant ==
  ringbuffer_size > 0 =>
    /\ RoundStart <= partial_pos_out
    /\ partial_pos_out <= RoundStart + Smaller(pos, ringbuffer_size)
    /\ should_wrap_ringbuffer =>
         /\ FullRing /\ state = "post_write_1" /\ remaining >= 0
         /\ pos > 0 /\ pos < ringbuffer_size /\ pos <= Slack
         /\ partial_pos_out = RoundStart
         /\ calling => available_out = 0

RingInvariant ==
  /\ TypeOK /\ NoRingInvariant /\ PositionInvariant /\ CounterInvariant
  /\ DistanceInvariant /\ OutputInvariant /\ ResultIsHonest
-----------------------------------------------------------------------------
(* Constants, numbers and the size of the ring *)

LEMMA ConstantsAre ==
  /\ WindowSize \in Nat /\ WindowGap \in Nat /\ Guess \in Nat /\ MinRing \in Nat
  /\ Slack \in Nat /\ Slack < WindowSize /\ 2 * Guess <= Slack /\ 3 <= MinRing
  /\ MinRing <= WindowSize
  /\ MaxBackward \in Nat /\ 2 <= MaxBackward /\ MaxBackward + Guess <= WindowSize
  /\ MaxBackward < WindowSize \/ Guess = 0
  /\ BlockLengths \subseteq Nat /\ InsertLengths \subseteq Nat
  /\ CopyLengths \subseteq Nat \ {0} /\ WordLengths \subseteq 0 .. Slack
  /\ DictionarySizes \subseteq Nat /\ OutputSizes \subseteq Nat /\ Everything \in Nat
  BY SizesAssumption, LengthsAssumption DEF MaxBackward

LEMMA LeastNatural ==
  ASSUME NEW T, T \subseteq Nat, T # {}
  PROVE  \E x \in T : \A y \in T : x <= y
  <1>1. IsWellFoundedOn(OpToRel(<, Nat), Nat)
    BY NatLessThanWellFounded
  <1>2. PICK x \in T : \A y \in T : ~ (<<y, x>> \in OpToRel(<, Nat))
    BY <1>1, WFMin
  <1>3. \A y \in T : ~(y < x)
    BY <1>2 DEF OpToRel
  <1>4. QED
    BY <1>3

LEMMA RemainderOfSum ==
  ASSUME NEW q \in Nat, NEW m \in Nat \ {0}, NEW r \in 0 .. m - 1
  PROVE  (q * m + r) % m = r
  OBVIOUS

LEMMA RemainderBack ==
  ASSUME NEW m \in Nat \ {0}, NEW p \in 0 .. m - 1, NEW d \in 1 .. m
  PROVE  (p - d) % m = (IF p >= d THEN p - d ELSE p - d + m)
  OBVIOUS

LEMMA HalvingsAre ==
  /\ Halvings \subseteq 1 .. WindowSize /\ WindowSize \in Halvings
  /\ \A t \in Halvings \ {1} : t \div 2 \in Halvings
  <1>1. Halvings \subseteq 1 .. WindowSize
    BY DEF Halvings
  <1>2. WindowSize \in Halvings
    <2>1. WindowSize \in Nat /\ 1 <= WindowSize
      BY ConstantsAre
    <2>2. WindowSize \in 1 .. WindowSize
      BY <2>1
    <2>3. QED
      BY <2>2 DEF Halvings
  <1>3. ASSUME NEW t \in Halvings \ {1}
        PROVE  t \div 2 \in Halvings
    <2>1. t \in 1 .. WindowSize /\ t # 1 /\ WindowSize \in Nat
      BY <1>1, ConstantsAre
    <2>2. t \div 2 \in 1 .. WindowSize
      BY <2>1
    <2>3. ASSUME NEW sizes \in SUBSET (1 .. WindowSize), WindowSize \in sizes,
                 \A u \in sizes \ {1} : u \div 2 \in sizes
          PROVE  t \div 2 \in sizes
      <3>1. t \in sizes
        BY <2>3 DEF Halvings
      <3>2. QED
        BY <2>1, <2>3, <3>1
    <2>4. QED
      BY <2>2, <2>3 DEF Halvings
  <1>4. QED
    BY <1>1, <1>2, <1>3

\* A halving of the window, other than the window, is the half of another one.
LEMMA HalvedFrom ==
  ASSUME NEW s \in Halvings, s # WindowSize
  PROVE  \E t \in Halvings \ {1} : s = t \div 2
  <1> SUFFICES ASSUME \A t \in Halvings \ {1} : s # t \div 2
               PROVE  FALSE
    OBVIOUS
  <1> DEFINE sizes == Halvings \ {s}
  <1>1. sizes \in SUBSET (1 .. WindowSize) /\ WindowSize \in sizes
    BY HalvingsAre
  <1>2. \A t \in sizes \ {1} : t \div 2 \in sizes
    BY HalvingsAre
  <1>3. s \in sizes
    BY <1>1, <1>2 DEF Halvings
  <1>4. QED
    BY <1>3

LEMMA OneIsHalving == 1 \in Halvings
  <1>1. Halvings \subseteq Nat /\ Halvings # {} /\ 0 \notin Halvings
    BY HalvingsAre, ConstantsAre
  <1>2. PICK s \in Halvings : \A t \in Halvings : s <= t
    BY <1>1, LeastNatural
  <1>3. s = 1
    <2>1. SUFFICES ASSUME s # 1
                   PROVE  FALSE
      OBVIOUS
    <2>2. s \div 2 \in Halvings
      BY <2>1, HalvingsAre
    <2>3. s \in Nat /\ s \div 2 >= s
      BY <1>1, <1>2, <2>2
    <2>4. s = 0
      BY <2>3
    <2>5. QED
      BY <1>1, <2>4
  <1>4. QED
    BY <1>3

\* The ring is a halving of the window, and what has to fit does.
LEMMA RingSizeFits ==
  ASSUME NEW needed \in Nat, NEW last \in BOOLEAN
  PROVE  /\ RingSize(needed, last) \in Halvings
         /\ RingSize(needed, last) # WindowSize =>
              last /\ needed <= RingSize(needed, last) /\ 2 <= RingSize(needed, last)
  <1>1. CASE ~last
    BY <1>1, HalvingsAre DEF RingSize
  <1>2. CASE last
    <2> DEFINE Largest(s) == /\ ~FitsInHalf(s, needed)
                             /\ \A t \in Halvings : t > s => FitsInHalf(t, needed)
               rests == {n \in Nat : \E s \in Halvings : n = WindowSize - s /\ ~FitsInHalf(s, needed)}
    <2>1. rests \subseteq Nat /\ WindowSize - 1 \in rests
      <3>1. 1 \in Halvings /\ ~FitsInHalf(1, needed)
        BY OneIsHalving, ConstantsAre DEF FitsInHalf
      <3>2. WindowSize - 1 \in Nat
        BY ConstantsAre
      <3>3. QED
        BY <3>1, <3>2
    <2>2. PICK n \in rests : \A m \in rests : n <= m
      BY <2>1, LeastNatural
    <2>3. PICK s \in Halvings : n = WindowSize - s /\ ~FitsInHalf(s, needed)
      BY <2>2
    <2>4. ASSUME NEW t \in Halvings, t > s
          PROVE  FitsInHalf(t, needed)
      <3>1. SUFFICES ASSUME ~FitsInHalf(t, needed)
                     PROVE  FALSE
        OBVIOUS
      <3>2. t \in 1 .. WindowSize /\ s \in 1 .. WindowSize /\ WindowSize \in Nat
        BY HalvingsAre, ConstantsAre
      <3>3. WindowSize - t \in rests
        BY <3>1, <3>2
      <3>4. WindowSize - s <= WindowSize - t
        BY <2>2, <2>3, <3>3
      <3>5. QED
        BY <2>4, <3>2, <3>4
    <2>5. \E x \in Halvings : Largest(x)
      BY <2>3, <2>4
    <2>6. RingSize(needed, last) = CHOOSE x \in Halvings : Largest(x)
      BY <1>2 DEF RingSize
    <2>7. RingSize(needed, last) \in Halvings /\ Largest(RingSize(needed, last))
      BY <2>5, <2>6
    <2>8. ASSUME RingSize(needed, last) # WindowSize
          PROVE  needed <= RingSize(needed, last) /\ 2 <= RingSize(needed, last)
      <3>1. PICK t \in Halvings \ {1} : RingSize(needed, last) = t \div 2
        BY <2>7, <2>8, HalvedFrom
      <3>2. t \in Nat /\ t > 1 /\ MinRing \in Nat /\ 3 <= MinRing
        BY HalvingsAre, ConstantsAre
      <3>3. t > t \div 2
        BY <3>2
      <3>4. FitsInHalf(t, needed)
        BY <2>7, <3>1, <3>3
      <3>5. t >= 2 * needed /\ t > MinRing
        BY <3>4 DEF FitsInHalf
      <3>6. needed <= t \div 2 /\ 2 <= t \div 2
        BY <3>2, <3>5
      <3>7. QED
        BY <3>1, <3>6
    <2>9. QED
      BY <1>2, <2>7, <2>8
  <1>3. QED
    BY <1>1, <1>2

LEMMA RingFacts ==
  ASSUME RingInvariant, ringbuffer_size > 0
  PROVE  /\ pos \in Nat /\ rb_roundtrips \in Nat /\ partial_pos_out \in Nat /\ remaining \in Int
         /\ loop_counter \in Nat /\ available_out \in Nat /\ custom_dict_size \in Nat
         /\ ringbuffer_size \in Nat /\ ringbuffer_size <= WindowSize
         /\ RoundStart \in Nat /\ Total = RoundStart + pos
         /\ Smaller(pos, ringbuffer_size) \in Nat
         /\ Smaller(pos, ringbuffer_size) = (IF pos <= ringbuffer_size THEN pos ELSE ringbuffer_size)
         /\ RoundStart <= partial_pos_out
         /\ partial_pos_out <= RoundStart + Smaller(pos, ringbuffer_size)
         /\ UnwrittenBytes(TRUE) = RoundStart + Smaller(pos, ringbuffer_size) - partial_pos_out
         /\ UnwrittenBytes(TRUE) \in Nat
  <1>1. /\ pos \in Nat /\ rb_roundtrips \in Nat /\ partial_pos_out \in Nat /\ remaining \in Int
        /\ loop_counter \in Nat /\ available_out \in Nat /\ custom_dict_size \in Nat
        /\ ringbuffer_size \in {0} \cup Halvings
    BY DEF RingInvariant, TypeOK
  <1>2. ringbuffer_size \in Nat /\ ringbuffer_size <= WindowSize
    BY <1>1, HalvingsAre, ConstantsAre
  <1>3. RoundStart \in Nat
    BY <1>1, <1>2 DEF RoundStart
  <1>4. Total = RoundStart + pos
    BY DEF Total, RoundStart
  <1>5. /\ Smaller(pos, ringbuffer_size) = (IF pos <= ringbuffer_size THEN pos ELSE ringbuffer_size)
        /\ Smaller(pos, ringbuffer_size) \in Nat
    BY <1>1, <1>2 DEF Smaller
  <1>6. /\ RoundStart <= partial_pos_out
        /\ partial_pos_out <= RoundStart + Smaller(pos, ringbuffer_size)
    BY DEF RingInvariant, OutputInvariant
  <1>7. UnwrittenBytes(TRUE) = RoundStart + Smaller(pos, ringbuffer_size) - partial_pos_out
    BY <1>1, <1>2, <1>5 DEF UnwrittenBytes, RoundStart
  <1>8. UnwrittenBytes(TRUE) \in Nat
    <2>1. PICK a \in Nat, b \in Nat : a = RoundStart /\ b = Smaller(pos, ringbuffer_size)
      BY <1>3, <1>5
    <2>2. partial_pos_out <= a + b
      BY <1>6, <2>1
    <2>3. a + b - partial_pos_out \in Nat
      BY <1>1, <2>2
    <2>4. QED
      BY <1>7, <2>1, <2>3
  <1>9. QED
    BY <1>1, <1>2, <1>3, <1>4, <1>5, <1>6, <1>7, <1>8
-----------------------------------------------------------------------------
(* What writing does *)

\* The caller has all of the ring, and decoding goes on at its start.
GoesRound(offered, code) ==
  /\ RoundTrip(offered) /\ FullRing /\ pos >= ringbuffer_size /\ remaining >= 0
  /\ code = Success
  /\ pos' = pos - ringbuffer_size /\ rb_roundtrips' = rb_roundtrips + 1
  /\ partial_pos_out <= partial_pos_out' /\ partial_pos_out' <= partial_pos_out + offered
  /\ partial_pos_out' = RoundStart + ringbuffer_size

\* The caller has what there was room for.
Stays(offered, force, code) ==
  /\ ~RoundTrip(offered) /\ remaining >= 0
  /\ UNCHANGED <<pos, rb_roundtrips>>
  /\ partial_pos_out <= partial_pos_out' /\ partial_pos_out' <= partial_pos_out + offered
  /\ partial_pos_out' <= RoundStart + Smaller(pos, ringbuffer_size)
  /\ code \in {Success, MoreOutput}
  /\ code = MoreOutput => partial_pos_out' = partial_pos_out + offered
  /\ code = MoreOutput => partial_pos_out' < RoundStart + Smaller(pos, ringbuffer_size)
  /\ code = Success /\ (FullRing \/ force) =>
       /\ partial_pos_out' = RoundStart + Smaller(pos, ringbuffer_size)
       /\ FullRing => pos < ringbuffer_size

Fails(offered, code) ==
  /\ ~RoundTrip(offered) /\ remaining < 0 /\ code = BlockLength
  /\ UNCHANGED <<pos, rb_roundtrips, partial_pos_out, delivered>>

LEMMA WriteDoes ==
  ASSUME RingInvariant, ringbuffer_size > 0, NEW cells, NEW offered \in Nat,
         NEW force \in BOOLEAN, NEW code, WriteRingBuffer(cells, offered, force, code)
  PROVE  /\ GoesRound(offered, code) \/ Stays(offered, force, code) \/ Fails(offered, code)
         /\ Written(offered) \in Nat /\ partial_pos_out' \in Nat
  <1>1. /\ pos \in Nat /\ partial_pos_out \in Nat /\ remaining \in Int
        /\ RoundStart \in Nat /\ Smaller(pos, ringbuffer_size) \in Nat /\ ringbuffer_size \in Nat
        /\ Smaller(pos, ringbuffer_size) = (IF pos <= ringbuffer_size THEN pos ELSE ringbuffer_size)
    BY RingFacts
  <1>2. PICK u \in Nat : /\ u = UnwrittenBytes(TRUE)
                         /\ u = RoundStart + Smaller(pos, ringbuffer_size) - partial_pos_out
    BY RingFacts
  <1>3. PICK a \in Nat, b \in Nat : a = RoundStart /\ b = Smaller(pos, ringbuffer_size)
    BY <1>1
  <1>4. u = a + b - partial_pos_out
    BY <1>2, <1>3
  <1>5. Written(offered) = (IF offered <= u THEN offered ELSE u)
    BY <1>2 DEF Written, Smaller
  <1>6. AllWritten(offered) <=> remaining >= 0 /\ u <= offered
    BY <1>2 DEF AllWritten
  <1>7. RoundTrip(offered) <=> remaining >= 0 /\ u <= offered /\ FullRing /\ pos >= ringbuffer_size
    BY <1>6 DEF RoundTrip
  <1>8. Written(offered) \in Nat
    BY <1>2, <1>5
  <1>9. CASE remaining < 0
    <2>1. code = BlockLength /\ UNCHANGED <<pos, rb_roundtrips, partial_pos_out, delivered>>
      BY <1>1, <1>9 DEF WriteRingBuffer
    <2>2. QED
      BY <1>1, <1>7, <1>8, <1>9, <2>1 DEF Fails
  <1>10. CASE remaining >= 0
    <2>1. /\ code = IF ~AllWritten(offered) /\ (FullRing \/ force) THEN MoreOutput ELSE Success
          /\ partial_pos_out' = partial_pos_out + Written(offered)
          /\ IF RoundTrip(offered)
               THEN pos' = pos - ringbuffer_size /\ rb_roundtrips' = rb_roundtrips + 1
               ELSE UNCHANGED <<pos, rb_roundtrips>>
      BY <1>1, <1>10 DEF WriteRingBuffer
    <2>2. PICK w \in Nat : w = Written(offered)
      BY <1>8
    <2>3. partial_pos_out' = partial_pos_out + w
      BY <2>1, <2>2
    <2>4. w = (IF offered <= u THEN offered ELSE u)
      BY <1>5, <2>2
    <2>5. CASE RoundTrip(offered)
      <3>1. u <= offered /\ FullRing /\ pos >= ringbuffer_size
        BY <1>7, <2>5
      <3>2. u <= offered
        BY <3>1
      <3>3. w = u /\ w <= offered
        BY <2>4, <3>2
      <3>4. partial_pos_out + w = RoundStart + ringbuffer_size
        BY <1>1, <1>2, <3>1, <3>3
      <3>5. code = Success
        BY <1>6, <1>10, <2>1, <3>1
      <3>6. /\ partial_pos_out <= partial_pos_out + w
            /\ partial_pos_out + w <= partial_pos_out + offered
        BY <1>1, <3>3
      <3>7. GoesRound(offered, code)
        BY <1>10, <2>1, <2>3, <2>5, <3>1, <3>4, <3>5, <3>6 DEF GoesRound
      <3>8. QED
        BY <1>1, <1>8, <2>3, <3>7
    <2>6. CASE ~RoundTrip(offered)
      <3>1. /\ partial_pos_out <= partial_pos_out + w
            /\ partial_pos_out + w <= partial_pos_out + offered
            /\ partial_pos_out + w <= RoundStart + Smaller(pos, ringbuffer_size)
        BY <1>1, <1>2, <2>4
      <3>2. code \in {Success, MoreOutput}
        BY <2>1
      <3>3. ASSUME code = MoreOutput
            PROVE  /\ partial_pos_out + w = partial_pos_out + offered
                   /\ partial_pos_out + w < RoundStart + Smaller(pos, ringbuffer_size)
        <4>1. ~AllWritten(offered)
          BY <2>1, <3>3 DEF Success, MoreOutput
        <4>2. ~(u <= offered)
          BY <1>6, <1>10, <4>1
        <4>3. w = offered /\ partial_pos_out + w < a + b
          BY <1>1, <1>4, <2>4, <4>2
        <4>4. QED
          BY <1>3, <4>3
      <3>4. ASSUME code = Success, FullRing \/ force
            PROVE  /\ partial_pos_out + w = RoundStart + Smaller(pos, ringbuffer_size)
                   /\ FullRing => pos < ringbuffer_size
        <4>1. AllWritten(offered)
          BY <2>1, <3>4 DEF Success, MoreOutput
        <4>2. u <= offered
          BY <1>6, <4>1
        <4>3. w = u
          BY <2>4, <4>2
        <4>4. partial_pos_out + w = a + b
          BY <1>1, <1>4, <4>3
        <4>5. partial_pos_out + w = RoundStart + Smaller(pos, ringbuffer_size)
          BY <1>3, <4>4
        <4>6. FullRing => ~(pos >= ringbuffer_size)
          BY <1>7, <1>10, <2>6, <4>2
        <4>7. QED
          BY <1>1, <4>5, <4>6
      <3>5. Stays(offered, force, code)
        BY <1>10, <2>1, <2>3, <2>6, <3>1, <3>2, <3>3, <3>4 DEF Stays
      <3>6. QED
        BY <1>1, <1>8, <2>3, <3>5
    <2>7. QED
      BY <2>5, <2>6
  <1>11. QED
    BY <1>1, <1>9, <1>10
-----------------------------------------------------------------------------
(* The steps: the state of the ring *)

LEMMA CallKeepsRing ==
  ASSUME RingInvariant, NEW n \in OutputSizes, Call(n)
  PROVE  RingInvariant'
  <1>1. /\ TypeOK /\ NoRingInvariant /\ PositionInvariant /\ CounterInvariant
        /\ DistanceInvariant /\ OutputInvariant /\ ResultIsHonest
    BY DEF RingInvariant
  <1>2. TypeOK'
    BY <1>1, ConstantsAre DEF Call, IsFatal, TypeOK, rings, outs, copies, blocks, calls,
        GoOn, Return, WriteStates, Codes, Success, MoreInput, MoreOutput, BlockLength,
        Invalid
  <1>3. NoRingInvariant'
    BY <1>1, ConstantsAre DEF Call, IsFatal, TypeOK, NoRingInvariant, rings, outs, copies,
        blocks, calls, GoOn, Return, WriteStates, Codes, Success, MoreInput, MoreOutput,
        BlockLength, Invalid
  <1>4. PositionInvariant'
    BY <1>1, ConstantsAre DEF Call, IsFatal, TypeOK, NoRingInvariant, PositionInvariant,
        CounterInvariant, FullRing, Shortened, Pending, rings, outs, copies, blocks,
        calls, GoOn, Return, WriteStates, Codes, Success, MoreInput, MoreOutput,
        BlockLength, Invalid
  <1>5. CounterInvariant'
    BY <1>1, ConstantsAre DEF Call, IsFatal, TypeOK, NoRingInvariant, PositionInvariant,
        CounterInvariant, FullRing, Shortened, rings, outs, copies, blocks, calls, GoOn,
        Return, WriteStates, Codes, Success, MoreInput, MoreOutput, BlockLength, Invalid
  <1>6. DistanceInvariant'
    BY <1>1, ConstantsAre DEF Call, IsFatal, TypeOK, NoRingInvariant, DistanceInvariant,
        rings, outs, copies, blocks, calls, GoOn, Return, WriteStates, Codes, Success,
        MoreInput, MoreOutput, BlockLength, Invalid
  <1>7. OutputInvariant'
    BY <1>1, ConstantsAre DEF Call, IsFatal, TypeOK, NoRingInvariant, PositionInvariant,
        OutputInvariant, RoundStart, FullRing, Shortened, rings, outs, copies, blocks,
        calls, GoOn, Return, WriteStates, Codes, Success, MoreInput, MoreOutput,
        BlockLength, Invalid
  <1>8. ResultIsHonest'
    BY <1>1, ConstantsAre DEF Call, IsFatal, TypeOK, ResultIsHonest, Total, rings, outs,
        copies, blocks, calls, GoOn, Return, WriteStates, Codes, Success, MoreInput,
        MoreOutput, BlockLength, Invalid
  <1>9. QED
    BY <1>2, <1>3, <1>4, <1>5, <1>6, <1>7, <1>8 DEF RingInvariant

LEMMA MetablockDoneKeepsRing ==
  ASSUME RingInvariant, MetablockDone
  PROVE  RingInvariant'
  <1>1. /\ TypeOK /\ NoRingInvariant /\ PositionInvariant /\ CounterInvariant
        /\ DistanceInvariant /\ OutputInvariant /\ ResultIsHonest
    BY DEF RingInvariant
  <1>2. TypeOK'
    BY <1>1, ConstantsAre DEF MetablockDone, TypeOK, rings, outs, copies, blocks, calls,
        GoOn, Return, WriteStates, Codes, Success, MoreInput, MoreOutput, BlockLength,
        Invalid
  <1>3. NoRingInvariant'
    BY <1>1, ConstantsAre DEF MetablockDone, TypeOK, NoRingInvariant, rings, outs, copies,
        blocks, calls, GoOn, Return, WriteStates, Codes, Success, MoreInput, MoreOutput,
        BlockLength, Invalid
  <1>4. PositionInvariant'
    BY <1>1, ConstantsAre DEF MetablockDone, TypeOK, NoRingInvariant, PositionInvariant,
        CounterInvariant, FullRing, Shortened, Pending, rings, outs, copies, blocks,
        calls, GoOn, Return, WriteStates, Codes, Success, MoreInput, MoreOutput,
        BlockLength, Invalid
  <1>5. CounterInvariant'
    BY <1>1, ConstantsAre DEF MetablockDone, TypeOK, NoRingInvariant, PositionInvariant,
        CounterInvariant, FullRing, Shortened, rings, outs, copies, blocks, calls, GoOn,
        Return, WriteStates, Codes, Success, MoreInput, MoreOutput, BlockLength, Invalid
  <1>6. DistanceInvariant'
    BY <1>1, ConstantsAre DEF MetablockDone, TypeOK, NoRingInvariant, DistanceInvariant,
        rings, outs, copies, blocks, calls, GoOn, Return, WriteStates, Codes, Success,
        MoreInput, MoreOutput, BlockLength, Invalid
  <1>7. OutputInvariant'
    BY <1>1, ConstantsAre DEF MetablockDone, TypeOK, NoRingInvariant, PositionInvariant,
        OutputInvariant, RoundStart, FullRing, Shortened, rings, outs, copies, blocks,
        calls, GoOn, Return, WriteStates, Codes, Success, MoreInput, MoreOutput,
        BlockLength, Invalid
  <1>8. ResultIsHonest'
    BY <1>1, ConstantsAre DEF MetablockDone, TypeOK, ResultIsHonest, Total, rings, outs,
        copies, blocks, calls, GoOn, Return, WriteStates, Codes, Success, MoreInput,
        MoreOutput, BlockLength, Invalid
  <1>9. QED
    BY <1>2, <1>3, <1>4, <1>5, <1>6, <1>7, <1>8 DEF RingInvariant

LEMMA InvalidStreamKeepsRing ==
  ASSUME RingInvariant, InvalidStream
  PROVE  RingInvariant'
  <1>1. /\ TypeOK /\ NoRingInvariant /\ PositionInvariant /\ CounterInvariant
        /\ DistanceInvariant /\ OutputInvariant /\ ResultIsHonest
    BY DEF RingInvariant
  <1>2. TypeOK'
    BY <1>1, ConstantsAre DEF InvalidStream, TypeOK, rings, outs, copies, blocks, calls,
        GoOn, Return, WriteStates, Codes, Success, MoreInput, MoreOutput, BlockLength,
        Invalid
  <1>3. NoRingInvariant'
    BY <1>1, ConstantsAre DEF InvalidStream, TypeOK, NoRingInvariant, rings, outs, copies,
        blocks, calls, GoOn, Return, WriteStates, Codes, Success, MoreInput, MoreOutput,
        BlockLength, Invalid
  <1>4. PositionInvariant'
    BY <1>1, ConstantsAre DEF InvalidStream, TypeOK, NoRingInvariant, PositionInvariant,
        CounterInvariant, FullRing, Shortened, Pending, rings, outs, copies, blocks,
        calls, GoOn, Return, WriteStates, Codes, Success, MoreInput, MoreOutput,
        BlockLength, Invalid
  <1>5. CounterInvariant'
    BY <1>1, ConstantsAre DEF InvalidStream, TypeOK, NoRingInvariant, PositionInvariant,
        CounterInvariant, FullRing, Shortened, rings, outs, copies, blocks, calls, GoOn,
        Return, WriteStates, Codes, Success, MoreInput, MoreOutput, BlockLength, Invalid
  <1>6. DistanceInvariant'
    BY <1>1, ConstantsAre DEF InvalidStream, TypeOK, NoRingInvariant, DistanceInvariant,
        rings, outs, copies, blocks, calls, GoOn, Return, WriteStates, Codes, Success,
        MoreInput, MoreOutput, BlockLength, Invalid
  <1>7. OutputInvariant'
    BY <1>1, ConstantsAre DEF InvalidStream, TypeOK, NoRingInvariant, PositionInvariant,
        OutputInvariant, RoundStart, FullRing, Shortened, rings, outs, copies, blocks,
        calls, GoOn, Return, WriteStates, Codes, Success, MoreInput, MoreOutput,
        BlockLength, Invalid
  <1>8. ResultIsHonest'
    BY <1>1, ConstantsAre DEF InvalidStream, TypeOK, ResultIsHonest, Total, rings, outs,
        copies, blocks, calls, GoOn, Return, WriteStates, Codes, Success, MoreInput,
        MoreOutput, BlockLength, Invalid
  <1>9. QED
    BY <1>2, <1>3, <1>4, <1>5, <1>6, <1>7, <1>8 DEF RingInvariant

LEMMA ReadCommandKeepsRing ==
  ASSUME RingInvariant, NEW insert \in InsertLengths, ReadCommand(insert)
  PROVE  RingInvariant'
  <1>1. /\ TypeOK /\ NoRingInvariant /\ PositionInvariant /\ CounterInvariant
        /\ DistanceInvariant /\ OutputInvariant /\ ResultIsHonest
    BY DEF RingInvariant
  <1>2. TypeOK'
    BY <1>1, ConstantsAre DEF ReadCommand, TypeOK, rings, outs, copies, blocks, calls,
        GoOn, Return, WriteStates, Codes, Success, MoreInput, MoreOutput, BlockLength,
        Invalid
  <1>3. NoRingInvariant'
    BY <1>1, ConstantsAre DEF ReadCommand, TypeOK, NoRingInvariant, rings, outs, copies,
        blocks, calls, GoOn, Return, WriteStates, Codes, Success, MoreInput, MoreOutput,
        BlockLength, Invalid
  <1>4. PositionInvariant'
    BY <1>1, ConstantsAre DEF ReadCommand, TypeOK, NoRingInvariant, PositionInvariant,
        CounterInvariant, FullRing, Shortened, Pending, rings, outs, copies, blocks,
        calls, GoOn, Return, WriteStates, Codes, Success, MoreInput, MoreOutput,
        BlockLength, Invalid
  <1>5. CounterInvariant'
    BY <1>1, ConstantsAre DEF ReadCommand, TypeOK, NoRingInvariant, PositionInvariant,
        CounterInvariant, FullRing, Shortened, rings, outs, copies, blocks, calls, GoOn,
        Return, WriteStates, Codes, Success, MoreInput, MoreOutput, BlockLength, Invalid
  <1>6. DistanceInvariant'
    BY <1>1, ConstantsAre DEF ReadCommand, TypeOK, NoRingInvariant, DistanceInvariant,
        rings, outs, copies, blocks, calls, GoOn, Return, WriteStates, Codes, Success,
        MoreInput, MoreOutput, BlockLength, Invalid
  <1>7. OutputInvariant'
    BY <1>1, ConstantsAre DEF ReadCommand, TypeOK, NoRingInvariant, PositionInvariant,
        OutputInvariant, RoundStart, FullRing, Shortened, rings, outs, copies, blocks,
        calls, GoOn, Return, WriteStates, Codes, Success, MoreInput, MoreOutput,
        BlockLength, Invalid
  <1>8. ResultIsHonest'
    BY <1>1, ConstantsAre DEF ReadCommand, TypeOK, ResultIsHonest, Total, rings, outs,
        copies, blocks, calls, GoOn, Return, WriteStates, Codes, Success, MoreInput,
        MoreOutput, BlockLength, Invalid
  <1>9. QED
    BY <1>2, <1>3, <1>4, <1>5, <1>6, <1>7, <1>8 DEF RingInvariant

LEMMA EndWrapCopyKeepsRing ==
  ASSUME RingInvariant, EndWrapCopy
  PROVE  RingInvariant'
  <1>1. /\ TypeOK /\ NoRingInvariant /\ PositionInvariant /\ CounterInvariant
        /\ DistanceInvariant /\ OutputInvariant /\ ResultIsHonest
    BY DEF RingInvariant
  <1>2. TypeOK'
    BY <1>1, ConstantsAre DEF EndWrapCopy, Following, TypeOK, rings, outs, copies, blocks,
        calls, GoOn, Return, WriteStates, Codes, Success, MoreInput, MoreOutput,
        BlockLength, Invalid
  <1>3. NoRingInvariant'
    BY <1>1, ConstantsAre DEF EndWrapCopy, Following, TypeOK, NoRingInvariant, rings,
        outs, copies, blocks, calls, GoOn, Return, WriteStates, Codes, Success, MoreInput,
        MoreOutput, BlockLength, Invalid
  <1>4. PositionInvariant'
    BY <1>1, ConstantsAre DEF EndWrapCopy, Following, TypeOK, NoRingInvariant,
        PositionInvariant, CounterInvariant, FullRing, Shortened, Pending, rings, outs,
        copies, blocks, calls, GoOn, Return, WriteStates, Codes, Success, MoreInput,
        MoreOutput, BlockLength, Invalid
  <1>5. CounterInvariant'
    BY <1>1, ConstantsAre DEF EndWrapCopy, Following, TypeOK, NoRingInvariant,
        PositionInvariant, CounterInvariant, FullRing, Shortened, rings, outs, copies,
        blocks, calls, GoOn, Return, WriteStates, Codes, Success, MoreInput, MoreOutput,
        BlockLength, Invalid
  <1>6. DistanceInvariant'
    BY <1>1, ConstantsAre DEF EndWrapCopy, Following, TypeOK, NoRingInvariant,
        DistanceInvariant, rings, outs, copies, blocks, calls, GoOn, Return, WriteStates,
        Codes, Success, MoreInput, MoreOutput, BlockLength, Invalid
  <1>7. OutputInvariant'
    BY <1>1, ConstantsAre DEF EndWrapCopy, Following, TypeOK, NoRingInvariant,
        PositionInvariant, OutputInvariant, RoundStart, FullRing, Shortened, rings, outs,
        copies, blocks, calls, GoOn, Return, WriteStates, Codes, Success, MoreInput,
        MoreOutput, BlockLength, Invalid
  <1>8. ResultIsHonest'
    BY <1>1, ConstantsAre DEF EndWrapCopy, Following, TypeOK, ResultIsHonest, Total,
        rings, outs, copies, blocks, calls, GoOn, Return, WriteStates, Codes, Success,
        MoreInput, MoreOutput, BlockLength, Invalid
  <1>9. QED
    BY <1>2, <1>3, <1>4, <1>5, <1>6, <1>7, <1>8 DEF RingInvariant

\* Decoding more leaves what the caller has got.
LEMMA AdvanceKeepsOutput ==
  ASSUME RingInvariant, ringbuffer_size > 0, state # "post_write_1",
         NEW q \in Nat, pos' = q, pos <= q,
         UNCHANGED <<ringbuffer_size, rb_roundtrips, partial_pos_out, should_wrap_ringbuffer>>
  PROVE  OutputInvariant'
  <1>1. ~should_wrap_ringbuffer
    BY DEF RingInvariant, OutputInvariant
  <1>2. /\ pos \in Nat /\ ringbuffer_size \in Nat /\ RoundStart \in Nat /\ partial_pos_out \in Nat
        /\ RoundStart <= partial_pos_out
    BY RingFacts
  <1>3. PICK a \in Nat, b \in Nat : a = RoundStart /\ b = Smaller(pos, ringbuffer_size)
    BY RingFacts
  <1>4. partial_pos_out <= a + b
    BY <1>3, RingFacts
  <1>5. b = (IF pos <= ringbuffer_size THEN pos ELSE ringbuffer_size)
    BY <1>3, RingFacts
  <1>6. PICK c \in Nat : c = Smaller(q, ringbuffer_size)
    BY <1>2 DEF Smaller
  <1>7. c = (IF q <= ringbuffer_size THEN q ELSE ringbuffer_size)
    BY <1>6 DEF Smaller
  <1>8. b <= c
    BY <1>2, <1>5, <1>7
  <1>9. partial_pos_out <= a + c
    BY <1>2, <1>4, <1>8
  <1>10. RoundStart' = RoundStart /\ Smaller(pos, ringbuffer_size)' = c
    BY <1>6 DEF RoundStart, Smaller
  <1>11. partial_pos_out <= RoundStart + c
    BY <1>3, <1>9
  <1>12. QED
    BY <1>1, <1>2, <1>10, <1>11 DEF OutputInvariant

LEMMA LiteralKeepsRing ==
  ASSUME RingInvariant, Literal
  PROVE  RingInvariant'
  <1>1. /\ TypeOK /\ NoRingInvariant /\ PositionInvariant /\ CounterInvariant
        /\ DistanceInvariant /\ OutputInvariant /\ ResultIsHonest
    BY DEF RingInvariant
  <1>2. /\ pos \in Nat /\ loop_counter \in Nat /\ remaining \in Int /\ rb_roundtrips \in Nat
        /\ partial_pos_out \in Nat /\ ringbuffer_size \in Nat /\ ringbuffer_size > 0
        /\ ringbuffer_size <= WindowSize /\ custom_dict_size \in Nat /\ max_distance \in 0 .. MaxBackward
        /\ RoundStart \in Nat
    <2>1. ringbuffer_size # 0
      BY <1>1 DEF Literal, NoRingInvariant
    <2>2. ringbuffer_size \in Nat
      BY <1>1, HalvingsAre, ConstantsAre DEF TypeOK
    <2>3. ringbuffer_size > 0
      BY <2>1, <2>2
    <2>4. max_distance \in 0 .. MaxBackward
      BY <1>1 DEF TypeOK
    <2>5. QED
      BY <2>3, <2>4, RingFacts
  <1>3. pos < ringbuffer_size /\ loop_counter > 0
    BY <1>1, <1>2, ConstantsAre DEF Literal, PositionInvariant, CounterInvariant,
        FullRing, Shortened, WriteStates
  <1>4. pos' = pos + 1 /\ loop_counter' = loop_counter - 1
    BY DEF Literal
  <1>5. \/ pos + 1 = ringbuffer_size /\ state' = "inner_write"
        \/ pos + 1 # ringbuffer_size /\ loop_counter - 1 > 0 /\ state' = "inner"
        \/ /\ pos + 1 # ringbuffer_size /\ loop_counter - 1 <= 0 /\ remaining <= 0
           /\ state' = "metablock_done"
        \/ /\ pos + 1 # ringbuffer_size /\ loop_counter - 1 <= 0 /\ remaining > 0
           /\ state' = "post_literals"
    <2>1. state' = CASE pos' = ringbuffer_size -> "inner_write"
                     [] pos' # ringbuffer_size /\ loop_counter' > 0 -> "inner"
                     [] OTHER -> Following(remaining, "post_literals")
      BY DEF Literal
    <2>2. Following(remaining, "post_literals")
            = (IF remaining <= 0 THEN "metablock_done" ELSE "post_literals")
      BY DEF Following
    <2>3. QED
      BY <1>2, <1>4, <2>1, <2>2
  <1>6. DOMAIN ringbuffer' = DOMAIN ringbuffer
    BY DEF Literal
  <1>7. /\ state = "inner" /\ calling /\ calling'
        /\ UNCHANGED <<ringbuffer_size, should_wrap_ringbuffer, partial_pos_out, rb_roundtrips>>
        /\ UNCHANGED <<available_out, max_distance, distance_code, remaining, error_code>>
        /\ UNCHANGED <<is_last_metablock, ends, custom_dict_size>>
    BY DEF Literal, outs, blocks, calls, GoOn
  <1>8. TypeOK'
    BY <1>1, <1>2, <1>3, <1>4, <1>5, <1>6, <1>7, ConstantsAre DEF TypeOK, WriteStates,
        Codes, Success, MoreInput, MoreOutput, BlockLength, Invalid
  <1>9. NoRingInvariant'
    BY <1>1, <1>2, <1>3, <1>4, <1>5, <1>6, <1>7, ConstantsAre DEF TypeOK, NoRingInvariant,
        WriteStates, Codes, Success, MoreInput, MoreOutput, BlockLength, Invalid
  <1>10. PositionInvariant'
    BY <1>1, <1>2, <1>3, <1>4, <1>5, <1>6, <1>7, ConstantsAre DEF TypeOK, NoRingInvariant,
        PositionInvariant, CounterInvariant, FullRing, Shortened, Pending, WriteStates,
        Codes, Success, MoreInput, MoreOutput, BlockLength, Invalid
  <1>11. CounterInvariant'
    BY <1>1, <1>2, <1>3, <1>4, <1>5, <1>6, <1>7, ConstantsAre DEF TypeOK, NoRingInvariant,
        PositionInvariant, CounterInvariant, FullRing, Shortened, WriteStates, Codes,
        Success, MoreInput, MoreOutput, BlockLength, Invalid
  <1>12. DistanceInvariant'
    BY <1>1, <1>2, <1>3, <1>4, <1>5, <1>6, <1>7, ConstantsAre DEF TypeOK, NoRingInvariant,
        DistanceInvariant, WriteStates, Codes, Success, MoreInput, MoreOutput,
        BlockLength, Invalid
  <1>13. OutputInvariant'
    <2>1. ringbuffer_size # 0 /\ state # "post_write_1"
      BY <1>1 DEF Literal, NoRingInvariant
    <2>2. ringbuffer_size > 0
      BY <1>1, <2>1, HalvingsAre, ConstantsAre DEF TypeOK
    <2>3. pos \in Nat
      BY <2>2, RingFacts
    <2>4. PICK q \in Nat : q = pos + 1 /\ pos <= q
      BY <2>3
    <2>5. pos' = q
      BY <2>4 DEF Literal
    <2>6. UNCHANGED <<ringbuffer_size, rb_roundtrips, partial_pos_out, should_wrap_ringbuffer>>
      BY DEF Literal, outs
    <2>7. QED
      BY <2>1, <2>2, <2>4, <2>5, <2>6, AdvanceKeepsOutput
  <1>14. ResultIsHonest'
    BY <1>1, <1>2, <1>3, <1>4, <1>5, <1>6, <1>7, ConstantsAre DEF TypeOK, ResultIsHonest,
        Total, WriteStates, Codes, Success, MoreInput, MoreOutput, BlockLength, Invalid
  <1>15. QED
    BY <1>8, <1>9, <1>10, <1>11, <1>12, <1>13, <1>14 DEF RingInvariant

LEMMA WrapCopyKeepsRing ==
  ASSUME RingInvariant, WrapCopy
  PROVE  RingInvariant'
  <1>1. /\ TypeOK /\ NoRingInvariant /\ PositionInvariant /\ CounterInvariant
        /\ DistanceInvariant /\ OutputInvariant /\ ResultIsHonest
    BY DEF RingInvariant
  <1>2. /\ pos \in Nat /\ loop_counter \in Nat /\ remaining \in Int /\ rb_roundtrips \in Nat
        /\ partial_pos_out \in Nat /\ ringbuffer_size \in Nat /\ ringbuffer_size > 0
        /\ ringbuffer_size <= WindowSize /\ custom_dict_size \in Nat /\ max_distance \in 0 .. MaxBackward
        /\ RoundStart \in Nat
    <2>1. ringbuffer_size # 0
      BY <1>1 DEF WrapCopy, NoRingInvariant
    <2>2. ringbuffer_size \in Nat
      BY <1>1, HalvingsAre, ConstantsAre DEF TypeOK
    <2>3. ringbuffer_size > 0
      BY <2>1, <2>2
    <2>4. max_distance \in 0 .. MaxBackward
      BY <1>1 DEF TypeOK
    <2>5. QED
      BY <2>3, <2>4, RingFacts
  <1>3. pos < ringbuffer_size /\ loop_counter > 0
    BY <1>1, <1>2, ConstantsAre DEF WrapCopy, PositionInvariant, FullRing, Shortened,
        WriteStates
  <1>4. pos' = pos + 1 /\ loop_counter' = loop_counter - 1
    BY DEF WrapCopy
  <1>5. \/ pos + 1 = ringbuffer_size /\ state' = "post_write_2"
        \/ pos + 1 # ringbuffer_size /\ state' = "wrap_copy"
    BY <1>4 DEF WrapCopy
  <1>6. DOMAIN ringbuffer' = DOMAIN ringbuffer
    BY DEF WrapCopy
  <1>7. /\ state = "wrap_copy" /\ calling /\ calling'
        /\ UNCHANGED <<ringbuffer_size, should_wrap_ringbuffer, partial_pos_out, rb_roundtrips>>
        /\ UNCHANGED <<available_out, max_distance, distance_code, remaining, error_code>>
        /\ UNCHANGED <<is_last_metablock, ends, custom_dict_size>>
    BY DEF WrapCopy, outs, blocks, calls, GoOn
  <1>8. TypeOK'
    BY <1>1, <1>2, <1>3, <1>4, <1>5, <1>6, <1>7, ConstantsAre DEF TypeOK, WriteStates,
        Codes, Success, MoreInput, MoreOutput, BlockLength, Invalid
  <1>9. NoRingInvariant'
    BY <1>1, <1>2, <1>3, <1>4, <1>5, <1>6, <1>7, ConstantsAre DEF TypeOK, NoRingInvariant,
        WriteStates, Codes, Success, MoreInput, MoreOutput, BlockLength, Invalid
  <1>10. PositionInvariant'
    BY <1>1, <1>2, <1>3, <1>4, <1>5, <1>6, <1>7, ConstantsAre DEF TypeOK, NoRingInvariant,
        PositionInvariant, CounterInvariant, FullRing, Shortened, Pending, WriteStates,
        Codes, Success, MoreInput, MoreOutput, BlockLength, Invalid
  <1>11. CounterInvariant'
    BY <1>1, <1>2, <1>3, <1>4, <1>5, <1>6, <1>7, ConstantsAre DEF TypeOK, NoRingInvariant,
        PositionInvariant, CounterInvariant, FullRing, Shortened, WriteStates, Codes,
        Success, MoreInput, MoreOutput, BlockLength, Invalid
  <1>12. DistanceInvariant'
    BY <1>1, <1>2, <1>3, <1>4, <1>5, <1>6, <1>7, ConstantsAre DEF TypeOK, NoRingInvariant,
        DistanceInvariant, WriteStates, Codes, Success, MoreInput, MoreOutput,
        BlockLength, Invalid
  <1>13. OutputInvariant'
    <2>1. ringbuffer_size # 0 /\ state # "post_write_1"
      BY <1>1 DEF WrapCopy, NoRingInvariant
    <2>2. ringbuffer_size > 0
      BY <1>1, <2>1, HalvingsAre, ConstantsAre DEF TypeOK
    <2>3. pos \in Nat
      BY <2>2, RingFacts
    <2>4. PICK q \in Nat : q = pos + 1 /\ pos <= q
      BY <2>3
    <2>5. pos' = q
      BY <2>4 DEF WrapCopy
    <2>6. UNCHANGED <<ringbuffer_size, rb_roundtrips, partial_pos_out, should_wrap_ringbuffer>>
      BY DEF WrapCopy, outs
    <2>7. QED
      BY <2>1, <2>2, <2>4, <2>5, <2>6, AdvanceKeepsOutput
  <1>14. ResultIsHonest'
    BY <1>1, <1>2, <1>3, <1>4, <1>5, <1>6, <1>7, ConstantsAre DEF TypeOK, ResultIsHonest,
        Total, WriteStates, Codes, Success, MoreInput, MoreOutput, BlockLength, Invalid
  <1>15. QED
    BY <1>8, <1>9, <1>10, <1>11, <1>12, <1>13, <1>14 DEF RingInvariant

LEMMA DictionaryWordKeepsRing ==
  ASSUME RingInvariant, NEW length \in WordLengths, DictionaryWord(length)
  PROVE  RingInvariant'
  <1>1. /\ TypeOK /\ NoRingInvariant /\ PositionInvariant /\ CounterInvariant
        /\ DistanceInvariant /\ OutputInvariant /\ ResultIsHonest
    BY DEF RingInvariant
  <1>2. TypeOK'
    BY <1>1, ConstantsAre DEF DictionaryWord, Following, NewMaxDistance, TypeOK, rings,
        outs, copies, blocks, calls, GoOn, Return, WriteStates, Codes, Success, MoreInput,
        MoreOutput, BlockLength, Invalid
  <1>3. NoRingInvariant'
    BY <1>1, ConstantsAre DEF DictionaryWord, Following, NewMaxDistance, TypeOK,
        NoRingInvariant, rings, outs, copies, blocks, calls, GoOn, Return, WriteStates,
        Codes, Success, MoreInput, MoreOutput, BlockLength, Invalid
  <1>4. PositionInvariant'
    BY <1>1, ConstantsAre DEF DictionaryWord, Following, NewMaxDistance, TypeOK,
        NoRingInvariant, PositionInvariant, CounterInvariant, FullRing, Shortened,
        Pending, rings, outs, copies, blocks, calls, GoOn, Return, WriteStates, Codes,
        Success, MoreInput, MoreOutput, BlockLength, Invalid
  <1>5. CounterInvariant'
    BY <1>1, ConstantsAre DEF DictionaryWord, Following, NewMaxDistance, TypeOK,
        NoRingInvariant, PositionInvariant, CounterInvariant, FullRing, Shortened, rings,
        outs, copies, blocks, calls, GoOn, Return, WriteStates, Codes, Success, MoreInput,
        MoreOutput, BlockLength, Invalid
  <1>6. DistanceInvariant'
    BY <1>1, ConstantsAre DEF DictionaryWord, Following, NewMaxDistance, TypeOK,
        NoRingInvariant, DistanceInvariant, rings, outs, copies, blocks, calls, GoOn,
        Return, WriteStates, Codes, Success, MoreInput, MoreOutput, BlockLength, Invalid
  <1>7. OutputInvariant'
    <2>1. ringbuffer_size # 0 /\ state # "post_write_1"
      BY <1>1 DEF DictionaryWord, NoRingInvariant
    <2>2. ringbuffer_size > 0
      BY <1>1, <2>1, HalvingsAre, ConstantsAre DEF TypeOK
    <2>3. pos \in Nat
      BY <2>2, RingFacts
    <2>4. PICK q \in Nat : q = pos + length /\ pos <= q
      BY <2>3, ConstantsAre
    <2>5. pos' = q
      BY <2>4 DEF DictionaryWord
    <2>6. UNCHANGED <<ringbuffer_size, rb_roundtrips, partial_pos_out, should_wrap_ringbuffer>>
      BY DEF DictionaryWord, outs
    <2>7. QED
      BY <2>1, <2>2, <2>4, <2>5, <2>6, AdvanceKeepsOutput
  <1>8. ResultIsHonest'
    BY <1>1, ConstantsAre DEF DictionaryWord, Following, NewMaxDistance, TypeOK,
        ResultIsHonest, Total, rings, outs, copies, blocks, calls, GoOn, Return,
        WriteStates, Codes, Success, MoreInput, MoreOutput, BlockLength, Invalid
  <1>9. QED
    BY <1>2, <1>3, <1>4, <1>5, <1>6, <1>7, <1>8 DEF RingInvariant

LEMMA CopyUncompressedKeepsRing ==
  ASSUME RingInvariant, NEW n \in 0 .. WindowSize, CopyUncompressed(n)
  PROVE  RingInvariant'
  <1>1. /\ TypeOK /\ NoRingInvariant /\ PositionInvariant /\ CounterInvariant
        /\ DistanceInvariant /\ OutputInvariant /\ ResultIsHonest
    BY DEF RingInvariant
  <1>2. /\ pos \in Nat /\ loop_counter \in Nat /\ remaining \in Int /\ rb_roundtrips \in Nat
        /\ partial_pos_out \in Nat /\ ringbuffer_size \in Nat /\ ringbuffer_size > 0
        /\ ringbuffer_size <= WindowSize /\ custom_dict_size \in Nat /\ max_distance \in 0 .. MaxBackward
        /\ RoundStart \in Nat
    <2>1. ringbuffer_size # 0
      BY <1>1 DEF CopyUncompressed, NoRingInvariant
    <2>2. ringbuffer_size \in Nat
      BY <1>1, HalvingsAre, ConstantsAre DEF TypeOK
    <2>3. ringbuffer_size > 0
      BY <2>1, <2>2
    <2>4. max_distance \in 0 .. MaxBackward
      BY <1>1 DEF TypeOK
    <2>5. QED
      BY <2>3, <2>4, RingFacts
  <1>3. /\ n \in Nat /\ n <= remaining /\ pos + n <= ringbuffer_size /\ WindowSize \in Nat
        /\ pos' = pos + n /\ remaining' = remaining - n
    BY ConstantsAre DEF CopyUncompressed
  <1>4. \/ pos + n >= WindowSize /\ state' = "uncompressed_write"
        \/ pos + n < WindowSize /\ remaining - n = 0 /\ state' = "metablock_done"
        \/ pos + n < WindowSize /\ remaining - n # 0 /\ state' = "uncompressed"
    <2>1. state' = CASE pos' >= WindowSize -> "uncompressed_write"
                     [] pos' < WindowSize /\ remaining' = 0 -> "metablock_done"
                     [] OTHER -> "uncompressed"
      BY DEF CopyUncompressed
    <2>2. pos + n >= WindowSize \/ pos + n < WindowSize
      BY <1>2, <1>3
    <2>3. QED
      BY <1>2, <1>3, <2>1, <2>2
  <1>5. DOMAIN ringbuffer' = DOMAIN ringbuffer
    BY DEF CopyUncompressed
  <1>6. /\ state = "uncompressed" /\ calling /\ calling'
        /\ UNCHANGED <<ringbuffer_size, should_wrap_ringbuffer, partial_pos_out, rb_roundtrips>>
        /\ UNCHANGED <<available_out, max_distance, distance_code, loop_counter, error_code>>
        /\ UNCHANGED <<is_last_metablock, ends, custom_dict_size>>
    BY DEF CopyUncompressed, outs, copies, calls, GoOn
  <1>7. TypeOK'
    BY <1>1, <1>2, <1>3, <1>4, <1>5, <1>6, ConstantsAre DEF TypeOK, WriteStates, Codes,
        Success, MoreInput, MoreOutput, BlockLength, Invalid
  <1>8. NoRingInvariant'
    BY <1>1, <1>2, <1>3, <1>4, <1>5, <1>6, ConstantsAre DEF TypeOK, NoRingInvariant,
        WriteStates, Codes, Success, MoreInput, MoreOutput, BlockLength, Invalid
  <1>9. PositionInvariant'
    BY <1>1, <1>2, <1>3, <1>4, <1>5, <1>6, ConstantsAre DEF TypeOK, NoRingInvariant,
        PositionInvariant, CounterInvariant, FullRing, Shortened, Pending, WriteStates,
        Codes, Success, MoreInput, MoreOutput, BlockLength, Invalid
  <1>10. CounterInvariant'
    BY <1>1, <1>2, <1>3, <1>4, <1>5, <1>6, ConstantsAre DEF TypeOK, NoRingInvariant,
        PositionInvariant, CounterInvariant, FullRing, Shortened, WriteStates, Codes,
        Success, MoreInput, MoreOutput, BlockLength, Invalid
  <1>11. DistanceInvariant'
    BY <1>1, <1>2, <1>3, <1>4, <1>5, <1>6, ConstantsAre DEF TypeOK, NoRingInvariant,
        DistanceInvariant, WriteStates, Codes, Success, MoreInput, MoreOutput,
        BlockLength, Invalid
  <1>12. OutputInvariant'
    <2>1. ringbuffer_size # 0 /\ state # "post_write_1"
      BY <1>1 DEF CopyUncompressed, NoRingInvariant
    <2>2. ringbuffer_size > 0
      BY <1>1, <2>1, HalvingsAre, ConstantsAre DEF TypeOK
    <2>3. pos \in Nat
      BY <2>2, RingFacts
    <2>4. PICK q \in Nat : q = pos + n /\ pos <= q
      BY <2>3
    <2>5. pos' = q
      BY <2>4 DEF CopyUncompressed
    <2>6. UNCHANGED <<ringbuffer_size, rb_roundtrips, partial_pos_out, should_wrap_ringbuffer>>
      BY DEF CopyUncompressed, outs
    <2>7. QED
      BY <2>1, <2>2, <2>4, <2>5, <2>6, AdvanceKeepsOutput
  <1>13. ResultIsHonest'
    BY <1>1, <1>2, <1>3, <1>4, <1>5, <1>6, ConstantsAre DEF TypeOK, ResultIsHonest, Total,
        WriteStates, Codes, Success, MoreInput, MoreOutput, BlockLength, Invalid
  <1>14. QED
    BY <1>7, <1>8, <1>9, <1>10, <1>11, <1>12, <1>13 DEF RingInvariant

\* What is written when decoding stops short of the end of the ring.
LEMMA ForcedWrite ==
  ASSUME RingInvariant, ringbuffer_size > 0, NEW code \in Codes,
         state \notin WriteStates \cup {"uncompressed_write"}, WriteOutput(TRUE, code)
  PROVE  /\ UNCHANGED <<pos, rb_roundtrips>>
         /\ ShouldWrap(available_out) = FALSE /\ should_wrap_ringbuffer = FALSE
         /\ available_out' \in Nat /\ partial_pos_out' \in Nat
         /\ partial_pos_out <= partial_pos_out'
         /\ partial_pos_out' <= RoundStart + Smaller(pos, ringbuffer_size)
         /\ code \in {Success, MoreOutput, BlockLength}
         /\ code = MoreOutput => available_out' = 0
         /\ code = Success =>
              remaining >= 0 /\ partial_pos_out' = RoundStart + Smaller(pos, ringbuffer_size)
  <1>1. /\ WriteRingBuffer(ringbuffer, available_out, TRUE, code)
        /\ available_out' = available_out - (partial_pos_out' - partial_pos_out)
    BY DEF WriteOutput
  <1>2. /\ pos \in Nat /\ partial_pos_out \in Nat /\ available_out \in Nat
        /\ partial_pos_out <= RoundStart + Smaller(pos, ringbuffer_size)
    BY RingFacts
  <1>3. /\ \/ GoesRound(available_out, code) \/ Stays(available_out, TRUE, code)
           \/ Fails(available_out, code)
        /\ partial_pos_out' \in Nat
    BY <1>1, <1>2, WriteDoes
  <1>4. ~GoesRound(available_out, code)
    <2>1. FullRing => pos < ringbuffer_size
      BY DEF RingInvariant, PositionInvariant
    <2>2. pos < ringbuffer_size => ~(pos >= ringbuffer_size)
      BY <1>2, RingFacts
    <2>3. QED
      BY <2>1, <2>2 DEF GoesRound
  <1>5. should_wrap_ringbuffer = FALSE
    BY DEF RingInvariant, TypeOK, OutputInvariant, WriteStates
  <1>6. ~RoundTrip(available_out)
    BY <1>3, <1>4 DEF Stays, Fails
  <1>7. PICK p \in Nat : p = partial_pos_out'
    BY <1>3
  <1>8. available_out' = available_out - (p - partial_pos_out)
    BY <1>1, <1>7
  <1>9. CASE Stays(available_out, TRUE, code)
    <2>1. /\ partial_pos_out <= p /\ p <= partial_pos_out + available_out
          /\ p <= RoundStart + Smaller(pos, ringbuffer_size)
          /\ code = MoreOutput => p = partial_pos_out + available_out
          /\ code = Success => p = RoundStart + Smaller(pos, ringbuffer_size)
          /\ UNCHANGED <<pos, rb_roundtrips>> /\ code \in {Success, MoreOutput}
          /\ remaining >= 0
      BY <1>7, <1>9 DEF Stays
    <2>2. /\ available_out - (p - partial_pos_out) \in Nat
          /\ code = MoreOutput => available_out - (p - partial_pos_out) = 0
      BY <1>2, <2>1
    <2>3. QED
      BY <1>3, <1>5, <1>6, <1>7, <1>8, <2>1, <2>2 DEF ShouldWrap
  <1>10. CASE Fails(available_out, code)
    <2>1. UNCHANGED <<pos, rb_roundtrips, partial_pos_out>> /\ code = BlockLength
      BY <1>10 DEF Fails
    <2>2. partial_pos_out - partial_pos_out = 0 /\ available_out - 0 = available_out
      BY <1>2
    <2>3. available_out' = available_out
      BY <1>1, <2>1, <2>2
    <2>4. partial_pos_out <= partial_pos_out
      BY <1>2
    <2>5. code # MoreOutput /\ code # Success
      BY <2>1 DEF BlockLength, MoreOutput, Success
    <2>6. QED
      BY <1>2, <1>5, <1>6, <2>1, <2>3, <2>4, <2>5 DEF ShouldWrap
  <1>11. QED
    BY <1>3, <1>4, <1>9, <1>10

LEMMA DoneKeepsRing ==
  ASSUME RingInvariant, Done
  PROVE  RingInvariant'
  <1>1. /\ TypeOK /\ NoRingInvariant /\ PositionInvariant /\ CounterInvariant
        /\ DistanceInvariant /\ OutputInvariant /\ ResultIsHonest
    BY DEF RingInvariant
  <1>2. /\ partial_pos_out' \in Nat /\ available_out' \in Nat /\ partial_pos_out <= partial_pos_out'
        /\ UNCHANGED <<pos, rb_roundtrips>>
        /\ should_wrap_ringbuffer' = FALSE /\ should_wrap_ringbuffer = FALSE
        /\ ringbuffer_size = 0 => UNCHANGED partial_pos_out
        /\ calling' \in BOOLEAN /\ (calling' => calling /\ UNCHANGED error_code)
        /\ ~calling' => error_code' \in Codes
        /\ calling /\ UNCHANGED <<state, ringbuffer, ringbuffer_size, max_distance, distance_code>>
        /\ UNCHANGED <<loop_counter, remaining, is_last_metablock, ends, custom_dict_size>>
    <2>1. CASE ringbuffer_size = 0
      <3>1. /\ should_wrap_ringbuffer = FALSE /\ partial_pos_out \in Nat /\ available_out \in Nat
            /\ partial_pos_out <= partial_pos_out
        BY <1>1, <2>1 DEF TypeOK, NoRingInvariant
      <3>2. QED
        BY <1>1, <2>1, <3>1 DEF Done, TypeOK, outs, copies, blocks, calls, GoOn, Return, Codes, Success,
            MoreInput
    <2>2. CASE ringbuffer_size # 0
      <3>1. ringbuffer_size > 0
        BY <1>1, <2>2, HalvingsAre, ConstantsAre DEF TypeOK
      <3>2. state \notin WriteStates \cup {"uncompressed_write"}
        BY DEF Done, WriteStates
      <3>3. PICK code \in Codes : /\ WriteOutput(TRUE, code)
                                  /\ Return(code)
        BY <2>2 DEF Done
      <3>4. should_wrap_ringbuffer' = ShouldWrap(available_out)
        BY <2>2 DEF Done
      <3>5. /\ UNCHANGED <<pos, rb_roundtrips>> /\ should_wrap_ringbuffer = FALSE
            /\ should_wrap_ringbuffer' = FALSE
            /\ available_out' \in Nat /\ partial_pos_out' \in Nat
            /\ partial_pos_out <= partial_pos_out' /\ code \in {Success, MoreOutput, BlockLength}
        BY <3>1, <3>2, <3>3, <3>4, ForcedWrite
      <3>6. /\ calling' \in BOOLEAN /\ (calling' => calling /\ UNCHANGED error_code)
            /\ ~calling' => error_code' \in Codes
        BY <1>1, <3>3 DEF TypeOK, calls, GoOn, Return, Codes, MoreInput
      <3>7. /\ calling /\ UNCHANGED <<state, ringbuffer, ringbuffer_size, max_distance>>
            /\ UNCHANGED <<distance_code, loop_counter, remaining, is_last_metablock, ends>>
            /\ UNCHANGED custom_dict_size
        BY DEF Done, copies, blocks
      <3>8. QED
        BY <2>2, <3>5, <3>6, <3>7
    <2>3. QED
      BY <2>1, <2>2
  <1>3. /\ ringbuffer_size > 0 => /\ partial_pos_out' <= RoundStart + Smaller(pos, ringbuffer_size)
                                  /\ RoundStart <= partial_pos_out
    <2>1. SUFFICES ASSUME ringbuffer_size > 0
                   PROVE  /\ partial_pos_out' <= RoundStart + Smaller(pos, ringbuffer_size)
                          /\ RoundStart <= partial_pos_out
      OBVIOUS
    <2>2. ringbuffer_size # 0
      BY <2>1, <1>1, HalvingsAre, ConstantsAre DEF TypeOK
    <2>3. state \notin WriteStates \cup {"uncompressed_write"}
      BY DEF Done, WriteStates
    <2>4. PICK code \in Codes : WriteOutput(TRUE, code)
      BY <2>2 DEF Done
    <2>5. QED
      BY <2>1, <2>3, <2>4, ForcedWrite, RingFacts
  <1>4. /\ pos \in Nat /\ rb_roundtrips \in Nat /\ partial_pos_out \in Nat /\ available_out \in Nat
        /\ remaining \in Int
    BY <1>1 DEF TypeOK
  <1>5. TypeOK'
    BY <1>1, <1>2, <1>3, <1>4, ConstantsAre DEF TypeOK, WriteStates, Codes, Success,
        MoreInput, MoreOutput, BlockLength, Invalid
  <1>6. NoRingInvariant'
    BY <1>1, <1>2, <1>3, <1>4, ConstantsAre DEF TypeOK, NoRingInvariant, WriteStates,
        Codes, Success, MoreInput, MoreOutput, BlockLength, Invalid
  <1>7. PositionInvariant'
    BY <1>1, <1>2, <1>3, <1>4, ConstantsAre DEF TypeOK, NoRingInvariant,
        PositionInvariant, CounterInvariant, FullRing, Shortened, Pending, WriteStates,
        Codes, Success, MoreInput, MoreOutput, BlockLength, Invalid
  <1>8. CounterInvariant'
    BY <1>1, <1>2, <1>3, <1>4, ConstantsAre DEF TypeOK, NoRingInvariant,
        PositionInvariant, CounterInvariant, FullRing, Shortened, WriteStates, Codes,
        Success, MoreInput, MoreOutput, BlockLength, Invalid
  <1>9. DistanceInvariant'
    BY <1>1, <1>2, <1>3, <1>4, ConstantsAre DEF TypeOK, NoRingInvariant,
        DistanceInvariant, WriteStates, Codes, Success, MoreInput, MoreOutput,
        BlockLength, Invalid
  <1>10. OutputInvariant'
    <2>1. UNCHANGED <<ringbuffer_size, rb_roundtrips, pos, state, remaining>>
      BY <1>2
    <2>2. RoundStart' = RoundStart /\ FullRing' = FullRing
      BY <2>1 DEF RoundStart, FullRing
    <2>3. SUFFICES ASSUME ringbuffer_size > 0
                   PROVE  /\ RoundStart <= partial_pos_out'
                          /\ partial_pos_out' <= RoundStart + Smaller(pos, ringbuffer_size)
      BY <1>2, <2>1, <2>2 DEF OutputInvariant, Smaller
    <2>4. PICK p \in Nat : p = partial_pos_out'
      BY <1>2
    <2>5. RoundStart \in Nat
      BY <2>3, RingFacts
    <2>6. RoundStart <= p
      BY <1>2, <1>3, <1>4, <2>3, <2>4, <2>5
    <2>7. QED
      BY <1>3, <2>3, <2>4, <2>6
  <1>11. ResultIsHonest'
    <2>1. SUFFICES ASSUME ~calling'
                   PROVE  /\ error_code' = MoreOutput => available_out' = 0
                          /\ error_code' = Success /\ state' = "done" =>
                               partial_pos_out' = Total' /\ remaining' = 0
      BY DEF ResultIsHonest
    <2>2. Total' = Total
      BY <1>2 DEF Total
    <2>3. CASE ringbuffer_size = 0
      <3>1. /\ pos = 0 /\ rb_roundtrips = 0 /\ partial_pos_out = 0 /\ remaining = 0
        BY <1>1, <2>3 DEF NoRingInvariant
      <3>2. Total = 0
        BY <2>3, <3>1 DEF Total
      <3>3. partial_pos_out' = partial_pos_out
        BY <2>3 DEF Done, outs
      <3>4. error_code' # MoreOutput
        BY <2>1, <2>3, <1>2 DEF Done, GoOn, calls, Return, Success, MoreInput, MoreOutput
      <3>5. QED
        BY <1>2, <2>2, <3>1, <3>2, <3>3, <3>4
    <2>4. CASE ringbuffer_size # 0
      <3>1. ringbuffer_size > 0
        BY <1>1, <2>4, HalvingsAre, ConstantsAre DEF TypeOK
      <3>2. state \notin WriteStates \cup {"uncompressed_write"}
        BY DEF Done, WriteStates
      <3>3. PICK code \in Codes : /\ WriteOutput(TRUE, code)
                                  /\ Return(code)
        BY <2>4 DEF Done
      <3>4. error_code' = code \/ error_code' = MoreInput
        BY <1>2, <2>1, <3>3 DEF GoOn, calls, Return
      <3>5. CASE error_code' = MoreInput
        BY <3>5 DEF MoreInput, MoreOutput, Success
      <3>6. CASE error_code' = code
        <4>1. code = MoreOutput => available_out' = 0
          BY <3>1, <3>2, <3>3, ForcedWrite
        <4>2. ASSUME code = Success, state = "done"
              PROVE  partial_pos_out' = Total /\ remaining = 0
          <5>1. remaining >= 0 /\ partial_pos_out' = RoundStart + Smaller(pos, ringbuffer_size)
            BY <3>1, <3>2, <3>3, <4>2, ForcedWrite
          <5>2. remaining = 0
            BY <1>1, <1>4, <4>2, <5>1 DEF CounterInvariant
          <5>3. pos <= ringbuffer_size
            BY <1>1, <3>1, <4>2, RingFacts DEF PositionInvariant
          <5>4. Smaller(pos, ringbuffer_size) = pos /\ Total = RoundStart + pos
            BY <3>1, <5>3, RingFacts
          <5>5. QED
            BY <5>1, <5>2, <5>4
        <4>3. QED
          BY <1>2, <2>2, <3>6, <4>1, <4>2
      <3>7. QED
        BY <3>4, <3>5, <3>6
    <2>5. QED
      BY <2>3, <2>4
  <1>12. QED
    BY <1>5, <1>6, <1>7, <1>8, <1>9, <1>10, <1>11 DEF RingInvariant

LEMMA OutOfInputKeepsRing ==
  ASSUME RingInvariant, OutOfInput
  PROVE  RingInvariant'
  <1>1. /\ TypeOK /\ NoRingInvariant /\ PositionInvariant /\ CounterInvariant
        /\ DistanceInvariant /\ OutputInvariant /\ ResultIsHonest
    BY DEF RingInvariant
  <1>2. /\ partial_pos_out' \in Nat /\ available_out' \in Nat /\ partial_pos_out <= partial_pos_out'
        /\ UNCHANGED <<pos, rb_roundtrips>>
        /\ should_wrap_ringbuffer' = FALSE /\ should_wrap_ringbuffer = FALSE
        /\ ringbuffer_size = 0 => UNCHANGED partial_pos_out
        /\ calling' \in BOOLEAN /\ (calling' => calling /\ UNCHANGED error_code)
        /\ ~calling' => error_code' \in Codes
        /\ calling /\ UNCHANGED <<state, ringbuffer, ringbuffer_size, max_distance, distance_code>>
        /\ UNCHANGED <<loop_counter, remaining, is_last_metablock, ends, custom_dict_size>>
    <2>1. CASE ringbuffer_size = 0
      <3>1. /\ should_wrap_ringbuffer = FALSE /\ partial_pos_out \in Nat /\ available_out \in Nat
            /\ partial_pos_out <= partial_pos_out
        BY <1>1, <2>1 DEF TypeOK, NoRingInvariant
      <3>2. QED
        BY <1>1, <2>1, <3>1 DEF OutOfInput, TypeOK, outs, copies, blocks, calls, GoOn, Return, Codes, Success,
            MoreInput
    <2>2. CASE ringbuffer_size # 0
      <3>1. ringbuffer_size > 0
        BY <1>1, <2>2, HalvingsAre, ConstantsAre DEF TypeOK
      <3>2. state \notin WriteStates \cup {"uncompressed_write"}
        BY DEF OutOfInput, WriteStates
      <3>3. PICK code \in Codes : /\ WriteOutput(TRUE, code)
                                  /\ IF IsFatal(code) THEN Return(code) ELSE GoOn \/ Return(MoreInput)
        BY <2>2 DEF OutOfInput
      <3>4. should_wrap_ringbuffer' = ShouldWrap(available_out)
        BY <2>2 DEF OutOfInput
      <3>5. /\ UNCHANGED <<pos, rb_roundtrips>> /\ should_wrap_ringbuffer = FALSE
            /\ should_wrap_ringbuffer' = FALSE
            /\ available_out' \in Nat /\ partial_pos_out' \in Nat
            /\ partial_pos_out <= partial_pos_out' /\ code \in {Success, MoreOutput, BlockLength}
        BY <3>1, <3>2, <3>3, <3>4, ForcedWrite
      <3>6. /\ calling' \in BOOLEAN /\ (calling' => calling /\ UNCHANGED error_code)
            /\ ~calling' => error_code' \in Codes
        BY <1>1, <3>3 DEF TypeOK, calls, GoOn, Return, Codes, MoreInput
      <3>7. /\ calling /\ UNCHANGED <<state, ringbuffer, ringbuffer_size, max_distance>>
            /\ UNCHANGED <<distance_code, loop_counter, remaining, is_last_metablock, ends>>
            /\ UNCHANGED custom_dict_size
        BY DEF OutOfInput, copies, blocks
      <3>8. QED
        BY <2>2, <3>5, <3>6, <3>7
    <2>3. QED
      BY <2>1, <2>2
  <1>3. /\ ringbuffer_size > 0 => /\ partial_pos_out' <= RoundStart + Smaller(pos, ringbuffer_size)
                                  /\ RoundStart <= partial_pos_out
    <2>1. SUFFICES ASSUME ringbuffer_size > 0
                   PROVE  /\ partial_pos_out' <= RoundStart + Smaller(pos, ringbuffer_size)
                          /\ RoundStart <= partial_pos_out
      OBVIOUS
    <2>2. ringbuffer_size # 0
      BY <2>1, <1>1, HalvingsAre, ConstantsAre DEF TypeOK
    <2>3. state \notin WriteStates \cup {"uncompressed_write"}
      BY DEF OutOfInput, WriteStates
    <2>4. PICK code \in Codes : WriteOutput(TRUE, code)
      BY <2>2 DEF OutOfInput
    <2>5. QED
      BY <2>1, <2>3, <2>4, ForcedWrite, RingFacts
  <1>4. /\ pos \in Nat /\ rb_roundtrips \in Nat /\ partial_pos_out \in Nat /\ available_out \in Nat
        /\ remaining \in Int
    BY <1>1 DEF TypeOK
  <1>5. TypeOK'
    BY <1>1, <1>2, <1>3, <1>4, ConstantsAre DEF TypeOK, WriteStates, Codes, Success,
        MoreInput, MoreOutput, BlockLength, Invalid
  <1>6. NoRingInvariant'
    BY <1>1, <1>2, <1>3, <1>4, ConstantsAre DEF TypeOK, NoRingInvariant, WriteStates,
        Codes, Success, MoreInput, MoreOutput, BlockLength, Invalid
  <1>7. PositionInvariant'
    BY <1>1, <1>2, <1>3, <1>4, ConstantsAre DEF TypeOK, NoRingInvariant,
        PositionInvariant, CounterInvariant, FullRing, Shortened, Pending, WriteStates,
        Codes, Success, MoreInput, MoreOutput, BlockLength, Invalid
  <1>8. CounterInvariant'
    BY <1>1, <1>2, <1>3, <1>4, ConstantsAre DEF TypeOK, NoRingInvariant,
        PositionInvariant, CounterInvariant, FullRing, Shortened, WriteStates, Codes,
        Success, MoreInput, MoreOutput, BlockLength, Invalid
  <1>9. DistanceInvariant'
    BY <1>1, <1>2, <1>3, <1>4, ConstantsAre DEF TypeOK, NoRingInvariant,
        DistanceInvariant, WriteStates, Codes, Success, MoreInput, MoreOutput,
        BlockLength, Invalid
  <1>10. OutputInvariant'
    <2>1. UNCHANGED <<ringbuffer_size, rb_roundtrips, pos, state, remaining>>
      BY <1>2
    <2>2. RoundStart' = RoundStart /\ FullRing' = FullRing
      BY <2>1 DEF RoundStart, FullRing
    <2>3. SUFFICES ASSUME ringbuffer_size > 0
                   PROVE  /\ RoundStart <= partial_pos_out'
                          /\ partial_pos_out' <= RoundStart + Smaller(pos, ringbuffer_size)
      BY <1>2, <2>1, <2>2 DEF OutputInvariant, Smaller
    <2>4. PICK p \in Nat : p = partial_pos_out'
      BY <1>2
    <2>5. RoundStart \in Nat
      BY <2>3, RingFacts
    <2>6. RoundStart <= p
      BY <1>2, <1>3, <1>4, <2>3, <2>4, <2>5
    <2>7. QED
      BY <1>3, <2>3, <2>4, <2>6
  <1>11. ResultIsHonest'
    <2>1. SUFFICES ASSUME ~calling'
                   PROVE  /\ error_code' = MoreOutput => available_out' = 0
                          /\ error_code' = Success /\ state' = "done" =>
                               partial_pos_out' = Total' /\ remaining' = 0
      BY DEF ResultIsHonest
    <2>2. Total' = Total
      BY <1>2 DEF Total
    <2>3. CASE ringbuffer_size = 0
      <3>1. /\ pos = 0 /\ rb_roundtrips = 0 /\ partial_pos_out = 0 /\ remaining = 0
        BY <1>1, <2>3 DEF NoRingInvariant
      <3>2. Total = 0
        BY <2>3, <3>1 DEF Total
      <3>3. partial_pos_out' = partial_pos_out
        BY <2>3 DEF OutOfInput, outs
      <3>4. error_code' # MoreOutput
        BY <2>1, <2>3, <1>2 DEF OutOfInput, GoOn, calls, Return, Success, MoreInput, MoreOutput
      <3>5. QED
        BY <1>2, <2>2, <3>1, <3>2, <3>3, <3>4
    <2>4. CASE ringbuffer_size # 0
      <3>1. ringbuffer_size > 0
        BY <1>1, <2>4, HalvingsAre, ConstantsAre DEF TypeOK
      <3>2. state \notin WriteStates \cup {"uncompressed_write"}
        BY DEF OutOfInput, WriteStates
      <3>3. PICK code \in Codes : /\ WriteOutput(TRUE, code)
                                  /\ IF IsFatal(code) THEN Return(code) ELSE GoOn \/ Return(MoreInput)
        BY <2>4 DEF OutOfInput
      <3>4. error_code' = code \/ error_code' = MoreInput
        BY <1>2, <2>1, <3>3 DEF GoOn, calls, Return
      <3>5. CASE error_code' = MoreInput
        BY <3>5 DEF MoreInput, MoreOutput, Success
      <3>6. CASE error_code' = code
        <4>1. code = MoreOutput => available_out' = 0
          BY <3>1, <3>2, <3>3, ForcedWrite
        <4>2. ASSUME code = Success, state = "done"
              PROVE  partial_pos_out' = Total /\ remaining = 0
          <5>1. remaining >= 0 /\ partial_pos_out' = RoundStart + Smaller(pos, ringbuffer_size)
            BY <3>1, <3>2, <3>3, <4>2, ForcedWrite
          <5>2. remaining = 0
            BY <1>1, <1>4, <4>2, <5>1 DEF CounterInvariant
          <5>3. pos <= ringbuffer_size
            BY <1>1, <3>1, <4>2, RingFacts DEF PositionInvariant
          <5>4. Smaller(pos, ringbuffer_size) = pos /\ Total = RoundStart + pos
            BY <3>1, <5>3, RingFacts
          <5>5. QED
            BY <5>1, <5>2, <5>4
        <4>3. QED
          BY <1>2, <2>2, <3>6, <4>1, <4>2
      <3>7. QED
        BY <3>4, <3>5, <3>6
    <2>5. QED
      BY <2>3, <2>4
  <1>12. QED
    BY <1>5, <1>6, <1>7, <1>8, <1>9, <1>10, <1>11 DEF RingInvariant

\* What a copy does to the position, the counters and the state.
CopyGoes(length, distance) ==
  /\ max_distance' = NewMaxDistance /\ remaining' = remaining - length
  /\ \/ /\ pos' = pos /\ loop_counter' = length /\ distance_code' = distance
        /\ state' = "wrap_copy"
     \/ /\ pos' = pos + length /\ pos + length < ringbuffer_size
        /\ loop_counter' = 0 /\ distance_code' = distance_code
        /\ \/ remaining - length <= 0 /\ state' = "metablock_done"
           \/ remaining - length > 0 /\ state' = "command_begin"

LEMMA CopyBackKeepsRing ==
  ASSUME RingInvariant, NEW length \in CopyLengths, NEW distance \in 1 .. MaxBackward,
         CopyBack(length, distance)
  PROVE  RingInvariant' /\ CopyGoes(length, distance)
  <1>1. /\ TypeOK /\ NoRingInvariant /\ PositionInvariant /\ CounterInvariant
        /\ DistanceInvariant /\ OutputInvariant /\ ResultIsHonest
    BY DEF RingInvariant
  <1>2. /\ ringbuffer_size \in Nat /\ ringbuffer_size > 0 /\ ringbuffer_size <= WindowSize
        /\ max_distance \in 0 .. MaxBackward
    <2>1. ringbuffer_size # 0
      BY <1>1 DEF CopyBack, NoRingInvariant
    <2>2. ringbuffer_size \in Nat /\ ringbuffer_size <= WindowSize
      BY <1>1, HalvingsAre, ConstantsAre DEF TypeOK
    <2>3. max_distance \in 0 .. MaxBackward
      BY <1>1 DEF TypeOK
    <2>4. QED
      BY <2>1, <2>2, <2>3
  <1>3. /\ pos \in Nat /\ remaining \in Int /\ rb_roundtrips \in Nat /\ custom_dict_size \in Nat
        /\ loop_counter \in Nat /\ distance_code \in Nat /\ partial_pos_out \in Nat
        /\ length \in Nat /\ length >= 1
    BY <1>1, ConstantsAre DEF TypeOK
  <1>4. /\ state = "post_literals" /\ calling /\ calling' /\ distance <= NewMaxDistance
        /\ UNCHANGED <<ringbuffer_size, should_wrap_ringbuffer, partial_pos_out, rb_roundtrips>>
        /\ UNCHANGED <<available_out, error_code, is_last_metablock, ends, custom_dict_size>>
    BY DEF CopyBack, outs, calls, GoOn
  <1>5. DOMAIN ringbuffer' = DOMAIN ringbuffer
    BY DEF CopyBack, BlockMove
  <1>6. pos < ringbuffer_size
    BY <1>1, <1>2, <1>3, <1>4, ConstantsAre DEF PositionInvariant, FullRing, Shortened, WriteStates
  <1>7. /\ NewMaxDistance \in 0 .. MaxBackward
        /\ rb_roundtrips = 0 => NewMaxDistance <= pos + custom_dict_size
        /\ NewMaxDistance = MaxBackward =>
             rb_roundtrips > 0 \/ pos >= MaxBackward - custom_dict_size
    BY <1>1, <1>2, <1>3, ConstantsAre DEF NewMaxDistance, DistanceInvariant
  <1>8. CopyGoes(length, distance)
    <2>1. CASE ~(Overlaps(Cell(pos - distance), length) \/ MeetsEnd(Cell(pos - distance), length))
      <3>1. ~(pos + length >= ringbuffer_size)
        BY <2>1 DEF MeetsEnd
      <3>2. pos + length < ringbuffer_size
        BY <1>2, <1>3, <3>1
      <3>3. /\ max_distance' = NewMaxDistance /\ remaining' = remaining - length
            /\ pos' = pos + length /\ loop_counter' = 0 /\ distance_code' = distance_code
            /\ state' = Following(remaining', "command_begin")
        BY <2>1 DEF CopyBack
      <3>4. \/ remaining - length <= 0 /\ state' = "metablock_done"
            \/ remaining - length > 0 /\ state' = "command_begin"
        BY <1>3, <3>3 DEF Following
      <3>5. QED
        BY <3>2, <3>3, <3>4 DEF CopyGoes
    <2>2. CASE Overlaps(Cell(pos - distance), length) \/ MeetsEnd(Cell(pos - distance), length)
      BY <2>2 DEF CopyBack, CopyGoes
    <2>3. QED
      BY <2>1, <2>2
  <1>9. /\ max_distance' = NewMaxDistance /\ remaining' = remaining - length
        /\ \/ /\ pos' = pos /\ loop_counter' = length /\ distance_code' = distance
              /\ state' = "wrap_copy"
           \/ /\ pos' = pos + length /\ pos + length < ringbuffer_size
              /\ loop_counter' = 0 /\ distance_code' = distance_code
              /\ \/ remaining - length <= 0 /\ state' = "metablock_done"
                 \/ remaining - length > 0 /\ state' = "command_begin"
    BY <1>8 DEF CopyGoes
  <1>10. TypeOK'
    BY <1>1, <1>2, <1>3, <1>4, <1>5, <1>7, <1>9, ConstantsAre DEF TypeOK, WriteStates
  <1>11. NoRingInvariant'
    BY <1>2, <1>4 DEF NoRingInvariant
  <1>12. PositionInvariant'
    BY <1>1, <1>2, <1>3, <1>4, <1>6, <1>9, ConstantsAre DEF PositionInvariant, FullRing,
        Shortened, Pending, WriteStates
  <1>13. CounterInvariant'
    BY <1>3, <1>9 DEF CounterInvariant
  <1>14. DistanceInvariant'
    BY <1>1, <1>2, <1>3, <1>4, <1>7, <1>9, ConstantsAre DEF DistanceInvariant
  <1>15. OutputInvariant'
    <2>1. ~should_wrap_ringbuffer
      BY <1>1, <1>2, <1>4 DEF OutputInvariant
    <2>2. RoundStart' = RoundStart
      BY <1>4 DEF RoundStart
    <2>3. PICK s \in Nat : s = RoundStart
      BY <1>2, RingFacts
    <2>4. s <= partial_pos_out /\ partial_pos_out <= s + pos
      BY <1>2, <1>6, <2>3, RingFacts
    <2>5. PICK q \in Nat : q = pos'
      BY <1>3, <1>9
    <2>6. pos <= q /\ q < ringbuffer_size
      BY <1>3, <1>6, <1>9, <2>5
    <2>7. partial_pos_out <= s + q
      BY <1>3, <2>4, <2>6
    <2>8. Smaller(pos, ringbuffer_size)' = q
      BY <1>2, <1>4, <2>5, <2>6 DEF Smaller
    <2>9. QED
      BY <1>4, <2>1, <2>2, <2>3, <2>4, <2>7, <2>8 DEF OutputInvariant
  <1>16. ResultIsHonest'
    BY <1>4 DEF ResultIsHonest
  <1>17. QED
    BY <1>8, <1>10, <1>11, <1>12, <1>13, <1>14, <1>15, <1>16 DEF RingInvariant

\* The ring of the first metablock with output.
LEMMA AllocatedSize ==
  ASSUME TypeOK, NEW length \in Nat, NEW last \in BOOLEAN, length > 0, Allocate(length, last)
  PROVE  /\ custom_dict_size' \in Nat /\ custom_dict_size' <= MaxBackward
         /\ custom_dict_size' = Smaller(custom_dict_size, MaxBackward)
         /\ ringbuffer_size' \in Halvings /\ ringbuffer_size' > 0
         /\ DOMAIN ringbuffer' = 0 .. ringbuffer_size' + Slack - 1
         /\ ringbuffer_size' # WindowSize =>
              last /\ custom_dict_size' + length <= ringbuffer_size' /\ 2 <= ringbuffer_size'
  <1>1. /\ custom_dict_size' = Smaller(custom_dict_size, MaxBackward)
        /\ ringbuffer_size' = RingSize(Smaller(custom_dict_size, MaxBackward) + length, last)
        /\ DOMAIN ringbuffer'
             = 0 .. RingSize(Smaller(custom_dict_size, MaxBackward) + length, last) + Slack - 1
    BY DEF Allocate
  <1>2. PICK d \in Nat : d = Smaller(custom_dict_size, MaxBackward) /\ d <= MaxBackward
    BY ConstantsAre DEF TypeOK, Smaller
  <1>3. d + length \in Nat
    BY <1>2
  <1>4. /\ RingSize(d + length, last) \in Halvings
        /\ RingSize(d + length, last) # WindowSize =>
             last /\ d + length <= RingSize(d + length, last) /\ 2 <= RingSize(d + length, last)
    BY <1>3, RingSizeFits
  <1>5. RingSize(d + length, last) > 0
    <2>1. \A s \in Halvings : s > 0
      BY HalvingsAre, ConstantsAre
    <2>2. QED
      BY <1>4, <2>1
  <1>6. QED
    BY <1>1, <1>2, <1>4, <1>5

LEMMA HeaderKeepsRing ==
  ASSUME RingInvariant, NEW length \in BlockLengths, NEW last \in BOOLEAN,
         NEW uncompressed \in BOOLEAN, NEW peeked \in BOOLEAN,
         Header(length, last, uncompressed, peeked)
  PROVE  RingInvariant'
  <1>1. /\ TypeOK /\ NoRingInvariant /\ PositionInvariant /\ CounterInvariant
        /\ DistanceInvariant /\ OutputInvariant /\ ResultIsHonest
    BY DEF RingInvariant
  <1>2. /\ pos \in Nat /\ remaining \in Int /\ rb_roundtrips \in Nat /\ custom_dict_size \in Nat
        /\ loop_counter \in Nat /\ distance_code \in Nat /\ partial_pos_out \in Nat
        /\ length \in Nat /\ ringbuffer_size \in Nat /\ ringbuffer_size <= WindowSize
        /\ max_distance \in 0 .. MaxBackward
    <2>1. ringbuffer_size \in Nat /\ ringbuffer_size <= WindowSize
      BY <1>1, HalvingsAre, ConstantsAre DEF TypeOK
    <2>2. QED
      BY <1>1, <2>1, ConstantsAre DEF TypeOK
  <1>3. /\ state = "metablock_begin" /\ calling /\ calling' /\ UNCHANGED error_code
        /\ UNCHANGED <<pos, should_wrap_ringbuffer, partial_pos_out, rb_roundtrips>>
        /\ UNCHANGED <<available_out, max_distance, distance_code, loop_counter>>
        /\ remaining' = length /\ is_last_metablock' = last /\ ends' = peeked
        /\ ends => length = 0 /\ last
    BY DEF Header, outs, copies, calls, GoOn
  <1>4. /\ length = 0 => state' = "metablock_done"
        /\ length # 0 => state' \in {"uncompressed", "command_begin"}
    BY DEF Header
  <1>5. CASE ringbuffer_size = 0 /\ length > 0
    <2>1. Allocate(length, last \/ peeked)
      BY <1>5 DEF Header
    <2>2. (last \/ peeked) \in BOOLEAN
      OBVIOUS
    <2>3. /\ custom_dict_size' \in Nat /\ custom_dict_size' <= MaxBackward
          /\ ringbuffer_size' \in Halvings /\ ringbuffer_size' > 0
          /\ DOMAIN ringbuffer' = 0 .. ringbuffer_size' + Slack - 1
          /\ ringbuffer_size' # WindowSize =>
               /\ last \/ peeked
               /\ custom_dict_size' + length <= ringbuffer_size' /\ 2 <= ringbuffer_size'
      BY <1>1, <1>2, <1>5, <2>1, <2>2, AllocatedSize
    <2>4. PICK d \in Nat, s \in Nat : d = custom_dict_size' /\ s = ringbuffer_size'
      <3>1. \A s \in Halvings : s \in Nat
        BY HalvingsAre, ConstantsAre
      <3>2. QED
        BY <2>3, <3>1
    <2>5. /\ pos = 0 /\ rb_roundtrips = 0 /\ partial_pos_out = 0
          /\ ~should_wrap_ringbuffer /\ max_distance = 0
      BY <1>1, <1>5 DEF NoRingInvariant
    <2>6. /\ s > 0 /\ d <= MaxBackward
          /\ s # WindowSize => (last \/ peeked) /\ d + length <= s /\ 2 <= s
      BY <2>3, <2>4
    <2>7. s # WindowSize => length <= s
      BY <1>2, <2>6
    <2>8. /\ pos' = 0 /\ custom_dict_size' = d /\ ringbuffer_size' = s /\ remaining' = length
           /\ rb_roundtrips' = 0
      BY <1>3, <2>4, <2>5
    <2>9. TypeOK'
      BY <1>1, <1>2, <1>3, <1>4, <1>5, <2>3 DEF TypeOK, WriteStates
    <2>10. NoRingInvariant'
      BY <2>3 DEF NoRingInvariant
    <2>11. PositionInvariant'
      BY <1>2, <1>3, <1>4, <1>5, <2>6, <2>7, <2>8, ConstantsAre
         DEF PositionInvariant, FullRing, Shortened, Pending, WriteStates
    <2>12. CounterInvariant'
      BY <1>3, <1>4, <1>5, <1>2 DEF CounterInvariant
    <2>13. DistanceInvariant'
      BY <1>3, <1>4, <1>5, <2>5, <2>8, ConstantsAre DEF DistanceInvariant
    <2>14. OutputInvariant'
      <3>1. RoundStart' = 0
        BY <2>8 DEF RoundStart
      <3>2. Smaller(pos, ringbuffer_size)' = 0
        BY <2>6, <2>8 DEF Smaller
      <3>3. QED
        BY <1>3, <2>5, <3>1, <3>2 DEF OutputInvariant
    <2>15. ResultIsHonest'
      BY <1>3 DEF ResultIsHonest
    <2>16. QED
      BY <2>9, <2>10, <2>11, <2>12, <2>13, <2>14, <2>15 DEF RingInvariant
  <1>6. CASE ~(ringbuffer_size = 0 /\ length > 0)
    <2>1. UNCHANGED <<ringbuffer, ringbuffer_size, custom_dict_size>>
      BY <1>6 DEF Header
    <2>2. ringbuffer_size > 0 /\ Shortened => length = 0 /\ last
      BY <1>1, <1>3 DEF PositionInvariant
    <2>3. ringbuffer_size = 0 => length = 0
      BY <1>2, <1>6
    <2>4. TypeOK'
      BY <1>1, <1>2, <1>3, <1>4, <2>1 DEF TypeOK, WriteStates
    <2>5. NoRingInvariant'
      BY <1>1, <1>3, <1>4, <2>1, <2>3 DEF NoRingInvariant
    <2>6. PositionInvariant'
      BY <1>1, <1>2, <1>3, <1>4, <2>1, <2>2, ConstantsAre
         DEF PositionInvariant, CounterInvariant, FullRing, Shortened, Pending, WriteStates
    <2>7. CounterInvariant'
      BY <1>2, <1>3, <1>4 DEF CounterInvariant
    <2>8. DistanceInvariant'
      BY <1>1, <1>3, <1>4, <2>1 DEF DistanceInvariant
    <2>9. OutputInvariant'
      BY <1>1, <1>3, <2>1 DEF OutputInvariant, RoundStart, Smaller
    <2>10. ResultIsHonest'
      BY <1>3 DEF ResultIsHonest
    <2>11. QED
      BY <2>4, <2>5, <2>6, <2>7, <2>8, <2>9, <2>10 DEF RingInvariant
  <1>7. QED
    BY <1>5, <1>6

\* Where decoding goes on.
LEMMA ResumedIs ==
  ASSUME RingInvariant, ringbuffer_size > 0,
         state \in WriteStates \cup {"uncompressed_write"}
  PROVE  \/ state = "post_write_1" /\ remaining <= 0 /\ Resumed = "metablock_done"
         \/ state = "post_write_1" /\ remaining > 0 /\ Resumed = "command_begin"
         \/ state = "post_write_2" /\ Resumed = "wrap_copy"
         \/ state = "inner_write" /\ loop_counter > 0 /\ Resumed = "inner"
         \/ state = "inner_write" /\ loop_counter = 0 /\ remaining <= 0
              /\ Resumed = "metablock_done"
         \/ state = "inner_write" /\ loop_counter = 0 /\ remaining > 0
              /\ Resumed = "post_literals"
         \/ state = "uncompressed_write" /\ Resumed = "uncompressed"
  <1>1. loop_counter \in Nat /\ remaining \in Int
    BY RingFacts
  <1>2. Resumed = CASE state = "post_write_1" -> Following(remaining, "command_begin")
                    [] state = "post_write_2" -> "wrap_copy"
                    [] state = "inner_write" /\ loop_counter # 0 -> "inner"
                    [] state = "inner_write" /\ loop_counter = 0 ->
                         Following(remaining, "post_literals")
                    [] state = "uncompressed_write" -> "uncompressed"
    BY DEF Resumed
  <1>3. remaining <= 0 \/ remaining > 0
    BY <1>1
  <1>4. loop_counter = 0 \/ loop_counter > 0
    BY <1>1
  <1>5. loop_counter > 0 => loop_counter # 0
    OBVIOUS
  <1>6. /\ remaining <= 0 => /\ Following(remaining, "command_begin") = "metablock_done"
                             /\ Following(remaining, "post_literals") = "metablock_done"
        /\ remaining > 0 => /\ Following(remaining, "command_begin") = "command_begin"
                            /\ Following(remaining, "post_literals") = "post_literals"
    BY <1>1 DEF Following
  <1>7. CASE state = "post_write_1"
    BY <1>2, <1>3, <1>6, <1>7
  <1>8. CASE state = "post_write_2"
    BY <1>2, <1>8
  <1>9. CASE state = "inner_write"
    BY <1>2, <1>3, <1>4, <1>6, <1>9, <1>5
  <1>10. CASE state = "uncompressed_write"
    BY <1>2, <1>10
  <1>11. QED
    BY <1>7, <1>8, <1>9, <1>10 DEF WriteStates

\* What bounds the position before and after the ring is left.
LEMMA BeforeTheRound ==
  ASSUME RingInvariant, ringbuffer_size > 0, NEW offered \in Nat, NEW code,
         GoesRound(offered, code)
  PROVE  /\ state \in WriteStates \cup {"uncompressed_write"}
         /\ ringbuffer_size = WindowSize /\ ~should_wrap_ringbuffer
         /\ pos - ringbuffer_size \in Nat /\ pos - ringbuffer_size < ringbuffer_size
         /\ pos - ringbuffer_size <= Slack
         /\ pos # ringbuffer_size => state = "post_write_1" /\ pos - ringbuffer_size > 0
         /\ (rb_roundtrips + 1) * ringbuffer_size = RoundStart + ringbuffer_size
  <1>1. /\ pos \in Nat /\ ringbuffer_size \in Nat /\ rb_roundtrips \in Nat
        /\ ringbuffer_size = WindowSize /\ pos >= ringbuffer_size
    BY RingFacts DEF GoesRound, FullRing
  <1>2. ~(pos < ringbuffer_size)
    BY <1>1
  <1>3. state \in WriteStates \cup {"uncompressed_write"}
    BY <1>1, <1>2 DEF RingInvariant, PositionInvariant, FullRing
  <1>4. ~should_wrap_ringbuffer
    BY <1>2 DEF RingInvariant, OutputInvariant
  <1>5. pos <= ringbuffer_size + (IF state = "post_write_1" THEN Slack ELSE 0)
    BY DEF RingInvariant, PositionInvariant
  <1>6. /\ state = "post_write_1" => pos <= ringbuffer_size + Slack
        /\ state # "post_write_1" => pos = ringbuffer_size
    BY <1>1, <1>5
  <1>7. pos <= ringbuffer_size + Slack
    BY <1>1, <1>6, ConstantsAre
  <1>8. (rb_roundtrips + 1) * ringbuffer_size = rb_roundtrips * ringbuffer_size + ringbuffer_size
    BY <1>1
  <1>9. QED
    BY <1>1, <1>3, <1>4, <1>6, <1>7, <1>8, ConstantsAre DEF RoundStart

LEMMA TakeOutputKeepsRing ==
  ASSUME RingInvariant, NEW n \in Nat, TakeOutput(n)
  PROVE  RingInvariant'
  <1>1. /\ TypeOK /\ NoRingInvariant /\ PositionInvariant /\ CounterInvariant
        /\ DistanceInvariant /\ OutputInvariant /\ ResultIsHonest
    BY DEF RingInvariant
  <1>2. ringbuffer_size \in Nat /\ ringbuffer_size > 0 /\ ringbuffer_size <= WindowSize
    BY <1>1, HalvingsAre, ConstantsAre DEF TypeOK, TakeOutput
  <1>3. /\ UNCHANGED <<state, ringbuffer_size, available_out, max_distance, distance_code>>
        /\ UNCHANGED <<loop_counter, remaining, is_last_metablock, ends, custom_dict_size>>
        /\ UNCHANGED <<calling, error_code>> /\ ~calling
        /\ should_wrap_ringbuffer' = (RoundTrip(n) /\ pos # ringbuffer_size)
    BY DEF TakeOutput, copies, blocks, calls
  <1> DEFINE cells == IF should_wrap_ringbuffer THEN Wrapped(pos) ELSE ringbuffer
  <1>4. PICK code \in Codes : ringbuffer' = cells /\ WriteRingBuffer(cells, n, TRUE, code)
    BY DEF TakeOutput
  <1>5. /\ GoesRound(n, code) \/ Stays(n, TRUE, code) \/ Fails(n, code)
        /\ partial_pos_out' \in Nat
    BY <1>2, <1>4, WriteDoes
  <1>6. DOMAIN ringbuffer' = DOMAIN ringbuffer
    <2>1. CASE should_wrap_ringbuffer
      BY <1>4, <2>1 DEF Wrapped
    <2>2. CASE ~should_wrap_ringbuffer
      BY <1>4, <2>2
    <2>3. QED
      BY <2>1, <2>2
  <1>7. should_wrap_ringbuffer' \in BOOLEAN
    BY <1>3
  <1>8. /\ pos \in Nat /\ remaining \in Int /\ rb_roundtrips \in Nat /\ custom_dict_size \in Nat
        /\ loop_counter \in Nat /\ distance_code \in Nat /\ partial_pos_out \in Nat
    BY <1>1 DEF TypeOK
  <1>9. NoRingInvariant'
    BY <1>2, <1>3 DEF NoRingInvariant
  <1>10. CounterInvariant'
    BY <1>1, <1>3 DEF CounterInvariant
  <1>11. CASE GoesRound(n, code)
    <2>1. /\ state \in WriteStates \cup {"uncompressed_write"}
          /\ ringbuffer_size = WindowSize
          /\ pos # ringbuffer_size => state = "post_write_1" /\ pos - ringbuffer_size > 0
          /\ (rb_roundtrips + 1) * ringbuffer_size = RoundStart + ringbuffer_size
      BY <1>2, <1>11, BeforeTheRound
    <2>2. PICK p \in Nat, q \in Nat : p = pos - ringbuffer_size /\ q = rb_roundtrips + 1
      BY <1>2, <1>8, <1>11, BeforeTheRound
    <2>3. p < ringbuffer_size /\ p <= Slack /\ (pos # ringbuffer_size => p > 0)
      BY <1>2, <1>11, <2>1, <2>2, BeforeTheRound
    <2>4. /\ pos' = p /\ rb_roundtrips' = q /\ remaining >= 0
          /\ partial_pos_out' = RoundStart + ringbuffer_size
      BY <1>11, <2>2 DEF GoesRound
    <2>5. q > 0
      BY <1>8, <2>2
    <2>6. RoundStart' = RoundStart + ringbuffer_size
      BY <1>3, <2>1, <2>2, <2>4 DEF RoundStart
    <2>7. Smaller(pos, ringbuffer_size)' = p
      BY <1>2, <1>3, <2>3, <2>4 DEF Smaller
    <2>8. TypeOK'
      BY <1>1, <1>3, <1>5, <1>6, <1>7, <2>4 DEF TypeOK
    <2>9. PositionInvariant'
      BY <1>1, <1>2, <1>3, <2>1, <2>3, <2>4, <2>5, ConstantsAre
         DEF PositionInvariant, FullRing, Shortened
    <2>10. DistanceInvariant'
      BY <1>1, <1>2, <1>3, <2>4, <2>5 DEF DistanceInvariant
    <2>11. RoundStart \in Nat
      BY <1>2, RingFacts
    <2>12. PICK a \in Nat : a = RoundStart + ringbuffer_size
      BY <1>2, <2>11
    <2>13. a <= a /\ a <= a + p
      OBVIOUS
    <2>14. OutputInvariant'
      BY <1>3, <2>1, <2>3, <2>4, <2>6, <2>7, <2>12, <2>13 DEF OutputInvariant, FullRing
    <2>15. ResultIsHonest'
      <3>1. state # "done"
        BY <2>1 DEF WriteStates
      <3>2. QED
        BY <1>1, <1>3, <3>1 DEF ResultIsHonest
    <2>16. QED
      BY <1>9, <1>10, <2>8, <2>9, <2>10, <2>14, <2>15 DEF RingInvariant
  <1>12. CASE Stays(n, TRUE, code) \/ Fails(n, code)
    <2>1. ~RoundTrip(n) /\ UNCHANGED <<pos, rb_roundtrips>>
      BY <1>12 DEF Stays, Fails
    <2>2. should_wrap_ringbuffer' = FALSE
      BY <1>3, <2>1
    <2>3. PICK p \in Nat : p = partial_pos_out'
      BY <1>5
    <2>4. RoundStart \in Nat /\ Smaller(pos, ringbuffer_size) \in Nat
      BY <1>2, RingFacts
    <2>5. /\ RoundStart <= partial_pos_out
          /\ partial_pos_out <= RoundStart + Smaller(pos, ringbuffer_size)
      BY <1>1, <1>2 DEF OutputInvariant
    <2>6. partial_pos_out <= p /\ p <= RoundStart + Smaller(pos, ringbuffer_size)
      <3>1. CASE Stays(n, TRUE, code)
        BY <2>3, <3>1 DEF Stays
      <3>2. CASE Fails(n, code)
        <4>1. p = partial_pos_out
          BY <2>3, <3>2 DEF Fails
        <4>2. QED
          BY <1>8, <2>5, <4>1
      <3>3. QED
        BY <1>12, <3>1, <3>2
    <2>7. RoundStart <= p
      BY <1>8, <2>4, <2>5, <2>6
    <2>8. RoundStart' = RoundStart /\ Smaller(pos, ringbuffer_size)' = Smaller(pos, ringbuffer_size)
      BY <1>3, <2>1 DEF RoundStart, Smaller
    <2>9. TypeOK'
      BY <1>1, <1>3, <1>5, <1>6, <1>7, <2>1 DEF TypeOK
    <2>10. PositionInvariant'
      BY <1>1, <1>3, <2>1 DEF PositionInvariant, FullRing, Shortened, Pending
    <2>11. DistanceInvariant'
      BY <1>1, <1>3, <2>1 DEF DistanceInvariant
    <2>12. OutputInvariant'
      BY <1>3, <2>2, <2>3, <2>6, <2>7, <2>8 DEF OutputInvariant
    <2>13. ResultIsHonest'
      <3>1. ASSUME error_code = Success, state = "done"
            PROVE  p = Total
        <4>1. partial_pos_out = Total
          BY <1>1, <1>3, <3>1 DEF ResultIsHonest
        <4>2. pos <= ringbuffer_size
          BY <1>1, <1>2, <1>8, <3>1 DEF PositionInvariant
        <4>3. Total = RoundStart + Smaller(pos, ringbuffer_size)
          BY <1>2, <4>2, RingFacts
        <4>4. p <= partial_pos_out
          BY <2>6, <4>1, <4>3
        <4>5. p = partial_pos_out
          BY <1>8, <2>6, <4>4
        <4>6. QED
          BY <4>1, <4>5
      <3>2. Total' = Total
        BY <1>3, <2>1 DEF Total
      <3>3. QED
        BY <1>1, <1>3, <2>3, <3>1, <3>2 DEF ResultIsHonest
    <2>14. QED
      BY <1>9, <1>10, <2>9, <2>10, <2>11, <2>12, <2>13 DEF RingInvariant
  <1>13. QED
    BY <1>5, <1>11, <1>12

\* The three ends of a step of a write state.
LEMMA WriteStepDoes ==
  ASSUME RingInvariant, WriteStep
  PROVE  \E code \in Codes :
           /\ WriteOutput(FALSE, code)
           /\ ringbuffer_size \in Nat /\ ringbuffer_size > 0 /\ ringbuffer_size <= WindowSize
           /\ state \in WriteStates \cup {"uncompressed_write"} /\ calling
           /\ DOMAIN ringbuffer' = DOMAIN ringbuffer
           /\ UNCHANGED <<ringbuffer_size, distance_code, loop_counter, remaining>>
           /\ UNCHANGED <<is_last_metablock, ends, custom_dict_size>>
           /\ available_out' \in Nat /\ partial_pos_out' \in Nat
           /\ code = MoreOutput => available_out' = 0
           /\ \/ /\ code = Success /\ GoesRound(available_out, code)
                 /\ state' = Resumed /\ max_distance' = MaxBackward
                 /\ should_wrap_ringbuffer' = FALSE /\ UNCHANGED <<calling, error_code>>
              \/ /\ code = Success /\ Stays(available_out, FALSE, code)
                 /\ state' = Resumed
                 /\ max_distance' = (IF FullRing THEN MaxBackward ELSE max_distance)
                 /\ should_wrap_ringbuffer' = FALSE /\ UNCHANGED <<calling, error_code>>
              \/ /\ \/ Stays(available_out, FALSE, code) /\ code = MoreOutput
                    \/ Fails(available_out, code)
                 /\ UNCHANGED <<state, max_distance, ringbuffer, should_wrap_ringbuffer>>
                 /\ calling' = FALSE /\ error_code' = code
  <1>1. /\ TypeOK /\ NoRingInvariant /\ PositionInvariant /\ CounterInvariant
        /\ DistanceInvariant /\ OutputInvariant /\ ResultIsHonest
    BY DEF RingInvariant
  <1>2. state \in WriteStates \cup {"uncompressed_write"} /\ calling
    BY DEF WriteStep
  <1>3. ringbuffer_size \in Nat /\ ringbuffer_size > 0 /\ ringbuffer_size <= WindowSize
    <2>1. ringbuffer_size # 0
      BY <1>1, <1>2 DEF NoRingInvariant, WriteStates
    <2>2. QED
      BY <1>1, <2>1, HalvingsAre, ConstantsAre DEF TypeOK
  <1>4. PICK code \in Codes :
          /\ WriteOutput(FALSE, code)
          /\ IF code = Success
               THEN /\ GoOn /\ state' = Resumed
                    /\ max_distance' = IF FullRing THEN MaxBackward ELSE max_distance
                    /\ IF state \in WriteStates /\ ShouldWrap(available_out)
                         THEN ringbuffer' = Wrapped(pos') /\ should_wrap_ringbuffer' = FALSE
                         ELSE /\ should_wrap_ringbuffer' = ShouldWrap(available_out)
                              /\ UNCHANGED ringbuffer
               ELSE /\ Return(code)
                    /\ UNCHANGED <<state, max_distance, ringbuffer, should_wrap_ringbuffer>>
    BY DEF WriteStep
  <1>5. /\ WriteRingBuffer(ringbuffer, available_out, FALSE, code)
        /\ available_out' = available_out - (partial_pos_out' - partial_pos_out)
    BY <1>4 DEF WriteOutput
  <1>6. available_out \in Nat /\ partial_pos_out \in Nat
    BY <1>1 DEF TypeOK
  <1>7. /\ \/ GoesRound(available_out, code) \/ Stays(available_out, FALSE, code)
           \/ Fails(available_out, code)
        /\ partial_pos_out' \in Nat
    BY <1>3, <1>5, <1>6, WriteDoes
  <1>8. /\ UNCHANGED <<ringbuffer_size, distance_code, loop_counter, remaining>>
        /\ UNCHANGED <<is_last_metablock, ends, custom_dict_size>>
    BY DEF WriteStep, blocks
  <1>9. DOMAIN ringbuffer' = DOMAIN ringbuffer
    <2>1. CASE code = Success /\ state \in WriteStates /\ ShouldWrap(available_out)
      BY <1>4, <2>1 DEF Wrapped
    <2>2. CASE ~(code = Success /\ state \in WriteStates /\ ShouldWrap(available_out))
      BY <1>4, <2>2
    <2>3. QED
      BY <2>1, <2>2
  <1>10. available_out' \in Nat /\ (code = MoreOutput => available_out' = 0)
    <2>1. PICK p \in Nat : p = partial_pos_out'
      BY <1>7
    <2>2. /\ partial_pos_out <= p /\ p <= partial_pos_out + available_out
          /\ code = MoreOutput => p = partial_pos_out + available_out
      <3>1. CASE GoesRound(available_out, code)
        BY <2>1, <3>1 DEF GoesRound, Success, MoreOutput
      <3>2. CASE Stays(available_out, FALSE, code)
        BY <2>1, <3>2 DEF Stays
      <3>3. CASE Fails(available_out, code)
        <4>1. p = partial_pos_out /\ code # MoreOutput
          BY <2>1, <3>3 DEF Fails, BlockLength, MoreOutput
        <4>2. QED
          BY <1>6, <4>1
      <3>4. QED
        BY <1>7, <3>1, <3>2, <3>3
    <2>3. /\ available_out - (p - partial_pos_out) \in Nat
          /\ code = MoreOutput => available_out - (p - partial_pos_out) = 0
      BY <1>6, <2>2
    <2>4. QED
      BY <1>5, <2>1, <2>3
  <1>11. CASE GoesRound(available_out, code)
    <2>1. code = Success /\ FullRing
      BY <1>11 DEF GoesRound
    <2>2. pos # ringbuffer_size => state = "post_write_1"
      BY <1>3, <1>6, <1>11, BeforeTheRound
    <2>3. ShouldWrap(available_out) = (pos # ringbuffer_size)
      BY <1>11 DEF ShouldWrap, GoesRound
    <2>4. ShouldWrap(available_out) => state \in WriteStates
      BY <2>2, <2>3 DEF WriteStates
    <2>5. should_wrap_ringbuffer' = FALSE
      BY <1>4, <2>1, <2>3, <2>4
    <2>6. /\ state' = Resumed /\ max_distance' = MaxBackward
          /\ UNCHANGED <<calling, error_code>>
      BY <1>4, <2>1 DEF GoOn, calls
    <2>7. QED
      BY <1>2, <1>3, <1>4, <1>7, <1>8, <1>9, <1>10, <1>11, <2>1, <2>5, <2>6
  <1>12. CASE Stays(available_out, FALSE, code) /\ code = Success
    <2>1. ShouldWrap(available_out) = should_wrap_ringbuffer
      BY <1>12 DEF ShouldWrap, Stays
    <2>2. should_wrap_ringbuffer \in BOOLEAN
      BY <1>1 DEF TypeOK
    <2>3. should_wrap_ringbuffer => state \in WriteStates
      BY <1>1, <1>3 DEF OutputInvariant, WriteStates
    <2>4. should_wrap_ringbuffer' = FALSE
      BY <1>4, <1>12, <2>1, <2>2, <2>3
    <2>5. /\ state' = Resumed /\ UNCHANGED <<calling, error_code>>
          /\ max_distance' = (IF FullRing THEN MaxBackward ELSE max_distance)
      BY <1>4, <1>12 DEF GoOn, calls
    <2>6. QED
      BY <1>2, <1>3, <1>4, <1>7, <1>8, <1>9, <1>10, <1>12, <2>4, <2>5
  <1>13. CASE \/ Stays(available_out, FALSE, code) /\ code = MoreOutput
              \/ Fails(available_out, code)
    <2>1. code # Success
      BY <1>13 DEF Fails, Success, MoreOutput, BlockLength
    <2>2. /\ calling' = FALSE /\ error_code' = code
          /\ UNCHANGED <<state, max_distance, ringbuffer, should_wrap_ringbuffer>>
      BY <1>4, <2>1 DEF Return
    <2>3. QED
      BY <1>2, <1>3, <1>4, <1>7, <1>8, <1>9, <1>10, <1>13, <2>2
  <1>14. Stays(available_out, FALSE, code) => code \in {Success, MoreOutput}
    BY DEF Stays
  <1>15. QED
    BY <1>7, <1>11, <1>12, <1>13, <1>14

LEMMA WriteStepKeepsRing ==
  ASSUME RingInvariant, WriteStep
  PROVE  RingInvariant'
  <1>1. /\ TypeOK /\ NoRingInvariant /\ PositionInvariant /\ CounterInvariant
        /\ DistanceInvariant /\ OutputInvariant /\ ResultIsHonest
    BY DEF RingInvariant
  <1>2. PICK code \in Codes :
          /\ ringbuffer_size \in Nat /\ ringbuffer_size > 0 /\ ringbuffer_size <= WindowSize
          /\ state \in WriteStates \cup {"uncompressed_write"} /\ calling
          /\ DOMAIN ringbuffer' = DOMAIN ringbuffer
          /\ UNCHANGED <<ringbuffer_size, distance_code, loop_counter, remaining>>
          /\ UNCHANGED <<is_last_metablock, ends, custom_dict_size>>
          /\ available_out' \in Nat /\ partial_pos_out' \in Nat
          /\ code = MoreOutput => available_out' = 0
          /\ \/ /\ code = Success /\ GoesRound(available_out, code)
                /\ state' = Resumed /\ max_distance' = MaxBackward
                /\ should_wrap_ringbuffer' = FALSE /\ UNCHANGED <<calling, error_code>>
             \/ /\ code = Success /\ Stays(available_out, FALSE, code)
                /\ state' = Resumed
                /\ max_distance' = (IF FullRing THEN MaxBackward ELSE max_distance)
                /\ should_wrap_ringbuffer' = FALSE /\ UNCHANGED <<calling, error_code>>
             \/ /\ \/ Stays(available_out, FALSE, code) /\ code = MoreOutput
                   \/ Fails(available_out, code)
                /\ UNCHANGED <<state, max_distance, ringbuffer, should_wrap_ringbuffer>>
                /\ calling' = FALSE /\ error_code' = code
    BY WriteStepDoes
  <1>3. /\ pos \in Nat /\ remaining \in Int /\ rb_roundtrips \in Nat /\ custom_dict_size \in Nat
        /\ loop_counter \in Nat /\ distance_code \in Nat /\ partial_pos_out \in Nat
        /\ available_out \in Nat /\ max_distance \in 0 .. MaxBackward
        /\ should_wrap_ringbuffer \in BOOLEAN
    BY <1>1 DEF TypeOK
  <1>4. NoRingInvariant'
    BY <1>2 DEF NoRingInvariant
  <1>5. /\ RoundStart \in Nat /\ Smaller(pos, ringbuffer_size) \in Nat
        /\ RoundStart <= partial_pos_out
        /\ partial_pos_out <= RoundStart + Smaller(pos, ringbuffer_size)
    BY <1>2, RingFacts
  <1>6. \/ state = "post_write_1" /\ remaining <= 0 /\ Resumed = "metablock_done"
        \/ state = "post_write_1" /\ remaining > 0 /\ Resumed = "command_begin"
        \/ state = "post_write_2" /\ Resumed = "wrap_copy"
        \/ state = "inner_write" /\ loop_counter > 0 /\ Resumed = "inner"
        \/ state = "inner_write" /\ loop_counter = 0 /\ remaining <= 0
             /\ Resumed = "metablock_done"
        \/ state = "inner_write" /\ loop_counter = 0 /\ remaining > 0
             /\ Resumed = "post_literals"
        \/ state = "uncompressed_write" /\ Resumed = "uncompressed"
    BY <1>2, ResumedIs
  <1>7. CASE /\ code = Success /\ GoesRound(available_out, code)
             /\ state' = Resumed /\ max_distance' = MaxBackward
             /\ should_wrap_ringbuffer' = FALSE /\ UNCHANGED <<calling, error_code>>
    <2>1. /\ ringbuffer_size = WindowSize
          /\ (rb_roundtrips + 1) * ringbuffer_size = RoundStart + ringbuffer_size
      BY <1>2, <1>3, <1>7, BeforeTheRound
    <2>2. PICK p \in Nat, q \in Nat : p = pos - ringbuffer_size /\ q = rb_roundtrips + 1
      BY <1>2, <1>3, <1>7, BeforeTheRound
    <2>3. p < ringbuffer_size
      BY <1>2, <1>3, <1>7, <2>2, BeforeTheRound
    <2>4. /\ pos' = p /\ rb_roundtrips' = q /\ remaining >= 0
          /\ partial_pos_out' = RoundStart + ringbuffer_size
      BY <1>7, <2>2 DEF GoesRound
    <2>5. q > 0
      BY <1>3, <2>2
    <2>6. RoundStart' = RoundStart + ringbuffer_size
      BY <1>2, <2>1, <2>2, <2>4 DEF RoundStart
    <2>7. Smaller(pos, ringbuffer_size)' = p
      BY <1>2, <2>3, <2>4 DEF Smaller
    <2>8. MaxBackward \in 0 .. MaxBackward
      BY ConstantsAre
    <2>9. TypeOK'
      <3>1. state' \in {"command_begin", "inner", "post_literals", "wrap_copy", "uncompressed",
                        "metablock_done"}
        BY <1>6, <1>7
      <3>2. max_distance' \in 0 .. MaxBackward
        BY <1>7, <2>8
      <3>3. /\ should_wrap_ringbuffer' \in BOOLEAN /\ UNCHANGED <<calling, error_code>>
            /\ UNCHANGED ringbuffer_size
        BY <1>2, <1>7
      <3>4. QED
        BY <1>1, <1>2, <2>4, <3>1, <3>2, <3>3 DEF TypeOK
    <2>10. PositionInvariant'
      BY <1>1, <1>2, <1>3, <1>6, <1>7, <2>1, <2>3, <2>4, <2>5, ConstantsAre
         DEF PositionInvariant, FullRing, Shortened
    <2>11. CounterInvariant'
      BY <1>2, <1>6, <1>7, <2>4 DEF CounterInvariant
    <2>12. DistanceInvariant'
      BY <1>1, <1>2, <1>6, <1>7, <2>4, <2>5 DEF DistanceInvariant
    <2>13. PICK a \in Nat : a = RoundStart + ringbuffer_size
      BY <1>2, <1>5
    <2>14. a <= a /\ a <= a + p
      OBVIOUS
    <2>15. OutputInvariant'
      BY <1>7, <2>4, <2>6, <2>7, <2>13, <2>14 DEF OutputInvariant
    <2>16. ResultIsHonest'
      BY <1>2, <1>7 DEF ResultIsHonest
    <2>17. QED
      BY <1>4, <2>9, <2>10, <2>11, <2>12, <2>15, <2>16 DEF RingInvariant
  <1>8. CASE \/ Stays(available_out, FALSE, code) \/ Fails(available_out, code)
    <2>1. UNCHANGED <<pos, rb_roundtrips>>
      BY <1>8 DEF Stays, Fails
    <2>2. PICK p \in Nat : p = partial_pos_out'
      BY <1>2
    <2>3. partial_pos_out <= p /\ p <= RoundStart + Smaller(pos, ringbuffer_size)
      <3>1. CASE Stays(available_out, FALSE, code)
        BY <2>2, <3>1 DEF Stays
      <3>2. CASE Fails(available_out, code)
        <4>1. p = partial_pos_out
          BY <2>2, <3>2 DEF Fails
        <4>2. QED
          BY <1>3, <1>5, <4>1
      <3>3. QED
        BY <1>8, <3>1, <3>2
    <2>4. RoundStart <= p
      BY <1>3, <1>5, <2>3
    <2>5. RoundStart' = RoundStart /\ Smaller(pos, ringbuffer_size)' = Smaller(pos, ringbuffer_size)
      BY <1>2, <2>1 DEF RoundStart, Smaller
    <2>6. CASE /\ code = Success /\ Stays(available_out, FALSE, code)
               /\ state' = Resumed
               /\ max_distance' = (IF FullRing THEN MaxBackward ELSE max_distance)
               /\ should_wrap_ringbuffer' = FALSE /\ UNCHANGED <<calling, error_code>>
      <3>1. /\ remaining >= 0 /\ (FullRing => pos < ringbuffer_size)
        BY <2>6 DEF Stays
      <3>2. FullRing => rb_roundtrips > 0
        <4>1. FullRing => pos >= ringbuffer_size \/ rb_roundtrips > 0
          BY <1>1, <1>2 DEF PositionInvariant
        <4>2. pos < ringbuffer_size => ~(pos >= ringbuffer_size)
          BY <1>2, <1>3
        <4>3. QED
          BY <3>1, <4>1, <4>2
      <3>3. MaxBackward \in 0 .. MaxBackward
        BY ConstantsAre
      <3>4. TypeOK'
        <4>1. state' \in {"command_begin", "inner", "post_literals", "wrap_copy",
                          "uncompressed", "metablock_done"}
          BY <1>6, <2>6
        <4>2. max_distance' \in 0 .. MaxBackward
          BY <1>3, <2>6, <3>3
        <4>3. /\ should_wrap_ringbuffer' \in BOOLEAN /\ UNCHANGED <<calling, error_code>>
              /\ UNCHANGED ringbuffer_size
          BY <1>2, <2>6
        <4>4. QED
          BY <1>1, <1>2, <2>1, <4>1, <4>2, <4>3 DEF TypeOK
      <3>5. PositionInvariant'
        <4>1. pos <= ringbuffer_size + Slack /\ (FullRing \/ Shortened)
          BY <1>1, <1>2, <1>3, ConstantsAre DEF PositionInvariant, FullRing, Shortened
        <4>2. CASE FullRing
          BY <1>1, <1>2, <1>3, <1>6, <2>1, <2>6, <3>1, <3>2, <4>2, ConstantsAre
             DEF PositionInvariant, FullRing, Shortened
        <4>3. CASE Shortened
          <5>1. /\ 2 <= ringbuffer_size
                /\ pos + Pending + remaining <= ringbuffer_size
                /\ is_last_metablock \/ ends
                /\ rb_roundtrips > 0 => FullRing
            BY <1>1, <1>2, <4>3 DEF PositionInvariant
          <5>2. Pending \in Nat /\ Pending' = Pending
            BY <1>2, <1>3, <1>6, <2>6 DEF Pending
          <5>3. state' = "inner" \/ (state' = "wrap_copy" /\ loop_counter > 0) => Pending > 0
            BY <1>2, <1>6, <2>6 DEF Pending
          <5>4. state' \in {"command_begin", "post_literals"} => remaining > 0
            BY <1>6, <2>6
          <5>5. /\ pos <= ringbuffer_size
                /\ Pending > 0 \/ remaining > 0 => pos < ringbuffer_size
            BY <1>2, <1>3, <3>1, <5>1, <5>2
          <5>6. ~FullRing
            BY <1>2, <4>3, ConstantsAre DEF FullRing, Shortened
          <5>7. state' # "metablock_begin" /\ state' # "post_write_1"
            BY <1>6, <2>6
          <5>8. custom_dict_size <= MaxBackward
            BY <1>1, <1>2 DEF PositionInvariant
          <5>9. FullRing' = FullRing /\ Shortened' = Shortened
            BY <1>2 DEF FullRing, Shortened
          <5>10. ringbuffer_size + 0 = ringbuffer_size
            BY <1>2
          <5>11. QED
            BY <1>2, <2>1, <5>1, <5>2, <5>3, <5>4, <5>5, <5>6, <5>7, <5>8, <5>9, <5>10
               DEF PositionInvariant
        <4>4. QED
          BY <4>1, <4>2, <4>3
      <3>6. CounterInvariant'
        BY <1>2, <1>6, <2>6, <3>1 DEF CounterInvariant
      <3>7. DistanceInvariant'
        BY <1>1, <1>2, <1>3, <1>6, <2>1, <2>6, <3>2 DEF DistanceInvariant
      <3>8. OutputInvariant'
        BY <1>2, <2>2, <2>3, <2>4, <2>5, <2>6 DEF OutputInvariant
      <3>9. ResultIsHonest'
        BY <1>2, <2>6 DEF ResultIsHonest
      <3>10. QED
        BY <1>4, <3>4, <3>5, <3>6, <3>7, <3>8, <3>9 DEF RingInvariant
    <2>7. CASE /\ \/ Stays(available_out, FALSE, code) /\ code = MoreOutput
                  \/ Fails(available_out, code)
               /\ UNCHANGED <<state, max_distance, ringbuffer, should_wrap_ringbuffer>>
               /\ calling' = FALSE /\ error_code' = code
      <3>1. TypeOK'
        BY <1>1, <1>2, <2>1, <2>7 DEF TypeOK
      <3>2. PositionInvariant'
        BY <1>1, <1>2, <2>1, <2>7 DEF PositionInvariant, FullRing, Shortened, Pending
      <3>3. CounterInvariant'
        BY <1>1, <1>2, <2>7 DEF CounterInvariant
      <3>4. DistanceInvariant'
        BY <1>1, <1>2, <2>1, <2>7 DEF DistanceInvariant
      <3>5. OutputInvariant'
        <4>1. should_wrap_ringbuffer => p = RoundStart
          <5>1. SUFFICES ASSUME should_wrap_ringbuffer
                         PROVE  p = RoundStart
            OBVIOUS
          <5>2. /\ FullRing /\ partial_pos_out = RoundStart /\ available_out = 0
                /\ remaining >= 0
            BY <1>1, <1>2, <5>1 DEF OutputInvariant
          <5>3. ~Fails(available_out, code)
            BY <5>2, <1>3 DEF Fails
          <5>4. p <= partial_pos_out + 0
            BY <2>2, <2>7, <5>2, <5>3 DEF Stays
          <5>5. p = partial_pos_out
            BY <1>3, <2>3, <5>4
          <5>6. QED
            BY <5>2, <5>5
        <4>2. QED
          BY <1>1, <1>2, <2>1, <2>2, <2>3, <2>4, <2>5, <2>7, <4>1 DEF OutputInvariant, FullRing
      <3>6. ResultIsHonest'
        <4>1. state # "done" /\ state' = state
          BY <1>2, <2>7 DEF WriteStates
        <4>2. QED
          BY <1>2, <2>7, <4>1 DEF ResultIsHonest
      <3>7. QED
        BY <1>4, <3>1, <3>2, <3>3, <3>4, <3>5, <3>6 DEF RingInvariant
    <2>8. ~GoesRound(available_out, code)
      BY <1>8 DEF GoesRound, Stays, Fails
    <2>9. QED
      BY <1>2, <2>6, <2>7, <2>8
  <1>9. QED
    BY <1>2, <1>7, <1>8

LEMMA InitIsOfRing == Init => RingInvariant
  <1> SUFFICES ASSUME Init
               PROVE  RingInvariant
    OBVIOUS
  <1>1. custom_dict_size \in Nat
    BY ConstantsAre DEF Init
  <1>2. TypeOK
    <2>1. 0 \in 0 .. MaxBackward
      BY ConstantsAre
    <2>2. max_distance \in 0 .. MaxBackward
      BY <2>1 DEF Init
    <2>3. /\ error_code \in Codes /\ should_wrap_ringbuffer \in BOOLEAN /\ calling \in BOOLEAN
          /\ is_last_metablock \in BOOLEAN /\ ends \in BOOLEAN
      BY DEF Init, Codes
    <2>4. QED
      BY <1>1, <2>2, <2>3 DEF Init, TypeOK
  <1>3. NoRingInvariant /\ CounterInvariant
    BY DEF Init, NoRingInvariant, CounterInvariant
  <1>4. PositionInvariant /\ DistanceInvariant /\ OutputInvariant
    BY DEF Init, PositionInvariant, DistanceInvariant, OutputInvariant
  <1>5. ResultIsHonest
    BY DEF Init, ResultIsHonest, Success, MoreOutput
  <1>6. QED
    BY <1>2, <1>3, <1>4, <1>5 DEF RingInvariant

LEMMA StutterKeepsRing == RingInvariant /\ UNCHANGED vars => RingInvariant'
  <1> SUFFICES ASSUME RingInvariant, UNCHANGED vars
               PROVE  RingInvariant'
    OBVIOUS
  <1>1. /\ UNCHANGED <<state, ringbuffer, ringbuffer_size, pos, rb_roundtrips, partial_pos_out>>
        /\ UNCHANGED <<should_wrap_ringbuffer, max_distance, distance_code, loop_counter>>
        /\ UNCHANGED <<remaining, is_last_metablock, ends, custom_dict_size, calling>>
        /\ UNCHANGED <<available_out, error_code, delivered>>
    BY DEF vars, rings, outs, copies, blocks, calls
  <1>2. TypeOK' /\ NoRingInvariant' /\ CounterInvariant' /\ DistanceInvariant'
    BY <1>1 DEF RingInvariant, TypeOK, NoRingInvariant, CounterInvariant, DistanceInvariant
  <1>3. PositionInvariant' /\ OutputInvariant'
    BY <1>1 DEF RingInvariant, PositionInvariant, OutputInvariant, FullRing, Shortened, Pending,
        RoundStart, Smaller
  <1>4. ResultIsHonest'
    BY <1>1 DEF RingInvariant, ResultIsHonest, Total
  <1>5. QED
    BY <1>2, <1>3, <1>4 DEF RingInvariant

\* The steps of the decoder and of its caller, one lemma for each.
LEMMA NextKeepsRing ==
  ASSUME RingInvariant, [Next]_vars
  PROVE  RingInvariant'
  <1>1. CASE UNCHANGED vars
    BY <1>1, StutterKeepsRing
  <1>2. CASE \E n \in OutputSizes : Call(n)
    BY <1>2, CallKeepsRing
  <1>3. CASE CallAfterError
    BY <1>3, StutterKeepsRing DEF CallAfterError
  <1>4. ASSUME NEW n \in OutputSizes, TakeOutput(IF n = 0 THEN Everything ELSE n)
        PROVE  RingInvariant'
    <2>1. (IF n = 0 THEN Everything ELSE n) \in Nat
      BY ConstantsAre
    <2>2. QED
      BY <1>4, <2>1, TakeOutputKeepsRing
  <1>5. CASE Decode
    <2>1. ASSUME NEW length \in BlockLengths, NEW last \in BOOLEAN, NEW uncompressed \in BOOLEAN,
                 NEW peeked \in BOOLEAN, Header(length, last, uncompressed, peeked)
          PROVE  RingInvariant'
      BY <2>1, HeaderKeepsRing
    <2>2. ASSUME NEW n \in 0 .. WindowSize, CopyUncompressed(n)
          PROVE  RingInvariant'
      BY <2>2, CopyUncompressedKeepsRing
    <2>3. ASSUME NEW insert \in InsertLengths, ReadCommand(insert)
          PROVE  RingInvariant'
      BY <2>3, ReadCommandKeepsRing
    <2>4. ASSUME NEW length \in CopyLengths, NEW distance \in 1 .. MaxBackward,
                 CopyBack(length, distance)
          PROVE  RingInvariant'
      BY <2>4, CopyBackKeepsRing
    <2>5. ASSUME NEW length \in WordLengths, DictionaryWord(length)
          PROVE  RingInvariant'
      BY <2>5, DictionaryWordKeepsRing
    <2>6. QED
      BY <1>5, <2>1, <2>2, <2>3, <2>4, <2>5, MetablockDoneKeepsRing, DoneKeepsRing,
         LiteralKeepsRing, WrapCopyKeepsRing, EndWrapCopyKeepsRing, WriteStepKeepsRing,
         OutOfInputKeepsRing, InvalidStreamKeepsRing DEF Decode
  <1>6. QED
    BY <1>1, <1>2, <1>3, <1>4, <1>5 DEF Next

\* The ring's positions, counters and results are consistent in every state.
THEOREM RingIsKept == Spec => []RingInvariant
  <1>1. RingInvariant /\ [Next]_vars => RingInvariant'
    BY NextKeepsRing
  <1>2. QED
    BY InitIsOfRing, <1>1, PTL DEF Spec

\* The variables of the ring and of the output have their types: the size of the ring is
\* a halving of the window, and max_distance never exceeds max_backward_distance.
THEOREM RingTypes == Spec => []TypeOK
  <1>1. RingInvariant => TypeOK
    BY DEF RingInvariant
  <1>2. QED
    BY RingIsKept, <1>1, PTL

\* Whatever the stream says: every write of decode.rs starts inside the ring, what goes
\* past its end fits in the slack behind it, and only a ring of the window's size is ever
\* left for its next round.
THEOREM RingIsWrittenInBounds == Spec => []WritesInBounds
  <1>1. RingInvariant => WritesInBounds
    <2> SUFFICES ASSUME RingInvariant
                 PROVE  WritesInBounds
      OBVIOUS
    <2>1. /\ TypeOK /\ NoRingInvariant /\ PositionInvariant
      BY DEF RingInvariant
    <2>2. /\ ringbuffer_size \in Nat /\ ringbuffer_size <= WindowSize /\ pos \in Nat
          /\ rb_roundtrips \in Nat
      BY <2>1, HalvingsAre, ConstantsAre DEF TypeOK
    <2>3. CASE ringbuffer_size = 0
      BY <2>1, <2>3, ConstantsAre DEF NoRingInvariant, WritesInBounds
    <2>4. CASE ringbuffer_size # 0
      <3>1. ringbuffer_size > 0
        BY <2>2, <2>4
      <3>2. FullRing \/ Shortened
        BY <2>2, <3>1, ConstantsAre DEF FullRing, Shortened
      <3>3. QED
        BY <2>1, <2>2, <3>1, <3>2, ConstantsAre DEF PositionInvariant, WritesInBounds, WriteStates
    <2>5. QED
      BY <2>3, <2>4
  <1>2. QED
    BY RingIsKept, <1>1, PTL

\* What a call returns is true: it asks for more output only with a full output buffer,
\* and reports success at the end of the stream only when the caller has all of it.
THEOREM RingResultsAreHonest == Spec => []ResultIsHonest
  <1>1. RingInvariant => ResultIsHonest
    BY DEF RingInvariant
  <1>2. QED
    BY RingIsKept, <1>1, PTL

---------------------------------------------------------------------------
(* The bytes in the ring and the bytes the caller is given.                *)

\* A ring is not shortened, or there is no custom dictionary in it, which the first guess
\* of a copy could write over.
DictionaryIsSafe == custom_dict_size = 0 \/ ~Shortened

\* The bytes of this round are in their cells, those past the end of the ring too.
BehindIntact ==
  \A c \in 0 .. pos - 1 :
    ringbuffer[IF should_wrap_ringbuffer THEN ringbuffer_size + c ELSE c]
      = RoundStart + c

\* Cells ahead of the position that a first guess may have spilled into.  In a shortened
\* ring a copy needs something to copy.
Spill == IF Shortened /\ pos < 2 /\ state # "wrap_copy" THEN 0 ELSE Guess

\* The bytes of the custom dictionary, or two zeros.
Kept == IF custom_dict_size < 2 THEN 2 ELSE custom_dict_size

\* Further ahead are those of the last round, or what was there before the output.
AheadIntact ==
  \A c \in 0 .. ringbuffer_size - 1 :
    /\ c >= pos + Spill
    /\ rb_roundtrips > 0 \/ c >= ringbuffer_size - Kept
    => ringbuffer[c] = RoundStart - ringbuffer_size + c

\* In a shortened ring a copy in progress leaves two bytes behind.
CopyStarts ==
  Shortened /\ state \in {"wrap_copy", "post_write_2"} => pos + loop_counter >= 2

Bytes(n) == [k \in 1 .. n |-> k - 1]

ContentInvariant ==
  DictionaryIsSafe /\ ringbuffer_size > 0 => BehindIntact /\ AheadIntact /\ CopyStarts

DeliveryInvariant == DictionaryIsSafe => delivered = Bytes(partial_pos_out)
-----------------------------------------------------------------------------
(* The steps: the bytes in the ring *)

LEMMA CellsAre ==
  ASSUME RingInvariant, ringbuffer_size > 0
  PROVE  \A c \in 0 .. ringbuffer_size + Slack - 1 : c \in DOMAIN ringbuffer
  <1>1. ringbuffer_size # 0
    BY RingFacts
  <1>2. DOMAIN ringbuffer = 0 .. ringbuffer_size + Slack - 1
    BY <1>1, Zenon DEF RingInvariant, TypeOK
  <1>3. QED
    BY <1>2, Zenon

LEMMA SpillIs == /\ Spill \in Nat /\ Spill <= Guess
                 /\ ~Shortened \/ pos >= 2 \/ state = "wrap_copy" => Spill = Guess \/ ~(pos \in Nat)
  <1>1. Guess \in Nat
    BY ConstantsAre
  <1>2. Spill = 0 \/ Spill = Guess
    BY DEF Spill
  <1>3. pos \in Nat /\ pos >= 2 => ~(pos < 2)
    OBVIOUS
  <1>4. QED
    BY <1>1, <1>2, <1>3 DEF Spill

\* A byte that a copy reads, d bytes back and j bytes on.
LEMMA SourceIs ==
  ASSUME RingInvariant, ContentInvariant, DictionaryIsSafe, ringbuffer_size > 0,
         pos < ringbuffer_size, ~should_wrap_ringbuffer,
         NEW d \in 1 .. MaxBackward, rb_roundtrips = 0 => d <= pos + custom_dict_size
  PROVE  /\ Cell(pos - d) = (IF pos >= d THEN pos - d ELSE pos - d + ringbuffer_size)
         /\ d <= ringbuffer_size
         /\ pos < d => pos - d + ringbuffer_size >= pos + Guess
         /\ \A j \in Nat : (IF pos >= d THEN j < d ELSE j < d - pos) =>
              ringbuffer[Cell(pos - d) + j] = Total + j - d
  <1>1. /\ pos \in Nat /\ rb_roundtrips \in Nat /\ custom_dict_size \in Nat
        /\ ringbuffer_size \in Nat /\ ringbuffer_size <= WindowSize
        /\ RoundStart \in Nat /\ Total = RoundStart + pos
    BY RingFacts
  <1>2. BehindIntact /\ AheadIntact
    BY DEF ContentInvariant
  <1>3. Shortened => rb_roundtrips = 0 /\ custom_dict_size = 0
    <2>1. rb_roundtrips > 0 => ringbuffer_size = WindowSize
      BY DEF RingInvariant, PositionInvariant, FullRing
    <2>2. Shortened => ~(rb_roundtrips > 0)
      BY <1>1, <2>1, ConstantsAre DEF Shortened
    <2>3. rb_roundtrips > 0 \/ rb_roundtrips = 0
      BY <1>1
    <2>4. QED
      BY <2>2, <2>3 DEF DictionaryIsSafe
  <1>4. Shortened => pos >= d
    BY <1>1, <1>3
  <1>5. ~Shortened => ringbuffer_size = WindowSize
    BY <1>1, ConstantsAre DEF Shortened
  <1>6. d <= ringbuffer_size
    <2>1. CASE Shortened
      BY <1>1, <1>4, <2>1
    <2>2. CASE ~Shortened
      BY <1>5, <2>2, ConstantsAre
    <2>3. QED
      BY <2>1, <2>2
  <1>7. Cell(pos - d) = (IF pos >= d THEN pos - d ELSE pos - d + ringbuffer_size)
    <2>1. ringbuffer_size \in Nat \ {0} /\ pos \in 0 .. ringbuffer_size - 1 /\ d \in 1 .. ringbuffer_size
      BY <1>1, <1>6, ConstantsAre
    <2>2. QED
      BY <2>1, RemainderBack DEF Cell
  <1>8. pos < d => pos - d + ringbuffer_size >= pos + Guess
    BY <1>1, <1>4, <1>5, ConstantsAre
  <1>9. ASSUME NEW j \in Nat, IF pos >= d THEN j < d ELSE j < d - pos
        PROVE  ringbuffer[Cell(pos - d) + j] = Total + j - d
    <2>1. CASE pos >= d
      <3>1. PICK c \in 0 .. pos - 1 : c = pos - d + j
        BY <1>1, <1>9, <2>1
      <3>2. ringbuffer[c] = RoundStart + c
        BY <1>2, <3>1 DEF BehindIntact
      <3>3. Cell(pos - d) + j = c
        BY <1>1, <1>7, <2>1, <3>1
      <3>4. RoundStart + c = Total + j - d
        BY <1>1, <3>1
      <3>5. QED
        BY <3>2, <3>3, <3>4
    <2>2. CASE ~(pos >= d)
      <3>1. pos < d /\ j < d - pos /\ ringbuffer_size = WindowSize
        BY <1>1, <1>4, <1>5, <1>9, <2>2
      <3>2. PICK c \in 0 .. ringbuffer_size - 1 : c = pos - d + ringbuffer_size + j
        BY <1>1, <1>6, <3>1
      <3>3. c >= pos + Guess
        BY <1>1, <1>8, <3>1, <3>2, ConstantsAre
      <3>4. rb_roundtrips > 0 \/ c >= ringbuffer_size - Kept
        <4>1. CASE rb_roundtrips = 0
          <5>1. PICK k \in Nat : k = Kept /\ custom_dict_size <= k
            BY <1>1 DEF Kept
          <5>2. d <= pos + k
            BY <1>1, <4>1, <5>1
          <5>3. c >= ringbuffer_size - k
            BY <1>1, <3>2, <5>2
          <5>4. QED
            BY <5>1, <5>3
        <4>2. QED
          BY <1>1, <4>1
      <3>5. c >= pos + Spill
        <4>1. PICK s \in Nat : s = Spill
          BY SpillIs
        <4>2. s <= Guess
          BY <4>1, SpillIs
        <4>3. c >= pos + s
          BY <1>1, <3>3, <4>2, ConstantsAre
        <4>4. QED
          BY <4>1, <4>3
      <3>6. ringbuffer[c] = RoundStart - ringbuffer_size + c
        BY <1>2, <3>4, <3>5 DEF AheadIntact
      <3>7. Cell(pos - d) + j = c
        BY <1>1, <1>7, <2>2, <3>2
      <3>8. RoundStart - ringbuffer_size + c = Total + j - d
        BY <1>1, <3>2
      <3>9. QED
        BY <3>6, <3>7, <3>8
    <2>3. QED
      BY <2>1, <2>2
  <1>10. QED
    BY <1>6, <1>7, <1>8, <1>9

\* The position after a step, and what a guess may have spilled ahead of it by then.
Lands(q, s) == pos' = q /\ Spill' = s

\* Decoding more, when the bytes behind the new position are right and those far enough
\* ahead of it are left alone.
LEMMA AdvanceKeepsContent ==
  ASSUME RingInvariant, ContentInvariant, DictionaryIsSafe, ringbuffer_size > 0,
         state # "post_write_1", NEW q \in Nat, NEW s \in Nat, Lands(q, s), pos <= q,
         UNCHANGED <<ringbuffer_size, rb_roundtrips, should_wrap_ringbuffer, custom_dict_size>>,
         \A c \in 0 .. pos - 1 : ringbuffer'[c] = ringbuffer[c],
         \A c \in pos .. q - 1 : ringbuffer'[c] = RoundStart + c,
         state = "wrap_copy" => s = Guess,
         \A c \in 0 .. ringbuffer_size - 1 : c >= q + s => ringbuffer'[c] = ringbuffer[c],
         CopyStarts'
  PROVE  ContentInvariant'
  <1>1. ~should_wrap_ringbuffer
    BY DEF RingInvariant, OutputInvariant
  <1>2. /\ pos \in Nat /\ rb_roundtrips \in Nat /\ custom_dict_size \in Nat
        /\ ringbuffer_size \in Nat /\ RoundStart \in Nat
    BY RingFacts
  <1>3. BehindIntact /\ AheadIntact
    BY DEF ContentInvariant
  <1>4. RoundStart' = RoundStart /\ Kept' = Kept
    BY DEF RoundStart, Kept
  <1>5. PICK t \in Nat : t = Spill /\ t <= Guess
    BY SpillIs
  <1>6. t <= s
    <2>1. CASE s = Guess
      BY <1>5, <2>1
    <2>2. CASE s # Guess
      <3>1. Shortened' /\ s = 0 /\ ~(q >= 2)
        <4>1. Shortened' /\ s = 0 /\ q < 2
          BY <2>2, ConstantsAre DEF Spill, Lands
        <4>2. QED
          BY <4>1
      <3>2. Shortened /\ pos < 2 /\ state # "wrap_copy"
        <4>1. Shortened
          BY <3>1 DEF Shortened
        <4>2. pos < 2
          BY <1>2, <3>1
        <4>3. QED
          BY <2>2, <4>1, <4>2
      <3>3. t = 0
        BY <1>5, <3>2 DEF Spill
      <3>4. QED
        BY <3>1, <3>3
    <2>3. QED
      BY <2>1, <2>2
  <1>7. BehindIntact'
    <2>1. ASSUME NEW c \in 0 .. q - 1
          PROVE  ringbuffer'[c] = RoundStart + c
      <3>1. CASE c < pos
        <4>1. c \in 0 .. pos - 1
          BY <1>2, <3>1
        <4>2. QED
          BY <1>1, <1>3, <4>1 DEF BehindIntact
      <3>2. CASE c >= pos
        BY <1>2, <3>2
      <3>3. QED
        BY <1>2, <3>1, <3>2
    <2>2. QED
      BY <1>1, <1>4, <2>1 DEF BehindIntact, Lands
  <1>8. AheadIntact'
    <2>1. ASSUME NEW c \in 0 .. ringbuffer_size - 1, c >= q + s,
                 rb_roundtrips > 0 \/ c >= ringbuffer_size - Kept
          PROVE  ringbuffer'[c] = RoundStart - ringbuffer_size + c
      <3>1. c \in Nat /\ c >= q + s
        BY <1>2, <2>1
      <3>2. c >= pos + t
        BY <1>2, <1>6, <3>1
      <3>3. c >= pos + Spill
        BY <1>5, <3>2
      <3>4. QED
        BY <1>3, <2>1, <3>3 DEF AheadIntact
    <2>2. QED
      BY <1>4, <2>1 DEF AheadIntact, Lands
  <1>9. QED
    BY <1>7, <1>8 DEF ContentInvariant

\* Steps that leave the ring and the position alone.
LEMMA SameKeepsContent ==
  ASSUME RingInvariant, ContentInvariant,
         UNCHANGED <<ringbuffer, ringbuffer_size, pos, rb_roundtrips, should_wrap_ringbuffer>>,
         UNCHANGED custom_dict_size,
         \/ state' = state /\ UNCHANGED loop_counter
         \/ state = "wrap_copy" /\ loop_counter = 0 /\ state' \notin {"wrap_copy", "post_write_2"}
         \/ state # "wrap_copy" /\ state' \notin {"wrap_copy", "post_write_2"}
         \/ state = "post_write_2" /\ state' = "wrap_copy" /\ UNCHANGED loop_counter
  PROVE  ContentInvariant'
  <1>1. SUFFICES ASSUME DictionaryIsSafe, ringbuffer_size > 0
                 PROVE  BehindIntact' /\ AheadIntact' /\ CopyStarts'
    BY DEF ContentInvariant, DictionaryIsSafe, Shortened
  <1>2. /\ pos \in Nat /\ ringbuffer_size \in Nat
    BY <1>1, RingFacts
  <1>3. BehindIntact /\ AheadIntact /\ CopyStarts
    BY <1>1 DEF ContentInvariant
  <1>4. Shortened' = Shortened /\ RoundStart' = RoundStart /\ Kept' = Kept
    BY DEF Shortened, RoundStart, Kept
  <1>5. BehindIntact'
    BY <1>3, <1>4 DEF BehindIntact
  <1>6. CopyStarts'
    BY <1>3, <1>4 DEF CopyStarts
  <1>7. PICK s \in Nat, t \in Nat : s = Spill /\ t = Spill'
    <2>1. Spill \in Nat
      BY SpillIs
    <2>2. Spill' \in Nat
      BY <1>4, ConstantsAre DEF Spill
    <2>3. QED
      BY <2>1, <2>2
  <1>8. s <= t
    <2>1. s <= Guess /\ Guess \in Nat
      BY <1>7, SpillIs, ConstantsAre
    <2>2. CASE Shortened /\ pos < 2 /\ state' # "wrap_copy"
      <3>1. ~(state = "wrap_copy" /\ loop_counter = 0)
        BY <1>2, <1>3, <2>2 DEF CopyStarts
      <3>2. state # "wrap_copy"
        BY <2>2, <3>1
      <3>3. s = 0
        BY <1>7, <2>2, <3>2 DEF Spill
      <3>4. QED
        BY <3>3
    <2>3. CASE ~(Shortened /\ pos < 2 /\ state' # "wrap_copy")
      <3>1. t = Guess
        BY <1>4, <1>7, <2>3 DEF Spill
      <3>2. QED
        BY <2>1, <3>1
    <2>4. QED
      BY <2>2, <2>3
  <1>9. AheadIntact'
    <2>1. ASSUME NEW c \in 0 .. ringbuffer_size - 1, c >= pos + t,
                 rb_roundtrips > 0 \/ c >= ringbuffer_size - Kept
          PROVE  ringbuffer[c] = RoundStart - ringbuffer_size + c
      <3>1. c >= pos + s
        BY <1>2, <1>8, <2>1
      <3>2. c >= pos + Spill
        BY <1>7, <3>1
      <3>3. QED
        BY <1>3, <2>1, <3>2 DEF AheadIntact
    <2>2. QED
      BY <1>4, <1>7, <2>1 DEF AheadIntact
  <1>10. QED
    BY <1>5, <1>6, <1>9

\* Where commands write.
LEMMA CommandsAreInRing ==
  ASSUME RingInvariant,
         state \in {"inner", "post_literals"} \/ (state = "wrap_copy" /\ loop_counter > 0)
  PROVE  ringbuffer_size > 0 /\ pos < ringbuffer_size /\ ~should_wrap_ringbuffer
  <1>1. TypeOK /\ NoRingInvariant /\ PositionInvariant /\ OutputInvariant
    BY DEF RingInvariant
  <1>2. ringbuffer_size \in Nat /\ ringbuffer_size <= WindowSize /\ ringbuffer_size > 0
    <2>1. ringbuffer_size # 0
      BY <1>1 DEF NoRingInvariant
    <2>2. ringbuffer_size \in Nat /\ ringbuffer_size <= WindowSize
      BY <1>1, HalvingsAre, ConstantsAre DEF TypeOK
    <2>3. QED
      BY <2>1, <2>2
  <1>3. pos < ringbuffer_size
    BY <1>1, <1>2, ConstantsAre DEF PositionInvariant, FullRing, Shortened, WriteStates
  <1>4. ~should_wrap_ringbuffer
    BY <1>1, <1>2 DEF OutputInvariant
  <1>5. QED
    BY <1>2, <1>3, <1>4

\* What the dictionary and a distance come to in a shortened ring.
LEMMA ShortenedDistance ==
  ASSUME RingInvariant, DictionaryIsSafe, ringbuffer_size > 0
  PROVE  /\ Shortened => rb_roundtrips = 0 /\ custom_dict_size = 0 /\ 2 <= ringbuffer_size
         /\ NewMaxDistance \in 0 .. MaxBackward
         /\ rb_roundtrips = 0 => NewMaxDistance <= pos + custom_dict_size
         /\ Shortened => NewMaxDistance <= pos
  <1>1. /\ pos \in Nat /\ rb_roundtrips \in Nat /\ custom_dict_size \in Nat
        /\ ringbuffer_size \in Nat
    BY RingFacts
  <1>2. max_distance \in 0 .. MaxBackward /\ DistanceInvariant /\ PositionInvariant
    BY DEF RingInvariant, TypeOK
  <1>3. /\ NewMaxDistance \in 0 .. MaxBackward
        /\ rb_roundtrips = 0 => NewMaxDistance <= pos + custom_dict_size
    BY <1>1, <1>2, ConstantsAre DEF NewMaxDistance, DistanceInvariant
  <1>4. ASSUME Shortened
        PROVE  rb_roundtrips = 0 /\ custom_dict_size = 0 /\ 2 <= ringbuffer_size
    <2>1. ~(rb_roundtrips > 0)
      BY <1>1, <1>2, <1>4, ConstantsAre DEF PositionInvariant, FullRing, Shortened
    <2>2. rb_roundtrips = 0
      BY <1>1, <2>1
    <2>3. 2 <= ringbuffer_size
      BY <1>2, <1>4 DEF PositionInvariant
    <2>4. QED
      BY <1>4, <2>2, <2>3 DEF DictionaryIsSafe
  <1>5. Shortened => NewMaxDistance <= pos
    <2>1. PICK m \in Nat : m = NewMaxDistance
      BY <1>3, ConstantsAre
    <2>2. Shortened => m <= pos + 0
      BY <1>3, <1>4, <2>1
    <2>3. Shortened => m <= pos
      BY <1>1, <2>2
    <2>4. QED
      BY <2>1, <2>3
  <1>6. QED
    BY <1>3, <1>4, <1>5

LEMMA LandsSomewhere ==
  ASSUME NEW q \in Nat, pos' = q
  PROVE  /\ \E s \in Nat : Lands(q, s)
         /\ q >= 2 \/ ~Shortened' \/ state' = "wrap_copy" => Lands(q, Guess)
  <1>1. Guess \in Nat
    BY ConstantsAre
  <1>2. Spill' = 0 \/ Spill' = Guess
    BY DEF Spill
  <1>3. q >= 2 => ~(q < 2)
    OBVIOUS
  <1>4. QED
    BY <1>1, <1>2, <1>3 DEF Lands, Spill

LEMMA LiteralKeepsContent ==
  ASSUME RingInvariant, ContentInvariant, Literal
  PROVE  ContentInvariant'
  <1>1. state = "inner"
    BY DEF Literal
  <1>2. ringbuffer_size > 0 /\ pos < ringbuffer_size
    BY <1>1, CommandsAreInRing
  <1>3. pos \in Nat /\ ringbuffer_size \in Nat /\ Total = RoundStart + pos
    BY <1>2, RingFacts
  <1>4. /\ ringbuffer' = [ringbuffer EXCEPT ![pos] = Total] /\ pos' = pos + 1
        /\ UNCHANGED <<ringbuffer_size, rb_roundtrips, should_wrap_ringbuffer, custom_dict_size>>
        /\ state' \notin {"wrap_copy", "post_write_2"}
    BY DEF Literal, outs, blocks, Following
  <1>5. CASE ~DictionaryIsSafe
    BY <1>4, <1>5 DEF ContentInvariant, DictionaryIsSafe, Shortened
  <1>6. CASE DictionaryIsSafe
    <2>1. PICK q \in Nat : q = pos + 1
      BY <1>3
    <2>2. pos <= q /\ \A c \in pos .. q - 1 : c = pos
      BY <1>3, <2>1
    <2>3. PICK s \in Nat : Lands(q, s)
      BY <1>4, <2>1, LandsSomewhere
    <2>4. \A c \in 0 .. ringbuffer_size - 1 : c # pos => ringbuffer'[c] = ringbuffer[c]
      BY <1>2, <1>4, CellsAre
    <2>5. ringbuffer'[pos] = RoundStart + pos
      <3>1. pos \in 0 .. ringbuffer_size + Slack - 1
        BY <1>2, <1>3, ConstantsAre
      <3>2. QED
        BY <1>2, <1>3, <1>4, <3>1, CellsAre
    <2>6. \A c \in 0 .. pos - 1 : ringbuffer'[c] = ringbuffer[c]
      BY <1>2, <1>3, <2>4
    <2>7. \A c \in 0 .. ringbuffer_size - 1 : c >= q + s => ringbuffer'[c] = ringbuffer[c]
      BY <1>3, <2>1, <2>4
    <2>8. CopyStarts'
      BY <1>4 DEF CopyStarts
    <2>9. QED
      BY <1>1, <1>2, <1>4, <1>6, <2>2, <2>3, <2>5, <2>6, <2>7, <2>8, AdvanceKeepsContent
  <1>7. QED
    BY <1>5, <1>6

\* Several bytes at once, of an uncompressed metablock or a dictionary word.
LEMMA BytesKeepContent ==
  ASSUME RingInvariant, ContentInvariant, ringbuffer_size > 0, state \notin {"post_write_1", "wrap_copy"},
         NEW n \in Nat, pos + n <= ringbuffer_size + Slack, pos' = pos + n,
         ringbuffer' = [c \in DOMAIN ringbuffer |->
                          IF c \in pos .. pos + n - 1 THEN Total + c - pos ELSE ringbuffer[c]],
         UNCHANGED <<ringbuffer_size, rb_roundtrips, should_wrap_ringbuffer, custom_dict_size>>,
         state' \notin {"wrap_copy", "post_write_2"}, pos <= ringbuffer_size
  PROVE  ContentInvariant'
  <1>1. CASE ~DictionaryIsSafe
    BY <1>1 DEF ContentInvariant, DictionaryIsSafe, Shortened
  <1>2. CASE DictionaryIsSafe
    <2>1. pos \in Nat /\ ringbuffer_size \in Nat /\ Total = RoundStart + pos /\ RoundStart \in Nat
      BY RingFacts
    <2>2. PICK q \in Nat : q = pos + n
      BY <2>1
    <2>3. pos <= q /\ q <= ringbuffer_size + Slack /\ Slack \in Nat
      BY <2>1, <2>2, ConstantsAre
    <2>4. PICK s \in Nat : Lands(q, s)
      BY <2>2, LandsSomewhere
    <2>5. ASSUME NEW c \in 0 .. ringbuffer_size + Slack - 1
          PROVE  ringbuffer'[c] = IF c \in pos .. pos + n - 1 THEN Total + c - pos
                                  ELSE ringbuffer[c]
      <3>1. c \in DOMAIN ringbuffer
        BY CellsAre
      <3>2. QED
        BY <3>1
    <2>6. \A c \in 0 .. pos - 1 : ringbuffer'[c] = ringbuffer[c]
      <3>1. ASSUME NEW c \in 0 .. pos - 1
            PROVE  ringbuffer'[c] = ringbuffer[c]
        <4>1. c \in 0 .. ringbuffer_size + Slack - 1 /\ c \notin pos .. pos + n - 1
          BY <2>1, <2>3
        <4>2. QED
          BY <2>5, <4>1
      <3>2. QED
        BY <3>1
    <2>7. \A c \in pos .. q - 1 : ringbuffer'[c] = RoundStart + c
      <3>1. ASSUME NEW c \in pos .. q - 1
            PROVE  ringbuffer'[c] = RoundStart + c
        <4>1. c \in 0 .. ringbuffer_size + Slack - 1 /\ c \in pos .. pos + n - 1
          BY <2>1, <2>2, <2>3
        <4>2. ringbuffer'[c] = Total + c - pos
          BY <2>5, <4>1
        <4>3. Total + c - pos = RoundStart + c
          BY <2>1, <4>1
        <4>4. QED
          BY <4>2, <4>3
      <3>2. QED
        BY <3>1
    <2>8. \A c \in 0 .. ringbuffer_size - 1 : c >= q + s => ringbuffer'[c] = ringbuffer[c]
      <3>1. ASSUME NEW c \in 0 .. ringbuffer_size - 1, c >= q + s
            PROVE  ringbuffer'[c] = ringbuffer[c]
        <4>1. c >= q + s /\ c \in Nat
          BY <2>1, <3>1
        <4>2. c \in 0 .. ringbuffer_size + Slack - 1 /\ c \notin pos .. pos + n - 1
          BY <2>1, <2>2, <2>3, <4>1
        <4>3. QED
          BY <2>5, <4>2
      <3>2. QED
        BY <3>1
    <2>9. CopyStarts'
      BY DEF CopyStarts
    <2>10. QED
      BY <1>2, <2>3, <2>4, <2>6, <2>7, <2>8, <2>9, AdvanceKeepsContent
  <1>3. QED
    BY <1>1, <1>2

LEMMA CopyUncompressedKeepsContent ==
  ASSUME RingInvariant, ContentInvariant, NEW n \in 0 .. WindowSize, CopyUncompressed(n)
  PROVE  ContentInvariant'
  <1>1. ringbuffer_size > 0
    <2>1. ringbuffer_size # 0
      BY DEF CopyUncompressed, RingInvariant, NoRingInvariant
    <2>2. ringbuffer_size \in Nat
      BY HalvingsAre, ConstantsAre DEF RingInvariant, TypeOK
    <2>3. QED
      BY <2>1, <2>2
  <1>2. pos \in Nat /\ ringbuffer_size \in Nat
    BY <1>1, RingFacts
  <1>3. /\ state = "uncompressed" /\ pos' = pos + n /\ pos + n <= ringbuffer_size
        /\ ringbuffer' = [c \in DOMAIN ringbuffer |->
                            IF c \in pos .. pos + n - 1 THEN Total + c - pos ELSE ringbuffer[c]]
        /\ UNCHANGED <<ringbuffer_size, rb_roundtrips, should_wrap_ringbuffer, custom_dict_size>>
    BY DEF CopyUncompressed, outs
  <1>4. n \in Nat /\ pos + n <= ringbuffer_size + Slack /\ pos <= ringbuffer_size
    BY <1>2, <1>3, ConstantsAre
  <1>5. state' \in {"uncompressed_write", "metablock_done", "uncompressed"}
    BY DEF CopyUncompressed
  <1>6. QED
    BY <1>1, <1>3, <1>4, <1>5, BytesKeepContent

LEMMA DictionaryWordKeepsContent ==
  ASSUME RingInvariant, ContentInvariant, NEW length \in WordLengths, DictionaryWord(length)
  PROVE  ContentInvariant'
  <1>1. ringbuffer_size > 0 /\ pos < ringbuffer_size /\ state = "post_literals"
    <2>1. state = "post_literals"
      BY DEF DictionaryWord
    <2>2. QED
      BY <2>1, CommandsAreInRing
  <1>2. pos \in Nat /\ ringbuffer_size \in Nat
    BY <1>1, RingFacts
  <1>3. /\ pos' = pos + length
        /\ ringbuffer' = [c \in DOMAIN ringbuffer |->
                            IF c \in pos .. pos + length - 1 THEN Total + c - pos
                            ELSE ringbuffer[c]]
        /\ UNCHANGED <<ringbuffer_size, rb_roundtrips, should_wrap_ringbuffer, custom_dict_size>>
    BY DEF DictionaryWord, outs
  <1>4. length \in Nat /\ pos + length <= ringbuffer_size + Slack /\ pos <= ringbuffer_size
    BY <1>1, <1>2, ConstantsAre
  <1>5. state' \in {"post_write_1", "metablock_done", "command_begin"}
    BY DEF DictionaryWord, Following
  <1>6. QED
    BY <1>1, <1>3, <1>4, <1>5, BytesKeepContent

\* The byte a copy in progress reads next.
LEMMA NextSourceIs ==
  ASSUME RingInvariant, ContentInvariant, DictionaryIsSafe, state = "wrap_copy", loop_counter > 0
  PROVE  ringbuffer[Cell(pos - distance_code)] = Total - distance_code
  <1>1. ringbuffer_size > 0 /\ pos < ringbuffer_size /\ ~should_wrap_ringbuffer
    BY CommandsAreInRing
  <1>2. /\ distance_code \in 1 .. MaxBackward
        /\ rb_roundtrips = 0 => distance_code <= pos + custom_dict_size
    BY <1>1 DEF RingInvariant, DistanceInvariant
  <1>3. /\ pos \in Nat /\ RoundStart \in Nat /\ ringbuffer_size \in Nat
        /\ Total = RoundStart + pos
    BY <1>1, RingFacts
  <1>4. PICK d \in Nat : d = distance_code /\ d >= 1
    BY <1>2, ConstantsAre
  <1>5. IF pos >= d THEN 0 < d ELSE 0 < d - pos
    BY <1>3, <1>4
  <1>6. ringbuffer[Cell(pos - d) + 0] = Total + 0 - d
    BY <1>1, <1>2, <1>4, <1>5, SourceIs
  <1>7. Cell(pos - d) = (IF pos >= d THEN pos - d ELSE pos - d + ringbuffer_size)
    BY <1>1, <1>2, <1>4, SourceIs
  <1>8. Cell(pos - d) + 0 = Cell(pos - d) /\ Total + 0 - d = Total - d
    BY <1>3, <1>4, <1>7
  <1>9. QED
    BY <1>4, <1>6, <1>8

LEMMA WrapCopyKeepsContent ==
  ASSUME RingInvariant, ContentInvariant, WrapCopy
  PROVE  ContentInvariant'
  <1>1. state = "wrap_copy" /\ loop_counter > 0
    BY DEF WrapCopy
  <1>2. ringbuffer_size > 0 /\ pos < ringbuffer_size
    BY <1>1, CommandsAreInRing
  <1>3. /\ pos \in Nat /\ ringbuffer_size \in Nat /\ Total = RoundStart + pos
        /\ loop_counter \in Nat
    BY <1>2, RingFacts
  <1>4. /\ ringbuffer' = [ringbuffer EXCEPT ![pos] =
                            IF ringbuffer[Cell(pos - distance_code)] = Total - distance_code
                              THEN Total ELSE Junk]
        /\ pos' = pos + 1 /\ loop_counter' = loop_counter - 1
        /\ state' = IF pos' = ringbuffer_size THEN "post_write_2" ELSE "wrap_copy"
        /\ UNCHANGED <<ringbuffer_size, rb_roundtrips, should_wrap_ringbuffer, custom_dict_size>>
    BY DEF WrapCopy, outs, blocks
  <1>5. CASE ~DictionaryIsSafe
    BY <1>4, <1>5 DEF ContentInvariant, DictionaryIsSafe, Shortened
  <1>6. CASE DictionaryIsSafe
    <2>1. PICK q \in Nat : q = pos + 1
      BY <1>3
    <2>2. pos <= q /\ \A c \in pos .. q - 1 : c = pos
      BY <1>3, <2>1
    <2>3. Shortened' = Shortened /\ (Shortened => 2 <= ringbuffer_size)
      BY <1>2, <1>4, <1>6, ShortenedDistance DEF Shortened
    <2>4. q >= 2 \/ ~Shortened' \/ state' = "wrap_copy"
      BY <1>4, <2>1, <2>3
    <2>5. Lands(q, Guess) /\ Guess \in Nat
      BY <1>4, <2>1, <2>4, LandsSomewhere, ConstantsAre
    <2>6. \A c \in 0 .. ringbuffer_size - 1 : c # pos => ringbuffer'[c] = ringbuffer[c]
      BY <1>2, <1>4, CellsAre
    <2>7. ringbuffer'[pos] = RoundStart + pos
      <3>1. pos \in 0 .. ringbuffer_size + Slack - 1
        BY <1>2, <1>3, ConstantsAre
      <3>2. pos \in DOMAIN ringbuffer
        BY <1>2, <3>1, CellsAre
      <3>3. ringbuffer[Cell(pos - distance_code)] = Total - distance_code
        BY <1>1, <1>6, NextSourceIs
      <3>4. ringbuffer' = [ringbuffer EXCEPT ![pos] = Total]
        BY <1>4, <3>3
      <3>5. QED
        BY <1>3, <3>2, <3>4
    <2>8. \A c \in 0 .. pos - 1 : ringbuffer'[c] = ringbuffer[c]
      BY <1>2, <1>3, <2>6
    <2>9. \A c \in 0 .. ringbuffer_size - 1 : c >= q + Guess => ringbuffer'[c] = ringbuffer[c]
      <3>1. \A c \in 0 .. ringbuffer_size - 1 : c >= q + Guess => c # pos
        BY <1>3, <2>1, ConstantsAre
      <3>2. QED
        BY <2>6, <3>1
    <2>10. CopyStarts'
      <3>1. Shortened => pos + loop_counter >= 2
        BY <1>1, <1>2, <1>6 DEF ContentInvariant, CopyStarts
      <3>2. PICK l \in Nat : l = loop_counter - 1
        BY <1>1, <1>3
      <3>3. Shortened => q + l >= 2
        BY <1>3, <2>1, <3>1, <3>2
      <3>4. QED
        BY <1>4, <2>1, <2>3, <3>2, <3>3 DEF CopyStarts
    <2>11. QED
      BY <1>1, <1>2, <1>4, <1>6, <2>2, <2>5, <2>7, <2>8, <2>9, <2>10, AdvanceKeepsContent
  <1>7. QED
    BY <1>5, <1>6

\* A byte that a block move leaves alone, and one that it copies.
LEMMA BlockMoveLeaves ==
  ASSUME NEW cells, NEW source, NEW distance, NEW length, NEW from \in Nat, NEW to \in Nat,
         pos \in Nat, NEW c \in DOMAIN cells, c \in Int,
         ~(pos + from <= c /\ c < pos + to)
  PROVE  BlockMove(cells, source, distance, length, from, to)[c] = cells[c]
  <1>1. c - pos \notin from .. to - 1
    OBVIOUS
  <1>2. QED
    BY <1>1 DEF BlockMove

LEMMA BlockMoveCopies ==
  ASSUME NEW cells, NEW source, NEW distance, NEW length \in Nat, NEW from \in Nat,
         NEW to \in Nat, pos \in Nat, NEW c \in DOMAIN cells, c \in Int,
         pos + from <= c, c < pos + to, c < pos + length,
         cells[source + (c - pos)] = Total + (c - pos) - distance
  PROVE  BlockMove(cells, source, distance, length, from, to)[c] = Total + (c - pos)
  <1>1. c - pos \in from .. to - 1 /\ c - pos < length
    OBVIOUS
  <1>2. QED
    BY <1>1 DEF BlockMove

LEMMA BlockMoveDomain ==
  ASSUME NEW cells, NEW source, NEW distance, NEW length, NEW from, NEW to
  PROVE  DOMAIN BlockMove(cells, source, distance, length, from, to) = DOMAIN cells
  BY DEF BlockMove

\* A copy that is done with block moves: what they leave in the ring.
LEMMA BlockMovesCopy ==
  ASSUME RingInvariant, ContentInvariant, DictionaryIsSafe, state = "post_literals",
         NEW length \in CopyLengths, NEW distance \in 1 .. MaxBackward,
         CopyBack(length, distance),
         ~Overlaps(Cell(pos - distance), length), ~MeetsEnd(Cell(pos - distance), length)
  PROVE  /\ \A c \in 0 .. pos - 1 : ringbuffer'[c] = ringbuffer[c]
         /\ \A c \in pos .. pos + length - 1 : ringbuffer'[c] = RoundStart + c
         /\ \A c \in 0 .. ringbuffer_size - 1 : c >= pos + length + Guess =>
              ringbuffer'[c] = ringbuffer[c]
  <1>1. ringbuffer_size > 0 /\ pos < ringbuffer_size /\ ~should_wrap_ringbuffer
    BY CommandsAreInRing
  <1>2. /\ pos \in Nat /\ ringbuffer_size \in Nat /\ RoundStart \in Nat
        /\ Total = RoundStart + pos
    BY <1>1, RingFacts
  <1>3. length \in Nat /\ distance \in Nat /\ Guess \in Nat /\ Slack \in Nat
    BY ConstantsAre
  <1>4. rb_roundtrips = 0 => distance <= pos + custom_dict_size
    <2>1. distance <= NewMaxDistance
      BY DEF CopyBack
    <2>2. PICK m \in Nat : /\ m = NewMaxDistance
                           /\ rb_roundtrips = 0 => m <= pos + custom_dict_size
      BY <1>1, ShortenedDistance, ConstantsAre
    <2>3. distance <= m
      BY <2>1, <2>2
    <2>4. custom_dict_size \in Nat
      BY <1>1, RingFacts
    <2>5. QED
      BY <1>2, <1>3, <2>2, <2>3, <2>4
  <1>5. PICK source \in Int :
          /\ source = Cell(pos - distance)
          /\ source = (IF pos >= distance THEN pos - distance ELSE pos - distance + ringbuffer_size)
          /\ pos < distance => pos - distance + ringbuffer_size >= pos + Guess
          /\ \A j \in Nat : (IF pos >= distance THEN j < distance ELSE j < distance - pos) =>
               ringbuffer[source + j] = Total + j - distance
    <2>1. (IF pos >= distance THEN pos - distance ELSE pos - distance + ringbuffer_size) \in Int
      BY <1>2, <1>3
    <2>2. QED
      BY <1>1, <1>4, <2>1, SourceIs
  <1>6. /\ ~(source + length > pos /\ pos + length > source)
        /\ pos + length < ringbuffer_size /\ source + length < ringbuffer_size
    BY <1>2, <1>3, <1>5 DEF Overlaps, MeetsEnd
  <1>7. /\ pos >= distance => source >= 0 /\ source + length <= pos /\ length <= distance
        /\ pos < distance => source >= pos + Guess /\ length <= distance - pos
    BY <1>2, <1>3, <1>5, <1>6
  <1>8. source >= 0
    BY <1>2, <1>3, <1>7
  <1>9. \A j \in Nat : j < length => ringbuffer[source + j] = Total + j - distance
    BY <1>2, <1>3, <1>5, <1>7
  <1> DEFINE guessed == BlockMove(ringbuffer, source, distance, length, 0, Guess)
             to == IF length <= 2 * Guess THEN 2 * Guess ELSE length
  <1>10. ringbuffer' = IF length <= Guess THEN guessed
                       ELSE BlockMove(guessed, source, distance, length, Guess, to)
    BY <1>5 DEF CopyBack
  <1>11. to \in Nat /\ (length > Guess => to <= length + Guess /\ to >= length)
    BY <1>3
  <1>12. \A c \in 0 .. ringbuffer_size - 1 : c \in DOMAIN ringbuffer /\ c \in DOMAIN guessed
    <2>1. \A c \in 0 .. ringbuffer_size - 1 : c \in 0 .. ringbuffer_size + Slack - 1
      BY <1>2, <1>3
    <2>2. \A c \in 0 .. ringbuffer_size - 1 : c \in DOMAIN ringbuffer
      BY <1>1, <2>1, CellsAre
    <2>3. QED
      BY <2>2, BlockMoveDomain
  <1>13. ASSUME NEW c \in 0 .. ringbuffer_size - 1
         PROVE  /\ c < pos \/ c >= pos + Guess => guessed[c] = ringbuffer[c]
                /\ pos <= c /\ c < pos + Guess /\ c < pos + length => guessed[c] = RoundStart + c
    <2>1. c \in DOMAIN ringbuffer /\ c \in Int
      BY <1>2, <1>12
    <2>2. ~(pos + 0 <= c /\ c < pos + Guess) => guessed[c] = ringbuffer[c]
      BY <1>2, <1>3, <2>1, BlockMoveLeaves
    <2>3. /\ pos + 0 <= c /\ c < pos + Guess /\ c < pos + length
          /\ ringbuffer[source + (c - pos)] = Total + (c - pos) - distance
          => guessed[c] = Total + (c - pos)
      BY <1>2, <1>3, <2>1, BlockMoveCopies
    <2>4. pos <= c /\ c < pos + length =>
            ringbuffer[source + (c - pos)] = Total + (c - pos) - distance
      <3>1. pos <= c /\ c < pos + length => c - pos \in Nat /\ c - pos < length
        BY <1>2, <1>3, <2>1
      <3>2. QED
        BY <1>9, <3>1
    <2>5. Total + (c - pos) = RoundStart + c
      BY <1>2, <2>1
    <2>6. c < pos \/ c >= pos + Guess => ~(pos + 0 <= c /\ c < pos + Guess)
      BY <1>2, <1>3, <2>1
    <2>7. pos <= c => pos + 0 <= c
      BY <1>2, <2>1
    <2>8. QED
      BY <2>2, <2>4, <2>5, <2>6, <2>7, <2>3
  <1>14. CASE length <= Guess
    <2>1. ringbuffer' = guessed
      BY <1>10, <1>14
    <2>2. ASSUME NEW c \in 0 .. pos - 1
          PROVE  ringbuffer'[c] = ringbuffer[c]
      <3>1. c \in 0 .. ringbuffer_size - 1 /\ c < pos
        BY <1>1, <1>2
      <3>2. QED
        BY <1>13, <2>1, <3>1
    <2>3. ASSUME NEW c \in pos .. pos + length - 1
          PROVE  ringbuffer'[c] = RoundStart + c
      <3>1. /\ c \in 0 .. ringbuffer_size - 1
            /\ pos <= c /\ c < pos + Guess /\ c < pos + length
        BY <1>2, <1>3, <1>6, <1>14
      <3>2. QED
        BY <1>13, <2>1, <3>1
    <2>4. ASSUME NEW c \in 0 .. ringbuffer_size - 1, c >= pos + length + Guess
          PROVE  ringbuffer'[c] = ringbuffer[c]
      <3>1. c >= pos + Guess
        BY <1>2, <1>3, <2>4
      <3>2. QED
        BY <1>13, <2>1, <3>1
    <2>5. QED
      BY <2>2, <2>3, <2>4
  <1>15. CASE length > Guess
    <2>1. ringbuffer' = BlockMove(guessed, source, distance, length, Guess, to)
      <3>1. ~(length <= Guess)
        BY <1>3, <1>15
      <3>2. QED
        BY <1>10, <3>1
    <2>2. to \in Nat /\ to <= length + Guess /\ to >= length
      BY <1>11, <1>15
    <2> HIDE DEF to, guessed
    <2>3. ASSUME NEW c \in 0 .. ringbuffer_size - 1
          PROVE  /\ ~(pos + Guess <= c /\ c < pos + to) => ringbuffer'[c] = guessed[c]
                 /\ pos + Guess <= c /\ c < pos + length => ringbuffer'[c] = RoundStart + c
      <3>1. c \in DOMAIN guessed /\ c \in Int
        BY <1>2, <1>12
      <3>2. ~(pos + Guess <= c /\ c < pos + to) => ringbuffer'[c] = guessed[c]
        BY <1>2, <1>3, <2>1, <2>2, <3>1, BlockMoveLeaves
      <3>3. /\ pos + Guess <= c /\ c < pos + to /\ c < pos + length
            /\ guessed[source + (c - pos)] = Total + (c - pos) - distance
            => ringbuffer'[c] = Total + (c - pos)
        BY <1>2, <1>3, <2>1, <2>2, <3>1, BlockMoveCopies
      <3>4. ASSUME pos + Guess <= c, c < pos + length
            PROVE  guessed[source + (c - pos)] = Total + (c - pos) - distance
        <4>1. PICK j \in Nat : j = c - pos /\ Guess <= j /\ j < length
          BY <1>2, <1>3, <3>1, <3>4
        <4>2. source + j \in 0 .. ringbuffer_size - 1
          BY <1>2, <1>3, <1>6, <1>8, <4>1
        <4>3. source + j < pos \/ source + j >= pos + Guess
          BY <1>2, <1>3, <1>7, <4>1
        <4>4. guessed[source + j] = ringbuffer[source + j]
          BY <1>13, <4>2, <4>3
        <4>5. ringbuffer[source + j] = Total + j - distance
          BY <1>9, <4>1
        <4>6. QED
          BY <4>1, <4>4, <4>5
      <3>5. Total + (c - pos) = RoundStart + c
        BY <1>2, <3>1
      <3>6. c < pos + length => c < pos + to
        BY <1>2, <1>3, <2>2, <3>1
      <3>7. QED
        BY <3>2, <3>4, <3>5, <3>6, <3>3
    <2>4. ASSUME NEW c \in 0 .. pos - 1
          PROVE  ringbuffer'[c] = ringbuffer[c]
      <3>1. /\ c \in 0 .. ringbuffer_size - 1 /\ c < pos
            /\ ~(pos + Guess <= c /\ c < pos + to)
        BY <1>1, <1>2, <1>3
      <3>2. QED
        BY <1>13, <2>3, <3>1
    <2>5. ASSUME NEW c \in pos .. pos + length - 1
          PROVE  ringbuffer'[c] = RoundStart + c
      <3>1. c \in 0 .. ringbuffer_size - 1 /\ pos <= c /\ c < pos + length
        BY <1>2, <1>3, <1>6
      <3>2. CASE c < pos + Guess
        <4>1. ~(pos + Guess <= c /\ c < pos + to)
          BY <1>2, <1>3, <3>1, <3>2
        <4>2. QED
          BY <1>13, <2>3, <3>1, <3>2, <4>1
      <3>3. CASE pos + Guess <= c
        BY <2>3, <3>1, <3>3
      <3>4. QED
        BY <1>2, <1>3, <3>1, <3>2, <3>3
    <2>6. ASSUME NEW c \in 0 .. ringbuffer_size - 1, c >= pos + length + Guess
          PROVE  ringbuffer'[c] = ringbuffer[c]
      <3>1. c >= pos + Guess /\ ~(pos + Guess <= c /\ c < pos + to)
        BY <1>2, <1>3, <2>2, <2>6
      <3>2. QED
        BY <1>13, <2>3, <3>1
    <2>7. QED
      BY <2>4, <2>5, <2>6
  <1>16. QED
    BY <1>3, <1>14, <1>15

LEMMA CopyBackKeepsContent ==
  ASSUME RingInvariant, ContentInvariant, NEW length \in CopyLengths,
         NEW distance \in 1 .. MaxBackward, CopyBack(length, distance)
  PROVE  ContentInvariant'
  <1>1. state = "post_literals"
    BY DEF CopyBack
  <1>2. ringbuffer_size > 0 /\ pos < ringbuffer_size /\ ~should_wrap_ringbuffer
    BY <1>1, CommandsAreInRing
  <1>3. pos \in Nat /\ ringbuffer_size \in Nat
    BY <1>2, RingFacts
  <1>4. length \in Nat /\ length >= 1 /\ Guess \in Nat /\ Slack \in Nat
    BY ConstantsAre
  <1>5. UNCHANGED <<ringbuffer_size, rb_roundtrips, should_wrap_ringbuffer, custom_dict_size>>
    BY DEF CopyBack, outs
  <1>6. CASE ~DictionaryIsSafe
    BY <1>5, <1>6 DEF ContentInvariant, DictionaryIsSafe, Shortened
  <1>7. CASE DictionaryIsSafe
    <2>1. Shortened => pos >= 1
      <3>1. PICK m \in Nat : m = NewMaxDistance /\ (Shortened => m <= pos)
        BY <1>2, <1>7, ShortenedDistance, ConstantsAre
      <3>2. distance <= m
        BY <3>1 DEF CopyBack
      <3>3. QED
        BY <1>3, <3>1, <3>2, ConstantsAre
    <2>2. Shortened' = Shortened
      BY <1>5 DEF Shortened
    <2>3. CASE Overlaps(Cell(pos - distance), length) \/ MeetsEnd(Cell(pos - distance), length)
      <3>1. /\ ringbuffer' = BlockMove(ringbuffer, Cell(pos - distance), distance, length, 0, Guess)
            /\ loop_counter' = length /\ state' = "wrap_copy" /\ pos' = pos
        BY <2>3 DEF CopyBack
      <3>2. Lands(pos, Guess)
        BY <1>3, <3>1, LandsSomewhere
      <3>3. ASSUME NEW c \in 0 .. ringbuffer_size - 1, c < pos \/ c >= pos + Guess
            PROVE  ringbuffer'[c] = ringbuffer[c]
        <4>1. c \in 0 .. ringbuffer_size + Slack - 1
          BY <1>3, <1>4
        <4>2. c \in DOMAIN ringbuffer
          BY <1>2, <4>1, CellsAre
        <4>3. c - pos \notin 0 .. Guess - 1
          BY <1>3, <1>4, <3>3
        <4>4. QED
          BY <3>1, <4>2, <4>3 DEF BlockMove
      <3>4. \A c \in 0 .. pos - 1 : ringbuffer'[c] = ringbuffer[c]
        <4>1. \A c \in 0 .. pos - 1 : c \in 0 .. ringbuffer_size - 1 /\ c < pos
          BY <1>2, <1>3
        <4>2. QED
          BY <3>3, <4>1
      <3>5. \A c \in pos .. pos - 1 : ringbuffer'[c] = RoundStart + c
        <4>1. pos .. pos - 1 = {}
          BY <1>3
        <4>2. QED
          BY <4>1
      <3>6. \A c \in 0 .. ringbuffer_size - 1 : c >= pos + Guess => ringbuffer'[c] = ringbuffer[c]
        BY <3>3
      <3>7. CopyStarts'
        <4>1. Shortened => pos + length >= 2
          BY <1>3, <1>4, <2>1
        <4>2. QED
          BY <2>2, <3>1, <4>1 DEF CopyStarts
      <3>8. pos <= pos
        BY <1>3
      <3>9. QED
        BY <1>1, <1>2, <1>3, <1>4, <1>5, <1>7, <3>2, <3>4, <3>5, <3>6, <3>7, <3>8,
           AdvanceKeepsContent
    <2>4. CASE ~(Overlaps(Cell(pos - distance), length) \/ MeetsEnd(Cell(pos - distance), length))
      <3>1. pos' = pos + length /\ state' \in {"metablock_done", "command_begin"}
        BY <2>4 DEF CopyBack, Following
      <3> DEFINE q == pos + length
      <3>2. q \in Nat
        BY <1>3, <1>4
      <3>3. q >= 2 \/ ~Shortened'
        BY <1>3, <1>4, <2>1, <2>2, <3>2
      <3>4. Lands(q, Guess)
        BY <3>1, <3>2, <3>3, LandsSomewhere
      <3>5. /\ \A c \in 0 .. pos - 1 : ringbuffer'[c] = ringbuffer[c]
            /\ \A c \in pos .. q - 1 : ringbuffer'[c] = RoundStart + c
            /\ \A c \in 0 .. ringbuffer_size - 1 : c >= q + Guess =>
                 ringbuffer'[c] = ringbuffer[c]
        <4>1. /\ \A c \in 0 .. pos - 1 : ringbuffer'[c] = ringbuffer[c]
              /\ \A c \in pos .. pos + length - 1 : ringbuffer'[c] = RoundStart + c
              /\ \A c \in 0 .. ringbuffer_size - 1 : c >= pos + length + Guess =>
                   ringbuffer'[c] = ringbuffer[c]
          BY <1>1, <1>7, <2>4, BlockMovesCopy
        <4>2. q - 1 = pos + length - 1
          BY <1>3, <1>4
        <4>3. QED
          BY <4>1, <4>2, Zenon
      <3>6. CopyStarts'
        BY <3>1 DEF CopyStarts
      <3>7. pos <= q
        BY <1>3, <1>4, <3>2
      <3> HIDE DEF q
      <3>8. QED
        BY <1>1, <1>2, <1>4, <1>5, <1>7, <3>2, <3>4, <3>5, <3>6, <3>7, AdvanceKeepsContent
    <2>5. QED
      BY <2>3, <2>4
  <1>8. QED
    BY <1>6, <1>7
-----------------------------------------------------------------------------
(* Steps that write nothing to the ring, and the round trips *)

LEMMA CallKeepsContent ==
  ASSUME RingInvariant, ContentInvariant, NEW n \in OutputSizes, Call(n)
  PROVE  ContentInvariant'
  <1>1. /\ UNCHANGED <<ringbuffer, ringbuffer_size, pos, rb_roundtrips, should_wrap_ringbuffer>>
        /\ UNCHANGED custom_dict_size /\ state' = state /\ UNCHANGED loop_counter
    BY DEF Call, rings, copies, blocks
  <1>2. QED
    BY <1>1, SameKeepsContent

LEMMA MetablockDoneKeepsContent ==
  ASSUME RingInvariant, ContentInvariant, MetablockDone
  PROVE  ContentInvariant'
  <1>1. /\ UNCHANGED <<ringbuffer, ringbuffer_size, pos, rb_roundtrips, should_wrap_ringbuffer>>
        /\ UNCHANGED custom_dict_size /\ state = "metablock_done"
        /\ state' \in {"done", "metablock_begin"}
    BY DEF MetablockDone, rings, outs
  <1>2. QED
    BY <1>1, SameKeepsContent

LEMMA InvalidStreamKeepsContent ==
  ASSUME RingInvariant, ContentInvariant, InvalidStream
  PROVE  ContentInvariant'
  <1>1. /\ UNCHANGED <<ringbuffer, ringbuffer_size, pos, rb_roundtrips, should_wrap_ringbuffer>>
        /\ UNCHANGED custom_dict_size /\ state' = state /\ UNCHANGED loop_counter
    BY DEF InvalidStream, rings, outs, copies, blocks
  <1>2. QED
    BY <1>1, SameKeepsContent

LEMMA ReadCommandKeepsContent ==
  ASSUME RingInvariant, ContentInvariant, NEW insert \in InsertLengths, ReadCommand(insert)
  PROVE  ContentInvariant'
  <1>1. /\ UNCHANGED <<ringbuffer, ringbuffer_size, pos, rb_roundtrips, should_wrap_ringbuffer>>
        /\ UNCHANGED custom_dict_size /\ state = "command_begin"
        /\ state' \in {"post_literals", "inner"}
    BY DEF ReadCommand, rings, outs
  <1>2. QED
    BY <1>1, SameKeepsContent

LEMMA EndWrapCopyKeepsContent ==
  ASSUME RingInvariant, ContentInvariant, EndWrapCopy
  PROVE  ContentInvariant'
  <1>1. /\ UNCHANGED <<ringbuffer, ringbuffer_size, pos, rb_roundtrips, should_wrap_ringbuffer>>
        /\ UNCHANGED custom_dict_size /\ state = "wrap_copy" /\ loop_counter = 0
        /\ state' \in {"metablock_done", "command_begin"}
    BY DEF EndWrapCopy, rings, outs, blocks, Following
  <1>2. QED
    BY <1>1, SameKeepsContent

LEMMA DoneKeepsContent ==
  ASSUME RingInvariant, ContentInvariant, Done
  PROVE  ContentInvariant'
  <1>1. /\ UNCHANGED <<ringbuffer, ringbuffer_size, custom_dict_size, loop_counter>>
        /\ state = "done" /\ state' = state
    BY DEF Done, copies, blocks
  <1>2. UNCHANGED <<pos, rb_roundtrips, should_wrap_ringbuffer>>
    <2>1. CASE ringbuffer_size = 0
      BY <2>1 DEF Done, outs
    <2>2. CASE ringbuffer_size # 0
      <3>1. ringbuffer_size > 0
        BY <2>2, HalvingsAre, ConstantsAre DEF RingInvariant, TypeOK
      <3>2. PICK code \in Codes : WriteOutput(TRUE, code)
        BY <2>2 DEF Done
      <3>3. should_wrap_ringbuffer' = ShouldWrap(available_out)
        BY <2>2 DEF Done
      <3>4. state \notin WriteStates \cup {"uncompressed_write"}
        BY <1>1 DEF WriteStates
      <3>5. QED
        BY <3>1, <3>2, <3>3, <3>4, ForcedWrite
    <2>3. QED
      BY <2>1, <2>2
  <1>3. QED
    BY <1>1, <1>2, SameKeepsContent

LEMMA OutOfInputKeepsContent ==
  ASSUME RingInvariant, ContentInvariant, OutOfInput
  PROVE  ContentInvariant'
  <1>1. /\ UNCHANGED <<ringbuffer, ringbuffer_size, custom_dict_size, loop_counter>>
        /\ state \in {"metablock_begin", "command_begin", "inner", "post_literals",
                      "uncompressed"}
        /\ state' = state
    BY DEF OutOfInput, copies, blocks
  <1>2. UNCHANGED <<pos, rb_roundtrips, should_wrap_ringbuffer>>
    <2>1. CASE ringbuffer_size = 0
      BY <2>1 DEF OutOfInput, outs
    <2>2. CASE ringbuffer_size # 0
      <3>1. ringbuffer_size > 0
        BY <2>2, HalvingsAre, ConstantsAre DEF RingInvariant, TypeOK
      <3>2. PICK code \in Codes : WriteOutput(TRUE, code)
        BY <2>2 DEF OutOfInput
      <3>3. should_wrap_ringbuffer' = ShouldWrap(available_out)
        BY <2>2 DEF OutOfInput
      <3>4. state \notin WriteStates \cup {"uncompressed_write"}
        BY <1>1 DEF WriteStates
      <3>5. QED
        BY <3>1, <3>2, <3>3, <3>4, ForcedWrite
    <2>3. QED
      BY <2>1, <2>2
  <1>3. QED
    BY <1>1, <1>2, SameKeepsContent

\* The first metablock with output: two zeros or the custom dictionary at the end of the
\* ring.
LEMMA HeaderKeepsContent ==
  ASSUME RingInvariant, ContentInvariant, NEW length \in BlockLengths, NEW last \in BOOLEAN,
         NEW uncompressed \in BOOLEAN, NEW peeked \in BOOLEAN,
         Header(length, last, uncompressed, peeked)
  PROVE  ContentInvariant'
  <1>1. /\ UNCHANGED <<pos, rb_roundtrips, should_wrap_ringbuffer>> /\ state = "metablock_begin"
        /\ state' \in {"metablock_done", "uncompressed", "command_begin"}
    BY DEF Header, outs
  <1>2. CASE ~(ringbuffer_size = 0 /\ length > 0)
    <2>1. UNCHANGED <<ringbuffer, ringbuffer_size, custom_dict_size>>
      BY <1>2 DEF Header
    <2>2. QED
      BY <1>1, <2>1, SameKeepsContent
  <1>3. CASE ringbuffer_size = 0 /\ length > 0
    <2>1. Allocate(length, last \/ peeked)
      BY <1>3 DEF Header
    <2>2. pos = 0 /\ rb_roundtrips = 0
      BY <1>3 DEF RingInvariant, NoRingInvariant
    <2>3. TypeOK /\ length \in Nat /\ (last \/ peeked) \in BOOLEAN
      BY ConstantsAre DEF RingInvariant
    <2>4. PICK size \in Nat, dict \in Nat :
            /\ size = ringbuffer_size' /\ dict = custom_dict_size'
            /\ dict = Smaller(custom_dict_size, MaxBackward)
            /\ size = RingSize(dict + length, last \/ peeked)
      <3>1. ringbuffer_size' \in Halvings /\ custom_dict_size' \in Nat
        BY <1>3, <2>1, <2>3, AllocatedSize
      <3>2. ringbuffer_size' \in Nat
        BY <3>1, HalvingsAre, ConstantsAre
      <3>3. QED
        BY <2>1, <3>1, <3>2 DEF Allocate
    <2>5. PICK k \in Nat : k = (IF dict < 2 THEN 2 ELSE dict)
      OBVIOUS
    <2>6. k = Kept'
      BY <2>4, <2>5 DEF Kept
    <2>7. ringbuffer' = [c \in 0 .. size + Slack - 1 |->
                           IF c \in size - k .. size - 1 THEN c - size ELSE Junk]
      BY <2>1, <2>4, <2>5, Zenon DEF Allocate
    <2>8. BehindIntact'
      <3>1. pos' = 0
        BY <1>1, <2>2
      <3>2. 0 .. 0 - 1 = {}
        OBVIOUS
      <3>3. QED
        BY <3>1, <3>2 DEF BehindIntact
    <2>9. AheadIntact'
      <3>1. RoundStart' = 0 /\ rb_roundtrips' = 0
        BY <1>1, <2>2, <2>4 DEF RoundStart
      <3>2. ASSUME NEW c \in 0 .. size - 1, c >= size - k
            PROVE  ringbuffer'[c] = 0 - size + c
        <4>1. /\ c \in 0 .. size + Slack - 1 /\ c \in size - k .. size - 1
              /\ c - size = 0 - size + c
          BY <3>2, ConstantsAre
        <4>2. QED
          BY <2>7, <4>1
      <3>3. \A c \in 0 .. size - 1 : rb_roundtrips' > 0 \/ c >= size - k => c >= size - k
        BY <3>1
      <3>4. ASSUME NEW c \in 0 .. ringbuffer_size' - 1,
                   rb_roundtrips' > 0 \/ c >= ringbuffer_size' - Kept'
            PROVE  ringbuffer'[c] = RoundStart' - ringbuffer_size' + c
        <4>1. c \in 0 .. size - 1 /\ (rb_roundtrips' > 0 \/ c >= size - k)
          BY <2>4, <2>6, <3>4, Zenon
        <4>2. ringbuffer'[c] = 0 - size + c
          BY <3>2, <3>3, <4>1
        <4>3. QED
          BY <2>4, <3>1, <4>2, Zenon
      <3>5. QED
        BY <3>4, Zenon DEF AheadIntact
    <2>10. CopyStarts'
      BY <1>1 DEF CopyStarts
    <2>11. QED
      BY <2>8, <2>9, <2>10 DEF ContentInvariant
  <1>4. QED
    BY <1>2, <1>3

\* What went past the end comes to the start of the ring.
LEMMA WrapKeepsContent ==
  ASSUME RingInvariant, ContentInvariant, ringbuffer_size > 0, should_wrap_ringbuffer,
         UNCHANGED <<ringbuffer_size, pos, rb_roundtrips, custom_dict_size>>,
         ringbuffer' = Wrapped(pos), should_wrap_ringbuffer' = FALSE
  PROVE  ContentInvariant'
  <1>1. FullRing /\ pos < ringbuffer_size
    BY DEF RingInvariant, OutputInvariant
  <1>2. /\ pos \in Nat /\ ringbuffer_size \in Nat /\ RoundStart' = RoundStart /\ Kept' = Kept
        /\ Slack \in Nat
    BY RingFacts, ConstantsAre DEF RoundStart, Kept
  <1>3. ~Shortened /\ ~Shortened'
    BY <1>1, <1>2 DEF FullRing, Shortened
  <1>4. BehindIntact /\ AheadIntact
    BY <1>3 DEF ContentInvariant, DictionaryIsSafe
  <1>5. ASSUME NEW c \in 0 .. ringbuffer_size - 1
        PROVE  ringbuffer'[c] = IF c < pos THEN ringbuffer[ringbuffer_size + c] ELSE ringbuffer[c]
    <2>1. c \in 0 .. ringbuffer_size + Slack - 1
      BY <1>2
    <2>2. c \in DOMAIN ringbuffer
      BY <2>1, CellsAre
    <2>3. QED
      BY <2>2 DEF Wrapped
  <1>6. BehindIntact'
    <2>1. ASSUME NEW c \in 0 .. pos - 1
          PROVE  ringbuffer'[c] = RoundStart + c
      <3>1. c \in 0 .. ringbuffer_size - 1 /\ c < pos
        BY <1>1, <1>2
      <3>2. ringbuffer[ringbuffer_size + c] = RoundStart + c
        BY <1>4 DEF BehindIntact
      <3>3. QED
        BY <1>5, <3>1, <3>2
    <2>2. QED
      BY <1>2, <2>1 DEF BehindIntact
  <1>7. AheadIntact'
    <2>1. Spill = Guess /\ Spill' = Guess /\ Guess \in Nat
      BY <1>3, ConstantsAre DEF Spill
    <2>2. ASSUME NEW c \in 0 .. ringbuffer_size - 1, c >= pos + Guess,
                 rb_roundtrips > 0 \/ c >= ringbuffer_size - Kept
          PROVE  ringbuffer'[c] = RoundStart - ringbuffer_size + c
      <3>1. ~(c < pos)
        BY <1>2, <2>1, <2>2
      <3>2. ringbuffer[c] = RoundStart - ringbuffer_size + c
        BY <1>4, <2>1, <2>2 DEF AheadIntact
      <3>3. QED
        BY <1>5, <3>1, <3>2
    <2>3. QED
      BY <1>2, <2>1, <2>2 DEF AheadIntact
  <1>8. QED
    BY <1>3, <1>6, <1>7 DEF ContentInvariant, CopyStarts

\* The ring is left for its next round, and what went past its end is brought to its
\* start, at once or later.
LEMMA RoundKeepsContent ==
  ASSUME RingInvariant, ContentInvariant, ringbuffer_size > 0,
         NEW offered \in Nat, NEW code, GoesRound(offered, code),
         UNCHANGED <<ringbuffer_size, custom_dict_size>>,
         \/ ringbuffer' = ringbuffer /\ should_wrap_ringbuffer' = (pos # ringbuffer_size)
         \/ pos = ringbuffer_size /\ ringbuffer' = ringbuffer /\ should_wrap_ringbuffer' = FALSE
         \/ ringbuffer' = Wrapped(pos') /\ should_wrap_ringbuffer' = FALSE
  PROVE  ContentInvariant'
  <1>1. /\ ringbuffer_size = WindowSize /\ ~should_wrap_ringbuffer
        /\ (rb_roundtrips + 1) * ringbuffer_size = RoundStart + ringbuffer_size
        /\ pos - ringbuffer_size \in Nat /\ pos - ringbuffer_size < ringbuffer_size
        /\ pos - ringbuffer_size <= Slack
    BY BeforeTheRound
  <1>2. pos \in Nat /\ ringbuffer_size \in Nat /\ RoundStart \in Nat /\ Slack \in Nat
    BY RingFacts, ConstantsAre
  <1>3. PICK p \in Nat : p = pos - ringbuffer_size
    BY <1>1
  <1>4. /\ pos = ringbuffer_size + p /\ p < ringbuffer_size /\ p <= Slack
    BY <1>1, <1>2, <1>3
  <1>5. /\ pos' = p /\ RoundStart' = RoundStart + ringbuffer_size
    BY <1>1, <1>3 DEF GoesRound, RoundStart
  <1>6. ~Shortened /\ ~Shortened'
    BY <1>1, <1>2 DEF Shortened
  <1>7. BehindIntact
    BY <1>6 DEF ContentInvariant, DictionaryIsSafe
  <1>8. \A c \in 0 .. ringbuffer_size - 1 : ringbuffer[c] = RoundStart + c
    <2>1. \A c \in 0 .. ringbuffer_size - 1 : c \in 0 .. pos - 1
      BY <1>2, <1>4
    <2>2. QED
      BY <1>1, <1>7, <2>1 DEF BehindIntact
  <1>9. \A c \in 0 .. p - 1 : ringbuffer[ringbuffer_size + c] = RoundStart + ringbuffer_size + c
    <2>1. ASSUME NEW c \in 0 .. p - 1
          PROVE  ringbuffer[ringbuffer_size + c] = RoundStart + ringbuffer_size + c
      <3>1. ringbuffer_size + c \in 0 .. pos - 1
        BY <1>2, <1>4
      <3>2. ringbuffer[ringbuffer_size + c] = RoundStart + (ringbuffer_size + c)
        BY <1>1, <1>7, <3>1 DEF BehindIntact
      <3>3. QED
        BY <1>2, <3>2
    <2>2. QED
      BY <2>1
  <1>10. ASSUME NEW c \in 0 .. ringbuffer_size - 1, ringbuffer' = Wrapped(pos')
         PROVE  ringbuffer'[c] = IF c < p THEN ringbuffer[ringbuffer_size + c] ELSE ringbuffer[c]
    <2>1. c \in 0 .. ringbuffer_size + Slack - 1
      BY <1>2
    <2>2. c \in DOMAIN ringbuffer
      BY <2>1, CellsAre
    <2>3. QED
      BY <1>5, <1>10, <2>2 DEF Wrapped
  <1>11. BehindIntact'
    <2>1. ASSUME NEW c \in 0 .. p - 1
          PROVE  ringbuffer'[IF should_wrap_ringbuffer' THEN ringbuffer_size + c ELSE c]
                   = RoundStart + ringbuffer_size + c
      <3>1. ringbuffer[ringbuffer_size + c] = RoundStart + ringbuffer_size + c
        BY <1>9
      <3>2. CASE ringbuffer' = ringbuffer /\ should_wrap_ringbuffer' = (pos # ringbuffer_size)
        <4>1. pos # ringbuffer_size
          BY <1>2, <1>4
        <4>2. QED
          BY <3>1, <3>2, <4>1
      <3>3. CASE pos = ringbuffer_size
        BY <1>2, <1>4, <3>3
      <3>4. CASE ringbuffer' = Wrapped(pos') /\ should_wrap_ringbuffer' = FALSE
        <4>1. c \in 0 .. ringbuffer_size - 1 /\ c < p
          BY <1>2, <1>4
        <4>2. ringbuffer'[c] = ringbuffer[ringbuffer_size + c]
          BY <1>10, <3>4, <4>1
        <4>3. QED
          BY <3>1, <3>4, <4>2
      <3>5. QED
        BY <3>2, <3>3, <3>4
    <2>2. QED
      BY <1>5, <2>1 DEF BehindIntact
  <1>12. AheadIntact'
    <2>1. Spill' = Guess /\ Guess \in Nat
      BY <1>6, ConstantsAre DEF Spill
    <2>2. ASSUME NEW c \in 0 .. ringbuffer_size - 1, c >= p + Guess
          PROVE  ringbuffer'[c] = (RoundStart + ringbuffer_size) - ringbuffer_size + c
      <3>1. ~(c < p)
        BY <1>2, <2>1, <2>2
      <3>2. ringbuffer'[c] = ringbuffer[c]
        BY <1>10, <3>1
      <3>3. (RoundStart + ringbuffer_size) - ringbuffer_size + c = RoundStart + c
        BY <1>2
      <3>4. QED
        BY <1>8, <3>2, <3>3
    <2>3. QED
      BY <1>5, <2>1, <2>2 DEF AheadIntact
  <1>13. QED
    BY <1>6, <1>11, <1>12 DEF ContentInvariant, CopyStarts

LEMMA TakeOutputKeepsContent ==
  ASSUME RingInvariant, ContentInvariant, NEW n \in Nat, TakeOutput(n)
  PROVE  ContentInvariant'
  <1>1. /\ UNCHANGED <<state, ringbuffer_size, loop_counter, custom_dict_size>>
        /\ should_wrap_ringbuffer' = (RoundTrip(n) /\ pos # ringbuffer_size)
        /\ ringbuffer_size # 0
    BY DEF TakeOutput, copies, blocks
  <1>2. ringbuffer_size > 0
    BY <1>1, HalvingsAre, ConstantsAre DEF RingInvariant, TypeOK
  <1> DEFINE cells == IF should_wrap_ringbuffer THEN Wrapped(pos) ELSE ringbuffer
  <1>3. PICK code \in Codes : ringbuffer' = cells /\ WriteRingBuffer(cells, n, TRUE, code)
    BY DEF TakeOutput
  <1>4. GoesRound(n, code) \/ Stays(n, TRUE, code) \/ Fails(n, code)
    BY <1>2, <1>3, WriteDoes
  <1>5. CASE GoesRound(n, code)
    <2>1. ~should_wrap_ringbuffer
      BY <1>2, <1>5, BeforeTheRound
    <2>2. ringbuffer' = ringbuffer
      BY <1>3, <2>1
    <2>3. should_wrap_ringbuffer' = (pos # ringbuffer_size)
      BY <1>1, <1>5 DEF GoesRound
    <2>4. QED
      BY <1>1, <1>2, <1>5, <2>2, <2>3, RoundKeepsContent
  <1>6. CASE Stays(n, TRUE, code) \/ Fails(n, code)
    <2>1. ~RoundTrip(n) /\ UNCHANGED <<pos, rb_roundtrips>>
      BY <1>6 DEF Stays, Fails
    <2>2. should_wrap_ringbuffer' = FALSE
      BY <1>1, <2>1
    <2>3. CASE should_wrap_ringbuffer
      <3>1. ringbuffer' = Wrapped(pos)
        BY <1>3, <2>3
      <3>2. QED
        BY <1>1, <1>2, <2>1, <2>2, <2>3, <3>1, WrapKeepsContent
    <2>4. CASE ~should_wrap_ringbuffer
      <3>1. ringbuffer' = ringbuffer
        BY <1>3, <2>4
      <3>2. should_wrap_ringbuffer = FALSE
        BY <2>4 DEF RingInvariant, TypeOK
      <3>3. QED
        BY <1>1, <2>1, <2>2, <3>1, <3>2, SameKeepsContent
    <2>5. QED
      BY <2>3, <2>4
  <1>7. QED
    BY <1>4, <1>5, <1>6

LEMMA WriteStepKeepsContent ==
  ASSUME RingInvariant, ContentInvariant, WriteStep
  PROVE  ContentInvariant'
  <1>1. /\ state \in WriteStates \cup {"uncompressed_write"}
        /\ UNCHANGED <<ringbuffer_size, loop_counter, custom_dict_size>>
    BY DEF WriteStep, blocks
  <1>2. ringbuffer_size > 0 /\ available_out \in Nat
    <2>1. ringbuffer_size # 0
      BY <1>1 DEF RingInvariant, NoRingInvariant, WriteStates
    <2>2. QED
      BY <2>1, HalvingsAre, ConstantsAre DEF RingInvariant, TypeOK
  <1>3. PICK code \in Codes :
          /\ WriteOutput(FALSE, code)
          /\ IF code = Success
               THEN /\ state' = Resumed
                    /\ IF state \in WriteStates /\ ShouldWrap(available_out)
                         THEN ringbuffer' = Wrapped(pos') /\ should_wrap_ringbuffer' = FALSE
                         ELSE /\ should_wrap_ringbuffer' = ShouldWrap(available_out)
                              /\ UNCHANGED ringbuffer
               ELSE UNCHANGED <<state, ringbuffer, should_wrap_ringbuffer>>
    BY DEF WriteStep
  <1>4. \/ GoesRound(available_out, code) \/ Stays(available_out, FALSE, code)
        \/ Fails(available_out, code)
    BY <1>2, <1>3, WriteDoes DEF WriteOutput
  <1>5. CASE GoesRound(available_out, code)
    <2>1. code = Success /\ ShouldWrap(available_out) = (pos # ringbuffer_size)
      BY <1>5 DEF GoesRound, ShouldWrap
    <2>2. pos # ringbuffer_size => state \in WriteStates
      BY <1>2, <1>5, BeforeTheRound DEF WriteStates
    <2>3. \/ ringbuffer' = Wrapped(pos') /\ should_wrap_ringbuffer' = FALSE
          \/ pos = ringbuffer_size /\ ringbuffer' = ringbuffer /\ should_wrap_ringbuffer' = FALSE
      BY <1>3, <2>1, <2>2
    <2>4. QED
      BY <1>1, <1>2, <1>5, <2>3, RoundKeepsContent
  <1>6. CASE Stays(available_out, FALSE, code) \/ Fails(available_out, code)
    <2>1. ~RoundTrip(available_out) /\ UNCHANGED <<pos, rb_roundtrips>>
      BY <1>6 DEF Stays, Fails
    <2>2. ShouldWrap(available_out) = should_wrap_ringbuffer
      BY <2>1 DEF ShouldWrap
    <2>3. CASE code # Success
      BY <1>1, <1>3, <2>1, <2>3, SameKeepsContent
    <2>4. CASE code = Success /\ should_wrap_ringbuffer
      <3>1. state \in WriteStates
        BY <1>2, <2>4 DEF RingInvariant, OutputInvariant, WriteStates
      <3>2. ringbuffer' = Wrapped(pos') /\ should_wrap_ringbuffer' = FALSE
        BY <1>3, <2>2, <2>4, <3>1
      <3>3. ringbuffer' = Wrapped(pos)
        BY <2>1, <3>2
      <3>4. QED
        BY <1>1, <1>2, <2>1, <2>4, <3>2, <3>3, WrapKeepsContent
    <2>5. CASE code = Success /\ ~should_wrap_ringbuffer
      <3>1. UNCHANGED <<ringbuffer, should_wrap_ringbuffer>> /\ state' = Resumed
        BY <1>3, <2>2, <2>5
      <3>2. \/ state = "post_write_2" /\ Resumed = "wrap_copy"
            \/ state # "wrap_copy" /\ Resumed \notin {"wrap_copy", "post_write_2"}
        BY <1>1, <1>2, ResumedIs DEF WriteStates
      <3>3. QED
        BY <1>1, <2>1, <3>1, <3>2, SameKeepsContent
    <2>6. QED
      BY <2>3, <2>4, <2>5
  <1>7. QED
    BY <1>4, <1>5, <1>6

LEMMA StutterKeepsContent ==
  ASSUME RingInvariant, ContentInvariant, UNCHANGED vars
  PROVE  ContentInvariant'
  <1>1. /\ UNCHANGED <<ringbuffer, ringbuffer_size, pos, rb_roundtrips, should_wrap_ringbuffer>>
        /\ UNCHANGED custom_dict_size /\ state' = state /\ UNCHANGED loop_counter
    BY DEF vars, rings, outs, copies, blocks
  <1>2. QED
    BY <1>1, SameKeepsContent

LEMMA NextKeepsContent ==
  ASSUME RingInvariant, ContentInvariant, [Next]_vars
  PROVE  ContentInvariant'
  <1>1. CASE UNCHANGED vars
    BY <1>1, StutterKeepsContent
  <1>2. CASE \E n \in OutputSizes : Call(n)
    BY <1>2, CallKeepsContent
  <1>3. CASE CallAfterError
    BY <1>3, StutterKeepsContent DEF CallAfterError
  <1>4. ASSUME NEW n \in OutputSizes, TakeOutput(IF n = 0 THEN Everything ELSE n)
        PROVE  ContentInvariant'
    <2>1. (IF n = 0 THEN Everything ELSE n) \in Nat
      BY ConstantsAre
    <2>2. QED
      BY <1>4, <2>1, TakeOutputKeepsContent
  <1>5. CASE Decode
    <2>1. ASSUME NEW length \in BlockLengths, NEW last \in BOOLEAN, NEW uncompressed \in BOOLEAN,
                 NEW peeked \in BOOLEAN, Header(length, last, uncompressed, peeked)
          PROVE  ContentInvariant'
      BY <2>1, HeaderKeepsContent
    <2>2. ASSUME NEW n \in 0 .. WindowSize, CopyUncompressed(n)
          PROVE  ContentInvariant'
      BY <2>2, CopyUncompressedKeepsContent
    <2>3. ASSUME NEW insert \in InsertLengths, ReadCommand(insert)
          PROVE  ContentInvariant'
      BY <2>3, ReadCommandKeepsContent
    <2>4. ASSUME NEW length \in CopyLengths, NEW distance \in 1 .. MaxBackward,
                 CopyBack(length, distance)
          PROVE  ContentInvariant'
      BY <2>4, CopyBackKeepsContent
    <2>5. ASSUME NEW length \in WordLengths, DictionaryWord(length)
          PROVE  ContentInvariant'
      BY <2>5, DictionaryWordKeepsContent
    <2>6. QED
      BY <1>5, <2>1, <2>2, <2>3, <2>4, <2>5, MetablockDoneKeepsContent, DoneKeepsContent,
         LiteralKeepsContent, WrapCopyKeepsContent, EndWrapCopyKeepsContent,
         WriteStepKeepsContent, OutOfInputKeepsContent, InvalidStreamKeepsContent DEF Decode
  <1>6. QED
    BY <1>1, <1>2, <1>3, <1>4, <1>5 DEF Next
-----------------------------------------------------------------------------
(* The bytes the caller is given *)

LEMMA BytesAre ==
  ASSUME NEW n \in Nat
  PROVE  /\ Bytes(n) \in Seq(Nat) /\ Len(Bytes(n)) = n
         /\ \A k \in 1 .. n : Bytes(n)[k] = k - 1
  <1>1. \A k \in 1 .. n : k - 1 \in Nat
    OBVIOUS
  <1>2. [k \in 1 .. n |-> k - 1] \in Seq(Nat)
    BY <1>1, IsASeq
  <1>3. Len([k \in 1 .. n |-> k - 1]) = n
    OBVIOUS
  <1>4. QED
    BY <1>2, <1>3 DEF Bytes

\* The bytes that follow the first a.
LEMMA MoreBytes ==
  ASSUME NEW a \in Nat, NEW w \in Nat
  PROVE  Bytes(a) \o [k \in 1 .. w |-> a + (k - 1)] = Bytes(a + w)
  <1> DEFINE more == [k \in 1 .. w |-> a + (k - 1)]
  <1>1. more \in Seq(Nat)
    <2>1. \A k \in 1 .. w : a + (k - 1) \in Nat
      OBVIOUS
    <2>2. QED
      BY <2>1, IsASeq
  <1>2. Len(more) = w
    OBVIOUS
  <1>3. \A k \in 1 .. w : more[k] = a + (k - 1)
    OBVIOUS
  <1> HIDE DEF more
  <1>4. /\ Bytes(a) \in Seq(Nat) /\ Len(Bytes(a)) = a
        /\ \A k \in 1 .. a : Bytes(a)[k] = k - 1
    BY BytesAre
  <1>5. a + w \in Nat
    OBVIOUS
  <1>6. /\ Bytes(a + w) \in Seq(Nat) /\ Len(Bytes(a + w)) = a + w
        /\ \A k \in 1 .. a + w : Bytes(a + w)[k] = k - 1
    BY <1>5, BytesAre
  <1>7. /\ Bytes(a) \o more \in Seq(Nat) /\ Len(Bytes(a) \o more) = a + w
        /\ \A k \in 1 .. a + w : (Bytes(a) \o more)[k] =
             IF k <= a THEN Bytes(a)[k] ELSE more[k - a]
    <2>1. /\ Bytes(a) \o more \in Seq(Nat)
          /\ Len(Bytes(a) \o more) = Len(Bytes(a)) + Len(more)
          /\ \A k \in 1 .. Len(Bytes(a)) + Len(more) : (Bytes(a) \o more)[k] =
               IF k <= Len(Bytes(a)) THEN Bytes(a)[k] ELSE more[k - Len(Bytes(a))]
      BY <1>1, <1>4, ConcatProperties, Zenon
    <2>2. QED
      BY <1>2, <1>4, <2>1, Zenon
  <1>8. ASSUME NEW k \in 1 .. a + w
        PROVE  (Bytes(a) \o more)[k] = Bytes(a + w)[k]
    <2>1. Bytes(a + w)[k] = k - 1
      BY <1>6
    <2>2. CASE k <= a
      <3>1. k \in 1 .. a
        BY <2>2
      <3>2. QED
        BY <1>4, <1>7, <2>1, <2>2, <3>1
    <2>3. CASE ~(k <= a)
      <3>1. k - a \in 1 .. w /\ a + (k - a - 1) = k - 1
        BY <2>3
      <3>2. more[k - a] = a + (k - a - 1)
        BY <1>3, <3>1
      <3>3. (Bytes(a) \o more)[k] = more[k - a]
        BY <1>7, <2>3
      <3>4. QED
        BY <2>1, <3>1, <3>2, <3>3
    <2>4. QED
      BY <2>2, <2>3
  <1>9. Bytes(a) \o more = Bytes(a + w)
    BY <1>6, <1>7, <1>8, SeqEqual
  <1>10. QED
    BY <1>9 DEF more

\* Nothing is handed out, and something may be produced.
Grows ==
  /\ UNCHANGED <<delivered, partial_pos_out>>
  /\ \E t \in Nat, u \in Nat : t = Total /\ u = Total' /\ t <= u

\* The next bytes are handed out, w of them.
HandsOut(w) ==
  /\ w > 0 /\ Total' = Total
  /\ \E t \in Nat : t = Total /\ partial_pos_out + w <= t
  /\ partial_pos_out' = partial_pos_out + w
  /\ delivered' = delivered \o [k \in 1 .. w |-> partial_pos_out + (k - 1)]

LEMMA SameTotalGrows ==
  ASSUME RingInvariant,
         UNCHANGED <<pos, ringbuffer_size, rb_roundtrips, delivered, partial_pos_out>>
  PROVE  Grows
  <1>1. pos \in Nat /\ rb_roundtrips \in Nat /\ ringbuffer_size \in Nat
    BY HalvingsAre, ConstantsAre DEF RingInvariant, TypeOK
  <1>2. PICK t \in Nat : t = Total
    BY <1>1 DEF Total
  <1>3. Total' = Total /\ t <= t
    BY DEF Total
  <1>4. QED
    BY <1>2, <1>3 DEF Grows

LEMMA PositionGrows ==
  ASSUME RingInvariant, ringbuffer_size > 0, NEW n \in Nat, pos' = pos + n,
         UNCHANGED <<ringbuffer_size, rb_roundtrips, delivered, partial_pos_out>>
  PROVE  Grows
  <1>1. pos \in Nat /\ RoundStart \in Nat /\ Total = RoundStart + pos
    BY RingFacts
  <1>2. Total' = RoundStart + (pos + n)
    BY DEF Total, RoundStart
  <1>3. PICK t \in Nat, u \in Nat : t = RoundStart + pos /\ u = RoundStart + (pos + n)
    BY <1>1
  <1>4. t <= u
    BY <1>1, <1>3
  <1>5. QED
    BY <1>1, <1>2, <1>3, <1>4 DEF Grows

LEMMA CellsBehind ==
  ASSUME RingInvariant, ContentInvariant, DictionaryIsSafe, ringbuffer_size > 0,
         ~should_wrap_ringbuffer
  PROVE  \A c \in 0 .. Smaller(pos, ringbuffer_size) - 1 : ringbuffer[c] = RoundStart + c
  <1>1. pos \in Nat /\ ringbuffer_size \in Nat
    BY RingFacts
  <1>2. PICK m \in Nat : m = Smaller(pos, ringbuffer_size) /\ m <= pos
    BY <1>1 DEF Smaller
  <1>3. \A c \in 0 .. m - 1 : c \in 0 .. pos - 1
    BY <1>1, <1>2
  <1>4. BehindIntact
    BY DEF ContentInvariant
  <1>5. \A c \in 0 .. m - 1 : ringbuffer[c] = RoundStart + c
    BY <1>3, <1>4 DEF BehindIntact
  <1>6. QED
    BY <1>2, <1>5

\* WriteRingBuffer hands out the next bytes, when they are in their cells.
LEMMA WriteIsOfStream ==
  ASSUME RingInvariant, ringbuffer_size > 0, UNCHANGED ringbuffer_size,
         NEW cells, NEW offered \in Nat, NEW force \in BOOLEAN, NEW code,
         WriteRingBuffer(cells, offered, force, code),
         \/ offered = 0
         \/ \A c \in 0 .. Smaller(pos, ringbuffer_size) - 1 : cells[c] = RoundStart + c
  PROVE  Grows \/ \E w \in Nat : HandsOut(w)
  <1>1. /\ pos \in Nat /\ partial_pos_out \in Nat /\ remaining \in Int /\ RoundStart \in Nat
        /\ ringbuffer_size \in Nat /\ rb_roundtrips \in Nat /\ Total = RoundStart + pos
    BY RingFacts
  <1>2. PICK m \in Nat : /\ m = Smaller(pos, ringbuffer_size)
                         /\ m <= pos /\ m <= ringbuffer_size
    BY <1>1 DEF Smaller
  <1>3. PICK u \in Nat : u = UnwrittenBytes(TRUE) /\ u = RoundStart + m - partial_pos_out
    BY <1>2, RingFacts
  <1>4. PICK t \in Nat : t = RoundStart + pos /\ t = Total
    BY <1>1
  <1>5. Total' = Total
    <2>1. \/ GoesRound(offered, code) \/ Stays(offered, force, code) \/ Fails(offered, code)
      BY WriteDoes
    <2>2. CASE GoesRound(offered, code)
      <3>1. (rb_roundtrips + 1) * ringbuffer_size = RoundStart + ringbuffer_size
        BY <2>2, BeforeTheRound
      <3>2. Total' = (rb_roundtrips + 1) * ringbuffer_size + (pos - ringbuffer_size)
        BY <2>2 DEF GoesRound, Total
      <3>3. RoundStart + ringbuffer_size + (pos - ringbuffer_size) = RoundStart + pos
        BY <1>1
      <3>4. QED
        BY <1>1, <3>1, <3>2, <3>3
    <2>3. CASE Stays(offered, force, code) \/ Fails(offered, code)
      BY <2>3 DEF Stays, Fails, Total
    <2>4. QED
      BY <2>1, <2>2, <2>3
  <1>6. CASE UNCHANGED <<partial_pos_out, delivered>>
    BY <1>4, <1>5, <1>6 DEF Grows
  <1>7. CASE remaining >= 0
    <2>1. PICK w \in Nat : w = Written(offered) /\ w = (IF offered <= u THEN offered ELSE u)
      BY <1>3 DEF Written, Smaller
    <2>2. /\ partial_pos_out' = partial_pos_out + Written(offered)
          /\ delivered' = delivered \o
               [k \in 1 .. Written(offered) |-> cells[Cell(partial_pos_out) + (k - 1)]]
      <3>1. ~(remaining < 0)
        BY <1>1, <1>7
      <3>2. QED
        BY <3>1, Zenon DEF WriteRingBuffer
    <2>3. /\ partial_pos_out' = partial_pos_out + w
          /\ delivered' = delivered \o [k \in 1 .. w |-> cells[Cell(partial_pos_out) + (k - 1)]]
      BY <2>1, <2>2
    <2>4. CASE w = 0
      <3>1. partial_pos_out' = partial_pos_out
        BY <1>1, <2>3, <2>4
      <3>2. delivered' = delivered \o << >>
        <4>1. [k \in 1 .. w |-> cells[Cell(partial_pos_out) + (k - 1)]] = << >>
          BY <2>4
        <4>2. QED
          BY <2>3, <4>1
      <3>3. QED
        BY <1>6, <3>1, <3>2
    <2>5. CASE w > 0
      <3>1. offered # 0 /\ w <= u
        BY <2>1, <2>5
      <3>2. \A c \in 0 .. m - 1 : cells[c] = RoundStart + c
        BY <1>2, <3>1
      <3>3. PICK r \in Nat : r = partial_pos_out - RoundStart /\ r + w <= m
        <4>1. PICK a \in Nat : a = RoundStart
          BY <1>1
        <4>2. a <= partial_pos_out /\ u = a + m - partial_pos_out
          BY <1>3, <4>1, RingFacts
        <4>3. partial_pos_out - a \in Nat /\ partial_pos_out - a + w <= m
          BY <1>1, <3>1, <4>2
        <4>4. QED
          BY <4>1, <4>3
      <3>4. partial_pos_out = RoundStart + r
        BY <1>1, <3>3
      <3>5. Cell(partial_pos_out) = r
        <4>1. r \in 0 .. ringbuffer_size - 1 /\ ringbuffer_size \in Nat \ {0}
          BY <1>1, <1>2, <2>5, <3>3
        <4>2. (rb_roundtrips * ringbuffer_size + r) % ringbuffer_size = r
          BY <1>1, <4>1, RemainderOfSum
        <4>3. QED
          BY <3>4, <4>2 DEF Cell, RoundStart
      <3>6. ASSUME NEW k \in 1 .. w
            PROVE  cells[Cell(partial_pos_out) + (k - 1)] = partial_pos_out + (k - 1)
        <4>1. r + (k - 1) \in 0 .. m - 1
          BY <3>3
        <4>2. RoundStart + (r + (k - 1)) = RoundStart + r + (k - 1)
          BY <1>1, <3>3
        <4>3. cells[r + (k - 1)] = RoundStart + (r + (k - 1))
          BY <3>2, <4>1
        <4>4. QED
          BY <3>4, <3>5, <4>2, <4>3
      <3>7. [k \in 1 .. w |-> cells[Cell(partial_pos_out) + (k - 1)]]
              = [k \in 1 .. w |-> partial_pos_out + (k - 1)]
        BY <3>6
      <3>8. partial_pos_out + w <= t
        BY <1>1, <1>2, <1>4, <3>3
      <3>9. HandsOut(w)
        BY <1>4, <1>5, <2>3, <2>5, <3>7, <3>8 DEF HandsOut
      <3>10. QED
        BY <3>9
    <2>6. QED
      BY <2>4, <2>5
  <1>8. CASE remaining < 0
    <2>1. UNCHANGED <<partial_pos_out, delivered>>
      BY <1>1, <1>8 DEF WriteRingBuffer
    <2>2. QED
      BY <1>6, <2>1
  <1>9. QED
    BY <1>1, <1>7, <1>8

LEMMA ForcedWriteIsOfStream ==
  ASSUME RingInvariant, ContentInvariant, DictionaryIsSafe, ringbuffer_size > 0,
         UNCHANGED ringbuffer_size, state \notin WriteStates \cup {"uncompressed_write"},
         NEW code \in Codes, WriteOutput(TRUE, code)
  PROVE  Grows \/ \E w \in Nat : HandsOut(w)
  <1>1. ~should_wrap_ringbuffer
    BY DEF RingInvariant, OutputInvariant, WriteStates
  <1>2. \A c \in 0 .. Smaller(pos, ringbuffer_size) - 1 : ringbuffer[c] = RoundStart + c
    BY <1>1, CellsBehind
  <1>3. available_out \in Nat /\ WriteRingBuffer(ringbuffer, available_out, TRUE, code)
    BY DEF RingInvariant, TypeOK, WriteOutput
  <1>4. QED
    BY <1>2, <1>3, WriteIsOfStream

LEMMA TakeOutputIsOfStream ==
  ASSUME RingInvariant, ContentInvariant, DictionaryIsSafe, NEW n \in Nat, TakeOutput(n)
  PROVE  Grows \/ \E w \in Nat : HandsOut(w)
  <1>1. ringbuffer_size > 0 /\ UNCHANGED ringbuffer_size
    BY HalvingsAre, ConstantsAre DEF TakeOutput, RingInvariant, TypeOK
  <1> DEFINE cells == IF should_wrap_ringbuffer THEN Wrapped(pos) ELSE ringbuffer
  <1>2. PICK code \in Codes : WriteRingBuffer(cells, n, TRUE, code)
    BY DEF TakeOutput
  <1>3. \A c \in 0 .. Smaller(pos, ringbuffer_size) - 1 : cells[c] = RoundStart + c
    <2>1. CASE ~should_wrap_ringbuffer
      BY <1>1, <2>1, CellsBehind
    <2>2. CASE should_wrap_ringbuffer
      <3>1. pos < ringbuffer_size
        BY <1>1, <2>2 DEF RingInvariant, OutputInvariant
      <3>2. pos \in Nat /\ ringbuffer_size \in Nat /\ Slack \in Nat
        BY <1>1, RingFacts, ConstantsAre
      <3>3. Smaller(pos, ringbuffer_size) = pos
        BY <3>1, <3>2 DEF Smaller
      <3>4. BehindIntact
        BY <1>1 DEF ContentInvariant
      <3>5. ASSUME NEW c \in 0 .. pos - 1
            PROVE  Wrapped(pos)[c] = RoundStart + c
        <4>1. c \in 0 .. ringbuffer_size + Slack - 1 /\ c < pos
          BY <3>1, <3>2
        <4>2. c \in DOMAIN ringbuffer
          BY <1>1, <4>1, CellsAre
        <4>3. Wrapped(pos)[c] = ringbuffer[ringbuffer_size + c]
          BY <4>1, <4>2 DEF Wrapped
        <4>4. ringbuffer[ringbuffer_size + c] = RoundStart + c
          BY <2>2, <3>4 DEF BehindIntact
        <4>5. QED
          BY <4>3, <4>4
      <3>6. QED
        BY <2>2, <3>3, <3>5
    <2>3. QED
      BY <2>1, <2>2
  <1> HIDE DEF cells
  <1>4. QED
    BY <1>1, <1>2, <1>3, WriteIsOfStream

LEMMA WriteStepIsOfStream ==
  ASSUME RingInvariant, ContentInvariant, DictionaryIsSafe, WriteStep
  PROVE  Grows \/ \E w \in Nat : HandsOut(w)
  <1>1. /\ state \in WriteStates \cup {"uncompressed_write"} /\ calling
        /\ UNCHANGED ringbuffer_size
    BY DEF WriteStep
  <1>2. ringbuffer_size > 0 /\ available_out \in Nat
    <2>1. ringbuffer_size # 0
      BY <1>1 DEF RingInvariant, NoRingInvariant, WriteStates
    <2>2. QED
      BY <2>1, HalvingsAre, ConstantsAre DEF RingInvariant, TypeOK
  <1>3. PICK code \in Codes : WriteRingBuffer(ringbuffer, available_out, FALSE, code)
    BY DEF WriteStep, WriteOutput
  <1>4. should_wrap_ringbuffer => available_out = 0
    BY <1>1, <1>2 DEF RingInvariant, OutputInvariant
  <1>5. ~should_wrap_ringbuffer =>
          \A c \in 0 .. Smaller(pos, ringbuffer_size) - 1 : ringbuffer[c] = RoundStart + c
    BY <1>2, CellsBehind
  <1>6. QED
    BY <1>1, <1>2, <1>3, <1>4, <1>5, WriteIsOfStream

\* A step of the decoder or its caller is a step of the stream of its output, or none.
LEMMA NextIsOfStream ==
  ASSUME RingInvariant, ContentInvariant, DictionaryIsSafe, [Next]_vars
  PROVE  Grows \/ \E w \in Nat : HandsOut(w)
  <1>1. ASSUME UNCHANGED <<pos, ringbuffer_size, rb_roundtrips, delivered, partial_pos_out>>
        PROVE  Grows
    BY <1>1, SameTotalGrows
  <1>2. CASE UNCHANGED vars
    BY <1>1, <1>2 DEF vars, rings, outs
  <1>3. CASE CallAfterError
    BY <1>1, <1>3 DEF CallAfterError, vars, rings, outs
  <1>4. CASE \E n \in OutputSizes : Call(n)
    BY <1>1, <1>4 DEF Call, rings
  <1>5. ASSUME NEW n \in OutputSizes, TakeOutput(IF n = 0 THEN Everything ELSE n)
        PROVE  Grows \/ \E w \in Nat : HandsOut(w)
    <2>1. (IF n = 0 THEN Everything ELSE n) \in Nat
      BY ConstantsAre
    <2>2. QED
      BY <1>5, <2>1, TakeOutputIsOfStream
  <1>6. CASE MetablockDone \/ InvalidStream \/ EndWrapCopy
    BY <1>1, <1>6 DEF MetablockDone, InvalidStream, EndWrapCopy, rings, outs
  <1>7. CASE \E insert \in InsertLengths : ReadCommand(insert)
    BY <1>1, <1>7 DEF ReadCommand, rings, outs
  <1>8. ASSUME NEW length \in BlockLengths, NEW last \in BOOLEAN, NEW uncompressed \in BOOLEAN,
               NEW peeked \in BOOLEAN, Header(length, last, uncompressed, peeked)
        PROVE  Grows
    <2>1. UNCHANGED <<pos, rb_roundtrips, delivered, partial_pos_out>>
      BY <1>8 DEF Header, outs
    <2>2. CASE ringbuffer_size = 0 /\ length > 0
      <3>1. pos = 0 /\ rb_roundtrips = 0 /\ ringbuffer_size = 0
        BY <2>2 DEF RingInvariant, NoRingInvariant
      <3>2. Allocate(length, last \/ peeked) /\ TypeOK /\ length \in Nat /\ (last \/ peeked) \in BOOLEAN
        BY <1>8, <2>2, ConstantsAre DEF Header, RingInvariant
      <3>3. ringbuffer_size' \in Halvings
        BY <2>2, <3>2, AllocatedSize
      <3>4. PICK size \in Nat : size = ringbuffer_size'
        BY <3>3, HalvingsAre, ConstantsAre
      <3>5. Total = 0 * 0 + 0 /\ Total' = 0 * size + 0
        BY <2>1, <3>1, <3>4 DEF Total
      <3>6. 0 * 0 + 0 = 0 /\ 0 * size + 0 = 0 /\ 0 <= 0
        OBVIOUS
      <3>7. QED
        BY <2>1, <3>5, <3>6 DEF Grows
    <2>3. CASE ~(ringbuffer_size = 0 /\ length > 0)
      BY <1>1, <1>8, <2>1, <2>3 DEF Header
    <2>4. QED
      BY <2>2, <2>3
  <1>9. ASSUME NEW n \in 0 .. WindowSize, CopyUncompressed(n)
        PROVE  Grows
    <2>1. ringbuffer_size > 0
      <3>1. ringbuffer_size # 0
        BY <1>9 DEF CopyUncompressed, RingInvariant, NoRingInvariant
      <3>2. QED
        BY <3>1, HalvingsAre, ConstantsAre DEF RingInvariant, TypeOK
    <2>2. /\ pos' = pos + n
          /\ UNCHANGED <<ringbuffer_size, rb_roundtrips, delivered, partial_pos_out>>
      BY <1>9 DEF CopyUncompressed, outs
    <2>3. n \in Nat
      BY ConstantsAre
    <2>4. QED
      BY <2>1, <2>2, <2>3, PositionGrows
  <1>10. CASE Literal
    <2>1. ringbuffer_size > 0
      BY <1>10, CommandsAreInRing DEF Literal
    <2>2. /\ pos' = pos + 1
          /\ UNCHANGED <<ringbuffer_size, rb_roundtrips, delivered, partial_pos_out>>
      BY <1>10 DEF Literal, outs
    <2>3. QED
      BY <2>1, <2>2, PositionGrows
  <1>11. CASE WrapCopy
    <2>1. ringbuffer_size > 0
      BY <1>11, CommandsAreInRing DEF WrapCopy
    <2>2. /\ pos' = pos + 1
          /\ UNCHANGED <<ringbuffer_size, rb_roundtrips, delivered, partial_pos_out>>
      BY <1>11 DEF WrapCopy, outs
    <2>3. QED
      BY <2>1, <2>2, PositionGrows
  <1>12. ASSUME NEW length \in WordLengths, DictionaryWord(length)
         PROVE  Grows
    <2>1. ringbuffer_size > 0
      BY <1>12, CommandsAreInRing DEF DictionaryWord
    <2>2. /\ pos' = pos + length
          /\ UNCHANGED <<ringbuffer_size, rb_roundtrips, delivered, partial_pos_out>>
      BY <1>12 DEF DictionaryWord, outs
    <2>3. length \in Nat
      BY ConstantsAre
    <2>4. QED
      BY <2>1, <2>2, <2>3, PositionGrows
  <1>13. ASSUME NEW length \in CopyLengths, NEW distance \in 1 .. MaxBackward,
                CopyBack(length, distance)
         PROVE  Grows
    <2>1. ringbuffer_size > 0
      BY <1>13, CommandsAreInRing DEF CopyBack
    <2>2. UNCHANGED <<ringbuffer_size, rb_roundtrips, delivered, partial_pos_out>>
      BY <1>13 DEF CopyBack, outs
    <2>3. pos' = pos \/ pos' = pos + length
      BY <1>13, CopyBackKeepsRing DEF CopyGoes
    <2>4. length \in Nat
      BY ConstantsAre
    <2>5. QED
      BY <1>1, <2>1, <2>2, <2>3, <2>4, PositionGrows
  <1>14. CASE Done \/ OutOfInput
    <2>1. UNCHANGED ringbuffer_size /\ state \notin WriteStates \cup {"uncompressed_write"}
      BY <1>14 DEF Done, OutOfInput, WriteStates
    <2>2. CASE ringbuffer_size = 0
      BY <1>1, <1>14, <2>1, <2>2 DEF Done, OutOfInput, outs
    <2>3. CASE ringbuffer_size # 0
      <3>1. ringbuffer_size > 0
        BY <2>3, HalvingsAre, ConstantsAre DEF RingInvariant, TypeOK
      <3>2. PICK code \in Codes : WriteOutput(TRUE, code)
        BY <1>14, <2>3 DEF Done, OutOfInput
      <3>3. QED
        BY <2>1, <3>1, <3>2, ForcedWriteIsOfStream
    <2>4. QED
      BY <2>2, <2>3
  <1>15. CASE Decode
    BY <1>6, <1>7, <1>8, <1>9, <1>10, <1>11, <1>12, <1>13, <1>14, <1>15, WriteStepIsOfStream
       DEF Decode
  <1>16. QED
    BY <1>2, <1>3, <1>4, <1>5, <1>15 DEF Next

\* The ring is allocated once.
LEMMA UnsafeStaysUnsafe ==
  ASSUME RingInvariant, ~DictionaryIsSafe, [Next]_vars
  PROVE  ~DictionaryIsSafe'
  <1>1. ringbuffer_size # 0
    BY HalvingsAre, ConstantsAre DEF DictionaryIsSafe, Shortened
  <1>2. UNCHANGED <<ringbuffer_size, custom_dict_size>>
    <2>1. CASE Decode
      BY <1>1, <2>1 DEF Decode, Header, MetablockDone, Done, CopyUncompressed, ReadCommand,
          Literal, CopyBack, DictionaryWord, WrapCopy, EndWrapCopy, WriteStep, OutOfInput,
          InvalidStream, rings, blocks
    <2>2. CASE ~Decode
      BY <2>2 DEF Next, vars, rings, blocks, Call, CallAfterError, TakeOutput
    <2>3. QED
      BY <2>1, <2>2
  <1>3. QED
    BY <1>2 DEF DictionaryIsSafe, Shortened

LEMMA NextKeepsDelivery ==
  ASSUME RingInvariant, ContentInvariant, DeliveryInvariant, [Next]_vars
  PROVE  DeliveryInvariant'
  <1>1. CASE ~DictionaryIsSafe
    BY <1>1, UnsafeStaysUnsafe DEF DeliveryInvariant
  <1>2. CASE DictionaryIsSafe
    <2>1. delivered = Bytes(partial_pos_out) /\ partial_pos_out \in Nat
      BY <1>2 DEF DeliveryInvariant, RingInvariant, TypeOK
    <2>2. CASE Grows
      BY <2>1, <2>2 DEF Grows, DeliveryInvariant
    <2>3. ASSUME NEW w \in Nat, HandsOut(w)
          PROVE  DeliveryInvariant'
      <3>1. /\ partial_pos_out' = partial_pos_out + w
            /\ delivered' = delivered \o [k \in 1 .. w |-> partial_pos_out + (k - 1)]
        BY <2>3 DEF HandsOut
      <3>2. delivered' = Bytes(partial_pos_out + w)
        BY <2>1, <3>1, MoreBytes
      <3>3. QED
        BY <3>1, <3>2 DEF DeliveryInvariant
    <2>4. QED
      BY <1>2, <2>2, <2>3, NextIsOfStream
  <1>3. QED
    BY <1>1, <1>2

LEMMA InitHasContent == Init => ContentInvariant /\ DeliveryInvariant
  <1> SUFFICES ASSUME Init
               PROVE  ContentInvariant /\ DeliveryInvariant
    OBVIOUS
  <1>1. ringbuffer_size = 0 /\ partial_pos_out = 0 /\ delivered = << >>
    BY DEF Init
  <1>2. ContentInvariant
    BY <1>1 DEF ContentInvariant
  <1>3. Bytes(0) = << >>
    BY DEF Bytes
  <1>4. QED
    BY <1>1, <1>2, <1>3 DEF DeliveryInvariant

\* All that is kept of the ring, of what is in it and of what the caller got.
ContentsHold == RingInvariant /\ ContentInvariant /\ DeliveryInvariant

\* Whatever the stream and the caller do, and as long as no dictionary is in a shortened
\* ring: every byte of the round is in its cell, the window further back is in the cells
\* ahead, and the caller has exactly the first bytes (decode.rs:1692, 2424).
THEOREM RingContentsAreKept == Spec => []ContentsHold
  <1>1. Init => ContentsHold
    BY InitIsOfRing, InitHasContent DEF ContentsHold
  <1>2. ContentsHold /\ [Next]_vars => ContentsHold'
    BY NextKeepsRing, NextKeepsContent, NextKeepsDelivery DEF ContentsHold
  <1>3. QED
    BY <1>1, <1>2, PTL DEF Spec

LEMMA UnwrittenIsIntact ==
  ASSUME ContentsHold, DictionaryIsSafe
  PROVE  UnwrittenIntact
  <1>1. RingInvariant /\ ContentInvariant
    BY DEF ContentsHold
  <1>2. CASE ringbuffer_size = 0
    <2>1. pos = 0 /\ rb_roundtrips = 0 /\ partial_pos_out = 0
      BY <1>1, <1>2 DEF RingInvariant, NoRingInvariant
    <2>2. Total = 0 * 0 + 0
      BY <1>2, <2>1 DEF Total
    <2>3. partial_pos_out .. Total - 1 = {}
      BY <2>1, <2>2
    <2>4. QED
      BY <2>3 DEF UnwrittenIntact
  <1>3. CASE ringbuffer_size # 0
    <2>1. ringbuffer_size > 0
      BY <1>1, <1>3, HalvingsAre, ConstantsAre DEF RingInvariant, TypeOK
    <2>2. /\ pos \in Nat /\ RoundStart \in Nat /\ Total = RoundStart + pos
          /\ partial_pos_out \in Nat /\ RoundStart <= partial_pos_out
      BY <1>1, <2>1, RingFacts
    <2>3. BehindIntact
      BY <1>1, <2>1 DEF ContentInvariant
    <2>4. PICK a \in Nat : a = RoundStart
      BY <2>2
    <2>5. ASSUME NEW k \in partial_pos_out .. Total - 1
          PROVE  /\ k - RoundStart >= 0
                 /\ ringbuffer[IF should_wrap_ringbuffer THEN ringbuffer_size + (k - RoundStart)
                               ELSE k - RoundStart] = k
      <3>1. k \in partial_pos_out .. a + pos - 1 /\ a <= partial_pos_out
        BY <2>2, <2>4, <2>5
      <3>2. k - a \in 0 .. pos - 1 /\ a + (k - a) = k /\ k - a >= 0
        BY <2>2, <3>1
      <3>3. ringbuffer[IF should_wrap_ringbuffer THEN ringbuffer_size + (k - a) ELSE k - a]
              = RoundStart + (k - a)
        BY <2>3, <3>2 DEF BehindIntact
      <3>4. QED
        BY <2>4, <3>2, <3>3
    <2>6. QED
      BY <2>5 DEF UnwrittenIntact, RoundStart
  <1>4. QED
    BY <1>2, <1>3

\* A byte of the output that the caller has not got yet is not overwritten: no copy, guess,
\* word or wrap destroys it before it is handed out (decode.rs:1692, 1739).
THEOREM UnwrittenStaysIntact == Spec => [](DictionaryIsSafe => UnwrittenIntact)
  <1>1. ContentsHold => (DictionaryIsSafe => UnwrittenIntact)
    BY UnwrittenIsIntact
  <1>2. QED
    BY <1>1, RingContentsAreKept, PTL

LEMMA WindowIsIntact ==
  ASSUME ContentsHold, DictionaryIsSafe
  PROVE  WindowIntact
  <1>1. RingInvariant /\ ContentInvariant
    BY DEF ContentsHold
  <1>2. ASSUME state = "post_literals", NEW distance \in 1 .. NewMaxDistance
        PROVE  ringbuffer[Cell(pos - distance)] = Total - distance
    <2>1. ringbuffer_size > 0 /\ pos < ringbuffer_size /\ ~should_wrap_ringbuffer
      BY <1>1, <1>2, CommandsAreInRing
    <2>2. /\ pos \in Nat /\ RoundStart \in Nat /\ ringbuffer_size \in Nat
          /\ custom_dict_size \in Nat /\ Total = RoundStart + pos
      BY <1>1, <2>1, RingFacts
    <2>3. PICK m \in 0 .. MaxBackward :
            m = NewMaxDistance /\ (rb_roundtrips = 0 => m <= pos + custom_dict_size)
      BY <1>1, <2>1, ShortenedDistance
    <2>4. PICK d \in 1 .. m : d = distance
      BY <1>2, <2>3
    <2>5. d \in 1 .. MaxBackward /\ d \in Nat /\ (rb_roundtrips = 0 => d <= pos + custom_dict_size)
      BY <2>2, <2>3, ConstantsAre
    <2>6. IF pos >= d THEN 0 < d ELSE 0 < d - pos
      BY <2>2, <2>5
    <2>7. ringbuffer[Cell(pos - d) + 0] = Total + 0 - d
      BY <1>1, <2>1, <2>5, <2>6, SourceIs
    <2>8. Cell(pos - d) = (IF pos >= d THEN pos - d ELSE pos - d + ringbuffer_size)
      BY <1>1, <2>1, <2>5, SourceIs
    <2>9. Cell(pos - d) + 0 = Cell(pos - d) /\ Total + 0 - d = Total - d
      BY <2>2, <2>5, <2>8
    <2>10. QED
      BY <2>4, <2>7, <2>9
  <1>3. GuessIsIrrelevant
    BY <1>2 DEF GuessIsIrrelevant
  <1>4. state = "wrap_copy" /\ loop_counter > 0 =>
          ringbuffer[Cell(pos - distance_code)] = Total - distance_code
    BY <1>1, NextSourceIs
  <1>5. QED
    BY <1>3, <1>4 DEF WindowIntact

\* Whatever distance the decoder lets through leads to the byte that far back, at the start
\* of a copy and at every byte of one that wraps around or overlaps itself: what the first
\* guess of an earlier copy spilled is never read (decode.rs:2511).
THEOREM WindowStaysIntact == Spec => [](DictionaryIsSafe => WindowIntact)
  <1>1. ContentsHold => (DictionaryIsSafe => WindowIntact)
    BY WindowIsIntact
  <1>2. QED
    BY <1>1, RingContentsAreKept, PTL

LEMMA ContextIsIntact ==
  ASSUME ContentsHold, DictionaryIsSafe
  PROVE  ContextIntact
  <1>1. RingInvariant /\ ContentInvariant
    BY DEF ContentsHold
  <1>2. ASSUME state = "inner", NEW d \in 1 .. 2
        PROVE  ringbuffer[Cell(pos - d)] = Total - d
    <2>1. ringbuffer_size > 0 /\ pos < ringbuffer_size /\ ~should_wrap_ringbuffer
      BY <1>1, <1>2, CommandsAreInRing
    <2>2. /\ pos \in Nat /\ RoundStart \in Nat /\ ringbuffer_size \in Nat
          /\ custom_dict_size \in Nat /\ Total = RoundStart + pos /\ ringbuffer_size <= WindowSize
      BY <1>1, <2>1, RingFacts
    <2>3. BehindIntact /\ AheadIntact
      BY <1>1, <2>1 DEF ContentInvariant
    <2>4. Shortened => 2 <= ringbuffer_size
      BY <1>1, <2>1, ShortenedDistance
    <2>5. ~Shortened => ringbuffer_size = WindowSize
      BY <2>1, <2>2, ConstantsAre DEF Shortened
    <2>6. 2 <= ringbuffer_size
      BY <2>2, <2>4, <2>5, ConstantsAre
    <2>7. Cell(pos - d) = (IF pos >= d THEN pos - d ELSE pos - d + ringbuffer_size)
      <3>1. ringbuffer_size \in Nat \ {0} /\ pos \in 0 .. ringbuffer_size - 1 /\ d \in 1 .. ringbuffer_size
        BY <2>1, <2>2, <2>6
      <3>2. QED
        BY <3>1, RemainderBack DEF Cell
    <2>8. CASE pos >= d
      <3>1. PICK c \in 0 .. pos - 1 : c = pos - d
        BY <2>2, <2>8
      <3>2. ringbuffer[c] = RoundStart + c
        BY <2>1, <2>3, <3>1 DEF BehindIntact
      <3>3. RoundStart + c = Total - d
        BY <2>2, <3>1
      <3>4. QED
        BY <2>7, <2>8, <3>1, <3>2, <3>3
    <2>9. CASE ~(pos >= d)
      <3>1. PICK c \in 0 .. ringbuffer_size - 1 : c = pos - d + ringbuffer_size
        BY <2>2, <2>6, <2>9
      <3>2. c >= ringbuffer_size - Kept
        <4>1. PICK k \in Nat : k = Kept /\ 2 <= k
          BY <2>2 DEF Kept
        <4>2. c >= ringbuffer_size - k
          BY <2>2, <3>1, <4>1
        <4>3. QED
          BY <4>1, <4>2
      <3>3. c >= pos + Spill
        <4>1. CASE Shortened
          <5>1. pos < 2
            BY <2>2, <2>9
          <5>2. Spill = 0
            BY <1>2, <4>1, <5>1 DEF Spill
          <5>3. c >= pos + 0
            BY <2>2, <2>6, <3>1
          <5>4. QED
            BY <5>2, <5>3
        <4>2. CASE ~Shortened
          <5>1. PICK s \in Nat : s = Spill /\ s <= Guess
            BY SpillIs
          <5>2. c >= pos + s
            BY <2>2, <2>5, <3>1, <4>2, <5>1, ConstantsAre
          <5>3. QED
            BY <5>1, <5>2
        <4>3. QED
          BY <4>1, <4>2
      <3>4. ringbuffer[c] = RoundStart - ringbuffer_size + c
        BY <2>3, <3>2, <3>3 DEF AheadIntact
      <3>5. RoundStart - ringbuffer_size + c = Total - d
        BY <2>2, <3>1
      <3>6. QED
        BY <2>7, <2>9, <3>1, <3>4, <3>5
    <2>10. QED
      BY <2>8, <2>9
  <1>3. 1 \in 1 .. 2 /\ 2 \in 1 .. 2
    OBVIOUS
  <1>4. QED
    BY <1>2, <1>3 DEF ContextIntact

\* The two bytes that choose the context of the next literal are the last two bytes of the
\* output, across the end of the ring and before the first byte too (decode.rs:1862, 2329).
THEOREM ContextStaysIntact == Spec => [](DictionaryIsSafe => ContextIntact)
  <1>1. ContentsHold => (DictionaryIsSafe => ContextIntact)
    BY ContextIsIntact
  <1>2. QED
    BY <1>1, RingContentsAreKept, PTL
-----------------------------------------------------------------------------
(* The stream of the output *)

LEMMA StepIsOfStream ==
  ASSUME ContentsHold, DictionaryIsSafe, [Next]_vars
  PROVE  [Stream!Next]_<<Total, delivered>>
  <1>1. RingInvariant /\ ContentInvariant /\ delivered = Bytes(partial_pos_out)
    BY DEF ContentsHold, DeliveryInvariant
  <1>2. partial_pos_out \in Nat
    BY <1>1 DEF RingInvariant, TypeOK
  <1>3. Len(delivered) = partial_pos_out
    BY <1>1, <1>2, BytesAre
  <1>4. CASE Grows
    <2>1. PICK t \in Nat, u \in Nat : t = Total /\ u = Total' /\ t <= u
      BY <1>4 DEF Grows
    <2>2. UNCHANGED delivered
      BY <1>4 DEF Grows
    <2>3. u = t \/ u > t
      BY <2>1
    <2>4. CASE u = t
      BY <2>1, <2>2, <2>4
    <2>5. CASE u > t
      <3>1. Stream!Produce
        BY <2>1, <2>2, <2>5 DEF Stream!Produce
      <3>2. QED
        BY <3>1 DEF Stream!Next
    <2>6. QED
      BY <2>3, <2>4, <2>5
  <1>5. ASSUME NEW w \in Nat, HandsOut(w)
        PROVE  Stream!Deliver
    <2>1. PICK t \in Nat : t = Total /\ partial_pos_out + w <= t
      BY <1>5 DEF HandsOut
    <2>2. w > 0
      BY <1>5 DEF HandsOut
    <2>3. w \in 1 .. t - partial_pos_out
      BY <1>2, <2>1, <2>2
    <2>4. w \in 1 .. Total - Len(delivered)
      BY <1>3, <2>1, <2>3
    <2>5. delivered' = delivered \o [k \in 1 .. w |-> Len(delivered) + (k - 1)]
      BY <1>3, <1>5 DEF HandsOut
    <2>6. UNCHANGED Total
      BY <1>5 DEF HandsOut
    <2>7. QED
      BY <2>4, <2>5, <2>6 DEF Stream!Deliver
  <1>6. QED
    BY <1>1, <1>4, <1>5, NextIsOfStream DEF Stream!Next

LEMMA StartIsOfStream == Init => Stream!Init
  <1> SUFFICES ASSUME Init
               PROVE  Stream!Init
    OBVIOUS
  <1>1. Total = 0 * 0 + 0 /\ delivered = << >>
    BY DEF Init, Total
  <1>2. QED
    BY <1>1 DEF Stream!Init

\* The ring, its round trips, the wraps, the callers' buffers and TakeOutput are invisible:
\* the bytes that are decoded reach the caller once and in order, as OutputStream says.
THEOREM RingIsStream == Spec /\ []DictionaryIsSafe => StreamSpec
  <1>1. Init => Stream!Init
    BY StartIsOfStream
  <1>2. ContentsHold /\ DictionaryIsSafe /\ [Next]_vars => [Stream!Next]_<<Total, delivered>>
    BY StepIsOfStream
  <1>3. QED
    BY <1>1, <1>2, RingContentsAreKept, PTL DEF Spec, StreamSpec, Stream!Spec

\* Without a custom dictionary nothing has to be assumed of the ring.
NoDictionary == DictionarySizes \subseteq {0} /\ custom_dict_size = 0

LEMMA WithoutDictionary ==
  DictionarySizes \subseteq {0} /\ Spec => []DictionaryIsSafe
  <1>1. DictionarySizes \subseteq {0} /\ Init => NoDictionary
    BY DEF Init, NoDictionary
  <1>2. NoDictionary /\ [Next]_vars => NoDictionary'
    <2> SUFFICES ASSUME NoDictionary, [Next]_vars
                 PROVE  NoDictionary'
      OBVIOUS
    <2>1. custom_dict_size = 0 /\ Smaller(0, MaxBackward) = 0
      BY ConstantsAre DEF Smaller, NoDictionary
    <2>2. ASSUME NEW length, NEW last, NEW uncompressed, NEW peeked,
                 Header(length, last, uncompressed, peeked)
          PROVE  custom_dict_size' = 0
      BY <2>1, <2>2 DEF Header, Allocate
    <2>3. custom_dict_size' = 0
      <3>1. CASE Decode
        BY <2>1, <2>2, <3>1 DEF Decode, MetablockDone, Done, CopyUncompressed, ReadCommand,
            Literal, CopyBack, DictionaryWord, WrapCopy, EndWrapCopy, WriteStep, OutOfInput,
            InvalidStream, blocks
      <3>2. CASE ~Decode
        BY <2>1, <3>2 DEF Next, vars, blocks, Call, CallAfterError, TakeOutput
      <3>3. QED
        BY <3>1, <3>2
    <2>4. QED
      BY <2>3 DEF NoDictionary
  <1>3. NoDictionary => DictionaryIsSafe
    BY DEF DictionaryIsSafe, NoDictionary
  <1>4. QED
    BY <1>1, <1>2, <1>3, PTL DEF Spec

\* A stream that is decoded without a custom dictionary reaches the caller once and in
\* order, whatever the window, the size of the ring and the callers' buffers.
THEOREM RingIsStreamWithoutDictionary ==
  DictionarySizes \subseteq {0} /\ Spec => StreamSpec
  BY RingIsStream, WithoutDictionary, PTL
=============================================================================
