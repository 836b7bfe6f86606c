-------------------------- MODULE StreamInputProofs --------------------------
(***************************************************************************)
(* Proofs about StreamInput for every stream, every way to cut it into     *)
(* chunks and every set of well-formed reads.                              *)
(***************************************************************************)
EXTENDS StreamInput, TLAPS

\* The bits a reader can still give.
Bits(r) == GetAvailableBits(r) + 8 * r.avail_in

\* q is r after bytes were loaded or unloaded: what is loaded and what is still to
\* be loaded add up to the same bytes.
Moved(r, q) ==
  /\ q \in BrotliBitReader
  /\ q.next_in - r.next_in = q.loaded - r.loaded
  /\ q.avail_in + q.loaded = r.avail_in + r.loaded

\* q is r after n bits were read, and perhaps more bytes loaded.
Advanced(r, q, n) ==
  /\ Moved(r, q)
  /\ q.loaded >= r.loaded
  /\ BitPosition(q) = BitPosition(r) + n
-----------------------------------------------------------------------------
(* The bit reader *)

LEMMA ReaderFields ==
  ASSUME NEW r \in BrotliBitReader
  PROVE  /\ r.bit_pos \in Int /\ 0 <= r.bit_pos /\ r.bit_pos <= 64
         /\ r.next_in \in Int
         /\ r.avail_in \in Int /\ 0 <= r.avail_in
         /\ r.loaded \in Int /\ 0 <= r.loaded
         /\ RegBits = 64
         /\ GetAvailableBits(r) = 64 - r.bit_pos
         /\ BitPosition(r) = 8 * r.loaded - 64 + r.bit_pos
         /\ Bits(r) = 64 - r.bit_pos + 8 * r.avail_in
  BY SMT DEF BrotliBitReader, RegBits, GetAvailableBits, BitPosition, Bits

LEMMA PullFields ==
  ASSUME NEW r \in BrotliBitReader, NEW k \in Int,
         0 <= r.bit_pos - 8 * k, r.bit_pos - 8 * k <= RegBits,
         k <= r.avail_in, 0 <= r.loaded + k
  PROVE  /\ PullBytes(r, k) \in BrotliBitReader
         /\ PullBytes(r, k).bit_pos = r.bit_pos - 8 * k
         /\ PullBytes(r, k).next_in = r.next_in + k
         /\ PullBytes(r, k).avail_in = r.avail_in - k
         /\ PullBytes(r, k).loaded = r.loaded + k
  <1>1. /\ PullBytes(r, k).bit_pos = r.bit_pos - 8 * k
        /\ PullBytes(r, k).next_in = r.next_in + k
        /\ PullBytes(r, k).avail_in = r.avail_in - k
        /\ PullBytes(r, k).loaded = r.loaded + k
    BY DEF PullBytes, BrotliBitReader
  <1>2. /\ r.bit_pos - 8 * k \in 0 .. RegBits /\ r.next_in + k \in Int
        /\ r.avail_in - k \in Nat /\ r.loaded + k \in Nat
    BY ReaderFields, SMT
  <1> QED
    BY <1>1, <1>2 DEF PullBytes, BrotliBitReader

LEMMA DropFields ==
  ASSUME NEW r \in BrotliBitReader, NEW n \in Nat, n <= GetAvailableBits(r)
  PROVE  /\ DropBits(r, n) \in BrotliBitReader
         /\ DropBits(r, n).bit_pos = r.bit_pos + n
         /\ DropBits(r, n).next_in = r.next_in
         /\ DropBits(r, n).avail_in = r.avail_in
         /\ DropBits(r, n).loaded = r.loaded
  <1>1. /\ DropBits(r, n).bit_pos = r.bit_pos + n
        /\ DropBits(r, n).next_in = r.next_in
        /\ DropBits(r, n).avail_in = r.avail_in
        /\ DropBits(r, n).loaded = r.loaded
    BY DEF DropBits, BrotliBitReader
  <1>2. r.bit_pos + n \in 0 .. RegBits
    BY ReaderFields, SMT
  <1> QED
    BY <1>1, <1>2 DEF DropBits, BrotliBitReader

\* The two ways a reader moves on.
LEMMA LoadedBytes ==
  ASSUME NEW r \in BrotliBitReader, NEW q \in BrotliBitReader, NEW k \in Nat,
         q.bit_pos = r.bit_pos - 8 * k, q.next_in = r.next_in + k,
         q.avail_in = r.avail_in - k, q.loaded = r.loaded + k
  PROVE  Advanced(r, q, 0)
  BY ReaderFields, SMT DEF Advanced, Moved

LEMMA DroppedBits ==
  ASSUME NEW r \in BrotliBitReader, NEW q \in BrotliBitReader, NEW n \in Nat,
         q.bit_pos = r.bit_pos + n, q.next_in = r.next_in,
         q.avail_in = r.avail_in, q.loaded = r.loaded
  PROVE  Advanced(r, q, n)
  BY ReaderFields, SMT DEF Advanced, Moved

\* Pulling bytes that are there, and room for them, loses nothing.
LEMMA PullAdvances ==
  ASSUME NEW r \in BrotliBitReader, NEW k \in Nat,
         8 * k <= r.bit_pos, k <= r.avail_in
  PROVE  Advanced(r, PullBytes(r, k), 0)
  <1>1. PullBytes(r, k) \in BrotliBitReader
    BY ReaderFields, PullFields, SMT
  <1>2. /\ PullBytes(r, k).bit_pos = r.bit_pos - 8 * k
        /\ PullBytes(r, k).next_in = r.next_in + k
        /\ PullBytes(r, k).avail_in = r.avail_in - k
        /\ PullBytes(r, k).loaded = r.loaded + k
    BY ReaderFields, PullFields, SMT
  <1> QED
    BY <1>1, <1>2, LoadedBytes

LEMMA DropAdvances ==
  ASSUME NEW r \in BrotliBitReader, NEW n \in Nat, n <= GetAvailableBits(r)
  PROVE  Advanced(r, DropBits(r, n), n)
  <1>1. DropBits(r, n) \in BrotliBitReader
    BY DropFields
  <1>2. /\ DropBits(r, n).bit_pos = r.bit_pos + n
        /\ DropBits(r, n).next_in = r.next_in
        /\ DropBits(r, n).avail_in = r.avail_in
        /\ DropBits(r, n).loaded = r.loaded
    BY DropFields
  <1> QED
    BY <1>1, <1>2, DroppedBits

LEMMA AdvancedNot ==
  ASSUME NEW r \in BrotliBitReader
  PROVE  Advanced(r, r, 0)
  BY SMT DEF Advanced, Moved, BitPosition, GetAvailableBits, BrotliBitReader, RegBits

LEMMA AdvancedTwice ==
  ASSUME NEW r \in BrotliBitReader, NEW q, NEW p, NEW m \in Int, NEW n \in Int,
         Advanced(r, q, m), Advanced(q, p, n)
  PROVE  Advanced(r, p, m + n)
  <1>1. q \in BrotliBitReader /\ p \in BrotliBitReader
    BY DEF Advanced, Moved
  <1> QED
    BY <1>1, ReaderFields, SMT DEF Advanced, Moved

\* What is read is no longer there to be read.
LEMMA AdvancedBits ==
  ASSUME NEW r \in BrotliBitReader, NEW q, NEW n \in Int, Advanced(r, q, n)
  PROVE  Bits(q) = Bits(r) - n /\ Bits(q) >= 0 /\ Bits(q) \in Int
  <1>1. q \in BrotliBitReader
    BY DEF Advanced, Moved
  <1>2. /\ r.bit_pos \in Int /\ r.avail_in \in Int /\ r.loaded \in Int
        /\ q.bit_pos \in Int /\ q.avail_in \in Int /\ q.loaded \in Int
        /\ q.bit_pos <= 64 /\ 0 <= q.avail_in
    BY <1>1, ReaderFields, Zenon
  <1>3. /\ q.avail_in + q.loaded = r.avail_in + r.loaded
        /\ 8 * q.loaded - 64 + q.bit_pos = 8 * r.loaded - 64 + r.bit_pos + n
    BY <1>1, ReaderFields DEF Advanced, Moved
  <1>4. /\ Bits(r) = 64 - r.bit_pos + 8 * r.avail_in
        /\ Bits(q) = 64 - q.bit_pos + 8 * q.avail_in
    BY <1>1, ReaderFields, SMT
  <1>5. Bits(q) \in Int /\ Bits(q) >= 0
    BY <1>2, <1>4, SMT
  <1>6. 64 - q.bit_pos + 8 * q.avail_in = 64 - r.bit_pos + 8 * r.avail_in - n
    BY <1>2, <1>3, SMT
  <1>7. Bits(q) = Bits(r) - n
    BY <1>2, <1>3, <1>4, <1>6, SMT
  <1> QED
    BY <1>5, <1>7

LEMMA BytesShortIs ==
  ASSUME NEW r \in BrotliBitReader, NEW n \in 0 .. MaxExtraBits
  PROVE  LET k == BytesShort(r, n)
         IN  /\ k \in 0 .. 4
             /\ GetAvailableBits(r) >= n => k = 0
             /\ GetAvailableBits(r) < n =>
                  /\ GetAvailableBits(r) + 8 * k >= n
                  /\ GetAvailableBits(r) + 8 * k < n + 8
  <1> DEFINE missing == n - GetAvailableBits(r)
  <1>1. missing \in Int /\ n \in Int /\ GetAvailableBits(r) = n - missing /\ missing <= 29
    BY SMT DEF BrotliBitReader, RegBits, GetAvailableBits, MaxExtraBits
  <1>2. GetAvailableBits(r) >= n <=> missing <= 0
    BY <1>1, SMT
  <1>3. BytesShort(r, n) = IF missing <= 0 THEN 0 ELSE (missing + 7) \div 8
    BY <1>2 DEF BytesShort
  <1> HIDE DEF missing
  <1>4. CASE missing <= 0
    <2>1. BytesShort(r, n) = 0 /\ GetAvailableBits(r) >= n
      BY <1>2, <1>3, <1>4
    <2>2. ~(GetAvailableBits(r) < n) /\ 0 \in 0 .. 4
      BY <1>1, <1>2, <1>4, SMT
    <2> QED
      BY <2>1, <2>2
  <1>5. CASE missing > 0
    <2>1. ((missing + 7) \div 8) \in 0 .. 4
      BY <1>1, <1>5, SMT
    <2>2. 8 * ((missing + 7) \div 8) >= missing /\ 8 * ((missing + 7) \div 8) < missing + 8
      BY <1>1, <1>5, SMT
    <2>3. BytesShort(r, n) = (missing + 7) \div 8 /\ ~(GetAvailableBits(r) >= n)
      BY <1>1, <1>2, <1>3, <1>5, SMT
    <2>4. /\ GetAvailableBits(r) + 8 * ((missing + 7) \div 8) >= n
          /\ GetAvailableBits(r) + 8 * ((missing + 7) \div 8) < n + 8
      BY <1>1, <2>1, <2>2, SMT
    <2> QED
      BY <2>1, <2>3, <2>4
  <1> QED
    BY <1>1, <1>4, <1>5, SMT

\* Filling loads what is missing or all there is.
LEMMA SafeFillIs ==
  ASSUME NEW r \in BrotliBitReader, NEW n \in 0 .. MaxExtraBits
  PROVE  /\ Advanced(r, SafeFill(r, n), 0)
         /\ GetAvailableBits(SafeFill(r, n)) < n => SafeFill(r, n).avail_in = 0
  <1> DEFINE short == BytesShort(r, n)
             k == IF short <= r.avail_in THEN short ELSE r.avail_in
  <1>1. r.bit_pos \in 0 .. RegBits /\ r.avail_in \in Nat
    BY DEF BrotliBitReader
  <1>2. short \in 0 .. 4 /\ 8 * k <= r.bit_pos /\ k <= r.avail_in /\ k \in Nat
    <2>1. /\ r.bit_pos \in Int /\ 0 <= r.bit_pos /\ r.avail_in \in Nat
          /\ n \in Int /\ n <= 29 /\ GetAvailableBits(r) = 64 - r.bit_pos
      BY <1>1, SMT DEF GetAvailableBits, RegBits, MaxExtraBits
    <2>2. /\ short \in 0 .. 4
          /\ 64 - r.bit_pos >= n => short = 0
          /\ 64 - r.bit_pos < n => 64 - r.bit_pos + 8 * short < n + 8
      BY <2>1, BytesShortIs
    <2> HIDE DEF short
    <2>3. 8 * short <= r.bit_pos
      BY <2>1, <2>2, SMT
    <2>4. k \in Nat /\ k <= short /\ k <= r.avail_in
      BY <2>1, <2>2, SMT
    <2> QED
      BY <2>1, <2>2, <2>3, <2>4, SMT
  <1>3. SafeFill(r, n) = PullBytes(r, k)
    BY DEF SafeFill
  <1>4. Advanced(r, PullBytes(r, k), 0)
    BY <1>2, PullAdvances
  <1>5. GetAvailableBits(PullBytes(r, k)) < n => PullBytes(r, k).avail_in = 0
    <2>1. /\ PullBytes(r, k) \in BrotliBitReader
          /\ PullBytes(r, k).bit_pos = r.bit_pos - 8 * k
          /\ PullBytes(r, k).avail_in = r.avail_in - k
      <3>1. r.bit_pos \in Int /\ r.bit_pos <= RegBits /\ r.loaded \in Int /\ 0 <= r.loaded
        BY SMT DEF BrotliBitReader, RegBits
      <3> HIDE DEF k
      <3>2. /\ k \in Int /\ 0 <= r.bit_pos - 8 * k /\ r.bit_pos - 8 * k <= RegBits
            /\ k <= r.avail_in /\ 0 <= r.loaded + k
        BY <1>2, <3>1, SMT DEF RegBits
      <3> QED
        BY <3>2, PullFields
    <2>2. GetAvailableBits(PullBytes(r, k)) = 64 - (r.bit_pos - 8 * k)
      BY <2>1, ReaderFields
    <2>3. CASE short <= r.avail_in
      <3>1. k = short
        BY <2>3
      <3>2. 64 - (r.bit_pos - 8 * k) >= n
        BY <1>1, <3>1, BytesShortIs, ReaderFields, SMT DEF MaxExtraBits
      <3> QED
        BY <1>1, <1>2, <2>2, <3>2, SMT DEF MaxExtraBits, RegBits
    <2>4. CASE ~(short <= r.avail_in)
      BY <1>1, <2>1, <2>4, SMT
    <2> QED
      BY <2>3, <2>4
  <1> QED
    BY <1>3, <1>4, <1>5

\* A read of n bits gives n bits, or finds fewer and has loaded all there is.
ReadsExactly(r, t, n) ==
  /\ t.ok \in BOOLEAN
  /\ t.ok => Advanced(r, t.br, n)
  /\ ~t.ok => Advanced(r, t.br, 0) /\ t.br.avail_in = 0 /\ n > Bits(r)

LEMMA FilledReads ==
  ASSUME NEW r \in BrotliBitReader, NEW m \in 0 .. MaxExtraBits, NEW n \in 0 .. m
  PROVE  ReadsExactly(r, TakeBits(SafeFill(r, m), n), n)
  <1> DEFINE q == SafeFill(r, m)
  <1>1. Advanced(r, q, 0) /\ q \in BrotliBitReader
    BY SafeFillIs DEF Advanced, Moved
  <1>2. GetAvailableBits(q) \in 0 .. RegBits
    BY <1>1, SMT DEF GetAvailableBits, BrotliBitReader, RegBits
  <1>3. CASE GetAvailableBits(q) >= n
    <2>1. Advanced(q, DropBits(q, n), n)
      BY <1>1, <1>3, DropAdvances
    <2>2. Advanced(r, DropBits(q, n), 0 + n)
      BY <1>1, <2>1, AdvancedTwice
    <2> QED
      BY <1>3, <2>2 DEF ReadsExactly, TakeBits
  <1>4. CASE GetAvailableBits(q) < n
    <2>1. GetAvailableBits(q) < m
      BY <1>2, <1>4, SMT DEF RegBits, MaxExtraBits
    <2>2. q.avail_in = 0
      BY <2>1, SafeFillIs
    <2>3. Bits(q) = Bits(r) - 0 /\ Bits(q) \in Int
      BY <1>1, AdvancedBits
    <2>4. Bits(r) \in Int
      BY SMT DEF Bits, GetAvailableBits, BrotliBitReader, RegBits
    <2>5. n > Bits(r)
      BY <1>2, <1>4, <2>2, <2>3, <2>4, SMT DEF Bits, RegBits
    <2> QED
      BY <1>1, <1>2, <1>4, <2>2, <2>5, SMT DEF ReadsExactly, TakeBits, RegBits
  <1> QED
    BY <1>2, <1>3, <1>4, SMT DEF RegBits

LEMMA SafeReadBitsIs ==
  ASSUME NEW r \in BrotliBitReader, NEW n \in 0 .. MaxExtraBits
  PROVE  ReadsExactly(r, SafeReadBits(r, n), n)
  <1>1. n \in 0 .. n
    BY SMT DEF MaxExtraBits
  <1> QED
    BY <1>1, FilledReads DEF SafeReadBits

LEMMA SafeReadSymbolIs ==
  ASSUME NEW r \in BrotliBitReader, NEW n \in 0 .. MaxCodeLength
  PROVE  ReadsExactly(r, SafeReadSymbol(r, n), n)
  <1>1. MaxCodeLength \in 0 .. MaxExtraBits
    BY SMT DEF MaxCodeLength, MaxExtraBits
  <1> QED
    BY <1>1, FilledReads DEF SafeReadSymbol
-----------------------------------------------------------------------------
(* The reads of the safe path *)

\* What follows the symbol gives all its bits, or there were not that many.
LEMMA SafeReadExtraIs ==
  ASSUME NEW r \in BrotliBitReader, NEW o, WellFormed(o)
  PROVE  LET t == SafeReadExtra(r, o)
             n == o.second + o.extra1 + o.extra2
         IN  /\ t.ok \in BOOLEAN
             /\ t.ok => Advanced(r, t.br, n)
             /\ ~t.ok => n > Bits(r)
  <1> DEFINE a == SafeReadSecond(r, o)
             b == SafeReadBits(a.br, o.extra1)
             c == SafeReadBits(b.br, o.extra2)
  <1>1. /\ o.second \in 0 .. MaxCodeLength
        /\ o.extra1 \in 0 .. MaxExtraBits /\ o.extra2 \in 0 .. MaxExtraBits
    BY DEF WellFormed, Operand
  <1>2. /\ a.ok \in BOOLEAN
        /\ a.ok => Advanced(r, a.br, o.second)
        /\ ~a.ok => o.second > Bits(r)
    <2>1. CASE o.second = 0
      <3>1. Advanced(r, r, 0)
        BY SMT DEF Advanced, Moved, BitPosition, GetAvailableBits, BrotliBitReader, RegBits
      <3> QED
        BY <2>1, <3>1 DEF SafeReadSecond
    <2>2. CASE o.second # 0
      BY <1>1, <2>2, SafeReadSymbolIs DEF SafeReadSecond, ReadsExactly
    <2> QED
      BY <2>1, <2>2
  <1>3. a.ok => a.br \in BrotliBitReader /\ Bits(a.br) = Bits(r) - o.second
    BY <1>1, <1>2, AdvancedBits, SMT DEF Advanced, Moved, MaxCodeLength
  <1>4. a.ok => /\ b.ok \in BOOLEAN
                /\ b.ok => Advanced(r, b.br, o.second + o.extra1)
                /\ ~b.ok => o.extra1 > Bits(a.br)
    <2>1. a.ok => ReadsExactly(a.br, b, o.extra1)
      BY <1>1, <1>3, SafeReadBitsIs
    <2>2. o.second \in Int /\ o.extra1 \in Int
      BY <1>1, SMT DEF MaxCodeLength, MaxExtraBits
    <2> QED
      BY <1>2, <2>1, <2>2, AdvancedTwice DEF ReadsExactly
  <1>5. a.ok /\ b.ok => b.br \in BrotliBitReader /\ Bits(b.br) = Bits(r) - (o.second + o.extra1)
    BY <1>1, <1>4, AdvancedBits, SMT DEF Advanced, Moved, MaxCodeLength, MaxExtraBits
  <1>6. a.ok /\ b.ok => /\ c.ok \in BOOLEAN
                        /\ c.ok => Advanced(r, c.br, o.second + o.extra1 + o.extra2)
                        /\ ~c.ok => o.extra2 > Bits(b.br)
    <2>1. a.ok /\ b.ok => ReadsExactly(b.br, c, o.extra2)
      BY <1>1, <1>5, SafeReadBitsIs
    <2>2. o.second + o.extra1 \in Int /\ o.extra2 \in Int
      BY <1>1, SMT DEF MaxCodeLength, MaxExtraBits
    <2> QED
      BY <1>4, <2>1, <2>2, AdvancedTwice DEF ReadsExactly
  <1>7. Bits(r) \in Int
    BY SMT DEF Bits, GetAvailableBits, BrotliBitReader, RegBits
  <1>8. SafeReadExtra(r, o) = IF ~a.ok THEN a ELSE IF ~b.ok THEN b ELSE c
    BY DEF SafeReadExtra
  <1>9. o.second \in Int /\ o.extra1 \in Int /\ o.extra2 \in Int
        /\ 0 <= o.second /\ 0 <= o.extra1 /\ 0 <= o.extra2
    BY <1>1, SMT DEF MaxCodeLength, MaxExtraBits
  <1> HIDE DEF a, b, c
  <1>10. CASE ~a.ok
    <2>1. o.second + o.extra1 + o.extra2 > Bits(r)
      BY <1>2, <1>7, <1>9, <1>10, SMT
    <2> QED
      BY <1>2, <1>8, <1>10, <2>1
  <1>11. CASE a.ok /\ ~b.ok
    <2>1. o.second + o.extra1 + o.extra2 > Bits(r)
      BY <1>3, <1>4, <1>7, <1>9, <1>11, SMT
    <2> QED
      BY <1>4, <1>8, <1>11, <2>1
  <1>12. CASE a.ok /\ b.ok
    <2>1. ~c.ok => o.second + o.extra1 + o.extra2 > Bits(r)
      BY <1>5, <1>6, <1>7, <1>9, <1>12, SMT
    <2> QED
      BY <1>6, <1>8, <1>12, <2>1
  <1> QED
    BY <1>2, <1>10, <1>11, <1>12

\* A command that cannot be read whole leaves the reader as it was, unless its very
\* symbol was not there.
LEMMA SafeReadCommandIs ==
  ASSUME NEW r \in BrotliBitReader, NEW o, WellFormed(o)
  PROVE  LET t == SafeReadCommand(r, o)
         IN  /\ t.ok \in BOOLEAN
             /\ t.ok => Advanced(r, t.br, Width(o))
             /\ ~t.ok => \/ t.br = r /\ Width(o) > Bits(r) /\ o.symbol <= Bits(r)
                         \/ /\ Advanced(r, t.br, 0) /\ t.br.avail_in = 0
                            /\ o.symbol > Bits(r)
  <1> DEFINE a == SafeReadSymbol(r, o.symbol)
             b == SafeReadExtra(a.br, o)
             n == o.second + o.extra1 + o.extra2
  <1>1. /\ o.symbol \in 0 .. MaxCodeLength /\ o.second \in 0 .. MaxCodeLength
        /\ o.extra1 \in 0 .. MaxExtraBits /\ o.extra2 \in 0 .. MaxExtraBits
    BY DEF WellFormed, Operand
  <1>2. n \in Int /\ o.symbol \in Int /\ Width(o) = o.symbol + n
    <2>1. /\ o.symbol \in Int /\ o.second \in Int
          /\ o.extra1 \in Int /\ o.extra2 \in Int
      BY <1>1, SMT DEF MaxCodeLength, MaxExtraBits
    <2>2. o.symbol + o.second + o.extra1 + o.extra2
            = o.symbol + (o.second + o.extra1 + o.extra2)
      BY <2>1, SMT
    <2> QED
      BY <2>1, <2>2 DEF Width
  <1>3. ReadsExactly(r, a, o.symbol)
    BY <1>1, SafeReadSymbolIs
  <1>4. a.ok => a.br \in BrotliBitReader /\ Bits(a.br) = Bits(r) - o.symbol
    BY <1>2, <1>3, AdvancedBits DEF ReadsExactly, Advanced, Moved
  <1>5. a.ok => /\ b.ok \in BOOLEAN
                /\ b.ok => Advanced(a.br, b.br, n)
                /\ ~b.ok => n > Bits(a.br)
    BY <1>4, SafeReadExtraIs
  <1>6. a.ok /\ b.ok => Advanced(r, b.br, Width(o))
    BY <1>2, <1>3, <1>5, AdvancedTwice DEF ReadsExactly
  <1>7. Bits(r) \in Int
    BY SMT DEF Bits, GetAvailableBits, BrotliBitReader, RegBits
  <1>8. a.ok /\ ~b.ok => Width(o) > Bits(r) /\ o.symbol <= Bits(r)
    <2>1. a.ok => Bits(a.br) >= 0 /\ Bits(a.br) \in Int
      BY <1>2, <1>3, AdvancedBits DEF ReadsExactly
    <2>2. a.ok /\ ~b.ok => Width(o) > Bits(r)
      BY <1>2, <1>4, <1>5, <1>7, SMT
    <2>3. a.ok => o.symbol <= Bits(r)
      BY <1>2, <1>4, <1>7, <2>1, SMT
    <2> QED
      BY <2>2, <2>3
  <1>9. SafeReadCommand(r, o) = IF ~a.ok THEN a ELSE IF b.ok THEN b
                                ELSE [ok |-> FALSE, br |-> r]
    BY DEF SafeReadCommand
  <1> HIDE DEF a, b
  <1>10. CASE ~a.ok
    BY <1>3, <1>9, <1>10 DEF ReadsExactly
  <1>11. CASE a.ok /\ b.ok
    BY <1>6, <1>9, <1>11
  <1>12. CASE a.ok /\ ~b.ok
    BY <1>8, <1>9, <1>12
  <1> QED
    BY <1>10, <1>11, <1>12
-----------------------------------------------------------------------------
(* The reads of the fast path *)

\* With so many bits ahead the load of FillBitWindow(n) stays inside the input.
BitsToFill(n) == 57 + 8 * (FillLoads(n) - FillBytes(n))

LEMMA FillSizes ==
  ASSUME NEW n \in 0 .. MaxExtraBits
  PROVE  /\ n <= 8 => FillBytes(n) = 7 /\ FillLoads(n) = 8 /\ BitsToFill(n) = 65
         /\ n > 8 /\ n <= 16 => FillBytes(n) = 6 /\ FillLoads(n) = 8 /\ BitsToFill(n) = 73
         /\ n > 16 => FillBytes(n) = 4 /\ FillLoads(n) = 4 /\ BitsToFill(n) = 57
  BY SMT DEF FillBytes, FillLoads, BitsToFill, MaxExtraBits

\* A fill of a register that is not empty is a pull of whole bytes, and leaves the
\* n bits it was asked for.
LEMMA FillIs ==
  ASSUME NEW r \in BrotliBitReader, NEW n \in 0 .. MaxExtraBits,
         r.bit_pos <= 63, FillInBounds(r, n)
  PROVE  Advanced(r, FillBitWindow(r, n), 0) /\ FillBitWindow(r, n).bit_pos + n <= 63
  <1> DEFINE q == FillBitWindow(r, n)
             f == FillBytes(n)
  <1>1. /\ r.bit_pos \in Int /\ 0 <= r.bit_pos /\ r.avail_in \in Int /\ 0 <= r.avail_in
        /\ Bits(r) = 64 - r.bit_pos + 8 * r.avail_in
    BY ReaderFields
  <1>2. n \in Int /\ 0 <= n /\ n <= 29
    BY SMT DEF MaxExtraBits
  <1>3. f \in Nat /\ f \in {4, 6, 7} /\ f <= FillLoads(n) /\ FillLoads(n) \in Nat
    BY SMT DEF FillBytes, FillLoads
  <1>4. CASE r.bit_pos >= 8 * f
    <2>1. r.avail_in >= FillLoads(n)
      BY <1>4 DEF FillInBounds, NeedsFill
    <2>2. q = PullBytes(r, f)
      BY <1>1, <1>4, SMT DEF NeedsFill, FillBitWindow, XorBits, PullBytes, RegBits
    <2>3. 8 * f <= r.bit_pos /\ f <= r.avail_in
      BY <1>1, <1>3, <1>4, <2>1, SMT
    <2>4. Advanced(r, q, 0)
      BY <1>3, <2>2, <2>3, PullAdvances
    <2>5. q.bit_pos = r.bit_pos - 8 * f
      BY <2>2 DEF PullBytes
    <2>6. q.bit_pos + n <= 63
      BY <1>1, <1>2, <2>5, FillSizes, SMT
    <2> QED
      BY <2>4, <2>6
  <1>5. CASE ~(r.bit_pos >= 8 * f)
    <2>1. q = r
      BY <1>5 DEF NeedsFill, FillBitWindow
    <2>2. r.bit_pos + n <= 63
      BY <1>1, <1>2, <1>5, FillSizes, SMT
    <2> QED
      BY <2>1, <2>2, AdvancedNot
  <1> QED
    BY <1>4, <1>5

LEMMA FillHasRoom ==
  ASSUME NEW r \in BrotliBitReader, NEW n \in 0 .. MaxExtraBits, Bits(r) >= BitsToFill(n)
  PROVE  FillInBounds(r, n)
  <1>1. /\ r.bit_pos \in Int /\ 0 <= r.bit_pos /\ r.avail_in \in Int /\ 0 <= r.avail_in
        /\ Bits(r) = 64 - r.bit_pos + 8 * r.avail_in
    BY ReaderFields
  <1>2. n \in Int
    BY SMT DEF MaxExtraBits
  <1>3. r.bit_pos >= 8 * FillBytes(n) => r.avail_in >= FillLoads(n)
    BY <1>1, <1>2, FillSizes, SMT
  <1> QED
    BY <1>3 DEF FillInBounds, NeedsFill

\* A fast read of n bits after a fill for m of them.
LEMMA FilledFastReads ==
  ASSUME NEW r \in BrotliBitReader, NEW m \in 0 .. MaxExtraBits, NEW n \in 0 .. m,
         r.bit_pos <= 63, FillInBounds(r, m)
  PROVE  LET q == DropBits(FillBitWindow(r, m), n)
         IN  /\ Advanced(r, q, n)
             /\ q \in BrotliBitReader /\ q.bit_pos <= 63
             /\ Bits(q) = Bits(r) - n
  <1> DEFINE p == FillBitWindow(r, m)
             q == DropBits(p, n)
  <1>1. Advanced(r, p, 0) /\ p.bit_pos + m <= 63
    BY FillIs
  <1>2. p \in BrotliBitReader
    BY <1>1 DEF Advanced, Moved
  <1>3. n \in Nat /\ m \in Nat /\ n <= m
    BY SMT DEF MaxExtraBits
  <1>4. p.bit_pos \in Int /\ GetAvailableBits(p) = 64 - p.bit_pos
    BY <1>2, ReaderFields
  <1>5. n <= GetAvailableBits(p) /\ p.bit_pos + n <= 63
    BY <1>1, <1>3, <1>4, SMT
  <1>6. Advanced(p, q, n) /\ q.bit_pos = p.bit_pos + n /\ q \in BrotliBitReader
    BY <1>2, <1>3, <1>5, DropAdvances, DropFields
  <1>7. n \in Int /\ 0 \in Int /\ 0 + n = n
    BY <1>3, SMT
  <1>8. Advanced(r, q, n)
    BY <1>1, <1>2, <1>6, <1>7, AdvancedTwice
  <1>9. Bits(q) = Bits(r) - n
    BY <1>7, <1>8, AdvancedBits
  <1> QED
    BY <1>5, <1>6, <1>8, <1>9

\* The widths of a read of the fast path.
LEMMA FastWidths ==
  ASSUME NEW o, WellFormed(o), InCommands(o)
  PROVE  /\ o.symbol \in 0 .. 16 /\ o.second \in 0 .. 16
         /\ o.extra1 \in 0 .. MaxExtraBits /\ o.extra2 \in 0 .. MaxExtraBits
         /\ o.symbol <= 15 /\ o.second <= 15
         /\ Width(o) = o.symbol + o.second + o.extra1 + o.extra2
         /\ o.kind = "symbol" => Width(o) = o.symbol /\ Reserved(o) = 23
         /\ o.kind = "command" => o.second = 0 /\ Reserved(o) = 63
         /\ o.kind = "switch" => o.extra2 = 0 /\ Reserved(o) = 54
         /\ o.kind = "distance" => o.second = 0 /\ o.extra2 = 0 /\ Reserved(o) = 44
         /\ o.kind \in {"symbol", "command", "switch", "distance"}
  <1>1. /\ o.symbol \in 0 .. 15 /\ o.second \in 0 .. 15
        /\ o.extra1 \in 0 .. MaxExtraBits /\ o.extra2 \in 0 .. MaxExtraBits
        /\ o.kind \in {"symbol", "command", "switch", "distance"}
    BY DEF WellFormed, Operand, MaxCodeLength, InCommands, HasMemento
  <1>2. /\ o.kind # "switch" => o.second = 0
        /\ o.kind # "command" => o.extra2 = 0
        /\ o.kind = "symbol" => o.extra1 = 0
    BY <1>1, SMT DEF WellFormed
  <1>3. /\ o.symbol \in 0 .. 16 /\ o.second \in 0 .. 16
        /\ o.symbol <= 15 /\ o.second <= 15
    BY <1>1, SMT
  <1>4. o.kind = "symbol" => Width(o) = o.symbol
    BY <1>1, <1>2, SMT DEF Width
  <1>5. /\ o.kind = "symbol" => Reserved(o) = 23
        /\ o.kind = "command" => Reserved(o) = 63
        /\ o.kind = "switch" => Reserved(o) = 54
        /\ o.kind = "distance" => Reserved(o) = 44
    BY SMT DEF Reserved, WidestRead, MaxCodeLength, MaxLengthBits, MaxExtraBits
  <1> QED
    BY <1>1, <1>2, <1>3, <1>4, <1>5 DEF Width

\* A literal, by either of the two functions that read one.
LEMMA FastLiterals ==
  ASSUME NEW r \in BrotliBitReader, NEW n \in 0 .. 16, n <= 15,
         r.bit_pos <= 63, Bits(r) >= 80
  PROVE  /\ FillInBounds(r, 16) /\ FillInBounds(r, 8)
         /\ FillInBounds(FastReadSymbol(r, n), 8)
         /\ n <= 8 => FillInBounds(DropBits(FillBitWindow(r, 8), n), 8)
         /\ Advanced(r, FastReadSymbol(r, n), n)
         /\ Advanced(r, FastReadLiteral(r, n), n)
         /\ FastReadSymbol(r, n).bit_pos <= 63
         /\ FastReadLiteral(r, n).bit_pos <= 63
  <1> DEFINE a == FastReadSymbol(r, n)
             b == DropBits(FillBitWindow(r, 8), n)
             c == IF n <= 8 THEN b ELSE a
             d == FillBitWindow(c, 8)
  <1>1. /\ 16 \in 0 .. MaxExtraBits /\ 8 \in 0 .. MaxExtraBits
        /\ BitsToFill(16) = 73 /\ BitsToFill(8) = 65
        /\ Bits(r) \in Int /\ n \in Int /\ n + 0 = n
    BY SMT DEF MaxExtraBits, BitsToFill, FillLoads, FillBytes, Bits, GetAvailableBits,
               RegBits, BrotliBitReader
  <1>2. Bits(r) >= BitsToFill(16) /\ Bits(r) >= BitsToFill(8) /\ Bits(r) - n >= BitsToFill(8)
    BY <1>1, SMT
  <1>3. /\ FillInBounds(r, 16) /\ Advanced(r, a, n)
        /\ a \in BrotliBitReader /\ a.bit_pos <= 63 /\ Bits(a) = Bits(r) - n
    BY <1>1, <1>2, FillHasRoom, FilledFastReads DEF FastReadSymbol
  <1>4. FillInBounds(r, 8)
    BY <1>1, <1>2, FillHasRoom
  <1>5. n <= 8 => /\ Advanced(r, b, n)
                  /\ b \in BrotliBitReader /\ b.bit_pos <= 63 /\ Bits(b) = Bits(r) - n
    <2>1. n <= 8 => n \in 0 .. 8
      BY SMT
    <2> QED
      BY <1>1, <1>2, <2>1, FillHasRoom, FilledFastReads
  <1>6. FillInBounds(a, 8)
    BY <1>1, <1>2, <1>3, FillHasRoom
  <1>7. n <= 8 => FillInBounds(b, 8)
    BY <1>1, <1>2, <1>5, FillHasRoom
  <1>8. /\ Advanced(r, c, n) /\ c \in BrotliBitReader
        /\ c.bit_pos <= 63 /\ Bits(c) = Bits(r) - n
    BY <1>3, <1>5
  <1>9. Advanced(c, d, 0) /\ d.bit_pos + 8 <= 63
    BY <1>1, <1>2, <1>8, FillHasRoom, FillIs
  <1>10. d.bit_pos <= 63
    <2>1. d.bit_pos \in Int
      BY <1>9, ReaderFields DEF Advanced, Moved
    <2> QED
      BY <1>9, <2>1, SMT
  <1>11. Advanced(r, d, n)
    BY <1>1, <1>8, <1>9, AdvancedTwice
  <1>12. FastReadLiteral(r, n) = d
    BY DEF FastReadLiteral
  <1> QED
    BY <1>3, <1>4, <1>6, <1>7, <1>10, <1>11, <1>12

\* A command, a block switch or a distance.
LEMMA FastCommands ==
  ASSUME NEW r \in BrotliBitReader, NEW o, WellFormed(o), InCommands(o),
         o.kind # "symbol", r.bit_pos <= 63, Bits(r) >= Reserved(o) + 57
  PROVE  /\ FastInBounds(r, o)
         /\ Advanced(r, FastReadCommand(r, o), Width(o))
         /\ FastReadCommand(r, o).bit_pos <= 63
  <1> DEFINE a == FastReadSymbol(r, o.symbol)
             b == FastReadSecond(a, o)
             c == FastReadFirst(b, o.extra1)
             d == IF o.kind = "command" THEN ReadBits(c, o.extra2) ELSE c
  <1>1. /\ o.symbol \in 0 .. 16 /\ o.second \in 0 .. 16
        /\ o.extra1 \in 0 .. MaxExtraBits /\ o.extra2 \in 0 .. MaxExtraBits
        /\ Width(o) = o.symbol + o.second + o.extra1 + o.extra2
        /\ o.kind \in {"command", "switch", "distance"}
    BY FastWidths
  <1>2. /\ o.symbol \in Int /\ o.second \in Int /\ o.extra1 \in Int /\ o.extra2 \in Int
        /\ Bits(r) \in Int /\ 0 \in Int
        /\ o.symbol <= 15 /\ o.second <= 15
        /\ 0 <= o.symbol /\ 0 <= o.second /\ 0 <= o.extra1 /\ o.extra1 <= 29 /\ o.extra2 <= 29
    BY <1>1, FastWidths, SMT DEF MaxExtraBits, Bits, GetAvailableBits, RegBits, BrotliBitReader
  <1>3. /\ 16 \in 0 .. MaxExtraBits /\ BitsToFill(16) = 73
        /\ BitsToFill(o.extra1) \in Int /\ BitsToFill(o.extra1) <= 73
        /\ BitsToFill(o.extra2) \in Int /\ BitsToFill(o.extra2) <= 73
    BY <1>1, SMT DEF MaxExtraBits, BitsToFill, FillLoads, FillBytes
  <1>4. /\ Bits(r) >= 73
        /\ o.second # 0 => Bits(r) - o.symbol >= 73
        /\ Bits(r) - (o.symbol + o.second) >= 73
        /\ o.kind = "command" => Bits(r) - (o.symbol + o.second + o.extra1) >= 73
    <2>1. CASE o.kind = "command"
      BY <1>2, <2>1, FastWidths, SMT
    <2>2. CASE o.kind = "switch"
      BY <1>2, <2>2, FastWidths, SMT
    <2>3. CASE o.kind = "distance"
      BY <1>2, <2>3, FastWidths, SMT
    <2> QED
      BY <1>1, <2>1, <2>2, <2>3
  <1>5. /\ FillInBounds(r, 16) /\ Advanced(r, a, o.symbol)
        /\ a \in BrotliBitReader /\ a.bit_pos <= 63 /\ Bits(a) = Bits(r) - o.symbol
    BY <1>1, <1>3, <1>4, FillHasRoom, FilledFastReads DEF FastReadSymbol
  <1>6. /\ o.second # 0 => FillInBounds(a, 16)
        /\ Advanced(r, b, o.symbol + o.second)
        /\ b \in BrotliBitReader /\ b.bit_pos <= 63
    <2>1. CASE o.second = 0
      <3>1. b = a /\ o.symbol + o.second = o.symbol
        BY <1>2, <2>1, SMT DEF FastReadSecond
      <3> QED
        BY <1>5, <2>1, <3>1
    <2>2. CASE o.second # 0
      <3>1. b = DropBits(FillBitWindow(a, 16), o.second)
        BY <2>2 DEF FastReadSecond, FastReadSymbol
      <3>2. /\ FillInBounds(a, 16) /\ Advanced(a, b, o.second)
            /\ b \in BrotliBitReader /\ b.bit_pos <= 63
        BY <1>1, <1>3, <1>4, <1>5, <2>2, <3>1, FillHasRoom, FilledFastReads
      <3> QED
        BY <1>2, <1>5, <3>2, AdvancedTwice
    <2> QED
      BY <2>1, <2>2
  <1>7. o.symbol + o.second \in Int /\ Bits(b) = Bits(r) - (o.symbol + o.second)
    BY <1>2, <1>6, AdvancedBits, SMT
  <1>8. /\ o.extra1 # 0 => FillInBounds(b, o.extra1)
        /\ Advanced(r, c, o.symbol + o.second + o.extra1)
        /\ c \in BrotliBitReader /\ c.bit_pos <= 63
    <2>1. CASE o.extra1 = 0
      <3>1. c = b /\ o.symbol + o.second + o.extra1 = o.symbol + o.second
        BY <1>2, <2>1, SMT DEF FastReadFirst
      <3> QED
        BY <1>6, <2>1, <3>1
    <2>2. CASE o.extra1 # 0
      <3>1. c = DropBits(FillBitWindow(b, o.extra1), o.extra1)
        BY <2>2 DEF FastReadFirst, ReadBits
      <3>2. o.extra1 \in 0 .. o.extra1
        BY <1>2, SMT
      <3>3. Bits(b) >= BitsToFill(o.extra1)
        BY <1>2, <1>3, <1>4, <1>7, SMT
      <3>4. /\ FillInBounds(b, o.extra1) /\ Advanced(b, c, o.extra1)
            /\ c \in BrotliBitReader /\ c.bit_pos <= 63
        BY <1>1, <1>6, <3>1, <3>2, <3>3, FillHasRoom, FilledFastReads
      <3> QED
        BY <1>2, <1>6, <1>7, <3>4, AdvancedTwice
    <2> QED
      BY <2>1, <2>2
  <1>9. /\ o.symbol + o.second + o.extra1 \in Int
        /\ Bits(c) = Bits(r) - (o.symbol + o.second + o.extra1)
    BY <1>2, <1>8, AdvancedBits, SMT
  <1>10. /\ o.kind = "command" => FillInBounds(c, o.extra2)
         /\ Advanced(r, d, o.symbol + o.second + o.extra1 + o.extra2)
         /\ d.bit_pos <= 63
    <2>1. CASE o.kind # "command"
      <3>1. d = c /\ o.extra2 = 0
        BY <1>1, <2>1, FastWidths
      <3>2. o.symbol + o.second + o.extra1 + o.extra2 = o.symbol + o.second + o.extra1
        BY <1>9, <3>1, SMT
      <3> QED
        BY <1>8, <2>1, <3>1, <3>2
    <2>2. CASE o.kind = "command"
      <3>1. d = DropBits(FillBitWindow(c, o.extra2), o.extra2)
        BY <2>2 DEF ReadBits
      <3>2. o.extra2 \in 0 .. o.extra2
        BY <1>1, SMT DEF MaxExtraBits
      <3>3. Bits(c) >= BitsToFill(o.extra2)
        BY <1>2, <1>3, <1>4, <1>9, <2>2, SMT
      <3>4. /\ FillInBounds(c, o.extra2) /\ Advanced(c, d, o.extra2)
            /\ d \in BrotliBitReader /\ d.bit_pos <= 63
        BY <1>1, <1>8, <3>1, <3>2, <3>3, FillHasRoom, FilledFastReads
      <3> QED
        BY <1>2, <1>8, <1>9, <3>4, AdvancedTwice
    <2> QED
      BY <2>1, <2>2
  <1>11. FastReadCommand(r, o) = d
    BY DEF FastReadCommand
  <1>12. FastInBounds(r, o)
    BY <1>5, <1>6, <1>8, <1>10 DEF FastInBounds
  <1> QED
    BY <1>1, <1>10, <1>11, <1>12

\* The reads of the fast path return the bits that come next, whatever the code.
LEMMA FastReads ==
  ASSUME NEW r \in BrotliBitReader, NEW o, WellFormed(o), InCommands(o),
         r.bit_pos <= 63, Bits(r) >= Reserved(o) + 57
  PROVE  /\ FastInBounds(r, o)
         /\ \A q \in FastOutcomes(r, o) : Advanced(r, q, Width(o)) /\ q.bit_pos <= 63
  <1>1. CASE o.kind = "symbol"
    <2>1. /\ o.symbol \in 0 .. 16 /\ o.symbol <= 15
          /\ Width(o) = o.symbol /\ Reserved(o) = 23
      BY <1>1, FastWidths
    <2>2. Bits(r) >= 80
      BY <2>1
    <2> QED
      BY <1>1, <2>1, <2>2, FastLiterals DEF FastInBounds, FastOutcomes
  <1>2. CASE o.kind # "symbol"
    BY <1>2, FastCommands DEF FastOutcomes
  <1> QED
    BY <1>1, <1>2
-----------------------------------------------------------------------------
(* The other operations of the reader *)

\* q is r after some bits were read: the order in which readers follow each other.
Ahead(r, q) ==
  /\ Moved(r, q)
  /\ q.loaded >= r.loaded
  /\ BitPosition(q) >= BitPosition(r)

LEMMA ReaderArithmetic ==
  ASSUME NEW r \in BrotliBitReader
  PROVE  /\ BitPosition(r) \in Int /\ Bits(r) \in Int
         /\ GetAvailableBits(r) \in Int
         /\ 0 <= GetAvailableBits(r) /\ GetAvailableBits(r) <= 64
         /\ Bits(r) = GetAvailableBits(r) + 8 * r.avail_in
         /\ BitPosition(r) = 8 * r.loaded - GetAvailableBits(r)
  BY SMT DEF BrotliBitReader, RegBits, GetAvailableBits, BitPosition, Bits

LEMMA AdvancedIsAhead ==
  ASSUME NEW r \in BrotliBitReader, NEW q, NEW n \in Nat, Advanced(r, q, n)
  PROVE  Ahead(r, q) /\ BitPosition(q) = BitPosition(r) + n /\ q \in BrotliBitReader
  <1>1. q \in BrotliBitReader /\ BitPosition(q) = BitPosition(r) + n
    BY DEF Advanced, Moved
  <1>2. BitPosition(q) >= BitPosition(r)
    BY <1>1, ReaderArithmetic, SMT
  <1> QED
    BY <1>1, <1>2 DEF Advanced, Ahead

LEMMA AheadTwice ==
  ASSUME NEW r \in BrotliBitReader, NEW q, NEW p, Ahead(r, q), Ahead(q, p)
  PROVE  Ahead(r, p)
  <1>1. q \in BrotliBitReader /\ p \in BrotliBitReader
    BY DEF Ahead, Moved
  <1> QED
    BY <1>1, ReaderFields, SMT DEF Ahead, Moved

\* As the reader moves on, what it can still give gets less.
LEMMA AheadBits ==
  ASSUME NEW r \in BrotliBitReader, NEW q, Ahead(r, q)
  PROVE  /\ q \in BrotliBitReader
         /\ Bits(q) = Bits(r) - (BitPosition(q) - BitPosition(r))
         /\ Bits(q) <= Bits(r)
         /\ q.avail_in <= r.avail_in
  <1> DEFINE n == BitPosition(q) - BitPosition(r)
  <1>1. q \in BrotliBitReader /\ Moved(r, q) /\ q.loaded >= r.loaded
    BY DEF Ahead, Moved
  <1>2. n \in Int /\ n >= 0 /\ BitPosition(q) = BitPosition(r) + n
    BY <1>1, ReaderArithmetic, SMT DEF Ahead
  <1>3. Advanced(r, q, n)
    BY <1>1, <1>2 DEF Advanced
  <1>4. Bits(q) = Bits(r) - n
    BY <1>2, <1>3, AdvancedBits
  <1>5. Bits(q) <= Bits(r)
    BY <1>2, <1>4, ReaderArithmetic, SMT
  <1>6. q.avail_in <= r.avail_in
    BY <1>1, ReaderFields, SMT DEF Moved
  <1> QED
    BY <1>1, <1>4, <1>5, <1>6

LEMMA JumpIs ==
  ASSUME NEW r \in BrotliBitReader
  PROVE  /\ Ahead(r, JumpToByteBoundary(r))
         /\ GetAvailableBits(JumpToByteBoundary(r)) <= GetAvailableBits(r)
  <1> DEFINE n == PadBitsCount(r)
  <1>1. n \in Nat /\ n <= GetAvailableBits(r)
    BY ReaderArithmetic, SMT DEF PadBitsCount
  <1>2. Advanced(r, DropBits(r, n), n)
    BY <1>1, DropAdvances
  <1>3. /\ DropBits(r, n) \in BrotliBitReader
        /\ DropBits(r, n).bit_pos = r.bit_pos + n
    BY <1>1, DropFields
  <1>4. GetAvailableBits(DropBits(r, n)) <= GetAvailableBits(r)
    BY <1>1, <1>3, ReaderFields, SMT
  <1> QED
    BY <1>1, <1>2, <1>4, AdvancedIsAhead DEF JumpToByteBoundary

\* Unloading moves whole bytes and reads nothing.
LEMMA UnloadIs ==
  ASSUME NEW r \in BrotliBitReader, BitPosition(r) >= 0
  PROVE  LET q == BitReaderUnload(r)
         IN  /\ Moved(r, q) /\ q \in BrotliBitReader
             /\ BitPosition(q) = BitPosition(r)
             /\ GetAvailableBits(q) < 8
  <1> DEFINE k == GetAvailableBits(r) \div 8
             q == BitReaderUnload(r)
  <1>1. /\ k \in Int /\ 0 <= k /\ 8 * k <= GetAvailableBits(r)
        /\ GetAvailableBits(r) < 8 * k + 8
    BY ReaderArithmetic, SMT
  <1>2. /\ 0 <= r.bit_pos - 8 * (-k) /\ r.bit_pos - 8 * (-k) <= RegBits
        /\ -k <= r.avail_in /\ 0 <= r.loaded + (-k) /\ -k \in Int
    BY <1>1, ReaderFields, SMT
  <1>3. q = PullBytes(r, -k)
    BY DEF BitReaderUnload
  <1> HIDE DEF k
  <1>4. /\ PullBytes(r, -k) \in BrotliBitReader
        /\ PullBytes(r, -k).bit_pos = r.bit_pos - 8 * (-k)
        /\ PullBytes(r, -k).next_in = r.next_in + (-k)
        /\ PullBytes(r, -k).avail_in = r.avail_in - (-k)
        /\ PullBytes(r, -k).loaded = r.loaded + (-k)
    BY <1>2, PullFields
  <1> HIDE DEF q
  <1>5. q \in BrotliBitReader /\ Moved(r, q)
    BY <1>1, <1>3, <1>4, ReaderFields, SMT DEF Moved
  <1>6. BitPosition(q) = BitPosition(r)
    BY <1>1, <1>3, <1>4, ReaderFields, SMT
  <1>7. GetAvailableBits(q) < 8
    BY <1>1, <1>3, <1>4, ReaderFields, SMT
  <1> QED
    BY <1>5, <1>6, <1>7 DEF q

LEMMA WarmupIs ==
  ASSUME NEW r \in BrotliBitReader, r.avail_in > 0
  PROVE  Advanced(r, WarmupBitReader(r), 0) /\ WarmupBitReader(r).bit_pos <= 63
  <1>1. CASE GetAvailableBits(r) = 0
    <2>1. 1 \in Nat /\ 8 * 1 <= r.bit_pos /\ 1 <= r.avail_in
      BY <1>1, ReaderFields, SMT
    <2>2. Advanced(r, PullBytes(r, 1), 0)
      BY <2>1, PullAdvances
    <2>3. PullBytes(r, 1).bit_pos = r.bit_pos - 8 * 1
      BY DEF PullBytes
    <2>4. PullBytes(r, 1).bit_pos <= 63
      BY <2>1, <2>3, ReaderFields, SMT
    <2> QED
      BY <1>1, <2>2, <2>4 DEF WarmupBitReader
  <1>2. CASE GetAvailableBits(r) # 0
    <2>1. r.bit_pos <= 63
      BY <1>2, ReaderFields, SMT
    <2> QED
      BY <1>2, <2>1, AdvancedNot DEF WarmupBitReader
  <1> QED
    BY <1>1, <1>2

\* Copying whole bytes reads their bits; when all there is is copied, less than a
\* byte is left.
LEMMA CopyIs ==
  ASSUME NEW r \in BrotliBitReader, NEW n \in Nat, n <= GetRemainingBytes(r)
  PROVE  LET q == CopyBytes(r, n)
         IN  /\ Advanced(r, q, 8 * n)
             /\ n = GetRemainingBytes(r) => q.avail_in = 0 /\ GetAvailableBits(q) < 8
  <1> DEFINE held == GetAvailableBits(r) \div 8
             fromReg == IF n <= held THEN n ELSE held
             direct == n - fromReg
             q == CopyBytes(r, n)
  <1>1. /\ held \in Int /\ 0 <= held /\ 8 * held <= GetAvailableBits(r)
        /\ GetAvailableBits(r) < 8 * held + 8
    BY ReaderArithmetic, SMT
  <1>2. n <= r.avail_in + held
    BY DEF GetRemainingBytes
  <1> HIDE DEF held
  <1>3. /\ fromReg \in Int /\ 0 <= fromReg /\ fromReg <= held
        /\ direct \in Int /\ 0 <= direct /\ direct <= r.avail_in
        /\ n = r.avail_in + held => fromReg = held /\ direct = r.avail_in
    BY <1>1, <1>2, ReaderFields, SMT
  <1>4. n = fromReg + direct
    BY <1>3, SMT
  <1>5. q = [bit_pos |-> r.bit_pos + 8 * fromReg, next_in |-> r.next_in + direct,
             avail_in |-> r.avail_in - direct, loaded |-> r.loaded + direct]
    BY DEF CopyBytes, held
  <1> HIDE DEF fromReg, direct, q
  <1>6. /\ r.bit_pos + 8 * fromReg \in 0 .. RegBits /\ r.next_in + direct \in Int
        /\ r.avail_in - direct \in Nat /\ r.loaded + direct \in Nat
    BY <1>1, <1>3, ReaderFields, SMT
  <1>7. q \in BrotliBitReader
    BY <1>5, <1>6 DEF BrotliBitReader
  <1>8. /\ q.bit_pos = r.bit_pos + 8 * fromReg /\ q.next_in = r.next_in + direct
        /\ q.avail_in = r.avail_in - direct /\ q.loaded = r.loaded + direct
    BY <1>5
  <1>9. Moved(r, q) /\ q.loaded >= r.loaded
    BY <1>3, <1>7, <1>8, ReaderFields, SMT DEF Moved
  <1>10. BitPosition(q) = BitPosition(r) + 8 * n
    BY <1>3, <1>4, <1>7, <1>8, ReaderFields, SMT
  <1>11. n = GetRemainingBytes(r) => q.avail_in = 0 /\ GetAvailableBits(q) < 8
    <2>1. n = GetRemainingBytes(r) => fromReg = held /\ direct = r.avail_in
      BY <1>3 DEF GetRemainingBytes, held
    <2> QED
      BY <1>1, <1>3, <1>7, <1>8, <2>1, ReaderFields, SMT
  <1> QED
    BY <1>9, <1>10, <1>11 DEF Advanced, q

LEMMA OfferedIs ==
  ASSUME NEW r \in BrotliBitReader, NEW i \in Int, NEW a \in Nat
  PROVE  LET q == Offered(r, i, a)
         IN  /\ q \in BrotliBitReader
             /\ q.next_in = i /\ q.avail_in = a
             /\ q.loaded = r.loaded /\ q.bit_pos = r.bit_pos
             /\ GetAvailableBits(q) = GetAvailableBits(r)
             /\ BitPosition(q) = BitPosition(r)
  <1>1. /\ Offered(r, i, a).next_in = i /\ Offered(r, i, a).avail_in = a
        /\ Offered(r, i, a).loaded = r.loaded /\ Offered(r, i, a).bit_pos = r.bit_pos
    BY DEF Offered
  <1>2. Offered(r, i, a) \in BrotliBitReader
    BY DEF Offered, BrotliBitReader
  <1> QED
    BY <1>1, <1>2 DEF GetAvailableBits, BitPosition

LEMMA Widths ==
  ASSUME NEW o, WellFormed(o)
  PROVE  /\ o.symbol \in Int /\ 0 <= o.symbol /\ o.symbol <= Width(o)
         /\ Width(o) \in Int /\ 0 <= Width(o) /\ Width(o) <= 63
         /\ o.kind = "header" => Width(o) = o.extra1 /\ o.extra1 \in 0 .. MaxExtraBits
         /\ o.kind = "symbol" => Width(o) = o.symbol
         /\ o.kind = "copy" => Width(o) = 0 /\ o.bytes \in Nat
         /\ HasMemento(o) \/ o.kind \in {"header", "symbol", "copy"}
         /\ o.symbol \in 0 .. MaxCodeLength
  <1>1. /\ o.symbol \in 0 .. 15 /\ o.second \in 0 .. 15
        /\ o.extra1 \in 0 .. 29 /\ o.extra2 \in 0 .. 29 /\ o.bytes \in Nat
        /\ o.kind \in {"header", "symbol", "command", "switch", "distance", "copy"}
    BY DEF WellFormed, Operand, MaxCodeLength, MaxExtraBits
  <1>2. /\ o.kind # "switch" => o.second = 0
        /\ o.kind # "command" => o.extra2 = 0
        /\ o.kind \in {"symbol", "copy"} => o.extra1 = 0
        /\ o.kind \in {"header", "copy"} => o.symbol = 0
    BY <1>1, SMT DEF WellFormed, InCommands, HasMemento
  <1>3. WidestRead(o) \in Int /\ WidestRead(o) <= 63
    BY SMT DEF WidestRead, MaxCodeLength, MaxLengthBits, MaxExtraBits
  <1>4. Width(o) = o.symbol + o.second + o.extra1 + o.extra2 /\ Width(o) <= WidestRead(o)
    BY DEF Width, WellFormed
  <1>5. /\ o.symbol \in Int /\ 0 <= o.symbol /\ o.symbol <= Width(o)
        /\ Width(o) \in Int /\ 0 <= Width(o) /\ Width(o) <= 63
    <2>1. o.symbol \in Int /\ o.second \in Int /\ o.extra1 \in Int /\ o.extra2 \in Int
      BY <1>1, SMT
    <2>2. 0 <= o.symbol /\ 0 <= o.second /\ 0 <= o.extra1 /\ 0 <= o.extra2
      BY <1>1, SMT
    <2>3. Width(o) \in Int
      BY <1>4, <2>1, SMT
    <2>4. o.symbol <= Width(o)
      BY <1>4, <2>1, <2>2, <2>3, SMT
    <2> QED
      BY <1>3, <1>4, <2>1, <2>2, <2>3, <2>4, SMT
  <1>6. o.kind = "header" => Width(o) = o.extra1
    BY <1>1, <1>2, <1>4, SMT
  <1>7. o.kind = "symbol" => Width(o) = o.symbol
    BY <1>1, <1>2, <1>4, SMT
  <1>8. o.kind = "copy" => Width(o) = 0
    BY <1>1, <1>2, <1>4, SMT
  <1>9. HasMemento(o) \/ o.kind \in {"header", "symbol", "copy"}
    BY <1>1 DEF HasMemento
  <1> QED
    BY <1>1, <1>5, <1>6, <1>7, <1>8, <1>9 DEF MaxCodeLength, MaxExtraBits

LEMMA RemainderIs ==
  ASSUME NEW r \in BrotliBitReader, NEW o, WellFormed(o), ~SafeOutcome(r, o).ok
  PROVE  LET p == Remainder(r, o)
         IN  /\ WellFormed(p)
             /\ Width(p) = Width(o) /\ p.symbol = o.symbol
             /\ HasMemento(p) <=> HasMemento(o)
  <1>1. CASE o.kind # "copy"
    BY <1>1 DEF Remainder
  <1>2. CASE o.kind = "copy"
    <2> DEFINE n == CopyNow(r, o)
               p == [o EXCEPT !.bytes = @ - n]
    <2>1. GetRemainingBytes(r) \in Nat
      BY ReaderFields, ReaderArithmetic, SMT DEF GetRemainingBytes
    <2>2. n # o.bytes
      BY <1>2 DEF SafeOutcome, HasMemento
    <2>3. o.bytes \in Nat /\ n \in Nat /\ n < o.bytes
      BY <1>2, <2>1, <2>2, Widths, SMT DEF CopyNow
    <2>4. o \in Operand
      BY DEF WellFormed
    <2> HIDE DEF n
    <2>5. p \in Operand /\ p.bytes > 0
      BY <2>3, <2>4, SMT DEF Operand
    <2>6. /\ p.kind = o.kind /\ p.symbol = o.symbol /\ p.second = o.second
          /\ p.extra1 = o.extra1 /\ p.extra2 = o.extra2
      BY <2>4 DEF Operand
    <2>7. Width(p) = Width(o) /\ WidestRead(p) = WidestRead(o)
      BY <2>6 DEF Width, WidestRead
    <2>8. (HasMemento(p) <=> HasMemento(o)) /\ (InCommands(p) <=> InCommands(o))
      BY <2>6 DEF HasMemento, InCommands
    <2>9. WellFormed(p)
      BY <1>2, <2>5, <2>6, <2>7, <2>8 DEF WellFormed
    <2>10. Remainder(r, o) = p
      BY <1>2 DEF Remainder, n
    <2> QED
      BY <2>6, <2>7, <2>8, <2>9, <2>10
  <1> QED
    BY <1>1, <1>2

\* A safe read gives the bits it is for, or is undone for want of extra bits, or has
\* taken in all there is and keeps it.
LEMMA SafeOutcomeIs ==
  ASSUME NEW r \in BrotliBitReader, NEW o, WellFormed(o)
  PROVE  LET t == SafeOutcome(r, o)
         IN  /\ Ahead(r, t.br)
             /\ t.ok => BitPosition(t.br) >= BitPosition(r) + Width(o)
             /\ ~t.ok => \/ /\ HasMemento(o) /\ t.br = r
                            /\ o.symbol <= Bits(r) /\ Width(o) > Bits(r)
                         \/ /\ t.br.avail_in = 0
                            /\ GetAvailableBits(t.br) < 8 \/ Width(o) > Bits(t.br)
                            /\ HasMemento(o) => o.symbol > Bits(r)
  <1> DEFINE t == SafeOutcome(r, o)
  <1>1. 0 \in Nat /\ Width(o) \in Nat /\ Bits(r) \in Int /\ BitPosition(r) \in Int
    BY Widths, ReaderArithmetic, SMT
  <1>2. ASSUME o.kind \in {"header", "symbol"}, ReadsExactly(r, t, Width(o)), ~HasMemento(o)
        PROVE  /\ Ahead(r, t.br)
               /\ t.ok => BitPosition(t.br) >= BitPosition(r) + Width(o)
               /\ ~t.ok => t.br.avail_in = 0 /\ Width(o) > Bits(t.br)
    <2>1. CASE t.ok
      <3>1. Advanced(r, t.br, Width(o))
        BY <1>2, <2>1 DEF ReadsExactly
      <3>2. Ahead(r, t.br) /\ BitPosition(t.br) = BitPosition(r) + Width(o)
        BY <1>1, <3>1, AdvancedIsAhead
      <3> QED
        BY <1>1, <2>1, <3>2, SMT
    <2>2. CASE ~t.ok
      <3>1. Advanced(r, t.br, 0) /\ t.br.avail_in = 0 /\ Width(o) > Bits(r)
        BY <1>2, <2>2 DEF ReadsExactly
      <3>2. Ahead(r, t.br)
        BY <1>1, <3>1, AdvancedIsAhead
      <3>3. t.br \in BrotliBitReader /\ Bits(t.br) <= Bits(r)
        BY <3>2, AheadBits
      <3>4. Width(o) > Bits(t.br)
        BY <1>1, <3>1, <3>3, ReaderArithmetic, SMT
      <3> QED
        BY <2>2, <3>1, <3>2, <3>4
    <2> QED
      BY <2>1, <2>2
  <1>3. CASE o.kind = "header"
    <2>1. t = SafeReadBits(r, o.extra1) /\ ~HasMemento(o)
      BY <1>3 DEF SafeOutcome, HasMemento
    <2>2. ReadsExactly(r, t, Width(o))
      BY <1>3, <2>1, Widths, SafeReadBitsIs
    <2> QED
      BY <1>2, <1>3, <2>1, <2>2
  <1>4. CASE o.kind = "symbol"
    <2>1. t = SafeReadSymbol(r, o.symbol) /\ ~HasMemento(o)
      BY <1>4 DEF SafeOutcome, HasMemento
    <2>2. ReadsExactly(r, t, Width(o))
      BY <1>4, <2>1, Widths, SafeReadSymbolIs
    <2> QED
      BY <1>2, <1>4, <2>1, <2>2
  <1>5. CASE HasMemento(o)
    <2>1. t = SafeReadCommand(r, o)
      BY <1>5 DEF SafeOutcome, HasMemento
    <2>2. CASE t.ok
      <3>1. Advanced(r, t.br, Width(o))
        BY <2>1, <2>2, SafeReadCommandIs
      <3>2. Ahead(r, t.br) /\ BitPosition(t.br) = BitPosition(r) + Width(o)
        BY <1>1, <3>1, AdvancedIsAhead
      <3> QED
        BY <1>1, <2>2, <3>2, SMT
    <2>3. CASE ~t.ok /\ t.br = r /\ Width(o) > Bits(r) /\ o.symbol <= Bits(r)
      <3>1. Ahead(r, t.br)
        BY <1>1, <2>3, AdvancedNot, AdvancedIsAhead
      <3> QED
        BY <1>5, <2>3, <3>1
    <2>4. CASE ~t.ok /\ Advanced(r, t.br, 0) /\ t.br.avail_in = 0 /\ o.symbol > Bits(r)
      <3>1. Ahead(r, t.br)
        BY <1>1, <2>4, AdvancedIsAhead
      <3>2. t.br \in BrotliBitReader /\ Bits(t.br) <= Bits(r)
        BY <3>1, AheadBits
      <3>3. Width(o) > Bits(t.br)
        BY <1>1, <2>4, <3>2, Widths, ReaderArithmetic, SMT
      <3> QED
        BY <2>4, <3>1, <3>3
    <2> QED
      BY <2>1, <2>2, <2>3, <2>4, SafeReadCommandIs
  <1>6. CASE o.kind = "copy"
    <2> DEFINE n == CopyNow(r, o)
    <2>1. GetRemainingBytes(r) \in Nat
      BY ReaderFields, ReaderArithmetic, SMT DEF GetRemainingBytes
    <2>2. /\ n \in Nat /\ n <= GetRemainingBytes(r)
          /\ n # o.bytes => n = GetRemainingBytes(r)
      BY <1>6, <2>1, Widths, SMT DEF CopyNow
    <2>3. t.ok = (n = o.bytes) /\ t.br = CopyBytes(r, n)
      BY <1>6 DEF SafeOutcome, HasMemento
    <2> HIDE DEF n
    <2>4. Advanced(r, t.br, 8 * n) /\ 8 * n \in Nat
      BY <2>2, <2>3, CopyIs, SMT
    <2>5. Ahead(r, t.br) /\ BitPosition(t.br) = BitPosition(r) + 8 * n
      BY <2>4, AdvancedIsAhead
    <2>6. BitPosition(t.br) >= BitPosition(r) + Width(o)
      BY <1>1, <1>6, <2>4, <2>5, Widths, SMT
    <2>7. ~t.ok => t.br.avail_in = 0 /\ GetAvailableBits(t.br) < 8
      BY <2>2, <2>3, CopyIs
    <2>8. ~HasMemento(o)
      BY <1>6 DEF HasMemento
    <2> QED
      BY <2>5, <2>6, <2>7, <2>8
  <1> QED
    BY <1>3, <1>4, <1>5, <1>6, Widths

-----------------------------------------------------------------------------
(* The inductive invariant *)

LessThanAByte == GetAvailableBits(br) < 8

\* Unread bits of the register that came before the first byte that the reader of
\* the chunk was given.
Behind == 8 * Fed - BitPosition(br)

\* A read with a memento whose symbol is there and whose extra bits are not.
HalfRead ==
  /\ HasMemento(op) /\ phase = "read"
  /\ op.symbol <= Bits(br)

\* The buffer holds the bytes that follow those of the register.
BufferedTail ==
  /\ br.avail_in = buffer_length
  /\ \A i \in Indices : i < buffer_length => buffer[i] = br.loaded + i

\* Reading from the caller's chunk.  What an earlier chunk left in the register is
\* less than a byte, or less than the read that is pending.
InSlice ==
  /\ buffer_length = 0
  /\ base + br.next_in = br.loaded
  /\ br.next_in + br.avail_in = input_offset + available_in
  /\ \/ Behind < 8
     \/ /\ result \in {Success, MoreInput} /\ phase \in {"read", "fast"}
        /\ Behind < Width(op)
  /\ result = MoreInput =>
       /\ phase = "read"
       /\ \/ HalfRead /\ Width(op) > Bits(br)
          \/ br.avail_in = 0 /\ (LessThanAByte \/ Width(op) > Bits(br))
  /\ phase = "fast" =>
       /\ result \notin {MoreInput, MoreOutput}
       /\ result = Success =>
            InCommands(op) /\ br.bit_pos <= 63 /\ Bits(br) >= budget + 57
  /\ phase = "done" => LessThanAByte /\ br.next_in = input_offset

\* Reading from the tail buffer, which holds one half-read operation: once it is
\* read, the buffer is empty.
InBuffer ==
  /\ buffer_length >= 1
  /\ br.loaded + br.avail_in = Fed
  /\ \A j \in Indices :
       buffer_length <= j /\ j < buffer_length + available_in =>
         buffer[j] = Fed + j - buffer_length
  /\ \/ br.avail_in = 0 /\ LessThanAByte /\ phase # "fast"
     \/ /\ br.next_in = 0 /\ BufferedTail /\ HalfRead
        /\ result \in {Success, MoreInput}
        /\ Width(op) > Bits(br) - (IF result = Success THEN 8 ELSE 0)

\* Between calls.
BetweenCalls ==
  /\ phase # "fast"
  /\ error_code = MoreInput => available_in = 0
  /\ IF buffer_length = 0
       THEN /\ Fed = br.loaded
            /\ \/ LessThanAByte
               \/ /\ error_code = MoreInput /\ phase = "read"
                  /\ Width(op) > GetAvailableBits(br)
       ELSE /\ br.loaded + br.avail_in = Fed
            /\ \/ br.avail_in = 0 /\ LessThanAByte
               \/ /\ error_code = MoreInput
                  /\ BufferedTail /\ HalfRead /\ Width(op) > Bits(br)

\* What holds in every state, an error returned or not.
Cursor ==
  /\ br.next_in >= 0 /\ input_offset >= 0
  /\ BitPosition(br) >= 0

InputInvariant ==
  /\ TypeOK
  /\ Cursor
  /\ IF calling THEN IF local_input = "xinput" THEN InSlice ELSE InBuffer
     ELSE IsFatal(error_code) \/ BetweenCalls
-----------------------------------------------------------------------------
(* How the state moves *)

LEMMA MovedSums ==
  ASSUME NEW r, NEW q, NEW b \in Int,
         r.next_in \in Int, r.avail_in \in Int, r.loaded \in Int,
         q.next_in \in Int, q.avail_in \in Int, q.loaded \in Int,
         q.next_in - r.next_in = q.loaded - r.loaded,
         q.avail_in + q.loaded = r.avail_in + r.loaded,
         b + r.next_in = r.loaded
  PROVE  /\ b + q.next_in = q.loaded
         /\ q.next_in + q.avail_in = r.next_in + r.avail_in
         /\ q.loaded >= r.loaded => q.next_in >= r.next_in
  BY SMT

\* A reader that moves on stays in step with the chunk it reads.
LEMMA AheadInSlice ==
  ASSUME NEW r \in BrotliBitReader, NEW q, Ahead(r, q), NEW b \in Nat,
         b + r.next_in = r.loaded, r.next_in >= 0, BitPosition(r) >= 0
  PROVE  /\ q \in BrotliBitReader
         /\ b + q.next_in = q.loaded /\ q.next_in >= 0
         /\ q.next_in + q.avail_in = r.next_in + r.avail_in
         /\ BitPosition(q) >= 0
         /\ 8 * b - BitPosition(q) <= 8 * b - BitPosition(r)
         /\ BitPosition(q) \in Int /\ BitPosition(r) \in Int
  <1>1. q \in BrotliBitReader
    BY DEF Ahead, Moved
  <1>2. BitPosition(q) \in Int /\ BitPosition(r) \in Int
    BY <1>1, ReaderArithmetic
  <1>3. /\ q.next_in - r.next_in = q.loaded - r.loaded
        /\ q.avail_in + q.loaded = r.avail_in + r.loaded
        /\ q.loaded >= r.loaded
    BY DEF Ahead, Moved
  <1>4. /\ q.next_in \in Int /\ q.avail_in \in Int /\ q.loaded \in Int
        /\ r.next_in \in Int /\ r.avail_in \in Int /\ r.loaded \in Int
    BY <1>1, ReaderFields
  <1>5. BitPosition(q) >= 0 /\ 8 * b - BitPosition(q) <= 8 * b - BitPosition(r)
    BY <1>2, SMT DEF Ahead
  <1>6. /\ b + q.next_in = q.loaded /\ q.next_in >= r.next_in
        /\ q.next_in + q.avail_in = r.next_in + r.avail_in
    BY <1>3, <1>4, MovedSums
  <1>7. q.next_in >= 0
    BY <1>4, <1>6, SMT
  <1> QED
    BY <1>1, <1>2, <1>5, <1>6, <1>7

\* What the decoder may do once a read has succeeded.
LEMMA ContinueIs ==
  ASSUME TypeOK, NEW r \in BrotliBitReader, NEW in \in {"read", "fast"},
         Running, phase = in, Continue(r, in)
  PROVE  /\ Ahead(r, br') /\ br' \in BrotliBitReader
         /\ GetAvailableBits(br') <= GetAvailableBits(r)
         /\ WellFormed(op') /\ ring' \in BOOLEAN
         /\ result' \in {Success, Padding, Failure}
         /\ phase' \in {"read", "write", "last", in}
         /\ phase' = "fast" /\ result' = Success => InCommands(op') /\ br' = r
  <1>1. Ahead(r, r) /\ GetAvailableBits(r) <= GetAvailableBits(r)
    <2>1. 0 \in Nat /\ Advanced(r, r, 0)
      BY AdvancedNot
    <2> QED
      BY <2>1, AdvancedIsAhead, ReaderArithmetic, SMT
  <1>2. WellFormed(op) /\ ring \in BOOLEAN /\ result = Success
    BY DEF TypeOK, Running
  <1>3. CASE \E o \in Operations, allocate, write \in BOOLEAN :
               /\ op' = o
               /\ ring' = (ring \/ allocate)
               /\ HasMemento(o) \/ o.kind = "copy" => ring'
               /\ write => ring /\ op.kind # "header"
               /\ phase' = IF write THEN "write"
                           ELSE IF InCommands(o) THEN in ELSE "read"
               /\ IF o.kind = "copy"
                    THEN /\ br' = JumpToByteBoundary(r)
                         /\ result' \in IF PadBitsCount(r) = 0 THEN {Success}
                                        ELSE {Success, Padding}
                    ELSE br' = r /\ result' = Success
    <2>1. PICK o \in Operations, allocate \in BOOLEAN, write \in BOOLEAN :
               /\ op' = o
               /\ ring' = (ring \/ allocate)
               /\ phase' = IF write THEN "write"
                           ELSE IF InCommands(o) THEN in ELSE "read"
               /\ IF o.kind = "copy"
                    THEN /\ br' = JumpToByteBoundary(r)
                         /\ result' \in IF PadBitsCount(r) = 0 THEN {Success}
                                        ELSE {Success, Padding}
                    ELSE br' = r /\ result' = Success
      BY <1>3
    <2>2. WellFormed(op') /\ ring' \in BOOLEAN
      BY <1>2, <2>1, OperationsAssumption
    <2>3. phase' \in {"read", "write", "last", in}
      BY <2>1
    <2>4. result' \in {Success, Padding, Failure}
      BY <2>1
    <2>5. Ahead(r, br') /\ GetAvailableBits(br') <= GetAvailableBits(r)
      <3>1. CASE o.kind = "copy"
        BY <2>1, <3>1, JumpIs
      <3>2. CASE o.kind # "copy"
        BY <1>1, <2>1, <3>2
      <3> QED
        BY <3>1, <3>2
    <2>6. br' \in BrotliBitReader
      BY <2>5 DEF Ahead, Moved
    <2>7. phase' = "fast" => InCommands(op') /\ br' = r
      <3>1. InCommands(o) => o.kind # "copy"
        BY DEF InCommands, HasMemento
      <3> QED
        BY <2>1, <3>1
    <2> QED
      BY <2>2, <2>3, <2>4, <2>5, <2>6, <2>7
  <1>4. CASE br' = r /\ phase' = "last" /\ UNCHANGED <<op, ring, result>>
    BY <1>1, <1>2, <1>4
  <1>5. CASE br' = r /\ result' = Failure /\ UNCHANGED <<op, phase, ring>>
    <2>1. Failure # Success
      BY DEF Failure, Success
    <2> QED
      BY <1>1, <1>2, <1>5, <2>1
  <1> QED
    BY <1>3, <1>4, <1>5 DEF Continue

\* The constants that name results are different strings.
LEMMA ResultsDiffer ==
  /\ MoreInput \notin {Success, MoreOutput, Failure, Padding}
  /\ MoreOutput \notin {Success, Failure, Padding}
  /\ Success \notin {Failure, Padding}
  /\ Results = {Success, MoreInput, MoreOutput, Failure, Padding}
  BY DEF Results, Success, MoreInput, MoreOutput, Failure, Padding

LEMMA InitInvariant == Init => InputInvariant
  <1> SUFFICES ASSUME Init PROVE InputInvariant
    OBVIOUS
  <1>1. br \in BrotliBitReader /\ br.next_in = 0 /\ br.loaded = 0 /\ br.avail_in = 0
        /\ GetAvailableBits(br) = 0 /\ BitPosition(br) = 0
    BY SMT DEF Init, InitBitReader, BrotliBitReader, RegBits, GetAvailableBits, BitPosition
  <1>2. FastBits \in Nat
    BY LengthsAssumption
  <1>3. TypeOK
    <2>1. WellFormed(op)
      BY OperationsAssumption DEF Init
    <2>2. buffer \in [Indices -> Nat]
      BY DEF Init
    <2>3. buffer_length \in 0 .. BufferSize /\ budget \in 0 .. FastBits
      BY <1>2, SMT DEF Init, BufferSize
    <2>4. base \in Nat /\ input_offset \in Int /\ available_in \in Nat
      BY SMT DEF Init
    <2> QED
      BY <1>1, <2>1, <2>2, <2>3, <2>4 DEF TypeOK, Init, Results
  <1>4. Cursor
    BY <1>1 DEF Cursor, Init
  <1>5. BetweenCalls
    BY <1>1, ResultsDiffer DEF BetweenCalls, Init, LessThanAByte, Fed
  <1> QED
    BY <1>3, <1>4, <1>5 DEF InputInvariant, Init

\* The chunk and the reader stay in step while the decoder reads from the chunk.
LEMMA SliceInStep ==
  ASSUME InputInvariant, calling, local_input = "xinput", UNCHANGED inputs, Ahead(br, br')
  PROVE  /\ Cursor' /\ br' \in BrotliBitReader
         /\ buffer_length' = 0
         /\ base' + br'.next_in = br'.loaded
         /\ br'.next_in + br'.avail_in = input_offset' + available_in'
         /\ Behind \in Int /\ Behind' \in Int
         /\ Behind' = Behind - (BitPosition(br') - BitPosition(br))
         /\ Behind' <= Behind
         /\ BitPosition(br) \in Int /\ BitPosition(br') \in Int
  <1>1. /\ br \in BrotliBitReader /\ base \in Nat
        /\ base + br.next_in = br.loaded
        /\ br.next_in >= 0 /\ BitPosition(br) >= 0 /\ input_offset >= 0
        /\ br.next_in + br.avail_in = input_offset + available_in
        /\ buffer_length = 0
    BY DEF InputInvariant, TypeOK, Cursor, InSlice
  <1>2. /\ br' \in BrotliBitReader
        /\ base + br'.next_in = br'.loaded /\ br'.next_in >= 0
        /\ br'.next_in + br'.avail_in = br.next_in + br.avail_in
        /\ BitPosition(br') >= 0
        /\ 8 * base - BitPosition(br') <= 8 * base - BitPosition(br)
        /\ BitPosition(br') \in Int /\ BitPosition(br) \in Int
    BY <1>1, AheadInSlice
  <1>3. /\ base' = base /\ input_offset' = input_offset
        /\ available_in' = available_in /\ buffer_length' = buffer_length
    BY DEF inputs
  <1>4. Cursor'
    BY <1>1, <1>2, <1>3 DEF Cursor
  <1>5. Behind' = 8 * Fed - BitPosition(br') /\ Behind = 8 * Fed - BitPosition(br)
    BY <1>3 DEF Behind, Fed
  <1>6. Fed \in Int /\ BitPosition(br') >= BitPosition(br)
    BY SMT DEF Fed, Ahead, InputInvariant, TypeOK
  <1>7. /\ Behind \in Int /\ Behind' \in Int
        /\ Behind' = Behind - (BitPosition(br') - BitPosition(br))
        /\ Behind' <= Behind
    BY <1>2, <1>5, <1>6, SMT
  <1> QED
    BY <1>1, <1>2, <1>3, <1>4, <1>7

\* TypeOK for a step that leaves the input side alone.
LEMMA DecoderTypes ==
  ASSUME TypeOK, UNCHANGED <<inputs, error_code, calling>>,
         br' \in BrotliBitReader, WellFormed(op'), budget' \in 0 .. FastBits,
         phase' \in {"read", "fast", "write", "last", "done"}, ring' \in BOOLEAN,
         result' \in Results
  PROVE  TypeOK'
  BY DEF TypeOK, inputs

\* After a successful read that gave all its bits, nothing of an earlier chunk is left
\* but bits of a byte that was begun.
LEMMA ReadInSlice ==
  ASSUME InputInvariant, Running, local_input = "xinput", phase \in {"read", "fast"},
         UNCHANGED inputs, Ahead(br, br'),
         BitPosition(br') >= BitPosition(br) + Width(op)
  PROVE  Behind' < 8
  <1>1. /\ Behind \in Int /\ Behind' \in Int
        /\ Behind' = Behind - (BitPosition(br') - BitPosition(br))
        /\ BitPosition(br) \in Int /\ BitPosition(br') \in Int
    BY SliceInStep DEF Running
  <1>2. Behind < 8 \/ Behind < Width(op)
    BY DEF InputInvariant, InSlice, Running
  <1>3. Width(op) \in Int /\ Width(op) >= 0
    BY Widths DEF InputInvariant, TypeOK
  <1> QED
    BY <1>1, <1>2, <1>3, SMT

LEMMA SafeReadInSlice ==
  ASSUME InputInvariant, SafeRead, local_input = "xinput"
  PROVE  InputInvariant'
  <1> DEFINE t == SafeOutcome(br, op)
  <1>1. /\ br \in BrotliBitReader /\ WellFormed(op) /\ TypeOK /\ InSlice
        /\ calling /\ result = Success /\ phase = "read" /\ Running
        /\ UNCHANGED inputs /\ UNCHANGED <<budget, error_code, calling>>
    BY DEF InputInvariant, TypeOK, SafeRead, Running
  <1>2. /\ Ahead(br, t.br)
        /\ t.ok => BitPosition(t.br) >= BitPosition(br) + Width(op)
    BY <1>1, SafeOutcomeIs
  <1>3. t.br \in BrotliBitReader
    BY <1>2 DEF Ahead, Moved
  <1>4. Width(op) \in Int /\ Width(op) >= 0
    BY <1>1, Widths
  <1>5. calling' /\ local_input' = "xinput" /\ budget' \in 0 .. FastBits
    BY <1>1 DEF inputs, TypeOK
  <1>6. CASE t.ok /\ Continue(t.br, "read")
    <2>1. /\ Ahead(t.br, br') /\ br' \in BrotliBitReader
          /\ WellFormed(op') /\ ring' \in BOOLEAN
          /\ result' \in {Success, Padding, Failure}
          /\ phase' \in {"read", "write", "last"}
      BY <1>1, <1>3, <1>6, ContinueIs
    <2>2. Ahead(br, br')
      BY <1>1, <1>2, <2>1, AheadTwice
    <2>3. BitPosition(br') >= BitPosition(br) + Width(op)
      BY <1>1, <1>2, <1>3, <1>4, <1>6, <2>1, ReaderArithmetic, SMT DEF Ahead
    <2>4. Behind' < 8
      BY <1>1, <2>2, <2>3, ReadInSlice
    <2>5. TypeOK'
      BY <1>1, <1>5, <2>1, ResultsDiffer, DecoderTypes
    <2>6. InSlice'
      BY <1>1, <1>5, <2>1, <2>2, <2>4, SliceInStep, ResultsDiffer DEF InSlice
    <2> QED
      BY <1>1, <1>5, <2>2, <2>5, <2>6, SliceInStep DEF InputInvariant
  <1>7. CASE /\ ~t.ok
             /\ br' = t.br /\ op' = Remainder(br, op)
             /\ result' = MoreInput
             /\ UNCHANGED <<phase, ring>>
    <2>1. /\ WellFormed(op') /\ Width(op') = Width(op) /\ op'.symbol = op.symbol
          /\ HasMemento(op') <=> HasMemento(op)
      BY <1>1, <1>7, RemainderIs
    <2>2. TypeOK'
      BY <1>1, <1>3, <1>5, <1>7, <2>1, ResultsDiffer, DecoderTypes DEF TypeOK
    <2>3. /\ Cursor' /\ buffer_length' = 0
          /\ base' + br'.next_in = br'.loaded
          /\ br'.next_in + br'.avail_in = input_offset' + available_in'
          /\ Behind \in Int /\ Behind' \in Int /\ Behind' <= Behind
      BY <1>1, <1>2, <1>7, SliceInStep
    <2>4. Behind' < 8 \/ Behind' < Width(op')
      BY <1>1, <1>4, <2>1, <2>3, SMT DEF InSlice
    <2>5. \/ HalfRead' /\ Width(op') > Bits(br')
          \/ br'.avail_in = 0 /\ (LessThanAByte' \/ Width(op') > Bits(br'))
      <3>1. CASE /\ HasMemento(op) /\ t.br = br
                 /\ op.symbol <= Bits(br) /\ Width(op) > Bits(br)
        BY <1>1, <1>7, <2>1, <3>1 DEF HalfRead
      <3>2. CASE /\ t.br.avail_in = 0
                 /\ GetAvailableBits(t.br) < 8 \/ Width(op) > Bits(t.br)
        BY <1>7, <2>1, <3>2 DEF LessThanAByte
      <3> QED
        BY <1>1, <1>7, <3>1, <3>2, SafeOutcomeIs
    <2>6. InSlice'
      BY <1>1, <1>7, <2>3, <2>4, <2>5 DEF InSlice
    <2> QED
      BY <1>5, <2>2, <2>3, <2>6 DEF InputInvariant
  <1> QED
    BY <1>6, <1>7 DEF SafeRead

\* In the buffer the reader holds less than a byte once the buffer is used up, and it
\* stays so while the decoder reads what is left.
LEMMA BufferDrained ==
  ASSUME InputInvariant, Running, local_input = "buffer", UNCHANGED inputs,
         Ahead(br, br'), br'.avail_in = 0, GetAvailableBits(br') < 8, phase' # "fast"
  PROVE  Cursor' /\ InBuffer'
  <1>1. /\ br \in BrotliBitReader /\ buffer_length >= 1
        /\ br.loaded + br.avail_in = Fed /\ input_offset >= 0 /\ BitPosition(br) >= 0
        /\ br.next_in >= 0
        /\ \A j \in Indices :
             buffer_length <= j /\ j < buffer_length + available_in =>
               buffer[j] = Fed + j - buffer_length
    BY DEF InputInvariant, TypeOK, Cursor, InBuffer, Running
  <1>2. br' \in BrotliBitReader
    BY DEF Ahead, Moved
  <1>3. /\ br'.next_in - br.next_in = br'.loaded - br.loaded
        /\ br'.avail_in + br'.loaded = br.avail_in + br.loaded
        /\ br'.loaded >= br.loaded
    BY DEF Ahead, Moved
  <1>4. br'.next_in >= 0
    BY <1>1, <1>2, <1>3, ReaderFields, SMT
  <1>5. BitPosition(br') >= 0
    BY <1>1, <1>2, ReaderArithmetic, SMT DEF Ahead
  <1>6. br'.loaded + br'.avail_in = Fed
    BY <1>1, <1>2, <1>3, ReaderFields, SMT
  <1>7. /\ buffer' = buffer /\ buffer_length' = buffer_length /\ Fed' = Fed
        /\ input_offset' = input_offset /\ available_in' = available_in
    BY DEF inputs, Fed
  <1>8. Cursor'
    BY <1>1, <1>4, <1>5, <1>7 DEF Cursor
  <1>9. InBuffer'
    BY <1>1, <1>6, <1>7 DEF InBuffer, LessThanAByte
  <1> QED
    BY <1>8, <1>9

LEMMA SafeReadInBuffer ==
  ASSUME InputInvariant, SafeRead, local_input = "buffer"
  PROVE  InputInvariant'
  <1> DEFINE t == SafeOutcome(br, op)
  <1>1. /\ br \in BrotliBitReader /\ WellFormed(op) /\ TypeOK /\ InBuffer
        /\ calling /\ result = Success /\ phase = "read" /\ Running
        /\ UNCHANGED inputs /\ UNCHANGED <<budget, error_code, calling>>
    BY DEF InputInvariant, TypeOK, SafeRead, Running
  <1>2. /\ Ahead(br, t.br)
        /\ t.ok => BitPosition(t.br) >= BitPosition(br) + Width(op)
    BY <1>1, SafeOutcomeIs
  <1>3. /\ t.br \in BrotliBitReader
        /\ Bits(t.br) = Bits(br) - (BitPosition(t.br) - BitPosition(br))
        /\ Bits(t.br) <= Bits(br) /\ t.br.avail_in <= br.avail_in
    BY <1>1, <1>2, AheadBits
  <1>4. /\ Width(op) \in Int /\ Width(op) >= 0
        /\ Bits(br) \in Int /\ BitPosition(br) \in Int
        /\ Bits(t.br) \in Int /\ BitPosition(t.br) \in Int
        /\ GetAvailableBits(t.br) \in Int /\ 0 <= GetAvailableBits(t.br)
        /\ Bits(t.br) = GetAvailableBits(t.br) + 8 * t.br.avail_in
        /\ GetAvailableBits(br) \in Int
        /\ Bits(br) = GetAvailableBits(br) + 8 * br.avail_in
        /\ t.br.avail_in \in Int /\ t.br.avail_in >= 0 /\ br.avail_in \in Int
    BY <1>1, <1>3, Widths, ReaderArithmetic, ReaderFields
  <1>5. calling' /\ local_input' = "buffer" /\ budget' \in 0 .. FastBits
    BY <1>1 DEF inputs, TypeOK
  <1>6. \* a read that is not undone uses the buffer up
        ASSUME t.ok \/ br.avail_in = 0
        PROVE  t.br.avail_in = 0 /\ GetAvailableBits(t.br) < 8
    <2>1. CASE br.avail_in = 0 /\ LessThanAByte
      <3>1. GetAvailableBits(br) < 8
        BY <2>1 DEF LessThanAByte
      <3>2. t.br.avail_in = 0
        BY <1>3, <1>4, <2>1, SMT
      <3>3. GetAvailableBits(t.br) < 8
        BY <1>3, <1>4, <2>1, <3>1, <3>2, SMT
      <3> QED
        BY <3>2, <3>3
    <2>2. CASE t.ok /\ Width(op) > Bits(br) - 8
      <3>1. Bits(t.br) < 8
        BY <1>2, <1>3, <1>4, <2>2, SMT
      <3>2. t.br.avail_in = 0
        BY <1>4, <3>1, SMT
      <3>3. GetAvailableBits(t.br) < 8
        BY <1>4, <3>1, <3>2, SMT
      <3> QED
        BY <3>2, <3>3
    <2>3. br.avail_in # 0 => Width(op) > Bits(br) - 8
      BY <1>1 DEF InBuffer
    <2>4. br.avail_in = 0 => LessThanAByte
      <3>1. BufferedTail => br.avail_in # 0
        BY <1>1, <1>4, SMT DEF BufferedTail, InBuffer
      <3> QED
        BY <1>1, <3>1 DEF InBuffer
    <2> QED
      BY <1>6, <2>1, <2>2, <2>3, <2>4
  <1>7. CASE t.ok /\ Continue(t.br, "read")
    <2>1. /\ Ahead(t.br, br') /\ br' \in BrotliBitReader
          /\ GetAvailableBits(br') <= GetAvailableBits(t.br)
          /\ WellFormed(op') /\ ring' \in BOOLEAN
          /\ result' \in {Success, Padding, Failure}
          /\ phase' \in {"read", "write", "last"}
      BY <1>1, <1>3, <1>7, ContinueIs
    <2>2. Ahead(br, br')
      BY <1>1, <1>2, <2>1, AheadTwice
    <2>3. br'.avail_in <= t.br.avail_in
      BY <1>3, <2>1, AheadBits
    <2>4. br'.avail_in = 0
      BY <1>6, <1>7, <2>1, <2>3, ReaderFields, SMT
    <2>5. GetAvailableBits(br') < 8
      BY <1>4, <1>6, <1>7, <2>1, ReaderArithmetic, SMT
    <2>6. TypeOK'
      BY <1>1, <1>5, <2>1, ResultsDiffer, DecoderTypes
    <2>7. Cursor' /\ InBuffer'
      BY <1>1, <2>1, <2>2, <2>4, <2>5, BufferDrained
    <2> QED
      BY <1>5, <2>6, <2>7 DEF InputInvariant
  <1>8. CASE /\ ~t.ok
             /\ br' = t.br /\ op' = Remainder(br, op)
             /\ result' = MoreInput
             /\ UNCHANGED <<phase, ring>>
    <2>1. /\ WellFormed(op') /\ Width(op') = Width(op) /\ op'.symbol = op.symbol
          /\ HasMemento(op') <=> HasMemento(op)
      BY <1>1, <1>8, RemainderIs
    <2>2. TypeOK'
      BY <1>1, <1>3, <1>5, <1>8, <2>1, ResultsDiffer, DecoderTypes DEF TypeOK
    <2>3. CASE br.avail_in = 0
      <3>1. br'.avail_in = 0 /\ GetAvailableBits(br') < 8
        BY <1>6, <1>8, <2>3
      <3>2. Cursor' /\ InBuffer'
        BY <1>1, <1>2, <1>8, <3>1, BufferDrained
      <3> QED
        BY <1>5, <2>2, <3>2 DEF InputInvariant
    <2>4. CASE br.avail_in # 0
      <3>1. br.next_in = 0 /\ BufferedTail /\ HalfRead
        BY <1>1, <2>4 DEF InBuffer
      <3>2. t.br = br /\ Width(op) > Bits(br)
        <4>1. ~(op.symbol > Bits(br)) /\ HasMemento(op)
          BY <1>1, <1>4, <3>1, Widths, SMT DEF HalfRead
        <4> QED
          BY <1>1, <1>8, <4>1, SafeOutcomeIs
      <3>3. br' = br
        BY <1>8, <3>2
      <3>4. Cursor'
        BY <1>1, <3>3 DEF Cursor, InputInvariant, inputs
      <3>5. BufferedTail' /\ HalfRead'
        <4>1. BufferedTail'
          BY <1>1, <3>1, <3>3 DEF BufferedTail, inputs
        <4>2. HalfRead'
          BY <1>8, <2>1, <3>1, <3>3 DEF HalfRead
        <4> QED
          BY <4>1, <4>2
      <3>6. Fed' = Fed
        BY <1>1 DEF Fed, inputs
      <3>7. InBuffer'
        <4>1. /\ buffer' = buffer /\ buffer_length' = buffer_length
              /\ available_in' = available_in
          BY <1>1 DEF inputs
        <4>2. Width(op') > Bits(br') - 0 /\ result' # Success
          BY <1>4, <1>8, <2>1, <3>2, <3>3, ResultsDiffer, SMT
        <4> QED
          BY <1>1, <1>8, <3>1, <3>3, <3>5, <3>6, <4>1, <4>2 DEF InBuffer
      <3> QED
        BY <1>5, <2>2, <3>4, <3>7 DEF InputInvariant
    <2> QED
      BY <2>3, <2>4
  <1> QED
    BY <1>7, <1>8 DEF SafeRead

LEMMA Lengths ==
  /\ CommandInput \in Nat /\ CommandInput > BufferSize
  /\ FastBits \in Nat /\ 8 * CommandInput >= FastBits + 57
  /\ BufferSize = 8
  BY LengthsAssumption, SMT DEF MaxCodeLength, MaxLengthBits, MaxExtraBits, BufferSize

\* The fast path runs on the caller's chunk only: the buffer is too small for it.
LEMMA FastInSlice ==
  ASSUME InputInvariant, calling,
         phase = "fast" \/ (result = Success /\ CheckInputAmount(br, CommandInput))
  PROVE  local_input = "xinput" /\ InSlice
  <1> SUFFICES ASSUME local_input # "xinput" PROVE FALSE
    BY DEF InputInvariant
  <1>1. InBuffer /\ br \in BrotliBitReader /\ buffer_length \in 0 .. BufferSize
    BY DEF InputInvariant, TypeOK
  <1>2. phase # "fast"
    BY <1>1 DEF InBuffer, HalfRead
  <1>3. br.avail_in = 0 \/ br.avail_in = buffer_length
    BY <1>1 DEF InBuffer, BufferedTail
  <1>4. br.avail_in >= CommandInput
    BY <1>2 DEF CheckInputAmount
  <1> QED
    BY <1>1, <1>3, <1>4, Lengths, SMT

LEMMA EnterFastKeeps ==
  ASSUME InputInvariant, EnterFast
  PROVE  InputInvariant'
  <1>1. /\ br \in BrotliBitReader /\ WellFormed(op) /\ TypeOK
        /\ calling /\ result = Success /\ phase = "read" /\ Running
        /\ InCommands(op) /\ CheckInputAmount(br, CommandInput)
        /\ br' = WarmupBitReader(br) /\ phase' = "fast" /\ budget' = FastBits
        /\ UNCHANGED <<op, ring, inputs, error_code, calling, result>>
    BY DEF InputInvariant, TypeOK, EnterFast, Running
  <1>2. local_input = "xinput" /\ InSlice
    BY <1>1, FastInSlice
  <1>3. br.avail_in >= CommandInput /\ br.avail_in > 0
    BY <1>1, Lengths, ReaderFields, SMT DEF CheckInputAmount
  <1>4. Advanced(br, br', 0) /\ br'.bit_pos <= 63 /\ 0 \in Nat /\ 0 \in Int
    BY <1>1, <1>3, WarmupIs
  <1>5. Ahead(br, br') /\ br' \in BrotliBitReader
    BY <1>1, <1>4, AdvancedIsAhead
  <1>6. Bits(br') = Bits(br) - 0
    BY <1>1, <1>4, AdvancedBits
  <1>7. Bits(br') >= budget' + 57
    BY <1>1, <1>3, <1>6, Lengths, ReaderArithmetic, ReaderFields, SMT
  <1>8. TypeOK'
    <2>1. budget' \in 0 .. FastBits
      BY <1>1, Lengths, SMT
    <2> QED
      BY <1>1, <1>5, <2>1, DecoderTypes DEF TypeOK
  <1>9. /\ Cursor' /\ buffer_length' = 0
        /\ base' + br'.next_in = br'.loaded
        /\ br'.next_in + br'.avail_in = input_offset' + available_in'
        /\ Behind \in Int /\ Behind' \in Int /\ Behind' <= Behind
    BY <1>1, <1>2, <1>5, SliceInStep
  <1>10. Width(op) \in Int
    BY <1>1, Widths
  <1>11. Behind' < 8 \/ Behind' < Width(op')
    BY <1>1, <1>2, <1>9, <1>10, SMT DEF InSlice
  <1>12. InSlice'
    BY <1>1, <1>4, <1>7, <1>9, <1>11, ResultsDiffer DEF InSlice
  <1> QED
    BY <1>1, <1>2, <1>8, <1>9, <1>12 DEF InputInvariant, inputs

\* With the budget the invariant keeps, a read of the fast path has its bits.
LEMMA FastReady ==
  ASSUME InputInvariant, Running, phase = "fast", Reserved(op) <= Allowance
  PROVE  /\ Bits(br) >= Allowance + 57 /\ Bits(br) >= Reserved(op) + 57
         /\ br.bit_pos <= 63 /\ InCommands(op)
         /\ Allowance \in 0 .. FastBits
         /\ FastInBounds(br, op)
         /\ \A q \in FastOutcomes(br, op) : Advanced(br, q, Width(op)) /\ q.bit_pos <= 63
  <1>1. /\ br \in BrotliBitReader /\ WellFormed(op) /\ budget \in 0 .. FastBits
        /\ calling /\ result = Success
    BY DEF InputInvariant, TypeOK, Running
  <1>2. InCommands(op) /\ br.bit_pos <= 63 /\ Bits(br) >= budget + 57
    BY <1>1, FastInSlice DEF InSlice
  <1>3. Bits(br) >= Allowance + 57 /\ Allowance \in 0 .. FastBits
    <2>1. CASE CheckInputAmount(br, CommandInput)
      <3>1. br.avail_in >= CommandInput /\ Allowance = FastBits
        BY <2>1 DEF CheckInputAmount, Allowance
      <3> QED
        BY <1>1, <3>1, Lengths, ReaderArithmetic, ReaderFields, SMT
    <2>2. CASE ~CheckInputAmount(br, CommandInput)
      BY <1>1, <1>2, <2>2 DEF Allowance
    <2> QED
      BY <2>1, <2>2
  <1>4. Reserved(op) \in Int
    BY <1>1, <1>2, FastWidths
  <1>5. Bits(br) >= Reserved(op) + 57
    BY <1>1, <1>3, <1>4, ReaderArithmetic, Lengths, SMT
  <1> QED
    BY <1>1, <1>2, <1>3, <1>5, FastReads

LEMMA WidestReads ==
  ASSUME NEW o, WellFormed(o), InCommands(o)
  PROVE  /\ WidestRead(o) \in Int /\ WidestRead(o) >= 0
         /\ WidestRead(o) <= Reserved(o) /\ Reserved(o) \in Int
         /\ Width(o) <= WidestRead(o)
  BY SMT DEF WellFormed, WidestRead, Reserved, MaxCodeLength, MaxLengthBits, MaxExtraBits

LEMMA FastReadKeeps ==
  ASSUME InputInvariant, FastRead
  PROVE  InputInvariant'
  <1>1. /\ br \in BrotliBitReader /\ WellFormed(op) /\ TypeOK
        /\ calling /\ result = Success /\ phase = "fast" /\ Running
        /\ Reserved(op) <= Allowance
        /\ budget' = IF phase' = "fast" THEN Allowance - WidestRead(op) ELSE 0
        /\ UNCHANGED inputs /\ UNCHANGED <<error_code, calling>>
    BY DEF InputInvariant, TypeOK, FastRead, Running
  <1>2. PICK r \in FastOutcomes(br, op) : Continue(r, "fast")
    BY DEF FastRead
  <1>3. local_input = "xinput" /\ InSlice
    BY <1>1, FastInSlice
  <1>4. /\ Bits(br) >= Allowance + 57 /\ Allowance \in 0 .. FastBits
        /\ Advanced(br, r, Width(op)) /\ r.bit_pos <= 63 /\ InCommands(op)
    BY <1>1, <1>2, FastReady
  <1>5. Width(op) \in Nat /\ Width(op) \in Int
    BY <1>1, Widths, SMT
  <1>6. /\ Ahead(br, r) /\ BitPosition(r) = BitPosition(br) + Width(op)
        /\ r \in BrotliBitReader /\ Bits(r) = Bits(br) - Width(op)
    BY <1>1, <1>4, <1>5, AdvancedIsAhead, AdvancedBits
  <1>7. /\ Ahead(r, br') /\ br' \in BrotliBitReader
        /\ WellFormed(op') /\ ring' \in BOOLEAN
        /\ result' \in {Success, Padding, Failure}
        /\ phase' \in {"read", "write", "last", "fast"}
        /\ phase' = "fast" /\ result' = Success => InCommands(op') /\ br' = r
    BY <1>1, <1>2, <1>6, ContinueIs
  <1>8. Ahead(br, br') /\ BitPosition(br') >= BitPosition(br) + Width(op)
    <2>1. BitPosition(br') >= BitPosition(r)
      BY <1>7 DEF Ahead
    <2> QED
      BY <1>1, <1>6, <1>7, <2>1, AheadTwice
  <1>9. Behind' < 8
    BY <1>1, <1>3, <1>8, ReadInSlice
  <1>10. budget' \in 0 .. FastBits
    <2>1. Allowance \in Int /\ Allowance <= FastBits
      BY <1>4, Lengths, SMT
    <2>2. Allowance - WidestRead(op) \in 0 .. FastBits
      BY <1>1, <1>4, <2>1, WidestReads, Lengths, SMT
    <2>3. 0 \in 0 .. FastBits
      BY Lengths, SMT
    <2> QED
      BY <1>1, <2>2, <2>3
  <1>11. phase' = "fast" /\ result' = Success => Bits(br') >= budget' + 57
    <2>1. Allowance \in Int
      BY <1>4, Lengths, SMT
    <2>2. Bits(r) >= Allowance - WidestRead(op) + 57
      BY <1>1, <1>4, <1>5, <1>6, <2>1, WidestReads, ReaderArithmetic, SMT
    <2> QED
      BY <1>1, <1>7, <2>2
  <1>12. TypeOK'
    BY <1>1, <1>7, <1>10, ResultsDiffer, DecoderTypes
  <1>13. /\ Cursor' /\ buffer_length' = 0
         /\ base' + br'.next_in = br'.loaded
         /\ br'.next_in + br'.avail_in = input_offset' + available_in'
    BY <1>1, <1>3, <1>8, SliceInStep
  <1>14. InSlice'
    BY <1>4, <1>7, <1>9, <1>11, <1>13, ResultsDiffer DEF InSlice
  <1> QED
    BY <1>1, <1>3, <1>12, <1>13, <1>14 DEF InputInvariant, inputs

\* Outside the retry of a half-read operation the buffer has nothing to offer.
LEMMA BufferIsEmpty ==
  ASSUME InputInvariant, calling, local_input = "buffer", ~HalfRead \/ br.avail_in = 0
  PROVE  br.avail_in = 0 /\ LessThanAByte /\ phase # "fast"
  <1>1. InBuffer /\ br \in BrotliBitReader /\ buffer_length \in 0 .. BufferSize
    BY DEF InputInvariant, TypeOK
  <1>2. BufferedTail => br.avail_in # 0
    BY <1>1, SMT DEF BufferedTail, InBuffer
  <1> QED
    BY <1>1, <1>2 DEF InBuffer

LEMMA FastCodeLengthKeeps ==
  ASSUME InputInvariant, FastCodeLength
  PROVE  InputInvariant'
  <1> DEFINE warm == WarmupBitReader(br)
             r == DropBits(FillBitWindow(warm, 17), op.extra1)
  <1>1. /\ br \in BrotliBitReader /\ WellFormed(op) /\ TypeOK
        /\ calling /\ result = Success /\ phase = "read" /\ Running
        /\ br.avail_in > 0 /\ op.kind = "header" /\ op.extra1 <= 8
        /\ warm.avail_in >= FillLoads(17)
        /\ Continue(r, "read")
        /\ UNCHANGED inputs /\ UNCHANGED <<budget, error_code, calling>>
    BY DEF InputInvariant, TypeOK, FastCodeLength, Running, ReadsCodeLength, CodeLengthBits,
           CheckInputAmount
  <1>2. local_input = "xinput" /\ InSlice
    <2>1. ~HalfRead
      BY <1>1 DEF HalfRead, HasMemento
    <2>2. br.avail_in # 0
      BY <1>1
    <2> QED
      BY <1>1, <2>1, <2>2, BufferIsEmpty DEF InputInvariant, TypeOK
  <1>3. Advanced(br, warm, 0) /\ warm.bit_pos <= 63
    BY <1>1, WarmupIs
  <1>4. Ahead(br, warm) /\ warm \in BrotliBitReader /\ BitPosition(warm) = BitPosition(br) + 0
    <2>1. 0 \in Nat
      OBVIOUS
    <2> QED
      BY <1>1, <1>3, <2>1, AdvancedIsAhead
  <1>5. /\ 17 \in 0 .. MaxExtraBits /\ op.extra1 \in 0 .. 17 /\ op.extra1 \in Nat
        /\ Width(op) = op.extra1
    <2>1. op.extra1 \in 0 .. MaxExtraBits /\ Width(op) = op.extra1
      BY <1>1, Widths DEF MaxExtraBits
    <2> QED
      BY <1>1, <2>1, SMT DEF MaxExtraBits
  <1>6. FillInBounds(warm, 17)
    BY <1>1 DEF FillInBounds
  <1>7. Advanced(warm, r, op.extra1) /\ r \in BrotliBitReader
    BY <1>3, <1>4, <1>5, <1>6, FilledFastReads
  <1>8. Ahead(warm, r) /\ BitPosition(r) = BitPosition(warm) + op.extra1
    BY <1>4, <1>5, <1>7, AdvancedIsAhead
  <1> HIDE DEF r, warm
  <1>9. /\ Ahead(r, br') /\ br' \in BrotliBitReader
        /\ WellFormed(op') /\ ring' \in BOOLEAN
        /\ result' \in {Success, Padding, Failure}
        /\ phase' \in {"read", "write", "last"}
    BY <1>1, <1>7, ContinueIs
  <1>10. Ahead(br, br')
    BY <1>1, <1>4, <1>7, <1>8, <1>9, AheadTwice
  <1>11. BitPosition(br') >= BitPosition(br) + Width(op)
    <2>1. BitPosition(br') >= BitPosition(r)
      BY <1>9 DEF Ahead
    <2> QED
      BY <1>1, <1>4, <1>5, <1>8, <2>1, ReaderArithmetic, SMT
  <1>12. Behind' < 8
    BY <1>1, <1>2, <1>10, <1>11, ReadInSlice
  <1>13. TypeOK'
    BY <1>1, <1>9, ResultsDiffer, DecoderTypes DEF TypeOK
  <1>14. /\ Cursor' /\ buffer_length' = 0
         /\ base' + br'.next_in = br'.loaded
         /\ br'.next_in + br'.avail_in = input_offset' + available_in'
    BY <1>1, <1>2, <1>10, SliceInStep
  <1>15. InSlice'
    BY <1>9, <1>12, <1>14, ResultsDiffer DEF InSlice
  <1> QED
    BY <1>1, <1>2, <1>13, <1>14, <1>15 DEF InputInvariant, inputs

LEMMA LeaveFastKeeps ==
  ASSUME InputInvariant, LeaveFast
  PROVE  InputInvariant'
  <1>1. /\ TypeOK /\ calling /\ result = Success /\ phase = "fast"
        /\ phase' = "read" /\ budget' = 0
        /\ UNCHANGED <<br, op, ring, inputs, error_code, calling, result>>
    BY DEF InputInvariant, LeaveFast, Running
  <1>2. local_input = "xinput" /\ InSlice
    BY <1>1, FastInSlice
  <1>3. TypeOK'
    <2>1. budget' \in 0 .. FastBits
      BY <1>1, Lengths, SMT
    <2> QED
      BY <1>1, <2>1, DecoderTypes DEF TypeOK
  <1>4. Cursor'
    BY <1>1 DEF InputInvariant, Cursor, inputs
  <1>5. Behind' = Behind
    BY <1>1 DEF Behind, Fed, inputs
  <1>6. InSlice'
    BY <1>1, <1>2, <1>5, ResultsDiffer DEF InSlice, inputs
  <1> QED
    BY <1>1, <1>2, <1>3, <1>4, <1>6 DEF InputInvariant, inputs

LEMMA WriteRingKeeps ==
  ASSUME InputInvariant, WriteRing
  PROVE  InputInvariant'
  <1>1. /\ TypeOK /\ calling /\ result = Success /\ phase = "write"
        /\ \/ phase' = "read" /\ result' = Success
           \/ phase' = "write" /\ result' = MoreOutput
        /\ UNCHANGED <<br, op, budget, ring, inputs, error_code, calling>>
    BY DEF InputInvariant, WriteRing, Running
  <1>2. TypeOK'
    BY <1>1, ResultsDiffer, DecoderTypes DEF TypeOK
  <1>3. Cursor'
    BY <1>1 DEF InputInvariant, Cursor, inputs
  <1>4. Behind' = Behind /\ Fed' = Fed
    BY <1>1 DEF Behind, Fed, inputs
  <1>5. CASE local_input = "xinput"
    <2>1. InSlice
      BY <1>1, <1>5 DEF InputInvariant
    <2>2. Behind < 8
      BY <1>1, <2>1 DEF InSlice
    <2>3. InSlice'
      BY <1>1, <1>4, <2>1, <2>2, ResultsDiffer DEF InSlice, inputs
    <2> QED
      BY <1>1, <1>2, <1>3, <1>5, <2>3 DEF InputInvariant, inputs
  <1>6. CASE local_input = "buffer"
    <2>1. InBuffer
      BY <1>1, <1>6 DEF InputInvariant
    <2>2. br.avail_in = 0 /\ LessThanAByte
      BY <1>1, <1>6, BufferIsEmpty DEF HalfRead
    <2>3. InBuffer'
      BY <1>1, <1>4, <2>1, <2>2 DEF InBuffer, inputs, LessThanAByte
    <2> QED
      BY <1>1, <1>2, <1>3, <1>6, <2>3 DEF InputInvariant, inputs
  <1> QED
    BY <1>1, <1>5, <1>6 DEF TypeOK

\* Unloading gives back to the chunk no more than it has given.
LEMMA UnloadInSlice ==
  ASSUME NEW r \in BrotliBitReader, NEW b \in Nat, b + r.next_in = r.loaded,
         BitPosition(r) >= 0, 8 * b - BitPosition(r) < 8
  PROVE  LET q == BitReaderUnload(r)
         IN  /\ q \in BrotliBitReader
             /\ b + q.next_in = q.loaded /\ q.next_in >= 0
             /\ BitPosition(q) >= 0 /\ 8 * b - BitPosition(q) < 8
             /\ GetAvailableBits(q) < 8
  <1> DEFINE q == BitReaderUnload(r)
  <1>1. /\ Moved(r, q) /\ q \in BrotliBitReader
        /\ BitPosition(q) = BitPosition(r)
        /\ GetAvailableBits(q) < 8
    BY UnloadIs
  <1> HIDE DEF q
  <1>2. /\ q.next_in - r.next_in = q.loaded - r.loaded
        /\ q.avail_in + q.loaded = r.avail_in + r.loaded
    BY <1>1 DEF Moved
  <1>3. /\ q.next_in \in Int /\ q.avail_in \in Int /\ q.loaded \in Int
        /\ r.next_in \in Int /\ r.avail_in \in Int /\ r.loaded \in Int /\ b \in Int
    BY <1>1, ReaderFields, SMT
  <1>4. b + q.next_in = q.loaded
    BY <1>2, <1>3, MovedSums
  <1>5. 8 * b - BitPosition(q) < 8 /\ BitPosition(q) >= 0
    BY <1>1
  <1>6. /\ BitPosition(q) = 8 * q.loaded - GetAvailableBits(q)
        /\ GetAvailableBits(q) \in Int /\ GetAvailableBits(q) >= 0
        /\ BitPosition(q) \in Int
    BY <1>1, ReaderArithmetic
  <1>7. q.next_in >= 0
    BY <1>3, <1>4, <1>5, <1>6, SMT
  <1> QED
    BY <1>1, <1>4, <1>5, <1>7 DEF q

\* The result of a call, or of the loop in it, after BROTLI_STATE_DONE.
LEMMA DoneIs ==
  ASSUME TypeOK, NEW code \in {Success, Padding}, calling, result = Success, Done(code)
  PROVE  \/ ~calling' /\ error_code' \in {Success, Padding} /\ result' = error_code'
         \/ calling' /\ error_code' = error_code /\ result' \in {MoreOutput, Failure}
  BY DEF Done, Return

LEMMA FinishTypes ==
  ASSUME TypeOK, br' \in BrotliBitReader, phase' = "done",
         \/ ~calling' /\ error_code' \in {Success, Padding} /\ result' = error_code'
         \/ calling' /\ error_code' = error_code /\ result' \in {MoreOutput, Failure},
         calling' \in BOOLEAN, input_offset' \in Int, available_in' \in Nat,
         UNCHANGED <<op, budget, ring, buffer, buffer_length, local_input, base>>
  PROVE  TypeOK'
  <1>1. result' \in Results /\ error_code' \in Results
    BY ResultsDiffer DEF TypeOK
  <1> QED
    BY <1>1 DEF TypeOK

LEMMA FinishLastKeeps ==
  ASSUME InputInvariant, NEW padding_ok \in BOOLEAN, FinishLast(padding_ok)
  PROVE  InputInvariant'
  <1> DEFINE parked == JumpToByteBoundary(br)
  <1>1. /\ TypeOK /\ br \in BrotliBitReader /\ base \in Nat
        /\ calling /\ result = Success /\ phase = "last" /\ Running
        /\ phase' = "done"
        /\ UNCHANGED <<op, budget, ring, buffer, buffer_length, local_input, base>>
        /\ BitPosition(br) >= 0 /\ br.next_in >= 0 /\ input_offset >= 0
        /\ available_in \in Nat /\ input_offset \in Int
    BY DEF InputInvariant, TypeOK, Cursor, FinishLast, Running
  <1>2. /\ Ahead(br, parked) /\ parked \in BrotliBitReader
        /\ GetAvailableBits(parked) <= GetAvailableBits(br)
    BY <1>1, JumpIs DEF Ahead, Moved
  <1>3. \/ ~calling' /\ error_code' \in {Success, Padding} /\ result' = error_code'
        \/ calling' /\ error_code' = error_code /\ result' \in {MoreOutput, Failure}
    <2>1. (IF padding_ok THEN Success ELSE Padding) \in {Success, Padding}
      OBVIOUS
    <2> QED
      BY <1>1, <2>1, DoneIs DEF FinishLast
  <1>4. calling' \in BOOLEAN
    BY <1>1 DEF FinishLast, Done, Return
  <1>5. CASE local_input = "xinput"
    <2>1. InSlice /\ buffer_length = 0 /\ base + br.next_in = br.loaded /\ Behind < 8
      BY <1>1, <1>5 DEF InputInvariant, InSlice
    <2>2. /\ br' = BitReaderUnload(parked)
          /\ available_in' = br'.avail_in /\ input_offset' = br'.next_in
      BY <2>1 DEF FinishLast, UnloadInto
    <2>3. /\ base + parked.next_in = parked.loaded
          /\ BitPosition(parked) >= 0
          /\ 8 * base - BitPosition(parked) <= 8 * base - BitPosition(br)
          /\ BitPosition(parked) \in Int /\ BitPosition(br) \in Int
      BY <1>1, <1>2, <2>1, AheadInSlice
    <2>4. 8 * base - BitPosition(parked) < 8
      BY <1>1, <2>1, <2>3, SMT DEF Behind, Fed
    <2>5. /\ br' \in BrotliBitReader
          /\ base + br'.next_in = br'.loaded /\ br'.next_in >= 0
          /\ BitPosition(br') >= 0 /\ 8 * base - BitPosition(br') < 8
          /\ GetAvailableBits(br') < 8
      BY <1>1, <1>2, <2>2, <2>3, <2>4, UnloadInSlice
    <2>6. TypeOK'
      <3>1. br'.next_in \in Int /\ br'.avail_in \in Nat
        BY <2>5, ReaderFields, SMT
      <3> QED
        BY <1>1, <1>3, <1>4, <2>2, <2>5, <3>1, FinishTypes
    <2>7. Cursor'
      BY <2>2, <2>5 DEF Cursor
    <2>8. Behind' < 8 /\ LessThanAByte' /\ Fed' = br'.loaded
      <3>1. LessThanAByte' /\ Fed' = br'.loaded
        BY <1>1, <2>2, <2>5 DEF LessThanAByte, Fed
      <3>2. Behind' = 8 * br'.loaded - BitPosition(br')
        BY <3>1 DEF Behind
      <3>3. Behind' < 8
        BY <2>5, <3>2, ReaderArithmetic, ReaderFields, SMT
      <3> QED
        BY <3>1, <3>3
    <2>9. CASE ~calling'
      <3>1. BetweenCalls'
        BY <1>1, <1>3, <2>1, <2>8, <2>9, ResultsDiffer DEF BetweenCalls
      <3> QED
        BY <2>6, <2>7, <2>9, <3>1 DEF InputInvariant
    <2>10. CASE calling'
      <3>1. InSlice'
        BY <1>1, <1>3, <2>1, <2>2, <2>5, <2>8, <2>10, ResultsDiffer DEF InSlice
      <3> QED
        BY <1>1, <1>5, <2>6, <2>7, <2>10, <3>1 DEF InputInvariant
    <2> QED
      BY <2>9, <2>10
  <1>6. CASE local_input = "buffer"
    <2>1. InBuffer /\ buffer_length # 0 /\ br.loaded + br.avail_in = Fed
      BY <1>1, <1>6, SMT DEF InputInvariant, InBuffer, TypeOK, BufferSize
    <2>2. br' = parked /\ UNCHANGED inputs
      BY <1>1, <2>1 DEF FinishLast, inputs
    <2>3. br.avail_in = 0 /\ LessThanAByte
      BY <1>1, <1>6, BufferIsEmpty DEF HalfRead
    <2>4. br'.avail_in = 0
      <3>1. parked.avail_in <= br.avail_in
        BY <1>1, <1>2, AheadBits
      <3> QED
        BY <1>2, <2>2, <2>3, <3>1, ReaderFields, SMT
    <2>5. GetAvailableBits(br') < 8
      BY <1>1, <1>2, <2>2, <2>3, ReaderArithmetic, SMT DEF LessThanAByte
    <2>6. Cursor' /\ InBuffer'
      BY <1>1, <1>2, <1>6, <2>2, <2>4, <2>5, BufferDrained
    <2>7. TypeOK'
      BY <1>1, <1>2, <1>3, <1>4, <2>2, FinishTypes DEF inputs
    <2>8. CASE ~calling'
      <3>1. BetweenCalls'
        BY <1>1, <1>3, <2>1, <2>4, <2>5, <2>6, <2>8, ResultsDiffer
           DEF BetweenCalls, LessThanAByte, InBuffer
      <3> QED
        BY <2>6, <2>7, <2>8, <3>1 DEF InputInvariant
    <2>9. CASE calling'
      BY <1>1, <1>6, <2>6, <2>7, <2>9 DEF InputInvariant
    <2> QED
      BY <2>8, <2>9
  <1> QED
    BY <1>1, <1>5, <1>6 DEF TypeOK

LEMMA StillDoneKeeps ==
  ASSUME InputInvariant, StillDone
  PROVE  InputInvariant'
  <1>1. /\ TypeOK /\ br \in BrotliBitReader
        /\ calling /\ result = Success /\ phase = "done"
        /\ UNCHANGED <<decoder, inputs>> /\ Done(Success)
    BY DEF InputInvariant, TypeOK, StillDone, Running
  <1>2. \/ ~calling' /\ error_code' \in {Success, Padding} /\ result' = error_code'
        \/ calling' /\ error_code' = error_code /\ result' \in {MoreOutput, Failure}
    BY <1>1, DoneIs
  <1>3. calling' \in BOOLEAN
    BY <1>1 DEF Done, Return
  <1>4. TypeOK' /\ Cursor'
    <2>1. TypeOK'
      BY <1>1, <1>2, <1>3, FinishTypes DEF TypeOK, decoder, inputs
    <2>2. Cursor'
      BY <1>1 DEF InputInvariant, Cursor, decoder, inputs
    <2> QED
      BY <2>1, <2>2
  <1>5. /\ br' = br /\ phase' = "done" /\ Fed' = Fed /\ Behind' = Behind
        /\ LessThanAByte' = LessThanAByte
        /\ UNCHANGED <<buffer, buffer_length, local_input, base, input_offset, available_in>>
    BY <1>1 DEF decoder, inputs, Fed, Behind, LessThanAByte
  <1>6. CASE local_input = "xinput"
    <2>1. /\ InSlice /\ buffer_length = 0 /\ base + br.next_in = br.loaded
          /\ LessThanAByte /\ br.next_in = input_offset /\ Behind < 8
      BY <1>1, <1>6 DEF InputInvariant, InSlice
    <2>2. Fed = br.loaded
      BY <2>1 DEF Fed
    <2>3. CASE ~calling'
      <3>1. BetweenCalls'
        BY <1>2, <1>5, <2>1, <2>2, <2>3, ResultsDiffer DEF BetweenCalls
      <3> QED
        BY <1>4, <2>3, <3>1 DEF InputInvariant
    <2>4. CASE calling'
      <3>1. InSlice'
        BY <1>2, <1>5, <2>1, <2>4, ResultsDiffer DEF InSlice
      <3> QED
        BY <1>4, <1>5, <1>6, <2>4, <3>1 DEF InputInvariant
    <2> QED
      BY <2>3, <2>4
  <1>7. CASE local_input = "buffer"
    <2>1. InBuffer /\ buffer_length # 0 /\ br.loaded + br.avail_in = Fed
      BY <1>1, <1>7, SMT DEF InputInvariant, InBuffer, TypeOK, BufferSize
    <2>2. br.avail_in = 0 /\ LessThanAByte
      BY <1>1, <1>7, BufferIsEmpty DEF HalfRead
    <2>3. CASE ~calling'
      <3>1. BetweenCalls'
        BY <1>2, <1>5, <2>1, <2>2, <2>3, ResultsDiffer DEF BetweenCalls
      <3> QED
        BY <1>4, <2>3, <3>1 DEF InputInvariant
    <2>4. CASE calling'
      <3>1. InBuffer'
        BY <1>2, <1>5, <2>1, <2>2, <2>4, ResultsDiffer DEF InBuffer
      <3> QED
        BY <1>4, <1>5, <1>7, <2>4, <3>1 DEF InputInvariant
    <2> QED
      BY <2>3, <2>4
  <1> QED
    BY <1>1, <1>6, <1>7 DEF TypeOK

LEMMA SwitchToInputKeeps ==
  ASSUME InputInvariant, SwitchToInput
  PROVE  InputInvariant'
  <1>1. /\ TypeOK /\ br \in BrotliBitReader /\ base \in Nat /\ available_in \in Nat
        /\ calling /\ result = MoreInput /\ buffer_length # 0 /\ br.avail_in = 0
        /\ buffer_length' = 0 /\ local_input' = "xinput"
        /\ br' = Offered(br, input_offset, available_in) /\ result' = Success
        /\ UNCHANGED <<op, phase, budget, ring, buffer, base, input_offset, available_in,
                       error_code, calling>>
        /\ input_offset \in Int /\ input_offset >= 0 /\ BitPosition(br) >= 0
    BY DEF InputInvariant, TypeOK, Cursor, SwitchToInput, ShortOfInput
  <1>2. local_input = "buffer" /\ InBuffer
    BY <1>1 DEF InputInvariant, InSlice, TypeOK
  <1>3. br.loaded + br.avail_in = Fed /\ LessThanAByte /\ phase # "fast"
    BY <1>1, <1>2, BufferIsEmpty DEF InBuffer
  <1>4. /\ br' \in BrotliBitReader
        /\ br'.next_in = input_offset /\ br'.avail_in = available_in
        /\ br'.loaded = br.loaded
        /\ GetAvailableBits(br') = GetAvailableBits(br)
        /\ BitPosition(br') = BitPosition(br)
    BY <1>1, OfferedIs
  <1>5. base + br'.next_in = br'.loaded
    BY <1>1, <1>3, <1>4, ReaderFields, SMT DEF Fed
  <1>6. Behind' < 8
    <2>1. Behind' = 8 * (base + input_offset) - BitPosition(br)
      BY <1>1, <1>4 DEF Behind, Fed
    <2>2. BitPosition(br) = 8 * br.loaded - GetAvailableBits(br) /\ GetAvailableBits(br) < 8
      BY <1>1, <1>3, ReaderArithmetic DEF LessThanAByte
    <2>3. br.loaded = base + input_offset
      BY <1>4, <1>5
    <2> QED
      BY <1>1, <2>1, <2>2, <2>3, ReaderArithmetic, ReaderFields, SMT
  <1>7. TypeOK'
    <2>1. buffer_length' \in 0 .. BufferSize
      BY <1>1, SMT DEF BufferSize
    <2> QED
      BY <1>1, <1>4, <2>1, ResultsDiffer DEF TypeOK
  <1>8. Cursor'
    BY <1>1, <1>4 DEF Cursor
  <1>9. InSlice'
    BY <1>1, <1>3, <1>4, <1>5, <1>6, ResultsDiffer DEF InSlice, LessThanAByte
  <1> QED
    BY <1>1, <1>7, <1>8, <1>9 DEF InputInvariant

\* While a half-read operation waits for more input there is room in the buffer.
LEMMA BufferHasRoom ==
  ASSUME NEW r \in BrotliBitReader, NEW o, WellFormed(o), Width(o) > Bits(r)
  PROVE  r.avail_in < BufferSize
  BY Widths, ReaderArithmetic, ReaderFields, SMT DEF BufferSize

\* What the buffer holds before it takes another byte.
LEMMA WaitingInBuffer ==
  ASSUME InputInvariant, ShortOfInput, buffer_length # 0, br.avail_in # 0
  PROVE  /\ local_input = "buffer" /\ InBuffer
         /\ br.next_in = 0 /\ BufferedTail /\ HalfRead /\ Width(op) > Bits(br)
         /\ buffer_length < BufferSize /\ buffer_length \in Nat
  <1>1. /\ TypeOK /\ br \in BrotliBitReader /\ WellFormed(op)
        /\ calling /\ result = MoreInput
    BY DEF InputInvariant, TypeOK, ShortOfInput
  <1>2. local_input = "buffer" /\ InBuffer
    BY <1>1 DEF InputInvariant, InSlice, TypeOK
  <1>3. br.next_in = 0 /\ BufferedTail /\ HalfRead
    BY <1>2 DEF InBuffer
  <1>4. Width(op) > Bits(br)
    <2>1. Width(op) > Bits(br) - 0
      BY <1>1, <1>2, ResultsDiffer DEF InBuffer
    <2> QED
      BY <1>1, <2>1, ReaderArithmetic, SMT
  <1>5. buffer_length < BufferSize
    BY <1>1, <1>3, <1>4, BufferHasRoom DEF BufferedTail
  <1>6. buffer_length \in Nat
    BY <1>1, SMT DEF TypeOK, BufferSize
  <1> QED
    BY <1>2, <1>3, <1>4, <1>5, <1>6

LEMMA TakeOneByteKeeps ==
  ASSUME InputInvariant, TakeOneByte
  PROVE  InputInvariant'
  <1>1. /\ TypeOK /\ br \in BrotliBitReader /\ base \in Nat /\ available_in \in Nat
        /\ calling /\ result = MoreInput /\ ShortOfInput
        /\ buffer_length # 0 /\ br.avail_in # 0 /\ available_in # 0
        /\ buffer_length' = buffer_length + 1
        /\ buffer' = [buffer EXCEPT ![buffer_length] = NewByte]
        /\ br' = Offered(br, br.next_in, buffer_length + 1)
        /\ input_offset' = input_offset + 1 /\ available_in' = available_in - 1
        /\ result' = Success
        /\ UNCHANGED <<op, phase, budget, ring, local_input, base, error_code, calling>>
        /\ input_offset \in Int /\ input_offset >= 0 /\ BitPosition(br) >= 0
        /\ buffer \in [Indices -> Nat] /\ WellFormed(op)
    BY DEF InputInvariant, TypeOK, Cursor, TakeOneByte, ShortOfInput
  <1>2. /\ local_input = "buffer" /\ InBuffer
        /\ br.next_in = 0 /\ BufferedTail /\ HalfRead /\ Width(op) > Bits(br)
        /\ buffer_length < BufferSize /\ buffer_length \in Nat
    BY <1>1, WaitingInBuffer
  <1>3. /\ br.loaded + buffer_length = Fed /\ br.loaded \in Int /\ Fed \in Int
        /\ \A i \in Indices : i < buffer_length => buffer[i] = br.loaded + i
        /\ br.avail_in = buffer_length
    BY <1>1, <1>2, ReaderFields DEF InBuffer, BufferedTail, Fed
  <1>4. /\ br' \in BrotliBitReader
        /\ br'.next_in = 0 /\ br'.avail_in = buffer_length + 1
        /\ br'.loaded = br.loaded
        /\ GetAvailableBits(br') = GetAvailableBits(br)
        /\ BitPosition(br') = BitPosition(br)
    <2>1. 0 \in Int /\ buffer_length + 1 \in Nat
      BY <1>2
    <2> QED
      BY <1>1, <1>2, <2>1, OfferedIs
  <1>5. NewByte = Fed /\ Fed \in Nat
    BY <1>1, SMT DEF NewByte, Fed
  <1>6. buffer_length \in Indices /\ buffer_length + 1 \in 0 .. BufferSize
    BY <1>2, SMT DEF Indices, BufferSize
  <1>7. /\ buffer' \in [Indices -> Nat]
        /\ buffer'[buffer_length] = Fed
        /\ \A i \in Indices : i # buffer_length => buffer'[i] = buffer[i]
    BY <1>1, <1>5, <1>6
  <1>8. TypeOK'
    <2>1. input_offset' \in Int /\ available_in' \in Nat
      BY <1>1, SMT
    <2>2. buffer_length' \in 0 .. BufferSize
      BY <1>1, <1>6
    <2> QED
      BY <1>1, <1>4, <1>7, <2>1, <2>2, ResultsDiffer DEF TypeOK
  <1>9. Cursor'
    <2>1. br'.next_in >= 0 /\ input_offset' >= 0
      BY <1>1, <1>4, SMT
    <2> QED
      BY <1>1, <1>4, <2>1 DEF Cursor
  <1>10. Fed' = Fed + 1
    BY <1>1, SMT DEF Fed
  <1>11. BufferedTail'
    <2>1. br'.avail_in = buffer_length'
      BY <1>1, <1>4
    <2>2. ASSUME NEW i \in Indices, i < buffer_length + 1
          PROVE  buffer'[i] = br'.loaded + i
      <3>1. i \in Int
        BY SMT DEF Indices, BufferSize
      <3>2. CASE i = buffer_length
        BY <1>3, <1>4, <1>7, <3>2
      <3>3. CASE i # buffer_length
        <4>1. i < buffer_length
          BY <1>2, <2>2, <3>1, <3>3, SMT
        <4> QED
          BY <1>3, <1>4, <1>7, <3>3, <4>1
      <3> QED
        BY <3>2, <3>3
    <2> QED
      BY <1>1, <2>1, <2>2 DEF BufferedTail
  <1>12. Bits(br') = Bits(br) + 8 /\ Bits(br) \in Int
    <2>1. /\ Bits(br') = GetAvailableBits(br') + 8 * br'.avail_in
          /\ Bits(br) = GetAvailableBits(br) + 8 * br.avail_in
          /\ Bits(br) \in Int /\ GetAvailableBits(br) \in Int
      BY <1>1, <1>4, ReaderArithmetic
    <2>2. Bits(br') = GetAvailableBits(br) + 8 * (buffer_length + 1)
      BY <1>4, <2>1
    <2>3. Bits(br) = GetAvailableBits(br) + 8 * buffer_length
      BY <1>3, <2>1
    <2> QED
      BY <1>2, <2>1, <2>2, <2>3, SMT
  <1>13. Width(op) > Bits(br') - 8
    BY <1>1, <1>2, <1>12, Widths, SMT
  <1>14. HalfRead'
    <2>1. op.symbol <= Bits(br')
      BY <1>1, <1>2, <1>12, Widths, SMT DEF HalfRead
    <2> QED
      BY <1>1, <1>2, <2>1 DEF HalfRead
  <1>15. br'.loaded + br'.avail_in = Fed'
    <2>1. br'.loaded + br'.avail_in = br.loaded + (buffer_length + 1)
      BY <1>4
    <2>2. br.loaded + (buffer_length + 1) = br.loaded + buffer_length + 1
      BY <1>2, <1>3, SMT
    <2> QED
      BY <1>3, <1>10, <2>1, <2>2
  <1>16. \A j \in Indices :
           buffer_length' <= j /\ j < buffer_length' + available_in' =>
             buffer'[j] = Fed' + j - buffer_length'
    <2>1. SUFFICES ASSUME NEW j \in Indices,
                          buffer_length + 1 <= j,
                          j < buffer_length + 1 + (available_in - 1)
                   PROVE  buffer'[j] = Fed + 1 + j - (buffer_length + 1)
      BY <1>1, <1>10
    <2>2. j \in Int
      BY SMT DEF Indices, BufferSize
    <2>3. buffer_length <= j /\ j < buffer_length + available_in /\ j # buffer_length
      BY <1>1, <1>2, <2>1, <2>2, SMT
    <2>4. buffer'[j] = buffer[j] /\ buffer[j] = Fed + j - buffer_length
      BY <1>2, <1>7, <2>3 DEF InBuffer
    <2>5. Fed + j - buffer_length = Fed + 1 + j - (buffer_length + 1)
      BY <1>2, <1>3, <2>2, SMT
    <2> QED
      BY <2>4, <2>5
  <1>17. InBuffer'
    <2>1. buffer_length' >= 1
      BY <1>1, <1>2, SMT
    <2> QED
      BY <1>1, <1>4, <1>11, <1>13, <1>14, <1>15, <1>16, <2>1 DEF InBuffer
  <1> QED
    BY <1>1, <1>2, <1>8, <1>9, <1>17 DEF InputInvariant

LEMMA GiveUpKeeps ==
  ASSUME InputInvariant, GiveUp
  PROVE  InputInvariant'
  <1>1. /\ TypeOK /\ calling /\ ShortOfInput
        /\ buffer_length # 0 /\ br.avail_in # 0 /\ available_in = 0
        /\ calling' = FALSE /\ error_code' = MoreInput /\ result' = MoreInput
        /\ UNCHANGED <<decoder, inputs>>
    BY DEF InputInvariant, GiveUp, ShortOfInput, Return
  <1>2. /\ InBuffer /\ BufferedTail /\ HalfRead /\ Width(op) > Bits(br)
    BY <1>1, WaitingInBuffer
  <1>3. /\ br' = br /\ op' = op /\ phase' = phase /\ buffer' = buffer
        /\ buffer_length' = buffer_length /\ available_in' = available_in
        /\ BufferedTail' = BufferedTail /\ HalfRead' = HalfRead /\ Fed' = Fed
    BY <1>1 DEF decoder, inputs, BufferedTail, HalfRead, Fed
  <1>4. TypeOK'
    BY <1>1, ResultsDiffer DEF TypeOK, decoder, inputs
  <1>5. Cursor'
    BY <1>1 DEF InputInvariant, Cursor, decoder, inputs
  <1>6. BetweenCalls'
    BY <1>1, <1>2, <1>3 DEF BetweenCalls, InBuffer, HalfRead
  <1> QED
    BY <1>1, <1>4, <1>5, <1>6 DEF InputInvariant

LEMMA SaveTailKeeps ==
  ASSUME InputInvariant, SaveTail
  PROVE  InputInvariant'
  <1>1. /\ TypeOK /\ br \in BrotliBitReader /\ base \in Nat /\ WellFormed(op)
        /\ calling /\ result = MoreInput /\ buffer_length = 0
        /\ buffer' = [i \in Indices |->
                        IF i < br.avail_in THEN base + br.next_in + i ELSE buffer[i]]
        /\ buffer_length' = br.avail_in
        /\ input_offset' = br.next_in + br.avail_in /\ available_in' = 0
        /\ calling' = FALSE /\ error_code' = MoreInput /\ result' = MoreInput
        /\ UNCHANGED <<br, op, phase, budget, ring, local_input, base>>
        /\ br.next_in >= 0 /\ BitPosition(br) >= 0
        /\ buffer \in [Indices -> Nat]
    BY DEF InputInvariant, TypeOK, Cursor, SaveTail, ShortOfInput, Return, decoder
  <1>2. InSlice
    BY <1>1, SMT DEF InputInvariant, InBuffer, TypeOK
  <1>3. /\ base + br.next_in = br.loaded /\ phase = "read"
        /\ \/ HalfRead /\ Width(op) > Bits(br)
           \/ br.avail_in = 0 /\ (LessThanAByte \/ Width(op) > Bits(br))
    BY <1>1, <1>2 DEF InSlice
  <1>4. /\ br.next_in \in Int /\ br.avail_in \in Nat /\ br.loaded \in Nat /\ base \in Int
        /\ 0 <= br.avail_in
    BY <1>1, ReaderFields, SMT
  <1>5. br.avail_in \in 0 .. BufferSize
    <2>1. CASE Width(op) > Bits(br)
      BY <1>1, <1>4, <2>1, BufferHasRoom, SMT DEF BufferSize
    <2>2. CASE br.avail_in = 0
      BY <2>2, SMT DEF BufferSize
    <2> QED
      BY <1>3, <2>1, <2>2
  <1>6. \A i \in Indices : i < br.avail_in => buffer'[i] = br.loaded + i
    BY <1>1, <1>3
  <1>7. buffer' \in [Indices -> Nat]
    <2>1. \A i \in Indices : br.loaded + i \in Nat
      BY <1>4, SMT DEF Indices, BufferSize
    <2>2. \A i \in Indices :
            (IF i < br.avail_in THEN base + br.next_in + i ELSE buffer[i]) \in Nat
      BY <1>1, <1>3, <2>1
    <2> QED
      BY <1>1, <2>2
  <1>8. Fed' = br.loaded + br.avail_in /\ input_offset' \in Int /\ input_offset' >= 0
    <2>1. Fed' = base + (br.next_in + br.avail_in)
      BY <1>1 DEF Fed
    <2>2. base + (br.next_in + br.avail_in) = base + br.next_in + br.avail_in
      BY <1>4, SMT
    <2>3. br.next_in + br.avail_in \in Int /\ br.next_in + br.avail_in >= 0
      BY <1>1, <1>4, SMT
    <2> QED
      BY <1>1, <1>3, <2>1, <2>2, <2>3
  <1>9. TypeOK'
    <2>1. available_in' \in Nat
      BY <1>1
    <2> QED
      BY <1>1, <1>5, <1>7, <1>8, <2>1, ResultsDiffer DEF TypeOK
  <1>10. Cursor'
    BY <1>1, <1>8 DEF Cursor
  <1>11. BetweenCalls'
    <2>1. CASE br.avail_in = 0
      <3>1. Fed' = br'.loaded
        BY <1>1, <1>4, <1>8, <2>1, SMT
      <3>2. LessThanAByte \/ Width(op) > GetAvailableBits(br)
        <4>1. Bits(br) = GetAvailableBits(br)
          BY <1>1, <2>1, ReaderArithmetic, SMT
        <4> QED
          BY <1>3, <4>1
      <3> QED
        BY <1>1, <1>3, <2>1, <3>1, <3>2 DEF BetweenCalls, LessThanAByte
    <2>2. CASE br.avail_in # 0
      <3>1. HalfRead' /\ Width(op) > Bits(br)
        BY <1>1, <1>3, <2>2 DEF HalfRead
      <3>2. BufferedTail'
        BY <1>1, <1>6 DEF BufferedTail
      <3> QED
        BY <1>1, <1>3, <1>8, <2>2, <3>1, <3>2 DEF BetweenCalls
    <2> QED
      BY <2>1, <2>2
  <1> QED
    BY <1>1, <1>9, <1>10, <1>11 DEF InputInvariant

LEMMA ForcedWriteFailsKeeps ==
  ASSUME InputInvariant, ForcedWriteFails
  PROVE  InputInvariant'
  <1>1. /\ TypeOK /\ calling' = FALSE /\ error_code' = Failure /\ result' = Failure
        /\ UNCHANGED <<decoder, inputs>>
    BY DEF InputInvariant, ForcedWriteFails, Return
  <1>2. TypeOK'
    BY <1>1, ResultsDiffer DEF TypeOK, decoder, inputs
  <1>3. Cursor'
    BY <1>1 DEF InputInvariant, Cursor, decoder, inputs
  <1> QED
    BY <1>1, <1>2, <1>3 DEF InputInvariant, IsFatal

LEMMA ReturnOtherKeeps ==
  ASSUME InputInvariant, ReturnOther
  PROVE  InputInvariant'
  <1>1. /\ TypeOK /\ br \in BrotliBitReader /\ base \in Nat
        /\ calling /\ result \in {MoreOutput, Failure, Padding}
        /\ calling' = FALSE /\ error_code' = result /\ result' = result
        /\ UNCHANGED <<op, phase, budget, ring, buffer, local_input, base>>
        /\ BitPosition(br) >= 0 /\ br.next_in >= 0 /\ input_offset >= 0
        /\ available_in \in Nat /\ input_offset \in Int
    BY ResultsDiffer DEF InputInvariant, TypeOK, Cursor, ReturnOther, Return
  <1>2. CASE local_input = "xinput"
    <2>1. InSlice /\ buffer_length = 0 /\ base + br.next_in = br.loaded /\ Behind < 8
      BY <1>1, <1>2, ResultsDiffer DEF InputInvariant, InSlice
    <2>2. /\ br' = BitReaderUnload(br)
          /\ available_in' = br'.avail_in /\ input_offset' = br'.next_in
          /\ buffer_length' = buffer_length
      BY <2>1 DEF ReturnOther, UnloadInto
    <2>3. 8 * base - BitPosition(br) < 8
      BY <1>1, <2>1, ReaderArithmetic, SMT DEF Behind, Fed
    <2>4. /\ br' \in BrotliBitReader
          /\ base + br'.next_in = br'.loaded /\ br'.next_in >= 0
          /\ BitPosition(br') >= 0
          /\ GetAvailableBits(br') < 8
      BY <1>1, <2>1, <2>2, <2>3, UnloadInSlice
    <2>5. br'.next_in \in Int /\ br'.avail_in \in Nat
      BY <2>4, ReaderFields, SMT
    <2>6. TypeOK'
      BY <1>1, <2>2, <2>4, <2>5, ResultsDiffer DEF TypeOK
    <2>7. Cursor'
      BY <2>2, <2>4 DEF Cursor
    <2>8. IsFatal(error_code') \/ BetweenCalls'
      <3>1. Fed' = br'.loaded /\ LessThanAByte'
        BY <1>1, <2>2, <2>4 DEF Fed, LessThanAByte
      <3>2. result = MoreOutput => phase # "fast"
        BY <2>1 DEF InSlice
      <3> QED
        BY <1>1, <2>1, <2>2, <3>1, <3>2, ResultsDiffer DEF IsFatal, BetweenCalls
    <2> QED
      BY <1>1, <2>6, <2>7, <2>8 DEF InputInvariant
  <1>3. CASE local_input = "buffer"
    <2>1. InBuffer /\ buffer_length # 0 /\ br.loaded + br.avail_in = Fed
      BY <1>1, <1>3, SMT DEF InputInvariant, InBuffer, TypeOK, BufferSize
    <2>2. br.avail_in = 0 /\ LessThanAByte /\ phase # "fast"
      BY <1>1, <2>1, ResultsDiffer DEF InBuffer
    <2>3. /\ buffer_length' = 0
          /\ UNCHANGED <<br, available_in, input_offset>>
      BY <2>1 DEF ReturnOther
    <2>4. TypeOK'
      <3>1. buffer_length' \in 0 .. BufferSize
        BY <2>3, SMT DEF BufferSize
      <3> QED
        BY <1>1, <2>3, <3>1, ResultsDiffer DEF TypeOK
    <2>5. Cursor'
      BY <1>1, <2>3 DEF Cursor
    <2>6. Fed' = br'.loaded
      <3>1. Fed' = Fed
        BY <1>1, <2>3 DEF Fed
      <3> QED
        BY <1>1, <2>1, <2>2, <2>3, <3>1, ReaderFields, SMT
    <2>7. IsFatal(error_code') \/ BetweenCalls'
      BY <1>1, <2>2, <2>3, <2>6, ResultsDiffer DEF IsFatal, BetweenCalls, LessThanAByte
    <2> QED
      BY <1>1, <2>4, <2>5, <2>7 DEF InputInvariant
  <1> QED
    BY <1>1, <1>2, <1>3 DEF TypeOK

LEMMA CallKeeps ==
  ASSUME InputInvariant, NEW n \in ChunkLengths, Call(n)
  PROVE  InputInvariant'
  <1>1. /\ TypeOK /\ br \in BrotliBitReader /\ base \in Nat /\ WellFormed(op)
        /\ ~calling /\ ~IsFatal(error_code) /\ BetweenCalls
        /\ calling' = TRUE
        /\ base' = Fed /\ input_offset' = 0 /\ available_in' = n
        /\ UNCHANGED <<op, phase, budget, ring, buffer_length, error_code>>
        /\ BitPosition(br) >= 0 /\ buffer \in [Indices -> Nat]
    BY DEF InputInvariant, TypeOK, Cursor, Call
  <1>2. n \in Nat /\ 0 \in Int /\ br.avail_in \in Nat
    BY <1>1, LengthsAssumption, ReaderFields, SMT
  <1>3. Fed \in Nat /\ Fed \in Int
    <2>1. input_offset \in Int /\ input_offset >= 0
      BY DEF InputInvariant, TypeOK, Cursor
    <2> QED
      BY <1>1, <2>1, SMT DEF Fed
  <1>4. Fed' = Fed
    BY <1>1, <1>3, SMT DEF Fed
  <1>5. buffer_length \in 0 .. BufferSize
    BY <1>1 DEF TypeOK
  <1>6. CASE /\ buffer_length = 0
             /\ local_input' = "xinput"
             /\ br' = Offered(br, 0, n)
             /\ result' = Success
             /\ UNCHANGED buffer
    <2>1. /\ br' \in BrotliBitReader
          /\ br'.next_in = 0 /\ br'.avail_in = n /\ br'.loaded = br.loaded
          /\ GetAvailableBits(br') = GetAvailableBits(br)
          /\ BitPosition(br') = BitPosition(br)
      BY <1>1, <1>2, <1>6, OfferedIs
    <2>2. TypeOK'
      BY <1>1, <1>2, <1>3, <1>6, <2>1, ResultsDiffer DEF TypeOK
    <2>3. Cursor'
      BY <1>1, <2>1 DEF Cursor
    <2>4. /\ Fed = br.loaded /\ phase # "fast"
          /\ \/ LessThanAByte
             \/ phase = "read" /\ Width(op) > GetAvailableBits(br)
      BY <1>1, <1>6 DEF BetweenCalls
    <2>5. base' + br'.next_in = br'.loaded
      BY <1>1, <1>3, <2>1, <2>4, SMT
    <2>6. br'.next_in + br'.avail_in = input_offset' + available_in'
      BY <1>1, <2>1
    <2>7. Behind' = GetAvailableBits(br)
      <3>1. Behind' = 8 * br.loaded - BitPosition(br)
        <4>1. Fed' = br.loaded
          BY <1>1, <2>4, SMT DEF Fed, TypeOK
        <4> QED
          BY <2>1, <4>1 DEF Behind
      <3> QED
        BY <1>1, <3>1, ReaderArithmetic, ReaderFields, SMT
    <2>8. \/ Behind' < 8
          \/ phase = "read" /\ Behind' < Width(op)
      <3>1. CASE LessThanAByte
        BY <2>7, <3>1 DEF LessThanAByte
      <3>2. CASE phase = "read" /\ Width(op) > GetAvailableBits(br)
        BY <1>1, <2>7, <3>2, Widths, ReaderArithmetic, SMT
      <3> QED
        BY <2>4, <3>1, <3>2
    <2>9. phase = "done" => LessThanAByte'
      BY <2>1, <2>4 DEF LessThanAByte
    <2>10. InSlice'
      BY <1>1, <1>6, <2>1, <2>4, <2>5, <2>6, <2>8, <2>9, ResultsDiffer DEF InSlice
    <2> QED
      BY <1>1, <1>6, <2>2, <2>3, <2>10 DEF InputInvariant
  <1>7. CASE /\ buffer_length # 0
             /\ local_input' = "buffer"
             /\ br' = Offered(br, 0, br.avail_in)
             /\ result' = MoreInput
             /\ buffer' = [i \in Indices |->
                             IF buffer_length <= i /\ i < buffer_length + n
                               THEN base' + i - buffer_length ELSE buffer[i]]
    <2>1. /\ br' \in BrotliBitReader
          /\ br'.next_in = 0 /\ br'.avail_in = br.avail_in /\ br'.loaded = br.loaded
          /\ GetAvailableBits(br') = GetAvailableBits(br)
          /\ BitPosition(br') = BitPosition(br)
      BY <1>1, <1>2, <1>7, OfferedIs
    <2>2. buffer' \in [Indices -> Nat]
      <3>1. ASSUME NEW i \in Indices
            PROVE  (IF buffer_length <= i /\ i < buffer_length + n
                      THEN base' + i - buffer_length ELSE buffer[i]) \in Nat
        <4>1. CASE buffer_length <= i /\ i < buffer_length + n
          <5>1. i \in Int /\ buffer_length \in Int
            BY <1>5, SMT DEF Indices, BufferSize
          <5>2. Fed + i - buffer_length \in Nat
            BY <1>3, <4>1, <5>1, SMT
          <5> QED
            BY <1>1, <4>1, <5>2
        <4>2. CASE ~(buffer_length <= i /\ i < buffer_length + n)
          BY <1>1, <4>2
        <4> QED
          BY <4>1, <4>2
      <3> QED
        BY <1>7, <3>1
    <2>3. TypeOK'
      BY <1>1, <1>2, <1>3, <1>7, <2>1, <2>2, ResultsDiffer DEF TypeOK
    <2>4. Cursor'
      BY <1>1, <2>1 DEF Cursor
    <2>5. /\ br.loaded + br.avail_in = Fed /\ phase # "fast"
          /\ \/ br.avail_in = 0 /\ LessThanAByte
             \/ BufferedTail /\ HalfRead /\ Width(op) > Bits(br)
      BY <1>1, <1>7 DEF BetweenCalls
    <2>6. \A j \in Indices :
            buffer_length <= j /\ j < buffer_length + n =>
              buffer'[j] = Fed + j - buffer_length
      BY <1>1, <1>7
    <2>7. buffer_length >= 1
      BY <1>5, <1>7, SMT DEF BufferSize
    <2>8. CASE br.avail_in = 0 /\ LessThanAByte
      BY <1>1, <1>4, <1>7, <2>1, <2>3, <2>4, <2>5, <2>6, <2>7, <2>8
         DEF InputInvariant, InBuffer, LessThanAByte
    <2>9. CASE BufferedTail /\ HalfRead /\ Width(op) > Bits(br)
      <3>1. Bits(br') = Bits(br) /\ Bits(br) \in Int
        BY <1>1, <2>1, ReaderArithmetic
      <3>2. HalfRead' /\ Width(op') > Bits(br') - 0
        BY <1>1, <2>9, <3>1, SMT DEF HalfRead
      <3>3. BufferedTail'
        <4>1. ASSUME NEW i \in Indices, i < buffer_length
              PROVE  buffer'[i] = br'.loaded + i
          <5>1. ~(buffer_length <= i)
            BY <1>5, <4>1, SMT DEF Indices, BufferSize
          <5>2. buffer'[i] = buffer[i]
            BY <1>7, <5>1
          <5> QED
            BY <2>1, <2>9, <4>1, <5>2 DEF BufferedTail
        <4> QED
          BY <1>1, <2>1, <2>9, <4>1 DEF BufferedTail
      <3>4. InBuffer'
        BY <1>1, <1>4, <1>7, <2>1, <2>5, <2>6, <2>7, <3>2, <3>3, ResultsDiffer DEF InBuffer
      <3> QED
        BY <1>1, <1>7, <2>3, <2>4, <3>4 DEF InputInvariant
    <2> QED
      BY <2>5, <2>8, <2>9
  <1> QED
    BY <1>6, <1>7 DEF Call

LEMMA CallAfterErrorKeeps ==
  ASSUME InputInvariant, CallAfterError
  PROVE  InputInvariant'
  <1>1. /\ TypeOK /\ ~calling /\ IsFatal(error_code) /\ result' = Failure
        /\ UNCHANGED <<decoder, inputs, error_code, calling>>
    BY DEF InputInvariant, CallAfterError
  <1>2. TypeOK'
    BY <1>1, ResultsDiffer DEF TypeOK, decoder, inputs
  <1>3. Cursor'
    BY <1>1 DEF InputInvariant, Cursor, decoder, inputs
  <1> QED
    BY <1>1, <1>2, <1>3 DEF InputInvariant

LEMMA StutterKeeps ==
  ASSUME InputInvariant, UNCHANGED vars
  PROVE  InputInvariant'
  <1>1. UNCHANGED <<br, op, phase, budget, ring, buffer, buffer_length, local_input, base,
                    input_offset, available_in, error_code, calling, result>>
    BY DEF vars, decoder, inputs
  <1>2. TypeOK' /\ Cursor'
    BY <1>1 DEF InputInvariant, TypeOK, Cursor
  <1>3. /\ Fed' = Fed /\ Behind' = Behind /\ LessThanAByte' = LessThanAByte
        /\ HalfRead' = HalfRead /\ BufferedTail' = BufferedTail
    BY <1>1 DEF Fed, Behind, LessThanAByte, HalfRead, BufferedTail
  <1>4. InSlice => InSlice'
    BY <1>1, <1>3 DEF InSlice
  <1>5. InBuffer => InBuffer'
    BY <1>1, <1>3 DEF InBuffer
  <1>6. BetweenCalls => BetweenCalls'
    BY <1>1, <1>3 DEF BetweenCalls
  <1> QED
    BY <1>1, <1>2, <1>4, <1>5, <1>6 DEF InputInvariant

LEMMA NextInvariant == InputInvariant /\ [Next]_vars => InputInvariant'
  <1> SUFFICES ASSUME InputInvariant, [Next]_vars PROVE InputInvariant'
    OBVIOUS
  <1>1. CASE \E n \in ChunkLengths : Call(n)
    BY <1>1, CallKeeps
  <1>2. CASE CallAfterError
    BY <1>2, CallAfterErrorKeeps
  <1>3. CASE SafeRead
    BY <1>3, SafeReadInSlice, SafeReadInBuffer DEF InputInvariant, TypeOK
  <1>4. CASE EnterFast
    BY <1>4, EnterFastKeeps
  <1>5. CASE FastRead
    BY <1>5, FastReadKeeps
  <1>6. CASE FastCodeLength
    BY <1>6, FastCodeLengthKeeps
  <1>7. CASE LeaveFast
    BY <1>7, LeaveFastKeeps
  <1>8. CASE WriteRing
    BY <1>8, WriteRingKeeps
  <1>9. CASE \E padding_ok \in BOOLEAN : FinishLast(padding_ok)
    BY <1>9, FinishLastKeeps
  <1>10. CASE StillDone
    BY <1>10, StillDoneKeeps
  <1>11. CASE SwitchToInput
    BY <1>11, SwitchToInputKeeps
  <1>12. CASE TakeOneByte
    BY <1>12, TakeOneByteKeeps
  <1>13. CASE GiveUp
    BY <1>13, GiveUpKeeps
  <1>14. CASE SaveTail
    BY <1>14, SaveTailKeeps
  <1>15. CASE ForcedWriteFails
    BY <1>15, ForcedWriteFailsKeeps
  <1>16. CASE ReturnOther
    BY <1>16, ReturnOtherKeeps
  <1>17. CASE UNCHANGED vars
    BY <1>17, StutterKeeps
  <1> QED
    BY <1>1, <1>2, <1>3, <1>4, <1>5, <1>6, <1>7, <1>8, <1>9, <1>10, <1>11, <1>12,
       <1>13, <1>14, <1>15, <1>16, <1>17 DEF Next, Step, Resolve

\* The inductive invariant holds in every state of every run.
THEOREM InvariantHolds == Spec => []InputInvariant
  BY InitInvariant, NextInvariant, PTL DEF Spec
-----------------------------------------------------------------------------
(* The properties of StreamInput *)

\* Every state of the decoder is of the right type.
THEOREM TypesHold == Spec => []TypeOK
  <1>1. InputInvariant => TypeOK
    BY DEF InputInvariant
  <1> QED
    BY <1>1, InvariantHolds, PTL

\* BrotliDecompressStream never loses, repeats or reorders a byte, whichever way the
\* caller cuts the stream and wherever the bytes are kept.
THEOREM BytesStayInOrder == Spec => []NextBytesInOrder
  <1>1. InputInvariant => NextBytesInOrder
    <2>1. SUFFICES ASSUME InputInvariant, calling, NEW i \in 0 .. br.avail_in - 1
                   PROVE  /\ local_input = "buffer" => br.next_in + i \in Indices
                          /\ ByteAt(br.next_in + i) = br.loaded + i
      BY DEF NextBytesInOrder
    <2>2. /\ br \in BrotliBitReader /\ base \in Int /\ local_input \in {"xinput", "buffer"}
          /\ buffer_length \in 0 .. BufferSize
      BY <2>1, SMT DEF InputInvariant, TypeOK
    <2>3. /\ br.next_in \in Int /\ br.avail_in \in Int /\ br.loaded \in Int
      BY <2>2, ReaderFields
    <2>4. i \in Int /\ 0 <= i /\ i < br.avail_in
      BY <2>3, SMT
    <2>5. CASE local_input = "xinput"
      <3>1. base + br.next_in = br.loaded
        BY <2>1, <2>5 DEF InputInvariant, InSlice
      <3>2. base + (br.next_in + i) = br.loaded + i
        BY <2>2, <2>3, <2>4, <3>1, SMT
      <3> QED
        BY <2>5, <3>2 DEF ByteAt
    <2>6. CASE local_input = "buffer"
      <3>1. br.next_in = 0 /\ BufferedTail
        BY <2>1, <2>3, <2>4, <2>6, SMT DEF InputInvariant, InBuffer
      <3>2. i \in Indices /\ i < buffer_length
        BY <2>2, <2>3, <2>4, <3>1, SMT DEF BufferedTail, Indices, BufferSize
      <3>3. br.next_in + i = i
        BY <2>4, <3>1, SMT
      <3> QED
        BY <2>6, <3>1, <3>2, <3>3 DEF ByteAt, BufferedTail
    <2> QED
      BY <2>2, <2>5, <2>6
  <1> QED
    BY <1>1, InvariantHolds, PTL

\* A read that runs out of input has used no bit.
LEMMA FailedReadKeeps ==
  ASSUME NEW r \in BrotliBitReader, NEW o, WellFormed(o), o.kind # "copy",
         ~SafeOutcome(r, o).ok
  PROVE  BitPosition(SafeOutcome(r, o).br) = BitPosition(r)
  <1> DEFINE t == SafeOutcome(r, o)
  <1>1. /\ o.symbol \in 0 .. MaxCodeLength /\ o.extra1 \in 0 .. MaxExtraBits
        /\ o.kind \in {"header", "symbol", "command", "switch", "distance"}
    BY DEF WellFormed, Operand
  <1>2. BitPosition(r) + 0 = BitPosition(r)
    BY ReaderArithmetic, SMT
  <1>3. t.br = r \/ Advanced(r, t.br, 0)
    <2>1. CASE o.kind = "header"
      <3>1. t = SafeReadBits(r, o.extra1)
        BY <2>1 DEF SafeOutcome, HasMemento
      <3>2. ReadsExactly(r, SafeReadBits(r, o.extra1), o.extra1)
        BY <1>1, SafeReadBitsIs
      <3> QED
        BY <3>1, <3>2 DEF ReadsExactly
    <2>2. CASE o.kind = "symbol"
      <3>1. t = SafeReadSymbol(r, o.symbol)
        BY <2>2 DEF SafeOutcome, HasMemento
      <3>2. ReadsExactly(r, SafeReadSymbol(r, o.symbol), o.symbol)
        BY <1>1, SafeReadSymbolIs
      <3> QED
        BY <3>1, <3>2 DEF ReadsExactly
    <2>3. CASE HasMemento(o)
      <3>1. t = SafeReadCommand(r, o)
        BY <2>3 DEF SafeOutcome, HasMemento
      <3> QED
        BY <3>1, SafeReadCommandIs
    <2> QED
      BY <1>1, <2>1, <2>2, <2>3 DEF HasMemento
  <1> QED
    BY <1>2, <1>3 DEF Advanced

\* The memento works: a read that has to be retried starts again where it began.
THEOREM RetriesKeepBits == Spec => RetryKeepsBits
  <1>1. InputInvariant /\ [Next]_vars =>
          [Running /\ result' = MoreInput /\ op.kind # "copy" =>
             BitPosition(br)' = BitPosition(br)]_vars
    <2>1. SUFFICES ASSUME InputInvariant, Next, Running, result' = MoreInput,
                          op.kind # "copy"
                   PROVE  BitPosition(br)' = BitPosition(br)
      BY Zenon
    <2>2. /\ br \in BrotliBitReader /\ WellFormed(op) /\ TypeOK
          /\ calling /\ result = Success /\ result # MoreInput
      BY <2>1, ResultsDiffer DEF InputInvariant, TypeOK, Running
    <2>3. ASSUME NEW r, NEW in
          PROVE  ~Continue(r, in)
      BY <2>1, <2>2, ResultsDiffer DEF Continue
    <2>4. ASSUME NEW code \in {Success, Padding}
          PROVE  ~Done(code)
      BY <2>1, <2>2, <2>4, ResultsDiffer, DoneIs
    <2>5. CASE SafeRead
      <3>1. ~SafeOutcome(br, op).ok /\ br' = SafeOutcome(br, op).br
        BY <2>3, <2>5 DEF SafeRead
      <3> QED
        BY <2>1, <2>2, <3>1, FailedReadKeeps DEF BitPosition, GetAvailableBits
    <2>6. ~FastRead /\ ~FastCodeLength
      BY <2>3 DEF FastRead, FastCodeLength
    <2>7. ~EnterFast /\ ~LeaveFast
      BY <2>1, <2>2 DEF EnterFast, LeaveFast
    <2>8. ~WriteRing
      BY <2>1, <2>2, ResultsDiffer DEF WriteRing
    <2>9. ~StillDone /\ \A padding_ok \in BOOLEAN : ~FinishLast(padding_ok)
      BY <2>4 DEF StillDone, FinishLast
    <2>10. ~Resolve
      BY <2>2 DEF Resolve, SwitchToInput, TakeOneByte, GiveUp, SaveTail, ForcedWriteFails,
                  ReturnOther, ShortOfInput
    <2>11. ~CallAfterError /\ \A n \in ChunkLengths : ~Call(n)
      BY <2>2 DEF CallAfterError, Call
    <2> QED
      BY <2>1, <2>5, <2>6, <2>7, <2>8, <2>9, <2>10, <2>11 DEF Next, Step
  <1> QED
    BY <1>1, InvariantHolds, PTL DEF Spec, RetryKeepsBits

\* Between calls the decoder holds exactly the bytes the caller was told it took.
THEOREM ConsumptionHolds == Spec => []ConsumedIsKept
  <1>1. InputInvariant => ConsumedIsKept
    <2>1. SUFFICES ASSUME InputInvariant, ~calling, ~IsFatal(error_code)
                   PROVE  LET tail == IF buffer_length = 0 THEN 0 ELSE br.avail_in
                          IN  /\ Fed = br.loaded + tail
                              /\ tail > 0 =>
                                   /\ tail = buffer_length
                                   /\ \A i \in 0 .. tail - 1 : buffer[i] = br.loaded + i
      BY DEF ConsumedIsKept
    <2>2. BetweenCalls /\ br \in BrotliBitReader /\ buffer_length \in 0 .. BufferSize
      BY <2>1 DEF InputInvariant, TypeOK
    <2>3. br.loaded \in Int /\ br.avail_in \in Int /\ 0 <= br.avail_in
      BY <2>2, ReaderFields
    <2>4. CASE buffer_length = 0
      BY <2>2, <2>3, <2>4 DEF BetweenCalls
    <2>5. CASE buffer_length # 0 /\ br.avail_in = 0
      BY <2>2, <2>3, <2>5 DEF BetweenCalls
    <2>6. CASE buffer_length # 0 /\ br.avail_in # 0
      <3>1. Fed = br.loaded + br.avail_in /\ BufferedTail
        BY <2>2, <2>6 DEF BetweenCalls
      <3>2. ASSUME NEW i \in 0 .. br.avail_in - 1
            PROVE  buffer[i] = br.loaded + i
        <4>1. i \in Indices /\ i < buffer_length
          BY <2>2, <2>3, <3>1, SMT DEF BufferedTail, Indices, BufferSize
        <4> QED
          BY <3>1, <4>1 DEF BufferedTail
      <3> QED
        BY <2>6, <3>1, <3>2 DEF BufferedTail
    <2> QED
      BY <2>4, <2>5, <2>6
  <1> QED
    BY <1>1, InvariantHolds, PTL

\* When the stream ends or the output is full the caller keeps every byte of which the
\* decoder has used no bit.
THEOREM ConsumptionIsExact == Spec => []ExactConsumption
  <1>1. InputInvariant => ExactConsumption
    <2>1. SUFFICES ASSUME InputInvariant, ~calling, error_code \in {Success, MoreOutput}
                   PROVE  8 * Fed - BitPosition(br) \in 0 .. 7
      BY DEF ExactConsumption
    <2>2. BetweenCalls /\ br \in BrotliBitReader
      BY <2>1, ResultsDiffer DEF InputInvariant, TypeOK, IsFatal
    <2>3. Fed = br.loaded /\ LessThanAByte
      <3>1. error_code # MoreInput
        BY <2>1, ResultsDiffer
      <3>2. CASE buffer_length = 0
        BY <2>2, <3>1, <3>2 DEF BetweenCalls
      <3>3. CASE buffer_length # 0
        <4>1. br.loaded + br.avail_in = Fed /\ br.avail_in = 0 /\ LessThanAByte
          BY <2>2, <3>1, <3>3 DEF BetweenCalls
        <4> QED
          BY <2>2, <4>1, ReaderFields, SMT
      <3> QED
        BY <3>2, <3>3
    <2>4. 8 * Fed - BitPosition(br) = GetAvailableBits(br)
      BY <2>2, <2>3, ReaderArithmetic, ReaderFields, SMT
    <2> QED
      BY <2>2, <2>3, <2>4, ReaderArithmetic, SMT DEF LessThanAByte
  <1> QED
    BY <1>1, InvariantHolds, PTL

\* The comment at the switch from the buffer to the chunk is right: the register then
\* holds less than a byte.
THEOREM SwitchIsSafe == Spec => []SwitchHoldsLessThanAByte
  <1>1. InputInvariant => SwitchHoldsLessThanAByte
    <2>1. SUFFICES ASSUME InputInvariant, ShortOfInput, buffer_length # 0, br.avail_in = 0
                   PROVE  GetAvailableBits(br) < 8
      BY DEF SwitchHoldsLessThanAByte
    <2>2. calling /\ local_input = "buffer"
      BY <2>1 DEF InputInvariant, InSlice, TypeOK, ShortOfInput
    <2> QED
      BY <2>1, <2>2, BufferIsEmpty DEF LessThanAByte
  <1> QED
    BY <1>1, InvariantHolds, PTL

\* The cursor of the caller's slice stays inside it.
THEOREM CursorStaysInside == Spec => []CursorInSlice
  <1>1. InputInvariant => CursorInSlice
    BY DEF InputInvariant, CursorInSlice, Cursor, InSlice
  <1> QED
    BY <1>1, InvariantHolds, PTL

\* The assertion on the upfront copy never fails and the buffer never overflows.
THEOREM BufferIsSafe == Spec => []BufferAssertion
  <1>1. InputInvariant => BufferAssertion
    <2>1. ASSUME InputInvariant, ShortOfInput, buffer_length # 0, br.avail_in # 0,
                 available_in # 0
          PROVE  buffer_length \in Indices /\ buffer[buffer_length] = NewByte
      <3>1. InBuffer /\ buffer_length < BufferSize /\ buffer_length \in Nat
        BY <2>1, WaitingInBuffer
      <3>2. available_in \in Nat /\ base \in Int /\ input_offset \in Int
        BY <2>1, SMT DEF InputInvariant, TypeOK
      <3>3. /\ buffer_length \in Indices
            /\ buffer_length <= buffer_length /\ buffer_length < buffer_length + available_in
        BY <2>1, <3>1, <3>2, SMT DEF Indices, BufferSize
      <3>4. buffer[buffer_length] = Fed + buffer_length - buffer_length
        BY <3>1, <3>3 DEF InBuffer
      <3>5. Fed + buffer_length - buffer_length = NewByte
        BY <3>1, <3>2, SMT DEF Fed, NewByte
      <3> QED
        BY <3>3, <3>4, <3>5
    <2>2. ASSUME InputInvariant, ShortOfInput, buffer_length = 0
          PROVE  br.avail_in <= BufferSize
      <3>1. /\ br \in BrotliBitReader /\ WellFormed(op) /\ calling /\ result = MoreInput
        BY <2>2 DEF InputInvariant, TypeOK, ShortOfInput
      <3>2. InSlice
        BY <2>2, <3>1, SMT DEF InputInvariant, InBuffer, TypeOK
      <3>3. Width(op) > Bits(br) \/ br.avail_in = 0
        BY <3>1, <3>2 DEF InSlice
      <3> QED
        BY <3>1, <3>3, BufferHasRoom, ReaderFields, SMT DEF BufferSize
    <2> QED
      BY <2>1, <2>2 DEF BufferAssertion
  <1> QED
    BY <1>1, InvariantHolds, PTL

\* The loads of the fast path stay inside the slice and never meet an empty register.
THEOREM FastPathIsSafe == Spec => []FastLoadsAreSound
  <1>1. InputInvariant => FastLoadsAreSound
    <2>1. SUFFICES ASSUME InputInvariant, Running
                   PROVE  /\ phase = "fast" =>
                               /\ br.bit_pos < RegBits
                               /\ Reserved(op) <= Allowance => FastInBounds(br, op)
                          /\ phase = "read" /\ br.avail_in > 0
                               /\ ReadsCodeLength(WarmupBitReader(br), op) =>
                             WarmupBitReader(br).bit_pos < RegBits
      BY DEF FastLoadsAreSound
    <2>2. br \in BrotliBitReader /\ calling /\ result = Success
      BY <2>1 DEF InputInvariant, TypeOK, Running
    <2>3. phase = "fast" => br.bit_pos < RegBits
      <3>1. phase = "fast" => br.bit_pos <= 63
        BY <2>1, <2>2, FastInSlice DEF InSlice
      <3> QED
        BY <2>2, <3>1, ReaderFields, SMT
    <2>4. phase = "fast" /\ Reserved(op) <= Allowance => FastInBounds(br, op)
      BY <2>1, FastReady
    <2>5. br.avail_in > 0 => WarmupBitReader(br).bit_pos < RegBits
      <3>1. ASSUME br.avail_in > 0
            PROVE  WarmupBitReader(br) \in BrotliBitReader /\ WarmupBitReader(br).bit_pos <= 63
        BY <2>2, <3>1, WarmupIs DEF Advanced, Moved
      <3> QED
        BY <3>1, ReaderFields, SMT
    <2> QED
      BY <2>3, <2>4, <2>5
  <1> QED
    BY <1>1, InvariantHolds, PTL

\* A call that asks for more input has taken all it was offered.
THEOREM MoreInputIsHonest == Spec => []MoreInputTookAll
  <1>1. InputInvariant => MoreInputTookAll
    BY ResultsDiffer DEF InputInvariant, BetweenCalls, MoreInputTookAll, IsFatal
  <1> QED
    BY <1>1, InvariantHolds, PTL
-----------------------------------------------------------------------------
(* The measure of the loop *)

\* Rank as a function of what it depends on.
RankOf(code, at, enough) ==
  IF code # Success THEN IF code = MoreInput THEN 1 ELSE 0
  ELSE CASE at = "write" -> 6
         [] at = "read" -> IF enough THEN 5 ELSE 3
         [] at = "fast" -> 4
         [] at \in {"last", "done"} -> 2

LEMMA RankValues ==
  ASSUME NEW code, NEW at, NEW enough \in BOOLEAN
  PROVE  /\ code = MoreInput => RankOf(code, at, enough) = 1
         /\ code \in {MoreOutput, Failure, Padding} => RankOf(code, at, enough) = 0
         /\ code = Success =>
              /\ at = "write" => RankOf(code, at, enough) = 6
              /\ at = "read" => RankOf(code, at, enough) = IF enough THEN 5 ELSE 3
              /\ at = "fast" => RankOf(code, at, enough) = 4
              /\ at \in {"last", "done"} => RankOf(code, at, enough) = 2
  <1>1. code = MoreInput => RankOf(code, at, enough) = 1
    BY ResultsDiffer DEF RankOf
  <1>2. code \in {MoreOutput, Failure, Padding} => RankOf(code, at, enough) = 0
    BY ResultsDiffer DEF RankOf
  <1>3. code = Success /\ at = "write" => RankOf(code, at, enough) = 6
    BY DEF RankOf
  <1>4. code = Success /\ at = "read" =>
          RankOf(code, at, enough) = IF enough THEN 5 ELSE 3
    BY DEF RankOf
  <1>5. code = Success /\ at = "fast" => RankOf(code, at, enough) = 4
    BY DEF RankOf
  <1>6. code = Success /\ at \in {"last", "done"} => RankOf(code, at, enough) = 2
    BY DEF RankOf
  <1> QED
    BY <1>1, <1>2, <1>3, <1>4, <1>5, <1>6

LEMMA RankIs ==
  /\ result = MoreInput => Rank = 1
  /\ result \in {MoreOutput, Failure, Padding} => Rank = 0
  /\ result = Success =>
       /\ phase = "write" => Rank = 6
       /\ phase = "read" => Rank \in {3, 5}
       /\ phase = "read" /\ CheckInputAmount(br, CommandInput) => Rank = 5
       /\ phase = "fast" => Rank = 4
       /\ phase \in {"last", "done"} => Rank = 2
  <1>1. CheckInputAmount(br, CommandInput) \in BOOLEAN
    BY DEF CheckInputAmount
  <1>2. Rank = RankOf(result, phase, CheckInputAmount(br, CommandInput))
    BY DEF Rank, RankOf
  <1> QED
    BY <1>1, <1>2, RankValues

LEMMA RankThen ==
  /\ result' = MoreInput => Rank' = 1
  /\ result' \in {MoreOutput, Failure, Padding} => Rank' = 0
  /\ result' = Success =>
       /\ phase' = "read" => Rank' \in {3, 5}
       /\ phase' = "read" /\ ~CheckInputAmount(br', CommandInput) => Rank' = 3
       /\ phase' = "fast" => Rank' = 4
  <1>1. CheckInputAmount(br', CommandInput) \in BOOLEAN
    BY DEF CheckInputAmount
  <1>2. Rank' = RankOf(result', phase', CheckInputAmount(br', CommandInput))
    BY DEF Rank, RankOf, CheckInputAmount
  <1> QED
    BY <1>1, <1>2, RankValues

\* A read takes at least a bit.
LEMMA ReadsTakeBits ==
  ASSUME NEW o, WellFormed(o), o.kind # "copy"
  PROVE  Width(o) >= 1
  <1>1. CASE o.kind = "header"
    <2>1. o.extra1 > 0
      BY <1>1 DEF WellFormed
    <2> QED
      BY <1>1, <2>1, Widths, SMT DEF MaxExtraBits
  <1>2. CASE o.kind # "header"
    <2>1. InCommands(o)
      BY <1>2 DEF WellFormed, Operand, InCommands, HasMemento
    <2>2. o.symbol > 0
      BY <2>1 DEF WellFormed
    <2> QED
      BY <2>2, Widths, SMT
  <1> QED
    BY <1>1, <1>2

\* A read that succeeds goes on in the stream, one that fails does not go back.
LEMMA OutcomeGains ==
  ASSUME NEW r \in BrotliBitReader, NEW o, WellFormed(o)
  PROVE  LET t == SafeOutcome(r, o)
         IN  /\ t.br \in BrotliBitReader
             /\ BitPosition(t.br) >= BitPosition(r)
             /\ t.ok => BitPosition(t.br) > BitPosition(r)
  <1> DEFINE t == SafeOutcome(r, o)
  <1>1. /\ Ahead(r, t.br)
        /\ t.ok => BitPosition(t.br) >= BitPosition(r) + Width(o)
    BY SafeOutcomeIs
  <1>2. t.br \in BrotliBitReader /\ BitPosition(t.br) >= BitPosition(r)
    BY <1>1 DEF Ahead, Moved
  <1>3. BitPosition(t.br) \in Int /\ BitPosition(r) \in Int /\ Width(o) \in Int
    BY <1>2, ReaderArithmetic, Widths
  <1>4. ASSUME t.ok, o.kind # "copy"
        PROVE  BitPosition(t.br) > BitPosition(r)
    BY <1>1, <1>3, <1>4, ReadsTakeBits, SMT
  <1>5. ASSUME t.ok, o.kind = "copy"
        PROVE  BitPosition(t.br) > BitPosition(r)
    <2> DEFINE n == CopyNow(r, o)
    <2>1. n = o.bytes /\ t.br = CopyBytes(r, n)
      BY <1>5 DEF SafeOutcome, HasMemento
    <2>2. n \in Nat /\ n > 0
      BY <1>5, <2>1, Widths DEF WellFormed
    <2>3. n <= GetRemainingBytes(r)
      <3>1. GetRemainingBytes(r) \in Int /\ o.bytes \in Int
        BY <1>5, ReaderFields, ReaderArithmetic, Widths, SMT DEF GetRemainingBytes
      <3> QED
        BY <3>1, SMT DEF CopyNow
    <2> HIDE DEF n
    <2>4. Advanced(r, t.br, 8 * n)
      BY <2>1, <2>2, <2>3, CopyIs
    <2>5. BitPosition(t.br) = BitPosition(r) + 8 * n
      BY <2>4 DEF Advanced
    <2> QED
      BY <1>3, <2>2, <2>5, SMT
  <1> QED
    BY <1>2, <1>4, <1>5

\* What follows a read does not go back before it.
LEMMA ContinueGains ==
  ASSUME TypeOK, NEW r \in BrotliBitReader, NEW in \in {"read", "fast"},
         Running, phase = in, Continue(r, in), BitPosition(r) > BitPosition(br)
  PROVE  MakesProgress
  <1>1. Ahead(r, br') /\ br' \in BrotliBitReader /\ br \in BrotliBitReader
    BY ContinueIs DEF TypeOK
  <1>2. BitPosition(br') >= BitPosition(r)
    BY <1>1 DEF Ahead
  <1>3. BitPosition(br') > BitPosition(br)
    BY <1>1, <1>2, ReaderArithmetic, SMT
  <1>4. BitPosition(br') = BitPosition(br)'
    BY DEF BitPosition, GetAvailableBits
  <1> QED
    BY <1>3, <1>4 DEF MakesProgress

\* The chunk has no more to try after the register gave its bytes back: they came
\* from this chunk, and from after what was consumed before.
LEMMA UnloadedIsNotMore ==
  ASSUME InputInvariant, calling, phase = "last", result = Success, buffer_length = 0,
         br' = BitReaderUnload(JumpToByteBoundary(br))
  PROVE  br'.avail_in <= available_in
  <1> DEFINE parked == JumpToByteBoundary(br)
  <1>1. /\ br \in BrotliBitReader /\ base \in Nat /\ input_offset \in Int
        /\ available_in \in Nat /\ BitPosition(br) >= 0 /\ br.next_in >= 0
    BY DEF InputInvariant, TypeOK, Cursor
  <1>2. local_input = "xinput" /\ InSlice /\ Behind < 8
    <2>1. local_input = "xinput"
      BY DEF InputInvariant, TypeOK, InBuffer
    <2> QED
      BY <2>1 DEF InputInvariant, InSlice
  <1>3. Ahead(br, parked) /\ parked \in BrotliBitReader
    BY <1>1, JumpIs DEF Ahead, Moved
  <1>4. /\ base + parked.next_in = parked.loaded
        /\ parked.next_in + parked.avail_in = br.next_in + br.avail_in
        /\ BitPosition(parked) >= BitPosition(br)
    BY <1>1, <1>2, <1>3, AheadInSlice DEF InSlice, Ahead
  <1>5. /\ Moved(parked, br') /\ br' \in BrotliBitReader
        /\ BitPosition(br') = BitPosition(parked)
        /\ GetAvailableBits(br') < 8
    <2>1. BitPosition(parked) >= 0
      BY <1>1, <1>3, <1>4, ReaderArithmetic, SMT
    <2> QED
      BY <1>3, <2>1, UnloadIs
  <1> HIDE DEF parked
  <1>6. /\ base + br'.next_in = br'.loaded
        /\ br'.next_in + br'.avail_in = parked.next_in + parked.avail_in
    BY <1>1, <1>3, <1>4, <1>5, ReaderFields, MovedSums DEF Moved
  <1>7. br'.next_in + br'.avail_in = input_offset + available_in
    BY <1>2, <1>4, <1>6 DEF InSlice
  <1>8. 8 * (base + input_offset) - BitPosition(br') < 8
    BY <1>1, <1>2, <1>3, <1>4, <1>5, ReaderArithmetic, SMT DEF Behind, Fed
  <1>9. BitPosition(br') = 8 * (base + br'.next_in) - GetAvailableBits(br')
    BY <1>5, <1>6, ReaderArithmetic
  <1>10. PICK next \in Int, avail \in Int, bits \in Int, pos \in Int :
           /\ next = br'.next_in /\ avail = br'.avail_in
           /\ bits = GetAvailableBits(br') /\ pos = BitPosition(br') /\ bits >= 0
    BY <1>5, ReaderArithmetic, ReaderFields
  <1>11. /\ 8 * (base + input_offset) - pos < 8 /\ pos = 8 * (base + next) - bits
         /\ next + avail = input_offset + available_in
    BY <1>7, <1>8, <1>9, <1>10
  <1>12. next >= input_offset
    BY <1>1, <1>10, <1>11, SMT
  <1>13. avail <= available_in
    BY <1>1, <1>11, <1>12, SMT
  <1> QED
    BY <1>10, <1>13

\* What is the same of the measure when the input side is the same.
LEMMA SameUntried ==
  ASSUME UNCHANGED inputs
  PROVE  Untried' = Untried
  BY DEF inputs, Untried

\* A step that reads nothing and takes nothing goes down in rank.
LEMMA RankDrops ==
  ASSUME UNCHANGED inputs, BitPosition(br') = BitPosition(br), Rank' < Rank
  PROVE  MakesProgress
  <1>1. BitPosition(br)' = BitPosition(br)
    BY DEF BitPosition, GetAvailableBits
  <1> QED
    BY <1>1, SameUntried DEF MakesProgress

LEMMA SafeReadProgress ==
  ASSUME InputInvariant, SafeRead
  PROVE  MakesProgress
  <1> DEFINE t == SafeOutcome(br, op)
  <1>1. /\ br \in BrotliBitReader /\ WellFormed(op) /\ TypeOK
        /\ result = Success /\ phase = "read" /\ Running /\ UNCHANGED inputs
    BY DEF InputInvariant, TypeOK, SafeRead, Running
  <1>2. /\ t.br \in BrotliBitReader
        /\ BitPosition(t.br) >= BitPosition(br)
        /\ t.ok => BitPosition(t.br) > BitPosition(br)
    BY <1>1, OutcomeGains
  <1>3. CASE t.ok /\ Continue(t.br, "read")
    BY <1>1, <1>2, <1>3, ContinueGains
  <1>4. CASE ~t.ok /\ br' = t.br /\ result' = MoreInput
    <2>1. BitPosition(br)' = BitPosition(br')
      BY DEF BitPosition, GetAvailableBits
    <2>2. Rank' < Rank
      <3>1. Rank' = 1
        BY <1>4, RankThen
      <3>2. Rank \in {3, 5}
        BY <1>1, RankIs
      <3> QED
        BY <3>1, <3>2, SMT
    <2>3. CASE BitPosition(br') = BitPosition(br)
      BY <1>1, <2>2, <2>3, RankDrops
    <2>4. CASE BitPosition(br') # BitPosition(br)
      <3>1. BitPosition(br') > BitPosition(br)
        BY <1>1, <1>2, <1>4, <2>4, ReaderArithmetic, SMT
      <3> QED
        BY <2>1, <3>1 DEF MakesProgress
    <2> QED
      BY <2>3, <2>4
  <1> QED
    BY <1>3, <1>4 DEF SafeRead

LEMMA FastReadProgress ==
  ASSUME InputInvariant, FastRead
  PROVE  MakesProgress
  <1>1. /\ br \in BrotliBitReader /\ WellFormed(op) /\ TypeOK
        /\ phase = "fast" /\ Running /\ Reserved(op) <= Allowance
    BY DEF InputInvariant, TypeOK, FastRead
  <1>2. PICK r \in FastOutcomes(br, op) : Continue(r, "fast")
    BY DEF FastRead
  <1>3. Advanced(br, r, Width(op)) /\ InCommands(op)
    BY <1>1, <1>2, FastReady
  <1>4. Width(op) \in Int /\ Width(op) >= 1
    <2>1. op.kind # "copy"
      BY <1>3 DEF InCommands, HasMemento
    <2> QED
      BY <1>1, <2>1, Widths, ReadsTakeBits
  <1>5. r \in BrotliBitReader /\ BitPosition(r) > BitPosition(br)
    <2>1. r \in BrotliBitReader /\ BitPosition(r) = BitPosition(br) + Width(op)
      BY <1>3 DEF Advanced, Moved
    <2> QED
      BY <1>1, <1>4, <2>1, ReaderArithmetic, SMT
  <1> QED
    BY <1>1, <1>2, <1>5, ContinueGains

LEMMA FastCodeLengthProgress ==
  ASSUME InputInvariant, FastCodeLength
  PROVE  MakesProgress
  <1> DEFINE warm == WarmupBitReader(br)
             r == DropBits(FillBitWindow(warm, 17), op.extra1)
  <1>1. /\ br \in BrotliBitReader /\ WellFormed(op) /\ TypeOK
        /\ phase = "read" /\ Running
        /\ br.avail_in > 0 /\ op.kind = "header" /\ op.extra1 <= 8
        /\ warm.avail_in >= FillLoads(17)
        /\ Continue(r, "read")
    BY DEF InputInvariant, TypeOK, FastCodeLength, ReadsCodeLength, CodeLengthBits,
           CheckInputAmount
  <1>2. Advanced(br, warm, 0) /\ warm.bit_pos <= 63 /\ warm \in BrotliBitReader
    BY <1>1, WarmupIs DEF Advanced, Moved
  <1>3. op.extra1 \in 0 .. 17 /\ 17 \in 0 .. MaxExtraBits /\ op.extra1 >= 1
    <2>1. op.extra1 \in 0 .. MaxExtraBits /\ op.extra1 = Width(op) /\ Width(op) >= 1
      BY <1>1, Widths, ReadsTakeBits
    <2> QED
      BY <1>1, <2>1, SMT DEF MaxExtraBits
  <1>4. FillInBounds(warm, 17)
    BY <1>1 DEF FillInBounds
  <1>5. Advanced(warm, r, op.extra1)
    BY <1>2, <1>3, <1>4, FilledFastReads
  <1> HIDE DEF warm, r
  <1>6. r \in BrotliBitReader /\ BitPosition(r) > BitPosition(br)
    <2>1. /\ r \in BrotliBitReader
          /\ BitPosition(warm) = BitPosition(br) + 0
          /\ BitPosition(r) = BitPosition(warm) + op.extra1
      BY <1>2, <1>5 DEF Advanced, Moved
    <2> QED
      BY <1>1, <1>2, <1>3, <2>1, ReaderArithmetic, SMT
  <1> QED
    BY <1>1, <1>6, ContinueGains

LEMMA FinishLastProgress ==
  ASSUME InputInvariant, calling', NEW padding_ok \in BOOLEAN, FinishLast(padding_ok)
  PROVE  MakesProgress
  <1> DEFINE parked == JumpToByteBoundary(br)
  <1>1. /\ br \in BrotliBitReader /\ TypeOK
        /\ calling /\ result = Success /\ phase = "last" /\ phase' = "done"
        /\ BitPosition(br) >= 0 /\ available_in \in Nat /\ buffer_length' = buffer_length
    BY DEF InputInvariant, TypeOK, Cursor, FinishLast, Running
  <1>2. /\ Ahead(br, parked) /\ parked \in BrotliBitReader
        /\ BitPosition(parked) >= BitPosition(br)
    BY <1>1, JumpIs DEF Ahead, Moved
  <1>3. result' \in {MoreOutput, Failure}
    <2>1. (IF padding_ok THEN Success ELSE Padding) \in {Success, Padding}
      OBVIOUS
    <2> QED
      BY <1>1, <2>1, DoneIs DEF FinishLast
  <1>4. Rank' < Rank
    <2>1. Rank' = 0
      BY <1>3, RankThen
    <2>2. Rank = 2
      BY <1>1, RankIs
    <2> QED
      BY <2>1, <2>2, SMT
  <1>5. BitPosition(br)' = BitPosition(br')
    BY DEF BitPosition, GetAvailableBits
  <1>6. /\ br' \in BrotliBitReader /\ BitPosition(br') = BitPosition(parked)
        /\ Untried' \in Int /\ Untried \in Int /\ Untried' <= Untried
    <2>1. CASE buffer_length = 0
      <3>1. br' = BitReaderUnload(parked) /\ available_in' = br'.avail_in
        BY <2>1 DEF FinishLast, UnloadInto
      <3>2. BitPosition(parked) >= 0
        BY <1>1, <1>2, ReaderArithmetic, SMT
      <3>3. br' \in BrotliBitReader /\ BitPosition(br') = BitPosition(parked)
        BY <1>2, <3>1, <3>2, UnloadIs
      <3>4. br'.avail_in <= available_in /\ br'.avail_in \in Int
        BY <1>1, <2>1, <3>1, <3>3, UnloadedIsNotMore, ReaderFields
      <3>5. Untried' = br'.avail_in + 0 /\ Untried = available_in + 0
        BY <1>1, <2>1, <3>1 DEF Untried
      <3> QED
        BY <1>1, <3>3, <3>4, <3>5, SMT
    <2>2. CASE buffer_length # 0
      <3>1. br' = parked /\ available_in' = available_in
        BY <2>2 DEF FinishLast
      <3>2. Untried' = Untried /\ Untried \in Int
        BY <1>1, <2>2, <3>1 DEF Untried
      <3> QED
        BY <1>2, <3>1, <3>2, SMT
    <2> QED
      BY <2>1, <2>2
  <1>7. \/ BitPosition(br') > BitPosition(br)
        \/ BitPosition(br') = BitPosition(br)
    BY <1>1, <1>2, <1>6, ReaderArithmetic, SMT
  <1>8. Untried' < Untried \/ Untried' = Untried
    BY <1>6, SMT
  <1> QED
    BY <1>4, <1>5, <1>7, <1>8 DEF MakesProgress

LEMMA OtherProgress ==
  ASSUME InputInvariant, EnterFast \/ LeaveFast \/ WriteRing \/ StillDone, calling'
  PROVE  MakesProgress
  <1>1. /\ br \in BrotliBitReader /\ TypeOK /\ calling /\ result = Success /\ UNCHANGED inputs
    BY DEF InputInvariant, TypeOK, EnterFast, LeaveFast, WriteRing, StillDone, Running
  <1>2. CASE EnterFast
    <2>1. /\ phase = "read" /\ CheckInputAmount(br, CommandInput)
          /\ br' = WarmupBitReader(br) /\ phase' = "fast" /\ result' = Success
      BY <1>1, <1>2 DEF EnterFast
    <2>2. br.avail_in > 0
      BY <1>1, <2>1, Lengths, ReaderFields, SMT DEF CheckInputAmount
    <2>3. BitPosition(br') = BitPosition(br) + 0
      BY <1>1, <2>1, <2>2, WarmupIs DEF Advanced
    <2>4. Rank = 5
      BY <1>1, <2>1, RankIs
    <2>5. Rank' = 4
      BY <2>1, RankThen
    <2>6. BitPosition(br') = BitPosition(br) /\ Rank' < Rank
      BY <1>1, <2>3, <2>4, <2>5, ReaderArithmetic, SMT
    <2> QED
      BY <1>1, <2>6, RankDrops
  <1>3. CASE LeaveFast
    <2>1. /\ phase = "fast" /\ ~CheckInputAmount(br', CommandInput)
          /\ br' = br /\ phase' = "read" /\ result' = Success
      BY <1>1, <1>3 DEF LeaveFast
    <2>2. Rank = 4
      BY <1>1, <2>1, RankIs
    <2>3. Rank' = 3
      BY <2>1, RankThen
    <2>4. Rank' < Rank
      BY <2>2, <2>3, SMT
    <2> QED
      BY <1>1, <2>1, <2>4, RankDrops
  <1>4. CASE WriteRing
    <2>1. /\ phase = "write" /\ br' = br
          /\ (phase' = "read" /\ result' = Success) \/ result' = MoreOutput
      BY <1>1, <1>4 DEF WriteRing
    <2>2. Rank = 6
      BY <1>1, <2>1, RankIs
    <2>3. Rank' \in {0, 3, 5}
      BY <2>1, RankThen
    <2>4. Rank' < Rank
      BY <2>2, <2>3, SMT
    <2> QED
      BY <1>1, <2>1, <2>4, RankDrops
  <1>5. CASE StillDone
    <2>1. /\ phase = "done" /\ br' = br
          /\ result' \in {MoreOutput, Failure}
      BY <1>1, <1>5, DoneIs DEF StillDone, decoder
    <2>2. Rank = 2
      BY <1>1, <2>1, RankIs
    <2>3. Rank' = 0
      BY <2>1, RankThen
    <2>4. Rank' < Rank
      BY <2>2, <2>3, SMT
    <2> QED
      BY <1>1, <2>1, <2>4, RankDrops
  <1> QED
    BY <1>2, <1>3, <1>4, <1>5

LEMMA RetryProgress ==
  ASSUME InputInvariant, SwitchToInput \/ TakeOneByte
  PROVE  MakesProgress
  <1>1. /\ br \in BrotliBitReader /\ available_in \in Nat /\ input_offset \in Int
        /\ buffer_length \in Nat /\ buffer_length # 0
    BY SMT DEF InputInvariant, TypeOK, BufferSize, SwitchToInput, TakeOneByte
  <1>2. BitPosition(br') = BitPosition(br)
    <2>1. CASE SwitchToInput
      BY <1>1, <2>1, OfferedIs DEF SwitchToInput
    <2>2. CASE TakeOneByte
      <3>1. buffer_length + 1 \in Nat /\ br.next_in \in Int
        BY <1>1, ReaderFields, SMT
      <3> QED
        BY <1>1, <2>2, <3>1, OfferedIs DEF TakeOneByte
    <2> QED
      BY <2>1, <2>2
  <1>3. Untried' < Untried
    <2>1. CASE SwitchToInput
      <3>1. available_in' = available_in /\ buffer_length' = 0
        BY <2>1 DEF SwitchToInput
      <3> QED
        BY <1>1, <3>1, SMT DEF Untried
    <2>2. CASE TakeOneByte
      <3>1. available_in' = available_in - 1 /\ buffer_length' = buffer_length + 1
        BY <2>2 DEF TakeOneByte
      <3>2. buffer_length' # 0
        BY <1>1, <3>1, SMT
      <3> QED
        BY <1>1, <3>1, <3>2, SMT DEF Untried
    <2> QED
      BY <2>1, <2>2
  <1>4. BitPosition(br)' = BitPosition(br')
    BY DEF BitPosition, GetAvailableBits
  <1> QED
    BY <1>2, <1>3, <1>4 DEF MakesProgress

\* A call with finite input returns: every turn of the loop in BrotliDecompressStream
\* (decode.rs:2681) that does not leave it goes on in the stream, or has fewer bytes to
\* try, or goes down in rank.
THEOREM CallsGetOn == Spec => CallMakesProgress
  <1>1. InputInvariant /\ [Next]_vars => [calling /\ calling' => MakesProgress]_vars
    <2>1. SUFFICES ASSUME InputInvariant, Next, calling, calling'
                   PROVE  MakesProgress
      BY Zenon
    <2>2. ~CallAfterError /\ \A n \in ChunkLengths : ~Call(n)
      BY <2>1 DEF CallAfterError, Call
    <2>3. ~GiveUp /\ ~SaveTail /\ ~ForcedWriteFails /\ ~ReturnOther
      BY <2>1 DEF GiveUp, SaveTail, ForcedWriteFails, ReturnOther, Return
    <2>4. CASE SafeRead
      BY <2>1, <2>4, SafeReadProgress
    <2>5. CASE FastRead
      BY <2>1, <2>5, FastReadProgress
    <2>6. CASE FastCodeLength
      BY <2>1, <2>6, FastCodeLengthProgress
    <2>7. CASE \E padding_ok \in BOOLEAN : FinishLast(padding_ok)
      BY <2>1, <2>7, FinishLastProgress
    <2>8. CASE EnterFast \/ LeaveFast \/ WriteRing \/ StillDone
      BY <2>1, <2>8, OtherProgress
    <2>9. CASE SwitchToInput \/ TakeOneByte
      BY <2>1, <2>9, RetryProgress
    <2> QED
      BY <2>1, <2>2, <2>3, <2>4, <2>5, <2>6, <2>7, <2>8, <2>9 DEF Next, Step, Resolve
  <1> QED
    BY <1>1, InvariantHolds, PTL DEF Spec, CallMakesProgress
=============================================================================
