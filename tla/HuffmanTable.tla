---------------------------- MODULE HuffmanTable ----------------------------
(***************************************************************************)
(* The lookup tables of brotli-exp/src/huffman/mod.rs and the two decoders *)
(* of brotli-exp/src/decode.rs that use them.  A table maps the next       *)
(* RootBits bits of the input, the first bit read being the lowest, to the *)
(* symbol and the number of bits it takes; where a code is longer, to the  *)
(* number of bits in all and the distance to a table of the second level.  *)
(*                                                                         *)
(* Keys count up in RevBits bits, the first bit of the code being the      *)
(* highest; ReverseBits turns them into indices.                           *)
(***************************************************************************)
EXTENDS PowersOfTwo, Integers, Sequences, FiniteSetsExt, SequencesExt

CONSTANTS
  MaxLength,      \* BROTLI_HUFFMAN_MAX_CODE_LENGTH: 15
  RootBits,       \* HUFFMAN_TABLE_BITS: 8
  RevBits,        \* BROTLI_REVERSE_BITS_MAX: 8
  CodeLengthBits  \* BROTLI_HUFFMAN_MAX_CODE_LENGTH_CODE_LENGTH: 5

ASSUME WidthsAssumption ==
  /\ {MaxLength, RootBits, RevBits, CodeLengthBits} \subseteq Nat \ {0}
  /\ RootBits <= RevBits /\ MaxLength - RootBits <= RevBits
  /\ RootBits < MaxLength /\ CodeLengthBits <= RevBits /\ CodeLengthBits <= MaxLength
  /\ RootBits >= 3  \* the simple code of four symbols and two lengths has 8 entries

HuffmanCode(bits, value) == [bits |-> bits, value |-> value]

\* An entry nobody has written.
Unwritten == HuffmanCode(0, -1)

Bit(n, j) == (n \div Pow2[j]) % 2

Reversed(n, width) == SumFunction([j \in 0 .. width - 1 |-> Bit(n, j) * Pow2[width - 1 - j]])

ReverseBits(key) == Reversed(key, RevBits)

\* ReplicateValue: every step-th entry of a table of that size at the offset.
ReplicateValue(table, offset, step, size, code) ==
  [i \in DOMAIN table |->
     IF i >= offset /\ i < offset + size /\ (i - offset) % step = 0 THEN code ELSE table[i]]

\* The key of the next code after the codes of lengths 1 .. length.
KeyAfter(count, length) ==
  SumFunction([b \in 1 .. length |-> count[b] * Pow2[RevBits - b]])

\* A code is its length and which of that length it is.
CodesUpTo(width, count) == UNION {{<<b, k>> : k \in 1 .. count[b]} : b \in 1 .. width}

KeyOf(count, c) == KeyAfter(count, c[1] - 1) + (c[2] - 1) * Pow2[RevBits - c[1]]

\* The root table, where symbolsOf[b] lists the symbols of length b and
\* count[b] says how many there are; where two codes meet, the later one stays.
\* A table smaller than 2^width that is copied over and over is the same as one
\* filled whole.
RootTable(width, symbolsOf, count) ==
  LET Here(i) == {c \in CodesUpTo(width, count) : i % Pow2[c[1]] = ReverseBits(KeyOf(count, c))}
      Later(c, d) == c[1] > d[1] \/ (c[1] = d[1] /\ c[2] >= d[2])
      Entry(i) == CHOOSE c \in Here(i) : \A d \in Here(i) : Later(c, d)
  IN  [i \in 0 .. Pow2[width] - 1 |->
         IF Here(i) = {} THEN Unwritten
         ELSE HuffmanCode(Entry(i)[1], symbolsOf[Entry(i)[1]][Entry(i)[2]])]

---------------------------------------------------------------------------
(* The table for a code of code lengths.                                   *)

\* The counting sort: by length, by symbol within each length.  It places a
\* symbol from its length's count on downwards.
SortedByLength(lengths, count, codes) ==
  LET LastPlace(b) == SumFunction([j \in 1 .. b |-> count[j]]) - 1
      Place(s) == LastPlace(lengths[s])
                    - Cardinality({t \in s + 1 .. codes - 1 : lengths[t] = lengths[s]})
      At(p) == {s \in 0 .. codes - 1 : lengths[s] # 0 /\ Place(s) = p}
  IN  [b \in 1 .. CodeLengthBits |->
         [k \in 1 .. count[b] |->
            IF At(LastPlace(b) - count[b] + k) = {} THEN -1 ELSE Min(At(LastPlace(b) - count[b] + k))]]

BuildCodeLengthsHuffmanTable(lengths, count, codes) ==
  LET used == {s \in 0 .. codes - 1 : lengths[s] # 0}
  IN  IF Cardinality(used) = 1
        THEN [i \in 0 .. Pow2[CodeLengthBits] - 1 |->
                HuffmanCode(0, CHOOSE s \in used : TRUE)]
        ELSE RootTable(CodeLengthBits, SortedByLength(lengths, count, codes), count)

---------------------------------------------------------------------------
(* The table of two levels.                                                *)

\* Mutation: the table is sized for the first code alone.
NextTableBitSizeShort(count, len) == len - RootBits

\* How many bits a table of the second level needs when its first code has
\* length len and count is what is left of each length.
NextTableBitSize(count, len) ==
  LET Full(l) == SumFunction([j \in len .. l |-> count[j] * Pow2[l - j]]) >= Pow2[l - RootBits]
  IN  Min({l \in len .. MaxLength : l = MaxLength \/ Full(l)}) - RootBits

SubKeyEnd == Pow2[RevBits]

\* The next table of the second level, and the pointer to it in the root.
OpenTable(b, len) ==
  LET bits == NextTableBitSize(b.count, len)
      free == b.free + b.size
      at == ReverseBits(b.key)
      grown == [i \in 0 .. free + Pow2[bits] - 1 |->
                  IF i = at THEN HuffmanCode(bits + RootBits, free - at)
                  ELSE IF i \in DOMAIN b.table THEN b.table[i] ELSE Unwritten]
  IN  [b EXCEPT !.table = grown, !.free = free, !.size = Pow2[bits], !.sub_key = 0,
                !.key = @ + Pow2[RevBits - RootBits]]

\* One code longer than RootBits: c is its length and its symbol.
PlaceLongCode(b, c) ==
  LET len == c[1]
      d == IF b.sub_key = SubKeyEnd THEN OpenTable(b, len) ELSE b
  IN  [d EXCEPT !.table = ReplicateValue(d.table, d.free + ReverseBits(d.sub_key),
                                         Pow2[len - RootBits], d.size,
                                         HuffmanCode(len - RootBits, c[2])),
                !.sub_key = @ + Pow2[RevBits - (len - RootBits)],
                !.count[len] = @ - 1]

\* The codes of one length, in the order of their symbols.
PlaceLength(b, len, symbols, n) ==
  LET placed[k \in 0 .. n] ==
        IF k = 0 THEN b ELSE PlaceLongCode(placed[k - 1], <<len, symbols[k]>>)
  IN  placed[n]

BuildHuffmanTable(symbolsOf, count) ==
  LET placed[len \in RootBits .. MaxLength] ==
        IF len = RootBits
          THEN [table |-> RootTable(RootBits, symbolsOf, count), free |-> 0,
                size |-> Pow2[RootBits], key |-> KeyAfter(count, RootBits),
                sub_key |-> SubKeyEnd, count |-> count]
          ELSE PlaceLength(placed[len - 1], len, symbolsOf[len], count[len])
  IN  placed[MaxLength]

---------------------------------------------------------------------------
(* The table of one to four symbols listed in the stream.                  *)

\* The symbols from the first one on are sorted: at place k is the one with as many
\* larger ones as there are places after k.
Ascending(v, first) ==
  LET rest == {v[k] : k \in first .. Len(v)}
      From(k) == CHOOSE x \in rest : Cardinality({y \in rest : y > x}) = Len(v) - k
  IN  [k \in 1 .. Len(v) |-> IF k < first THEN v[k] ELSE From(k)]

\* Which of the symbols the builder sorts: none, both, the last two, all, the
\* last two.
SimpleOrder(val, num_symbols) ==
  Ascending(val, CASE num_symbols = 2 -> 2 [] num_symbols = 4 -> 3 [] OTHER -> 1)

\* The entries: bits, and which of the symbols.
SimpleShape(num_symbols) ==
  CASE num_symbols = 0 -> <<<<0, 1>>>>
    [] num_symbols = 1 -> <<<<1, 1>>, <<1, 2>>>>
    [] num_symbols = 2 -> <<<<1, 1>>, <<2, 2>>, <<1, 1>>, <<2, 3>>>>
    [] num_symbols = 3 -> <<<<2, 1>>, <<2, 3>>, <<2, 2>>, <<2, 4>>>>
    [] num_symbols = 4 -> <<<<1, 1>>, <<2, 2>>, <<1, 1>>, <<3, 3>>,
                            <<1, 1>>, <<2, 2>>, <<1, 1>>, <<3, 4>>>>

BuildSimpleHuffmanTable(val, num_symbols) ==
  LET shape == SimpleShape(num_symbols)
      sorted == SimpleOrder(val, num_symbols)
      Entry(i) == shape[(i % Len(shape)) + 1]
  IN  [i \in 0 .. Pow2[RootBits] - 1 |-> HuffmanCode(Entry(i)[1], sorted[Entry(i)[2]])]

---------------------------------------------------------------------------
(* Decoding: the symbol the bits begin with, and how many of them it is.   *)

DecodeSymbol(bits, table) ==
  LET index == bits % Pow2[RootBits]
      root == table[index]
      more == root.bits - RootBits
      second == table[index + root.value + ((bits \div Pow2[RootBits]) % Pow2[more])]
  IN  IF more > 0 THEN HuffmanCode(RootBits + second.bits, second.value) ELSE root

Fails == HuffmanCode(-1, -1)

\* The register holds zeros above the available bits.
SafeDecodeSymbol(bits, available, table) ==
  LET index == bits % Pow2[RootBits]
      root == table[index]
      second == table[index + root.value + ((bits % Pow2[root.bits]) \div Pow2[RootBits])]
  IN  IF available = 0 THEN IF table[0].bits = 0 THEN table[0] ELSE Fails
      ELSE IF root.bits <= RootBits
        THEN IF root.bits <= available THEN root ELSE Fails
      ELSE IF available <= RootBits \/ available - RootBits < second.bits THEN Fails
      ELSE HuffmanCode(RootBits + second.bits, second.value)
=============================================================================
