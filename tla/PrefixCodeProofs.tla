-------------------------- MODULE PrefixCodeProofs --------------------------
(***************************************************************************)
(* Theorems about the reader of prefix codes, for every alphabet, every    *)
(* stream and every pause of the input that the model admits: its tables   *)
(* decode, and it implements the reading of a code (PrefixCode).           *)
(***************************************************************************)
EXTENDS PrefixCodeReader, HuffmanTableProofs, SequenceTheorems

---------------------------------------------------------------------------
(* The inductive invariant of the reader.                                  *)

Codes == MaxLength + 3

FieldsType ==
  [sub_loop_counter : 0 .. Codes, symbol : 0 .. MaxSymbol, repeat : Nat, space : Int,
   prev_code_len : 0 .. MaxLength, repeat_code_len : Nat]

FieldsOK(f) == f \in FieldsType /\ f.space <= NoSpace

Most == IF MaxSymbol > Codes THEN MaxSymbol ELSE Codes

Places == -SymbolListsIndex .. MaxSymbol - 1

ChainsOK(c) ==
  c \in [lists : [Places -> ListEnd .. MaxSymbol - 1], next : [0 .. MaxLength -> Places],
         histo : [0 .. MaxLength -> 0 .. Most]]

SmallOK(t) ==
  /\ DOMAIN t = 0 .. Pow2[CodeLengthBits] - 1
  /\ \A i \in DOMAIN t : t[i].value \in CodeLengthCodes

Shapes ==
  /\ substate \in {"NONE", "SIMPLE_SIZE", "SIMPLE_READ", "SIMPLE_BUILD", "COMPLEX", "LENGTH_SYMBOLS"}
  /\ FieldsOK(s)
  /\ local = Outside \/ FieldsOK(local)
  /\ ChainsOK(chains)
  /\ code_lengths \in [0 .. Codes - 1 -> 0 .. CodeLengthBits]
  /\ SmallOK(small)
  /\ outcome \in {"reading", "SUCCESS", "SIMPLE_HUFFMAN_ALPHABET", "SIMPLE_HUFFMAN_SAME",
                  "CL_SPACE", "HUFFMAN_SPACE"}
  /\ codes \in 0 .. MaxCodes

Calls ==
  /\ Inside => Running /\ substate \in {"SIMPLE_READ", "COMPLEX", "LENGTH_SYMBOLS"}
  /\ Running => codes < MaxCodes
  /\ outcome = "SUCCESS" <=> table # NoTable
  /\ outcome = "SUCCESS" => substate = "NONE"

SimplePhase == substate \in {"SIMPLE_READ", "SIMPLE_BUILD"} => s.symbol <= 3

\* f are the fields in use.
CodeLengthsRead(f, lengths, histo) ==
  /\ f.repeat = Cardinality(UsedIn(lengths, Codes))
  /\ \A b \in 1 .. CodeLengthBits : histo[b] = Cardinality(Group(lengths, Codes, b))
  /\ \A x \in 0 .. Codes - 1 : lengths[x] # 0 => \E k \in 1 .. f.sub_loop_counter : CodeLengthOrder[k] = x
  /\ Pow2[RevBits - CodeLengthBits] * f.space + KeyAfter(histo, CodeLengthBits) = Pow2[RevBits]

ComplexPhase ==
  Running /\ substate = "COMPLEX" => CodeLengthsRead(Fields, code_lengths, chains.histo)

LengthsRead(f, histo) ==
  /\ f.repeat = 0 \/ f.repeat >= 3
  /\ \A b \in 0 .. MaxLength : histo[b] <= f.symbol

LengthsPhase ==
  Running /\ substate = "LENGTH_SYMBOLS" => LengthsRead(Fields, chains.histo)

ReaderInv == Shapes /\ Calls /\ SimplePhase /\ ComplexPhase /\ LengthsPhase

---------------------------------------------------------------------------

\* What is assumed of the reader's constants, one by one.
LEMMA ReaderConstants ==
  /\ MaxSymbol \in Nat /\ MaxSymbol >= 4 /\ RepeatBits \in Nat /\ ZeroBits \in Nat /\ MaxCodes \in Nat /\ MaxCodes >= 1
  /\ AlphabetSize \in Nat /\ AlphabetSize >= 1
  /\ DefaultLength \in 1 .. MaxLength
  /\ Codes \in Nat /\ Codes >= 7 /\ CodeLengthCodes = 0 .. Codes - 1 /\ Cardinality(CodeLengthCodes) = Codes
  /\ Len(CodeLengthOrder) = Codes
  /\ \A k \in 1 .. Codes : CodeLengthOrder[k] \in 0 .. Codes - 1
  /\ \A j, k \in 1 .. Codes : CodeLengthOrder[j] = CodeLengthOrder[k] => j = k
  /\ \A x \in 0 .. Codes - 1 : CodeLengthChoices[x] \subseteq 0 .. CodeLengthBits
<1>1. MaxLength \in Nat /\ MaxLength >= 4
  BY Widths
<1>2. Codes \in Nat /\ Codes >= 7 /\ CodeLengthCodes = 0 .. Codes - 1
  BY <1>1 DEF Codes, CodeLengthCodes
<1>3. Cardinality(CodeLengthCodes) = Codes
  <2>1. Cardinality(0 .. Codes - 1) = (Codes - 1) - 0 + 1
    BY <1>2, FS_Interval
  <2> QED BY <1>2, <2>1
<1>4. CodeLengthOrder \in [1 .. Codes -> CodeLengthCodes]
  BY ReaderAssumption DEF Codes
<1>5. Len(CodeLengthOrder) = Codes
  BY <1>2, <1>4
<1>6. \A k \in 1 .. Codes : CodeLengthOrder[k] \in 0 .. Codes - 1
  BY <1>2, <1>4
<1>7. \A j, k \in 1 .. Codes : CodeLengthOrder[j] = CodeLengthOrder[k] => j = k
  BY <1>4, ReaderAssumption DEF IsInjective
<1>8. \A x \in 0 .. Codes - 1 : CodeLengthChoices[x] \subseteq 0 .. CodeLengthBits
  BY <1>2, ReaderAssumption
<1> QED BY <1>2, <1>3, <1>5, <1>6, <1>7, <1>8, ReaderAssumption, SMTT(30)

\* Quotients of powers.
LEMMA PowDivides ==
  ASSUME NEW a \in Nat, NEW b \in 0 .. a
  PROVE  Pow2[a] \div Pow2[b] = Pow2[a - b] /\ Pow2[a - b] \in Nat \ {0}
<1>1. b \in Nat /\ a - b \in Nat /\ a = b + (a - b)
  OBVIOUS
<1>2. Pow2[a] = Pow2[b] * Pow2[a - b] /\ Pow2[b] \in Nat \ {0} /\ Pow2[a - b] \in Nat \ {0} /\ Pow2[a] \in Nat
  BY <1>1, PowSum, PowNat
<1> DEFINE p == Pow2[b]
           q == Pow2[a - b]
           n == Pow2[a]
<1>3. n = p * q + 0 /\ p \in Nat \ {0} /\ q \in Int /\ n \in Nat /\ 0 \in 0 .. p - 1
  BY <1>2
<1> HIDE DEF p, q, n
<1>4. q = n \div p
  BY <1>3, DivUnique
<1> QED BY <1>2, <1>4 DEF p, q, n

\* A power is above its exponent.
LEMMA PowAbove == \A n \in Nat : n < Pow2[n]
<1> DEFINE N == {n \in Nat : n < Pow2[n]}
<1>1. 0 \in N
  BY PowStep
<1>2. ASSUME NEW n \in Nat, n \in N PROVE n + 1 \in N
  <2>1. Pow2[n + 1] = 2 * Pow2[n] /\ Pow2[n] \in Nat
    BY PowStep
  <2> QED BY <1>2, <2>1
<1>3. \A n \in Nat : n \in N
  <2> HIDE DEF N
  <2> QED BY <1>1, <1>2, NatSetInduction
<1> QED BY <1>3

\* There is a width of a listed symbol.
LEMMA SymbolWidthIs == SymbolWidth \in Nat
<1> DEFINE T == {w \in 0 .. AlphabetSize : AlphabetSize - 1 < Pow2[w]}
<1>1. AlphabetSize \in T
  <2>1. AlphabetSize \in Nat /\ AlphabetSize < Pow2[AlphabetSize] /\ Pow2[AlphabetSize] \in Nat
    BY ReaderConstants, PowAbove, PowNat
  <2> QED BY <2>1
<1>2. T \subseteq Nat
  OBVIOUS
<1>3. Min(T) \in T
  <2> HIDE DEF T
  <2> QED BY <1>1, <1>2, LeastIsMin
<1> QED BY <1>2, <1>3 DEF SymbolWidth

\* The spaces the reader starts with, and what a code takes of them.
LEMMA Spaces ==
  /\ FullSpace \in Nat /\ FullSmallSpace \in Nat /\ NoSpace \in Nat
  /\ FullSpace <= NoSpace /\ FullSmallSpace <= NoSpace
  /\ \A b \in 0 .. MaxLength : FullSpace \div Pow2[b] \in Nat
  /\ \A b \in 0 .. CodeLengthBits : FullSmallSpace \div Pow2[b] = Pow2[CodeLengthBits - b]
<1>1. /\ Pow2[MaxLength] \in Nat \ {0} /\ Pow2[CodeLengthBits] \in Nat /\ Pow2[CodeLengthBits] <= Pow2[MaxLength]
      /\ MaxLength \in Nat /\ CodeLengthBits \in Nat
  BY Widths, PowNat, PowGrows
<1>2. \A b \in 0 .. MaxLength : FullSpace \div Pow2[b] \in Nat
  <2> TAKE b \in 0 .. MaxLength
  <2>1. Pow2[MaxLength] \div Pow2[b] = Pow2[MaxLength - b] /\ Pow2[MaxLength - b] \in Nat
    BY <1>1, PowDivides
  <2> QED BY <2>1 DEF FullSpace
<1>3. \A b \in 0 .. CodeLengthBits : FullSmallSpace \div Pow2[b] = Pow2[CodeLengthBits - b]
  BY <1>1, PowDivides DEF FullSmallSpace
<1> QED BY <1>1, <1>2, <1>3 DEF FullSpace, FullSmallSpace, NoSpace

\* A run is of three lengths or more, and each of its codes adds one or more.
LEMMA RunIs ==
  ASSUME NEW f, FieldsOK(f), f.repeat = 0 \/ f.repeat >= 3,
         NEW code_len \in {RepeatCode, RepeatCode + 1}, NEW delta \in Nat
  PROVE  /\ NewRun(f, code_len, delta) \in Nat /\ NewRun(f, code_len, delta) >= 3
         /\ RunDelta(f, code_len, delta) \in Nat /\ RunDelta(f, code_len, delta) >= 1
         /\ RunLength(f, code_len) \in 0 .. MaxLength
<1>0. MaxLength \in Nat /\ RepeatBits \in Nat /\ ZeroBits \in Nat /\ f.repeat \in Nat /\ f.prev_code_len \in 0 .. MaxLength
  BY Widths, ReaderConstants DEF FieldsOK, FieldsType
<1> DEFINE old == OldRun(f, code_len)
           bits == IF code_len = RepeatCode THEN RepeatBits ELSE ZeroBits
           p == Pow2[bits]
           new == NewRun(f, code_len, delta)
<1>1. old \in Nat /\ (old = 0 \/ old >= 3)
  BY <1>0 DEF OldRun
<1>2. p \in Nat /\ p >= 1
  <2>1. bits \in Nat
    BY <1>0
  <2> HIDE DEF bits
  <2> QED BY <2>1, PowNat
<1>3. new = (IF old > 0 THEN (old - 2) * p ELSE 0) + delta + 3
  BY DEF NewRun
<1>4. RunDelta(f, code_len, delta) = new - old
  BY DEF RunDelta
<1> HIDE DEF p, old, new
<1>5. new \in Nat /\ new >= 3 /\ new - old \in Nat /\ new - old >= 1
  <2>1. CASE old = 0
    BY <1>3, <2>1
  <2>2. CASE old >= 3
    <3> DEFINE o == old - 2
               q == p - 1
    <3>1. o \in Nat /\ o >= 1 /\ q \in Nat /\ old = o + 2 /\ p = q + 1
      BY <1>1, <1>2, <2>2
    <3> HIDE DEF o, q
    <3>2. (old - 2) * p = o + o * q /\ o * q \in Nat
      BY <3>1
    <3>3. new = (o + o * q) + delta + 3
      BY <1>1, <1>3, <2>2, <3>2
    <3> QED BY <3>1, <3>2, <3>3
  <2> QED BY <1>1, <2>1, <2>2
<1>6. RunLength(f, code_len) \in 0 .. MaxLength
  BY <1>0 DEF RunLength
<1> QED BY <1>4, <1>5, <1>6 DEF new

\* What no step within a phase changes.
LEMMA FieldsAre ==
  ASSUME FieldsOK(s), local = Outside \/ FieldsOK(local)
  PROVE  /\ Fields = IF local = Outside THEN s ELSE local
         /\ FieldsOK(Fields)
         /\ FieldsOK(local) => Inside
         /\ \A f : FieldsOK(f) => f # Outside
<1>1. ASSUME NEW f, FieldsOK(f) PROVE f # Outside
  <2>1. f.sub_loop_counter \in 0 .. Codes
    BY <1>1 DEF FieldsOK, FieldsType
  <2>2. Outside.sub_loop_counter = -1
    BY DEF Outside
  <2>3. Codes \in Nat
    BY ReaderConstants
  <2> QED BY <2>1, <2>2, <2>3
<1> QED BY <1>1 DEF Fields, Inside

\* Without codes, no key is used.
LEMMA KeyAfterNothing ==
  ASSUME NEW count, NEW n \in Nat, n <= RevBits, \A b \in 1 .. n : count[b] = 0
  PROVE  KeyAfter(count, n) = 0
<1> DEFINE f == [b \in 1 .. n |-> count[b] * Pow2[RevBits - b]]
<1>1. ASSUME NEW b \in 1 .. n PROVE f[b] = 0
  <2>1. RevBits - b \in Nat
    BY Widths
  <2>2. Pow2[RevBits - b] \in Nat
    BY <2>1, PowNat
  <2> QED BY <2>2
<1>2. f = [b \in 1 .. n |-> 0]
  BY <1>1
<1>3. SumFunction([b \in 1 .. n |-> 0]) = Cardinality(1 .. n) * 0
  <2>1. IsFiniteSet(1 .. n) /\ 0 \in Int
    BY FS_Interval
  <2> QED BY <2>1, SumConst, Zenon
<1>4. Cardinality(1 .. n) \in Nat
  BY FS_Interval, FS_CardinalityType
<1> QED BY <1>2, <1>3, <1>4 DEF KeyAfter

\* Before any length of the code of code lengths is read.
LEMMA NothingRead ==
  ASSUME NEW f, f.space = FullSmallSpace, f.repeat = 0, NEW histo, \A b \in 1 .. CodeLengthBits : histo[b] = 0
  PROVE  CodeLengthsRead(f, [x \in 0 .. Codes - 1 |-> 0], histo)
<1> DEFINE z == [x \in 0 .. Codes - 1 |-> 0]
<1>1. UsedIn(z, Codes) = {}
  BY DEF UsedIn
<1>2. Cardinality({}) = 0
  BY FS_EmptySet
<1>3. \A b \in 1 .. CodeLengthBits : Group(z, Codes, b) = {}
  BY DEF Group
<1>4. KeyAfter(histo, CodeLengthBits) = 0
  BY Widths, KeyAfterNothing
<1>5. Pow2[RevBits - CodeLengthBits] * FullSmallSpace = Pow2[RevBits] /\ Pow2[RevBits] \in Nat
  <2>1. RevBits - CodeLengthBits \in Nat /\ CodeLengthBits \in Nat /\ RevBits = (RevBits - CodeLengthBits) + CodeLengthBits
        /\ RevBits \in Nat
    BY Widths
  <2> QED BY <2>1, PowSum, PowNat DEF FullSmallSpace
<1>6. \A x \in 0 .. Codes - 1 : z[x] = 0
  OBVIOUS
<1> HIDE DEF z
<1>7. Pow2[RevBits - CodeLengthBits] * f.space + KeyAfter(histo, CodeLengthBits) = Pow2[RevBits]
  <2>1. Pow2[RevBits - CodeLengthBits] * f.space = Pow2[RevBits]
    BY <1>5, Zenon
  <2> QED BY <1>4, <1>5, <2>1
<1>8. CodeLengthsRead(f, z, histo)
  BY <1>1, <1>2, <1>3, <1>6, <1>7, Zenon DEF CodeLengthsRead
<1> QED BY <1>8 DEF z

\* Initial states satisfy the invariant.
LEMMA InitInv == Init => ReaderInv
<1> SUFFICES ASSUME Init PROVE ReaderInv
  OBVIOUS
<1>0. MaxSymbol \in Nat /\ MaxLength \in Nat /\ MaxCodes \in Nat /\ MaxCodes >= 1 /\ Codes \in Nat /\ Codes >= 7 /\ MaxSymbol >= 4
  BY Widths, ReaderConstants
<1>1. FieldsOK(s)
  <2>1. s \in FieldsType
    BY <1>0 DEF Init, FieldsType
  <2>2. s.space = 0
    BY DEF Init
  <2> QED BY <2>1, <2>2, Spaces DEF FieldsOK
<1>2. ChainsOK(chains)
  <2>1. [i \in Places |-> 0] \in [Places -> ListEnd .. MaxSymbol - 1]
    BY <1>0 DEF ListEnd
  <2>2. [b \in 0 .. MaxLength |-> 0] \in [0 .. MaxLength -> Places]
    BY <1>0 DEF Places, SymbolListsIndex
  <2>3. [b \in 0 .. MaxLength |-> 0] \in [0 .. MaxLength -> 0 .. Most]
    BY <1>0 DEF Most
  <2> QED BY <2>1, <2>2, <2>3 DEF Init, ChainsOK, Places
<1>3. code_lengths \in [0 .. Codes - 1 -> 0 .. CodeLengthBits]
  BY ReaderConstants, Widths DEF Init
<1>4. SmallOK(small)
  <2>1. 0 \in CodeLengthCodes
    BY <1>0, ReaderConstants
  <2> QED BY <2>1 DEF Init, SmallOK, HuffmanCode
<1>5. Shapes
  <2>1. substate = "NONE" /\ local = Outside /\ outcome = "reading" /\ codes = 0
    BY DEF Init
  <2>2. codes \in 0 .. MaxCodes
    BY <1>0, <2>1
  <2> QED BY <1>1, <1>2, <1>3, <1>4, <2>1, <2>2 DEF Shapes
<1>6. Calls
  BY <1>0 DEF Init, Calls, Inside, Running
<1>7. SimplePhase /\ ComplexPhase /\ LengthsPhase
  BY DEF Init, SimplePhase, ComplexPhase, LengthsPhase
<1> QED BY <1>5, <1>6, <1>7 DEF ReaderInv

\* A loop begins with copies of the fields.
LEMMA EnterKeeps ==
  ASSUME ReaderInv, NEW at \in {"SIMPLE_READ", "COMPLEX", "LENGTH_SYMBOLS"}, Enter(at)
  PROVE  ReaderInv'
<1>1. FieldsOK(s) /\ Fields = s /\ Running /\ local = Outside
  BY DEF ReaderInv, Shapes, Enter, Fields, Inside
<1>2. /\ local' = s /\ UNCHANGED <<substate, s, chains, code_lengths, small, table, outcome, codes>>
  BY DEF Enter
<1>3. local' # Outside
  BY <1>1, <1>2, FieldsAre DEF ReaderInv, Shapes
<1>4. Fields' = s
  BY <1>2 DEF Fields
<1>5. Shapes'
  BY <1>1, <1>2 DEF ReaderInv, Shapes, FieldsOK
<1>6. Calls'
  BY <1>1, <1>2 DEF ReaderInv, Calls, Inside, Running, Enter
<1>7. SimplePhase' /\ ComplexPhase' /\ LengthsPhase'
  BY <1>1, <1>2, <1>4 DEF ReaderInv, SimplePhase, ComplexPhase, LengthsPhase, Running
<1> QED BY <1>5, <1>6, <1>7 DEF ReaderInv

\* The kind of the code is read.
LEMMA ReadKindKeeps ==
  ASSUME ReaderInv, ReadKind
  PROVE  ReaderInv'
<1>0. /\ Shapes /\ Calls /\ Running /\ substate = "NONE"
      /\ UNCHANGED <<local, small, table, outcome, codes>>
  BY DEF ReaderInv, ReadKind
<1>1. local = Outside /\ local' = Outside
  BY <1>0 DEF Calls, Inside
<1>2. Fields' = s'
  BY <1>1 DEF Fields
<1>3. PICK kind \in 0 .. 3 :
        \/ /\ s' = [s EXCEPT !.sub_loop_counter = kind]
           /\ substate' = "SIMPLE_SIZE"
           /\ UNCHANGED <<chains, code_lengths>>
        \/ /\ s' = [s EXCEPT !.sub_loop_counter = kind, !.space = FullSmallSpace, !.repeat = 0]
           /\ chains' = [chains EXCEPT !.histo =
                              [b \in DOMAIN @ |-> IF b <= CodeLengthBits THEN 0 ELSE @[b]]]
           /\ code_lengths' = [x \in CodeLengthCodes |-> 0]
           /\ substate' = "COMPLEX"
  BY DEF ReadKind
<1>4. kind \in 0 .. Codes /\ FullSmallSpace <= NoSpace /\ FullSmallSpace \in Int
  BY ReaderConstants, Spaces
<1>5. FieldsOK(s)'
  <2>1. s \in FieldsType /\ s.space <= NoSpace
    BY <1>0 DEF Shapes, FieldsOK
  <2>2. CASE s' = [s EXCEPT !.sub_loop_counter = kind]
    <3>1. s' \in FieldsType /\ s'.space = s.space
      BY <1>4, <2>1, <2>2 DEF FieldsType
    <3> QED BY <2>1, <3>1 DEF FieldsOK
  <2>3. CASE s' = [s EXCEPT !.sub_loop_counter = kind, !.space = FullSmallSpace, !.repeat = 0]
    <3>1. s' \in FieldsType /\ s'.space = FullSmallSpace
      BY <1>4, <2>1, <2>3 DEF FieldsType
    <3> QED BY <1>4, <3>1 DEF FieldsOK
  <2> QED BY <1>3, <2>2, <2>3
<1>6. CASE substate' = "SIMPLE_SIZE"
  <2>1. UNCHANGED <<chains, code_lengths>>
    BY <1>3, <1>6
  <2>2. Shapes'
    BY <1>0, <1>1, <1>5, <1>6, <2>1 DEF Shapes
  <2>3. Calls'
    BY <1>0, <1>1, <1>6 DEF Calls, Inside, Running
  <2>4. SimplePhase' /\ ComplexPhase' /\ LengthsPhase'
    BY <1>6 DEF SimplePhase, ComplexPhase, LengthsPhase
  <2> QED BY <2>2, <2>3, <2>4 DEF ReaderInv
<1>7. CASE substate' = "COMPLEX"
  <2> DEFINE h == [b \in 0 .. MaxLength |-> IF b <= CodeLengthBits THEN 0 ELSE chains.histo[b]]
             z == [x \in 0 .. Codes - 1 |-> 0]
  <2>1. /\ s' = [s EXCEPT !.sub_loop_counter = kind, !.space = FullSmallSpace, !.repeat = 0]
        /\ chains' = [chains EXCEPT !.histo = [b \in DOMAIN @ |-> IF b <= CodeLengthBits THEN 0 ELSE @[b]]]
        /\ code_lengths' = z
    BY <1>3, <1>7, ReaderConstants
  <2>2. chains' = [chains EXCEPT !.histo = h]
    BY <1>0, <2>1 DEF Shapes, ChainsOK
  <2>3. h \in [0 .. MaxLength -> 0 .. Most] /\ \A b \in 1 .. CodeLengthBits : h[b] = 0
    <3>1. 0 \in 0 .. Most
      BY ReaderConstants DEF Most
    <3>2. \A b \in 1 .. CodeLengthBits : b \in 0 .. MaxLength /\ b <= CodeLengthBits
      BY Widths
    <3> QED BY <1>0, <3>1, <3>2 DEF Shapes, ChainsOK
  <2> HIDE DEF h, z
  <2>4. ChainsOK(chains') /\ chains'.histo = h
    BY <1>0, <2>2, <2>3 DEF Shapes, ChainsOK
  <2>5. code_lengths' \in [0 .. Codes - 1 -> 0 .. CodeLengthBits]
    BY <2>1, Widths DEF z
  <2>6. Shapes'
    BY <1>0, <1>1, <1>5, <1>7, <2>4, <2>5 DEF Shapes
  <2>7. Calls'
    BY <1>0, <1>1, <1>7 DEF Calls, Inside, Running
  <2>8. CodeLengthsRead(s', z, h)
    <3>1. s'.space = FullSmallSpace /\ s'.repeat = 0
      BY <1>0, <2>1 DEF Shapes, FieldsOK, FieldsType
    <3> QED BY <2>3, <3>1, NothingRead DEF z
  <2>9. SimplePhase' /\ ComplexPhase' /\ LengthsPhase'
    BY <1>2, <1>7, <2>1, <2>4, <2>8 DEF SimplePhase, ComplexPhase, LengthsPhase
  <2> QED BY <2>6, <2>7, <2>9 DEF ReaderInv
<1> QED BY <1>3, <1>6, <1>7

---------------------------------------------------------------------------
(* Steps that read a simple code.                                          *)

\* How many symbols are listed.
LEMMA ReadSimpleSizeKeeps ==
  ASSUME ReaderInv, ReadSimpleSize
  PROVE  ReaderInv'
<1>0. /\ Shapes /\ Calls /\ Running /\ substate = "SIMPLE_SIZE" /\ substate' = "SIMPLE_READ"
      /\ UNCHANGED <<local, chains, code_lengths, small, table, outcome, codes>>
  BY DEF ReaderInv, ReadSimpleSize
<1>1. local = Outside
  BY <1>0 DEF Calls, Inside
<1>2. PICK num_symbols \in 0 .. 3 : s' = [s EXCEPT !.symbol = num_symbols, !.sub_loop_counter = 0]
  BY DEF ReadSimpleSize
<1>3. FieldsOK(s)' /\ s'.symbol <= 3
  <2>1. s \in FieldsType /\ s.space <= NoSpace
    BY <1>0 DEF Shapes, FieldsOK
  <2>2. num_symbols \in 0 .. MaxSymbol /\ 0 \in 0 .. Codes /\ num_symbols <= 3
    BY ReaderConstants
  <2>3. s' \in FieldsType /\ s'.space = s.space /\ s'.symbol = num_symbols
    BY <1>2, <2>1, <2>2 DEF FieldsType
  <2> QED BY <2>1, <2>2, <2>3 DEF FieldsOK
<1>4. Shapes'
  BY <1>0, <1>1, <1>3 DEF Shapes
<1>5. Calls'
  BY <1>0, <1>1 DEF Calls, Inside, Running
<1>6. SimplePhase' /\ ComplexPhase' /\ LengthsPhase'
  BY <1>0, <1>3 DEF SimplePhase, ComplexPhase, LengthsPhase
<1> QED BY <1>4, <1>5, <1>6 DEF ReaderInv

\* A step that ends the reading keeps what was read of it.
LEMMA FailKeeps ==
  ASSUME ReaderInv, Running, NEW error, Fail(error),
         error \in {"SIMPLE_HUFFMAN_ALPHABET", "SIMPLE_HUFFMAN_SAME", "CL_SPACE"},
         UNCHANGED <<substate, s, chains, code_lengths, small, table, codes>>
  PROVE  ReaderInv'
<1>1. outcome' = error /\ local' = Outside /\ error # "SUCCESS" /\ error # "reading"
  BY DEF Fail
<1>2. Shapes'
  BY <1>1 DEF ReaderInv, Shapes
<1>3. Calls'
  BY <1>1 DEF ReaderInv, Calls, Inside, Running
<1>4. SimplePhase' /\ ComplexPhase' /\ LengthsPhase'
  BY <1>1 DEF ReaderInv, SimplePhase, ComplexPhase, LengthsPhase, Running
<1> QED BY <1>2, <1>3, <1>4 DEF ReaderInv

\* A listed symbol is read.
LEMMA ReadSimpleSymbolKeeps ==
  ASSUME ReaderInv, ReadSimpleSymbol
  PROVE  ReaderInv'
<1>0. /\ Shapes /\ Calls /\ SimplePhase /\ Running /\ substate = "SIMPLE_READ" /\ Inside
      /\ local.sub_loop_counter <= s.symbol
      /\ UNCHANGED <<substate, s, code_lengths, small, table, codes>>
  BY DEF ReaderInv, ReadSimpleSymbol, Calls
<1>1. FieldsOK(local) /\ FieldsOK(s) /\ s.symbol <= 3
  BY <1>0 DEF Shapes, SimplePhase, Inside
<1>2. PICK v \in 0 .. Pow2[SymbolWidth] - 1 :
         IF v >= MaxSymbol
         THEN Fail("SIMPLE_HUFFMAN_ALPHABET") /\ UNCHANGED chains
         ELSE /\ chains' = [chains EXCEPT !.lists[Item(local.sub_loop_counter)] = v]
              /\ local' = [local EXCEPT !.sub_loop_counter = @ + 1]
              /\ UNCHANGED outcome
  BY DEF ReadSimpleSymbol
<1>3. v \in Nat
  <2>1. Pow2[SymbolWidth] \in Nat
    BY SymbolWidthIs, PowNat
  <2> QED BY <2>1
<1>4. CASE v >= MaxSymbol
  BY <1>0, <1>2, <1>4, FailKeeps
<1>5. CASE ~(v >= MaxSymbol)
  <2>1. /\ chains' = [chains EXCEPT !.lists[Item(local.sub_loop_counter)] = v]
        /\ local' = [local EXCEPT !.sub_loop_counter = @ + 1]
        /\ UNCHANGED outcome
    BY <1>2, <1>5
  <2>2. local.sub_loop_counter \in 0 .. 3
    <3>1. local.sub_loop_counter \in 0 .. Codes /\ s.symbol \in 0 .. MaxSymbol
      BY <1>1 DEF FieldsOK, FieldsType
    <3>2. Codes \in Nat /\ MaxSymbol \in Nat
      BY ReaderConstants
    <3> QED BY <1>0, <1>1, <3>1, <3>2
  <2>3. FieldsOK(local)'
    <3>1. local.sub_loop_counter + 1 \in 0 .. Codes
      BY <2>2, ReaderConstants
    <3>2. local' \in FieldsType /\ local'.space = local.space
      BY <1>1, <2>1, <3>1 DEF FieldsOK, FieldsType
    <3> QED BY <1>1, <3>2 DEF FieldsOK
  <2>4. ChainsOK(chains)'
    <3>1. v \in ListEnd .. MaxSymbol - 1
      BY <1>3, <1>5, ReaderConstants DEF ListEnd
    <3> QED BY <1>0, <2>1, <3>1 DEF Shapes, ChainsOK
  <2>5. Shapes'
    BY <1>0, <2>1, <2>3, <2>4 DEF Shapes
  <2>7. Calls'
    BY <1>0, <2>1 DEF Calls, Running
  <2>8. SimplePhase' /\ ComplexPhase' /\ LengthsPhase'
    BY <1>0, <1>1 DEF SimplePhase, ComplexPhase, LengthsPhase
  <2> QED BY <2>5, <2>7, <2>8 DEF ReaderInv
<1> QED BY <1>4, <1>5

\* The input ends among the listed symbols.
LEMMA PauseSimpleKeeps ==
  ASSUME ReaderInv, PauseSimple
  PROVE  ReaderInv'
<1>0. /\ Shapes /\ Calls /\ SimplePhase /\ Running /\ substate = "SIMPLE_READ" /\ Inside
      /\ s' = [s EXCEPT !.sub_loop_counter = local.sub_loop_counter] /\ local' = Outside
      /\ UNCHANGED <<substate, chains, code_lengths, small, table, outcome, codes>>
  BY DEF ReaderInv, PauseSimple, Calls
<1>1. FieldsOK(local) /\ FieldsOK(s) /\ s.symbol <= 3
  BY <1>0 DEF Shapes, SimplePhase, Inside
<1>2. FieldsOK(s)' /\ s'.symbol = s.symbol
  <2>1. local.sub_loop_counter \in 0 .. Codes
    BY <1>1 DEF FieldsOK, FieldsType
  <2>2. s' \in FieldsType /\ s'.space = s.space /\ s'.symbol = s.symbol
    BY <1>0, <1>1, <2>1 DEF FieldsOK, FieldsType
  <2> QED BY <1>1, <2>2 DEF FieldsOK
<1>3. Shapes'
  BY <1>0, <1>2 DEF Shapes
<1>4. Calls'
  BY <1>0 DEF Calls, Inside, Running
<1>5. SimplePhase' /\ ComplexPhase' /\ LengthsPhase'
  BY <1>0, <1>1, <1>2 DEF SimplePhase, ComplexPhase, LengthsPhase
<1> QED BY <1>3, <1>4, <1>5 DEF ReaderInv

\* The listed symbols are complete.
LEMMA EndSimpleKeeps ==
  ASSUME ReaderInv, EndSimple
  PROVE  ReaderInv'
<1>0. /\ Shapes /\ Calls /\ SimplePhase /\ Running /\ substate = "SIMPLE_READ" /\ Inside
      /\ UNCHANGED <<s, chains, code_lengths, small, table, codes>>
  BY DEF ReaderInv, EndSimple, Calls
<1>1. CASE Fail("SIMPLE_HUFFMAN_SAME") /\ UNCHANGED substate
  BY <1>0, <1>1, FailKeeps
<1>2. CASE substate' = "SIMPLE_BUILD" /\ local' = Outside /\ UNCHANGED outcome
  <2>1. Shapes'
    BY <1>0, <1>2 DEF Shapes
  <2>2. Calls'
    BY <1>0, <1>2 DEF Calls, Inside, Running
  <2>3. SimplePhase' /\ ComplexPhase' /\ LengthsPhase'
    BY <1>0, <1>2 DEF SimplePhase, ComplexPhase, LengthsPhase
  <2> QED BY <2>1, <2>2, <2>3 DEF ReaderInv
<1> QED BY <1>1, <1>2 DEF EndSimple

\* A step that ends with a table.
LEMMA BuiltKeeps ==
  ASSUME ReaderInv, Running, NEW t, 0 \in DOMAIN t, Built(t), FieldsOK(s'), ChainsOK(chains'), local' = Outside,
         UNCHANGED <<code_lengths, small>>
  PROVE  ReaderInv'
<1>1. table' = t /\ substate' = "NONE" /\ outcome' = "SUCCESS" /\ codes' = codes + 1
  BY DEF Built
<1>2. t # NoTable
  BY DEF NoTable
<1>3. codes' \in 0 .. MaxCodes
  BY <1>1, ReaderConstants DEF ReaderInv, Shapes, Calls
<1>4. Shapes'
  BY <1>1, <1>3 DEF ReaderInv, Shapes
<1>5. Calls'
  BY <1>1, <1>2 DEF ReaderInv, Calls, Inside, Running
<1>6. SimplePhase' /\ ComplexPhase' /\ LengthsPhase'
  BY <1>1 DEF SimplePhase, ComplexPhase, LengthsPhase
<1> QED BY <1>4, <1>5, <1>6 DEF ReaderInv

\* The table of listed symbols is built.
LEMMA BuildSimpleKeeps ==
  ASSUME ReaderInv, BuildSimple
  PROVE  ReaderInv'
<1>0. /\ Shapes /\ Calls /\ SimplePhase /\ Running /\ substate = "SIMPLE_BUILD"
      /\ UNCHANGED <<local, chains, code_lengths, small>>
  BY DEF ReaderInv, BuildSimple
<1>1. FieldsOK(s) /\ s.symbol <= 3 /\ local = Outside
  BY <1>0 DEF Shapes, SimplePhase, Calls, Inside
<1>2. PICK bits \in 0 .. 1 :
        LET num_symbols == s.symbol + bits
        IN  /\ s' = [s EXCEPT !.symbol = num_symbols]
            /\ Built(BuildSimpleHuffmanTable(SimpleSymbols(s.symbol + 1), num_symbols))
  BY DEF BuildSimple
<1>3. FieldsOK(s)'
  <2>1. s.symbol + bits \in 0 .. MaxSymbol
    BY <1>1, ReaderConstants, SMTT(30) DEF FieldsOK, FieldsType
  <2>2. s' \in FieldsType /\ s'.space = s.space
    BY <1>1, <1>2, <2>1 DEF FieldsOK, FieldsType
  <2> QED BY <1>1, <2>2 DEF FieldsOK
<1> DEFINE t == BuildSimpleHuffmanTable(SimpleSymbols(s.symbol + 1), s.symbol + bits)
<1>4. 0 \in DOMAIN t
  <2>1. Pow2[RootBits] \in Nat \ {0}
    BY Widths, PowNat
  <2> QED BY <2>1 DEF BuildSimpleHuffmanTable
<1>5. Built(t)
  BY <1>2
<1> HIDE DEF t
<1>6. ChainsOK(chains')
  BY <1>0 DEF Shapes
<1> QED BY <1>0, <1>1, <1>3, <1>4, <1>5, <1>6, BuiltKeeps

---------------------------------------------------------------------------
(* Steps that read the code of code lengths.                               *)

\* One more length of the code of code lengths.
LEMMA OneMoreZero ==
  ASSUME NEW n \in Nat, NEW lengths \in [0 .. n - 1 -> Nat], NEW x \in 0 .. n - 1, lengths[x] = 0
  PROVE  [lengths EXCEPT ![x] = 0] = lengths
  OBVIOUS

\* One more of at most n.
LEMMA CountUp ==
  \A n \in Nat : \A c \in 0 .. n : c < n =>
    /\ c + 1 \in 1 .. n /\ c + 1 \in 0 .. n
    /\ \A k \in 1 .. c : k \in 1 .. n /\ k \in 1 .. c + 1 /\ k # c + 1
  OBVIOUS

IsWhole(p, x, k, m) == p * x + k = m

\* What is taken of a space is added to the keys.
LEMMA TakeAway ==
  \A p, x, w, k, m \in Int : IsWhole(p, x, k, m) => IsWhole(p, x - w, k + p * w, m)
  BY DEF IsWhole

\* The functions agree on S but for x.
AgreeBut(f, g, S, x) == \A y \in S : y # x => f[y] = g[y]

OneMoreOf(counts, histo, v) == counts[v] = histo[v] + 1 /\ AgreeBut(counts, histo, 0 .. MaxLength, v)

\* The fields f before and g after a length v.
OneMoreField(f, g, v) ==
  /\ g.sub_loop_counter = f.sub_loop_counter + 1 /\ g.repeat = f.repeat + 1
  /\ g.space = f.space - Pow2[CodeLengthBits - v]

NextIs(f, x) == x = CodeLengthOrder[f.sub_loop_counter + 1]

UsesOneMore(after, lengths, n, v) ==
  /\ Cardinality(UsedIn(after, n)) = Cardinality(UsedIn(lengths, n)) + 1
  /\ Cardinality(Group(after, n, v)) = Cardinality(Group(lengths, n, v)) + 1
  /\ \A b \in Nat : b # 0 /\ b # v => Group(after, n, b) = Group(lengths, n, b)

\* One more symbol has a code: the groups of all other lengths are as before.
LEMMA OneMoreUsed ==
  ASSUME NEW n \in Nat, NEW lengths \in [0 .. n - 1 -> Nat], NEW x \in 0 .. n - 1, lengths[x] = 0,
         NEW v \in Nat, v # 0, NEW after, after[x] = v, AgreeBut(after, lengths, 0 .. n - 1, x)
  PROVE  UsesOneMore(after, lengths, n, v)
<1>1. after[x] = v /\ \A y \in 0 .. n - 1 : y # x => after[y] = lengths[y]
  BY DEF AgreeBut
<1>2. UsedIn(after, n) = UsedIn(lengths, n) \cup {x} /\ x \notin UsedIn(lengths, n)
  BY <1>1 DEF UsedIn
<1>3. Group(after, n, v) = Group(lengths, n, v) \cup {x} /\ x \notin Group(lengths, n, v)
  BY <1>1 DEF Group
<1>4. \A b \in Nat : b # 0 /\ b # v => Group(after, n, b) = Group(lengths, n, b)
  BY <1>1 DEF Group
<1>5. IsFiniteSet(UsedIn(lengths, n)) /\ IsFiniteSet(Group(lengths, n, v))
  <2>1. UsedIn(lengths, n) \in SUBSET (0 .. n - 1) /\ IsFiniteSet(0 .. n - 1)
    BY FS_Interval DEF UsedIn
  <2> QED BY <2>1, GroupIs, FS_Subset
<1>6. /\ Cardinality(UsedIn(lengths, n) \cup {x}) = Cardinality(UsedIn(lengths, n)) + 1
      /\ Cardinality(Group(lengths, n, v) \cup {x}) = Cardinality(Group(lengths, n, v)) + 1
  BY <1>2, <1>3, <1>5, FS_AddElement
<1> QED BY <1>2, <1>3, <1>4, <1>6, Zenon DEF UsesOneMore

\* One more code of one length.
LEMMA KeyAfterMore ==
  ASSUME NEW count, Counts(count, CodeLengthBits), NEW v \in 1 .. CodeLengthBits,
         NEW after, OneMoreOf(after, count, v)
  PROVE  /\ KeyAfter(after, CodeLengthBits) = KeyAfter(count, CodeLengthBits) + Pow2[RevBits - v]
         /\ KeyAfter(count, CodeLengthBits) \in Nat
<1>1. CodeLengthBits \in 0 .. RevBits /\ RevBits \in Nat /\ CodeLengthBits \in 0 .. CodeLengthBits
  BY Widths
<1>0. \A b \in 1 .. CodeLengthBits : after[b] = IF b = v THEN count[b] + 1 ELSE count[b]
  <2>1. \A b \in 1 .. CodeLengthBits : b \in 0 .. MaxLength
    BY Widths
  <2> QED BY <2>1 DEF OneMoreOf, AgreeBut
<1>2. Weighted(after, CodeLengthBits, RevBits) = Weighted(count, CodeLengthBits, RevBits) + Pow2[RevBits - v]
  BY <1>0, <1>1, WeightedUpdate
<1>3. KeyAfter(count, CodeLengthBits) \in Nat
  BY <1>1, KeyAfterStep
<1> QED BY <1>2, <1>3 DEF Weighted, KeyAfter

\* The length of a code of code lengths is read: f are the fields before, g after.
LEMMA OneMoreRead ==
  ASSUME NEW f, FieldsOK(f), f.space > 0, f.sub_loop_counter < Codes,
         NEW lengths \in [0 .. Codes - 1 -> 0 .. CodeLengthBits],
         NEW histo \in [0 .. MaxLength -> 0 .. Most],
         CodeLengthsRead(f, lengths, histo),
         NEW v \in 1 .. CodeLengthBits, NEW x, NextIs(f, x),
         NEW g, OneMoreField(f, g, v),
         NEW after, after[x] = v, AgreeBut(after, lengths, 0 .. Codes - 1, x),
         NEW counts, OneMoreOf(counts, histo, v)
  PROVE  /\ g.sub_loop_counter \in 0 .. Codes /\ g.repeat \in Nat /\ g.space \in Int /\ g.space <= NoSpace
         /\ counts[v] \in 0 .. Most
         /\ CodeLengthsRead(g, after, counts)
<1> DEFINE w == Pow2[CodeLengthBits - v]
<1> HIDE DEF w
<1>0. /\ MaxLength \in Nat /\ Codes \in Nat /\ Codes >= 7 /\ MaxSymbol \in Nat /\ v \in 0 .. MaxLength
      /\ v \in Nat /\ v # 0 /\ CodeLengthBits \in Nat /\ RevBits \in Nat /\ CodeLengthBits <= RevBits
      /\ \A b \in 1 .. CodeLengthBits : b \in 0 .. MaxLength
  <2>1. /\ MaxLength \in Nat /\ CodeLengthBits \in Nat /\ RevBits \in Nat /\ CodeLengthBits <= RevBits
        /\ CodeLengthBits <= MaxLength
    BY Widths
  <2>2. Codes \in Nat /\ Codes >= 7 /\ MaxSymbol \in Nat
    BY ReaderConstants
  <2> QED BY <2>1, <2>2
<1>1. f.sub_loop_counter \in 0 .. Codes /\ f.repeat \in Nat /\ f.space \in Int /\ f.space <= NoSpace /\ NoSpace \in Nat
  BY Spaces DEF FieldsOK, FieldsType
<1>2. /\ f.sub_loop_counter + 1 \in 1 .. Codes /\ f.sub_loop_counter + 1 \in 0 .. Codes
      /\ \A k \in 1 .. f.sub_loop_counter :
           k \in 1 .. Codes /\ k \in 1 .. f.sub_loop_counter + 1 /\ k # f.sub_loop_counter + 1
  BY <1>0, <1>1, CountUp, Zenon
<1>3. x \in 0 .. Codes - 1
  BY <1>2, ReaderConstants DEF NextIs
<1>4. lengths[x] = 0
  <2> SUFFICES ASSUME lengths[x] # 0 PROVE FALSE
    OBVIOUS
  <2>1. PICK k \in 1 .. f.sub_loop_counter : CodeLengthOrder[k] = x
    BY <1>3 DEF CodeLengthsRead
  <2>2. k \in 1 .. Codes /\ k # f.sub_loop_counter + 1
    BY <1>2
  <2> QED BY <1>2, <2>1, <2>2, ReaderConstants DEF NextIs
<1>5. w = Pow2[CodeLengthBits - v] /\ w \in Nat /\ w >= 1
  <2>1. CodeLengthBits - v \in Nat
    BY <1>0
  <2> QED BY <2>1, PowNat DEF w
<1>6. /\ g.sub_loop_counter = f.sub_loop_counter + 1 /\ g.repeat = f.repeat + 1 /\ g.space = f.space - w
  BY DEF OneMoreField, w
<1>7. g.sub_loop_counter \in 0 .. Codes /\ g.repeat \in Nat /\ g.space \in Int /\ g.space <= NoSpace
  <2>1. g.sub_loop_counter \in 0 .. Codes
    BY <1>2, <1>6, Zenon
  <2>2. g.repeat \in Nat
    BY <1>1, <1>6
  <2>3. g.space \in Int /\ g.space <= NoSpace
    BY <1>1, <1>5, <1>6
  <2> QED BY <2>1, <2>2, <2>3
<1>8. lengths \in [0 .. Codes - 1 -> Nat]
  BY <1>0
<1>9. /\ Cardinality(UsedIn(after, Codes)) = Cardinality(UsedIn(lengths, Codes)) + 1
      /\ Cardinality(Group(after, Codes, v)) = Cardinality(Group(lengths, Codes, v)) + 1
      /\ \A b \in Nat : b # 0 /\ b # v => Group(after, Codes, b) = Group(lengths, Codes, b)
  <2>1. Codes \in Nat /\ v \in Nat /\ v # 0
    BY <1>0
  <2>2. x \in 0 .. Codes - 1 /\ lengths[x] = 0 /\ after[x] = v /\ AgreeBut(after, lengths, 0 .. Codes - 1, x)
    BY <1>3, <1>4
  <2>3. UsesOneMore(after, lengths, Codes, v)
    BY <1>8, <2>1, <2>2, OneMoreUsed
  <2> QED BY <2>3 DEF UsesOneMore
<1>10. \A b \in 1 .. CodeLengthBits : counts[b] = IF b = v THEN histo[b] + 1 ELSE histo[b]
  BY <1>0 DEF OneMoreOf, AgreeBut
<1>11. \A b \in 1 .. CodeLengthBits : counts[b] = Cardinality(Group(after, Codes, b))
  <2> TAKE b \in 1 .. CodeLengthBits
  <2>1. b \in Nat /\ b # 0 /\ histo[b] = Cardinality(Group(lengths, Codes, b))
    BY <1>0 DEF CodeLengthsRead
  <2> QED BY <1>9, <1>10, <2>1
<1>12. counts[v] \in 0 .. Most
  <2>1. Group(after, Codes, v) \in SUBSET (0 .. Codes - 1)
    BY DEF Group
  <2>2. Cardinality(Group(after, Codes, v)) \in Nat /\ Cardinality(Group(after, Codes, v)) <= Codes
    <3>1. Cardinality(0 .. Codes - 1) = Codes /\ IsFiniteSet(0 .. Codes - 1)
      <4>1. Cardinality(0 .. Codes - 1) = Codes
        BY ReaderConstants, Zenon
      <4>2. IsFiniteSet(0 .. Codes - 1)
        <5>1. 0 \in Int /\ Codes - 1 \in Int
          BY <1>0
        <5> QED BY <5>1, FS_Interval
      <4> QED BY <4>1, <4>2
    <3> QED BY <2>1, <3>1, Smaller
  <2>3. counts[v] \in 0 .. Most
    <3>1. Most \in Nat /\ Codes <= Most
      BY <1>0 DEF Most
    <3>2. counts[v] = Cardinality(Group(after, Codes, v))
      BY <1>11
    <3> QED BY <1>0, <2>2, <3>1, <3>2
  <2> QED BY <2>3
<1>13. \A y \in 0 .. Codes - 1 : after[y] # 0 => \E k \in 1 .. g.sub_loop_counter : CodeLengthOrder[k] = y
  <2> TAKE y \in 0 .. Codes - 1
  <2>1. CASE y = x
    <3>1. g.sub_loop_counter \in 1 .. g.sub_loop_counter /\ CodeLengthOrder[g.sub_loop_counter] = x
      BY <1>2, <1>6 DEF NextIs
    <3> QED BY <2>1, <3>1
  <2>2. CASE y # x
    <3> SUFFICES ASSUME after[y] # 0 PROVE \E k \in 1 .. g.sub_loop_counter : CodeLengthOrder[k] = y
      OBVIOUS
    <3>1. lengths[y] # 0
      BY <1>3, <2>2 DEF AgreeBut
    <3>2. PICK k \in 1 .. f.sub_loop_counter : CodeLengthOrder[k] = y
      BY <3>1 DEF CodeLengthsRead
    <3>3. k \in 1 .. g.sub_loop_counter
      BY <1>2, <1>6, Zenon
    <3> QED BY <3>2, <3>3
  <2> QED BY <2>1, <2>2
<1>14. Counts(histo, CodeLengthBits)
  BY <1>0, GroupIs DEF Counts, CodeLengthsRead
<1>15. /\ KeyAfter(counts, CodeLengthBits) = KeyAfter(histo, CodeLengthBits) + Pow2[RevBits - v]
       /\ KeyAfter(histo, CodeLengthBits) \in Nat
  BY <1>14, KeyAfterMore, Zenon
<1>16. Pow2[RevBits - CodeLengthBits] * g.space + KeyAfter(counts, CodeLengthBits) = Pow2[RevBits]
  <2> DEFINE p == Pow2[RevBits - CodeLengthBits]
             k == KeyAfter(histo, CodeLengthBits)
             m == Pow2[RevBits]
  <2>1. Pow2[RevBits - v] = p * w /\ p \in Nat
    <3>1. RevBits - CodeLengthBits \in Nat /\ CodeLengthBits - v \in Nat
          /\ RevBits - v = (RevBits - CodeLengthBits) + (CodeLengthBits - v)
      BY <1>0
    <3>2. /\ Pow2[(RevBits - CodeLengthBits) + (CodeLengthBits - v)]
               = Pow2[RevBits - CodeLengthBits] * Pow2[CodeLengthBits - v]
          /\ Pow2[RevBits - CodeLengthBits] \in Nat
      BY <3>1, PowSum, PowNat, Zenon
    <3> QED BY <1>5, <3>1, <3>2, Zenon
  <2>2. p * f.space + k = m /\ m \in Nat
    BY <1>0, PowNat DEF CodeLengthsRead
  <2>3. k \in Nat
    BY <1>15
  <2> HIDE DEF p, k, m
  <2>5. IsWhole(p, f.space - w, k + p * w, m)
    <3>1. p \in Int /\ w \in Int /\ k \in Int /\ m \in Int /\ f.space \in Int
      BY <1>1, <1>5, <2>1, <2>2, <2>3
    <3>2. IsWhole(p, f.space, k, m)
      BY <2>2 DEF IsWhole
    <3> QED BY <3>1, <3>2, TakeAway, Zenon
  <2>6. p * (f.space - w) + (k + p * w) = m
    BY <2>5 DEF IsWhole
  <2> QED BY <1>6, <1>15, <2>1, <2>6, Zenon DEF p, k, m
<1>17. g.repeat = Cardinality(UsedIn(after, Codes))
  BY <1>6, <1>9 DEF CodeLengthsRead
<1>18. CodeLengthsRead(g, after, counts)
  BY <1>11, <1>13, <1>16, <1>17, Zenon DEF CodeLengthsRead
<1> QED BY <1>7, <1>12, <1>18

\* A length of the code of code lengths is read.
LEMMA ReadCodeLengthCodeLengthKeeps ==
  ASSUME ReaderInv, ReadCodeLengthCodeLength
  PROVE  ReaderInv'
<1>0. /\ Shapes /\ Calls /\ Running /\ ComplexPhase /\ substate = "COMPLEX" /\ Inside /\ ~CodeLengthsEnded
      /\ UNCHANGED <<substate, s, small, table, outcome, codes>>
  BY DEF ReaderInv, ReadCodeLengthCodeLength, Calls
<1>1. /\ FieldsOK(local) /\ FieldsOK(s) /\ Fields = local /\ ChainsOK(chains)
      /\ code_lengths \in [0 .. Codes - 1 -> 0 .. CodeLengthBits]
  BY <1>0 DEF Shapes, Inside, Fields
<1>2. CodeLengthsRead(local, code_lengths, chains.histo)
  BY <1>0, <1>1 DEF ComplexPhase
<1>3. /\ local.space > 0 /\ local.sub_loop_counter < Codes /\ local.sub_loop_counter \in 0 .. Codes
      /\ local.space \in Int
  <2>1. local.space \in Int /\ local.sub_loop_counter \in 0 .. Codes
    BY <1>1 DEF FieldsOK, FieldsType
  <2>2. ~(local.space <= 0) /\ local.sub_loop_counter # Codes /\ Codes \in Nat
    BY <1>0, ReaderConstants DEF CodeLengthsEnded
  <2> QED BY <2>1, <2>2
<1> DEFINE x == CodeLengthOrder[local.sub_loop_counter + 1]
<1>4. x \in 0 .. Codes - 1 /\ NextCodeLengthCode = x /\ Codes \in Nat /\ CodeLengthBits \in Nat
  <2>1. Codes \in Nat /\ local.sub_loop_counter + 1 \in 1 .. Codes
    BY <1>3, ReaderConstants
  <2> QED BY <2>1, ReaderConstants, Widths DEF NextCodeLengthCode
<1>5. PICK v \in CodeLengthChoices[x] :
       /\ code_lengths' = [code_lengths EXCEPT ![x] = v]
       /\ IF v = 0
            THEN local' = [local EXCEPT !.sub_loop_counter = @ + 1] /\ UNCHANGED chains
            ELSE /\ local' = [local EXCEPT !.sub_loop_counter = @ + 1, !.repeat = @ + 1,
                                           !.space = @ - FullSmallSpace \div Pow2[v]]
                 /\ chains' = [chains EXCEPT !.histo[v] = @ + 1]
  BY <1>4 DEF ReadCodeLengthCodeLength
<1>6. v \in 0 .. CodeLengthBits
  BY <1>4, ReaderConstants
<1> HIDE DEF x
<1>7. code_lengths' \in [0 .. Codes - 1 -> 0 .. CodeLengthBits]
  BY <1>1, <1>4, <1>5, <1>6
<1>8. FieldsOK(local') /\ ChainsOK(chains') /\ CodeLengthsRead(local', code_lengths', chains'.histo)
  <2>1. CASE v = 0
    <3>1. local' = [local EXCEPT !.sub_loop_counter = @ + 1] /\ chains' = chains
      BY <1>5, <2>1
    <3>2. local.sub_loop_counter + 1 \in 0 .. Codes
      BY <1>3, <1>4
    <3>3. /\ local' \in FieldsType /\ local'.space = local.space /\ local'.repeat = local.repeat
          /\ local'.sub_loop_counter = local.sub_loop_counter + 1
      BY <1>1, <3>1, <3>2 DEF FieldsOK, FieldsType
    <3>4. code_lengths[x] = 0
      <4> SUFFICES ASSUME code_lengths[x] # 0 PROVE FALSE
        OBVIOUS
      <4>1. PICK k \in 1 .. local.sub_loop_counter : CodeLengthOrder[k] = x
        BY <1>2, <1>4 DEF CodeLengthsRead
      <4>2. k \in 1 .. Codes /\ k # local.sub_loop_counter + 1 /\ local.sub_loop_counter + 1 \in 1 .. Codes
        BY <1>3, <1>4
      <4> QED BY <4>1, <4>2, ReaderConstants DEF x
    <3>5. code_lengths' = code_lengths
      BY <1>1, <1>4, <1>5, <2>1, <3>4
    <3>6. \A k : k \in 1 .. local.sub_loop_counter => k \in 1 .. local'.sub_loop_counter
      BY <1>3, <3>3
    <3>7. CodeLengthsRead(local', code_lengths, chains.histo)
      BY <1>2, <3>3, <3>6 DEF CodeLengthsRead
    <3> QED BY <1>1, <3>1, <3>3, <3>5, <3>7 DEF FieldsOK
  <2>2. CASE v # 0
    <3>1. /\ local' = [local EXCEPT !.sub_loop_counter = @ + 1, !.repeat = @ + 1,
                                    !.space = @ - FullSmallSpace \div Pow2[v]]
          /\ chains' = [chains EXCEPT !.histo[v] = @ + 1]
      BY <1>5, <2>2
    <3>2. v \in 1 .. CodeLengthBits /\ chains.histo \in [0 .. MaxLength -> 0 .. Most]
      BY <1>1, <1>4, <1>6, <2>2 DEF ChainsOK
    <3>3. /\ FieldsOK(local')
          /\ [chains.histo EXCEPT ![v] = @ + 1] \in [0 .. MaxLength -> 0 .. Most]
          /\ CodeLengthsRead(local', [code_lengths EXCEPT ![x] = v], [chains.histo EXCEPT ![v] = @ + 1])
      <4> DEFINE g == local'
                 l == [code_lengths EXCEPT ![x] = v]
                 h == [chains.histo EXCEPT ![v] = @ + 1]
      <4>1. NextIs(local, x)
        BY DEF x, NextIs
      <4>2. /\ g.sub_loop_counter = local.sub_loop_counter + 1 /\ g.repeat = local.repeat + 1
            /\ g.space = local.space - Pow2[CodeLengthBits - v]
        <5>1. FullSmallSpace \div Pow2[v] = Pow2[CodeLengthBits - v]
          BY <1>6, Spaces
        <5> QED BY <1>1, <3>1, <5>1 DEF FieldsOK, FieldsType
      <4>3. l[x] = v /\ AgreeBut(l, code_lengths, 0 .. Codes - 1, x)
        BY <1>1, <1>4 DEF AgreeBut
      <4>4. v \in 0 .. MaxLength
        BY <3>2, Widths
      <4>5. h[v] = chains.histo[v] + 1 /\ AgreeBut(h, chains.histo, 0 .. MaxLength, v)
        BY <3>2, <4>4 DEF AgreeBut
      <4>9. OneMoreOf(h, chains.histo, v) /\ OneMoreField(local, g, v)
        BY <4>2, <4>5 DEF OneMoreOf, OneMoreField
      <4>6. /\ g.sub_loop_counter \in 0 .. Codes /\ g.repeat \in Nat /\ g.space \in Int /\ g.space <= NoSpace
            /\ h[v] \in 0 .. Most
            /\ CodeLengthsRead(g, l, h)
        <5> HIDE DEF g, l, h
        <5> QED BY <1>1, <1>2, <1>3, <3>2, <4>1, <4>3, <4>9, OneMoreRead
      <4>7. h \in [0 .. MaxLength -> 0 .. Most]
        BY <3>2, <4>4, <4>6
      <4>8. g \in FieldsType
        BY <1>1, <3>1, <4>2, <4>6 DEF FieldsOK, FieldsType
      <4> QED BY <4>6, <4>7, <4>8 DEF FieldsOK
    <3>4. ChainsOK(chains') /\ chains'.histo = [chains.histo EXCEPT ![v] = @ + 1]
      BY <1>1, <3>1, <3>3 DEF ChainsOK
    <3> QED BY <1>5, <3>3, <3>4
  <2> QED BY <2>1, <2>2
<1>9. local' # Outside
  BY <1>8, FieldsAre DEF ReaderInv, Shapes
<1>10. Fields' = local'
  BY <1>9 DEF Fields
<1>11. Shapes'
  BY <1>0, <1>7, <1>8 DEF Shapes
<1>12. Calls'
  BY <1>0 DEF Calls, Running
<1>13. SimplePhase' /\ ComplexPhase' /\ LengthsPhase'
  BY <1>0, <1>8, <1>10 DEF SimplePhase, ComplexPhase, LengthsPhase
<1> QED BY <1>11, <1>12, <1>13 DEF ReaderInv

\* The input ends among them.
LEMMA PauseComplexKeeps ==
  ASSUME ReaderInv, PauseComplex
  PROVE  ReaderInv'
<1>0. /\ Shapes /\ Calls /\ Running /\ ComplexPhase /\ substate = "COMPLEX" /\ Inside
      /\ s' = [s EXCEPT !.sub_loop_counter = local.sub_loop_counter, !.repeat = local.repeat,
                        !.space = local.space]
      /\ local' = Outside
      /\ UNCHANGED <<substate, chains, code_lengths, small, table, outcome, codes>>
  BY DEF ReaderInv, PauseComplex, Calls, SavedCodeLengths
<1>1. FieldsOK(local) /\ FieldsOK(s) /\ Fields = local
  BY <1>0 DEF Shapes, Inside, Fields
<1>2. /\ FieldsOK(s') /\ s'.sub_loop_counter = local.sub_loop_counter /\ s'.repeat = local.repeat
      /\ s'.space = local.space
  <2>1. local.sub_loop_counter \in 0 .. Codes /\ local.repeat \in Nat /\ local.space \in Int /\ local.space <= NoSpace
    BY <1>1 DEF FieldsOK, FieldsType
  <2>2. /\ s' \in FieldsType /\ s'.sub_loop_counter = local.sub_loop_counter /\ s'.repeat = local.repeat
        /\ s'.space = local.space
    BY <1>0, <1>1, <2>1 DEF FieldsOK, FieldsType
  <2> QED BY <2>1, <2>2 DEF FieldsOK
<1>3. Fields' = s'
  BY <1>0 DEF Fields
<1>4. CodeLengthsRead(s', code_lengths, chains.histo)
  <2>1. CodeLengthsRead(local, code_lengths, chains.histo)
    BY <1>0, <1>1 DEF ComplexPhase
  <2> QED BY <1>2, <2>1, Zenon DEF CodeLengthsRead
<1>5. Shapes'
  BY <1>0, <1>2 DEF Shapes
<1>6. Calls'
  BY <1>0 DEF Calls, Inside, Running
<1>7. SimplePhase' /\ ComplexPhase' /\ LengthsPhase'
  BY <1>0, <1>3, <1>4 DEF SimplePhase, ComplexPhase, LengthsPhase
<1> QED BY <1>5, <1>6, <1>7 DEF ReaderInv

\* What the code of code lengths is built from.
SmallCode(lengths, histo) ==
  /\ lengths \in [0 .. Codes - 1 -> 0 .. CodeLengthBits]
  /\ \A b \in 1 .. CodeLengthBits : histo[b] = Cardinality(Group(lengths, Codes, b))
  /\ Cardinality(UsedIn(lengths, Codes)) = 1 \/ KeyAfter(histo, CodeLengthBits) = Pow2[RevBits]

\* The table of a whole code of code lengths has only its symbols as values.
LEMMA SmallTableOK ==
  ASSUME NEW lengths, NEW histo, SmallCode(lengths, histo)
  PROVE  SmallOK(BuildCodeLengthsHuffmanTable(lengths, histo, Codes))
<1> DEFINE t == BuildCodeLengthsHuffmanTable(lengths, histo, Codes)
<1>0. CodeLengthCodes = 0 .. Codes - 1 /\ Codes \in Nat
  BY ReaderConstants
<1>1. CASE Cardinality(UsedIn(lengths, Codes)) = 1
  <2> DEFINE x == CHOOSE y \in UsedIn(lengths, Codes) : TRUE
  <2>1. t = [i \in 0 .. Pow2[CodeLengthBits] - 1 |-> HuffmanCode(0, x)]
    BY <1>1 DEF BuildCodeLengthsHuffmanTable, UsedIn
  <2>2. x \in 0 .. Codes - 1
    <3>1. UsedIn(lengths, Codes) # {}
      BY <1>1, FS_EmptySet
    <3>2. x \in UsedIn(lengths, Codes)
      BY <3>1
    <3> QED BY <3>2 DEF UsedIn
  <2> HIDE DEF t, x
  <2> QED BY <1>0, <2>1, <2>2 DEF SmallOK, HuffmanCode, t
<1>2. CASE Cardinality(UsedIn(lengths, Codes)) # 1
  <2>1. /\ lengths \in [0 .. Codes - 1 -> 0 .. CodeLengthBits]
        /\ \A b \in 1 .. CodeLengthBits : histo[b] = Cardinality(Group(lengths, Codes, b))
        /\ KeyAfter(histo, CodeLengthBits) = Pow2[RevBits]
    BY <1>2 DEF SmallCode
  <2>2. ASSUME NEW i \in 0 .. Pow2[CodeLengthBits] - 1
        PROVE  DOMAIN t = 0 .. Pow2[CodeLengthBits] - 1 /\ t[i].value \in UsedIn(lengths, Codes)
    BY <1>0, <1>2, <2>1, SmallTableEntry
  <2>3. 0 \in 0 .. Pow2[CodeLengthBits] - 1
    <3>1. Pow2[CodeLengthBits] \in Nat \ {0}
      BY Widths, PowNat
    <3> QED BY <3>1
  <2>4. DOMAIN t = 0 .. Pow2[CodeLengthBits] - 1
    BY <2>2, <2>3
  <2>5. UsedIn(lengths, Codes) \subseteq CodeLengthCodes
    BY <1>0 DEF UsedIn
  <2> HIDE DEF t
  <2> QED BY <2>2, <2>4, <2>5 DEF SmallOK, t
<1> QED BY <1>1, <1>2

\* The fields at the start of the lengths.
LEMMA StartLengthsOK == FieldsOK(StartLengths) /\ StartLengths.repeat = 0 /\ StartLengths.symbol = 0
<1>1. FullSpace \in Int /\ FullSpace <= NoSpace /\ DefaultLength \in 0 .. MaxLength
      /\ 0 \in 0 .. Codes /\ 0 \in 0 .. MaxSymbol
  BY Spaces, ReaderConstants, Widths
<1>2. StartLengths \in FieldsType /\ StartLengths.space = FullSpace
  BY <1>1 DEF StartLengths, FieldsType
<1> QED BY <1>1, <1>2 DEF FieldsOK, StartLengths

\* The lists at the start of the lengths.
LEMMA EmptyChainsOK ==
  ASSUME ChainsOK(chains)
  PROVE  ChainsOK(EmptyChains) /\ EmptyChains.histo = [b \in 0 .. MaxLength |-> 0]
<1>0. MaxLength \in Nat /\ MaxSymbol \in Nat /\ MaxSymbol >= 4 /\ Codes \in Nat
  BY Widths, ReaderConstants
<1> DEFINE l == [i \in DOMAIN chains.lists |->
                   IF i \in -SymbolListsIndex .. -1 THEN ListEnd ELSE chains.lists[i]]
           n == [b \in 0 .. MaxLength |-> b - SymbolListsIndex]
           h == [b \in 0 .. MaxLength |-> 0]
<1>1. l \in [Places -> ListEnd .. MaxSymbol - 1]
  <2>1. ListEnd \in ListEnd .. MaxSymbol - 1
    BY <1>0 DEF ListEnd
  <2>2. chains.lists \in [Places -> ListEnd .. MaxSymbol - 1]
    BY DEF ChainsOK
  <2> QED BY <2>1, <2>2
<1>2. n \in [0 .. MaxLength -> Places]
  BY <1>0 DEF Places, SymbolListsIndex
<1>3. h \in [0 .. MaxLength -> 0 .. Most]
  BY <1>0 DEF Most
<1>4. EmptyChains = [lists |-> l, next |-> n, histo |-> h]
  BY DEF EmptyChains
<1> HIDE DEF l, n, h
<1>5. ChainsOK(EmptyChains) /\ EmptyChains.histo = h
  BY <1>1, <1>2, <1>3, <1>4 DEF ChainsOK
<1> QED BY <1>5 DEF h

\* Where no room is left, or one symbol was read.
LEMMA CodeIsWhole ==
  ASSUME NEW f, NEW lengths \in [0 .. Codes - 1 -> 0 .. CodeLengthBits], NEW histo,
         CodeLengthsRead(f, lengths, histo), f.repeat = 1 \/ f.space = 0
  PROVE  SmallCode(lengths, histo)
<1>1. \/ Cardinality(UsedIn(lengths, Codes)) = 1
      \/ KeyAfter(histo, CodeLengthBits) = Pow2[RevBits]
  <2>1. CASE f.repeat = 1
    BY <2>1 DEF CodeLengthsRead
  <2>2. CASE f.space = 0
    <3> DEFINE p == Pow2[RevBits - CodeLengthBits]
               k == KeyAfter(histo, CodeLengthBits)
    <3>1. p \in Nat
      <4>1. RevBits - CodeLengthBits \in Nat
        BY Widths
      <4> QED BY <4>1, PowNat
    <3>2. k \in Nat
      <4>1. Counts(histo, CodeLengthBits)
        <5>1. Codes \in Nat
          BY ReaderConstants
        <5> QED BY <5>1, GroupIs DEF Counts, CodeLengthsRead
      <4>2. CodeLengthBits \in 0 .. RevBits /\ CodeLengthBits \in 0 .. CodeLengthBits
        BY Widths
      <4> QED BY <4>1, <4>2, KeyAfterStep
    <3>3. p * f.space + k = Pow2[RevBits]
      BY DEF CodeLengthsRead
    <3> HIDE DEF p, k
    <3>4. p * f.space = 0
      BY <2>2, <3>1
    <3> QED BY <3>2, <3>3, <3>4 DEF k
  <2> QED BY <2>1, <2>2
<1> QED BY <1>1 DEF SmallCode, CodeLengthsRead

\* The code of code lengths is complete.
LEMMA EndCodeLengthsKeeps ==
  ASSUME ReaderInv, EndCodeLengths
  PROVE  ReaderInv'
<1>0. /\ Shapes /\ Calls /\ Running /\ ComplexPhase /\ substate = "COMPLEX" /\ Inside /\ CodeLengthsEnded
      /\ UNCHANGED <<table, codes>>
  BY DEF ReaderInv, EndCodeLengths, Calls
<1>1. /\ FieldsOK(local) /\ FieldsOK(s) /\ Fields = local /\ ChainsOK(chains)
      /\ code_lengths \in [0 .. Codes - 1 -> 0 .. CodeLengthBits]
  BY <1>0 DEF Shapes, Inside, Fields
<1>2. CodeLengthsRead(local, code_lengths, chains.histo)
  BY <1>0, <1>1 DEF ComplexPhase
<1>3. CASE ~(local.repeat = 1 \/ local.space = 0)
  <2>1. Fail("CL_SPACE") /\ UNCHANGED <<substate, s, chains, code_lengths, small>>
    BY <1>3 DEF EndCodeLengths
  <2> QED BY <1>0, <2>1, FailKeeps
<1>4. CASE local.repeat = 1 \/ local.space = 0
  <2>1. /\ small' = BuildCodeLengthsHuffmanTable(code_lengths, chains.histo, Codes)
        /\ chains' = EmptyChains
        /\ s' = StartLengths
        /\ code_lengths' = [x \in 0 .. Codes - 1 |-> 0]
        /\ substate' = "LENGTH_SYMBOLS"
        /\ local' = Outside
        /\ UNCHANGED outcome
    BY <1>4, ReaderConstants DEF EndCodeLengths
  <2>2. SmallCode(code_lengths, chains.histo)
    BY <1>1, <1>2, <1>4, CodeIsWhole
  <2>3. SmallOK(small')
    BY <2>1, <2>2, SmallTableOK
  <2>4. FieldsOK(s') /\ s'.repeat = 0 /\ s'.symbol = 0
    BY <2>1, StartLengthsOK
  <2>5. ChainsOK(chains') /\ chains'.histo = [b \in 0 .. MaxLength |-> 0]
    BY <1>1, <2>1, EmptyChainsOK
  <2>6. code_lengths' \in [0 .. Codes - 1 -> 0 .. CodeLengthBits]
    BY <2>1, Widths
  <2>7. Shapes'
    BY <1>0, <2>1, <2>3, <2>4, <2>5, <2>6 DEF Shapes
  <2>8. Calls'
    BY <1>0, <2>1 DEF Calls, Inside, Running
  <2>9. LengthsRead(s', chains'.histo)
    BY <2>4, <2>5 DEF LengthsRead
  <2>10. Fields' = s'
    BY <2>1 DEF Fields
  <2>11. SimplePhase' /\ ComplexPhase' /\ LengthsPhase'
    BY <2>1, <2>9, <2>10 DEF SimplePhase, ComplexPhase, LengthsPhase
  <2> QED BY <2>7, <2>8, <2>11 DEF ReaderInv
<1> QED BY <1>3, <1>4

---------------------------------------------------------------------------

\* The step of either loop over the lengths.
LEMMA LengthStepKeeps ==
  ASSUME ReaderInv, Running, substate = "LENGTH_SYMBOLS",
         NEW g, FieldsOK(g), Update(g), ChainsOK(chains'), LengthsRead(g, chains'.histo),
         UNCHANGED <<substate, code_lengths, small, table, outcome, codes>>
  PROVE  ReaderInv'
<1>0. Shapes /\ Calls
  BY DEF ReaderInv
<1>1. \A f : FieldsOK(f) => f # Outside
  BY <1>0, FieldsAre DEF Shapes
<1>2. \/ Inside /\ local' = g /\ s' = s
      \/ local = Outside /\ s' = g /\ local' = Outside
  BY DEF Update, Inside
<1>3. Fields' = g
  BY <1>1, <1>2 DEF Fields
<1>4. Shapes'
  BY <1>0, <1>2 DEF Shapes
<1>5. Calls'
  BY <1>0, <1>2 DEF Calls, Inside, Running
<1>6. SimplePhase' /\ ComplexPhase' /\ LengthsPhase'
  BY <1>3 DEF SimplePhase, ComplexPhase, LengthsPhase
<1> QED BY <1>4, <1>5, <1>6 DEF ReaderInv

\* Symbols are linked to the list of their length.
LEMMA ExtendedOK ==
  ASSUME ChainsOK(chains), NEW length \in 0 .. MaxLength, NEW first \in Nat, NEW n \in Nat, n >= 1,
         first + n <= MaxSymbol, \A b \in 0 .. MaxLength : chains.histo[b] <= first
  PROVE  /\ ChainsOK(Extended(length, first, n))
         /\ \A b \in 0 .. MaxLength : Extended(length, first, n).histo[b] <= first + n
<1>0. MaxLength \in Nat /\ MaxSymbol \in Nat /\ Codes \in Nat
  BY Widths, ReaderConstants
<1>c. /\ chains.lists \in [Places -> ListEnd .. MaxSymbol - 1]
      /\ chains.next \in [0 .. MaxLength -> Places]
      /\ chains.histo \in [0 .. MaxLength -> 0 .. Most]
  BY DEF ChainsOK
<1> DEFINE Linked(i) == IF i = chains.next[length] THEN first
                        ELSE IF i \in first .. first + n - 2 THEN i + 1 ELSE chains.lists[i]
           l == [i \in DOMAIN chains.lists |-> Linked(i)]
           x == [chains.next EXCEPT ![length] = first + n - 1]
           h == [chains.histo EXCEPT ![length] = @ + n]
<1>1. l \in [Places -> ListEnd .. MaxSymbol - 1]
  <2>1. ASSUME NEW i \in Places PROVE Linked(i) \in ListEnd .. MaxSymbol - 1
    <3>1. chains.lists[i] \in ListEnd .. MaxSymbol - 1
      BY <1>c
    <3>2. first \in ListEnd .. MaxSymbol - 1
      BY <1>0 DEF ListEnd
    <3>3. ASSUME i \in first .. first + n - 2 PROVE i + 1 \in ListEnd .. MaxSymbol - 1
      BY <1>0, <3>3 DEF ListEnd
    <3> QED BY <3>1, <3>2, <3>3
  <2> HIDE DEF Linked
  <2> QED BY <1>c, <2>1
<1>2. x \in [0 .. MaxLength -> Places]
  <2>1. first + n - 1 \in Places
    BY <1>0 DEF Places, SymbolListsIndex
  <2> QED BY <1>c, <2>1
<1>3. \A b \in 0 .. MaxLength : h[b] \in 0 .. Most /\ h[b] <= first + n
  <2> TAKE b \in 0 .. MaxLength
  <2>1. chains.histo[b] \in 0 .. Most /\ chains.histo[b] <= first /\ Most \in Nat /\ MaxSymbol <= Most
    BY <1>0, <1>c DEF Most
  <2>2. h[b] = IF b = length THEN chains.histo[b] + n ELSE chains.histo[b]
    BY <1>c
  <2> HIDE DEF h
  <2> QED BY <1>0, <2>1, <2>2
<1>4. h \in [0 .. MaxLength -> 0 .. Most]
  <2>1. DOMAIN h = 0 .. MaxLength /\ h = [b \in 0 .. MaxLength |-> h[b]]
    BY <1>c
  <2> HIDE DEF h
  <2> QED BY <1>3, <2>1
<1>5. Extended(length, first, n) = [lists |-> l, next |-> x, histo |-> h]
  BY DEF Extended
<1> HIDE DEF l, x, h
<1> QED BY <1>1, <1>2, <1>3, <1>4, <1>5 DEF ChainsOK

\* The fields after a length.
LEMMA SingleOK ==
  ASSUME NEW f, FieldsOK(f), f.symbol < MaxSymbol, NEW length \in 0 .. MaxLength
  PROVE  LET g == ProcessSingleCodeLength(f, length)
         IN  FieldsOK(g) /\ g.symbol = f.symbol + 1 /\ g.repeat = 0
<1> DEFINE g == ProcessSingleCodeLength(f, length)
           w == FullSpace \div Pow2[length]
<1>1. w \in Nat
  BY Spaces
<1> HIDE DEF w
<1>2. f.symbol \in 0 .. MaxSymbol /\ f.space \in Int /\ f.space <= NoSpace /\ f.prev_code_len \in 0 .. MaxLength
      /\ NoSpace \in Nat /\ MaxSymbol \in Nat /\ f \in FieldsType
  BY Spaces, ReaderConstants DEF FieldsOK, FieldsType
<1>3. f.symbol + 1 \in 0 .. MaxSymbol
  BY <1>2
<1>4. f.space - w \in Int /\ f.space - w <= NoSpace
  BY <1>1, <1>2
<1>5. g = [f EXCEPT !.symbol = f.symbol + 1, !.repeat = 0,
                    !.prev_code_len = IF length = 0 THEN f.prev_code_len ELSE length,
                    !.space = IF length = 0 THEN f.space ELSE f.space - w]
  BY DEF ProcessSingleCodeLength, w
<1> HIDE DEF g
<1>6. /\ g \in FieldsType /\ g.symbol = f.symbol + 1 /\ g.repeat = 0
      /\ g.space = IF length = 0 THEN f.space ELSE f.space - w
  BY <1>2, <1>3, <1>4, <1>5 DEF FieldsType
<1>7. g.space <= NoSpace
  BY <1>2, <1>4, <1>6
<1> QED BY <1>6, <1>7 DEF FieldsOK, g

\* A length is read.
LEMMA ReadLengthKeeps ==
  ASSUME ReaderInv, NEW code_len \in 0 .. MaxLength, ReadLength(code_len)
  PROVE  ReaderInv'
<1> DEFINE f == Fields
           g == ProcessSingleCodeLength(Fields, code_len)
<1>0. /\ Shapes /\ Calls /\ Running /\ LengthsPhase /\ substate = "LENGTH_SYMBOLS" /\ f.symbol < MaxSymbol
      /\ Update(g)
      /\ chains' = IF code_len = 0 THEN chains ELSE Extended(code_len, f.symbol, 1)
      /\ UNCHANGED <<substate, code_lengths, small, table, outcome, codes>>
  BY DEF ReaderInv, ReadLength, MoreLengths
<1>1. FieldsOK(f) /\ ChainsOK(chains) /\ LengthsRead(f, chains.histo)
  BY <1>0, FieldsAre DEF Shapes, LengthsPhase
<1>2. f.symbol \in 0 .. MaxSymbol /\ MaxSymbol \in Nat
  BY <1>1, ReaderConstants DEF FieldsOK, FieldsType
<1>3. FieldsOK(g) /\ g.symbol = f.symbol + 1 /\ g.repeat = 0
  BY <1>0, <1>1, SingleOK
<1>4. \A b \in 0 .. MaxLength : chains.histo[b] <= f.symbol
  BY <1>1 DEF LengthsRead
<1> HIDE DEF f, g
<1>5. f.symbol \in Nat /\ f.symbol + 1 <= MaxSymbol
  BY <1>0, <1>2
<1>6. ChainsOK(chains') /\ \A b \in 0 .. MaxLength : chains'.histo[b] <= f.symbol + 1
  <2>1. CASE code_len = 0
    <3>1. \A b \in 0 .. MaxLength : chains.histo[b] \in Int
      BY <1>1, Widths, ReaderConstants DEF ChainsOK, Most
    <3>2. chains' = chains
      BY <1>0, <2>1
    <3> QED BY <1>1, <1>4, <1>5, <3>1, <3>2
  <2>2. CASE code_len # 0
    <3>1. chains' = Extended(code_len, f.symbol, 1)
      BY <1>0, <2>2
    <3> QED BY <1>1, <1>4, <1>5, <3>1, ExtendedOK
  <2> QED BY <2>1, <2>2
<1>7. LengthsRead(g, chains'.histo)
  BY <1>3, <1>6 DEF LengthsRead
<1> QED BY <1>0, <1>3, <1>6, <1>7, LengthStepKeeps

---------------------------------------------------------------------------
(* Steps that read the lengths.                                            *)

\* The fields after a code of a run.
LEMMA RepeatedOK ==
  ASSUME NEW f, FieldsOK(f), f.repeat = 0 \/ f.repeat >= 3,
         NEW code_len \in {RepeatCode, RepeatCode + 1}, NEW delta \in Nat
  PROVE  LET g == ProcessRepeatedCodeLength(f, code_len, delta)
             n == RunDelta(f, code_len, delta)
         IN  /\ FieldsOK(g) /\ g.repeat >= 3
             /\ g.symbol = IF Fits(f, n) THEN f.symbol + n ELSE MaxSymbol
<1> DEFINE g == ProcessRepeatedCodeLength(f, code_len, delta)
           n == RunDelta(f, code_len, delta)
           new == NewRun(f, code_len, delta)
           length == RunLength(f, code_len)
           w == n * (FullSpace \div Pow2[length])
<1>1. new \in Nat /\ new >= 3 /\ n \in Nat /\ n >= 1 /\ length \in 0 .. MaxLength
  BY RunIs
<1>2. FullSpace \div Pow2[length] \in Nat
  BY <1>1, Spaces
<1>3. w \in Nat
  <2> DEFINE q == FullSpace \div Pow2[length]
  <2>1. q \in Nat
    BY <1>2
  <2>2. n * q \in Nat
    <3> HIDE DEF q, n
    <3> QED BY <1>1, <2>1
  <2> QED BY <2>2
<1>4. f.symbol \in 0 .. MaxSymbol /\ f.space \in Int /\ f.space <= NoSpace
      /\ NoSpace \in Nat /\ MaxSymbol \in Nat /\ f \in FieldsType
  BY Spaces, ReaderConstants DEF FieldsOK, FieldsType
<1>5. length \in Nat
  BY <1>1, Widths
<1>6. g = IF Fits(f, n)
            THEN [f EXCEPT !.repeat = new, !.repeat_code_len = length, !.symbol = f.symbol + n,
                           !.space = IF length = 0 THEN f.space ELSE f.space - w]
            ELSE [f EXCEPT !.repeat = new, !.repeat_code_len = length, !.symbol = MaxSymbol, !.space = NoSpace]
  BY <1>4 DEF ProcessRepeatedCodeLength, FieldsType
<1> HIDE DEF g, n, new, length, w
<1>7. CASE Fits(f, n)
  <2>1. f.symbol + n \in 0 .. MaxSymbol
    BY <1>1, <1>4, <1>7 DEF Fits
  <2>2. f.space - w \in Int /\ f.space - w <= NoSpace
    BY <1>3, <1>4
  <2>3. g = [f EXCEPT !.repeat = new, !.repeat_code_len = length, !.symbol = f.symbol + n,
                      !.space = IF length = 0 THEN f.space ELSE f.space - w]
    BY <1>6, <1>7
  <2>4. /\ g \in FieldsType /\ g.repeat = new /\ g.symbol = f.symbol + n
        /\ g.space = IF length = 0 THEN f.space ELSE f.space - w
    BY <1>1, <1>4, <1>5, <2>1, <2>2, <2>3 DEF FieldsType
  <2>5. g.space <= NoSpace
    BY <1>4, <2>2, <2>4
  <2> QED BY <1>1, <1>7, <2>4, <2>5 DEF FieldsOK, g, n
<1>8. CASE ~Fits(f, n)
  <2>1. g = [f EXCEPT !.repeat = new, !.repeat_code_len = length, !.symbol = MaxSymbol, !.space = NoSpace]
    BY <1>6, <1>8
  <2>2. MaxSymbol \in 0 .. MaxSymbol /\ NoSpace \in Int /\ NoSpace <= NoSpace
    BY <1>4
  <2>3. g \in FieldsType /\ g.repeat = new /\ g.symbol = MaxSymbol /\ g.space = NoSpace
    BY <1>1, <1>4, <1>5, <2>1, <2>2 DEF FieldsType
  <2> QED BY <1>1, <1>8, <2>2, <2>3 DEF FieldsOK, g, n
<1> QED BY <1>7, <1>8

\* A code of a run is read.
LEMMA ReadRunKeeps ==
  ASSUME ReaderInv, NEW code_len \in {RepeatCode, RepeatCode + 1}, NEW delta \in Nat, ReadRun(code_len, delta)
  PROVE  ReaderInv'
<1> DEFINE f == Fields
           g == ProcessRepeatedCodeLength(Fields, code_len, delta)
           n == RunDelta(Fields, code_len, delta)
           length == RunLength(Fields, code_len)
<1>0. /\ Shapes /\ Calls /\ Running /\ LengthsPhase /\ substate = "LENGTH_SYMBOLS"
      /\ Update(g)
      /\ chains' = IF length = 0 \/ ~Fits(f, n) THEN chains ELSE Extended(length, f.symbol, n)
      /\ UNCHANGED <<substate, code_lengths, small, table, outcome, codes>>
  BY DEF ReaderInv, ReadRun, MoreLengths
<1>1. FieldsOK(f) /\ ChainsOK(chains) /\ LengthsRead(f, chains.histo)
  BY <1>0, FieldsAre DEF Shapes, LengthsPhase
<1>2. f.symbol \in 0 .. MaxSymbol /\ MaxSymbol \in Nat
  BY <1>1, ReaderConstants DEF FieldsOK, FieldsType
<1>3. f.repeat = 0 \/ f.repeat >= 3
  BY <1>1 DEF LengthsRead
<1>4. FieldsOK(g) /\ g.repeat >= 3 /\ g.symbol = IF Fits(f, n) THEN f.symbol + n ELSE MaxSymbol
  BY <1>1, <1>3, RepeatedOK
<1>5. n \in Nat /\ n >= 1 /\ length \in 0 .. MaxLength
  BY <1>1, <1>3, RunIs
<1>6. \A b \in 0 .. MaxLength : chains.histo[b] <= f.symbol
  BY <1>1 DEF LengthsRead
<1>7. \A b \in 0 .. MaxLength : chains.histo[b] \in Int
  BY <1>1, Widths, ReaderConstants DEF ChainsOK, Most
<1> HIDE DEF f, g, n, length
<1>8. ChainsOK(chains') /\ \A b \in 0 .. MaxLength : chains'.histo[b] <= g.symbol
  <2>1. CASE length = 0 \/ ~Fits(f, n)
    <3>1. chains' = chains
      BY <1>0, <2>1
    <3>2. f.symbol <= g.symbol /\ g.symbol \in Int /\ f.symbol \in Int
      BY <1>2, <1>4, <1>5
    <3> QED BY <1>1, <1>6, <1>7, <3>1, <3>2
  <2>2. CASE ~(length = 0 \/ ~Fits(f, n))
    <3>1. chains' = Extended(length, f.symbol, n) /\ f.symbol + n <= MaxSymbol /\ g.symbol = f.symbol + n
      BY <1>0, <1>4, <2>2 DEF Fits
    <3>2. f.symbol \in Nat
      BY <1>2
    <3> QED BY <1>1, <1>5, <1>6, <3>1, <3>2, ExtendedOK
  <2> QED BY <2>1, <2>2
<1>9. LengthsRead(g, chains'.histo)
  BY <1>4, <1>8 DEF LengthsRead
<1> QED BY <1>0, <1>4, <1>8, <1>9, LengthStepKeeps

\* The fast loop ends, its copies are saved.
LEMMA FastEndsKeeps ==
  ASSUME ReaderInv, FastEnds
  PROVE  ReaderInv'
<1>0. /\ Shapes /\ Calls /\ Running /\ LengthsPhase /\ substate = "LENGTH_SYMBOLS" /\ Inside
      /\ s' = local /\ local' = Outside
      /\ UNCHANGED <<substate, chains, code_lengths, small, table, outcome, codes>>
  BY DEF ReaderInv, FastEnds, Calls, FastSaved
<1>1. FieldsOK(local) /\ Fields = local /\ Fields' = local
  BY <1>0 DEF Shapes, Inside, Fields
<1>2. Shapes'
  BY <1>0, <1>1 DEF Shapes
<1>3. Calls'
  BY <1>0 DEF Calls, Inside, Running
<1>4. SimplePhase' /\ ComplexPhase' /\ LengthsPhase'
  BY <1>0, <1>1 DEF SimplePhase, ComplexPhase, LengthsPhase
<1> QED BY <1>2, <1>3, <1>4 DEF ReaderInv

\* The lengths are complete: the table is built, or there is none.
LEMMA EndLengthsKeeps ==
  ASSUME ReaderInv, EndLengths
  PROVE  ReaderInv'
<1>0. /\ Shapes /\ Calls /\ Running /\ substate = "LENGTH_SYMBOLS"
      /\ local' = Outside
      /\ UNCHANGED <<code_lengths, small>>
  BY DEF ReaderInv, EndLengths
<1>1. FieldsOK(s) /\ FieldsOK(Fields) /\ ChainsOK(chains)
  BY <1>0, FieldsAre DEF Shapes
<1>2. CASE Fields.space # 0
  <2>1. /\ outcome' = "HUFFMAN_SPACE" /\ s' = StartLengths
        /\ UNCHANGED <<substate, chains, table, codes>>
    BY <1>2 DEF EndLengths
  <2>2. FieldsOK(s')
    BY <2>1, StartLengthsOK
  <2>3. Shapes'
    BY <1>0, <2>1, <2>2 DEF Shapes
  <2>4. Calls'
    BY <1>0, <2>1 DEF Calls, Inside, Running
  <2>5. SimplePhase' /\ ComplexPhase' /\ LengthsPhase'
    BY <1>0, <2>1 DEF SimplePhase, ComplexPhase, LengthsPhase, Running
  <2> QED BY <2>3, <2>4, <2>5 DEF ReaderInv
<1>3. CASE ~(Fields.space # 0)
  <2> DEFINE symbolsOf == [length \in 1 .. MaxLength |-> Chain(length)]
             b == BuildHuffmanTable(symbolsOf, chains.histo)
  <2>1. /\ s' = [s EXCEPT !.space = Fields.space]
        /\ chains' = [chains EXCEPT !.histo = b.count]
        /\ Built(b.table)
    BY <1>3 DEF EndLengths
  <2> HIDE DEF symbolsOf
  <2>2. chains.histo \in [0 .. MaxLength -> 0 .. Most] /\ chains.histo \in [0 .. MaxLength -> Nat]
    <3>1. Most \in Nat
      BY Widths, ReaderConstants DEF Most
    <3>2. chains.histo \in [0 .. MaxLength -> 0 .. Most]
      BY <1>1 DEF ChainsOK
    <3> QED BY <3>1, <3>2
  <2>3. /\ 0 \in DOMAIN b.table /\ b.count \in [0 .. MaxLength -> Nat]
        /\ \A l \in 0 .. MaxLength : b.count[l] <= chains.histo[l]
    BY <2>2, BuiltTable
  <2> DEFINE c == b.count
             t == b.table
  <2>4. c \in [0 .. MaxLength -> 0 .. Most]
    <3>1. Most \in Nat
      BY Widths, ReaderConstants DEF Most
    <3>2. \A l \in 0 .. MaxLength : c[l] \in Nat /\ c[l] <= chains.histo[l] /\ chains.histo[l] \in 0 .. Most
      BY <2>2, <2>3
    <3>3. c \in [0 .. MaxLength -> Nat]
      BY <2>3
    <3> HIDE DEF b, c
    <3>4. \A l \in 0 .. MaxLength : c[l] \in 0 .. Most
      BY <3>1, <3>2
    <3> QED BY <3>3, <3>4
  <2> HIDE DEF b
  <2>5. 0 \in DOMAIN t /\ Built(t) /\ chains' = [chains EXCEPT !.histo = c]
    BY <2>1, <2>3
  <2> HIDE DEF c, t
  <2>6. ChainsOK(chains')
    BY <1>1, <2>4, <2>5 DEF ChainsOK
  <2>7. FieldsOK(s')
    <3>1. Fields.space \in Int /\ Fields.space <= NoSpace
      BY <1>1 DEF FieldsOK, FieldsType
    <3>2. s' \in FieldsType /\ s'.space = Fields.space
      BY <1>1, <2>1, <3>1 DEF FieldsOK, FieldsType
    <3> QED BY <3>1, <3>2 DEF FieldsOK
  <2> QED BY <1>0, <2>5, <2>6, <2>7, BuiltKeeps
<1> QED BY <1>2, <1>3

\* The next code is asked for.
LEMMA NextCodeKeeps ==
  ASSUME ReaderInv, NextCode
  PROVE  ReaderInv'
<1>0. /\ Shapes /\ Calls /\ outcome = "SUCCESS" /\ codes < MaxCodes /\ outcome' = "reading" /\ table' = NoTable
      /\ UNCHANGED <<substate, s, local, chains, code_lengths, small, codes>>
  BY DEF ReaderInv, NextCode
<1>1. substate = "NONE" /\ local = Outside
  BY <1>0 DEF Calls, Inside, Running
<1>2. Shapes'
  BY <1>0 DEF Shapes
<1>3. Calls'
  BY <1>0, <1>1 DEF Calls, Inside, Running
<1>4. SimplePhase' /\ ComplexPhase' /\ LengthsPhase'
  BY <1>0, <1>1 DEF SimplePhase, ComplexPhase, LengthsPhase
<1> QED BY <1>2, <1>3, <1>4 DEF ReaderInv

\* Every step keeps the invariant.
LEMMA StepKeepsInv == ReaderInv /\ [Next]_vars => ReaderInv'
<1> SUFFICES ASSUME ReaderInv, [Next]_vars PROVE ReaderInv'
  OBVIOUS
<1>0. /\ \A delta \in 0 .. Pow2[RepeatBits] - 1 : delta \in Nat
      /\ \A delta \in 0 .. Pow2[ZeroBits] - 1 : delta \in Nat
  <2>1. Pow2[RepeatBits] \in Nat /\ Pow2[ZeroBits] \in Nat
    BY ReaderConstants, PowNat
  <2> QED BY <2>1
<1>1. CASE ReadKind
  BY <1>1, ReadKindKeeps
<1>2. CASE ReadSimpleSize
  BY <1>2, ReadSimpleSizeKeeps
<1>3. CASE EnterSimple
  BY <1>3, EnterKeeps DEF EnterSimple
<1>4. CASE ReadSimpleSymbol
  BY <1>4, ReadSimpleSymbolKeeps
<1>5. CASE PauseSimple
  BY <1>5, PauseSimpleKeeps
<1>6. CASE EndSimple
  BY <1>6, EndSimpleKeeps
<1>7. CASE BuildSimple
  BY <1>7, BuildSimpleKeeps
<1>8. CASE EnterComplex
  BY <1>8, EnterKeeps DEF EnterComplex
<1>9. CASE ReadCodeLengthCodeLength
  BY <1>9, ReadCodeLengthCodeLengthKeeps
<1>10. CASE PauseComplex
  BY <1>10, PauseComplexKeeps
<1>11. CASE EndCodeLengths
  BY <1>11, EndCodeLengthsKeeps
<1>12. ASSUME NEW code_len \in 0 .. MaxLength, ReadLength(code_len) PROVE ReaderInv'
  BY <1>12, ReadLengthKeeps
<1>13. ASSUME NEW delta \in Nat, ReadRun(RepeatCode, delta) PROVE ReaderInv'
  BY <1>13, ReadRunKeeps
<1>14. ASSUME NEW delta \in Nat, ReadRun(RepeatCode + 1, delta) PROVE ReaderInv'
  BY <1>14, ReadRunKeeps
<1>15. CASE EnterFast
  BY <1>15, EnterKeeps DEF EnterFast
<1>16. CASE FastEnds
  BY <1>16, FastEndsKeeps
<1>17. CASE EndLengths
  BY <1>17, EndLengthsKeeps
<1>18. CASE NextCode
  BY <1>18, NextCodeKeeps
<1>19. CASE UNCHANGED vars
  BY <1>19 DEF vars, ReaderInv, Shapes, Calls, SimplePhase, ComplexPhase, LengthsPhase, Inside, Running, Fields
<1> QED BY <1>0, <1>1, <1>2, <1>3, <1>4, <1>5, <1>6, <1>7, <1>8, <1>9, <1>10, <1>11, <1>12, <1>13, <1>14, <1>15,
           <1>16, <1>17, <1>18, <1>19 DEF Next

\* The invariant says what the type invariant does.
LEMMA InvIsTyped == ReaderInv => TypeOK
<1> SUFFICES ASSUME ReaderInv PROVE TypeOK
  OBVIOUS
<1>0. Shapes /\ Calls
  BY DEF ReaderInv
<1>1. FieldsOK(s) /\ FieldsOK(Fields) /\ ChainsOK(chains)
  BY <1>0, FieldsAre DEF Shapes
<1>2. Len(CodeLengthOrder) = Codes /\ MaxSymbol \in Nat /\ Codes \in Nat /\ CodeLengthCodes = 0 .. Codes - 1
  BY ReaderConstants
<1>3. \A f \in {s, Fields} :
       /\ f.sub_loop_counter \in 0 .. Len(CodeLengthOrder)
       /\ f.symbol \in 0 .. MaxSymbol
       /\ {f.repeat, f.repeat_code_len} \subseteq Nat
       /\ f.space \in Int /\ f.space <= NoSpace
       /\ f.prev_code_len \in 0 .. MaxLength
  <2> SUFFICES ASSUME NEW f, FieldsOK(f)
               PROVE /\ f.sub_loop_counter \in 0 .. Codes
                     /\ f.symbol \in 0 .. MaxSymbol
                     /\ {f.repeat, f.repeat_code_len} \subseteq Nat
                     /\ f.space \in Int /\ f.space <= NoSpace
                     /\ f.prev_code_len \in 0 .. MaxLength
    BY <1>1, <1>2
  <2> QED BY DEF FieldsOK, FieldsType
<1>4. /\ chains.lists \in [Places -> ListEnd .. MaxSymbol - 1]
      /\ \A b \in 0 .. MaxLength : chains.next[b] \in Places
      /\ \A b \in 0 .. MaxLength : chains.histo[b] \in 0 .. Most
  BY <1>1 DEF ChainsOK
<1>5. Most = Max({MaxSymbol, Codes})
  <2>1. \A x, y \in {MaxSymbol, Codes} : x >= y \/ y >= x
    BY <1>2
  <2>2. Most \in {MaxSymbol, Codes} /\ \A y \in {MaxSymbol, Codes} : Most >= y
    BY <1>2 DEF Most
  <2>3. \A x \in {MaxSymbol, Codes} : (\A y \in {MaxSymbol, Codes} : x >= y) => x = Most
    BY <1>2 DEF Most
  <2> QED BY <2>2, <2>3 DEF Max
<1>6. /\ code_lengths \in [CodeLengthCodes -> 0 .. CodeLengthBits]
      /\ \A i \in DOMAIN small : small[i].value \in CodeLengthCodes
  BY <1>0, <1>2 DEF Shapes, SmallOK
<1>7. outcome = "SUCCESS" <=> table # NoTable
  BY <1>0 DEF Calls
<1>8. /\ substate \in {"NONE", "SIMPLE_SIZE", "SIMPLE_READ", "SIMPLE_BUILD", "COMPLEX", "LENGTH_SYMBOLS"}
      /\ outcome \in {"reading", "SUCCESS", "SIMPLE_HUFFMAN_ALPHABET", "SIMPLE_HUFFMAN_SAME",
                  "CL_SPACE", "HUFFMAN_SPACE"}
      /\ codes \in 0 .. MaxCodes
  BY <1>0 DEF Shapes
<1>9. \A b \in 0 .. MaxLength : chains.histo[b] \in 0 .. Max({MaxSymbol, Len(CodeLengthOrder)})
  BY <1>2, <1>4, <1>5
<1> QED BY <1>3, <1>4, <1>6, <1>7, <1>8, <1>9, Zenon DEF TypeOK, Places

\* The reader's invariant, for every alphabet, every stream and every pause: the
\* space left and the codes read of a code of code lengths add up, so the key of its
\* last code is the last, and its table is only built from a whole code.
THEOREM ReaderInvariant == Spec => []ReaderInv
<1> QED BY InitInv, StepKeepsInv, PTL DEF Spec

\* The fields, the copies of them, the lists, the counts and the values of the table
\* of code lengths stay in their ranges: no list is left, no symbol is beyond the
\* alphabet, no count beyond the number of symbols.
THEOREM ReaderTypeCorrect == Spec => []TypeOK
<1> QED BY ReaderInvariant, InvIsTyped, PTL

---------------------------------------------------------------------------
(* The code of code lengths, in the words of the abstract specification.   *)

\* The abstract specification's powers and sums are the same.
LEMMA MeaningPow == Meaning!Pow2 = Pow2
  BY DEF Meaning!Pow2, Pow2

LEMMA MeaningSum == ASSUME NEW f PROVE Meaning!SumFunction(f) = SumFunction(f)
  BY Zenon DEF Meaning!SumFunction, SumFunction, SumFunctionOnSet, Meaning!SumFunctionOnSet, FoldFunctionOnSet,
             Meaning!FoldFunctionOnSet, Meaning!MapThenFoldSet, MapThenFoldSet

CodesBefore(c, x) == {y \in DOMAIN c : c[y] < c[x] \/ (c[y] = c[x] /\ y < x)}

\* The first word of a symbol, as the abstract specification has it.
LEMMA MeaningFirstWord ==
  ASSUME NEW c, NEW x, NEW w
  PROVE  Meaning!FirstWord(c, x, w) = SumFunction([y \in CodesBefore(c, x) |-> Pow2[w - c[y]]])
  BY MeaningPow, MeaningSum DEF Meaning!FirstWord, Meaning!Before, CodesBefore

\* The words of a symbol, as the abstract specification has them.
LEMMA MeaningWords ==
  ASSUME NEW c, NEW x \in DOMAIN c, NEW w
  PROVE  Meaning!WordsOf(c, w)[x]
           = Meaning!FirstWord(c, x, w) .. Meaning!FirstWord(c, x, w) + Pow2[w - c[x]] - 1
  BY MeaningPow DEF Meaning!WordsOf

\* A code of code lengths of a single symbol.
LEMMA SmallDecodesOne ==
  ASSUME NEW lengths, NEW histo, SmallCode(lengths, histo), Cardinality(UsedIn(lengths, Codes)) = 1
  PROVE  SmallDecodes(BuildCodeLengthsHuffmanTable(lengths, histo, Codes), lengths)
<1> DEFINE t == BuildCodeLengthsHuffmanTable(lengths, histo, Codes)
           used == UsedIn(lengths, Codes)
           W == CodeLengthBits
           x == CHOOSE y \in used : TRUE
           given == [y \in used |-> 0]
<1>0. CodeLengthCodes = 0 .. Codes - 1 /\ Codes \in Nat /\ W \in Nat /\ Pow2[W] \in Nat \ {0}
  BY ReaderConstants, Widths, PowNat
<1>1. t = [i \in 0 .. Pow2[W] - 1 |-> HuffmanCode(0, x)]
  BY DEF BuildCodeLengthsHuffmanTable, UsedIn
<1>2. used = {y \in CodeLengthCodes : lengths[y] # 0}
  BY <1>0 DEF UsedIn
<1>3. used = {x}
  <2>1. PICK y : used = {y}
    <3>1. IsFiniteSet(used)
      <4>1. used \in SUBSET (0 .. Codes - 1) /\ IsFiniteSet(0 .. Codes - 1)
        BY <1>0, FS_Interval DEF UsedIn
      <4> QED BY <4>1, FS_Subset
    <3> QED BY <3>1, FS_Singleton
  <2> HIDE DEF used
  <2> QED BY <2>1
<1>4. x \in 0 .. Codes - 1 /\ x \in Nat
  BY <1>0, <1>2, <1>3
<1>5. Words(W) = 0 .. Pow2[W] - 1
  BY DEF Words
<1> HIDE DEF x, used, t
<1>6. \A w \in Words(W) : t[w].value = x /\ t[w].bits = 0
  BY <1>1, <1>5 DEF HuffmanCode
<1>7. 0 \in Words(W)
  BY <1>0, <1>5
<1>8. used = {t[w].value : w \in Words(W)}
  BY <1>3, <1>6, <1>7
<1>9. Meaning!WordsOf(given, W)[x] = 0 .. Pow2[W] - 1
  <2>1. x \in DOMAIN given /\ given[x] = 0 /\ W - 0 = W
    BY <1>0, <1>3
  <2>2. CodesBefore(given, x) = {}
    BY <1>3, <1>4 DEF CodesBefore
  <2>3. Meaning!FirstWord(given, x, W) = 0
    <3> DEFINE f == [y \in CodesBefore(given, x) |-> Pow2[W - given[y]]]
    <3>1. DOMAIN f = {}
      BY <2>2
    <3>2. Meaning!FirstWord(given, x, W) = SumFunction(f)
      BY MeaningFirstWord
    <3> HIDE DEF f
    <3> QED BY <3>1, <3>2, SumEmpty
  <2>4. Meaning!WordsOf(given, W)[x]
           = Meaning!FirstWord(given, x, W) .. Meaning!FirstWord(given, x, W) + Pow2[W - given[x]] - 1
    BY <2>1, MeaningWords
  <2> HIDE DEF given
  <2>5. Meaning!WordsOf(given, W)[x] = 0 .. 0 + Pow2[W] - 1
    BY <2>1, <2>3, <2>4
  <2> QED BY <1>0, <2>5
<1>10. \A w \in Words(W) : /\ t[w].bits = given[t[w].value]
                           /\ Reversed(w, W) \in Meaning!WordsOf(given, W)[t[w].value]
  <2> TAKE w \in Words(W)
  <2>1. t[w].value = x /\ t[w].bits = 0 /\ given[x] = 0
    BY <1>3, <1>6
  <2>2. Reversed(w, W) \in 0 .. Pow2[W] - 1
    <3>1. w \in Nat
      BY <1>0, <1>5
    <3> QED BY <1>0, <3>1, ReversedType
  <2> QED BY <1>9, <2>1, <2>2
<1>11. [y \in used |-> IF Cardinality(used) = 1 THEN 0 ELSE lengths[y]] = given
  BY DEF used
<1> HIDE DEF given
<1> QED BY <1>2, <1>8, <1>10, <1>11, Zenon DEF SmallDecodes, t, used

\* A code of code lengths of more symbols.
LEMMA SmallDecodesMore ==
  ASSUME NEW lengths, NEW histo, SmallCode(lengths, histo), Cardinality(UsedIn(lengths, Codes)) # 1
  PROVE  SmallDecodes(BuildCodeLengthsHuffmanTable(lengths, histo, Codes), lengths)
<1> DEFINE t == BuildCodeLengthsHuffmanTable(lengths, histo, Codes)
           used == UsedIn(lengths, Codes)
           W == CodeLengthBits
           given == [y \in used |-> lengths[y]]
<1>0. CodeLengthCodes = 0 .. Codes - 1 /\ Codes \in Nat /\ W \in Nat /\ Words(W) = 0 .. Pow2[W] - 1
  BY ReaderConstants, Widths DEF Words
<1>1. /\ lengths \in [0 .. Codes - 1 -> 0 .. W]
      /\ \A b \in 1 .. W : histo[b] = Cardinality(Group(lengths, Codes, b))
      /\ KeyAfter(histo, W) = Pow2[RevBits]
  BY DEF SmallCode
<1>2. used = {y \in CodeLengthCodes : lengths[y] # 0}
  BY <1>0 DEF UsedIn
<1>3. ASSUME NEW x \in used
      PROVE  /\ Meaning!WordsOf(given, W)[x]
                  = LET first == Weights(lengths, WordsBefore(lengths, Codes, x), W)
                    IN  first .. first + Pow2[W - lengths[x]] - 1
             /\ given[x] = lengths[x]
  <2>1. x \in DOMAIN given /\ given[x] = lengths[x]
    OBVIOUS
  <2>2. CodesBefore(given, x) = WordsBefore(lengths, Codes, x)
    BY DEF CodesBefore, WordsBefore
  <2>3. [y \in CodesBefore(given, x) |-> Pow2[W - given[y]]]
          = [y \in WordsBefore(lengths, Codes, x) |-> Pow2[W - lengths[y]]]
    <3>1. \A y \in WordsBefore(lengths, Codes, x) : given[y] = lengths[y]
      BY DEF WordsBefore
    <3> HIDE DEF given
    <3> QED BY <2>2, <3>1
  <2>4. Meaning!FirstWord(given, x, W) = Weights(lengths, WordsBefore(lengths, Codes, x), W)
    <3>1. Meaning!FirstWord(given, x, W) = SumFunction([y \in CodesBefore(given, x) |-> Pow2[W - given[y]]])
      BY MeaningFirstWord
    <3> QED BY <2>3, <3>1 DEF Weights
  <2>5. Meaning!WordsOf(given, W)[x]
           = Meaning!FirstWord(given, x, W) .. Meaning!FirstWord(given, x, W) + Pow2[W - given[x]] - 1
    BY <2>1, MeaningWords
  <2> HIDE DEF given
  <2> QED BY <2>1, <2>4, <2>5
<1> HIDE DEF given
<1>4. ASSUME NEW w \in Words(W)
      PROVE  /\ t[w].value \in used /\ t[w].bits = given[t[w].value]
             /\ Reversed(w, W) \in Meaning!WordsOf(given, W)[t[w].value]
  <2> DEFINE x == t[w].value
             first == Weights(lengths, WordsBefore(lengths, Codes, x), W)
  <2>1. w \in 0 .. Pow2[W] - 1
    BY <1>0
  <2>2. /\ x \in used /\ t[w].bits = lengths[x]
        /\ Reversed(w, W) \in first .. first + Pow2[W - lengths[x]] - 1
    BY <1>0, <1>1, <2>1, SmallTableEntry
  <2> HIDE DEF t, x, used
  <2>3. Meaning!WordsOf(given, W)[x] = first .. first + Pow2[W - lengths[x]] - 1 /\ given[x] = lengths[x]
    BY <1>3, <2>2
  <2> QED BY <2>2, <2>3 DEF x
<1>5. ASSUME NEW x \in used PROVE \E w \in Words(W) : t[w].value = x
  <2>1. x \in UsedIn(lengths, Codes)
    BY <1>5
  <2>2. \E w \in 0 .. Pow2[W] - 1 : BuildCodeLengthsHuffmanTable(lengths, histo, Codes)[w].value = x
    BY <1>0, <1>1, <2>1, SmallTableHasAll
  <2> HIDE DEF used
  <2> QED BY <1>0, <2>2
<1> HIDE DEF t, used
<1>6. used = {t[w].value : w \in Words(W)}
  BY <1>4, <1>5
<1>7. [y \in used |-> IF Cardinality(used) = 1 THEN 0 ELSE lengths[y]] = given
  BY DEF used, given
<1> QED BY <1>2, <1>4, <1>6, <1>7, Zenon DEF SmallDecodes, t, used

\* Only one step goes on to the lengths.
LEMMA OnlyEndCodeLengths ==
  ASSUME Next, substate = "COMPLEX", substate' = "LENGTH_SYMBOLS"
  PROVE  EndCodeLengths
<1>1. substate' # substate /\ substate # "NONE" /\ substate # "SIMPLE_SIZE" /\ substate # "SIMPLE_READ"
      /\ substate # "SIMPLE_BUILD" /\ substate # "LENGTH_SYMBOLS"
  OBVIOUS
<1>2. ~ReadKind /\ ~ReadSimpleSize /\ ~EnterSimple /\ ~ReadSimpleSymbol /\ ~PauseSimple /\ ~EndSimple /\ ~BuildSimple
  BY <1>1 DEF ReadKind, ReadSimpleSize, EnterSimple, Enter, ReadSimpleSymbol, PauseSimple, EndSimple, BuildSimple
<1>3. ~EnterComplex /\ ~ReadCodeLengthCodeLength /\ ~PauseComplex
  BY <1>1 DEF EnterComplex, Enter, ReadCodeLengthCodeLength, PauseComplex
<1>4. \A code_len, delta : ~ReadLength(code_len) /\ ~ReadRun(code_len, delta)
  BY <1>1 DEF ReadLength, ReadRun
<1>5. ~EnterFast /\ ~FastEnds /\ ~EndLengths /\ ~NextCode
  BY <1>1 DEF EnterFast, Enter, FastEnds, EndLengths, NextCode
<1> QED BY <1>2, <1>3, <1>4, <1>5 DEF Next

\* It builds a table that decodes the code that was read.
LEMMA EndedCodeDecodes ==
  ASSUME ReaderInv, EndCodeLengths, substate' = "LENGTH_SYMBOLS"
  PROVE  SmallDecodes(small', code_lengths)
<1>0. Shapes /\ Calls /\ ComplexPhase /\ substate = "COMPLEX" /\ Inside /\ Running
  BY DEF ReaderInv, EndCodeLengths, Calls
<1>1. local.repeat = 1 \/ local.space = 0
  BY <1>0 DEF EndCodeLengths
<1>2. small' = BuildCodeLengthsHuffmanTable(code_lengths, chains.histo, Codes)
  BY <1>1, ReaderConstants DEF EndCodeLengths
<1>3. SmallCode(code_lengths, chains.histo)
  <2>1. Fields = local /\ code_lengths \in [0 .. Codes - 1 -> 0 .. CodeLengthBits]
    BY <1>0 DEF Shapes, Inside, Fields
  <2>2. CodeLengthsRead(local, code_lengths, chains.histo)
    BY <1>0, <2>1 DEF ComplexPhase
  <2> QED BY <1>1, <2>1, <2>2, CodeIsWhole
<1> QED BY <1>2, <1>3, SmallDecodesOne, SmallDecodesMore

\* Whenever the reader goes on to the lengths, pauses or not, the table of the code
\* of code lengths decodes every word of CodeLengthBits bits as the canonical code
\* of the lengths that were read (BrotliBuildCodeLengthsHuffmanTable).
THEOREM SmallCodeCorrect == Spec => SmallCodeIsAsRead
<1> DEFINE Ends == substate = "COMPLEX" /\ substate' = "LENGTH_SYMBOLS" => SmallDecodes(small', code_lengths)
<1>1. ReaderInv /\ [Next]_vars => [Ends]_vars
  <2> SUFFICES ASSUME ReaderInv, Next, substate = "COMPLEX", substate' = "LENGTH_SYMBOLS"
               PROVE  SmallDecodes(small', code_lengths)
    OBVIOUS
  <2> QED BY OnlyEndCodeLengths, EndedCodeDecodes
<1>2. Spec => []ReaderInv
  BY ReaderInvariant
<1>3. Spec => [][Ends]_vars
  <2> HIDE DEF Ends
  <2> QED BY <1>1, <1>2, PTL DEF Spec
<1> QED BY <1>3 DEF SmallCodeIsAsRead

---------------------------------------------------------------------------
(* A table that decodes, in the words of the abstract specification.       *)

\* The first word of a symbol of the code c, and all its words.
FirstCode(c, x) == SumFunction([y \in CodesBefore(c, x) |-> Pow2[MaxLength - c[y]]])

CodeWords(c, x) == FirstCode(c, x) .. FirstCode(c, x) + Pow2[MaxLength - c[x]] - 1

\* The input w is decoded to the symbol x.
DecodedTo(t, w, c, x) == DecodeSymbol(w, t) = HuffmanCode(c[x], x)

\* The table is that of the canonical code of the lengths c.
CodeTable(t, c) ==
  /\ \A w \in Inputs : \E x \in DOMAIN c : DecodedTo(t, w, c, x) /\ Reversed(w, MaxLength) \in CodeWords(c, x)
  /\ \A x \in DOMAIN c : \E w \in Inputs : DecodedTo(t, w, c, x)
  /\ \A w \in Inputs : \E bound : Entries(t, w, bound)

\* The lengths a table decodes are those of its code.
LEMMA LengthsAre ==
  ASSUME NEW t, NEW c, c = [x \in DOMAIN c |-> c[x]], CodeTable(t, c)
  PROVE  LengthsOf(t) = c
<1> DEFINE decoded == {DecodeSymbol(w, t) : w \in Words(MaxLength)}
           values == {d.value : d \in decoded}
<1>1. Words(MaxLength) = Inputs
  BY DEF Words, Inputs
<1>2. \A w \in Inputs : \E x \in DOMAIN c : DecodedTo(t, w, c, x)
  BY DEF CodeTable
<1>3. \A x \in DOMAIN c : \E w \in Inputs : DecodedTo(t, w, c, x)
  BY DEF CodeTable
<1>4. \A x, len : HuffmanCode(len, x).value = x /\ HuffmanCode(len, x).bits = len
  BY DEF HuffmanCode
<1>5. \A d \in decoded : d.value \in DOMAIN c /\ d.bits = c[d.value]
  <2> SUFFICES ASSUME NEW w \in Inputs
               PROVE  DecodeSymbol(w, t).value \in DOMAIN c /\ DecodeSymbol(w, t).bits = c[DecodeSymbol(w, t).value]
    BY <1>1
  <2>1. PICK x \in DOMAIN c : DecodeSymbol(w, t) = HuffmanCode(c[x], x)
    BY <1>2 DEF DecodedTo
  <2> QED BY <1>4, <2>1
<1>6. \A x \in DOMAIN c : \E d \in decoded : d.value = x
  <2> TAKE x \in DOMAIN c
  <2>1. PICK w \in Inputs : DecodeSymbol(w, t) = HuffmanCode(c[x], x)
    BY <1>3 DEF DecodedTo
  <2>2. DecodeSymbol(w, t) \in decoded
    BY <1>1
  <2> QED BY <1>4, <2>1, <2>2
<1> HIDE DEF decoded
<1>7. values = DOMAIN c
  BY <1>5, <1>6
<1>8. \A x \in values : (CHOOSE d \in decoded : d.value = x).bits = c[x]
  <2> TAKE x \in values
  <2> DEFINE e == CHOOSE d \in decoded : d.value = x
  <2>1. e \in decoded /\ e.value = x
    <3>1. \E d \in decoded : d.value = x
      BY <1>6, <1>7
    <3> QED BY <3>1
  <2> HIDE DEF e
  <2>2. e.bits = c[x]
    BY <1>5, <2>1
  <2> QED BY <2>2 DEF e
<1>9. LengthsOf(t) = [x \in values |-> (CHOOSE d \in decoded : d.value = x).bits]
  BY DEF LengthsOf, decoded
<1> HIDE DEF values
<1> QED BY <1>7, <1>8, <1>9

\* What TableDecodes says of a table.
DecodesAll(t) ==
  LET words == Meaning!WordsOf(LengthsOf(t), MaxLength)
  IN  /\ \A w \in Words(MaxLength) : Reversed(w, MaxLength) \in words[DecodeSymbol(w, t).value]
      /\ \A available \in 0 .. MaxLength : \A w \in Words(available) :
           LET whole == DecodeSymbol(w, t)
           IN  SafeDecodeSymbol(w, available, t) = IF whole.bits <= available THEN whole ELSE Fails

\* The table of a canonical code decodes, whole inputs and parts of them.
LEMMA CodeTableDecodes ==
  ASSUME NEW t, NEW c, c = [x \in DOMAIN c |-> c[x]], CodeTable(t, c)
  PROVE  DecodesAll(t)
<1>1. LengthsOf(t) = c
  BY LengthsAre
<1>2. \A x \in DOMAIN c : Meaning!WordsOf(c, MaxLength)[x] = CodeWords(c, x)
  <2> TAKE x \in DOMAIN c
  <2>1. Meaning!WordsOf(c, MaxLength)[x]
          = Meaning!FirstWord(c, x, MaxLength) .. Meaning!FirstWord(c, x, MaxLength) + Pow2[MaxLength - c[x]] - 1
    BY MeaningWords
  <2>2. Meaning!FirstWord(c, x, MaxLength) = FirstCode(c, x)
    BY MeaningFirstWord DEF FirstCode
  <2> QED BY <2>1, <2>2 DEF CodeWords
<1>3. ASSUME NEW w \in Words(MaxLength)
      PROVE  Reversed(w, MaxLength) \in Meaning!WordsOf(c, MaxLength)[DecodeSymbol(w, t).value]
  <2>1. PICK x \in DOMAIN c : DecodedTo(t, w, c, x) /\ Reversed(w, MaxLength) \in CodeWords(c, x)
    BY DEF Words, Inputs, CodeTable
  <2>2. DecodeSymbol(w, t).value = x
    BY <2>1 DEF DecodedTo, HuffmanCode
  <2> QED BY <1>2, <2>1, <2>2
<1>4. ASSUME NEW available \in 0 .. MaxLength, NEW w \in Words(available)
      PROVE  SafeDecodeSymbol(w, available, t)
               = IF DecodeSymbol(w, t).bits <= available THEN DecodeSymbol(w, t) ELSE Fails
  <2>1. w \in 0 .. Pow2[available] - 1
    BY DEF Words
  <2>2. w \in Inputs
    <3>1. Pow2[available] \in Nat /\ Pow2[MaxLength] \in Nat /\ Pow2[available] <= Pow2[MaxLength]
      BY MoreWidths, PowNat, PowGrows
    <3> QED BY <2>1, <3>1 DEF Inputs
  <2>3. PICK bound : Entries(t, w, bound)
    BY <2>2 DEF CodeTable
  <2> QED BY <2>1, <2>3, CarefulDecodes DEF Careful
<1> QED BY <1>1, <1>3, <1>4 DEF DecodesAll

\* The code of the symbols with a length.
LengthsIn(lengths, n) == [x \in UsedIn(lengths, n) |-> lengths[x]]

\* The codes before one, by weights.
LEMMA CodesBeforeAre ==
  ASSUME NEW n \in Nat, NEW lengths, NEW x \in UsedIn(lengths, n)
  PROVE  FirstCode(LengthsIn(lengths, n), x) = Weights(lengths, WordsBefore(lengths, n, x), MaxLength)
<1> DEFINE c == LengthsIn(lengths, n)
<1>1. DOMAIN c = UsedIn(lengths, n) /\ \A y \in UsedIn(lengths, n) : c[y] = lengths[y]
  BY DEF LengthsIn
<1> HIDE DEF c
<1>2. CodesBefore(c, x) = WordsBefore(lengths, n, x)
  BY <1>1 DEF CodesBefore, WordsBefore
<1>3. \A y \in WordsBefore(lengths, n, x) : c[y] = lengths[y]
  BY <1>1 DEF WordsBefore
<1>4. [y \in CodesBefore(c, x) |-> Pow2[MaxLength - c[y]]]
        = [y \in WordsBefore(lengths, n, x) |-> Pow2[MaxLength - lengths[y]]]
  BY <1>2, <1>3
<1> QED BY <1>4 DEF FirstCode, Weights, c

\* Its words are those of its place in the list of its length.
LEMMA ListedWords ==
  ASSUME NEW n \in Nat, NEW lengths \in [0 .. n - 1 -> 0 .. MaxLength], NEW count, Counts(count, MaxLength), NEW symbolsOf,
         Listing(lengths, n, count, symbolsOf, MaxLength), NEW len \in 1 .. MaxLength, NEW k \in 1 .. count[len]
  PROVE  LET x == symbolsOf[len][k]
         IN  /\ x \in UsedIn(lengths, n) /\ lengths[x] = len
             /\ \A v \in Nat : WordIn(count, len, k, v) => v \in CodeWords(LengthsIn(lengths, n), x)
<1> DEFINE x == symbolsOf[len][k]
           p == Pow2[MaxLength - len]
           first == FirstCode(LengthsIn(lengths, n), x)
<1>0. MaxLength \in Nat
  BY MoreWidths
<1>1. x \in 0 .. n - 1 /\ lengths[x] = len /\ Cardinality(Below(Group(lengths, n, len), x)) = k - 1
  BY DEF Listing, Group
<1> HIDE DEF x
<1>2. x \in UsedIn(lengths, n)
  BY <1>1 DEF UsedIn
<1>3. first = FirstOf(count, len, k)
  <2>1. first = Weights(lengths, WordsBefore(lengths, n, x), MaxLength)
    BY <1>2, CodesBeforeAre
  <2>2. \A b \in 1 .. MaxLength : count[b] = Cardinality(Group(lengths, n, b))
    BY DEF Listing
  <2>3. Weights(lengths, WordsBefore(lengths, n, x), MaxLength)
          = Weighted(count, lengths[x] - 1, MaxLength)
              + Cardinality(Below(Group(lengths, n, lengths[x]), x)) * Pow2[MaxLength - lengths[x]]
    BY <1>0, <1>1, <2>2, FirstWordIs
  <2> QED BY <1>1, <2>1, <2>3 DEF FirstOf
<1>4. FirstOf(count, len, k + 1) = FirstOf(count, len, k) + p /\ FirstOf(count, len, k) \in Nat /\ p \in Nat \ {0}
  BY CodePlace
<1>5. CodeWords(LengthsIn(lengths, n), x) = first .. first + p - 1
  <2>1. LengthsIn(lengths, n)[x] = len
    BY <1>1, <1>2 DEF LengthsIn
  <2> QED BY <2>1 DEF CodeWords
<1> HIDE DEF first, p
<1>6. ASSUME NEW v \in Nat, WordIn(count, len, k, v) PROVE v \in CodeWords(LengthsIn(lengths, n), x)
  <2>1. first <= v /\ v < first + p
    BY <1>3, <1>4, <1>6 DEF WordIn
  <2>2. v \in first .. first + p - 1
    BY <1>3, <1>4, <2>1
  <2> QED BY <1>5, <2>2
<1> QED BY <1>1, <1>2, <1>6 DEF x

\* A table built from a listing of the symbols of each length is that of the code.
LEMMA ListingDecodes ==
  ASSUME NEW n \in Nat, NEW lengths \in [0 .. n - 1 -> 0 .. MaxLength], NEW count, CompleteCounts(count),
         NEW symbolsOf, Listing(lengths, n, count, symbolsOf, MaxLength), NEW t,
         \A w \in Inputs : \E bound \in Nat : Settled(t, symbolsOf, count, w, bound)
  PROVE  CodeTable(t, LengthsIn(lengths, n))
<1> DEFINE c == LengthsIn(lengths, n)
<1>0. Counts(count, MaxLength) /\ MaxLength \in Nat
  <2>1. MaxLength \in Nat
    BY MoreWidths
  <2>2. \A b \in 1 .. MaxLength : b \in 0 .. MaxLength
    BY <2>1
  <2> QED BY <2>1, <2>2 DEF CompleteCounts, Counts
<1>1. \A w \in Inputs : Right(t, symbolsOf, count, w) /\ \E bound : Entries(t, w, bound)
  BY DEF Settled
<1>2. DOMAIN c = UsedIn(lengths, n) /\ \A x \in UsedIn(lengths, n) : c[x] = lengths[x]
  BY DEF LengthsIn
<1> HIDE DEF c
<1>3. ASSUME NEW w \in Inputs
      PROVE  \E x \in DOMAIN c : DecodedTo(t, w, c, x) /\ Reversed(w, MaxLength) \in CodeWords(c, x)
  <2>1. PICK len \in 1 .. MaxLength : \E k \in 1 .. count[len] :
          /\ WordIn(count, len, k, Reversed(w, MaxLength))
          /\ DecodeSymbol(w, t) = HuffmanCode(len, symbolsOf[len][k])
    BY <1>1 DEF Right, WordIn
  <2>2. PICK k \in 1 .. count[len] :
          /\ WordIn(count, len, k, Reversed(w, MaxLength))
          /\ DecodeSymbol(w, t) = HuffmanCode(len, symbolsOf[len][k])
    BY <2>1
  <2> DEFINE x == symbolsOf[len][k]
  <2>3. Reversed(w, MaxLength) \in Nat
    BY WordSplit, MoreWidths DEF Inputs
  <2>4. /\ x \in UsedIn(lengths, n) /\ lengths[x] = len
        /\ \A v \in Nat : WordIn(count, len, k, v) => v \in CodeWords(LengthsIn(lengths, n), x)
    BY <1>0, ListedWords
  <2> HIDE DEF x
  <2>5. x \in DOMAIN c /\ c[x] = len /\ Reversed(w, MaxLength) \in CodeWords(c, x)
    BY <1>2, <2>2, <2>3, <2>4 DEF c
  <2>6. DecodedTo(t, w, c, x)
    BY <2>2, <2>5 DEF DecodedTo, x
  <2> QED BY <2>5, <2>6
<1>4. ASSUME NEW x \in DOMAIN c PROVE \E w \in Inputs : DecodedTo(t, w, c, x)
  <2>1. x \in 0 .. n - 1 /\ lengths[x] \in 1 .. MaxLength /\ c[x] = lengths[x]
    <3>1. x \in UsedIn(lengths, n)
      BY <1>2
    <3>2. x \in 0 .. n - 1 /\ lengths[x] # 0
      BY <3>1 DEF UsedIn
    <3>3. lengths[x] \in 0 .. MaxLength
      BY <3>2
    <3> QED BY <1>0, <1>2, <3>1, <3>2, <3>3
  <2>2. lengths \in [0 .. n - 1 -> Nat]
    <3>1. \A j \in 0 .. MaxLength : j \in Nat
      BY <1>0
    <3> QED BY <3>1
  <2>3. HasCode(symbolsOf, lengths, x, MaxLength, count)
    BY <1>0, <2>1, <2>2, SymbolIsListed
  <2>4. \E len \in 1 .. MaxLength : \E k \in 1 .. count[len] : len = lengths[x] /\ symbolsOf[len][k] = x
    <3>1. PICK d \in CodesUpTo(MaxLength, count) : d[1] = lengths[x] /\ symbolsOf[d[1]][d[2]] = x
      BY <2>3 DEF HasCode
    <3>2. PICK b \in 1 .. MaxLength : \E k \in 1 .. count[b] : d = <<b, k>>
      BY DEF CodesUpTo
    <3>3. PICK k \in 1 .. count[b] : d = <<b, k>>
      BY <3>2
    <3> QED BY <3>1, <3>3
  <2>5. PICK len \in 1 .. MaxLength : \E k \in 1 .. count[len] : len = lengths[x] /\ symbolsOf[len][k] = x
    BY <2>4
  <2>6. PICK k \in 1 .. count[len] : len = lengths[x] /\ symbolsOf[len][k] = x
    BY <2>5
  <2>7. PICK w \in Inputs : DecodeSymbol(w, t) = HuffmanCode(len, symbolsOf[len][k])
    <3>1. AllRight(t, symbolsOf, count)
      BY <1>1 DEF AllRight
    <3> QED BY <3>1, CodeIsDecoded
  <2> QED BY <2>1, <2>6, <2>7 DEF DecodedTo
<1> QED BY <1>1, <1>3, <1>4 DEF CodeTable, c

---------------------------------------------------------------------------
(* The lists of the symbols of each length: a list is linked through one array*)
(* from its head on.                                                       *)

\* From the head on, lists leads from each member of G to the next one; last is
\* where it ends.
Thread(lists, last, G, head) ==
  /\ last \in G \cup {head}
  /\ \A y \in G : y <= last
  /\ \A p \in G \cup {head} : p # last =>
       lists[p] \in G /\ lists[p] > p /\ \A y \in G : y > p => lists[p] <= y

\* n more members, from first on, follow the last one.
LongerThread(more, lists, last, first, n, G, head) ==
  \A i \in G \cup {head} \cup (first .. first + n - 1) :
    more[i] = IF i = last THEN first
              ELSE IF i \in first .. first + n - 2 THEN i + 1 ELSE lists[i]

\* A list with n symbols more at its end.
LEMMA ThreadGrows ==
  ASSUME NEW first \in Nat, NEW n \in Nat, n >= 1, NEW G \in SUBSET (0 .. first - 1), NEW head \in Int, head < 0,
         NEW lists, NEW last, Thread(lists, last, G, head),
         NEW more, LongerThread(more, lists, last, first, n, G, head)
  PROVE  Thread(more, first + n - 1, G \cup (first .. first + n - 1), head)
<1> DEFINE A == first .. first + n - 1
           H == G \cup A
           end == first + n - 1
<1>1. \A y \in G : y \in Nat /\ y < first
  OBVIOUS
<1>2. \A y \in A : y \in Nat /\ y >= first /\ y <= end
  OBVIOUS
<1>3. end \in A /\ first \in A /\ end \in Nat
  OBVIOUS
<1>4. last \in Int /\ last < first /\ last \in G \cup {head} /\ \A y \in G : y <= last
  BY <1>1 DEF Thread
<1>5. end \in H \cup {head} /\ \A y \in H : y <= end
  BY <1>1, <1>2, <1>3
<1>6. ASSUME NEW p \in G \cup {head}
      PROVE  more[p] \in H /\ more[p] > p /\ \A y \in H : y > p => more[p] <= y
  <2>1. p \in Int /\ p < first /\ p \notin first .. first + n - 2
    BY <1>1
  <2>2. more[p] = IF p = last THEN first ELSE lists[p]
    BY <2>1 DEF LongerThread
  <2>3. CASE p = last
    <3>1. \A y \in H : y > p => first <= y
      BY <1>1, <1>2, <1>4, <2>3
    <3> QED BY <1>3, <2>1, <2>2, <2>3, <3>1
  <2>4. CASE p # last
    <3>1. lists[p] \in G /\ lists[p] > p /\ \A y \in G : y > p => lists[p] <= y
      BY <2>4 DEF Thread
    <3>2. \A y \in A : lists[p] <= y
      <4>1. lists[p] \in Nat /\ lists[p] < first
        BY <1>1, <3>1
      <4> QED BY <1>2, <4>1
    <3> QED BY <2>2, <2>4, <3>1, <3>2
  <2> QED BY <2>3, <2>4
<1>7. ASSUME NEW p \in A, p # end
      PROVE  more[p] \in H /\ more[p] > p /\ \A y \in H : y > p => more[p] <= y
  <2>1. p \in Nat /\ p >= first /\ p \in first .. first + n - 2 /\ p # last /\ p + 1 \in A
    BY <1>2, <1>4, <1>7
  <2>2. more[p] = p + 1
    BY <2>1 DEF LongerThread
  <2>3. \A y \in H : y > p => p + 1 <= y
    BY <1>1, <1>2, <2>1
  <2> QED BY <2>1, <2>2, <2>3
<1>8. \A p \in H \cup {head} : p # end =>
        more[p] \in H /\ more[p] > p /\ \A y \in H : y > p => more[p] <= y
  <2> HIDE DEF A, end
  <2> QED BY <1>6, <1>7
<1>9. Thread(more, end, H, head)
  <2> HIDE DEF H, end
  <2> QED BY <1>5, <1>8 DEF Thread
<1> QED BY <1>9

\* ... leaves the other lists as they were.
LEMMA ThreadStays ==
  ASSUME NEW G, NEW head, NEW lists, NEW last, Thread(lists, last, G, head), NEW more,
         \A i \in G \cup {head} : i # last => more[i] = lists[i]
  PROVE  Thread(more, last, G, head)
  BY DEF Thread

\* The list as it is followed: n links from the head on.
ChainFrom(lists, head, n) ==
  LET at[k \in 1 .. n] == lists[IF k = 1 THEN head ELSE at[k - 1]]
  IN  at

\* What is linked, one after the other.
LEMMA ChainIs ==
  ASSUME NEW lists, NEW head, NEW n \in Nat
  PROVE  /\ DOMAIN ChainFrom(lists, head, n) = 1 .. n
         /\ n >= 1 => ChainFrom(lists, head, n)[1] = lists[head]
         /\ \A k \in 1 .. n : k > 1 => ChainFrom(lists, head, n)[k] = lists[ChainFrom(lists, head, n)[k - 1]]
<1> DEFINE G(g, m) == g = [k \in 1 .. m |-> lists[IF k = 1 THEN head ELSE g[k - 1]]]
           N == {m \in Nat : \E g : G(g, m)}
<1>1. 0 \in N
  <2>1. G([k \in 1 .. 0 |-> head], 0)
    OBVIOUS
  <2> QED BY <2>1
<1>2. ASSUME NEW m \in Nat, m \in N PROVE m + 1 \in N
  <2>1. PICK g : G(g, m)
    BY <1>2
  <2> DEFINE h == [k \in 1 .. m + 1 |-> lists[IF k = 1 THEN head ELSE g[k - 1]]]
  <2>2. \A k \in 1 .. m : h[k] = g[k]
    BY <2>1
  <2>3. \A k \in 1 .. m + 1 : k # 1 => k - 1 \in 1 .. m
    OBVIOUS
  <2>4. G(h, m + 1)
    BY <2>2, <2>3
  <2> HIDE DEF G, h
  <2> QED BY <2>4
<1>3. \E g : G(g, n)
  <2>1. \A m \in Nat : m \in N
    <3> HIDE DEF N
    <3> QED BY <1>1, <1>2, NatSetInduction
  <2> HIDE DEF G
  <2> QED BY <2>1
<1> DEFINE p == CHOOSE g : G(g, n)
<1>4. G(p, n)
  <2> HIDE DEF G
  <2> QED BY <1>3
<1> HIDE DEF p
<1>5. p = [k \in 1 .. n |-> lists[IF k = 1 THEN head ELSE p[k - 1]]]
  BY <1>4
<1>6. n >= 1 => p[1] = lists[head]
  <2>1. n >= 1 => 1 \in 1 .. n
    OBVIOUS
  <2> QED BY <1>5, <2>1, Zenon
<1>7. \A k \in 1 .. n : k > 1 => p[k] = lists[p[k - 1]]
  <2>1. \A k \in 1 .. n : k > 1 => k # 1
    OBVIOUS
  <2> QED BY <1>5, <2>1, Zenon
<1>8. ChainFrom(lists, head, n) = p
  BY DEF ChainFrom, p
<1>9. DOMAIN p = 1 .. n
  BY <1>5, Zenon
<1> QED BY <1>6, <1>7, <1>8, <1>9, Zenon

\* A step along the thread leaves one member more behind.
LEMMA ThreadStep ==
  ASSUME NEW G \in SUBSET Nat, IsFiniteSet(G), NEW lists, NEW last, NEW head \in Int, head < 0,
         Thread(lists, last, G, head), NEW p \in G, Cardinality(Below(G, p)) + 1 < Cardinality(G)
  PROVE  lists[p] \in G /\ Cardinality(Below(G, lists[p])) = Cardinality(Below(G, p)) + 1
<1>1. /\ Cardinality(G) = Cardinality(Below(G, p)) + 1 + Cardinality(Above(G, p))
      /\ Cardinality(Below(G, p)) \in Nat /\ Cardinality(Above(G, p)) \in Nat /\ Cardinality(G) \in Nat
      /\ IsFiniteSet(Below(G, p)) /\ IsFiniteSet(Above(G, p))
  BY AboveOrBelow
<1>2. Above(G, p) # {}
  <2>1. Cardinality(Above(G, p)) # 0
    BY <1>1
  <2> QED BY <2>1, FS_EmptySet
<1>3. PICK y \in G : y > p
  BY <1>2 DEF Above
<1>4. p # last
  <2> SUFFICES ASSUME p = last PROVE FALSE
    OBVIOUS
  <2>1. y <= p /\ y \in Nat /\ p \in Nat
    BY DEF Thread
  <2> QED BY <1>3, <2>1
<1> DEFINE q == lists[p]
<1>5. q \in G /\ q > p /\ \A z \in G : z > p => q <= z
  BY <1>4 DEF Thread
<1> HIDE DEF q
<1>6. Below(G, q) = Below(G, p) \cup {p}
  <2>1. \A z \in G : z < q <=> z < p \/ z = p
    <3> TAKE z \in G
    <3>1. z \in Nat /\ p \in Nat /\ q \in Nat
      BY <1>5
    <3>2. z > p => q <= z
      BY <1>5
    <3> QED BY <1>5, <3>1, <3>2
  <2> QED BY <2>1 DEF Below
<1>7. p \notin Below(G, p)
  BY DEF Below
<1>8. Cardinality(Below(G, q)) = Cardinality(Below(G, p)) + 1
  BY <1>1, <1>6, <1>7, FS_AddElement
<1> QED BY <1>5, <1>8 DEF q

\* Its first link is to the least symbol.
LEMMA ThreadStart ==
  ASSUME NEW G \in SUBSET Nat, G # {}, NEW lists, NEW last, NEW head \in Int, head < 0,
         Thread(lists, last, G, head)
  PROVE  lists[head] \in G /\ Cardinality(Below(G, lists[head])) = 0
<1>1. PICK y \in G : TRUE
  OBVIOUS
<1>2. head # last
  BY <1>1 DEF Thread
<1>3. lists[head] \in G /\ \A z \in G : lists[head] <= z
  <2>1. \A z \in G : z > head
    OBVIOUS
  <2> QED BY <1>2, <2>1 DEF Thread
<1>4. Below(G, lists[head]) = {}
  <2>1. \A z \in G : ~(z < lists[head])
    <3> TAKE z \in G
    <3>1. z \in Nat /\ lists[head] \in Nat /\ lists[head] <= z
      BY <1>3
    <3> QED BY <3>1
  <2> QED BY <2>1 DEF Below
<1> QED BY <1>3, <1>4, FS_EmptySet

\* The walk along a thread lists its members in order.
LEMMA ThreadLists ==
  ASSUME NEW G \in SUBSET Nat, IsFiniteSet(G), NEW lists, NEW last, NEW head \in Int, head < 0,
         Thread(lists, last, G, head), NEW n, n = Cardinality(G)
  PROVE  \A k \in 1 .. n :
           /\ ChainFrom(lists, head, n)[k] \in G
           /\ Cardinality(Below(G, ChainFrom(lists, head, n)[k])) = k - 1
<1> DEFINE p == ChainFrom(lists, head, n)
           In(k) == p[k] \in G /\ Cardinality(Below(G, p[k])) = k - 1
           N == {m \in Nat : m + 1 <= n => In(m + 1)}
<1>0. n \in Nat
  BY FS_CardinalityType
<1>1. /\ n >= 1 => p[1] = lists[head]
      /\ \A k \in 1 .. n : k > 1 => p[k] = lists[p[k - 1]]
  BY <1>0, ChainIs
<1> HIDE DEF p
<1>2. 0 \in N
  <2> SUFFICES ASSUME n >= 1 PROVE In(1)
    OBVIOUS
  <2>1. G # {}
    BY FS_EmptySet
  <2>2. p[1] = lists[head]
    BY <1>1
  <2> QED BY <2>1, <2>2, ThreadStart
<1>3. ASSUME NEW m \in Nat, m \in N PROVE m + 1 \in N
  <2> SUFFICES ASSUME (m + 1) + 1 <= n PROVE In((m + 1) + 1)
    OBVIOUS
  <2>1. In(m + 1)
    BY <1>0, <1>3
  <2> DEFINE q == p[m + 1]
             k == (m + 1) + 1
  <2>2. q \in G /\ Cardinality(Below(G, q)) = m
    BY <2>1
  <2>3. k \in 1 .. n /\ k > 1 /\ k - 1 = m + 1
    BY <1>0
  <2>4. p[k] = lists[q]
    BY <1>1, <2>3
  <2> HIDE DEF q, k
  <2>5. lists[q] \in G /\ Cardinality(Below(G, lists[q])) = m + 1
    <3>1. Cardinality(Below(G, q)) + 1 < Cardinality(G)
      BY <1>0, <2>2
    <3> QED BY <2>2, <3>1, ThreadStep
  <2> QED BY <2>3, <2>4, <2>5 DEF k
<1>4. \A m \in Nat : m \in N
  <2> HIDE DEF N
  <2> QED BY <1>2, <1>3, NatSetInduction
<1>5. \A k \in 1 .. n : In(k)
  <2> TAKE k \in 1 .. n
  <2>1. k - 1 \in Nat /\ (k - 1) + 1 = k /\ k <= n
    BY <1>0
  <2> HIDE DEF In
  <2> QED BY <1>4, <2>1
<1> QED BY <1>5, Zenon DEF p

\* n more codes of one length.
LEMMA WeightedMore ==
  ASSUME NEW histo \in [0 .. MaxLength -> Nat], NEW len \in 1 .. MaxLength, NEW n \in Nat,
         NEW after, after = [histo EXCEPT ![len] = @ + n]
  PROVE  Weighted(after, MaxLength, MaxLength) = Weighted(histo, MaxLength, MaxLength) + n * Pow2[MaxLength - len]
<1> DEFINE f == [b \in 1 .. MaxLength |-> histo[b] * Pow2[MaxLength - b]]
           g == [b \in 1 .. MaxLength |-> after[b] * Pow2[MaxLength - b]]
           p == Pow2[MaxLength - len]
<1>1. MaxLength \in Nat /\ \A b \in 1 .. MaxLength : b \in 0 .. MaxLength /\ Pow2[MaxLength - b] \in Nat
  <2>1. MaxLength \in Nat
    BY MoreWidths
  <2>2. \A b \in 1 .. MaxLength : MaxLength - b \in Nat /\ b \in 0 .. MaxLength
    BY <2>1
  <2> QED BY <2>1, <2>2, PowNat
<1>2. after \in [0 .. MaxLength -> Nat] /\ after[len] = histo[len] + n
      /\ \A b \in 1 .. MaxLength : b # len => after[b] = histo[b]
  BY <1>1
<1>3. FunctionOfInts(f) /\ FunctionOfInts(g) /\ DOMAIN f = 1 .. MaxLength /\ DOMAIN g = 1 .. MaxLength
  <2>1. \A b \in 1 .. MaxLength : histo[b] * Pow2[MaxLength - b] \in Int /\ after[b] * Pow2[MaxLength - b] \in Int
    <3> TAKE b \in 1 .. MaxLength
    <3>1. histo[b] \in Nat /\ after[b] \in Nat /\ Pow2[MaxLength - b] \in Nat
      BY <1>1, <1>2
    <3> QED BY <3>1
  <2>2. f \in [1 .. MaxLength -> Int] /\ g \in [1 .. MaxLength -> Int]
    BY <2>1
  <2>3. IsFiniteSet(1 .. MaxLength)
    BY <1>1, FS_Interval
  <2> HIDE DEF f, g
  <2> QED BY <2>2, <2>3 DEF FunctionOfInts
<1>4. Without(f, len) = Without(g, len)
  <2>1. \A b \in 1 .. MaxLength : b # len => f[b] = g[b]
    BY <1>2
  <2> HIDE DEF f, g
  <2> QED BY <1>3, <2>1 DEF Without
<1>5. SumFunction(f) = f[len] + SumFunction(Without(f, len)) /\ SumFunction(g) = g[len] + SumFunction(Without(g, len))
      /\ SumFunction(Without(f, len)) \in Int
  <2> HIDE DEF f, g
  <2> QED BY <1>3, SumRemove, WithoutIs, SumType
<1>6. f[len] = histo[len] * p /\ g[len] = (histo[len] + n) * p
  BY <1>2
<1>7. histo[len] \in Nat /\ p \in Nat
  BY <1>1
<1>8. Weighted(histo, MaxLength, MaxLength) = SumFunction(f) /\ Weighted(after, MaxLength, MaxLength) = SumFunction(g)
  BY DEF Weighted
<1> DEFINE h == histo[len]
           u == SumFunction(Without(f, len))
<1>9. /\ Weighted(histo, MaxLength, MaxLength) = h * p + u
      /\ Weighted(after, MaxLength, MaxLength) = (h + n) * p + u
  BY <1>4, <1>5, <1>6, <1>8
<1>10. h \in Nat /\ u \in Int /\ p \in Nat
  BY <1>5, <1>7
<1> HIDE DEF h, u, p, f, g
<1>11. (h + n) * p = h * p + n * p /\ h * p \in Nat /\ n * p \in Nat
  BY <1>10
<1> QED BY <1>9, <1>10, <1>11 DEF p

---------------------------------------------------------------------------
(* The lists and the counts are those of the lengths read so far.          *)

\* Where the list of a length begins.
HeadOf(b) == b - SymbolListsIndex

\* The symbols of length b are counted and linked.
LinkedOf(c, lengths, b) ==
  /\ c.histo[b] = Cardinality(Group(lengths, MaxSymbol, b))
  /\ Thread(c.lists, c.next[b], Group(lengths, MaxSymbol, b), HeadOf(b))

\* The lengths of the first n symbols are.
Linked(c, lengths, n) ==
  /\ lengths \in [0 .. MaxSymbol - 1 -> 0 .. MaxLength]
  /\ \A x \in 0 .. MaxSymbol - 1 : x >= n => lengths[x] = 0
  /\ \A b \in 1 .. MaxLength : LinkedOf(c, lengths, b)

\* The constants the lists are made of.
LEMMA HeadIs ==
  /\ \A b \in 1 .. MaxLength : HeadOf(b) \in Places /\ HeadOf(b) \in Int /\ HeadOf(b) < 0 /\ b \in 0 .. MaxLength /\ b # 0
  /\ \A x \in 0 .. MaxSymbol - 1 : x \in Places /\ x \in Nat
  /\ \A b, d \in 1 .. MaxLength : HeadOf(b) = HeadOf(d) => b = d
  /\ MaxLength \in Nat /\ MaxSymbol \in Nat
  /\ \A b \in 0 .. MaxLength : b - SymbolListsIndex \in -SymbolListsIndex .. -1
<1>1. MaxLength \in Nat /\ MaxSymbol \in Nat /\ SymbolListsIndex = MaxLength + 1
  BY Widths, ReaderConstants DEF SymbolListsIndex
<1> QED BY <1>1 DEF HeadOf, Places

\* The symbols of one length are finitely many.
LEMMA LinkedGroup ==
  ASSUME NEW c, NEW lengths, NEW n \in Nat, n <= MaxSymbol, Linked(c, lengths, n), NEW b \in 1 .. MaxLength
  PROVE  /\ Group(lengths, MaxSymbol, b) \in SUBSET (0 .. n - 1) /\ Group(lengths, MaxSymbol, b) \in SUBSET Nat
         /\ Group(lengths, MaxSymbol, b) \in SUBSET (0 .. MaxSymbol - 1)
         /\ IsFiniteSet(Group(lengths, MaxSymbol, b)) /\ Cardinality(Group(lengths, MaxSymbol, b)) \in Nat
<1>1. MaxSymbol \in Nat /\ b # 0 /\ MaxLength \in Nat
  BY HeadIs
<1>2. ASSUME NEW x \in Group(lengths, MaxSymbol, b) PROVE x \in 0 .. n - 1 /\ x \in 0 .. MaxSymbol - 1
  <2>1. x \in 0 .. MaxSymbol - 1 /\ lengths[x] = b
    BY DEF Group
  <2>2. ~(x >= n)
    BY <1>1, <2>1 DEF Linked
  <2> QED BY <1>1, <2>1, <2>2
<1> QED BY <1>1, <1>2, GroupIs

\* No length is read.
LEMMA NothingLinked ==
  ASSUME ChainsOK(chains)
  PROVE  \E lengths : Linked(EmptyChains, lengths, 0)
<1> DEFINE L == [x \in 0 .. MaxSymbol - 1 |-> 0]
<1>1. L \in [0 .. MaxSymbol - 1 -> 0 .. MaxLength]
  BY HeadIs
<1>2. \A x \in 0 .. MaxSymbol - 1 : L[x] = 0
  OBVIOUS
<1> HIDE DEF L
<1>3. ASSUME NEW b \in 1 .. MaxLength PROVE LinkedOf(EmptyChains, L, b)
  <2>1. Group(L, MaxSymbol, b) = {}
    BY <1>2, HeadIs DEF Group
  <2>2. EmptyChains.histo[b] = 0 /\ EmptyChains.next[b] = HeadOf(b)
    BY HeadIs DEF EmptyChains, HeadOf
  <2>3. Thread(EmptyChains.lists, EmptyChains.next[b], {}, HeadOf(b))
    BY <2>2 DEF Thread
  <2> QED BY <2>1, <2>2, <2>3, FS_EmptySet DEF LinkedOf
<1>4. Linked(EmptyChains, L, 0)
  BY <1>1, <1>2, <1>3 DEF Linked
<1> QED BY <1>4

\* The lengths after n more symbols of one length.
Lengthened(lengths, length, first, n) ==
  [x \in 0 .. MaxSymbol - 1 |-> IF x \in first .. first + n - 1 THEN length ELSE lengths[x]]

\* The groups, with the lengths of n symbols more.
LEMMA LengthenedGroup ==
  ASSUME NEW c, NEW lengths, NEW first \in Nat, Linked(c, lengths, first), NEW length \in 1 .. MaxLength,
         NEW n \in Nat, n >= 1, first + n <= MaxSymbol
  PROVE  LET more == Lengthened(lengths, length, first, n)
             G == Group(lengths, MaxSymbol, length)
         IN  /\ more \in [0 .. MaxSymbol - 1 -> 0 .. MaxLength]
             /\ \A x \in 0 .. MaxSymbol - 1 : x >= first + n => more[x] = 0
             /\ Group(more, MaxSymbol, length) = G \cup (first .. first + n - 1)
             /\ Cardinality(Group(more, MaxSymbol, length)) = Cardinality(G) + n
             /\ \A b \in 1 .. MaxLength : b # length => Group(more, MaxSymbol, b) = Group(lengths, MaxSymbol, b)
<1> DEFINE more == Lengthened(lengths, length, first, n)
           A == first .. first + n - 1
           G == Group(lengths, MaxSymbol, length)
<1>0. MaxSymbol \in Nat /\ MaxLength \in Nat /\ length \in 0 .. MaxLength /\ length # 0 /\ first <= MaxSymbol
  BY HeadIs
<1>1. lengths \in [0 .. MaxSymbol - 1 -> 0 .. MaxLength] /\ \A x \in 0 .. MaxSymbol - 1 : x >= first => lengths[x] = 0
  BY DEF Linked
<1>2. more \in [0 .. MaxSymbol - 1 -> 0 .. MaxLength]
  BY <1>0, <1>1 DEF Lengthened
<1>3. \A x \in 0 .. MaxSymbol - 1 : more[x] = IF x \in A THEN length ELSE lengths[x]
  BY DEF Lengthened
<1>4. A \subseteq 0 .. MaxSymbol - 1 /\ \A x \in A : x >= first
  BY <1>0
<1> HIDE DEF more
<1>5. \A x \in 0 .. MaxSymbol - 1 : x >= first + n => more[x] = 0
  BY <1>0, <1>1, <1>3
<1>6. Group(more, MaxSymbol, length) = G \cup A
  <2> HIDE DEF A
  <2> QED BY <1>3, <1>4 DEF Group
<1>7. \A b \in 1 .. MaxLength : b # length => Group(more, MaxSymbol, b) = Group(lengths, MaxSymbol, b)
  <2> SUFFICES ASSUME NEW b \in 1 .. MaxLength, b # length
               PROVE  Group(more, MaxSymbol, b) = Group(lengths, MaxSymbol, b)
    OBVIOUS
  <2>1. b # 0
    BY <1>0
  <2>2. \A x \in A : lengths[x] = 0 /\ x \in 0 .. MaxSymbol - 1
    BY <1>1, <1>4
  <2> HIDE DEF A
  <2> QED BY <1>3, <2>1, <2>2 DEF Group
<1>8. Cardinality(G \cup A) = Cardinality(G) + n
  <2>1. IsFiniteSet(A) /\ Cardinality(A) = n
    <3>1. IsFiniteSet(A) /\ Cardinality(A) = IF first > first + n - 1 THEN 0 ELSE (first + n - 1) - first + 1
      BY FS_Interval
    <3> QED BY <3>1
  <2>2. IsFiniteSet(G) /\ Cardinality(G) \in Nat /\ G \in SUBSET (0 .. first - 1)
    BY <1>0, LinkedGroup
  <2>3. G \cap A = {}
    BY <2>2
  <2> HIDE DEF G, A
  <2>4. Cardinality(G \cup A) = Cardinality(G) + Cardinality(A) - Cardinality(G \cap A)
    BY <2>1, <2>2, FS_Union
  <2>5. Cardinality(G \cap A) = 0
    BY <2>3, FS_EmptySet
  <2> QED BY <2>1, <2>2, <2>4, <2>5
<1> HIDE DEF G, A
<1> QED BY <1>2, <1>5, <1>6, <1>7, <1>8, Zenon DEF more, G, A

\* What is linked anew.
ExtendedTo(e, c, length, first, n) ==
  /\ \A i \in Places :
       e.lists[i] = IF i = c.next[length] THEN first
                    ELSE IF i \in first .. first + n - 2 THEN i + 1 ELSE c.lists[i]
  /\ e.next[length] = first + n - 1 /\ e.histo[length] = c.histo[length] + n
  /\ e.histo = [c.histo EXCEPT ![length] = @ + n]
  /\ \A b \in 0 .. MaxLength : b # length => e.next[b] = c.next[b] /\ e.histo[b] = c.histo[b]

\* What extending the lists of the state does to them.
LEMMA ExtendedLists ==
  ASSUME ChainsOK(chains), NEW length \in 0 .. MaxLength, NEW first, NEW n
  PROVE  ExtendedTo(Extended(length, first, n), chains, length, first, n)
<1>1. DOMAIN chains.lists = Places /\ DOMAIN chains.next = 0 .. MaxLength /\ DOMAIN chains.histo = 0 .. MaxLength
  BY DEF ChainsOK
<1> QED BY <1>1 DEF Extended, ExtendedTo

\* It links the n symbols to the list of their length.
LEMMA ExtendedLinks ==
  ASSUME ChainsOK(chains), NEW first \in Nat, NEW lengths, Linked(chains, lengths, first),
         NEW length \in 1 .. MaxLength, NEW n \in Nat, n >= 1, first + n <= MaxSymbol
  PROVE  Linked(Extended(length, first, n), Lengthened(lengths, length, first, n), first + n)
<1> DEFINE e == Extended(length, first, n)
           more == Lengthened(lengths, length, first, n)
           A == first .. first + n - 1
           G(b) == Group(lengths, MaxSymbol, b)
<1>0. MaxSymbol \in Nat /\ MaxLength \in Nat /\ length \in 0 .. MaxLength /\ first <= MaxSymbol
  BY HeadIs
<1>1. /\ more \in [0 .. MaxSymbol - 1 -> 0 .. MaxLength]
      /\ \A x \in 0 .. MaxSymbol - 1 : x >= first + n => more[x] = 0
      /\ Group(more, MaxSymbol, length) = G(length) \cup A
      /\ Cardinality(Group(more, MaxSymbol, length)) = Cardinality(G(length)) + n
      /\ \A b \in 1 .. MaxLength : b # length => Group(more, MaxSymbol, b) = G(b)
  BY LengthenedGroup
<1>2. /\ \A i \in Places :
           e.lists[i] = IF i = chains.next[length] THEN first
                        ELSE IF i \in first .. first + n - 2 THEN i + 1 ELSE chains.lists[i]
      /\ e.next[length] = first + n - 1 /\ e.histo[length] = chains.histo[length] + n
      /\ \A b \in 0 .. MaxLength : b # length => e.next[b] = chains.next[b] /\ e.histo[b] = chains.histo[b]
  <2>1. ExtendedTo(e, chains, length, first, n)
    BY <1>0, ExtendedLists
  <2> HIDE DEF e
  <2> QED BY <2>1 DEF ExtendedTo
<1> HIDE DEF e, more
<1>3. \A b \in 1 .. MaxLength :
        /\ chains.histo[b] = Cardinality(G(b)) /\ Thread(chains.lists, chains.next[b], G(b), HeadOf(b))
        /\ G(b) \in SUBSET (0 .. first - 1) /\ G(b) \in SUBSET (0 .. MaxSymbol - 1)
        /\ HeadOf(b) \in Places /\ HeadOf(b) \in Int /\ HeadOf(b) < 0
  <2> TAKE b \in 1 .. MaxLength
  <2>1. LinkedOf(chains, lengths, b)
    BY DEF Linked
  <2> QED BY <1>0, <2>1, LinkedGroup, HeadIs DEF LinkedOf
<1>4. LinkedOf(e, more, length)
  <2>1. LongerThread(e.lists, chains.lists, chains.next[length], first, n, G(length), HeadOf(length))
    <3>1. G(length) \cup {HeadOf(length)} \cup A \subseteq Places
      <4>1. G(length) \subseteq Places /\ A \subseteq Places /\ HeadOf(length) \in Places
        BY <1>0, <1>3, HeadIs
      <4> QED BY <4>1
    <3> HIDE DEF G
    <3> QED BY <1>2, <3>1 DEF LongerThread
  <2>2. Thread(e.lists, first + n - 1, G(length) \cup A, HeadOf(length))
    <3> HIDE DEF G
    <3> QED BY <1>3, <2>1, ThreadGrows
  <2> HIDE DEF A, G
  <2> QED BY <1>1, <1>2, <1>3, <2>2 DEF LinkedOf
<1>5. ASSUME NEW b \in 1 .. MaxLength, b # length PROVE LinkedOf(e, more, b)
  <2>1. e.next[b] = chains.next[b] /\ e.histo[b] = chains.histo[b] /\ Group(more, MaxSymbol, b) = G(b)
    BY <1>1, <1>2, <1>5, HeadIs
  <2>2. ASSUME NEW i \in G(b) \cup {HeadOf(b)} PROVE e.lists[i] = chains.lists[i]
    <3>1. i \in Places /\ i \in Int /\ i < first
      BY <1>3, HeadIs
    <3>2. i # chains.next[length]
      <4>1. chains.next[length] \in G(length) \cup {HeadOf(length)}
        BY <1>3 DEF Thread
      <4>2. G(b) \cap G(length) = {}
        BY <1>5 DEF Group
      <4>3. HeadOf(b) # HeadOf(length)
        BY <1>5, HeadIs
      <4>4. HeadOf(b) \notin G(length) /\ HeadOf(length) \notin G(b)
        BY <1>3
      <4> HIDE DEF G
      <4> QED BY <4>1, <4>2, <4>3, <4>4
    <3>3. i \notin first .. first + n - 2
      BY <3>1
    <3> QED BY <1>2, <3>1, <3>2, <3>3
  <2>3. Thread(e.lists, chains.next[b], G(b), HeadOf(b))
    <3>1. Thread(chains.lists, chains.next[b], G(b), HeadOf(b))
      BY <1>3
    <3> HIDE DEF G
    <3> QED BY <2>2, <3>1, ThreadStays
  <2> HIDE DEF G
  <2> QED BY <1>3, <2>1, <2>3 DEF LinkedOf
<1>6. \A b \in 1 .. MaxLength : LinkedOf(e, more, b)
  BY <1>4, <1>5
<1> QED BY <1>1, <1>6 DEF Linked, e, more

\* The space the counted codes take.
Total(c) == Weighted(c.histo, MaxLength, MaxLength)

\* f are the fields in use.
LinkedFields(c, f) ==
  /\ \E lengths : Linked(c, lengths, f.symbol)
  /\ f.space + Total(c) = FullSpace \/ (f.space = NoSpace /\ f.symbol = MaxSymbol)

\* The weights of the counts.
LEMMA TotalIs ==
  /\ ChainsOK(chains) => Total(chains) \in Nat
  /\ ChainsOK(chains) => chains.histo \in [0 .. MaxLength -> Nat]
<1> SUFFICES ASSUME ChainsOK(chains)
             PROVE  Total(chains) \in Nat /\ chains.histo \in [0 .. MaxLength -> Nat]
  OBVIOUS
<1>1. chains.histo \in [0 .. MaxLength -> 0 .. Most] /\ Most \in Nat /\ MaxLength \in Nat
  BY HeadIs, ReaderConstants DEF ChainsOK, Most
<1>2. chains.histo \in [0 .. MaxLength -> Nat]
  BY <1>1
<1>3. Counts(chains.histo, MaxLength) /\ MaxLength \in 0 .. MaxLength
  BY <1>1, <1>2 DEF Counts
<1> QED BY <1>1, <1>2, <1>3, WeightedStep DEF Total

\* Symbols without a length are in no list.
LEMMA LinkedFurther ==
  ASSUME NEW c, NEW lengths, NEW n \in Nat, Linked(c, lengths, n), NEW m \in Nat, n <= m
  PROVE  Linked(c, lengths, m)
<1>1. \A x \in 0 .. MaxSymbol - 1 : x >= m => x >= n
  BY HeadIs
<1> QED BY <1>1 DEF Linked

\* At the start of the lengths.
LEMMA StartIsLinked ==
  ASSUME ChainsOK(chains)
  PROVE  LinkedFields(EmptyChains, StartLengths)
<1>1. \E lengths : Linked(EmptyChains, lengths, 0)
  BY NothingLinked
<1>2. EmptyChains.histo = [b \in 0 .. MaxLength |-> 0]
  BY EmptyChainsOK
<1>3. Total(EmptyChains) = 0
  <2> DEFINE h == [b \in 0 .. MaxLength |-> 0]
  <2>1. MaxLength \in Nat
    BY HeadIs
  <2>2. Weighted(h, MaxLength, MaxLength) = SumFunction([b \in 1 .. MaxLength |-> 0])
    <3>1. \A b \in 1 .. MaxLength : h[b] * Pow2[MaxLength - b] = 0
      <4> TAKE b \in 1 .. MaxLength
      <4>1. MaxLength - b \in Nat /\ h[b] = 0
        BY <2>1
      <4>2. Pow2[MaxLength - b] \in Nat
        BY <4>1, PowNat
      <4> HIDE DEF h
      <4> QED BY <4>1, <4>2
    <3> HIDE DEF h
    <3>2. [b \in 1 .. MaxLength |-> h[b] * Pow2[MaxLength - b]] = [b \in 1 .. MaxLength |-> 0]
      BY <3>1
    <3> QED BY <3>2 DEF Weighted
  <2>3. SumFunction([b \in 1 .. MaxLength |-> 0]) = Cardinality(1 .. MaxLength) * 0
    <3> DEFINE S == 1 .. MaxLength
               z == 0
    <3>1. IsFiniteSet(S) /\ z \in Int
      BY <2>1, FS_Interval
    <3> HIDE DEF S, z
    <3>2. SumFunction([b \in S |-> z]) = Cardinality(S) * z
      BY <3>1, SumConst
    <3> QED BY <3>2 DEF S, z
  <2>4. Cardinality(1 .. MaxLength) \in Nat
    BY <2>1, FS_Interval, FS_CardinalityType
  <2> HIDE DEF h
  <2>5. Weighted(h, MaxLength, MaxLength) = 0
    BY <2>2, <2>3, <2>4
  <2> QED BY <1>2, <2>5 DEF Total, h
<1>4. StartLengths.symbol = 0 /\ StartLengths.space = FullSpace
  BY DEF StartLengths
<1>5. FullSpace + 0 = FullSpace
  BY Spaces
<1> QED BY <1>1, <1>3, <1>4, <1>5 DEF LinkedFields

\* n symbols of a length that is not zero are read.
LEMMA MoreLinked ==
  ASSUME ChainsOK(chains), NEW f, FieldsOK(f), LinkedFields(chains, f), f.symbol < MaxSymbol,
         NEW length \in 1 .. MaxLength, NEW n \in Nat, n >= 1, f.symbol + n <= MaxSymbol,
         NEW g, g.symbol = f.symbol + n, g.space = f.space - n * (FullSpace \div Pow2[length])
  PROVE  LinkedFields(Extended(length, f.symbol, n), g)
<1> DEFINE e == Extended(length, f.symbol, n)
           p == Pow2[MaxLength - length]
<1>0. f.symbol \in Nat /\ f.space \in Int /\ FullSpace \in Nat /\ MaxSymbol \in Nat /\ MaxLength \in Nat
  BY HeadIs, Spaces DEF FieldsOK, FieldsType
<1>1. PICK lengths : Linked(chains, lengths, f.symbol)
  BY DEF LinkedFields
<1>2. Linked(e, Lengthened(lengths, length, f.symbol, n), g.symbol)
  BY <1>0, <1>1, ExtendedLinks
<1>3. f.space + Total(chains) = FullSpace /\ Total(chains) \in Nat
  BY <1>0, TotalIs DEF LinkedFields
<1>4. FullSpace \div Pow2[length] = p /\ p \in Nat
  <2>1. length \in 0 .. MaxLength
    BY <1>0
  <2> QED BY <1>0, <2>1, PowDivides DEF FullSpace
<1>5. Total(e) = Total(chains) + n * p
  <2>1. e.histo = [chains.histo EXCEPT ![length] = @ + n]
    BY HeadIs, ExtendedLists DEF ExtendedTo
  <2>2. chains.histo \in [0 .. MaxLength -> Nat]
    BY TotalIs
  <2> HIDE DEF e
  <2> QED BY <2>1, <2>2, WeightedMore DEF Total
<1> HIDE DEF e, p
<1>6. g.space + Total(e) = FullSpace
  <2>1. n * p \in Nat /\ g.space = f.space - n * p
    BY <1>4
  <2> QED BY <1>0, <1>3, <1>5, <2>1
<1> QED BY <1>2, <1>6 DEF LinkedFields, e

\* Symbols without a code are.
LEMMA SkippedLinked ==
  ASSUME NEW c, NEW f, FieldsOK(f), LinkedFields(c, f), f.symbol < MaxSymbol, NEW g, g.symbol \in Nat, f.symbol <= g.symbol,
         g.space = f.space
  PROVE  LinkedFields(c, g)
<1>1. f.symbol \in Nat /\ f.symbol # MaxSymbol
  BY HeadIs DEF FieldsOK, FieldsType
<1>2. PICK lengths : Linked(c, lengths, f.symbol)
  BY DEF LinkedFields
<1>3. Linked(c, lengths, g.symbol)
  BY <1>1, <1>2, LinkedFurther
<1> QED BY <1>1, <1>3 DEF LinkedFields

\* The run does not fit.
LEMMA SpoiltLinked ==
  ASSUME NEW c, NEW f, FieldsOK(f), LinkedFields(c, f), NEW g, g.symbol = MaxSymbol, g.space = NoSpace
  PROVE  LinkedFields(c, g)
<1>1. f.symbol \in Nat /\ f.symbol <= MaxSymbol /\ MaxSymbol \in Nat
  BY HeadIs DEF FieldsOK, FieldsType
<1>2. PICK lengths : Linked(c, lengths, f.symbol)
  BY DEF LinkedFields
<1>3. Linked(c, lengths, g.symbol)
  BY <1>1, <1>2, LinkedFurther
<1> QED BY <1>3 DEF LinkedFields

\* After one length.
LEMMA SingleLinked ==
  ASSUME ChainsOK(chains), NEW f, FieldsOK(f), LinkedFields(chains, f), f.symbol < MaxSymbol, NEW length \in 0 .. MaxLength
  PROVE  LinkedFields(IF length = 0 THEN chains ELSE Extended(length, f.symbol, 1), ProcessSingleCodeLength(f, length))
<1> DEFINE g == ProcessSingleCodeLength(f, length)
           d == FullSpace \div Pow2[length]
<1>0. f.symbol \in Nat /\ f.space \in Int /\ MaxSymbol \in Nat /\ MaxLength \in Nat
      /\ f = [sub_loop_counter |-> f.sub_loop_counter, symbol |-> f.symbol, repeat |-> f.repeat, space |-> f.space,
              prev_code_len |-> f.prev_code_len, repeat_code_len |-> f.repeat_code_len]
  BY HeadIs DEF FieldsOK, FieldsType
<1>1. g.symbol = f.symbol + 1 /\ g.space = IF length = 0 THEN f.space ELSE f.space - d
  <2> HIDE DEF d
  <2> QED BY <1>0 DEF ProcessSingleCodeLength, d
<1>2. d \in Nat
  BY Spaces
<1> HIDE DEF g
<1>3. CASE length = 0
  BY <1>0, <1>1, <1>3, SkippedLinked DEF g
<1>4. CASE length # 0
  <2>1. length \in 1 .. MaxLength /\ g.space = f.space - 1 * d
    BY <1>0, <1>1, <1>2, <1>4
  <2>2. f.symbol + 1 <= MaxSymbol
    BY <1>0
  <2>3. LinkedFields(Extended(length, f.symbol, 1), g)
    BY <1>1, <2>1, <2>2, MoreLinked
  <2> QED BY <1>4, <2>3 DEF g
<1> QED BY <1>3, <1>4

\* After a code of a run.
LEMMA RunLinked ==
  ASSUME ChainsOK(chains), NEW f, FieldsOK(f), LinkedFields(chains, f), f.symbol < MaxSymbol, f.repeat = 0 \/ f.repeat >= 3,
         NEW code_len \in {RepeatCode, RepeatCode + 1}, NEW delta \in Nat
  PROVE  LET n == RunDelta(f, code_len, delta)
             length == RunLength(f, code_len)
         IN  LinkedFields(IF length = 0 \/ ~Fits(f, n) THEN chains ELSE Extended(length, f.symbol, n),
                          ProcessRepeatedCodeLength(f, code_len, delta))
<1> DEFINE g == ProcessRepeatedCodeLength(f, code_len, delta)
           n == RunDelta(f, code_len, delta)
           length == RunLength(f, code_len)
           d == FullSpace \div Pow2[length]
<1>0. f.symbol \in Nat /\ f.space \in Int /\ MaxSymbol \in Nat /\ MaxLength \in Nat
      /\ f = [sub_loop_counter |-> f.sub_loop_counter, symbol |-> f.symbol, repeat |-> f.repeat, space |-> f.space,
              prev_code_len |-> f.prev_code_len, repeat_code_len |-> f.repeat_code_len]
  BY HeadIs DEF FieldsOK, FieldsType
<1>1. n \in Nat /\ n >= 1 /\ length \in 0 .. MaxLength
  BY RunIs
<1>2. /\ g.symbol = IF Fits(f, n) THEN f.symbol + n ELSE MaxSymbol
      /\ g.space = IF Fits(f, n) THEN (IF length = 0 THEN f.space ELSE f.space - n * d) ELSE NoSpace
  <2> HIDE DEF n, length, d
  <2> QED BY <1>0 DEF ProcessRepeatedCodeLength, n, length, d
<1> HIDE DEF g, n, length
<1>3. CASE ~Fits(f, n)
  BY <1>2, <1>3, SpoiltLinked DEF g, n, length
<1>4. CASE Fits(f, n) /\ length = 0
  <2>1. g.symbol \in Nat /\ f.symbol <= g.symbol /\ g.space = f.space
    BY <1>0, <1>1, <1>2, <1>4
  <2>2. LinkedFields(chains, g)
    BY <2>1, SkippedLinked
  <2> QED BY <1>4, <2>2 DEF g, n, length
<1>5. CASE Fits(f, n) /\ length # 0
  <2>1. length \in 1 .. MaxLength /\ g.symbol = f.symbol + n /\ g.space = f.space - n * d
    BY <1>0, <1>1, <1>2, <1>5
  <2>2. f.symbol + n <= MaxSymbol
    BY <1>5 DEF Fits
  <2>3. LinkedFields(Extended(length, f.symbol, n), g)
    BY <1>1, <2>1, <2>2, MoreLinked
  <2> QED BY <1>5, <2>3 DEF g, n, length
<1> QED BY <1>3, <1>4, <1>5

\* The table t is that of some canonical code.
IsCode(t) == \E c : c = [x \in DOMAIN c |-> c[x]] /\ CodeTable(t, c)

\* The lists as the builder follows them.
ChainLists == [length \in 1 .. MaxLength |-> Chain(length)]

\* Followed from their heads, the lists give the symbols of each length in order.
LEMMA ChainListing ==
  ASSUME ChainsOK(chains), NEW n \in Nat, n <= MaxSymbol, NEW lengths, Linked(chains, lengths, n)
  PROVE  Listing(lengths, MaxSymbol, chains.histo, ChainLists, MaxLength)
<1> SUFFICES ASSUME NEW b \in 1 .. MaxLength
             PROVE  /\ chains.histo[b] = Cardinality(Group(lengths, MaxSymbol, b))
                    /\ \A k \in 1 .. chains.histo[b] :
                         /\ ChainLists[b][k] \in Group(lengths, MaxSymbol, b)
                         /\ Cardinality(Below(Group(lengths, MaxSymbol, b), ChainLists[b][k])) = k - 1
  BY DEF Listing
<1> DEFINE G == Group(lengths, MaxSymbol, b)
<1>1. chains.histo[b] = Cardinality(G) /\ Thread(chains.lists, chains.next[b], G, HeadOf(b))
  BY DEF Linked, LinkedOf
<1>2. G \in SUBSET Nat /\ IsFiniteSet(G)
  BY LinkedGroup
<1>3. ChainLists[b] = ChainFrom(chains.lists, HeadOf(b), chains.histo[b])
  BY DEF ChainLists, Chain, ChainFrom, HeadOf
<1>4. HeadOf(b) \in Int /\ HeadOf(b) < 0
  BY HeadIs
<1> HIDE DEF G
<1>5. \A k \in 1 .. chains.histo[b] :
        /\ ChainFrom(chains.lists, HeadOf(b), chains.histo[b])[k] \in G
        /\ Cardinality(Below(G, ChainFrom(chains.lists, HeadOf(b), chains.histo[b])[k])) = k - 1
  BY <1>1, <1>2, <1>4, ThreadLists
<1> QED BY <1>1, <1>3, <1>5 DEF G

\* No room left: the lengths read are those of a code, and the table is its.
LEMMA LengthsTable ==
  ASSUME ChainsOK(chains), NEW f, FieldsOK(f), LinkedFields(chains, f), f.space = 0,
         NEW lengths, Linked(chains, lengths, f.symbol)
  PROVE  CodeTable(BuildHuffmanTable(ChainLists, chains.histo).table, LengthsIn(lengths, MaxSymbol))
<1> DEFINE t == BuildHuffmanTable(ChainLists, chains.histo).table
<1>0. f.symbol \in Nat /\ f.symbol <= MaxSymbol /\ MaxSymbol \in Nat /\ MaxLength \in Nat
  BY HeadIs DEF FieldsOK, FieldsType
<1>1. CompleteCounts(chains.histo)
  <2>1. NoSpace # 0 /\ FullSpace \in Nat /\ FullSpace = Pow2[MaxLength]
    <3>1. Pow2[MaxLength] \in Nat /\ Pow2[MaxLength] >= 1
      BY <1>0, PowNat
    <3> QED BY <3>1 DEF NoSpace, FullSpace
  <2>2. 0 + Total(chains) = FullSpace /\ Total(chains) \in Nat /\ chains.histo \in [0 .. MaxLength -> Nat]
    BY <2>1, TotalIs DEF LinkedFields
  <2>3. Total(chains) = Pow2[MaxLength]
    BY <2>1, <2>2
  <2> QED BY <2>2, <2>3 DEF CompleteCounts, Total
<1>2. Listing(lengths, MaxSymbol, chains.histo, ChainLists, MaxLength)
  BY <1>0, ChainListing
<1>3. \A w \in Inputs : \E bound \in Nat : Settled(t, ChainLists, chains.histo, w, bound)
  BY <1>1, BuiltTableDecodes
<1> HIDE DEF t
<1>4. lengths \in [0 .. MaxSymbol - 1 -> 0 .. MaxLength]
  BY DEF Linked
<1>5. CodeTable(t, LengthsIn(lengths, MaxSymbol))
  BY <1>0, <1>1, <1>2, <1>3, <1>4, ListingDecodes
<1> QED BY <1>5 DEF t

\* ... so it is that of a code.
LEMMA LengthsTableIsCode ==
  ASSUME ChainsOK(chains), NEW f, FieldsOK(f), LinkedFields(chains, f), f.space = 0
  PROVE  IsCode(BuildHuffmanTable(ChainLists, chains.histo).table)
<1>1. PICK lengths : Linked(chains, lengths, f.symbol)
  BY DEF LinkedFields
<1>2. CodeTable(BuildHuffmanTable(ChainLists, chains.histo).table, LengthsIn(lengths, MaxSymbol))
  BY <1>1, LengthsTable
<1>3. LengthsIn(lengths, MaxSymbol) = [x \in DOMAIN LengthsIn(lengths, MaxSymbol) |-> LengthsIn(lengths, MaxSymbol)[x]]
  BY DEF LengthsIn
<1> QED BY <1>2, <1>3 DEF IsCode

---------------------------------------------------------------------------
(* The code of listed symbols.                                             *)

\* No symbol is listed twice.
Distinct(a, n) == \A j, k \in 1 .. n : j < k => a[j] # a[k]

\* The code that gives the listed symbols those lengths.
ListedCode(a, n, bits) == [x \in {a[k] : k \in 1 .. n} |-> bits[CHOOSE k \in 1 .. n : a[k] = x]]

\* The code c gives the k-th symbol of the list the k-th length.
GivesBits(c, a, n, bits) ==
  DOMAIN c = {a[k] : k \in 1 .. n} /\ \A k \in 1 .. n : c[a[k]] = bits[k]

\* Its domain and its values.
LEMMA ListedCodeIs ==
  ASSUME NEW n \in Nat, NEW a, NEW bits, Distinct(a, n)
  PROVE  GivesBits(ListedCode(a, n, bits), a, n, bits)
<1>1. DOMAIN ListedCode(a, n, bits) = {a[k] : k \in 1 .. n}
  BY DEF ListedCode
<1>2. ASSUME NEW j \in 1 .. n, NEW k \in 1 .. n, a[j] = a[k] PROVE j = k
  <2>1. j < k \/ k < j \/ j = k
    OBVIOUS
  <2> QED BY <1>2, <2>1 DEF Distinct
<1>3. ASSUME NEW k \in 1 .. n PROVE ListedCode(a, n, bits)[a[k]] = bits[k]
  <2> DEFINE i == CHOOSE j \in 1 .. n : a[j] = a[k]
  <2>1. i \in 1 .. n /\ a[i] = a[k]
    OBVIOUS
  <2>2. ListedCode(a, n, bits)[a[k]] = bits[i]
    BY DEF ListedCode
  <2> HIDE DEF i
  <2>3. i = k
    BY <1>2, <2>1
  <2> QED BY <2>2, <2>3
<1> QED BY <1>1, <1>3 DEF GivesBits

\* The codes before one are those listed before it.
LEMMA ListedBefore ==
  ASSUME NEW n \in Nat, NEW a \in [1 .. n -> Nat], NEW bits, \A k \in 1 .. n : bits[k] \in 0 .. MaxLength,
         Distinct(a, n), InOrder(a, n, bits), NEW k \in 1 .. n
  PROVE  CodesBefore(ListedCode(a, n, bits), a[k]) = {a[j] : j \in 1 .. k - 1}
<1> DEFINE c == ListedCode(a, n, bits)
<1>0. DOMAIN c = {a[j] : j \in 1 .. n} /\ \A j \in 1 .. n : c[a[j]] = bits[j]
  <2>1. GivesBits(c, a, n, bits)
    BY ListedCodeIs, Zenon
  <2> HIDE DEF c
  <2> QED BY <2>1, Zenon DEF GivesBits
<1>1. DOMAIN c = {a[j] : j \in 1 .. n} /\ \A j \in 1 .. n : c[a[j]] = bits[j] /\ bits[j] \in Nat /\ a[j] \in Nat
  <2> HIDE DEF c
  <2> QED BY <1>0, MoreWidths, SMTT(30)
<1> HIDE DEF c
<1>2. ASSUME NEW j \in 1 .. n, c[a[j]] < c[a[k]] \/ (c[a[j]] = c[a[k]] /\ a[j] < a[k]) PROVE j \in 1 .. k - 1
  <2>1. j < k \/ k < j \/ j = k
    OBVIOUS
  <2>2. ASSUME k < j PROVE FALSE
    <3>1. bits[k] < bits[j] \/ (bits[k] = bits[j] /\ a[k] < a[j])
      BY <2>2 DEF InOrder
    <3>2. bits[j] < bits[k] \/ (bits[j] = bits[k] /\ a[j] < a[k])
      BY <1>1, <1>2
    <3>3. bits[j] \in Nat /\ bits[k] \in Nat /\ a[j] \in Nat /\ a[k] \in Nat
      BY <1>1
    <3> QED BY <3>1, <3>2, <3>3
  <2>3. j # k
    BY <1>1, <1>2
  <2> QED BY <2>1, <2>2, <2>3
<1>3. ASSUME NEW j \in 1 .. k - 1 PROVE j \in 1 .. n /\ (c[a[j]] < c[a[k]] \/ (c[a[j]] = c[a[k]] /\ a[j] < a[k]))
  <2>1. j \in 1 .. n /\ j < k
    OBVIOUS
  <2>2. bits[j] < bits[k] \/ (bits[j] = bits[k] /\ a[j] < a[k])
    BY <2>1 DEF InOrder
  <2> QED BY <1>1, <2>1, <2>2
<1>4. CodesBefore(c, a[k]) \subseteq {a[j] : j \in 1 .. k - 1}
  BY <1>1, <1>2 DEF CodesBefore
<1>5. {a[j] : j \in 1 .. k - 1} \subseteq CodesBefore(c, a[k])
  <2>1. ASSUME NEW j \in 1 .. k - 1 PROVE a[j] \in CodesBefore(c, a[k])
    <3>1. j \in 1 .. n /\ (c[a[j]] < c[a[k]] \/ (c[a[j]] = c[a[k]] /\ a[j] < a[k]))
      BY <1>3
    <3>2. a[j] \in DOMAIN c
      BY <1>1, <3>1, Zenon
    <3> QED BY <3>1, <3>2, Zenon DEF CodesBefore
  <2> QED BY <2>1, Zenon
<1> QED BY <1>4, <1>5 DEF c

\* The first words of the codes, one after the other.
LEMMA ListedFirst ==
  ASSUME NEW n \in Nat, NEW a \in [1 .. n -> Nat], NEW bits, \A k \in 1 .. n : bits[k] \in 0 .. MaxLength,
         Distinct(a, n), InOrder(a, n, bits)
  PROVE  /\ n >= 1 => FirstCode(ListedCode(a, n, bits), a[1]) = 0
         /\ \A k \in 1 .. n : k + 1 <= n =>
              FirstCode(ListedCode(a, n, bits), a[k + 1])
                = FirstCode(ListedCode(a, n, bits), a[k]) + Pow2[MaxLength - bits[k]]
<1> DEFINE c == ListedCode(a, n, bits)
           f == [y \in DOMAIN c |-> Pow2[MaxLength - c[y]]]
           Before(k) == {a[j] : j \in 1 .. k - 1}
<1>1. DOMAIN c = {a[j] : j \in 1 .. n} /\ \A j \in 1 .. n : c[a[j]] = bits[j]
  <2>1. GivesBits(c, a, n, bits)
    BY ListedCodeIs, Zenon
  <2> HIDE DEF c
  <2> QED BY <2>1, Zenon DEF GivesBits
<1>2. \A k \in 1 .. n : CodesBefore(c, a[k]) = Before(k)
  BY ListedBefore
<1> HIDE DEF c
<1>3. \A k \in 1 .. n : Pow2[MaxLength - bits[k]] \in Int
  <2> TAKE k \in 1 .. n
  <2>1. MaxLength - bits[k] \in Nat
    BY MoreWidths, SMTT(30)
  <2> QED BY <2>1, PowNat
<1>4. FunctionOfInts(f)
  <2>1. f \in [DOMAIN c -> Int]
    BY <1>1, <1>3
  <2>2. IsFiniteSet(DOMAIN c)
    <3> DEFINE g == [j \in 1 .. n |-> a[j]]
    <3>1. IsFiniteSet(1 .. n)
      BY FS_Interval
    <3>2. g \in Surjection(1 .. n, DOMAIN c)
      BY <1>1 DEF Surjection
    <3> HIDE DEF g
    <3> QED BY <3>1, <3>2, FS_Surjection
  <2>3. DOMAIN f = DOMAIN c
    OBVIOUS
  <2> HIDE DEF f
  <2> QED BY <2>1, <2>2, <2>3 DEF FunctionOfInts
<1>5. \A k \in 1 .. n : Before(k) \in SUBSET DOMAIN f
  BY <1>1
<1>6. \A k \in 1 .. n : FirstCode(c, a[k]) = SumFunction(Restrict(f, Before(k)))
  <2> TAKE k \in 1 .. n
  <2>1. [y \in CodesBefore(c, a[k]) |-> Pow2[MaxLength - c[y]]] = Restrict(f, Before(k))
    BY <1>2, <1>5 DEF Restrict
  <2> QED BY <2>1 DEF FirstCode
<1>7. n >= 1 => FirstCode(c, a[1]) = 0
  <2>1. Before(1) = {}
    OBVIOUS
  <2> HIDE DEF Before, f
  <2>2. n >= 1 => FirstCode(c, a[1]) = SumFunction(Restrict(f, Before(1)))
    BY <1>6
  <2>3. SumFunction(Restrict(f, Before(1))) = 0
    BY <2>1, SumNone, Zenon
  <2> QED BY <2>2, <2>3
<1>8. ASSUME NEW k \in 1 .. n, k + 1 <= n PROVE FirstCode(c, a[k + 1]) = FirstCode(c, a[k]) + Pow2[MaxLength - bits[k]]
  <2>1. k + 1 \in 1 .. n
    BY <1>8
  <2>2. Before(k + 1) = Before(k) \cup {a[k]}
    <3>1. 1 .. (k + 1) - 1 = (1 .. k - 1) \cup {k}
      OBVIOUS
    <3> QED BY <3>1
  <2>3. a[k] \in DOMAIN f \ Before(k)
    <3>1. \A j \in 1 .. k - 1 : j \in 1 .. n /\ j < k
      OBVIOUS
    <3> QED BY <1>1, <3>1 DEF Distinct
  <2>4. f[a[k]] = Pow2[MaxLength - bits[k]]
    BY <1>1
  <2>5. Before(k) \in SUBSET DOMAIN f
    BY <1>5
  <2> HIDE DEF Before, f
  <2>6. SumFunction(Restrict(f, Before(k) \cup {a[k]})) = SumFunction(Restrict(f, Before(k))) + f[a[k]]
    BY <1>4, <2>3, <2>5, SumAdd
  <2> QED BY <1>6, <2>1, <2>2, <2>4, <2>6
<1> QED BY <1>7, <1>8 DEF c

\* A code of so many bits takes so many eighths.
LEMMA EighthsAre ==
  ASSUME NEW len \in 0 .. 3
  PROVE  Pow2[MaxLength - len] = Eighth * Eighths(len) /\ Eighths(len) \in Nat
<1> DEFINE d == MaxLength - 3
           i == 3 - len
<1>1. d \in Nat /\ i \in Nat /\ MaxLength - len = d + i /\ len \in {0, 1, 2, 3}
  BY MoreWidths
<1>2. Pow2[d + i] = Pow2[d] * Pow2[i]
  <2> HIDE DEF d, i
  <2> QED BY <1>1, PowSum
<1>3. Pow2[0] = 1 /\ Pow2[1] = 2 /\ Pow2[2] = 4 /\ Pow2[3] = 8
  <2>1. Pow2[0] = 1 /\ Pow2[0 + 1] = 2 * Pow2[0] /\ Pow2[1 + 1] = 2 * Pow2[1] /\ Pow2[2 + 1] = 2 * Pow2[2]
    BY PowStep
  <2> QED BY <2>1
<1>4. Pow2[i] = Eighths(len) /\ Eighths(len) \in Nat
  BY <1>1, <1>3 DEF Eighths
<1> QED BY <1>1, <1>2, <1>4 DEF Eighth

\* The list a of the symbols of a simple table.
SimpleList(a, num_symbols) ==
  /\ a \in [1 .. SimpleCount(num_symbols) -> Nat]
  /\ Distinct(a, SimpleCount(num_symbols))
  /\ InOrder(a, SimpleCount(num_symbols), SimpleBits(num_symbols))

\* Its code.
SimpleCode(a, num_symbols) == ListedCode(a, SimpleCount(num_symbols), SimpleBits(num_symbols))

\* Where the words of each symbol begin.
LEMMA SimpleStarts ==
  ASSUME NEW num_symbols \in 0 .. 4, NEW a, SimpleList(a, num_symbols), NEW k \in 1 .. SimpleCount(num_symbols)
  PROVE  FirstCode(SimpleCode(a, num_symbols), a[k]) = Eighth * SimpleFirst(num_symbols)[k]
<1> DEFINE n == SimpleCount(num_symbols)
           bits == SimpleBits(num_symbols)
           first == SimpleFirst(num_symbols)
           c == SimpleCode(a, num_symbols)
           P(j) == FirstCode(c, a[j]) = Eighth * first[j]
<1>1. n \in {1, 2, 3, 4}
  BY DEF SimpleCount
<1>2. SimpleFacts(num_symbols)
  BY SimpleIs
<1>3. /\ \A j \in 1 .. n : bits[j] \in 0 .. 3 /\ first[j] \in 0 .. 7
      /\ first[1] = 0
      /\ \A j \in 1 .. n - 1 : first[j + 1] = first[j] + Eighths(bits[j])
  BY <1>2 DEF SimpleFacts
<1>4. a \in [1 .. n -> Nat] /\ Distinct(a, n) /\ InOrder(a, n, bits) /\ c = ListedCode(a, n, bits)
  BY DEF SimpleList, SimpleCode
<1> HIDE DEF n, bits, first, c
<1>5. \A j \in 1 .. n : bits[j] \in 0 .. MaxLength
  BY <1>3, MoreWidths
<1>6. /\ FirstCode(c, a[1]) = 0
      /\ \A j \in 1 .. n : j + 1 <= n => FirstCode(c, a[j + 1]) = FirstCode(c, a[j]) + Pow2[MaxLength - bits[j]]
  <2>1. n \in Nat /\ n >= 1
    BY <1>1
  <2> QED BY <1>4, <1>5, <2>1, ListedFirst
<1>7. Eighth \in Nat
  <2>1. 0 \in Inputs
    BY MoreWidths DEF Inputs
  <2> QED BY <2>1, EighthOf
<1>8. P(1)
  BY <1>3, <1>6, <1>7
<1>9. ASSUME NEW j \in 1 .. n, j + 1 <= n, P(j) PROVE P(j + 1)
  <2>1. j \in 1 .. n - 1 /\ bits[j] \in 0 .. 3 /\ first[j] \in Nat
    BY <1>3, <1>9, <1>1
  <2>2. FirstCode(c, a[j + 1]) = Eighth * first[j] + Eighth * Eighths(bits[j])
    BY <1>6, <1>9, <2>1, EighthsAre
  <2>3. Eighth * (first[j] + Eighths(bits[j])) = Eighth * first[j] + Eighth * Eighths(bits[j])
    <3>1. Eighths(bits[j]) \in Nat
      BY <2>1, EighthsAre
    <3> QED BY <1>7, <2>1, <3>1
  <2>4. first[j + 1] = first[j] + Eighths(bits[j])
    BY <1>3, <2>1
  <2> QED BY <2>2, <2>3, <2>4
<1> HIDE DEF P
<1>10. n \in Nat /\ k \in 1 .. n
  BY <1>1 DEF n
<1>11. 2 <= n => P(2)
  <2>1. 2 <= n => 1 \in 1 .. n /\ 1 + 1 <= n /\ 1 + 1 = 2
    BY <1>10
  <2> QED BY <1>8, <1>9, <2>1
<1>12. 3 <= n => P(3)
  <2>1. 3 <= n => 2 \in 1 .. n /\ 2 + 1 <= n /\ 2 + 1 = 3 /\ 2 <= n
    BY <1>10
  <2> QED BY <1>11, <1>9, <2>1
<1>13. 4 <= n => P(4)
  <2>1. 4 <= n => 3 \in 1 .. n /\ 3 + 1 <= n /\ 3 + 1 = 4 /\ 3 <= n
    BY <1>10
  <2> QED BY <1>12, <1>9, <2>1
<1>14. k \in {1, 2, 3, 4} /\ k <= n
  BY <1>1, <1>10
<1>15. P(k)
  BY <1>8, <1>11, <1>12, <1>13, <1>14
<1> QED BY <1>15 DEF P, first, c

\* A root entry is that of the first three bits of the input.
LEMMA SimpleEntry ==
  ASSUME NEW num_symbols \in 0 .. 4, NEW v, NEW w \in Inputs
  PROVE  LET e == SimpleAt(num_symbols, w % 8)
             t == BuildSimpleHuffmanTable(v, num_symbols)
         IN  t[RootAt(w)] = HuffmanCode(e[1], SimpleOrder(v, num_symbols)[e[2]])
<1> DEFINE shape == SimpleShape(num_symbols)
           m == Len(shape)
           p == Pow2[RootBits]
           q == Pow2[RootBits - 3]
<1>1. m \in {1, 2, 4, 8}
  BY SimpleIs DEF SimpleFacts
<1>2. w \in Nat /\ RootAt(w) \in 0 .. p - 1 /\ RootAt(w) = w % p
  BY WordSplit, MoreWidths DEF Inputs, RootAt
<1>3. q \in Nat \ {0} /\ p = 8 * q
  <2> DEFINE d == RootBits - 3
  <2>1. d \in Nat /\ RootBits = 3 + d
    BY MoreWidths
  <2> HIDE DEF d
  <2>2. Pow2[3 + d] = Pow2[3] * Pow2[d] /\ Pow2[d] \in Nat \ {0}
    BY <2>1, PowSum, PowNat
  <2>3. Pow2[3] = 8
    <3>1. Pow2[0] = 1 /\ Pow2[0 + 1] = 2 * Pow2[0] /\ Pow2[1 + 1] = 2 * Pow2[1] /\ Pow2[2 + 1] = 2 * Pow2[2]
      BY PowStep
    <3> QED BY <3>1
  <2> QED BY <2>1, <2>2, <2>3 DEF d
<1> HIDE DEF p, q
<1>4. (w % p) % m = (w % 8) % m
  <2>1. PICK r \in Nat \ {0} : 8 = m * r
    <3>1. m = 1 \/ m = 2 \/ m = 4 \/ m = 8
      BY <1>1
    <3>2. 8 = 1 * 8 /\ 8 = 2 * 4 /\ 8 = 4 * 2 /\ 8 = 8 * 1
      OBVIOUS
    <3>3. m = 1 => \E r \in Nat \ {0} : 8 = m * r
      BY <3>2
    <3>4. m = 2 => \E r \in Nat \ {0} : 8 = m * r
      BY <3>2
    <3>5. m = 4 => \E r \in Nat \ {0} : 8 = m * r
      BY <3>2
    <3>6. m = 8 => \E r \in Nat \ {0} : 8 = m * r
      BY <3>2
    <3> HIDE DEF m
    <3> QED BY <3>1, <3>3, <3>4, <3>5, <3>6
  <2>2. m \in Nat \ {0}
    BY <1>1, SMTT(30)
  <2> HIDE DEF m
  <2>3. (w % (m * r)) % m = w % m
    BY <1>2, <2>1, <2>2, ModOfMod
  <2> DEFINE z == r * q
  <2>4. z \in Nat \ {0} /\ p = m * z
    <3>1. (m * r) * q = m * (r * q)
      BY <1>3, <2>1, <2>2
    <3>2. r * q \in Nat \ {0}
      BY <1>3, <2>1
    <3> QED BY <1>3, <2>1, <3>1, <3>2
  <2> HIDE DEF z
  <2>5. (w % (m * z)) % m = w % m
    BY <1>2, <2>2, <2>4, ModOfMod
  <2> QED BY <2>1, <2>3, <2>4, <2>5
<1> HIDE DEF shape, m
<1>5. BuildSimpleHuffmanTable(v, num_symbols)[RootAt(w)]
        = HuffmanCode(shape[(RootAt(w) % m) + 1][1], SimpleOrder(v, num_symbols)[shape[(RootAt(w) % m) + 1][2]])
  BY <1>2 DEF BuildSimpleHuffmanTable, p, shape, m
<1>6. SimpleAt(num_symbols, w % 8) = shape[((w % 8) % m) + 1]
  BY DEF SimpleAt, shape, m
<1> QED BY <1>2, <1>4, <1>5, <1>6

\* An input decodes as its entry.
LEMMA SimpleDecodes ==
  ASSUME NEW num_symbols \in 0 .. 4, NEW v, NEW w \in Inputs, NEW k \in 1 .. SimpleCount(num_symbols),
         SimpleAt(num_symbols, w % 8) = <<SimpleBits(num_symbols)[k], k>>
  PROVE  LET t == BuildSimpleHuffmanTable(v, num_symbols)
         IN  /\ DecodeSymbol(w, t) = HuffmanCode(SimpleBits(num_symbols)[k], SimpleOrder(v, num_symbols)[k])
             /\ \A bound : Entries(t, w, bound)
<1> DEFINE t == BuildSimpleHuffmanTable(v, num_symbols)
           len == SimpleBits(num_symbols)[k]
           x == SimpleOrder(v, num_symbols)[k]
           root == t[RootAt(w)]
<1>1. root = HuffmanCode(len, x)
  BY SimpleEntry
<1>2. len \in 0 .. 3
  BY SimpleIs DEF SimpleFacts
<1> HIDE DEF t, len, x
<1>3. root.bits = len
  BY <1>1 DEF HuffmanCode
<1>4. root.bits \in Nat /\ ~(root.bits > RootBits) /\ ~(root.bits - RootBits > 0)
  BY <1>2, <1>3, MoreWidths
<1>5. \A bound : Entries(t, w, bound)
  BY <1>4 DEF Entries
<1>6. DecodeSymbol(w, t) = root
  BY <1>4, Zenon DEF DecodeSymbol, RootAt
<1> HIDE DEF root
<1> QED BY <1>1, <1>5, <1>6 DEF t, len, x

\* Every input is a word of the symbol of its entry.
LEMMA SimpleWordsFit ==
  ASSUME NEW num_symbols \in 0 .. 4, NEW a, SimpleList(a, num_symbols), NEW w \in Inputs
  PROVE  \E k \in 1 .. SimpleCount(num_symbols) :
           /\ SimpleAt(num_symbols, w % 8) = <<SimpleBits(num_symbols)[k], k>>
           /\ Reversed(w, MaxLength) \in CodeWords(SimpleCode(a, num_symbols), a[k])
<1> DEFINE n == SimpleCount(num_symbols)
           bits == SimpleBits(num_symbols)
           first == SimpleFirst(num_symbols)
           i == w % 8
           v == Reversed(w, MaxLength)
           c == SimpleCode(a, num_symbols)
<1>1. /\ i \in 0 .. 7 /\ Eighth \in Nat \ {0} /\ v \in Nat
      /\ Eighth * Reversed3(i) <= v /\ v < Eighth * Reversed3(i) + Eighth
  BY EighthOf
<1>2. PICK k \in 1 .. n : /\ SimpleAt(num_symbols, i) = <<bits[k], k>>
                          /\ first[k] <= Reversed3(i)
                          /\ Reversed3(i) < first[k] + Eighths(bits[k])
  <2>1. EntryFits(num_symbols, i)
    BY <1>1, SimpleIs DEF SimpleFacts
  <2> QED BY <2>1 DEF EntryFits
<1>3. bits[k] \in 0 .. 3 /\ first[k] \in 0 .. 7
  BY SimpleIs DEF SimpleFacts
<1>4. FirstCode(c, a[k]) = Eighth * first[k]
  BY SimpleStarts
<1>5. c[a[k]] = bits[k]
  <2>1. n \in Nat
    BY DEF SimpleCount
  <2>2. GivesBits(ListedCode(a, n, bits), a, n, bits)
    BY <2>1, ListedCodeIs DEF SimpleList
  <2>3. GivesBits(c, a, n, bits)
    BY <2>2 DEF SimpleCode
  <2> HIDE DEF n, bits, c
  <2> QED BY <2>3 DEF GivesBits
<1>6. Pow2[MaxLength - bits[k]] = Eighth * Eighths(bits[k]) /\ Eighths(bits[k]) \in Nat
  BY <1>3, EighthsAre
<1>7. Reversed3(i) \in Nat
  BY <1>1, Reversed3Is
<1> DEFINE r == Reversed3(i)
           f == first[k]
           u == Eighths(bits[k])
           e == Eighth
<1>8. e * f <= v /\ v < e * f + e * u
  <2>1. r \in Nat /\ f \in Nat /\ u \in Nat /\ e \in Nat /\ f <= r /\ r + 1 <= f + u
    BY <1>1, <1>2, <1>3, <1>6, <1>7
  <2>2. e * r <= v /\ v < e * r + e /\ v \in Nat
    BY <1>1
  <2> HIDE DEF r, f, u, e, v
  <2>3. e * r = e * f + e * (r - f) /\ e * (r - f) \in Nat /\ e * f \in Nat
    BY <2>1
  <2>4. e * f + e * u = (e * r + e) + e * ((f + u) - (r + 1)) /\ e * ((f + u) - (r + 1)) \in Nat
    BY <2>1
  <2>5. e * r \in Nat /\ e * u \in Nat
    BY <2>1
  <2> QED BY <2>1, <2>2, <2>3, <2>4, <2>5
<1>9. v \in CodeWords(c, a[k])
  <2>1. e * f \in Nat /\ e * u \in Nat /\ v \in Nat
    BY <1>1, <1>3, <1>6
  <2>2. CodeWords(c, a[k]) = e * f .. e * f + e * u - 1
    BY <1>4, <1>5, <1>6 DEF CodeWords
  <2> HIDE DEF e, f, u, v, c
  <2> QED BY <1>8, <2>1, <2>2
<1> QED BY <1>2, <1>9

\* The table of listed symbols is that of the canonical code of the lengths that
\* their number gives them.
LEMMA SimpleTable ==
  ASSUME NEW num_symbols \in 0 .. 4, NEW v \in [1 .. SimpleCount(num_symbols) -> Nat],
         Len(v) = SimpleCount(num_symbols), IsInjective(v)
  PROVE  CodeTable(BuildSimpleHuffmanTable(v, num_symbols), SimpleCode(SimpleOrder(v, num_symbols), num_symbols))
<1> DEFINE t == BuildSimpleHuffmanTable(v, num_symbols)
           a == SimpleOrder(v, num_symbols)
           n == SimpleCount(num_symbols)
           bits == SimpleBits(num_symbols)
           c == SimpleCode(a, num_symbols)
<1>1. SimpleList(a, num_symbols)
  BY SimpleOrderIs DEF SimpleList, Distinct
<1>2. GivesBits(c, a, n, bits)
  <2>1. n \in Nat
    BY DEF SimpleCount
  <2> HIDE DEF a
  <2>2. GivesBits(ListedCode(a, n, bits), a, n, bits)
    BY <1>1, <2>1, ListedCodeIs DEF SimpleList
  <2> QED BY <2>2 DEF SimpleCode
<1>3. \A w \in Inputs : \A k \in 1 .. n : SimpleAt(num_symbols, w % 8) = <<bits[k], k>> => DecodedTo(t, w, c, a[k])
  <2> TAKE w \in Inputs
  <2> TAKE k \in 1 .. n
  <2> HAVE SimpleAt(num_symbols, w % 8) = <<bits[k], k>>
  <2>1. DecodeSymbol(w, t) = HuffmanCode(bits[k], a[k])
    BY SimpleDecodes
  <2> HIDE DEF t, a, n, bits, c
  <2>2. c[a[k]] = bits[k]
    BY <1>2 DEF GivesBits
  <2> QED BY <2>1, <2>2 DEF DecodedTo
<1>4. \A w \in Inputs : \A k \in 1 .. n :
        SimpleAt(num_symbols, w % 8) = <<bits[k], k>> => \A bound : Entries(t, w, bound)
  BY SimpleDecodes
<1>5. \A w \in Inputs : \E k \in 1 .. n : SimpleAt(num_symbols, w % 8) = <<bits[k], k>>
                          /\ Reversed(w, MaxLength) \in CodeWords(c, a[k])
  <2> HIDE DEF a
  <2> QED BY <1>1, SimpleWordsFit
<1>6. \A k \in 1 .. n : \E w \in Inputs : SimpleAt(num_symbols, w % 8) = <<bits[k], k>>
  <2> TAKE k \in 1 .. n
  <2>1. PICK i \in 0 .. 7 : SimpleAt(num_symbols, i) = <<bits[k], k>>
    BY SimpleIs DEF SimpleFacts
  <2>2. i \in Inputs
    <3>1. 0 \in Inputs
      BY MoreWidths DEF Inputs
    <3>2. Eighth \in Nat \ {0} /\ Pow2[MaxLength] = 8 * Eighth
      BY <3>1, EighthOf
    <3> QED BY <3>2 DEF Inputs
  <2>3. i % 8 = i
    OBVIOUS
  <2> HIDE DEF n, bits
  <2> QED BY <2>1, <2>2, <2>3
<1> HIDE DEF t, a, n, bits, c
<1>7. CodeTable(t, c)
  <2>1. DOMAIN c = {a[k] : k \in 1 .. n}
    BY <1>2 DEF GivesBits
  <2>2. \A w \in Inputs : \E x \in DOMAIN c : DecodedTo(t, w, c, x) /\ Reversed(w, MaxLength) \in CodeWords(c, x)
    BY <1>3, <1>5, <2>1
  <2>3. \A x \in DOMAIN c : \E w \in Inputs : DecodedTo(t, w, c, x)
    BY <1>3, <1>6, <2>1
  <2>4. \A w \in Inputs : \E bound : Entries(t, w, bound)
    BY <1>4, <1>5
  <2> QED BY <2>2, <2>3, <2>4 DEF CodeTable
<1> QED BY <1>7 DEF t, a, c

\* ... so it is that of a code.
LEMMA SimpleTableIsCode ==
  ASSUME NEW num_symbols \in 0 .. 4, NEW v \in [1 .. SimpleCount(num_symbols) -> Nat],
         Len(v) = SimpleCount(num_symbols), IsInjective(v)
  PROVE  IsCode(BuildSimpleHuffmanTable(v, num_symbols))
<1> DEFINE c == SimpleCode(SimpleOrder(v, num_symbols), num_symbols)
<1>1. c = [x \in DOMAIN c |-> c[x]]
  BY DEF SimpleCode, ListedCode
<1>2. CodeTable(BuildSimpleHuffmanTable(v, num_symbols), c)
  BY SimpleTable
<1> HIDE DEF c
<1> QED BY <1>1, <1>2 DEF IsCode

---------------------------------------------------------------------------
(* The invariant from which every table decodes.                           *)

\* The first n listed symbols are in their places.
ListedUpTo(c, n) == \A k \in 0 .. n - 1 : c.lists[Item(k)] \in 0 .. MaxSymbol - 1

\* The symbols listed so far.
SimpleRead ==
  Running /\ substate = "SIMPLE_READ" => ListedUpTo(chains, Fields.sub_loop_counter)

\* All are, and no two are the same.
SimpleListed ==
  Running /\ substate = "SIMPLE_BUILD" =>
    ListedUpTo(chains, s.symbol + 1) /\ IsInjective(SimpleSymbols(s.symbol + 1))

\* The lists, the counts and the space are those of the lengths read.
LengthsLinked ==
  Running /\ substate = "LENGTH_SYMBOLS" => LinkedFields(chains, Fields)

\* The table that was built is that of a canonical code.
TableIsCode == outcome = "SUCCESS" => IsCode(table)

DecodeInv == SimpleRead /\ SimpleListed /\ LengthsLinked /\ TableIsCode

\* Where nothing is kept for the table.
LEMMA Elsewhere ==
  ASSUME Running' => substate' \notin {"SIMPLE_READ", "SIMPLE_BUILD", "LENGTH_SYMBOLS"}, TableIsCode'
  PROVE  DecodeInv'
  BY DEF DecodeInv, SimpleRead, SimpleListed, LengthsLinked

\* At the start nothing is kept.
LEMMA DecodeInit == Init => DecodeInv
  BY DEF Init, DecodeInv, SimpleRead, SimpleListed, LengthsLinked, TableIsCode

\* The copies are made, or saved.
LEMMA CopiesKeep ==
  ASSUME DecodeInv, Running, Fields'.sub_loop_counter = Fields.sub_loop_counter, s'.symbol = s.symbol,
         substate = "LENGTH_SYMBOLS" => Fields' = Fields,
         UNCHANGED <<substate, chains, table, outcome>>
  PROVE  DecodeInv'
<1>1. SimpleRead'
  BY DEF DecodeInv, SimpleRead, Running
<1>2. SimpleSymbols(s.symbol + 1)' = SimpleSymbols(s.symbol + 1)
  BY DEF SimpleSymbols
<1>3. SimpleListed'
  <2> SUFFICES ASSUME Running', substate' = "SIMPLE_BUILD"
               PROVE  (ListedUpTo(chains, s.symbol + 1) /\ IsInjective(SimpleSymbols(s.symbol + 1)))'
    BY DEF SimpleListed
  <2>1. ListedUpTo(chains, s.symbol + 1) /\ IsInjective(SimpleSymbols(s.symbol + 1))
    BY DEF DecodeInv, SimpleListed
  <2>2. ListedUpTo(chains', s'.symbol + 1)
    BY <2>1, Zenon
  <2>3. IsInjective(SimpleSymbols(s.symbol + 1))'
    BY <1>2, <2>1 DEF IsInjective
  <2> QED BY <2>2, <2>3
<1>4. LengthsLinked'
  BY DEF DecodeInv, LengthsLinked, Running
<1>5. TableIsCode'
  BY DEF DecodeInv, TableIsCode
<1> QED BY <1>1, <1>3, <1>4, <1>5 DEF DecodeInv

\* A loop begins.
LEMMA EnterDecodes ==
  ASSUME ReaderInv, DecodeInv, NEW at, Enter(at)
  PROVE  DecodeInv'
<1>1. Running /\ local = Outside /\ local' = s /\ UNCHANGED <<substate, s, chains, table, outcome>>
  BY DEF Enter, Inside
<1>2. Fields' = Fields
  BY <1>1 DEF Fields
<1> QED BY <1>1, <1>2, CopiesKeep

\* How many symbols are listed: none is read.
LEMMA ReadSimpleSizeDecodes ==
  ASSUME ReaderInv, DecodeInv, ReadSimpleSize
  PROVE  DecodeInv'
<1>1. /\ Shapes /\ Calls /\ Running /\ substate = "SIMPLE_SIZE" /\ substate' = "SIMPLE_READ"
      /\ UNCHANGED <<local, chains, table, outcome>>
  BY DEF ReaderInv, ReadSimpleSize
<1>2. local' = Outside
  BY <1>1 DEF Calls, Inside
<1>3. PICK num_symbols \in 0 .. 3 : s' = [s EXCEPT !.symbol = num_symbols, !.sub_loop_counter = 0]
  BY DEF ReadSimpleSize
<1>4. Fields'.sub_loop_counter = 0
  BY <1>1, <1>2, <1>3 DEF Fields, Shapes, FieldsOK, FieldsType
<1>5. ListedUpTo(chains', 0)
  BY DEF ListedUpTo
<1> QED BY <1>1, <1>4, <1>5 DEF DecodeInv, SimpleRead, SimpleListed, LengthsLinked, TableIsCode

\* A listed symbol is read, each to a place of its own.
LEMMA ReadSimpleSymbolDecodes ==
  ASSUME ReaderInv, DecodeInv, ReadSimpleSymbol
  PROVE  DecodeInv'
<1>0. /\ Shapes /\ Calls /\ SimplePhase /\ Running /\ substate = "SIMPLE_READ" /\ Inside
      /\ local.sub_loop_counter <= s.symbol /\ outcome # "SUCCESS"
      /\ UNCHANGED <<substate, s, table>>
  BY DEF ReaderInv, ReadSimpleSymbol, Calls, Running
<1>1. FieldsOK(local) /\ FieldsOK(s) /\ s.symbol <= 3 /\ Fields = local /\ ChainsOK(chains)
  BY <1>0 DEF Shapes, SimplePhase, Inside, Fields
<1>2. PICK v \in 0 .. Pow2[SymbolWidth] - 1 :
         IF v >= MaxSymbol
         THEN Fail("SIMPLE_HUFFMAN_ALPHABET") /\ UNCHANGED chains
         ELSE /\ chains' = [chains EXCEPT !.lists[Item(local.sub_loop_counter)] = v]
              /\ local' = [local EXCEPT !.sub_loop_counter = @ + 1]
              /\ UNCHANGED outcome
  BY DEF ReadSimpleSymbol
<1>3. v \in Nat
  <2>1. Pow2[SymbolWidth] \in Nat
    BY SymbolWidthIs, PowNat
  <2> QED BY <2>1
<1>4. CASE v >= MaxSymbol
  BY <1>2, <1>4, Elsewhere DEF Fail, Running, TableIsCode
<1>5. CASE ~(v >= MaxSymbol)
  <2> DEFINE n == local.sub_loop_counter
  <2>1. /\ chains' = [chains EXCEPT !.lists[Item(n)] = v]
        /\ local' = [local EXCEPT !.sub_loop_counter = n + 1]
        /\ UNCHANGED outcome
    BY <1>2, <1>5
  <2>2. n \in 0 .. 3
    <3>1. n \in 0 .. Codes /\ s.symbol \in 0 .. MaxSymbol
      BY <1>1 DEF FieldsOK, FieldsType
    <3>2. Codes \in Nat /\ MaxSymbol \in Nat
      BY ReaderConstants
    <3> QED BY <1>0, <1>1, <3>1, <3>2
  <2>3. v \in 0 .. MaxSymbol - 1
    BY <1>3, <1>5, ReaderConstants
  <2>4. Fields'.sub_loop_counter = n + 1
    <3>1. local'.sub_loop_counter = n + 1
      BY <1>1, <2>1 DEF FieldsOK, FieldsType
    <3>2. local' # Outside
      <4>1. Outside.sub_loop_counter = -1
        BY DEF Outside
      <4> QED BY <2>2, <3>1, <4>1
    <3> QED BY <3>1, <3>2 DEF Fields
  <2>5. ListedUpTo(chains, n)
    BY <1>0, <1>1 DEF DecodeInv, SimpleRead
  <2>6. /\ chains.lists \in [Places -> ListEnd .. MaxSymbol - 1]
        /\ chains'.lists = [chains.lists EXCEPT ![Item(n)] = v]
    BY <1>1, <2>1 DEF ChainsOK
  <2>7. ListedUpTo(chains', n + 1)
    <3> SUFFICES ASSUME NEW k \in 0 .. (n + 1) - 1 PROVE chains'.lists[Item(k)] \in 0 .. MaxSymbol - 1
      BY DEF ListedUpTo
    <3> HIDE DEF n
    <3>1. Item(k) \in Places
      <4>1. k \in 0 .. 3 /\ MaxLength \in Nat /\ MaxSymbol \in Nat /\ MaxSymbol >= 4
        BY <2>2, ReaderConstants, MoreWidths
      <4>2. k - (MaxLength + 1) \in -(MaxLength + 1) .. MaxSymbol - 1
        BY <4>1
      <4> QED BY <4>2 DEF Item, Places, SymbolListsIndex
    <3>2. CASE k = n
      BY <2>3, <2>6, <3>1, <3>2
    <3>3. CASE k # n
      <4>1. k \in 0 .. n - 1
        BY <2>2, <3>3
      <4>2. Item(k) # Item(n)
        BY <2>2, <3>3, MoreWidths DEF Item, SymbolListsIndex
      <4>3. chains.lists[Item(k)] \in 0 .. MaxSymbol - 1
        BY <2>5, <4>1 DEF ListedUpTo
      <4> QED BY <2>6, <3>1, <4>2, <4>3
    <3> QED BY <3>2, <3>3
  <2>8. SimpleRead'
    BY <2>4, <2>7 DEF SimpleRead
  <2> QED BY <1>0, <2>1, <2>8 DEF DecodeInv, SimpleListed, LengthsLinked, TableIsCode
<1> QED BY <1>4, <1>5

\* The input ends among them: the place of the next one is saved.
LEMMA PauseSimpleDecodes ==
  ASSUME ReaderInv, DecodeInv, PauseSimple
  PROVE  DecodeInv'
<1>0. /\ Shapes /\ Calls /\ Running /\ substate = "SIMPLE_READ" /\ Inside
      /\ s' = [s EXCEPT !.sub_loop_counter = local.sub_loop_counter] /\ local' = Outside
      /\ UNCHANGED <<substate, chains, table, outcome>>
  BY DEF ReaderInv, PauseSimple, Calls
<1>1. FieldsOK(s) /\ Fields = local /\ Fields' = s'
  BY <1>0 DEF Shapes, Inside, Fields
<1>2. s'.sub_loop_counter = local.sub_loop_counter /\ s'.symbol = s.symbol
  BY <1>0, <1>1 DEF FieldsOK, FieldsType
<1> QED BY <1>0, <1>1, <1>2, CopiesKeep

\* They are complete, and no two are the same.
LEMMA EndSimpleDecodes ==
  ASSUME ReaderInv, DecodeInv, EndSimple
  PROVE  DecodeInv'
<1>0. /\ Shapes /\ Calls /\ SimplePhase /\ Running /\ substate = "SIMPLE_READ" /\ Inside
      /\ local.sub_loop_counter > s.symbol /\ outcome # "SUCCESS"
      /\ UNCHANGED <<s, chains, table>>
  BY DEF ReaderInv, EndSimple, Calls, Running
<1>1. FieldsOK(local) /\ FieldsOK(s) /\ Fields = local
  BY <1>0 DEF Shapes, Inside, Fields
<1>2. CASE Fail("SIMPLE_HUFFMAN_SAME")
  BY <1>2, Elsewhere DEF Fail, Running, TableIsCode
<1>3. CASE ~Fail("SIMPLE_HUFFMAN_SAME")
  <2>1. IsInjective(SimpleSymbols(s.symbol + 1)) /\ substate' = "SIMPLE_BUILD" /\ UNCHANGED outcome
    BY <1>3 DEF EndSimple
  <2>2. ListedUpTo(chains, local.sub_loop_counter)
    BY <1>0, <1>1 DEF DecodeInv, SimpleRead
  <2>3. ListedUpTo(chains, s.symbol + 1)
    <3>1. local.sub_loop_counter \in Nat /\ s.symbol \in Nat
      BY <1>1, ReaderConstants DEF FieldsOK, FieldsType
    <3>2. \A k \in 0 .. (s.symbol + 1) - 1 : k \in 0 .. local.sub_loop_counter - 1
      BY <1>0, <3>1
    <3> QED BY <2>2, <3>2 DEF ListedUpTo
  <2>4. SimpleSymbols(s.symbol + 1)' = SimpleSymbols(s.symbol + 1)
    BY <1>0 DEF SimpleSymbols
  <2>5. IsInjective(SimpleSymbols(s.symbol + 1))'
    BY <2>1, <2>4 DEF IsInjective
  <2>6. ListedUpTo(chains', s'.symbol + 1)
    BY <1>0, <2>3, Zenon
  <2>7. SimpleListed'
    BY <2>5, <2>6 DEF SimpleListed
  <2> QED BY <1>0, <2>1, <2>7 DEF DecodeInv, SimpleRead, LengthsLinked, TableIsCode
<1> QED BY <1>2, <1>3

\* Their table is built.
LEMMA BuildSimpleDecodes ==
  ASSUME ReaderInv, DecodeInv, BuildSimple
  PROVE  DecodeInv'
<1>0. Shapes /\ SimplePhase /\ Running /\ substate = "SIMPLE_BUILD"
  BY DEF ReaderInv, BuildSimple
<1>1. FieldsOK(s) /\ s.symbol <= 3 /\ s.symbol \in Nat
  BY <1>0, ReaderConstants DEF Shapes, SimplePhase, FieldsOK, FieldsType
<1>2. PICK bits \in IF s.symbol = 3 THEN {0, 1} ELSE {0} :
        Built(BuildSimpleHuffmanTable(SimpleSymbols(s.symbol + 1), s.symbol + bits))
  BY DEF BuildSimple
<1> DEFINE num_symbols == s.symbol + bits
           n == s.symbol + 1
           v == SimpleSymbols(n)
<1>3. num_symbols \in 0 .. 4 /\ SimpleCount(num_symbols) = n /\ n \in Nat
  <2>1. CASE s.symbol = 3
    <3>1. bits = 0 \/ bits = 1
      BY <1>2, <2>1
    <3> QED BY <2>1, <3>1 DEF SimpleCount
  <2>2. CASE s.symbol # 3
    <3>1. bits = 0 /\ s.symbol \in 0 .. 2
      BY <1>1, <1>2, <2>2
    <3> QED BY <3>1 DEF SimpleCount
  <2> QED BY <2>1, <2>2
<1>4. IsInjective(v) /\ ListedUpTo(chains, n)
  BY <1>0 DEF DecodeInv, SimpleListed
<1>5. v = [k \in 1 .. n |-> chains.lists[Item(k - 1)]]
  BY DEF SimpleSymbols
<1> HIDE DEF n, num_symbols, v
<1>6. v \in [1 .. n -> Nat] /\ Len(v) = n
  <2>1. \A k \in 1 .. n : chains.lists[Item(k - 1)] \in Nat
    <3> TAKE k \in 1 .. n
    <3>1. k - 1 \in 0 .. n - 1
      BY <1>3
    <3>2. chains.lists[Item(k - 1)] \in 0 .. MaxSymbol - 1
      BY <1>4, <3>1 DEF ListedUpTo
    <3> QED BY <3>2
  <2>2. v \in [1 .. n -> Nat]
    BY <1>5, <2>1
  <2>3. Len(v) = n
    BY <1>3, <1>5
  <2> QED BY <2>2, <2>3
<1>7. IsCode(BuildSimpleHuffmanTable(v, num_symbols))
  BY <1>3, <1>4, <1>6, SimpleTableIsCode
<1>8. table' = BuildSimpleHuffmanTable(v, num_symbols) /\ substate' = "NONE"
  BY <1>2 DEF Built, v, n, num_symbols
<1>9. TableIsCode'
  BY <1>7, <1>8 DEF TableIsCode
<1> QED BY <1>8, <1>9, Elsewhere

\* The lengths begin with empty lists.
LEMMA EndCodeLengthsDecodes ==
  ASSUME ReaderInv, DecodeInv, EndCodeLengths
  PROVE  DecodeInv'
<1>0. Shapes /\ Calls /\ Running /\ substate = "COMPLEX" /\ Inside /\ outcome # "SUCCESS" /\ UNCHANGED table
  BY DEF ReaderInv, EndCodeLengths, Calls, Running
<1>1. CASE Fail("CL_SPACE")
  BY <1>1, Elsewhere DEF Fail, Running, TableIsCode
<1>2. CASE ~Fail("CL_SPACE")
  <2>1. chains' = EmptyChains /\ s' = StartLengths /\ substate' = "LENGTH_SYMBOLS" /\ local' = Outside /\ UNCHANGED outcome
    BY <1>2 DEF EndCodeLengths
  <2>2. Fields' = StartLengths
    BY <2>1 DEF Fields
  <2>3. LinkedFields(EmptyChains, StartLengths)
    BY <1>0, StartIsLinked DEF Shapes
  <2>4. LinkedFields(chains', Fields')
    BY <2>1, <2>2, <2>3, Zenon
  <2>5. LengthsLinked'
    BY <2>4 DEF LengthsLinked
  <2> QED BY <1>0, <2>1, <2>5 DEF DecodeInv, SimpleRead, SimpleListed, TableIsCode
<1> QED BY <1>1, <1>2

\* The step of either loop over the lengths.
LEMMA LengthStepDecodes ==
  ASSUME ReaderInv, DecodeInv, Running, substate = "LENGTH_SYMBOLS",
         NEW g, FieldsOK(g), Update(g), LinkedFields(chains', g), UNCHANGED <<substate, table, outcome>>
  PROVE  DecodeInv'
<1>0. Shapes /\ Calls /\ outcome # "SUCCESS"
  BY DEF ReaderInv, Running
<1>1. \A f : FieldsOK(f) => f # Outside
  BY <1>0, FieldsAre DEF Shapes
<1>2. \/ Inside /\ local' = g /\ s' = s
      \/ local = Outside /\ s' = g /\ local' = Outside
  BY DEF Update, Inside
<1>3. Fields' = g
  BY <1>1, <1>2 DEF Fields
<1>4. LinkedFields(chains', Fields')
  BY <1>3, Zenon
<1>5. LengthsLinked'
  BY <1>4 DEF LengthsLinked
<1> QED BY <1>0, <1>5 DEF DecodeInv, SimpleRead, SimpleListed, TableIsCode

\* A length is read.
LEMMA ReadLengthDecodes ==
  ASSUME ReaderInv, DecodeInv, NEW code_len \in 0 .. MaxLength, ReadLength(code_len)
  PROVE  DecodeInv'
<1> DEFINE f == Fields
           g == ProcessSingleCodeLength(Fields, code_len)
<1>0. /\ Shapes /\ Running /\ substate = "LENGTH_SYMBOLS" /\ f.symbol < MaxSymbol
      /\ Update(g)
      /\ chains' = IF code_len = 0 THEN chains ELSE Extended(code_len, f.symbol, 1)
      /\ UNCHANGED <<substate, table, outcome>>
  BY DEF ReaderInv, ReadLength, MoreLengths
<1>1. FieldsOK(f) /\ ChainsOK(chains) /\ LinkedFields(chains, f)
  BY <1>0, FieldsAre DEF Shapes, DecodeInv, LengthsLinked
<1>2. FieldsOK(g)
  BY <1>0, <1>1, SingleOK
<1>3. LinkedFields(IF code_len = 0 THEN chains ELSE Extended(code_len, f.symbol, 1), g)
  <2> HIDE DEF f
  <2> QED BY <1>0, <1>1, SingleLinked DEF f
<1> HIDE DEF f, g
<1>4. LinkedFields(chains', g)
  BY <1>0, <1>3, Zenon
<1> QED BY <1>0, <1>2, <1>4, LengthStepDecodes

\* A code of a run is read.
LEMMA ReadRunDecodes ==
  ASSUME ReaderInv, DecodeInv, NEW code_len \in {RepeatCode, RepeatCode + 1}, NEW delta \in Nat, ReadRun(code_len, delta)
  PROVE  DecodeInv'
<1> DEFINE f == Fields
           g == ProcessRepeatedCodeLength(Fields, code_len, delta)
           n == RunDelta(Fields, code_len, delta)
           length == RunLength(Fields, code_len)
<1>0. /\ Shapes /\ Running /\ LengthsPhase /\ substate = "LENGTH_SYMBOLS" /\ f.symbol < MaxSymbol
      /\ Update(g)
      /\ chains' = IF length = 0 \/ ~Fits(f, n) THEN chains ELSE Extended(length, f.symbol, n)
      /\ UNCHANGED <<substate, table, outcome>>
  BY DEF ReaderInv, ReadRun, MoreLengths
<1>1. FieldsOK(f) /\ ChainsOK(chains) /\ LinkedFields(chains, f) /\ LengthsRead(f, chains.histo)
  BY <1>0, FieldsAre DEF Shapes, DecodeInv, LengthsLinked, LengthsPhase
<1>2. f.repeat = 0 \/ f.repeat >= 3
  BY <1>1 DEF LengthsRead
<1>3. FieldsOK(g)
  BY <1>1, <1>2, RepeatedOK
<1>4. LinkedFields(IF length = 0 \/ ~Fits(f, n) THEN chains ELSE Extended(length, f.symbol, n), g)
  BY <1>0, <1>1, <1>2, RunLinked
<1> HIDE DEF f, g, n, length
<1>5. LinkedFields(chains', g)
  BY <1>0, <1>4, Zenon
<1> QED BY <1>0, <1>3, <1>5, LengthStepDecodes

\* The fast loop saves its copies.
LEMMA FastEndsDecodes ==
  ASSUME ReaderInv, DecodeInv, FastEnds
  PROVE  DecodeInv'
<1>0. /\ Shapes /\ Running /\ substate = "LENGTH_SYMBOLS" /\ Inside
      /\ s' = local /\ local' = Outside /\ outcome # "SUCCESS"
      /\ UNCHANGED <<substate, chains, table, outcome>>
  BY DEF ReaderInv, FastEnds, Calls, FastSaved, Running
<1>1. Fields' = Fields
  BY <1>0 DEF Inside, Fields
<1>2. LengthsLinked'
  BY <1>0, <1>1 DEF DecodeInv, LengthsLinked, Running
<1> QED BY <1>0, <1>2 DEF DecodeInv, SimpleRead, SimpleListed, TableIsCode

\* The lengths are complete: the table is built if no space is left.
LEMMA EndLengthsDecodes ==
  ASSUME ReaderInv, DecodeInv, EndLengths
  PROVE  DecodeInv'
<1>0. Shapes /\ Running /\ substate = "LENGTH_SYMBOLS"
  BY DEF ReaderInv, EndLengths
<1>1. FieldsOK(Fields) /\ ChainsOK(chains) /\ LinkedFields(chains, Fields)
  BY <1>0, FieldsAre DEF Shapes, DecodeInv, LengthsLinked
<1>2. CASE Fields.space # 0
  <2>1. outcome' = "HUFFMAN_SPACE"
    BY <1>2 DEF EndLengths
  <2> QED BY <2>1, Elsewhere DEF Running, TableIsCode
<1>3. CASE Fields.space = 0
  <2>1. Built(BuildHuffmanTable(ChainLists, chains.histo).table)
    BY <1>3 DEF EndLengths, ChainLists
  <2>2. IsCode(BuildHuffmanTable(ChainLists, chains.histo).table)
    BY <1>1, <1>3, LengthsTableIsCode
  <2>3. substate' = "NONE" /\ IsCode(table')
    BY <2>1, <2>2, Zenon DEF Built
  <2> QED BY <2>3, Elsewhere DEF TableIsCode
<1> QED BY <1>2, <1>3

\* Every step keeps it.
LEMMA StepKeepsDecoding == ReaderInv /\ DecodeInv /\ [Next]_vars => DecodeInv'
<1> SUFFICES ASSUME ReaderInv, DecodeInv, [Next]_vars PROVE DecodeInv'
  OBVIOUS
<1>0. /\ \A delta \in 0 .. Pow2[RepeatBits] - 1 : delta \in Nat
      /\ \A delta \in 0 .. Pow2[ZeroBits] - 1 : delta \in Nat
  <2>1. Pow2[RepeatBits] \in Nat /\ Pow2[ZeroBits] \in Nat
    BY ReaderConstants, PowNat
  <2> QED BY <2>1
<1>1. CASE ReadKind
  <2>1. substate' \in {"SIMPLE_SIZE", "COMPLEX"} /\ UNCHANGED <<table, outcome>>
    BY <1>1 DEF ReadKind
  <2> QED BY <2>1, Elsewhere DEF DecodeInv, TableIsCode
<1>2. CASE ReadSimpleSize
  BY <1>2, ReadSimpleSizeDecodes
<1>3. CASE EnterSimple
  BY <1>3, EnterDecodes DEF EnterSimple
<1>4. CASE ReadSimpleSymbol
  BY <1>4, ReadSimpleSymbolDecodes
<1>5. CASE PauseSimple
  BY <1>5, PauseSimpleDecodes
<1>6. CASE EndSimple
  BY <1>6, EndSimpleDecodes
<1>7. CASE BuildSimple
  BY <1>7, BuildSimpleDecodes
<1>8. CASE EnterComplex
  BY <1>8, EnterDecodes DEF EnterComplex
<1>9. CASE ReadCodeLengthCodeLength
  <2>1. substate' = "COMPLEX" /\ UNCHANGED <<table, outcome>>
    BY <1>9 DEF ReadCodeLengthCodeLength
  <2> QED BY <2>1, Elsewhere DEF DecodeInv, TableIsCode
<1>10. CASE PauseComplex
  <2>1. substate' = "COMPLEX" /\ UNCHANGED <<table, outcome>>
    BY <1>10 DEF PauseComplex
  <2> QED BY <2>1, Elsewhere DEF DecodeInv, TableIsCode
<1>11. CASE EndCodeLengths
  BY <1>11, EndCodeLengthsDecodes
<1>12. ASSUME NEW code_len \in 0 .. MaxLength, ReadLength(code_len) PROVE DecodeInv'
  BY <1>12, ReadLengthDecodes
<1>13. ASSUME NEW delta \in Nat, ReadRun(RepeatCode, delta) PROVE DecodeInv'
  BY <1>13, ReadRunDecodes
<1>14. ASSUME NEW delta \in Nat, ReadRun(RepeatCode + 1, delta) PROVE DecodeInv'
  BY <1>14, ReadRunDecodes
<1>15. CASE EnterFast
  BY <1>15, EnterDecodes DEF EnterFast
<1>16. CASE FastEnds
  BY <1>16, FastEndsDecodes
<1>17. CASE EndLengths
  BY <1>17, EndLengthsDecodes
<1>18. CASE NextCode
  <2>1. substate' = "NONE" /\ outcome' # "SUCCESS"
    BY <1>18 DEF NextCode, ReaderInv, Calls
  <2> QED BY <2>1, Elsewhere DEF TableIsCode
<1>19. CASE UNCHANGED vars
  <2>1. UNCHANGED <<substate, s, local, chains, table, outcome>>
    BY <1>19 DEF vars
  <2>2. CASE Running
    <3>1. Fields' = Fields
      BY <2>1 DEF Fields
    <3> QED BY <2>1, <2>2, <3>1, CopiesKeep
  <2>3. CASE ~Running
    BY <2>1, <2>3, Elsewhere DEF DecodeInv, TableIsCode, Running
  <2> QED BY <2>2, <2>3
<1> QED BY <1>0, <1>1, <1>2, <1>3, <1>4, <1>5, <1>6, <1>7, <1>8, <1>9, <1>10, <1>11, <1>12, <1>13, <1>14, <1>15,
           <1>16, <1>17, <1>18, <1>19 DEF Next

\* It says that the table decodes.
LEMMA CodeIsDecodedWhole == DecodeInv => TableDecodes
<1> SUFFICES ASSUME DecodeInv, outcome = "SUCCESS" PROVE DecodesAll(table)
  BY DEF TableDecodes, DecodesAll
<1>1. PICK c : c = [x \in DOMAIN c |-> c[x]] /\ CodeTable(table, c)
  BY DEF DecodeInv, TableIsCode, IsCode
<1> QED BY <1>1, CodeTableDecodes

\* Whatever is read, in one go or in many, the lists and the counts are those of
\* the lengths read so far and what is left of the space is what the counts leave
\* (ProcessSingleCodeLength, ProcessRepeatedCodeLength), the listed symbols are in
\* their places, and a table that was built is that of a canonical code.
THEOREM DecodeInvariant == Spec => []DecodeInv
<1> QED BY ReaderInvariant, DecodeInit, StepKeepsDecoding, PTL DEF Spec

\* Every table the reader hands over decodes every input of MaxLength bits as the
\* canonical code of its lengths; and where the input ends early, the careful
\* decoder (SafeDecodeSymbol) finds the same symbol if its word is there whole and
\* fails if it is not.
THEOREM TablesDecode == Spec => []TableDecodes
<1> QED BY DecodeInvariant, CodeIsDecodedWhole, PTL

---------------------------------------------------------------------------
(* Lists of lengths, as the abstract specification reads them.             *)

\* m more of the length v, after the n lengths of the list.
Grown(read, n, v, m) == [i \in 1 .. n + m |-> IF i <= n THEN read[i] ELSE v]

\* What a length takes of the space.
Takes(v) == IF v = 0 THEN 0 ELSE Pow2[MaxLength - v]

\* What the first n lengths take.
Taken(read, n) == SumFunction([i \in 1 .. n |-> Takes(read[i])])

\* v is the last length that is not zero, or the one to begin with.
PreviousIs(read, n, v) ==
  /\ v # 0
  /\ \/ v = DefaultLength /\ \A i \in 1 .. n : read[i] = 0
     \/ \E j \in 1 .. n : read[j] = v /\ \A i \in 1 .. n : i > j => read[i] = 0

\* The list f and its fields: what is left, the length to repeat, the run going on.
ReadIs(read, f) ==
  /\ f.space + Taken(read, f.symbol) = FullSpace
  /\ PreviousIs(read, f.symbol, f.prev_code_len)
  /\ f.repeat # 0 => f.symbol # 0 /\ read[f.symbol] = f.repeat_code_len

\* The lengths there are.
Lengths == 0 .. MaxLength

\* A longer list.
LEMMA GrownIs ==
  ASSUME NEW n \in Nat, NEW read \in [1 .. n -> Lengths], NEW v \in Lengths, NEW m \in Nat
  PROVE  /\ Grown(read, n, v, m) \in [1 .. n + m -> Lengths]
         /\ \A i \in 1 .. n : Grown(read, n, v, m)[i] = read[i]
         /\ \A i \in 1 .. n + m : i > n => Grown(read, n, v, m)[i] = v
<1>1. \A i \in 1 .. n : i \in 1 .. n + m /\ i <= n
  OBVIOUS
<1>2. \A i \in 1 .. n + m : i > n => ~(i <= n)
  OBVIOUS
<1>3. \A i \in 1 .. n + m : i <= n => i \in 1 .. n
  OBVIOUS
<1> QED BY <1>1, <1>2, <1>3 DEF Grown

\* What a length takes.
LEMMA TakesNat == \A v \in Lengths : Takes(v) \in Nat
<1> TAKE v \in Lengths
<1>1. MaxLength \in Nat
  BY Widths
<1>2. MaxLength - v \in Nat
  BY <1>1 DEF Lengths
<1> QED BY <1>2, PowNat DEF Takes

\* What a list takes with one length more.
LEMMA TakenStep ==
  ASSUME NEW n \in Nat, NEW read, \A i \in 1 .. n + 1 : read[i] \in Lengths
  PROVE  /\ Taken(read, n) \in Int
         /\ Taken(read, n + 1) = Taken(read, n) + Takes(read[n + 1])
<1> DEFINE f == [i \in 1 .. n + 1 |-> Takes(read[i])]
<1>1. \A i \in 1 .. n + 1 : Takes(read[i]) \in Int
  BY TakesNat
<1>2. FunctionOfInts(f) /\ DOMAIN f = 1 .. n + 1
  <2>1. IsFiniteSet(1 .. n + 1)
    BY FS_Interval
  <2>2. f \in [1 .. n + 1 -> Int]
    BY <1>1
  <2>3. DOMAIN f = 1 .. n + 1
    OBVIOUS
  <2> HIDE DEF f
  <2> QED BY <2>1, <2>2, <2>3 DEF FunctionOfInts
<1>3. [i \in 1 .. n |-> f[i]] = [i \in 1 .. n |-> Takes(read[i])]
  <2>1. \A i \in 1 .. n : i \in 1 .. n + 1
    OBVIOUS
  <2> QED BY <2>1
<1>4. f[n + 1] = Takes(read[n + 1])
  OBVIOUS
<1>5. Taken(read, n + 1) = SumFunction(f)
  BY DEF Taken
<1>6. Taken(read, n) \in Int
  <2> DEFINE g == [i \in 1 .. n |-> Takes(read[i])]
  <2>1. g \in [1 .. n -> Int]
    BY <1>1
  <2>2. IsFiniteSet(1 .. n)
    BY FS_Interval
  <2> HIDE DEF g
  <2>3. SumFunction(g) \in Int
    <3>1. FunctionOfInts(g)
      BY <2>1, <2>2 DEF FunctionOfInts
    <3> QED BY <3>1, SumType
  <2> QED BY <2>3 DEF Taken, g
<1> HIDE DEF f
<1>7. SumFunction(f) = SumFunction([i \in 1 .. n |-> f[i]]) + f[n + 1]
  <2>1. 1 \in Int /\ n \in Int /\ 1 <= n + 1
    OBVIOUS
  <2> QED BY <1>2, <2>1, SumLast
<1>8. SumFunction([i \in 1 .. n |-> f[i]]) = Taken(read, n)
  BY <1>3 DEF Taken
<1> QED BY <1>4, <1>5, <1>6, <1>7, <1>8

\* And with more of one length.
LEMMA TakenGrown ==
  ASSUME NEW n \in Nat, NEW read \in [1 .. n -> Lengths], NEW v \in Lengths
  PROVE  /\ Taken(read, n) \in Int
         /\ \A m \in Nat : Taken(Grown(read, n, v, m), n + m) = Taken(read, n) + m * Takes(v)
<1> DEFINE N == {m \in Nat : \A k \in Nat : k >= m => Taken(Grown(read, n, v, k), n + m) = Taken(read, n) + m * Takes(v)}
<1>0. Takes(v) \in Nat
  BY TakesNat
<1>1. Taken(read, n) \in Int
  <2> DEFINE g == [i \in 1 .. n |-> Takes(read[i])]
  <2>1. g \in [1 .. n -> Int]
    BY TakesNat
  <2>2. IsFiniteSet(1 .. n)
    BY FS_Interval
  <2> HIDE DEF g
  <2>3. SumFunction(g) \in Int
    <3>1. FunctionOfInts(g)
      BY <2>1, <2>2 DEF FunctionOfInts
    <3> QED BY <3>1, SumType
  <2> QED BY <2>3 DEF Taken, g
<1>2. 0 \in N
  <2> SUFFICES ASSUME NEW k \in Nat PROVE Taken(Grown(read, n, v, k), n + 0) = Taken(read, n) + 0 * Takes(v)
    OBVIOUS
  <2>1. n + 0 = n /\ 0 * Takes(v) = 0
    BY <1>0
  <2> DEFINE g == Grown(read, n, v, k)
  <2>2. \A i \in 1 .. n : g[i] = read[i]
    BY GrownIs
  <2> HIDE DEF g
  <2>3. [i \in 1 .. n |-> Takes(g[i])] = [i \in 1 .. n |-> Takes(read[i])]
    BY <2>2
  <2>4. Taken(g, n) = Taken(read, n)
    BY <2>3 DEF Taken
  <2> QED BY <1>1, <2>1, <2>4 DEF g
<1>3. ASSUME NEW m \in Nat, m \in N PROVE m + 1 \in N
  <2> SUFFICES ASSUME NEW k \in Nat, k >= m + 1
               PROVE  Taken(Grown(read, n, v, k), n + (m + 1)) = Taken(read, n) + (m + 1) * Takes(v)
    OBVIOUS
  <2> DEFINE g == Grown(read, n, v, k)
             t == Takes(v)
  <2>1. Taken(g, n + m) = Taken(read, n) + m * t
    BY <1>3
  <2>2. n + m \in Nat /\ (n + m) + 1 = n + (m + 1) /\ \A i \in 1 .. (n + m) + 1 : i \in 1 .. n + k
    OBVIOUS
  <2>3. \A i \in 1 .. (n + m) + 1 : g[i] \in Lengths
    <3>1. g \in [1 .. n + k -> Lengths]
      BY GrownIs
    <3> HIDE DEF g
    <3> QED BY <2>2, <3>1
  <2>4. (n + m) + 1 \in 1 .. n + k /\ (n + m) + 1 > n
    OBVIOUS
  <2>5. g[(n + m) + 1] = v
    BY <2>4, GrownIs
  <2> HIDE DEF g
  <2>6. Taken(g, (n + m) + 1) = Taken(g, n + m) + t
    BY <2>2, <2>3, <2>5, TakenStep
  <2>7. m * t + t = (m + 1) * t /\ m * t \in Int /\ t \in Int
    BY <1>0
  <2> HIDE DEF t
  <2>8. Taken(g, (n + m) + 1) = Taken(read, n) + (m + 1) * t
    BY <1>1, <2>1, <2>6, <2>7
  <2> QED BY <2>2, <2>8 DEF g, t
<1>4. \A m \in Nat : m \in N
  <2> HIDE DEF N
  <2> QED BY <1>2, <1>3, NatSetInduction
<1>5. ASSUME NEW m \in Nat PROVE Taken(Grown(read, n, v, m), n + m) = Taken(read, n) + m * Takes(v)
  <2>1. m \in N /\ m >= m
    BY <1>4
  <2> QED BY <2>1
<1> QED BY <1>1, <1>5

\* The length to repeat, of a longer list.
LEMMA PreviousGrown ==
  ASSUME NEW n \in Nat, NEW read \in [1 .. n -> Lengths], NEW v \in Lengths, NEW m \in Nat, m >= 1,
         NEW p, PreviousIs(read, n, p)
  PROVE  PreviousIs(Grown(read, n, v, m), n + m, IF v = 0 THEN p ELSE v)
<1> DEFINE g == Grown(read, n, v, m)
<1>1. /\ \A i \in 1 .. n : g[i] = read[i]
      /\ \A i \in 1 .. n + m : i > n => g[i] = v
  <2>1. \A i \in 1 .. n : g[i] = read[i]
    BY GrownIs, Zenon
  <2>2. ASSUME NEW i \in 1 .. n + m, i > n PROVE g[i] = v
    <3>1. ~(i <= n)
      BY <2>2
    <3> QED BY <3>1 DEF Grown
  <2> QED BY <2>1, <2>2
<1>2. /\ \A i \in 1 .. n : i \in 1 .. n + m
      /\ \A i \in 1 .. n + m : i > n \/ i \in 1 .. n
      /\ n + m \in 1 .. n + m /\ n + m > n
      /\ \A i \in 1 .. n + m : ~(i > n + m)
  OBVIOUS
<1> HIDE DEF g
<1>3. CASE v # 0
  BY <1>1, <1>2, <1>3 DEF PreviousIs, g
<1>4. CASE v = 0
  <2>1. CASE p = DefaultLength /\ \A i \in 1 .. n : read[i] = 0
    BY <1>1, <1>2, <1>4, <2>1 DEF PreviousIs, g
  <2>2. CASE \E j \in 1 .. n : read[j] = p /\ \A i \in 1 .. n : i > j => read[i] = 0
    BY <1>1, <1>2, <1>4, <2>2 DEF PreviousIs, g
  <2> QED BY <2>1, <2>2 DEF PreviousIs
<1> QED BY <1>3, <1>4

\* The weight of a list is what it takes.
LEMMA MeaningTaken ==
  ASSUME NEW n \in Nat, NEW read \in [1 .. n -> Lengths]
  PROVE  Meaning!TotalWeight(read) = Taken(read, n)
<1>1. [i \in DOMAIN read |-> Meaning!Weight(read[i])] = [i \in 1 .. n |-> Takes(read[i])]
  BY MeaningPow DEF Meaning!Weight, Takes
<1>2. Meaning!TotalWeight(read) = Meaning!SumFunction([i \in DOMAIN read |-> Meaning!Weight(read[i])])
  BY Zenon DEF Meaning!TotalWeight
<1> QED BY <1>1, <1>2, MeaningSum DEF Taken

\* The last length that is not zero.
LEMMA MeaningLast ==
  ASSUME NEW n \in Nat, NEW read \in [1 .. n -> Lengths], NEW v, PreviousIs(read, n, v)
  PROVE  Meaning!LastLength(read) = v
<1> DEFINE nonzero == {i \in DOMAIN read : read[i] # 0}
<1>1. Meaning!LastLength(read) = IF nonzero = {} THEN DefaultLength ELSE read[Meaning!Max(nonzero)]
  BY DEF Meaning!LastLength
<1>2. nonzero \subseteq 1 .. n
  OBVIOUS
<1>3. CASE v = DefaultLength /\ \A i \in 1 .. n : read[i] = 0
  BY <1>1, <1>3
<1>4. CASE \E j \in 1 .. n : read[j] = v /\ \A i \in 1 .. n : i > j => read[i] = 0
  <2>1. PICK j \in 1 .. n : read[j] = v /\ \A i \in 1 .. n : i > j => read[i] = 0
    BY <1>4
  <2>2. j \in nonzero
    BY <2>1 DEF PreviousIs
  <2>3. \A i \in nonzero : ~(i > j) /\ i \in Int
    BY <2>1
  <2>4. Meaning!Max(nonzero) = CHOOSE x \in nonzero : \A y \in nonzero : x >= y
    BY DEF Meaning!Max
  <2> HIDE DEF nonzero
  <2>5. \A y \in nonzero : j >= y
    BY <2>3
  <2>6. \A x \in nonzero : (\A y \in nonzero : x >= y) => x = j
    BY <2>2, <2>3
  <2>7. Meaning!Max(nonzero) = j
    BY <2>2, <2>4, <2>5, <2>6
  <2> QED BY <1>1, <2>1, <2>2, <2>7
<1> QED BY <1>3, <1>4 DEF PreviousIs

\* One length appended, or more of one.
LEMMA GrownAppends ==
  ASSUME NEW n \in Nat, NEW read \in [1 .. n -> Lengths], NEW v \in Lengths
  PROVE  /\ read \in Seq(Lengths) /\ Len(read) = n
         /\ Grown(read, n, v, 1) = Append(read, v)
         /\ \A m \in Nat : Grown(read, n, v, m) = read \o [i \in 1 .. m |-> v]
<1>1. read \in Seq(Lengths) /\ Len(read) = n
  OBVIOUS
<1>2. Grown(read, n, v, 1) = Append(read, v)
  <2>1. DOMAIN Append(read, v) = 1 .. n + 1 /\ Append(read, v)[n + 1] = v
    BY <1>1
  <2>2. \A i \in 1 .. n : Append(read, v)[i] = read[i]
    BY <1>1
  <2>3. Append(read, v) = [i \in 1 .. n + 1 |-> Append(read, v)[i]]
    <3>1. Append(read, v) \in Seq(Lengths)
      BY <1>1
    <3>2. Append(read, v) \in [1 .. Len(Append(read, v)) -> Lengths]
      BY <3>1, LenProperties, Zenon
    <3> QED BY <2>1, <3>2
  <2> DEFINE a == Append(read, v)
  <2>4. ASSUME NEW i \in 1 .. n + 1 PROVE a[i] = IF i <= n THEN read[i] ELSE v
    <3>1. i <= n => i \in 1 .. n
      OBVIOUS
    <3>2. ~(i <= n) => i = n + 1
      OBVIOUS
    <3> QED BY <2>1, <2>2, <3>1, <3>2
  <2> HIDE DEF a
  <2> QED BY <2>3, <2>4 DEF Grown, a
<1>3. ASSUME NEW m \in Nat PROVE Grown(read, n, v, m) = read \o [i \in 1 .. m |-> v]
  <2> DEFINE t == [i \in 1 .. m |-> v]
             a == read \o t
  <2>1. t \in Seq(Lengths) /\ Len(t) = m
    OBVIOUS
  <2>2. \A i \in 1 .. m : t[i] = v
    OBVIOUS
  <2> HIDE DEF t
  <2>3. a \in Seq(Lengths) /\ Len(a) = n + m /\ DOMAIN a = 1 .. n + m
    BY <1>1, <2>1
  <2>4. \A i \in 1 .. n + m : a[i] = IF i <= n THEN read[i] ELSE t[i - n]
    BY <1>1, <2>1
  <2>5. a = [i \in 1 .. n + m |-> a[i]]
    <3> HIDE DEF a
    <3>1. a \in [1 .. Len(a) -> Lengths]
      BY <2>3, LenProperties, Zenon
    <3> QED BY <2>3, <3>1
  <2>6. \A i \in 1 .. n + m : a[i] = IF i <= n THEN read[i] ELSE v
    <3> TAKE i \in 1 .. n + m
    <3>1. ~(i <= n) => i - n \in 1 .. m
      OBVIOUS
    <3> QED BY <2>2, <2>4, <3>1
  <2> HIDE DEF a
  <2> QED BY <2>5, <2>6 DEF Grown, a, t
<1> QED BY <1>1, <1>2, <1>3

---------------------------------------------------------------------------
(* The lengths, from the lists of symbols.                                *)

\* The symbols linked for a length, as they are followed.
ChainOf(c, b) == ChainFrom(c.lists, HeadOf(b), c.histo[b])

\* The length of the list a symbol is in.
LengthFrom(c, x) ==
  LET S == {b \in 1 .. MaxLength : x \in Range(ChainOf(c, b))}
  IN  IF S = {} THEN 0 ELSE Max(S)

\* The lengths of the first n symbols, from the lists c.
ReadOf(c, n) == [i \in 1 .. n |-> LengthFrom(c, i - 1)]

\* The refinement mapping reads the lists in this way.
LEMMA ReadLengthsAre == ReadLengths = ReadOf(chains, Fields.symbol)
<1>1. \A b \in 1 .. MaxLength : Chain(b) = ChainOf(chains, b)
  BY DEF Chain, ChainOf, ChainFrom, HeadOf
<1>2. ASSUME NEW x
      PROVE  {b \in 1 .. MaxLength : x \in [length \in 1 .. MaxLength |-> Range(Chain(length))][b]}
               = {b \in 1 .. MaxLength : x \in Range(ChainOf(chains, b))}
  BY <1>1
<1> QED BY <1>2 DEF ReadLengths, ReadOf, LengthFrom

\* Following a list gives all its symbols.
LEMMA ThreadMembers ==
  ASSUME NEW G \in SUBSET Nat, IsFiniteSet(G), NEW lists, NEW last, NEW head \in Int, head < 0,
         Thread(lists, last, G, head), NEW n, n = Cardinality(G)
  PROVE  Range(ChainFrom(lists, head, n)) = G
<1> DEFINE p == ChainFrom(lists, head, n)
<1>1. n \in Nat
  BY FS_CardinalityType
<1>2. DOMAIN p = 1 .. n
  BY <1>1, ChainIs
<1>3. \A k \in 1 .. n : p[k] \in G /\ Cardinality(Below(G, p[k])) = k - 1
  BY ThreadLists
<1> HIDE DEF p
<1>4. ASSUME NEW x \in G PROVE \E k \in 1 .. n : p[k] = x
  <2> DEFINE k == Cardinality(Below(G, x)) + 1
  <2>1. k \in 1 .. n /\ Cardinality(Below(G, x)) = k - 1
    <3>1. /\ Cardinality(G) = Cardinality(Below(G, x)) + 1 + Cardinality(Above(G, x))
          /\ Cardinality(Below(G, x)) \in Nat /\ Cardinality(Above(G, x)) \in Nat
      BY AboveOrBelow
    <3> QED BY <3>1
  <2> HIDE DEF k
  <2>2. p[k] \in G /\ Cardinality(Below(G, p[k])) = Cardinality(Below(G, x))
    BY <1>3, <2>1
  <2> DEFINE y == p[k]
  <2>3. y \in G /\ Cardinality(Below(G, y)) = Cardinality(Below(G, x))
    BY <2>2
  <2> HIDE DEF y
  <2>4. y = x
    BY <2>3, SameRank
  <2> QED BY <2>1, <2>4 DEF y
<1>5. Range(p) = G
  BY <1>2, <1>3, <1>4 DEF Range
<1> QED BY <1>5 DEF p

\* The lists give the symbols their lengths.
LEMMA LengthIs ==
  ASSUME NEW c, NEW lengths, NEW n \in Nat, n <= MaxSymbol, Linked(c, lengths, n), NEW x \in 0 .. MaxSymbol - 1
  PROVE  LengthFrom(c, x) = lengths[x] /\ lengths[x] \in Lengths
<1>1. ASSUME NEW b \in 1 .. MaxLength PROVE x \in Range(ChainOf(c, b)) <=> lengths[x] = b
  <2> DEFINE G == Group(lengths, MaxSymbol, b)
  <2>1. c.histo[b] = Cardinality(G) /\ Thread(c.lists, c.next[b], G, HeadOf(b))
    BY DEF Linked, LinkedOf
  <2>2. G \in SUBSET Nat /\ IsFiniteSet(G)
    BY LinkedGroup
  <2>3. HeadOf(b) \in Int /\ HeadOf(b) < 0
    BY HeadIs
  <2> HIDE DEF G
  <2>4. Range(ChainOf(c, b)) = G
    BY <2>1, <2>2, <2>3, ThreadMembers DEF ChainOf
  <2> QED BY <2>4 DEF G, Group
<1> DEFINE S == {b \in 1 .. MaxLength : x \in Range(ChainOf(c, b))}
<1>2. S = {b \in 1 .. MaxLength : lengths[x] = b}
  BY <1>1
<1>3. lengths[x] \in 0 .. MaxLength
  BY DEF Linked
<1>4. LengthFrom(c, x) = IF S = {} THEN 0 ELSE Max(S)
  BY DEF LengthFrom
<1> HIDE DEF S
<1>5. CASE lengths[x] = 0
  <2>1. S = {}
    BY <1>2, <1>5
  <2> QED BY <1>3, <1>4, <1>5, <2>1 DEF Lengths
<1>6. CASE lengths[x] # 0
  <2> DEFINE v == lengths[x]
  <2>1. v \in 1 .. MaxLength
    BY <1>3, <1>6, HeadIs
  <2>2. S = {v}
    BY <1>2, <2>1
  <2> HIDE DEF v
  <2>3. Max({v}) = v
    <3>1. v >= v
      BY <2>1
    <3> QED BY <3>1 DEF Max
  <2> QED BY <1>3, <1>4, <2>2, <2>3 DEF Lengths, v
<1> QED BY <1>5, <1>6

\* So the lengths read can be found in the lists.
LEMMA ReadIsLinked ==
  ASSUME NEW c, NEW lengths, NEW n \in Nat, n <= MaxSymbol, Linked(c, lengths, n)
  PROVE  ReadOf(c, n) \in [1 .. n -> Lengths] /\ \A i \in 1 .. n : ReadOf(c, n)[i] = lengths[i - 1]
<1>1. ASSUME NEW i \in 1 .. n PROVE LengthFrom(c, i - 1) = lengths[i - 1] /\ lengths[i - 1] \in Lengths
  <2>1. i - 1 \in 0 .. MaxSymbol - 1
    BY HeadIs
  <2> QED BY <2>1, LengthIs
<1> QED BY <1>1 DEF ReadOf

\* m more symbols of length v.
LEMMA ReadGrows ==
  ASSUME NEW c, NEW lengths, NEW n \in Nat, Linked(c, lengths, n), NEW m \in Nat, n + m <= MaxSymbol,
         NEW v \in Lengths, NEW d, NEW more, Linked(d, more, n + m),
         \A x \in 0 .. MaxSymbol - 1 : more[x] = IF x \in n .. n + m - 1 THEN v ELSE lengths[x]
  PROVE  ReadOf(d, n + m) = Grown(ReadOf(c, n), n, v, m)
<1>0. n <= MaxSymbol /\ n + m \in Nat /\ MaxSymbol \in Nat
  BY HeadIs
<1>1. \A i \in 1 .. n : ReadOf(c, n)[i] = lengths[i - 1]
  BY <1>0, ReadIsLinked
<1>2. ReadOf(d, n + m) \in [1 .. n + m -> Lengths] /\ \A i \in 1 .. n + m : ReadOf(d, n + m)[i] = more[i - 1]
  BY <1>0, ReadIsLinked
<1> DEFINE r == ReadOf(c, n)
           q == ReadOf(d, n + m)
<1>3. ASSUME NEW i \in 1 .. n + m PROVE q[i] = IF i <= n THEN r[i] ELSE v
  <2>1. i - 1 \in 0 .. MaxSymbol - 1
    BY <1>0
  <2>2. i - 1 \in n .. n + m - 1 <=> ~(i <= n)
    BY <1>0
  <2>3. i <= n => i \in 1 .. n
    BY <1>0
  <2>4. q[i] = more[i - 1]
    BY <1>2
  <2> HIDE DEF q, r
  <2> QED BY <1>1, <2>1, <2>2, <2>3, <2>4 DEF r
<1>4. q = [i \in 1 .. n + m |-> q[i]]
  BY <1>2
<1> HIDE DEF q, r
<1> QED BY <1>3, <1>4 DEF Grown, q, r

\* Symbols of a length that is not zero.
LEMMA ReadExtends ==
  ASSUME ChainsOK(chains), NEW n \in Nat, NEW lengths, Linked(chains, lengths, n),
         NEW v \in 1 .. MaxLength, NEW m \in Nat, m >= 1, n + m <= MaxSymbol
  PROVE  ReadOf(Extended(v, n, m), n + m) = Grown(ReadOf(chains, n), n, v, m)
<1> DEFINE e == Extended(v, n, m)
           more == Lengthened(lengths, v, n, m)
<1>1. Linked(e, more, n + m)
  BY ExtendedLinks
<1>2. \A x \in 0 .. MaxSymbol - 1 : more[x] = IF x \in n .. n + m - 1 THEN v ELSE lengths[x]
  BY DEF Lengthened
<1>3. v \in Lengths
  BY HeadIs DEF Lengths
<1> HIDE DEF e, more
<1>4. ReadOf(e, n + m) = Grown(ReadOf(chains, n), n, v, m)
  BY <1>1, <1>2, <1>3, ReadGrows
<1> QED BY <1>4 DEF e

\* Symbols without a code.
LEMMA ReadSkips ==
  ASSUME NEW c, NEW n \in Nat, NEW lengths, Linked(c, lengths, n), NEW m \in Nat, n + m <= MaxSymbol
  PROVE  ReadOf(c, n + m) = Grown(ReadOf(c, n), n, 0, m)
<1>1. Linked(c, lengths, n + m)
  BY LinkedFurther
<1>2. \A x \in 0 .. MaxSymbol - 1 : lengths[x] = IF x \in n .. n + m - 1 THEN 0 ELSE lengths[x]
  <2> TAKE x \in 0 .. MaxSymbol - 1
  <2>1. x \in n .. n + m - 1 => x >= n
    OBVIOUS
  <2> QED BY <2>1 DEF Linked
<1>3. 0 \in Lengths
  BY HeadIs DEF Lengths
<1> QED BY <1>1, <1>2, <1>3, ReadGrows

---------------------------------------------------------------------------
(* The invariant: the lists and the fields go with the lengths read.      *)

\* The list that is read and the fields that go with it.
LengthsAreRead ==
  Running /\ substate = "LENGTH_SYMBOLS" /\ Fields.space # NoSpace =>
    ReadIs(ReadOf(chains, Fields.symbol), Fields)

\* As long as symbols are missing, no run was too long.
LEMMA SpaceIsLeft ==
  ASSUME ChainsOK(chains), NEW f, FieldsOK(f), LinkedFields(chains, f)
  PROVE  /\ f.symbol < MaxSymbol => f.space # NoSpace
         /\ f.space # NoSpace => f.space + Total(chains) = FullSpace /\ f.space <= FullSpace
<1>1. f.symbol \in Nat /\ f.space \in Int /\ MaxSymbol \in Nat /\ FullSpace \in Nat
  BY HeadIs, Spaces DEF FieldsOK, FieldsType
<1>2. Total(chains) \in Nat
  BY TotalIs
<1>3. FullSpace >= 1
  BY HeadIs, PowNat DEF FullSpace
<1>4. FullSpace < NoSpace
  BY <1>1, <1>3 DEF NoSpace
<1>5. f.space + Total(chains) = FullSpace => f.space <= FullSpace /\ f.space # NoSpace
  BY <1>1, <1>2, <1>4
<1>6. f.space = NoSpace /\ f.symbol = MaxSymbol => ~(f.symbol < MaxSymbol)
  BY <1>1
<1> QED BY <1>5, <1>6 DEF LinkedFields

\* The lengths read are lengths.
LEMMA ReadTyped ==
  ASSUME NEW c, NEW f, FieldsOK(f), LinkedFields(c, f)
  PROVE  f.symbol \in 0 .. MaxSymbol /\ ReadOf(c, f.symbol) \in [1 .. f.symbol -> Lengths]
<1>1. f.symbol \in 0 .. MaxSymbol /\ f.symbol \in Nat /\ f.symbol <= MaxSymbol
  BY HeadIs DEF FieldsOK, FieldsType
<1>2. PICK lengths : Linked(c, lengths, f.symbol)
  BY DEF LinkedFields
<1> QED BY <1>1, <1>2, ReadIsLinked

\* What a length takes is what the decoder takes for it.
LEMMA TakesOf ==
  ASSUME NEW v \in Lengths
  PROVE  Takes(v) \in Nat /\ (v # 0 => FullSpace \div Pow2[v] = Takes(v))
<1>1. MaxLength \in Nat /\ v \in 0 .. MaxLength
  BY HeadIs DEF Lengths
<1>2. FullSpace \div Pow2[v] = Pow2[MaxLength - v]
  BY <1>1, PowDivides DEF FullSpace
<1> QED BY <1>2, TakesNat DEF Takes

\* The fields after one length.
LEMMA SingleIs ==
  ASSUME NEW f, FieldsOK(f), NEW v \in Lengths
  PROVE  LET g == ProcessSingleCodeLength(f, v)
         IN  /\ g.symbol = f.symbol + 1 /\ g.repeat = 0
             /\ g.prev_code_len = IF v = 0 THEN f.prev_code_len ELSE v
             /\ g.space = f.space - 1 * Takes(v)
<1> DEFINE g == ProcessSingleCodeLength(f, v)
           d == FullSpace \div Pow2[v]
<1>0. f.space \in Int
      /\ f = [sub_loop_counter |-> f.sub_loop_counter, symbol |-> f.symbol, repeat |-> f.repeat, space |-> f.space,
              prev_code_len |-> f.prev_code_len, repeat_code_len |-> f.repeat_code_len]
  BY DEF FieldsOK, FieldsType
<1>1. /\ g.symbol = f.symbol + 1 /\ g.repeat = 0
      /\ g.prev_code_len = IF v = 0 THEN f.prev_code_len ELSE v
      /\ g.space = IF v = 0 THEN f.space ELSE f.space - d
  <2> HIDE DEF d
  <2> QED BY <1>0 DEF ProcessSingleCodeLength, d
<1>2. Takes(v) \in Nat /\ (v # 0 => d = Takes(v))
  BY TakesOf
<1>3. v = 0 => Takes(v) = 0
  BY DEF Takes
<1> HIDE DEF g, d
<1>4. g.space = f.space - 1 * Takes(v)
  BY <1>0, <1>1, <1>2, <1>3
<1> QED BY <1>1, <1>4 DEF g

\* And after a code of a run.
LEMMA RepeatedIs ==
  ASSUME NEW f, FieldsOK(f), f.repeat = 0 \/ f.repeat >= 3,
         NEW code_len \in {RepeatCode, RepeatCode + 1}, NEW delta \in Nat
  PROVE  LET g == ProcessRepeatedCodeLength(f, code_len, delta)
             n == RunDelta(f, code_len, delta)
             v == RunLength(f, code_len)
         IN  /\ v \in Lengths /\ n \in Nat /\ n >= 1
             /\ v = 0 \/ v = f.prev_code_len
             /\ g.repeat = NewRun(f, code_len, delta)
             /\ Fits(f, n) =>
                  /\ g.symbol = f.symbol + n /\ g.repeat_code_len = v
                  /\ g.prev_code_len = f.prev_code_len
                  /\ g.space = f.space - n * Takes(v)
             /\ ~Fits(f, n) => g.space = NoSpace
<1> DEFINE g == ProcessRepeatedCodeLength(f, code_len, delta)
           n == RunDelta(f, code_len, delta)
           v == RunLength(f, code_len)
           r == NewRun(f, code_len, delta)
           d == FullSpace \div Pow2[v]
<1>0. f.space \in Int
      /\ f = [sub_loop_counter |-> f.sub_loop_counter, symbol |-> f.symbol, repeat |-> f.repeat, space |-> f.space,
              prev_code_len |-> f.prev_code_len, repeat_code_len |-> f.repeat_code_len]
  BY DEF FieldsOK, FieldsType
<1>1. n \in Nat /\ n >= 1 /\ v \in Lengths
  BY RunIs DEF Lengths
<1>2. v = 0 \/ v = f.prev_code_len
  BY DEF RunLength
<1>3. /\ g.repeat = r
      /\ Fits(f, n) =>
           /\ g.symbol = f.symbol + n /\ g.repeat_code_len = v
           /\ g.prev_code_len = f.prev_code_len
           /\ g.space = IF v = 0 THEN f.space ELSE f.space - n * d
      /\ ~Fits(f, n) => g.space = NoSpace
  <2> HIDE DEF n, v, d, r
  <2> QED BY <1>0 DEF ProcessRepeatedCodeLength, n, v, d, r
<1>4. Takes(v) \in Nat /\ (v # 0 => d = Takes(v))
  <2> HIDE DEF v
  <2> QED BY <1>1, TakesOf
<1>5. v = 0 => Takes(v) = 0
  BY DEF Takes
<1> HIDE DEF g, n, v, d, r
<1>6. Fits(f, n) => g.space = f.space - n * Takes(v)
  <2>1. v = 0 => n * Takes(v) = 0 /\ f.space - 0 = f.space
    BY <1>0, <1>1, <1>5
  <2> QED BY <1>3, <1>4, <2>1
<1>7. /\ v \in Lengths /\ n \in Nat /\ n >= 1
      /\ v = 0 \/ v = f.prev_code_len
      /\ g.repeat = r
      /\ Fits(f, n) =>
           /\ g.symbol = f.symbol + n /\ g.repeat_code_len = v
           /\ g.prev_code_len = f.prev_code_len
           /\ g.space = f.space - n * Takes(v)
      /\ ~Fits(f, n) => g.space = NoSpace
  BY <1>1, <1>2, <1>3, <1>6
<1> QED BY <1>7 DEF g, n, v, r

\* m more of a length: the fields go with the longer list.
LEMMA MoreRead ==
  ASSUME NEW f, FieldsOK(f), NEW read \in [1 .. f.symbol -> Lengths], ReadIs(read, f),
         NEW v \in Lengths, NEW m \in Nat, m >= 1,
         NEW g, g.symbol = f.symbol + m, g.space = f.space - m * Takes(v),
         g.prev_code_len = IF v = 0 THEN f.prev_code_len ELSE v,
         g.repeat # 0 => g.repeat_code_len = v
  PROVE  ReadIs(Grown(read, f.symbol, v, m), g)
<1> DEFINE n == f.symbol
           more == Grown(read, n, v, m)
<1>0. n \in Nat /\ f.space \in Int /\ FullSpace \in Nat
  BY HeadIs, Spaces DEF FieldsOK, FieldsType
<1>1. f.space + Taken(read, n) = FullSpace /\ PreviousIs(read, n, f.prev_code_len)
  BY DEF ReadIs
<1>2. g.space + Taken(more, n + m) = FullSpace
  <2>1. Taken(read, n) \in Int /\ Taken(more, n + m) = Taken(read, n) + m * Takes(v)
    <3> HIDE DEF n
    <3>1. read \in [1 .. n -> Lengths]
      BY DEF n
    <3> QED BY <1>0, <3>1, TakenGrown
  <2>2. m * Takes(v) \in Int
    <3>1. Takes(v) \in Nat
      BY TakesNat
    <3> QED BY <3>1
  <2> HIDE DEF more
  <2> QED BY <1>0, <1>1, <2>1, <2>2
<1>3. PreviousIs(more, n + m, g.prev_code_len)
  BY <1>0, <1>1, PreviousGrown
<1>4. n + m # 0 /\ more[n + m] = v
  <2>1. n + m \in 1 .. n + m /\ ~(n + m <= n) /\ n + m # 0
    BY <1>0
  <2> HIDE DEF n
  <2> QED BY <2>1 DEF Grown
<1> HIDE DEF more
<1> QED BY <1>2, <1>3, <1>4 DEF ReadIs, more

\* A step of either loop that reads m more of the length v.
LengthsGrow(v, m) ==
  /\ Running /\ substate = "LENGTH_SYMBOLS" /\ Fields.space # NoSpace
  /\ Fields.symbol + m <= MaxSymbol /\ Fields'.symbol = Fields.symbol + m
  /\ Fields'.space # NoSpace
  /\ ReadOf(chains', Fields'.symbol) = Grown(ReadOf(chains, Fields.symbol), Fields.symbol, v, m)
  /\ ReadIs(ReadOf(chains', Fields'.symbol), Fields')

\* What the fields in use are after a step of either loop.
LEMMA FieldsAfter ==
  ASSUME Shapes, NEW g, FieldsOK(g), Update(g)
  PROVE  Fields' = g
<1>1. \A f : FieldsOK(f) => f # Outside
  BY FieldsAre DEF Shapes
<1>2. \/ Inside /\ local' = g /\ s' = s
      \/ local = Outside /\ s' = g /\ local' = Outside
  BY DEF Update, Inside
<1> QED BY <1>1, <1>2 DEF Fields

\* The lists grow with the fields.
LEMMA GrowStep ==
  ASSUME ReaderInv, DecodeInv, LengthsAreRead, Running, substate = "LENGTH_SYMBOLS", Fields.symbol < MaxSymbol,
         NEW v \in Lengths, NEW m \in Nat, m >= 1, Fields.symbol + m <= MaxSymbol,
         NEW g, FieldsOK(g), Update(g),
         g.symbol = Fields.symbol + m, g.space = Fields.space - m * Takes(v),
         g.prev_code_len = IF v = 0 THEN Fields.prev_code_len ELSE v,
         g.repeat # 0 => g.repeat_code_len = v,
         chains' = IF v = 0 THEN chains ELSE Extended(v, Fields.symbol, m)
  PROVE  LengthsGrow(v, m)
<1> DEFINE f == Fields
           n == Fields.symbol
<1>0. Shapes /\ FieldsOK(f) /\ ChainsOK(chains) /\ LinkedFields(chains, f)
  BY FieldsAre DEF ReaderInv, Shapes, DecodeInv, LengthsLinked
<1>1. Fields' = g
  BY <1>0, FieldsAfter
<1>2. f.space # NoSpace /\ f.space <= FullSpace
  BY <1>0, SpaceIsLeft
<1>3. ReadIs(ReadOf(chains, n), f)
  BY <1>2 DEF LengthsAreRead
<1>4. n \in Nat /\ f.space \in Int /\ MaxSymbol \in Nat /\ ReadOf(chains, n) \in [1 .. n -> Lengths]
  <2>1. f.space \in Int
    BY <1>0 DEF FieldsOK, FieldsType
  <2>2. n \in 0 .. MaxSymbol /\ ReadOf(chains, n) \in [1 .. n -> Lengths]
    BY <1>0, ReadTyped
  <2> QED BY <2>1, <2>2, HeadIs
<1>5. g.space # NoSpace
  <2>1. FullSpace \in Nat /\ FullSpace < NoSpace /\ NoSpace \in Nat
    <3>1. FullSpace \in Nat /\ FullSpace >= 1
      BY HeadIs, PowNat DEF FullSpace
    <3> QED BY <3>1 DEF NoSpace
  <2>2. m * Takes(v) \in Nat
    <3>1. Takes(v) \in Nat
      BY TakesNat
    <3> QED BY <3>1
  <2> QED BY <1>2, <1>4, <2>1, <2>2
<1>6. PICK lengths : Linked(chains, lengths, n)
  BY <1>0 DEF LinkedFields
<1>7. ReadOf(chains', n + m) = Grown(ReadOf(chains, n), n, v, m)
  <2>1. CASE v = 0
    <3> HIDE DEF n
    <3>1. ReadOf(chains, n + m) = Grown(ReadOf(chains, n), n, 0, m)
      BY <1>4, <1>6, ReadSkips DEF n
    <3> QED BY <2>1, <3>1, Zenon
  <2>2. CASE v # 0
    <3>1. v \in 1 .. MaxLength
      BY <2>2, HeadIs DEF Lengths
    <3> HIDE DEF n
    <3>2. ReadOf(Extended(v, n, m), n + m) = Grown(ReadOf(chains, n), n, v, m)
      BY <1>0, <1>4, <1>6, <3>1, ReadExtends DEF n
    <3>3. chains' = Extended(v, n, m)
      BY <2>2 DEF n
    <3> QED BY <3>2, <3>3, Zenon
  <2> QED BY <2>1, <2>2
<1>8. ReadIs(Grown(ReadOf(chains, n), n, v, m), g)
  <2> DEFINE r == ReadOf(chains, n)
  <2>1. r \in [1 .. f.symbol -> Lengths] /\ ReadIs(r, f)
    BY <1>3, <1>4
  <2> HIDE DEF r
  <2>2. g.symbol = f.symbol + m /\ g.space = f.space - m * Takes(v)
        /\ g.prev_code_len = IF v = 0 THEN f.prev_code_len ELSE v
    OBVIOUS
  <2>3. ReadIs(Grown(r, f.symbol, v, m), g)
    <3> HIDE DEF f
    <3> QED BY <1>0, <2>1, <2>2, MoreRead
  <2> QED BY <2>3 DEF r
<1>9. Fields'.symbol = n + m
  BY <1>1
<1>10. ReadOf(chains', Fields'.symbol) = Grown(ReadOf(chains, n), n, v, m)
  <2> HIDE DEF n
  <2> QED BY <1>7, <1>9, Zenon
<1>11. ReadIs(ReadOf(chains', Fields'.symbol), Fields')
  <2> HIDE DEF n
  <2> QED BY <1>1, <1>8, <1>10, Zenon
<1> QED BY <1>1, <1>2, <1>5, <1>9, <1>10, <1>11 DEF LengthsGrow

\* One length is read.
LEMMA ReadLengthGrows ==
  ASSUME ReaderInv, DecodeInv, LengthsAreRead, NEW code_len \in 0 .. MaxLength, ReadLength(code_len)
  PROVE  LengthsGrow(code_len, 1) /\ Fields'.repeat = 0
<1> DEFINE f == Fields
           g == ProcessSingleCodeLength(Fields, code_len)
<1>0. /\ Shapes /\ Running /\ substate = "LENGTH_SYMBOLS" /\ f.symbol < MaxSymbol
      /\ Update(g)
      /\ chains' = IF code_len = 0 THEN chains ELSE Extended(code_len, f.symbol, 1)
  BY DEF ReaderInv, ReadLength, MoreLengths
<1>1. FieldsOK(f) /\ code_len \in Lengths
  BY <1>0, FieldsAre DEF Shapes, Lengths
<1>2. FieldsOK(g)
  BY <1>0, <1>1, SingleOK
<1>3. /\ g.symbol = f.symbol + 1 /\ g.repeat = 0
      /\ g.prev_code_len = IF code_len = 0 THEN f.prev_code_len ELSE code_len
      /\ g.space = f.space - 1 * Takes(code_len)
  <2> HIDE DEF f
  <2> QED BY <1>1, SingleIs DEF f
<1>4. f.symbol + 1 <= MaxSymbol
  <2>1. f.symbol \in Nat /\ MaxSymbol \in Nat
    BY <1>1, HeadIs DEF FieldsOK, FieldsType
  <2> QED BY <1>0, <2>1
<1> HIDE DEF g
<1>5. LengthsGrow(code_len, 1)
  BY <1>0, <1>1, <1>2, <1>3, <1>4, GrowStep
<1>6. Fields' = g
  BY <1>0, <1>2, FieldsAfter
<1> QED BY <1>3, <1>5, <1>6

\* A code of a run is read; it may be too long for the alphabet.
LEMMA ReadRunGrows ==
  ASSUME ReaderInv, DecodeInv, LengthsAreRead, NEW code_len \in {RepeatCode, RepeatCode + 1}, NEW delta \in Nat,
         ReadRun(code_len, delta)
  PROVE  LET n == RunDelta(Fields, code_len, delta)
             v == RunLength(Fields, code_len)
         IN  /\ Fields'.repeat = NewRun(Fields, code_len, delta)
             /\ Fits(Fields, n) => LengthsGrow(v, n)
             /\ ~Fits(Fields, n) => Fields'.space = NoSpace
<1> DEFINE f == Fields
           g == ProcessRepeatedCodeLength(Fields, code_len, delta)
           n == RunDelta(Fields, code_len, delta)
           v == RunLength(Fields, code_len)
           r == NewRun(Fields, code_len, delta)
<1>0. /\ Shapes /\ Running /\ LengthsPhase /\ substate = "LENGTH_SYMBOLS" /\ f.symbol < MaxSymbol
      /\ Update(g)
      /\ chains' = IF v = 0 \/ ~Fits(f, n) THEN chains ELSE Extended(v, f.symbol, n)
  BY DEF ReaderInv, ReadRun, MoreLengths
<1>1. FieldsOK(f) /\ LengthsRead(f, chains.histo)
  BY <1>0, FieldsAre DEF Shapes, LengthsPhase
<1>2. f.repeat = 0 \/ f.repeat >= 3
  BY <1>1 DEF LengthsRead
<1>3. FieldsOK(g)
  BY <1>1, <1>2, RepeatedOK
<1>4. /\ v \in Lengths /\ n \in Nat /\ n >= 1
      /\ v = 0 \/ v = f.prev_code_len
      /\ g.repeat = r
      /\ Fits(f, n) =>
           /\ g.symbol = f.symbol + n /\ g.repeat_code_len = v
           /\ g.prev_code_len = f.prev_code_len
           /\ g.space = f.space - n * Takes(v)
      /\ ~Fits(f, n) => g.space = NoSpace
  <2> HIDE DEF f
  <2>1. LET h == ProcessRepeatedCodeLength(f, code_len, delta)
            m == RunDelta(f, code_len, delta)
            u == RunLength(f, code_len)
        IN  /\ u \in Lengths /\ m \in Nat /\ m >= 1
            /\ u = 0 \/ u = f.prev_code_len
            /\ h.repeat = NewRun(f, code_len, delta)
            /\ Fits(f, m) =>
                 /\ h.symbol = f.symbol + m /\ h.repeat_code_len = u
                 /\ h.prev_code_len = f.prev_code_len
                 /\ h.space = f.space - m * Takes(u)
            /\ ~Fits(f, m) => h.space = NoSpace
    BY <1>1, <1>2, RepeatedIs, Zenon
  <2> QED BY <2>1, Zenon DEF f
<1> HIDE DEF g, n, v, r
<1>5. Fields' = g
  BY <1>0, <1>3, FieldsAfter
<1>6. ASSUME Fits(f, n) PROVE LengthsGrow(v, n)
  <2>1. f.symbol + n <= MaxSymbol
    BY <1>6 DEF Fits
  <2>2. g.prev_code_len = IF v = 0 THEN f.prev_code_len ELSE v
    BY <1>4, <1>6
  <2>3. chains' = IF v = 0 THEN chains ELSE Extended(v, f.symbol, n)
    BY <1>0, <1>6
  <2> QED BY <1>0, <1>3, <1>4, <1>6, <2>1, <2>2, <2>3, GrowStep
<1>7. Fields'.repeat = r /\ (~Fits(f, n) => Fields'.space = NoSpace)
  BY <1>4, <1>5
<1> QED BY <1>6, <1>7 DEF n, v, r

\* Before any length is read.
LEMMA StartIsRead == \A c : ReadIs(ReadOf(c, StartLengths.symbol), StartLengths)
<1> TAKE c
<1>1. /\ StartLengths.symbol = 0 /\ StartLengths.space = FullSpace /\ StartLengths.repeat = 0
      /\ StartLengths.prev_code_len = DefaultLength
  BY DEF StartLengths
<1> DEFINE r == ReadOf(c, 0)
<1>2. Taken(r, 0) = 0
  <2> DEFINE h == [i \in 1 .. 0 |-> Takes(r[i])]
             S == 1 .. 0
             z == 0
  <2>1. h = [i \in S |-> z]
    OBVIOUS
  <2>2. IsFiniteSet(S) /\ z \in Int /\ Cardinality(S) = 0
    <3>1. S = {}
      OBVIOUS
    <3> HIDE DEF S
    <3> QED BY <3>1, FS_EmptySet
  <2>3. Taken(r, 0) = SumFunction(h)
    BY DEF Taken
  <2> HIDE DEF h, S, z
  <2>4. SumFunction(h) = Cardinality(S) * z
    BY <2>1, <2>2, SumConst
  <2>5. Cardinality(S) * z = 0
    BY <2>2 DEF z
  <2> QED BY <2>3, <2>4, <2>5
<1>3. PreviousIs(r, 0, DefaultLength)
  <2>1. DefaultLength # 0
    BY ReaderConstants, HeadIs
  <2>2. \A i \in 1 .. 0 : r[i] = 0
    OBVIOUS
  <2> QED BY <2>1, <2>2 DEF PreviousIs
<1> HIDE DEF r
<1>4. FullSpace + 0 = FullSpace
  BY Spaces
<1>5. ReadIs(r, StartLengths)
  BY <1>1, <1>2, <1>3, <1>4 DEF ReadIs
<1> QED BY <1>1, <1>5 DEF r

\* The lists and the fields stay as they are.
LEMMA LengthsStay ==
  ASSUME LengthsAreRead, Running' => Running, UNCHANGED <<substate, chains>>, Fields' = Fields
  PROVE  LengthsAreRead'
<1>1. ReadOf(chains', Fields'.symbol) = ReadOf(chains, Fields.symbol)
  BY Zenon
<1>2. ReadIs(ReadOf(chains', Fields'.symbol), Fields') = ReadIs(ReadOf(chains, Fields.symbol), Fields)
  BY <1>1, Zenon
<1> QED BY <1>2 DEF LengthsAreRead

\* The lists of a later phase, or of none.
LEMMA NotLengths ==
  ASSUME Running' => substate' # "LENGTH_SYMBOLS"
  PROVE  LengthsAreRead'
  BY DEF LengthsAreRead

\* The code of code lengths is complete: the lists are empty.
LEMMA EndCodeLengthsReads ==
  ASSUME EndCodeLengths
  PROVE  LengthsAreRead'
<1>1. CASE Fail("CL_SPACE")
  BY <1>1, NotLengths DEF Fail, Running
<1>2. CASE ~Fail("CL_SPACE")
  <2>1. s' = StartLengths /\ local' = Outside
    BY <1>2 DEF EndCodeLengths
  <2>2. Fields' = StartLengths
    BY <2>1 DEF Fields
  <2>3. ReadIs(ReadOf(chains', Fields'.symbol), Fields')
    BY <2>2, StartIsRead, Zenon
  <2> QED BY <2>3 DEF LengthsAreRead
<1> QED BY <1>1, <1>2

\* Every step keeps it.
LEMMA StepKeepsRead == ReaderInv /\ DecodeInv /\ LengthsAreRead /\ [Next]_vars => LengthsAreRead'
<1> SUFFICES ASSUME ReaderInv, DecodeInv, LengthsAreRead, [Next]_vars PROVE LengthsAreRead'
  OBVIOUS
<1>0. /\ \A delta \in 0 .. Pow2[RepeatBits] - 1 : delta \in Nat
      /\ \A delta \in 0 .. Pow2[ZeroBits] - 1 : delta \in Nat
  <2>1. Pow2[RepeatBits] \in Nat /\ Pow2[ZeroBits] \in Nat
    BY ReaderConstants, PowNat
  <2> QED BY <2>1
<1>1. CASE ReadKind
  BY <1>1, NotLengths DEF ReadKind
<1>2. CASE ReadSimpleSize
  BY <1>2, NotLengths DEF ReadSimpleSize
<1>3. CASE EnterSimple
  BY <1>3, NotLengths DEF EnterSimple, Enter
<1>4. CASE ReadSimpleSymbol
  BY <1>4, NotLengths DEF ReadSimpleSymbol
<1>5. CASE PauseSimple
  BY <1>5, NotLengths DEF PauseSimple
<1>6. CASE EndSimple
  BY <1>6, NotLengths DEF EndSimple
<1>7. CASE BuildSimple
  BY <1>7, NotLengths DEF BuildSimple, Built
<1>8. CASE EnterComplex
  BY <1>8, NotLengths DEF EnterComplex, Enter
<1>9. CASE ReadCodeLengthCodeLength
  BY <1>9, NotLengths DEF ReadCodeLengthCodeLength
<1>10. CASE PauseComplex
  BY <1>10, NotLengths DEF PauseComplex
<1>11. CASE EndCodeLengths
  BY <1>11, EndCodeLengthsReads
<1>12. ASSUME NEW code_len \in 0 .. MaxLength, ReadLength(code_len) PROVE LengthsAreRead'
  <2>1. LengthsGrow(code_len, 1)
    BY <1>12, ReadLengthGrows
  <2> QED BY <2>1 DEF LengthsGrow, LengthsAreRead
<1>13. ASSUME NEW code_len \in {RepeatCode, RepeatCode + 1}, NEW delta \in Nat, ReadRun(code_len, delta)
       PROVE  LengthsAreRead'
  <2>1. \/ LengthsGrow(RunLength(Fields, code_len), RunDelta(Fields, code_len, delta))
        \/ Fields'.space = NoSpace
    BY <1>13, ReadRunGrows
  <2> QED BY <2>1 DEF LengthsGrow, LengthsAreRead
<1>14. CASE EnterFast
  BY <1>14, LengthsStay DEF EnterFast, Enter, Running, Inside, Fields
<1>15. CASE FastEnds
  BY <1>15, LengthsStay DEF FastEnds, FastSaved, Running, Inside, Fields
<1>16. CASE EndLengths
  BY <1>16, NotLengths DEF EndLengths, Built, Running
<1>17. CASE NextCode
  BY <1>17, NotLengths DEF NextCode, ReaderInv, Calls
<1>18. CASE UNCHANGED vars
  BY <1>18, LengthsStay DEF vars, Running, Fields
<1> QED BY <1>0, <1>1, <1>2, <1>3, <1>4, <1>5, <1>6, <1>7, <1>8, <1>9, <1>10, <1>11, <1>12, <1>13, <1>14, <1>15,
           <1>16, <1>17, <1>18 DEF Next

\* The lists and the counts give the lengths that were read, the space is what
\* they leave, and the fields of a run (repeat, repeat_code_len, prev_code_len)
\* go with them, in either loop and across pauses.
THEOREM LengthsInvariant == Spec => []LengthsAreRead
<1>1. Init => LengthsAreRead
  BY DEF Init, LengthsAreRead
<1> QED BY <1>1, ReaderInvariant, DecodeInvariant, StepKeepsRead, PTL DEF Spec

---------------------------------------------------------------------------
(* The refinement mapping and the steps of the abstract specification.    *)

\* What CodesSpec takes for the variables of PrefixCode.
AbsLengths == IF ReadingLengths THEN ReadLengths ELSE <<>>

\* The run going on, while lengths are read.
AbsRun == IF ReadingLengths THEN Fields.repeat ELSE 0

\* The code that was read, none yet, or none at all.
AbsCode ==
  IF outcome = "SUCCESS" THEN LengthsOf(table)
  ELSE IF Running /\ (substate = "LENGTH_SYMBOLS" => Fields.space # NoSpace) THEN <<-1>> ELSE <<-2>>

\* A code is begun.
LEMMA MeaningStart ==
  ASSUME AbsCode # <<-1>>, AbsCode' = <<-1>>, AbsLengths' = <<>>, AbsRun' = 0
  PROVE  Meaning!Next
<1>1. Meaning!Start
  BY DEF Meaning!Start, Meaning!None, AbsCode, AbsLengths, AbsRun
<1> QED BY <1>1 DEF Meaning!Next

\* Nothing happens.
LEMMA MeaningStays ==
  ASSUME AbsCode' = AbsCode, AbsLengths' = AbsLengths, AbsRun' = AbsRun
  PROVE  [Meaning!Next]_<<AbsLengths, AbsRun, AbsCode>>
  BY Zenon

\* Listed symbols.
LEMMA MeaningListed ==
  ASSUME AbsCode = <<-1>>, AbsLengths = <<>>, AbsCode' # <<-1>>, AbsCode' \in Meaning!SimpleCodes \cup {<<-2>>},
         AbsLengths' = AbsLengths, AbsRun' = AbsRun
  PROVE  Meaning!Next
<1>1. Meaning!Listed
  BY DEF Meaning!Listed, Meaning!None, Meaning!Invalid, AbsCode, AbsLengths, AbsRun
<1> QED BY <1>1 DEF Meaning!Next

\* The lengths are complete.
LEMMA MeaningComplete ==
  ASSUME AbsCode = <<-1>>, ~Meaning!Open(AbsLengths),
         AbsCode' = IF Meaning!TotalWeight(AbsLengths) = Meaning!FullWeight THEN Meaning!CodeOf(AbsLengths) ELSE <<-2>>,
         AbsLengths' = <<>>, AbsRun' = 0
  PROVE  Meaning!Next
<1>1. Meaning!Complete
  BY DEF Meaning!Complete, Meaning!None, Meaning!Invalid, AbsCode, AbsLengths, AbsRun
<1> QED BY <1>1 DEF Meaning!Next

\* One length, or more of one, that the alphabet has room for.
LEMMA MeaningRead ==
  ASSUME AbsCode = <<-1>>, Meaning!Open(AbsLengths), AbsCode' = AbsCode,
         NEW r \in Meaning!Readings(AbsLengths, AbsRun), Len(r.lengths) <= MaxSymbol,
         AbsLengths' = r.lengths, AbsRun' = r.run
  PROVE  Meaning!Next
<1> DEFINE readings == Meaning!Readings(AbsLengths, AbsRun)
           fitting == {q \in readings : Len(q.lengths) <= MaxSymbol}
<1>1. r \in fitting
  OBVIOUS
<1>2. AbsRun' \in {q.run : q \in fitting}
  BY <1>1
<1>3. AbsLengths' \in {q.lengths : q \in {p \in fitting : p.run = AbsRun'}}
  BY <1>1
<1>4. Meaning!Read
  <2> HIDE DEF readings, fitting
  <2>1. /\ AbsCode = <<-1>> /\ Meaning!Open(AbsLengths)
        /\ \/ /\ AbsRun' \in {q.run : q \in fitting}
              /\ AbsLengths' \in {q.lengths : q \in {p \in fitting : p.run = AbsRun'}}
              /\ AbsCode' = AbsCode
           \/ fitting # readings /\ AbsRun' = 0 /\ AbsLengths' = <<>> /\ AbsCode' = <<-2>>
    BY <1>2, <1>3
  <2> QED BY <2>1 DEF Meaning!Read, Meaning!None, Meaning!Invalid, AbsCode, AbsLengths, AbsRun, fitting, readings
<1> QED BY <1>4 DEF Meaning!Next

\* A run that it has no room for.
LEMMA MeaningTooLong ==
  ASSUME AbsCode = <<-1>>, Meaning!Open(AbsLengths),
         NEW r \in Meaning!Readings(AbsLengths, AbsRun), ~(Len(r.lengths) <= MaxSymbol),
         AbsCode' = <<-2>>, AbsLengths' = <<>>, AbsRun' = 0
  PROVE  Meaning!Next
<1> DEFINE readings == Meaning!Readings(AbsLengths, AbsRun)
           fitting == {q \in readings : Len(q.lengths) <= MaxSymbol}
<1>1. fitting # readings
  OBVIOUS
<1>2. Meaning!Read
  <2> HIDE DEF readings, fitting
  <2>1. /\ AbsCode = <<-1>> /\ Meaning!Open(AbsLengths)
        /\ \/ /\ AbsRun' \in {q.run : q \in fitting}
              /\ AbsLengths' \in {q.lengths : q \in {p \in fitting : p.run = AbsRun'}}
              /\ AbsCode' = AbsCode
           \/ fitting # readings /\ AbsRun' = 0 /\ AbsLengths' = <<>> /\ AbsCode' = <<-2>>
    BY <1>1
  <2> QED BY <2>1 DEF Meaning!Read, Meaning!None, Meaning!Invalid, AbsCode, AbsLengths, AbsRun, fitting, readings
<1> QED BY <1>2 DEF Meaning!Next

\* The specification, with the substitutions.
LEMMA MeaningSpec ==
  ASSUME Init, ReaderInv
  PROVE  Meaning!Init
<1>1. ~ReadingLengths /\ outcome = "reading" /\ substate = "NONE"
  BY DEF Init, ReadingLengths
<1> QED BY <1>1 DEF Meaning!Init, Meaning!None, Running

---------------------------------------------------------------------------
(* What each step of the reader is there.                                 *)

\* What the refinement mapping gives, phase by phase.
AbsFacts ==
  /\ ~(Running /\ substate = "LENGTH_SYMBOLS") => AbsLengths = <<>> /\ AbsRun = 0
  /\ Running /\ substate # "LENGTH_SYMBOLS" => AbsCode = <<-1>>
  /\ ~Running /\ outcome # "SUCCESS" => AbsCode = <<-2>>
  /\ outcome = "SUCCESS" => AbsCode = LengthsOf(table)
  /\ Running /\ substate = "LENGTH_SYMBOLS" =>
       IF Fields.space = NoSpace
         THEN AbsLengths = <<>> /\ AbsRun = 0 /\ AbsCode = <<-2>>
         ELSE AbsLengths = ReadOf(chains, Fields.symbol) /\ AbsRun = Fields.repeat /\ AbsCode = <<-1>>

\* It gives that in every state.
LEMMA AbsNow == AbsFacts
  BY ReadLengthsAre DEF AbsFacts, AbsLengths, AbsRun, AbsCode, ReadingLengths, Running

\* ... and after a step.
LEMMA AbsNext == AbsFacts'
  BY AbsNow, PTL

\* The abstract state.
Abs == <<AbsLengths, AbsRun, AbsCode>>

\* Steps before the lengths are read, or to their start.
LEMMA BeforeLengths ==
  ASSUME Running, Running', substate # "LENGTH_SYMBOLS", substate' # "LENGTH_SYMBOLS"
  PROVE  [Meaning!Next]_Abs
<1>1. AbsLengths = <<>> /\ AbsRun = 0 /\ AbsCode = <<-1>>
  BY AbsNow DEF AbsFacts
<1>2. AbsLengths' = <<>> /\ AbsRun' = 0 /\ AbsCode' = <<-1>>
  BY AbsNext DEF AbsFacts
<1> QED BY <1>1, <1>2, MeaningStays, Zenon DEF Abs

\* An error there.
LEMMA FailsBefore ==
  ASSUME Running, substate # "LENGTH_SYMBOLS", ~Running', outcome' # "SUCCESS"
  PROVE  [Meaning!Next]_Abs
<1>1. AbsLengths = <<>> /\ AbsRun = 0 /\ AbsCode = <<-1>>
  BY AbsNow DEF AbsFacts
<1>2. AbsLengths' = <<>> /\ AbsRun' = 0 /\ AbsCode' = <<-2>>
  BY AbsNext DEF AbsFacts
<1>3. <<-2>> # <<-1>>
  OBVIOUS
<1>4. Meaning!Next
  BY <1>1, <1>2, <1>3, MeaningListed
<1> QED BY <1>4, Zenon

\* The copies of the fields are made or saved.
LEMMA CopiesRefine ==
  ASSUME Fields' = Fields, UNCHANGED <<substate, chains, table, outcome>>
  PROVE  [Meaning!Next]_Abs
<1>1. Running' = Running /\ ReadOf(chains', Fields'.symbol) = ReadOf(chains, Fields.symbol)
  BY Zenon DEF Running
<1>2. LengthsOf(table)' = LengthsOf(table)
  BY DEF LengthsOf, DecodeSymbol
<1>3. AbsLengths' = AbsLengths /\ AbsRun' = AbsRun /\ AbsCode' = AbsCode
  BY <1>1, <1>2, AbsNow, AbsNext DEF AbsFacts
<1> QED BY <1>3, MeaningStays, Zenon DEF Abs

\* Failures to read a symbol, symbols listed twice.
LEMMA FailRefines ==
  ASSUME Running, substate # "LENGTH_SYMBOLS", NEW error \in {"SIMPLE_HUFFMAN_ALPHABET", "SIMPLE_HUFFMAN_SAME", "CL_SPACE"},
         Fail(error)
  PROVE  [Meaning!Next]_Abs
<1>1. outcome' = error
  BY DEF Fail
<1>2. outcome' # "SUCCESS" /\ outcome' # "reading"
  BY <1>1
<1> QED BY <1>2, FailsBefore DEF Running

\* A listed symbol.
LEMMA ReadSimpleSymbolRefines ==
  ASSUME ReaderInv, ReadSimpleSymbol
  PROVE  [Meaning!Next]_Abs
<1>1. Running /\ substate = "SIMPLE_READ" /\ substate' = "SIMPLE_READ"
  BY DEF ReaderInv, Calls, ReadSimpleSymbol
<1>2. CASE Fail("SIMPLE_HUFFMAN_ALPHABET")
  BY <1>1, <1>2, FailRefines
<1>3. CASE ~Fail("SIMPLE_HUFFMAN_ALPHABET")
  <2>1. UNCHANGED outcome
    BY <1>3 DEF ReadSimpleSymbol
  <2> QED BY <1>1, <2>1, BeforeLengths DEF Running
<1> QED BY <1>2, <1>3

\* The last of them.
LEMMA EndSimpleRefines ==
  ASSUME ReaderInv, EndSimple
  PROVE  [Meaning!Next]_Abs
<1>1. Running /\ substate = "SIMPLE_READ"
  BY DEF ReaderInv, Calls, EndSimple
<1>2. CASE Fail("SIMPLE_HUFFMAN_SAME")
  BY <1>1, <1>2, FailRefines
<1>3. CASE ~Fail("SIMPLE_HUFFMAN_SAME")
  <2>1. UNCHANGED outcome /\ substate' = "SIMPLE_BUILD"
    BY <1>3 DEF EndSimple
  <2> QED BY <1>1, <2>1, BeforeLengths DEF Running
<1> QED BY <1>2, <1>3

\* The code of code lengths is complete.
LEMMA EndCodeLengthsRefines ==
  ASSUME ReaderInv, EndCodeLengths
  PROVE  [Meaning!Next]_Abs
<1>1. Running /\ substate = "COMPLEX"
  BY DEF ReaderInv, Calls, EndCodeLengths
<1>2. CASE Fail("CL_SPACE")
  BY <1>1, <1>2, FailRefines
<1>3. CASE ~Fail("CL_SPACE")
  <2>1. UNCHANGED outcome /\ substate' = "LENGTH_SYMBOLS" /\ s' = StartLengths /\ local' = Outside
    BY <1>3 DEF EndCodeLengths
  <2>2. Fields' = StartLengths
    BY <2>1 DEF Fields
  <2>3. Fields'.symbol = 0 /\ Fields'.repeat = 0 /\ Fields'.space = FullSpace
    BY <2>2 DEF StartLengths
  <2>4. FullSpace # NoSpace
    <3>1. FullSpace \in Nat /\ FullSpace >= 1
      BY HeadIs, PowNat DEF FullSpace
    <3> QED BY <3>1 DEF NoSpace
  <2>5. \A c : ReadOf(c, 0) = <<>>
    BY DEF ReadOf
  <2>6. AbsLengths' = ReadOf(chains', Fields'.symbol) /\ AbsRun' = 0 /\ AbsCode' = <<-1>>
    BY <1>1, <2>1, <2>3, <2>4, AbsNext DEF AbsFacts, Running
  <2>7. AbsLengths' = <<>>
    BY <2>3, <2>5, <2>6, Zenon
  <2>8. AbsLengths = <<>> /\ AbsRun = 0 /\ AbsCode = <<-1>>
    BY <1>1, AbsNow DEF AbsFacts
  <2> QED BY <2>6, <2>7, <2>8, MeaningStays, Zenon DEF Abs
<1> QED BY <1>2, <1>3

\* No code that is read is mistaken for none yet.
LEMMA CodesAreNot ==
  ASSUME NEW t, IsCode(t)
  PROVE  LengthsOf(t) # <<-1>>
<1>1. PICK c : c = [x \in DOMAIN c |-> c[x]] /\ CodeTable(t, c)
  BY DEF IsCode
<1>2. LengthsOf(t) = c
  BY <1>1, LengthsAre
<1>3. ASSUME c = <<-1>> PROVE FALSE
  <2>1. 1 \in DOMAIN c /\ c[1] = -1
    BY <1>3
  <2>2. PICK w \in Inputs : DecodedTo(t, w, c, 1)
    BY <1>1, <2>1 DEF CodeTable
  <2>3. DecodeSymbol(w, t).bits = -1
    BY <2>1, <2>2 DEF DecodedTo, HuffmanCode
  <2>4. PICK bound : Entries(t, w, bound)
    BY <1>1 DEF CodeTable
  <2>5. DecodeSymbol(w, t).bits \in Nat
    <3>1. RootBits \in Nat
      BY Widths
    <3> DEFINE b == t[RootAt(w)].bits
               d == t[SecondAt(t, w)].bits
    <3>2. DecodeSymbol(w, t).bits = IF b - RootBits > 0 THEN RootBits + d ELSE b
      BY DEF DecodeSymbol, RootAt, SecondAt, HuffmanCode
    <3>3. b \in Nat /\ (b > RootBits => d \in Nat)
      BY <2>4 DEF Entries
    <3> HIDE DEF b, d
    <3>4. b - RootBits > 0 => b > RootBits
      BY <3>1, <3>3
    <3> QED BY <3>1, <3>2, <3>3, <3>4
  <2> QED BY <2>3, <2>5
<1> QED BY <1>2, <1>3

\* The next code is begun.
LEMMA NextCodeRefines ==
  ASSUME ReaderInv, DecodeInv, NextCode
  PROVE  [Meaning!Next]_Abs
<1>1. outcome = "SUCCESS" /\ Running' /\ substate' = "NONE" /\ IsCode(table)
  BY DEF NextCode, ReaderInv, Calls, Running, DecodeInv, TableIsCode
<1>2. AbsCode # <<-1>>
  BY <1>1, AbsNow, CodesAreNot DEF AbsFacts
<1>3. AbsLengths' = <<>> /\ AbsRun' = 0 /\ AbsCode' = <<-1>>
  BY <1>1, AbsNext DEF AbsFacts
<1>4. Meaning!Next
  BY <1>2, <1>3, MeaningStart
<1> QED BY <1>4, Zenon

---------------------------------------------------------------------------
(* The lengths, one by one.                                               *)

\* What is left of the space is what the lengths have not taken.
LEMMA OpenIs ==
  ASSUME NEW f, FieldsOK(f), NEW read \in [1 .. f.symbol -> Lengths], ReadIs(read, f)
  PROVE  /\ Len(read) = f.symbol
         /\ Meaning!TotalWeight(read) = Meaning!FullWeight <=> f.space = 0
         /\ Meaning!Open(read) <=> f.symbol < MaxSymbol /\ f.space # 0
<1> DEFINE n == f.symbol
           k == Taken(read, n)
<1>1. n \in Nat /\ f.space \in Int /\ FullSpace \in Nat
  BY HeadIs, Spaces DEF FieldsOK, FieldsType
<1>2. Len(read) = n
  BY <1>1
<1>3. Meaning!TotalWeight(read) = k /\ k \in Int
  <2> HIDE DEF n
  <2>1. read \in [1 .. n -> Lengths]
    BY DEF n
  <2>2. Meaning!TotalWeight(read) = Taken(read, n)
    BY <1>1, <2>1, MeaningTaken
  <2>3. 0 \in Lengths
    BY HeadIs DEF Lengths
  <2>4. Taken(read, n) \in Int
    BY <1>1, <2>1, <2>3, TakenGrown
  <2> QED BY <2>2, <2>4
<1>4. Meaning!FullWeight = FullSpace
  BY MeaningPow DEF Meaning!FullWeight, FullSpace
<1>5. f.space + k = FullSpace
  BY DEF ReadIs
<1> HIDE DEF k, n
<1>6. Meaning!TotalWeight(read) = Meaning!FullWeight <=> f.space = 0
  BY <1>1, <1>3, <1>4, <1>5
<1>7. Meaning!Open(read) <=> Len(read) < MaxSymbol /\ Meaning!TotalWeight(read) # Meaning!FullWeight
  BY DEF Meaning!Open
<1> QED BY <1>2, <1>6, <1>7 DEF n

\* Where the list stands before a step that reads.
LEMMA ListNow ==
  ASSUME ReaderInv, DecodeInv, LengthsAreRead, Running, substate = "LENGTH_SYMBOLS", Fields.space # NoSpace
  PROVE  /\ FieldsOK(Fields) /\ Fields.symbol \in Nat
         /\ AbsLengths = ReadOf(chains, Fields.symbol) /\ AbsRun = Fields.repeat /\ AbsCode = <<-1>>
         /\ AbsLengths \in [1 .. Fields.symbol -> Lengths] /\ ReadIs(AbsLengths, Fields)
         /\ Meaning!Open(AbsLengths) <=> MoreLengths
         /\ Meaning!TotalWeight(AbsLengths) = Meaning!FullWeight <=> Fields.space = 0
<1>1. FieldsOK(Fields) /\ LinkedFields(chains, Fields)
  BY FieldsAre DEF ReaderInv, Shapes, DecodeInv, LengthsLinked
<1>2. AbsLengths = ReadOf(chains, Fields.symbol) /\ AbsRun = Fields.repeat /\ AbsCode = <<-1>>
  BY AbsNow DEF AbsFacts
<1>3. AbsLengths \in [1 .. Fields.symbol -> Lengths] /\ Fields.symbol \in Nat
  <2>1. Fields.symbol \in 0 .. MaxSymbol /\ ReadOf(chains, Fields.symbol) \in [1 .. Fields.symbol -> Lengths]
    BY <1>1, ReadTyped
  <2> QED BY <1>2, <2>1
<1>4. ReadIs(AbsLengths, Fields)
  BY <1>2 DEF LengthsAreRead
<1>5. /\ Meaning!TotalWeight(AbsLengths) = Meaning!FullWeight <=> Fields.space = 0
      /\ Meaning!Open(AbsLengths) <=> Fields.symbol < MaxSymbol /\ Fields.space # 0
  BY <1>1, <1>3, <1>4, OpenIs
<1> QED BY <1>1, <1>2, <1>3, <1>4, <1>5 DEF MoreLengths

\* A step of the abstract list.
LEMMA GrowsRefines ==
  ASSUME ReaderInv, DecodeInv, LengthsAreRead, MoreLengths, UNCHANGED <<substate, outcome>>,
         NEW v \in Lengths, NEW m \in Nat, LengthsGrow(v, m),
         NEW r \in Meaning!Readings(AbsLengths, AbsRun), r.run = Fields'.repeat,
         r.lengths = Grown(AbsLengths, Fields.symbol, v, m)
  PROVE  Meaning!Next
<1>1. Running /\ substate = "LENGTH_SYMBOLS" /\ Fields.space # NoSpace /\ Fields'.space # NoSpace
      /\ Fields.symbol + m <= MaxSymbol
  BY DEF LengthsGrow
<1>2. /\ Fields.symbol \in Nat
      /\ AbsLengths = ReadOf(chains, Fields.symbol) /\ AbsCode = <<-1>>
      /\ AbsLengths \in [1 .. Fields.symbol -> Lengths]
      /\ Meaning!Open(AbsLengths)
  BY <1>1, ListNow
<1>3. AbsLengths' = ReadOf(chains', Fields'.symbol) /\ AbsRun' = Fields'.repeat /\ AbsCode' = <<-1>>
  BY <1>1, AbsNext DEF AbsFacts, Running
<1>4. AbsLengths' = r.lengths
  BY <1>2, <1>3 DEF LengthsGrow
<1>5. Len(r.lengths) <= MaxSymbol
  <2> DEFINE n == Fields.symbol
             l == AbsLengths
             g == Grown(l, n, v, m)
  <2>1. n \in Nat /\ l \in [1 .. n -> Lengths]
    BY <1>2
  <2> HIDE DEF n, l
  <2>2. g \in [1 .. n + m -> Lengths]
    BY <2>1, GrownIs, Zenon
  <2> HIDE DEF g
  <2>3. Len(g) = n + m
    BY <2>1, <2>2
  <2>4. r.lengths = g
    BY DEF g, n, l
  <2> QED BY <1>1, <2>3, <2>4 DEF n
<1> QED BY <1>2, <1>3, <1>4, <1>5, MeaningRead

\* One length is read.
LEMMA ReadLengthRefines ==
  ASSUME ReaderInv, DecodeInv, LengthsAreRead, NEW code_len \in 0 .. MaxLength, ReadLength(code_len)
  PROVE  Meaning!Next
<1>1. LengthsGrow(code_len, 1) /\ Fields'.repeat = 0
  BY ReadLengthGrows
<1>2. MoreLengths /\ UNCHANGED <<substate, outcome>> /\ code_len \in Lengths
  BY DEF ReadLength, Lengths
<1>3. Fields.symbol \in Nat /\ AbsLengths \in [1 .. Fields.symbol -> Lengths]
  BY <1>1, ListNow DEF LengthsGrow
<1> DEFINE r == [lengths |-> Append(AbsLengths, code_len), run |-> 0]
<1>4. r \in Meaning!Readings(AbsLengths, AbsRun)
  <2>1. r \in Meaning!One(AbsLengths)
    BY DEF Meaning!One
  <2> HIDE DEF r
  <2> QED BY <2>1, Zenon DEF Meaning!Readings
<1>5. r.lengths = Grown(AbsLengths, Fields.symbol, code_len, 1) /\ r.run = Fields'.repeat
  <2>1. Grown(AbsLengths, Fields.symbol, code_len, 1) = Append(AbsLengths, code_len)
    BY <1>2, <1>3, GrownAppends
  <2> QED BY <1>1, <2>1
<1> HIDE DEF r
<1> QED BY <1>1, <1>2, <1>4, <1>5, GrowsRefines

---------------------------------------------------------------------------
(* Runs of a length.                                                      *)

\* The bits a run is extended by.
ExtraBits(code_len) == IF code_len = RepeatCode THEN RepeatBits ELSE ZeroBits

\* The run that goes on is the one the list ends with.
LEMMA OldRunIs ==
  ASSUME NEW f, FieldsOK(f), NEW read \in [1 .. f.symbol -> Lengths], ReadIs(read, f), NEW code_len
  PROVE  LET v == RunLength(f, code_len)
         IN  (IF f.repeat > 0 /\ Meaning!Last(read) = v THEN f.repeat ELSE 0) = OldRun(f, code_len)
<1> DEFINE v == RunLength(f, code_len)
<1>1. f.symbol \in Nat /\ f.repeat \in Nat
  BY HeadIs DEF FieldsOK, FieldsType
<1>2. Meaning!Last(read) = read[f.symbol]
  <2>1. Len(read) = f.symbol
    BY <1>1
  <2> QED BY <2>1 DEF Meaning!Last
<1>3. f.repeat # 0 => read[f.symbol] = f.repeat_code_len
  BY DEF ReadIs
<1> HIDE DEF v
<1>4. (IF f.repeat > 0 /\ Meaning!Last(read) = v THEN f.repeat ELSE 0)
        = IF f.repeat_code_len = v THEN f.repeat ELSE 0
  BY <1>1, <1>2, <1>3
<1>5. OldRun(f, code_len) = IF f.repeat_code_len = v THEN f.repeat ELSE 0
  BY DEF OldRun, v
<1> QED BY <1>4, <1>5 DEF v

\* What a code of a run makes of the list.
LEMMA RunIsReading ==
  ASSUME NEW f, FieldsOK(f), f.repeat = 0 \/ f.repeat >= 3, NEW read \in [1 .. f.symbol -> Lengths], ReadIs(read, f),
         NEW code_len \in {RepeatCode, RepeatCode + 1}, NEW delta \in 0 .. Pow2[ExtraBits(code_len)] - 1
  PROVE  [lengths |-> Grown(read, f.symbol, RunLength(f, code_len), RunDelta(f, code_len, delta)),
          run |-> NewRun(f, code_len, delta)]
           \in Meaning!Readings(read, f.repeat)
<1> DEFINE v == RunLength(f, code_len)
           n == RunDelta(f, code_len, delta)
           old == OldRun(f, code_len)
           new == NewRun(f, code_len, delta)
           bits == ExtraBits(code_len)
           r == [lengths |-> Grown(read, f.symbol, v, n), run |-> new]
<1>0. f.symbol \in Nat /\ delta \in Nat /\ bits \in Nat
  <2>1. bits \in Nat
    BY ReaderConstants DEF ExtraBits
  <2> HIDE DEF bits
  <2>2. Pow2[bits] \in Nat
    BY <2>1, PowNat
  <2>3. delta \in 0 .. Pow2[bits] - 1
    BY DEF bits
  <2>4. f.symbol \in Nat
    BY HeadIs DEF FieldsOK, FieldsType
  <2> QED BY <2>1, <2>2, <2>3, <2>4
<1>1. n \in Nat /\ v \in Lengths
  BY <1>0, RunIs DEF Lengths
<1>2. Grown(read, f.symbol, v, n) = read \o [i \in 1 .. n |-> v]
  <2> DEFINE m == f.symbol
  <2>1. m \in Nat /\ read \in [1 .. m -> Lengths]
    BY <1>0
  <2> HIDE DEF v, n, m
  <2>2. \A k \in Nat : Grown(read, m, v, k) = read \o [i \in 1 .. k |-> v]
    BY <1>1, <2>1, GrownAppends
  <2>3. Grown(read, m, v, n) = read \o [i \in 1 .. n |-> v]
    BY <1>1, <2>2, Zenon
  <2> QED BY <2>3 DEF m
<1>3. new = Meaning!LongerRun(old, bits, delta) /\ new - old = n
  <2>1. new = (IF old > 0 THEN (old - 2) * Pow2[bits] ELSE 0) + delta + 3
    BY DEF NewRun, ExtraBits
  <2>2. Meaning!LongerRun(old, bits, delta) = (IF old > 0 THEN (old - 2) * Pow2[bits] ELSE 0) + delta + 3
    <3> HIDE DEF old, bits
    <3> QED BY MeaningPow DEF Meaning!LongerRun
  <2>3. new - old = n
    BY DEF RunDelta
  <2> HIDE DEF new, old, bits, n
  <2> QED BY <2>1, <2>2, <2>3
<1>4. old = IF f.repeat > 0 /\ Meaning!Last(read) = v THEN f.repeat ELSE 0
  BY OldRunIs
<1>5. delta \in 0 .. Meaning!Pow2[bits] - 1
  BY MeaningPow
<1> HIDE DEF v, n, old, new, bits
<1>6. r = [lengths |-> read \o [i \in 1 .. new - old |-> v], run |-> new]
  BY <1>2, <1>3
<1>7. r \in Meaning!More(read, f.repeat, v, bits)
  <2> HIDE DEF r
  <2>1. r \in {[lengths |-> read \o [i \in 1 .. Meaning!LongerRun(old, bits, extra) - old |-> v],
                run |-> Meaning!LongerRun(old, bits, extra)] : extra \in 0 .. Meaning!Pow2[bits] - 1}
    BY <1>3, <1>5, <1>6
  <2> QED BY <1>4, <2>1 DEF Meaning!More
<1>8. \/ v = Meaning!LastLength(read) /\ bits = RepeatBits
      \/ v = 0 /\ bits = ZeroBits
  <2>1. CASE code_len = RepeatCode
    <3>1. v = f.prev_code_len /\ bits = RepeatBits
      BY <2>1 DEF v, bits, RunLength, ExtraBits
    <3>2. Meaning!LastLength(read) = f.prev_code_len
      BY <1>0, MeaningLast DEF ReadIs
    <3> QED BY <3>1, <3>2
  <2>2. CASE code_len # RepeatCode
    BY <2>2 DEF v, bits, RunLength, ExtraBits
  <2> QED BY <2>1, <2>2
<1>9. r \in Meaning!Readings(read, f.repeat)
  <2> HIDE DEF r
  <2> QED BY <1>7, <1>8, Zenon DEF Meaning!Readings
<1> QED BY <1>9 DEF r, v, n, new

\* A code of a run is read.
LEMMA ReadRunRefines ==
  ASSUME ReaderInv, DecodeInv, LengthsAreRead, NEW code_len \in {RepeatCode, RepeatCode + 1},
         NEW delta \in 0 .. Pow2[ExtraBits(code_len)] - 1, ReadRun(code_len, delta)
  PROVE  Meaning!Next
<1> DEFINE f == Fields
           v == RunLength(Fields, code_len)
           n == RunDelta(Fields, code_len, delta)
           r == [lengths |-> Grown(AbsLengths, Fields.symbol, v, n), run |-> NewRun(Fields, code_len, delta)]
<1>0. /\ Running /\ substate = "LENGTH_SYMBOLS" /\ MoreLengths /\ UNCHANGED <<substate, outcome>>
      /\ ReadRun(code_len, delta)
  BY DEF ReadRun
<1>1. delta \in Nat
  <2>1. ExtraBits(code_len) \in Nat
    BY ReaderConstants DEF ExtraBits
  <2>2. Pow2[ExtraBits(code_len)] \in Nat
    BY <2>1, PowNat
  <2> QED BY <2>2
<1>2. /\ Fields'.repeat = NewRun(Fields, code_len, delta)
      /\ Fits(Fields, n) => LengthsGrow(v, n)
      /\ ~Fits(Fields, n) => Fields'.space = NoSpace
  BY <1>0, <1>1, ReadRunGrows
<1>3. Fields.space # NoSpace
  <2>1. FieldsOK(Fields) /\ ChainsOK(chains) /\ LinkedFields(chains, Fields)
    BY <1>0, FieldsAre DEF ReaderInv, Shapes, DecodeInv, LengthsLinked
  <2> QED BY <1>0, <2>1, SpaceIsLeft DEF MoreLengths
<1>4. /\ FieldsOK(f) /\ f.symbol \in Nat /\ AbsRun = f.repeat /\ AbsCode = <<-1>>
      /\ AbsLengths \in [1 .. f.symbol -> Lengths] /\ ReadIs(AbsLengths, f)
      /\ Meaning!Open(AbsLengths)
  BY <1>0, <1>3, ListNow
<1>5. f.repeat = 0 \/ f.repeat >= 3
  BY <1>0 DEF ReaderInv, LengthsPhase, LengthsRead
<1>6. v \in Lengths /\ n \in Nat
  <2> HIDE DEF f
  <2>1. RunLength(f, code_len) \in 0 .. MaxLength /\ RunDelta(f, code_len, delta) \in Nat
    BY <1>1, <1>4, <1>5, RunIs
  <2> QED BY <2>1 DEF Lengths, f
<1>7. r \in Meaning!Readings(AbsLengths, AbsRun)
  <2> DEFINE l == AbsLengths
  <2>1. l \in [1 .. f.symbol -> Lengths] /\ ReadIs(l, f)
    BY <1>4
  <2> HIDE DEF f, l
  <2>2. [lengths |-> Grown(l, f.symbol, RunLength(f, code_len), RunDelta(f, code_len, delta)),
         run |-> NewRun(f, code_len, delta)] \in Meaning!Readings(l, f.repeat)
    BY <1>4, <1>5, <2>1, RunIsReading
  <2> QED BY <1>4, <2>2, Zenon DEF f, l
<1>8. r.run = NewRun(Fields, code_len, delta) /\ r.lengths = Grown(AbsLengths, Fields.symbol, v, n)
  BY Zenon
<1>9. CASE Fits(Fields, n)
  <2> HIDE DEF r, v, n, f
  <2> QED BY <1>0, <1>2, <1>6, <1>7, <1>8, <1>9, GrowsRefines
<1>10. CASE ~Fits(Fields, n)
  <2>1. AbsLengths' = <<>> /\ AbsRun' = 0 /\ AbsCode' = <<-2>>
    BY <1>0, <1>2, <1>10, AbsNext DEF AbsFacts, Running
  <2>2. ~(Len(r.lengths) <= MaxSymbol)
    <3> DEFINE l == AbsLengths
               m == f.symbol
               g == Grown(l, m, v, n)
    <3>1. m \in Nat /\ l \in [1 .. m -> Lengths] /\ ~(m + n <= MaxSymbol)
      BY <1>4, <1>10 DEF Fits
    <3>2. r.lengths = g
      BY <1>8
    <3> HIDE DEF l, m, v, n, r, f
    <3>3. g \in [1 .. m + n -> Lengths]
      BY <1>6, <3>1, GrownIs, Zenon
    <3> HIDE DEF g
    <3>4. Len(g) = m + n
      BY <1>6, <3>1, <3>3
    <3> QED BY <3>1, <3>2, <3>4
  <2> HIDE DEF r, v, n
  <2> QED BY <1>4, <1>7, <2>1, <2>2, MeaningTooLong
<1> QED BY <1>9, <1>10

---------------------------------------------------------------------------
(* The code of the lengths.                                               *)

\* The code of the list that was read is that of the lengths in the lists.
LEMMA CodeOfRead ==
  ASSUME NEW n \in Nat, n <= MaxSymbol, NEW lengths, \A x \in 0 .. MaxSymbol - 1 : x >= n => lengths[x] = 0,
         NEW read \in [1 .. n -> Lengths], \A i \in 1 .. n : read[i] = lengths[i - 1]
  PROVE  Meaning!CodeOf(read) = LengthsIn(lengths, MaxSymbol)
<1> DEFINE S == {y \in Meaning!Symbols : y + 1 \in DOMAIN read /\ read[y + 1] # 0}
<1>0. MaxSymbol \in Nat /\ Meaning!Symbols = 0 .. MaxSymbol - 1
  BY HeadIs DEF Meaning!Symbols
<1>1. ASSUME NEW x \in 0 .. MaxSymbol - 1
      PROVE  /\ (x + 1 \in DOMAIN read /\ read[x + 1] # 0) <=> lengths[x] # 0
             /\ lengths[x] # 0 => read[x + 1] = lengths[x]
  <2>1. x + 1 \in 1 .. n => read[x + 1] = lengths[x]
    <3>1. x + 1 \in 1 .. n => read[x + 1] = lengths[(x + 1) - 1]
      OBVIOUS
    <3>2. (x + 1) - 1 = x
      OBVIOUS
    <3> QED BY <3>1, <3>2
  <2>2. ~(x + 1 \in 1 .. n) => x >= n
    BY <1>0
  <2> QED BY <2>1, <2>2
<1>2. S = UsedIn(lengths, MaxSymbol)
  BY <1>0, <1>1 DEF UsedIn
<1>3. \A x \in S : read[x + 1] = lengths[x]
  BY <1>0, <1>1
<1>4. Meaning!CodeOf(read) = [x \in S |-> read[x + 1]]
  BY DEF Meaning!CodeOf
<1> HIDE DEF S
<1> QED BY <1>2, <1>3, <1>4 DEF LengthsIn

\* The lengths are complete.
LEMMA EndLengthsRefines ==
  ASSUME ReaderInv, DecodeInv, LengthsAreRead, EndLengths
  PROVE  [Meaning!Next]_Abs
<1>0. Running /\ substate = "LENGTH_SYMBOLS" /\ ~MoreLengths
  BY DEF EndLengths
<1>1. /\ Fields.space # 0 => outcome' = "HUFFMAN_SPACE"
      /\ Fields.space = 0 => outcome' = "SUCCESS" /\ table' = BuildHuffmanTable(ChainLists, chains.histo).table
  BY DEF EndLengths, Built, ChainLists
<1>2. AbsLengths' = <<>> /\ AbsRun' = 0
  BY <1>1, AbsNext DEF AbsFacts, Running
<1>3. Fields.space # 0 => AbsCode' = <<-2>>
  BY <1>1, AbsNext DEF AbsFacts, Running
<1>4. CASE Fields.space = NoSpace
  <2>1. NoSpace # 0
    <3>1. FullSpace \in Nat /\ FullSpace >= 1
      BY HeadIs, PowNat DEF FullSpace
    <3> QED BY <3>1 DEF NoSpace
  <2>2. AbsLengths = <<>> /\ AbsRun = 0 /\ AbsCode = <<-2>>
    BY <1>0, <1>4, AbsNow DEF AbsFacts
  <2> QED BY <1>2, <1>3, <1>4, <2>1, <2>2, MeaningStays, Zenon DEF Abs
<1>5. CASE Fields.space # NoSpace
  <2>1. /\ FieldsOK(Fields) /\ Fields.symbol \in Nat
        /\ AbsLengths = ReadOf(chains, Fields.symbol) /\ AbsCode = <<-1>>
        /\ AbsLengths \in [1 .. Fields.symbol -> Lengths]
        /\ ~Meaning!Open(AbsLengths)
        /\ Meaning!TotalWeight(AbsLengths) = Meaning!FullWeight <=> Fields.space = 0
    BY <1>0, <1>5, ListNow
  <2>2. ASSUME Fields.space = 0 PROVE AbsCode' = Meaning!CodeOf(AbsLengths)
    <3>1. ChainsOK(chains) /\ LinkedFields(chains, Fields)
      BY <1>0 DEF ReaderInv, Shapes, DecodeInv, LengthsLinked
    <3>2. PICK lengths : Linked(chains, lengths, Fields.symbol)
      BY <3>1 DEF LinkedFields
    <3> DEFINE t == BuildHuffmanTable(ChainLists, chains.histo).table
               c == LengthsIn(lengths, MaxSymbol)
               n == Fields.symbol
               l == AbsLengths
    <3>3. CodeTable(t, c)
      BY <2>1, <2>2, <3>1, <3>2, LengthsTable
    <3>4. c = [x \in DOMAIN c |-> c[x]]
      BY DEF LengthsIn
    <3>5. n \in Nat /\ n <= MaxSymbol /\ l = ReadOf(chains, n) /\ l \in [1 .. n -> Lengths]
      <4>1. n \in 0 .. MaxSymbol
        BY <2>1 DEF FieldsOK, FieldsType
      <4> QED BY <2>1, <4>1, HeadIs
    <3>6. table' = t /\ outcome' = "SUCCESS"
      BY <1>1, <2>2
    <3>7. AbsCode' = LengthsOf(table')
      BY <3>6, AbsNext DEF AbsFacts
    <3> HIDE DEF t, c, n, l
    <3>8. LengthsOf(t) = c
      BY <3>3, <3>4, LengthsAre
    <3>9. \A i \in 1 .. n : l[i] = lengths[i - 1]
      BY <3>2, <3>5, ReadIsLinked DEF n
    <3>10. Meaning!CodeOf(l) = c
      <4>1. \A x \in 0 .. MaxSymbol - 1 : x >= n => lengths[x] = 0
        BY <3>2 DEF Linked, n
      <4> QED BY <3>5, <3>9, <4>1, CodeOfRead DEF c
    <3> QED BY <3>6, <3>7, <3>8, <3>10, Zenon DEF l
  <2>3. AbsCode' = IF Meaning!TotalWeight(AbsLengths) = Meaning!FullWeight THEN Meaning!CodeOf(AbsLengths) ELSE <<-2>>
    BY <1>3, <2>1, <2>2
  <2>4. Meaning!Next
    BY <1>2, <2>1, <2>3, MeaningComplete
  <2> QED BY <2>4, Zenon
<1> QED BY <1>4, <1>5

---------------------------------------------------------------------------
(* The code of listed symbols.                                            *)

\* The abstract specification counts as this one does.
LEMMA MeaningCardinality == ASSUME NEW S PROVE Meaning!Cardinality(S) = Cardinality(S)
  BY Zenon DEF Meaning!Cardinality, Cardinality

\* Different symbols are counted by their places.
LEMMA PlacesCounted ==
  ASSUME NEW n \in Nat, NEW a, Distinct(a, n), NEW K \in SUBSET (1 .. n)
  PROVE  Cardinality({a[k] : k \in K}) = Cardinality(K)
<1> DEFINE T == {a[k] : k \in K}
           f == [k \in K |-> a[k]]
<1>1. ASSUME NEW i \in K, NEW k \in K, f[i] = f[k] PROVE i = k
  <2>1. i \in 1 .. n /\ k \in 1 .. n /\ a[i] = a[k]
    BY <1>1
  <2>2. i < k \/ k < i \/ i = k
    BY <2>1
  <2> QED BY <2>1, <2>2 DEF Distinct
<1>2. f \in [K -> T] /\ DOMAIN f = K
  OBVIOUS
<1>3. \A t \in T : \E k \in K : f[k] = t
  OBVIOUS
<1>4. IsFiniteSet(K)
  <2>1. 1 \in Int /\ n \in Int
    OBVIOUS
  <2>2. IsFiniteSet(1 .. n)
    BY <2>1, FS_Interval, Zenon
  <2>3. K \in SUBSET (1 .. n)
    OBVIOUS
  <2> QED BY <2>2, <2>3, FS_Subset
<1> HIDE DEF f, T
<1>5. f \in Bijection(K, T)
  <2>1. IsInjective(f)
    BY <1>1, <1>2 DEF IsInjective
  <2> QED BY <1>2, <1>3, <2>1 DEF Bijection, Injection, Surjection
<1>6. ExistsBijection(K, T)
  BY <1>5 DEF ExistsBijection
<1>7. Cardinality(T) = Cardinality(K)
  BY <1>4, <1>6, FS_Bijection
<1> QED BY <1>7 DEF T

\* How many of the symbols have a length follows from how many are listed.
LEMMA TimesListed ==
  ASSUME NEW n \in Nat, NEW a, Distinct(a, n), NEW c, NEW bits, DOMAIN bits = 1 .. n, GivesBits(c, a, n, bits), NEW x
  PROVE  Meaning!Times(c, x) = Meaning!Times(bits, x)
<1> DEFINE K == {k \in 1 .. n : bits[k] = x}
           T == {a[k] : k \in K}
<1>1. {y \in DOMAIN c : c[y] = x} = T
  BY DEF GivesBits
<1>2. {k \in DOMAIN bits : bits[k] = x} = K
  OBVIOUS
<1>3. Cardinality(T) = Cardinality(K)
  <2>1. K \in SUBSET (1 .. n)
    OBVIOUS
  <2> HIDE DEF K
  <2> QED BY <2>1, PlacesCounted
<1>4. Meaning!Times(c, x) = Cardinality(T)
  <2> HIDE DEF T
  <2>1. Meaning!Times(c, x) = Meaning!Cardinality({y \in DOMAIN c : c[y] = x})
    BY Zenon DEF Meaning!Times
  <2> QED BY <1>1, <2>1, MeaningCardinality
<1>5. Meaning!Times(bits, x) = Cardinality(K)
  <2> HIDE DEF K
  <2>1. Meaning!Times(bits, x) = Meaning!Cardinality({k \in DOMAIN bits : bits[k] = x})
    BY Zenon DEF Meaning!Times
  <2> QED BY <1>2, <2>1, MeaningCardinality
<1> QED BY <1>3, <1>4, <1>5

\* The lengths of one to four symbols.
LEMMA SimpleShapes ==
  ASSUME NEW num_symbols \in 0 .. 4
  PROVE  /\ SimpleBits(num_symbols) \in Meaning!SimpleLengths
         /\ SimpleCount(num_symbols) \in 1 .. 4
         /\ DOMAIN SimpleBits(num_symbols) = 1 .. SimpleCount(num_symbols)
         /\ \A k \in 1 .. SimpleCount(num_symbols) : SimpleBits(num_symbols)[k] \in 0 .. 3
<1>1. num_symbols \in {0, 1, 2, 3, 4}
  OBVIOUS
<1>2. SimpleBits(num_symbols) \in Meaning!SimpleLengths
  BY <1>1 DEF SimpleBits, Meaning!SimpleLengths
<1>3. SimpleCount(num_symbols) \in 1 .. 4
  BY <1>1 DEF SimpleCount
<1>4. DOMAIN SimpleBits(num_symbols) = 1 .. SimpleCount(num_symbols)
  <2>1. CASE num_symbols = 0
    BY <2>1 DEF SimpleBits, SimpleCount
  <2>2. CASE num_symbols = 1
    BY <2>2 DEF SimpleBits, SimpleCount
  <2>3. CASE num_symbols = 2
    BY <2>3 DEF SimpleBits, SimpleCount
  <2>4. CASE num_symbols = 3
    BY <2>4 DEF SimpleBits, SimpleCount
  <2>5. CASE num_symbols = 4
    BY <2>5 DEF SimpleBits, SimpleCount
  <2> QED BY <1>1, <2>1, <2>2, <2>3, <2>4, <2>5
<1>5. \A k \in 1 .. SimpleCount(num_symbols) : SimpleBits(num_symbols)[k] \in 0 .. 3
  BY SimpleIs DEF SimpleFacts
<1> QED BY <1>2, <1>3, <1>4, <1>5

\* The code of listed symbols is one of those the format has.
LEMMA SimpleCodeIsListed ==
  ASSUME NEW num_symbols \in 0 .. 4, NEW a, SimpleList(a, num_symbols),
         \A k \in 1 .. SimpleCount(num_symbols) : a[k] \in 0 .. MaxSymbol - 1
  PROVE  SimpleCode(a, num_symbols) \in Meaning!SimpleCodes
<1> DEFINE n == SimpleCount(num_symbols)
           bits == SimpleBits(num_symbols)
           c == SimpleCode(a, num_symbols)
           used == {a[k] : k \in 1 .. n}
<1>1. /\ bits \in Meaning!SimpleLengths /\ n \in 1 .. 4 /\ n \in Nat /\ DOMAIN bits = 1 .. n
      /\ \A k \in 1 .. n : bits[k] \in 0 .. 3
  BY SimpleShapes
<1>2. Distinct(a, n)
  BY DEF SimpleList
<1>3. GivesBits(c, a, n, bits)
  <2> HIDE DEF n, bits
  <2>1. GivesBits(ListedCode(a, n, bits), a, n, bits)
    BY <1>1, <1>2, ListedCodeIs
  <2> QED BY <2>1 DEF SimpleCode, n, bits
<1>4. c = [x \in DOMAIN c |-> c[x]]
  BY DEF SimpleCode, ListedCode
<1>5. used \in SUBSET Meaning!Symbols /\ Meaning!Cardinality(used) = n
  <2>1. used \in SUBSET Meaning!Symbols
    BY DEF Meaning!Symbols
  <2>2. Cardinality(used) = n
    <3> DEFINE K == 1 .. n
    <3>1. Cardinality(K) = n
      <4> HIDE DEF n
      <4>1. 1 \in Int /\ n \in Int
        BY <1>1
      <4>2. Cardinality(1 .. n) = IF 1 > n THEN 0 ELSE (n - 1) + 1
        BY <4>1, FS_Interval
      <4> QED BY <1>1, <4>2 DEF K
    <3>2. K \in SUBSET (1 .. n)
      OBVIOUS
    <3>3. Cardinality({a[k] : k \in K}) = Cardinality(K)
      <4> HIDE DEF K, n
      <4> QED BY <1>1, <1>2, <3>2, PlacesCounted
    <3> QED BY <3>1, <3>3
  <2> HIDE DEF used
  <2> QED BY <2>1, <2>2, MeaningCardinality
<1> HIDE DEF n, bits, c, used
<1>6. used \in UNION {Meaning!kSubset(k, Meaning!Symbols) : k \in 1 .. 4}
  <2>1. used \in Meaning!kSubset(n, Meaning!Symbols)
    BY <1>5 DEF Meaning!kSubset
  <2> QED BY <1>1, <2>1
<1>7. c \in [used -> 0 .. 3]
  <2>1. DOMAIN c = used /\ \A k \in 1 .. n : c[a[k]] = bits[k]
    BY <1>3 DEF GivesBits, used
  <2>2. \A x \in used : c[x] \in 0 .. 3
    BY <1>1, <2>1 DEF used
  <2> QED BY <1>4, <2>1, <2>2
<1>8. \A x \in 0 .. 3 : Meaning!Times(c, x) = Meaning!Times(bits, x)
  BY <1>1, <1>2, <1>3, TimesListed
<1>9. \E shape \in Meaning!SimpleLengths : \A x \in 0 .. 3 : Meaning!Times(c, x) = Meaning!Times(shape, x)
  BY <1>1, <1>8
<1>10. c \in UNION {[u -> 0 .. 3] : u \in UNION {Meaning!kSubset(k, Meaning!Symbols) : k \in 1 .. 4}}
  BY <1>6, <1>7
<1>11. c \in Meaning!SimpleCodes
  BY <1>9, <1>10, Zenon DEF Meaning!SimpleCodes
<1> QED BY <1>11 DEF c

\* The table of the listed symbols: its code is one of those the format has.
LEMMA BuildSimpleRefines ==
  ASSUME ReaderInv, DecodeInv, BuildSimple
  PROVE  [Meaning!Next]_Abs
<1>0. Shapes /\ SimplePhase /\ Running /\ substate = "SIMPLE_BUILD"
  BY DEF ReaderInv, BuildSimple
<1>1. FieldsOK(s) /\ s.symbol <= 3 /\ s.symbol \in Nat
  BY <1>0, ReaderConstants DEF Shapes, SimplePhase, FieldsOK, FieldsType
<1>2. PICK bits \in IF s.symbol = 3 THEN {0, 1} ELSE {0} :
        Built(BuildSimpleHuffmanTable(SimpleSymbols(s.symbol + 1), s.symbol + bits))
  BY DEF BuildSimple
<1> DEFINE num_symbols == s.symbol + bits
           n == s.symbol + 1
           v == SimpleSymbols(n)
           a == SimpleOrder(v, num_symbols)
           c == SimpleCode(a, num_symbols)
           t == BuildSimpleHuffmanTable(v, num_symbols)
<1>3. num_symbols \in 0 .. 4 /\ SimpleCount(num_symbols) = n /\ n \in Nat
  <2>1. CASE s.symbol = 3
    <3>1. bits = 0 \/ bits = 1
      BY <1>2, <2>1
    <3> QED BY <2>1, <3>1 DEF SimpleCount
  <2>2. CASE s.symbol # 3
    <3>1. bits = 0 /\ s.symbol \in 0 .. 2
      BY <1>1, <1>2, <2>2
    <3> QED BY <3>1 DEF SimpleCount
  <2> QED BY <2>1, <2>2
<1>4. IsInjective(v) /\ ListedUpTo(chains, n)
  BY <1>0 DEF DecodeInv, SimpleListed
<1>5. v = [k \in 1 .. n |-> chains.lists[Item(k - 1)]]
  BY DEF SimpleSymbols
<1>6. table' = t /\ outcome' = "SUCCESS"
  BY <1>2 DEF Built
<1> HIDE DEF n, num_symbols, v, a, c, t
<1>7. v \in [1 .. n -> 0 .. MaxSymbol - 1] /\ v \in [1 .. n -> Nat] /\ Len(v) = n
  <2>1. \A k \in 1 .. n : chains.lists[Item(k - 1)] \in 0 .. MaxSymbol - 1
    <3> TAKE k \in 1 .. n
    <3>1. k - 1 \in 0 .. n - 1
      BY <1>3
    <3> QED BY <1>4, <3>1 DEF ListedUpTo
  <2>2. v \in [1 .. n -> 0 .. MaxSymbol - 1]
    BY <1>5, <2>1
  <2>3. v \in [1 .. n -> Nat]
    BY <2>2
  <2>4. Len(v) = n
    BY <1>3, <1>5
  <2> QED BY <2>2, <2>3, <2>4
<1>8. CodeTable(t, c)
  <2>1. CodeTable(BuildSimpleHuffmanTable(v, num_symbols), SimpleCode(SimpleOrder(v, num_symbols), num_symbols))
    BY <1>3, <1>4, <1>7, SimpleTable
  <2> QED BY <2>1 DEF t, c, a
<1>9. /\ SimpleList(a, num_symbols)
      /\ \A k \in 1 .. SimpleCount(num_symbols) : a[k] \in 0 .. MaxSymbol - 1
  <2>0. v \in [1 .. SimpleCount(num_symbols) -> Nat] /\ Len(v) = SimpleCount(num_symbols)
    BY <1>3, <1>7
  <2>1. /\ a \in [1 .. SimpleCount(num_symbols) -> Nat]
        /\ \A j, k \in 1 .. SimpleCount(num_symbols) : j < k => a[j] # a[k]
        /\ InOrder(a, SimpleCount(num_symbols), SimpleBits(num_symbols))
        /\ \A k \in 1 .. SimpleCount(num_symbols) : \E j \in 1 .. SimpleCount(num_symbols) : a[k] = v[j]
    BY <1>3, <1>4, <2>0, SimpleOrderIs, ZenonT(40) DEF a
  <2>2. SimpleList(a, num_symbols)
    BY <2>1 DEF SimpleList, Distinct
  <2>3. \A k \in 1 .. n : a[k] \in 0 .. MaxSymbol - 1
    <3> TAKE k \in 1 .. n
    <3>1. PICK j \in 1 .. n : a[k] = v[j]
      BY <1>3, <2>1, Zenon
    <3> QED BY <1>7, <3>1
  <2> QED BY <1>3, <2>2, <2>3, Zenon
<1>10. c \in Meaning!SimpleCodes
  BY <1>3, <1>9, SimpleCodeIsListed DEF c
<1>11. c = [x \in DOMAIN c |-> c[x]]
  BY DEF c, SimpleCode, ListedCode
<1>12. LengthsOf(t) = c /\ c # <<-1>>
  <2>1. LengthsOf(t) = c
    BY <1>8, <1>11, LengthsAre
  <2>2. IsCode(t)
    BY <1>8, <1>11 DEF IsCode
  <2>3. LengthsOf(t) # <<-1>>
    BY <2>2, CodesAreNot
  <2> QED BY <2>1, <2>3
<1>13. AbsLengths = <<>> /\ AbsRun = 0 /\ AbsCode = <<-1>>
  BY <1>0, AbsNow DEF AbsFacts
<1>14. AbsLengths' = <<>> /\ AbsRun' = 0 /\ AbsCode' = LengthsOf(table')
  BY <1>6, AbsNext DEF AbsFacts, Running
<1>15. AbsCode' = c
  BY <1>6, <1>12, <1>14, Zenon
<1>16. Meaning!Next
  BY <1>10, <1>12, <1>13, <1>14, <1>15, MeaningListed
<1> QED BY <1>16, Zenon

\* Every step is one of the abstract specification's, or none of it.
LEMMA StepRefines ==
  ReaderInv /\ DecodeInv /\ LengthsAreRead /\ [Next]_vars => [Meaning!Next]_<<AbsLengths, AbsRun, AbsCode>>
<1> SUFFICES ASSUME ReaderInv, DecodeInv, LengthsAreRead, [Next]_vars PROVE [Meaning!Next]_Abs
  BY Zenon DEF Abs
<1>0. Calls
  BY DEF ReaderInv
<1>1. CASE ReadKind
  <2>1. Running /\ substate = "NONE" /\ UNCHANGED outcome /\ substate' # "LENGTH_SYMBOLS"
    BY <1>1 DEF ReadKind
  <2> QED BY <2>1, BeforeLengths DEF Running
<1>2. CASE ReadSimpleSize
  <2>1. Running /\ substate = "SIMPLE_SIZE" /\ UNCHANGED outcome /\ substate' = "SIMPLE_READ"
    BY <1>2 DEF ReadSimpleSize
  <2> QED BY <2>1, BeforeLengths DEF Running
<1>3. CASE EnterSimple
  <2>1. Running /\ substate = "SIMPLE_READ" /\ UNCHANGED <<outcome, substate>>
    BY <1>3 DEF EnterSimple, Enter
  <2> QED BY <2>1, BeforeLengths DEF Running
<1>4. CASE ReadSimpleSymbol
  BY <1>4, ReadSimpleSymbolRefines
<1>5. CASE PauseSimple
  <2>1. Running /\ substate = "SIMPLE_READ" /\ UNCHANGED <<outcome, substate>>
    BY <1>0, <1>5 DEF Calls, PauseSimple
  <2> QED BY <2>1, BeforeLengths DEF Running
<1>6. CASE EndSimple
  BY <1>6, EndSimpleRefines
<1>7. CASE BuildSimple
  BY <1>7, BuildSimpleRefines
<1>8. CASE EnterComplex
  <2>1. Running /\ substate = "COMPLEX" /\ UNCHANGED <<outcome, substate>>
    BY <1>8 DEF EnterComplex, Enter
  <2> QED BY <2>1, BeforeLengths DEF Running
<1>9. CASE ReadCodeLengthCodeLength
  <2>1. Running /\ substate = "COMPLEX" /\ UNCHANGED <<outcome, substate>>
    BY <1>0, <1>9 DEF Calls, ReadCodeLengthCodeLength
  <2> QED BY <2>1, BeforeLengths DEF Running
<1>10. CASE PauseComplex
  <2>1. Running /\ substate = "COMPLEX" /\ UNCHANGED <<outcome, substate>>
    BY <1>0, <1>10 DEF Calls, PauseComplex
  <2> QED BY <2>1, BeforeLengths DEF Running
<1>11. CASE EndCodeLengths
  BY <1>11, EndCodeLengthsRefines
<1>12. ASSUME NEW code_len \in 0 .. MaxLength, ReadLength(code_len) PROVE [Meaning!Next]_Abs
  <2>1. Meaning!Next
    BY <1>12, ReadLengthRefines
  <2> QED BY <2>1, Zenon
<1>13. ASSUME NEW code_len \in {RepeatCode, RepeatCode + 1}, NEW delta \in 0 .. Pow2[ExtraBits(code_len)] - 1,
              ReadRun(code_len, delta)
       PROVE  [Meaning!Next]_Abs
  <2>1. Meaning!Next
    BY <1>13, ReadRunRefines
  <2> QED BY <2>1, Zenon
<1>14. ASSUME NEW delta \in 0 .. Pow2[RepeatBits] - 1, ReadRun(RepeatCode, delta) PROVE [Meaning!Next]_Abs
  <2>1. ExtraBits(RepeatCode) = RepeatBits
    BY DEF ExtraBits
  <2>2. delta \in 0 .. Pow2[ExtraBits(RepeatCode)] - 1
    BY <2>1, <1>14
  <2> QED BY <1>13, <1>14, <2>2
<1>15. ASSUME NEW delta \in 0 .. Pow2[ZeroBits] - 1, ReadRun(RepeatCode + 1, delta) PROVE [Meaning!Next]_Abs
  <2>1. ExtraBits(RepeatCode + 1) = ZeroBits
    <3>1. RepeatCode + 1 # RepeatCode
      BY Widths DEF RepeatCode
    <3> QED BY <3>1 DEF ExtraBits
  <2>2. delta \in 0 .. Pow2[ExtraBits(RepeatCode + 1)] - 1
    BY <2>1, <1>15
  <2> QED BY <1>13, <1>15, <2>2
<1>16. CASE EnterFast
  <2>1. local = Outside /\ local' = s /\ UNCHANGED <<s, substate, chains, table, outcome>>
    BY <1>16 DEF EnterFast, Enter, Inside
  <2>2. Fields' = Fields
    BY <2>1 DEF Fields
  <2> QED BY <2>1, <2>2, CopiesRefine
<1>17. CASE FastEnds
  <2>1. local # Outside /\ s' = local /\ local' = Outside /\ UNCHANGED <<substate, chains, table, outcome>>
    BY <1>17 DEF FastEnds, FastSaved, Inside
  <2>2. Fields' = Fields
    BY <2>1 DEF Fields
  <2> QED BY <2>1, <2>2, CopiesRefine
<1>18. CASE EndLengths
  BY <1>18, EndLengthsRefines
<1>19. CASE NextCode
  BY <1>19, NextCodeRefines
<1>20. CASE UNCHANGED vars
  <2>1. UNCHANGED <<substate, s, local, chains, table, outcome>>
    BY <1>20 DEF vars
  <2>2. Fields' = Fields
    BY <2>1 DEF Fields
  <2> QED BY <2>1, <2>2, CopiesRefine
<1> QED BY <1>1, <1>2, <1>3, <1>4, <1>5, <1>6, <1>7, <1>8, <1>9, <1>10, <1>11, <1>12, <1>14, <1>15,
           <1>16, <1>17, <1>18, <1>19, <1>20 DEF Next

\* The reader refines the reading of a code (PrefixCode): it takes the lengths one
\* by one, with the runs joined as the format has it; the code it hands over is
\* that of the lengths if they fill the space and that of the listed symbols if
\* they are listed, and what the format forbids is an error, wherever the reader
\* was paused and whichever of its loops read.
THEOREM CodesAreRead == Spec => CodesSpec
<1>1. ReaderInv /\ DecodeInv /\ LengthsAreRead /\ [Next]_vars =>
        [Meaning!Next]_<<IF ReadingLengths THEN ReadLengths ELSE <<>>,
          IF ReadingLengths THEN Fields.repeat ELSE 0,
          IF outcome = "SUCCESS" THEN LengthsOf(table)
          ELSE IF Running /\ (substate = "LENGTH_SYMBOLS" => Fields.space # NoSpace)
            THEN <<-1>> ELSE <<-2>>>>
  BY StepRefines, Zenon DEF AbsLengths, AbsRun, AbsCode
<1>2. Init /\ ReaderInv => Meaning!Init
  BY MeaningSpec
<1> QED BY <1>1, <1>2, ReaderInvariant, DecodeInvariant, LengthsInvariant, PTL DEF Spec, CodesSpec, Meaning!Spec
=============================================================================
