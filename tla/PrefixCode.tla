----------------------------- MODULE PrefixCode -----------------------------
(***************************************************************************)
(* What the prefix codes of a brotli stream mean.  A stream either lists   *)
(* one to four symbols, whose lengths follow from how many they are, or    *)
(* gives the length of the code of every symbol of the alphabet in turn,   *)
(* runs of one length being shortened.  A list of lengths that leaves      *)
(* room, or needs more than there is, is not a code.  Of one length the    *)
(* smaller symbol has the smaller code word, and longer code words come    *)
(* after shorter ones.                                                     *)
(***************************************************************************)
EXTENDS PowersOfTwo, Integers, Sequences, FiniteSetsExt, SequencesExt

CONSTANTS
  MaxSymbol,      \* how many symbols there are
  MaxLength,      \* the longest code word
  DefaultLength,  \* the length repeated before any length is known
  RepeatBits,     \* extra bits of the code that repeats a length
  ZeroBits        \* extra bits of the code that skips symbols

VARIABLES
  lengths,  \* the lengths read so far
  run,      \* how many of the last ones a row of codes for one run has given
  code      \* the code read: the lengths of the symbols it has; or None, Invalid

Symbols == 0 .. MaxSymbol - 1

\* No code gives a symbol a length below zero.
None == <<-1>>
Invalid == <<-2>>

Weight(length) == IF length = 0 THEN 0 ELSE Pow2[MaxLength - length]

FullWeight == Pow2[MaxLength]

TotalWeight(s) == SumFunction([i \in DOMAIN s |-> Weight(s[i])])

CodeOf(s) == [x \in {y \in Symbols : y + 1 \in DOMAIN s /\ s[y + 1] # 0} |-> s[x + 1]]

LastLength(read) ==
  LET nonzero == {i \in DOMAIN read : read[i] # 0}
  IN  IF nonzero = {} THEN DefaultLength ELSE read[Max(nonzero)]

\* More lengths follow.
Open(read) == Len(read) < MaxSymbol /\ TotalWeight(read) # FullWeight

Start == code # None /\ code' = None /\ lengths' = <<>> /\ run' = 0

\* The extra bits of the codes of one run are the digits of its length.
LongerRun(old, bits, extra) == (IF old > 0 THEN (old - 2) * Pow2[bits] ELSE 0) + extra + 3

\* What there is to read next: one length, or more of one.
One(read) == {[lengths |-> Append(read, x), run |-> 0] : x \in 0 .. MaxLength}

More(read, row, length, bits) ==
  LET old == IF row > 0 /\ Last(read) = length THEN row ELSE 0
      Run(new) == [lengths |-> read \o [i \in 1 .. new - old |-> length], run |-> new]
  IN  {Run(LongerRun(old, bits, extra)) : extra \in 0 .. Pow2[bits] - 1}

Readings(read, row) ==
  One(read) \cup More(read, row, LastLength(read), RepeatBits) \cup More(read, row, 0, ZeroBits)

\* A run that is too long for the alphabet ends the reading.
Read ==
  LET readings == Readings(lengths, run)
      fitting == {r \in readings : Len(r.lengths) <= MaxSymbol}
  IN  /\ code = None /\ Open(lengths)
      /\ \/ /\ run' \in {r.run : r \in fitting}
            /\ lengths' \in {r.lengths : r \in {q \in fitting : q.run = run'}}
            /\ UNCHANGED code
         \/ fitting # readings /\ run' = 0 /\ lengths' = <<>> /\ code' = Invalid

Complete ==
  /\ code = None /\ ~Open(lengths)
  /\ code' = IF TotalWeight(lengths) = FullWeight THEN CodeOf(lengths) ELSE Invalid
  /\ lengths' = <<>> /\ run' = 0

\* The lengths of one to four symbols that are listed.
SimpleLengths == {<<0>>, <<1, 1>>, <<1, 2, 2>>, <<2, 2, 2, 2>>, <<1, 2, 3, 3>>}

Times(f, x) == Cardinality({i \in DOMAIN f : f[i] = x})

SimpleCodes ==
  {c \in UNION {[used -> 0 .. 3] : used \in UNION {kSubset(n, Symbols) : n \in 1 .. 4}} :
     \E shape \in SimpleLengths : \A x \in 0 .. 3 : Times(c, x) = Times(shape, x)}

Listed ==
  /\ code = None /\ lengths = <<>>
  /\ code' # None /\ code' \in SimpleCodes \cup {Invalid}
  /\ UNCHANGED <<lengths, run>>

Init == lengths = <<>> /\ run = 0 /\ code = None

Next == Start \/ Read \/ Complete \/ Listed

Spec == Init /\ [][Next]_<<lengths, run, code>>

---------------------------------------------------------------------------
(* The code words of width bits or less, as the numbers of width bits that *)
(* begin with them.                                                        *)

Before(c, x) ==
  {y \in DOMAIN c : c[y] < c[x] \/ (c[y] = c[x] /\ y < x)}

FirstWord(c, x, width) == SumFunction([y \in Before(c, x) |-> Pow2[width - c[y]]])

WordsOf(c, width) ==
  [x \in DOMAIN c |-> LET first == FirstWord(c, x, width)
                      IN  first .. first + Pow2[width - c[x]] - 1]
=============================================================================
