-------------------------- MODULE PrefixCodeReader --------------------------
(***************************************************************************)
(* ReadHuffmanCode of brotli-exp/src/decode.rs: one prefix code is read    *)
(* from the stream and its table built.  The input may end before any      *)
(* symbol; the function then returns and is called again later, when it    *)
(* goes on from what the decoder's state holds.                            *)
(*                                                                         *)
(* Three loops work on copies of fields of the state (local).  They have   *)
(* to save them when the input ends; the lists, the counts and the small   *)
(* table they change in the state itself.  The slow loop over the lengths  *)
(* has no copies.                                                          *)
(*                                                                         *)
(* The bits of the stream are left out: a symbol that is read is any that  *)
(* the table in use can return.                                            *)
(***************************************************************************)
EXTENDS HuffmanTable, TLC

CONSTANTS
  AlphabetSize,       \* alphabet_size: sets the width of a listed symbol
  MaxSymbol,          \* max_symbol: how many symbols there are
  DefaultLength,      \* kDefaultCodeLength: 8
  RepeatBits,         \* extra bits of kCodeLengthRepeatCode: 2
  ZeroBits,           \* extra bits of the code after it: 3
  CodeLengthOrder,    \* kCodeLengthCodeOrder
  CodeLengthChoices,  \* which lengths the code length codes have in the model
  MaxCodes            \* bound: how many codes are read one after the other

CodeLengthCodes == 0 .. MaxLength + 2
RepeatCode == MaxLength + 1

ASSUME ReaderAssumption ==
  /\ {AlphabetSize, MaxSymbol, RepeatBits, ZeroBits, MaxCodes} \subseteq Nat \ {0}
  /\ AlphabetSize >= MaxSymbol /\ MaxSymbol >= 4
  /\ DefaultLength \in 1 .. MaxLength
  /\ CodeLengthChoices \in [CodeLengthCodes -> SUBSET (0 .. CodeLengthBits)]
  /\ CodeLengthOrder \in [1 .. MaxLength + 3 -> CodeLengthCodes]
  /\ IsInjective(CodeLengthOrder)

VARIABLES
  substate,      \* substate_huffman
  s,             \* fields of the state: sub_loop_counter, symbol, repeat, space,
                 \* prev_code_len, repeat_code_len
  local,         \* the copies of them in the running loop, or Outside
  chains,        \* symbols_lists_array, next_symbol and code_length_histo
  code_lengths,  \* code_length_code_lengths
  small,         \* table: of the code of code lengths
  table,         \* the table of the last code read
  outcome,       \* what the last call that did not ask for input returned
  codes          \* how many codes have been read

vars == <<substate, s, local, chains, code_lengths, small, table, outcome, codes>>

Outside == [sub_loop_counter |-> -1]
NoTable == <<>>

SymbolListsIndex == MaxLength + 1
ListEnd == -1  \* 0xFFFF

\* How many bits AlphabetSize - 1 has: Log2Floor, whatever its name says.
SymbolWidth == Min({w \in 0 .. AlphabetSize : AlphabetSize - 1 < Pow2[w]})

\* The current values of the fields.
Fields == IF local = Outside THEN s ELSE local

Inside == local # Outside

Running == outcome = "reading"

Enter(at) ==
  /\ Running /\ substate = at /\ ~Inside
  /\ local' = s
  /\ UNCHANGED <<substate, s, chains, code_lengths, small, table, outcome, codes>>

Fail(error) == outcome' = error /\ local' = Outside

---------------------------------------------------------------------------
(* The kind of the code.                                                   *)

FullSmallSpace == Pow2[CodeLengthBits]

ReadKind ==
  /\ Running /\ substate = "NONE"
  /\ \E kind \in 0 .. 3 :
       IF kind = 1
         THEN /\ s' = [s EXCEPT !.sub_loop_counter = kind]
              /\ substate' = "SIMPLE_SIZE"
              /\ UNCHANGED <<chains, code_lengths>>
         ELSE /\ s' = [s EXCEPT !.sub_loop_counter = kind, !.space = FullSmallSpace, !.repeat = 0]
              /\ chains' = [chains EXCEPT !.histo =
                              [b \in DOMAIN @ |-> IF b <= CodeLengthBits THEN 0 ELSE @[b]]]
              /\ code_lengths' = [x \in CodeLengthCodes |-> 0]
              /\ substate' = "COMPLEX"
  /\ UNCHANGED <<local, small, table, outcome, codes>>

---------------------------------------------------------------------------
(* A simple code: its symbols are listed.                                  *)

ReadSimpleSize ==
  /\ Running /\ substate = "SIMPLE_SIZE"
  /\ \E num_symbols \in 0 .. 3 :
       s' = [s EXCEPT !.symbol = num_symbols, !.sub_loop_counter = 0]
  /\ substate' = "SIMPLE_READ"
  /\ UNCHANGED <<local, chains, code_lengths, small, table, outcome, codes>>

EnterSimple == Enter("SIMPLE_READ")

\* The items of symbols_lists_array from its first on, which is before the
\* lists the lengths are kept in.
Item(k) == k - SymbolListsIndex

ReadSimpleSymbol ==
  /\ substate = "SIMPLE_READ" /\ Inside /\ local.sub_loop_counter <= s.symbol
  /\ \E v \in 0 .. Pow2[SymbolWidth] - 1 :
       IF v >= MaxSymbol
         THEN Fail("SIMPLE_HUFFMAN_ALPHABET") /\ UNCHANGED chains
         ELSE /\ chains' = [chains EXCEPT !.lists[Item(local.sub_loop_counter)] = v]
              /\ local' = [local EXCEPT !.sub_loop_counter = @ + 1]
              /\ UNCHANGED outcome
  /\ UNCHANGED <<substate, s, code_lengths, small, table, codes>>

PauseSimple ==
  /\ substate = "SIMPLE_READ" /\ Inside /\ local.sub_loop_counter <= s.symbol
  /\ s' = [s EXCEPT !.sub_loop_counter = local.sub_loop_counter]
  /\ local' = Outside
  /\ UNCHANGED <<substate, chains, code_lengths, small, table, outcome, codes>>

SimpleSymbols(n) == [k \in 1 .. n |-> chains.lists[Item(k - 1)]]

EndSimple ==
  /\ substate = "SIMPLE_READ" /\ Inside /\ local.sub_loop_counter > s.symbol
  /\ IF IsInjective(SimpleSymbols(s.symbol + 1))
       THEN substate' = "SIMPLE_BUILD" /\ local' = Outside /\ UNCHANGED outcome
       ELSE Fail("SIMPLE_HUFFMAN_SAME") /\ UNCHANGED substate
  /\ UNCHANGED <<s, chains, code_lengths, small, table, codes>>

Built(t) ==
  /\ table' = t
  /\ substate' = "NONE"
  /\ outcome' = "SUCCESS"
  /\ codes' = codes + 1

\* Four symbols are of one length or of three: one more bit says which.
BuildSimple ==
  /\ Running /\ substate = "SIMPLE_BUILD"
  /\ \E bits \in IF s.symbol = 3 THEN {0, 1} ELSE {0} :
       LET num_symbols == s.symbol + bits
       IN  /\ s' = [s EXCEPT !.symbol = num_symbols]
           /\ Built(BuildSimpleHuffmanTable(SimpleSymbols(s.symbol + 1), num_symbols))
  /\ UNCHANGED <<local, chains, code_lengths, small>>

---------------------------------------------------------------------------
(* The code of code lengths; local.repeat is num_codes.                    *)

EnterComplex == Enter("COMPLEX")

\* The loop breaks when no room is left, or less than none.
CodeLengthsEnded ==
  local.space <= 0 \/ local.sub_loop_counter = Len(CodeLengthOrder)

NextCodeLengthCode == CodeLengthOrder[local.sub_loop_counter + 1]

ReadCodeLengthCodeLength ==
  /\ substate = "COMPLEX" /\ Inside /\ ~CodeLengthsEnded
  /\ \E v \in CodeLengthChoices[NextCodeLengthCode] :
       /\ code_lengths' = [code_lengths EXCEPT ![NextCodeLengthCode] = v]
       /\ IF v = 0
            THEN local' = [local EXCEPT !.sub_loop_counter = @ + 1] /\ UNCHANGED chains
            ELSE /\ local' = [local EXCEPT !.sub_loop_counter = @ + 1, !.repeat = @ + 1,
                                           !.space = @ - FullSmallSpace \div Pow2[v]]
                 /\ chains' = [chains EXCEPT !.histo[v] = @ + 1]
  /\ UNCHANGED <<substate, s, small, table, outcome, codes>>

\* Mutation: the room left is not saved.
SavedWithoutSpace ==
  [s EXCEPT !.sub_loop_counter = local.sub_loop_counter, !.repeat = local.repeat]

SavedCodeLengths ==
  [s EXCEPT !.sub_loop_counter = local.sub_loop_counter, !.repeat = local.repeat,
            !.space = local.space]

PauseComplex ==
  /\ substate = "COMPLEX" /\ Inside /\ ~CodeLengthsEnded
  /\ s' = SavedCodeLengths
  /\ local' = Outside
  /\ UNCHANGED <<substate, chains, code_lengths, small, table, outcome, codes>>

FullSpace == Pow2[MaxLength]

\* Every list is empty: its head is where the first symbol goes.
EmptyChains ==
  [lists |-> [i \in DOMAIN chains.lists |->
                IF i \in -SymbolListsIndex .. -1 THEN ListEnd ELSE chains.lists[i]],
   next |-> [b \in 0 .. MaxLength |-> b - SymbolListsIndex],
   histo |-> [b \in 0 .. MaxLength |-> 0]]

\* The decoder keeps sub_loop_counter and code_length_code_lengths; nothing reads
\* them again before they are set, so they are cleared here.
StartLengths ==
  [sub_loop_counter |-> 0, symbol |-> 0, repeat |-> 0, space |-> FullSpace,
   prev_code_len |-> DefaultLength, repeat_code_len |-> 0]

EndCodeLengths ==
  /\ substate = "COMPLEX" /\ Inside /\ CodeLengthsEnded
  /\ IF local.repeat = 1 \/ local.space = 0
       THEN /\ small' = BuildCodeLengthsHuffmanTable(code_lengths, chains.histo, Cardinality(CodeLengthCodes))
            /\ chains' = EmptyChains
            /\ s' = StartLengths
            /\ code_lengths' = [x \in CodeLengthCodes |-> 0]
            /\ substate' = "LENGTH_SYMBOLS"
            /\ local' = Outside
            /\ UNCHANGED outcome
       ELSE Fail("CL_SPACE") /\ UNCHANGED <<substate, s, chains, code_lengths, small>>
  /\ UNCHANGED <<table, codes>>

---------------------------------------------------------------------------
(* The lengths of the symbols: f are the fields the running loop uses.     *)

\* n symbols from first on are linked to the list of their length.
Extended(length, first, n) ==
  LET Linked(i) == IF i = chains.next[length] THEN first
                   ELSE IF i \in first .. first + n - 2 THEN i + 1 ELSE chains.lists[i]
  IN  [lists |-> [i \in DOMAIN chains.lists |-> Linked(i)],
       next |-> [chains.next EXCEPT ![length] = first + n - 1],
       histo |-> [chains.histo EXCEPT ![length] = @ + n]]

\* space wraps in the code; below zero it only ever is told apart from zero.
ProcessSingleCodeLength(f, length) ==
  [f EXCEPT !.symbol = @ + 1, !.repeat = 0,
            !.prev_code_len = IF length = 0 THEN @ ELSE length,
            !.space = IF length = 0 THEN @ ELSE @ - FullSpace \div Pow2[length]]

\* 0xFFFFF: the space after a run that is too long.
NoSpace == 32 * FullSpace - 1

RunLength(f, code_len) == IF code_len = RepeatCode THEN f.prev_code_len ELSE 0

OldRun(f, code_len) == IF f.repeat_code_len = RunLength(f, code_len) THEN f.repeat ELSE 0

NewRun(f, code_len, delta) ==
  LET old == OldRun(f, code_len)
      bits == IF code_len = RepeatCode THEN RepeatBits ELSE ZeroBits
  IN  (IF old > 0 THEN (old - 2) * Pow2[bits] ELSE 0) + delta + 3

RunDelta(f, code_len, delta) == NewRun(f, code_len, delta) - OldRun(f, code_len)

\* Mutation: a run may leave the alphabet by one symbol.
FitsLate(f, n) == f.symbol + n <= MaxSymbol + 1

Fits(f, n) == f.symbol + n <= MaxSymbol

ProcessRepeatedCodeLength(f, code_len, delta) ==
  LET length == RunLength(f, code_len)
      n == RunDelta(f, code_len, delta)
      run == [f EXCEPT !.repeat = NewRun(f, code_len, delta), !.repeat_code_len = length]
  IN  IF Fits(f, n)
        THEN [run EXCEPT !.symbol = @ + n,
                         !.space = IF length = 0 THEN @ ELSE @ - n * (FullSpace \div Pow2[length])]
        ELSE [run EXCEPT !.symbol = MaxSymbol, !.space = NoSpace]

\* The fast loop changes its copies, the slow one the state.
Update(f) == IF Inside THEN local' = f /\ UNCHANGED s ELSE s' = f /\ UNCHANGED local

MoreLengths == Fields.symbol < MaxSymbol /\ Fields.space # 0

Readable == {small[i].value : i \in DOMAIN small}

ReadLength(code_len) ==
  /\ Running /\ substate = "LENGTH_SYMBOLS" /\ MoreLengths
  /\ code_len \in Readable /\ code_len < RepeatCode
  /\ Update(ProcessSingleCodeLength(Fields, code_len))
  /\ chains' = IF code_len = 0 THEN chains ELSE Extended(code_len, Fields.symbol, 1)
  /\ UNCHANGED <<substate, code_lengths, small, table, outcome, codes>>

ReadRun(code_len, delta) ==
  /\ Running /\ substate = "LENGTH_SYMBOLS" /\ MoreLengths
  /\ code_len \in Readable /\ code_len >= RepeatCode
  /\ LET n == RunDelta(Fields, code_len, delta)
         length == RunLength(Fields, code_len)
     IN  chains' = IF length = 0 \/ ~Fits(Fields, n) THEN chains
                   ELSE Extended(length, Fields.symbol, n)
  /\ Update(ProcessRepeatedCodeLength(Fields, code_len, delta))
  /\ UNCHANGED <<substate, code_lengths, small, table, outcome, codes>>

EnterFast == Enter("LENGTH_SYMBOLS")

\* Mutation: the run going on is not saved.
FastSavedWithoutRun == [local EXCEPT !.repeat = s.repeat]

FastSaved == local

\* The input is nearly used up: the slow loop goes on.
FastEnds ==
  /\ substate = "LENGTH_SYMBOLS" /\ Inside /\ MoreLengths
  /\ s' = FastSaved
  /\ local' = Outside
  /\ UNCHANGED <<substate, chains, code_lengths, small, table, outcome, codes>>

\* The list of a length: from its head, as many symbols as were counted.
Chain(length) ==
  LET at[k \in 1 .. chains.histo[length]] ==
        chains.lists[IF k = 1 THEN length - SymbolListsIndex ELSE at[k - 1]]
  IN  at

\* Of its copies the fast loop saves the space alone.  The build takes the
\* counts of the longer lengths down to zero.  After an error nothing is read
\* again, so the fields are cleared.
EndLengths ==
  /\ Running /\ substate = "LENGTH_SYMBOLS" /\ ~MoreLengths
  /\ local' = Outside
  /\ IF Fields.space # 0
       THEN /\ outcome' = "HUFFMAN_SPACE" /\ s' = StartLengths
            /\ UNCHANGED <<substate, chains, table, codes>>
       ELSE LET b == BuildHuffmanTable([length \in 1 .. MaxLength |-> Chain(length)], chains.histo)
            IN  /\ s' = [s EXCEPT !.space = Fields.space]
                /\ chains' = [chains EXCEPT !.histo = b.count]
                /\ Built(b.table)
  /\ UNCHANGED <<code_lengths, small>>

\* The caller asks for the next code.
NextCode ==
  /\ outcome = "SUCCESS" /\ codes < MaxCodes
  /\ outcome' = "reading"
  /\ table' = NoTable
  /\ UNCHANGED <<substate, s, local, chains, code_lengths, small, codes>>

---------------------------------------------------------------------------
Init ==
  /\ substate = "NONE"
  /\ s = [sub_loop_counter |-> 0, symbol |-> 0, repeat |-> 0, space |-> 0,
          prev_code_len |-> 0, repeat_code_len |-> 0]
  /\ local = Outside
  /\ chains = [lists |-> [i \in -SymbolListsIndex .. MaxSymbol - 1 |-> 0],
               next |-> [b \in 0 .. MaxLength |-> 0],
               histo |-> [b \in 0 .. MaxLength |-> 0]]
  /\ code_lengths = [x \in CodeLengthCodes |-> 0]
  /\ small = [i \in 0 .. Pow2[CodeLengthBits] - 1 |-> HuffmanCode(0, 0)]
  /\ table = NoTable
  /\ outcome = "reading"
  /\ codes = 0

Next ==
  \/ ReadKind
  \/ ReadSimpleSize \/ EnterSimple \/ ReadSimpleSymbol \/ PauseSimple \/ EndSimple \/ BuildSimple
  \/ EnterComplex \/ ReadCodeLengthCodeLength \/ PauseComplex \/ EndCodeLengths
  \/ \E code_len \in 0 .. MaxLength : ReadLength(code_len)
  \/ \E delta \in 0 .. Pow2[RepeatBits] - 1 : ReadRun(RepeatCode, delta)
  \/ \E delta \in 0 .. Pow2[ZeroBits] - 1 : ReadRun(RepeatCode + 1, delta)
  \/ EnterFast \/ FastEnds \/ EndLengths
  \/ NextCode

Spec == Init /\ [][Next]_vars

---------------------------------------------------------------------------
(* What the reader owes.                                                   *)

TypeOK ==
  /\ substate \in {"NONE", "SIMPLE_SIZE", "SIMPLE_READ", "SIMPLE_BUILD", "COMPLEX", "LENGTH_SYMBOLS"}
  /\ \A f \in {s, Fields} :
       /\ f.sub_loop_counter \in 0 .. Len(CodeLengthOrder)
       /\ f.symbol \in 0 .. MaxSymbol
       /\ {f.repeat, f.repeat_code_len} \subseteq Nat
       /\ f.space \in Int /\ f.space <= NoSpace
       /\ f.prev_code_len \in 0 .. MaxLength
  /\ chains.lists \in [-SymbolListsIndex .. MaxSymbol - 1 -> ListEnd .. MaxSymbol - 1]
  /\ \A b \in 0 .. MaxLength : chains.next[b] \in -SymbolListsIndex .. MaxSymbol - 1
  /\ \A b \in 0 .. MaxLength : chains.histo[b] \in 0 .. Max({MaxSymbol, Len(CodeLengthOrder)})
  /\ code_lengths \in [CodeLengthCodes -> 0 .. CodeLengthBits]
  /\ \A i \in DOMAIN small : small[i].value \in CodeLengthCodes
  /\ outcome \in {"reading", "SUCCESS", "SIMPLE_HUFFMAN_ALPHABET", "SIMPLE_HUFFMAN_SAME",
                  "CL_SPACE", "HUFFMAN_SPACE"}
  /\ codes \in 0 .. MaxCodes
  /\ outcome = "SUCCESS" <=> table # NoTable

\* The lengths read so far, from the lists and the counts.
ReadLengths ==
  LET linked == [length \in 1 .. MaxLength |-> Range(Chain(length))]
      Of(x) == {length \in 1 .. MaxLength : x \in linked[length]}
  IN  [i \in 1 .. Fields.symbol |-> IF Of(i - 1) = {} THEN 0 ELSE Max(Of(i - 1))]

ReadingLengths == Running /\ substate = "LENGTH_SYMBOLS" /\ Fields.space # NoSpace

Words(width) == 0 .. Pow2[width] - 1

\* The lengths of the symbols a table decodes.
LengthsOf(t) ==
  LET decoded == {DecodeSymbol(w, t) : w \in Words(MaxLength)}
  IN  [x \in {d.value : d \in decoded} |-> (CHOOSE d \in decoded : d.value = x).bits]

Meaning == INSTANCE PrefixCode WITH
  lengths <- IF ReadingLengths THEN ReadLengths ELSE <<>>,
  run <- IF ReadingLengths THEN Fields.repeat ELSE 0,
  code <- IF outcome = "SUCCESS" THEN LengthsOf(table)
          ELSE IF Running /\ (substate = "LENGTH_SYMBOLS" => Fields.space # NoSpace)
            THEN <<-1>> ELSE <<-2>>

\* However often the input ends, and with whichever of the two loops, the reader
\* reads the list of lengths (or of symbols) the stream gives: runs go on across
\* pauses, lists that leave room or need too much are refused, and the table it
\* builds gives every symbol the length it was given.
CodesSpec == Meaning!Spec

\* The table t decodes the code of code lengths that was read, as the canonical
\* code of these lengths; the code of a single symbol takes no bits.
SmallDecodes(t, read) ==
  LET used == {x \in CodeLengthCodes : read[x] # 0}
      given == [x \in used |-> IF Cardinality(used) = 1 THEN 0 ELSE read[x]]
      words == Meaning!WordsOf(given, CodeLengthBits)
  IN  /\ used = {t[w].value : w \in Words(CodeLengthBits)}
      /\ \A w \in Words(CodeLengthBits) :
           /\ t[w].bits = given[t[w].value]
           /\ Reversed(w, CodeLengthBits) \in words[t[w].value]

\* The code of code lengths is built from what was read of it, pauses or not: it
\* is complete or has one symbol, and its table is that of the canonical code.
SmallCodeIsAsRead ==
  [][substate = "COMPLEX" /\ substate' = "LENGTH_SYMBOLS" => SmallDecodes(small', code_lengths)]_vars

\* A table that was built decodes every input as the canonical code of its
\* lengths; and on an input that ends early the careful decoder finds the same
\* symbol when its word is there, and no symbol when it is not.
TableDecodes ==
  outcome = "SUCCESS" =>
    LET words == Meaning!WordsOf(LengthsOf(table), MaxLength)
    IN  /\ \A w \in Words(MaxLength) :
             Reversed(w, MaxLength) \in words[DecodeSymbol(w, table).value]
        /\ \A available \in 0 .. MaxLength : \A w \in Words(available) :
             LET whole == DecodeSymbol(w, table)
             IN  SafeDecodeSymbol(w, available, table)
                   = IF whole.bits <= available THEN whole ELSE Fails
=============================================================================
