------------------------ MODULE SourceExplorerProofs ------------------------
(***************************************************************************)
(* Theorems about SourceExplorer, for every list of lines, every list of   *)
(* thresholds and every time a program may take.                           *)
(***************************************************************************)
EXTENDS SourceExplorer, WellFoundedInduction, TLAPS

InRound == pc \in {"generate", "wait", "run"}

\* What is left of a round: as long as nothing was removed next_unsafe is cur_unsafe,
\* and it has every line whose run is still to come.
RoundInvariant ==
  InRound =>
    /\ sensitive /\ cur_unsafe # <<>>
    /\ pc # "run" => exp_times = <<>>
    /\ Len(next_unsafe) <= Len(cur_unsafe)
    /\ Len(next_unsafe) = Len(cur_unsafe) => next_unsafe = cur_unsafe
    /\ \A j \in Len(exp_times) + 1 .. Len(cur_unsafe) : cur_unsafe[j] \in Lines(next_unsafe)

\* The child of a line was started in this round, from which the source in its
\* directory is; an exp.exe that was just built is of that source.
Started(i) == pc = "generate" => i < idx

BuildInvariant ==
  /\ \A slot \in Slots : children[slot] = "built" => exes[slot] = sources[slot]
  /\ pc = "generate" => idx \in 1 .. Len(cur_unsafe)
  /\ InRound =>
       \A i \in 1 .. Len(cur_unsafe) : Started(i) =>
         /\ children[i] # "none"
         /\ pc = "run" => children[i] # "building"
         /\ sources[i] = Lines(cur_unsafe) \ {cur_unsafe[i]}
  /\ pc \in {"baseline", "loop"} =>
       /\ children[0] # "none"
       /\ pc = "loop" => children[0] # "building"
       /\ sources[0] = Lines(cur_unsafe)

\* An exploration that is no longer sensitive knows why.
EndInvariant ==
  /\ pc = "start" => sensitive
  /\ pc \in {"baseline", "loop"} /\ ~sensitive =>
       /\ Len(exp_times) = Len(cur_unsafe)
       /\ \A i \in 1 .. Len(cur_unsafe) : exp_times[i] >= Threshold

ExplorerInvariant == TypeOK /\ RoundInvariant /\ BuildInvariant /\ EndInvariant
-----------------------------------------------------------------------------
(* Lists and minima *)

\* A line that is in a list without repetitions is taken out of it once.
LEMMA WithoutIs ==
  ASSUME NEW list \in Seq(Nat), Distinct(list), NEW line \in Lines(list)
  PROVE  /\ Without(list, line) \in Seq(Nat)
         /\ Len(Without(list, line)) = Len(list) - 1
         /\ Lines(Without(list, line)) = Lines(list) \ {line}
         /\ Distinct(Without(list, line))
  <1> DEFINE k == CHOOSE i \in 1 .. Len(list) : list[i] = line
             n == Len(list)
             f == [i \in 1 .. n - 1 |-> IF i < k THEN list[i] ELSE list[i + 1]]
  <1>1. k \in 1 .. n /\ list[k] = line
    <2>1. \E i \in 1 .. n : list[i] = line
      BY DEF Lines
    <2>2. QED
      BY <2>1
  <1>2. n \in Nat /\ \A i \in 1 .. n : list[i] \in Nat
    OBVIOUS
  <1>3. Without(list, line) = f
    BY DEF Without
  <1> HIDE DEF k
  <1>4. \A i \in 1 .. n - 1 : f[i] \in Nat
    BY <1>1, <1>2
  <1>5. f \in Seq(Nat) /\ Len(f) = n - 1
    <2>1. n - 1 \in Nat
      BY <1>1, <1>2
    <2>2. f \in [1 .. n - 1 -> Nat]
      BY <1>4
    <2>3. QED
      BY <2>1, <2>2
  <1>6. \A i \in 1 .. n - 1 : f[i] # line
    BY <1>1, <1>2 DEF Distinct
  <1>7. \A i \in 1 .. n : i # k => \E j \in 1 .. n - 1 : f[j] = list[i]
    <2>1. SUFFICES ASSUME NEW i \in 1 .. n, i # k
                   PROVE  \E j \in 1 .. n - 1 : f[j] = list[i]
      OBVIOUS
    <2>2. CASE i < k
      <3>1. i \in 1 .. n - 1 /\ f[i] = list[i]
        BY <1>1, <1>2, <2>1, <2>2
      <3>2. QED
        BY <3>1
    <2>3. CASE i > k
      <3>1. i - 1 \in 1 .. n - 1 /\ f[i - 1] = list[i]
        BY <1>1, <1>2, <2>1, <2>3
      <3>2. QED
        BY <3>1
    <2>4. QED
      BY <1>1, <1>2, <2>1, <2>2, <2>3
  <1>8. Lines(f) = Lines(list) \ {line}
    <2>1. \A i \in 1 .. n - 1 : \E j \in 1 .. n : f[i] = list[j]
      BY <1>1, <1>2
    <2>2. Lines(f) = {f[i] : i \in 1 .. n - 1} /\ Lines(list) = {list[i] : i \in 1 .. n}
      BY <1>5 DEF Lines
    <2>3. \A i \in 1 .. n : list[i] # line => i # k
      BY <1>1
    <2> HIDE DEF f, n
    <2>4. \A x \in Lines(f) : x \in Lines(list) /\ x # line
      BY <1>6, <2>1, <2>2
    <2>5. \A x \in Lines(list) : x # line => x \in Lines(f)
      BY <1>7, <2>2, <2>3
    <2>6. QED
      BY <2>4, <2>5
  <1>9. Distinct(f)
    <2>1. SUFFICES ASSUME NEW i \in 1 .. n - 1, NEW j \in 1 .. n - 1, f[i] = f[j]
                   PROVE  i = j
      BY <1>5 DEF Distinct
    <2>2. \A a, b \in 1 .. n : list[a] = list[b] => a = b
      BY DEF Distinct
    <2>3. CASE i < k /\ j < k
      BY <1>1, <1>2, <2>1, <2>2, <2>3
    <2>4. CASE ~(i < k) /\ ~(j < k)
      BY <1>1, <1>2, <2>1, <2>2, <2>4
    <2>5. CASE i < k /\ ~(j < k)
      BY <1>1, <1>2, <2>1, <2>2, <2>5
    <2>6. CASE ~(i < k) /\ j < k
      BY <1>1, <1>2, <2>1, <2>2, <2>6
    <2>7. QED
      BY <2>3, <2>4, <2>5, <2>6
  <1>10. QED
    BY <1>3, <1>5, <1>8, <1>9

LEMMA SmallestExists ==
  ASSUME NEW T, T \subseteq Nat, T # {}
  PROVE  \E x \in T : \A y \in T : x <= y
  <1> DEFINE R == {ss \in Nat \X Nat : ss[1] < ss[2]}
  <1>1. IsWellFoundedOn(R, Nat)
    BY NatLessThanWellFounded DEF OpToRel
  <1>2. PICK x \in T : \A y \in T : ~(<<y, x>> \in R)
    BY <1>1, WFMin
  <1>3. ASSUME NEW y \in T, y < x
        PROVE  FALSE
    <2>1. <<y, x>> \in Nat \X Nat /\ <<y, x>>[1] = y /\ <<y, x>>[2] = x
      OBVIOUS
    <2>2. <<y, x>> \in R
      BY <1>3, <2>1
    <2>3. QED
      BY <1>2, <2>2
  <1>4. \A y \in T : ~(y < x)
    BY <1>3
  <1>5. QED
    BY <1>4

\* The cheapest run is one of the round, and no other took less time.
LEMMA CheapestIs ==
  ASSUME exp_times \in Seq(Nat), exp_times # <<>>
  PROVE  /\ Cheapest \in 1 .. Len(exp_times)
         /\ \A j \in 1 .. Len(exp_times) : exp_times[Cheapest] <= exp_times[j]
  <1> DEFINE n == Len(exp_times)
             times == {exp_times[i] : i \in 1 .. n}
             First(i) == \A j \in 1 .. n :
               exp_times[i] < exp_times[j] \/ (exp_times[i] = exp_times[j] /\ i <= j)
  <1>1. n \in Nat \ {0} /\ \A i \in 1 .. n : exp_times[i] \in Nat
    OBVIOUS
  <1>2. \E t \in times : \A u \in times : t <= u
    <2>1. times \subseteq Nat
      BY <1>1
    <2>2. exp_times[1] \in times
      BY <1>1
    <2>3. QED
      BY <2>1, <2>2, SmallestExists
  <1>3. PICK t \in times : \A u \in times : t <= u
    BY <1>2
  <1>4. \E i \in {i \in 1 .. n : exp_times[i] = t} :
          \A j \in {j \in 1 .. n : exp_times[j] = t} : i <= j
    <2> DEFINE T == {i \in 1 .. n : exp_times[i] = t}
    <2>1. T \subseteq Nat /\ T # {}
      BY <1>1, <1>3
    <2> HIDE DEF T
    <2>2. \E i \in T : \A j \in T : i <= j
      BY <2>1, SmallestExists
    <2>3. QED
      BY <2>2 DEF T
  <1>5. PICK i \in 1 .. n : exp_times[i] = t /\ \A j \in 1 .. n : exp_times[j] = t => i <= j
    BY <1>4
  <1>6. \A j \in 1 .. n : exp_times[j] \in times /\ t <= exp_times[j]
    BY <1>3
  <1>7. First(i)
    BY <1>1, <1>5, <1>6
  <1>8. Cheapest = CHOOSE c \in 1 .. n : First(c)
    BY DEF Cheapest
  <1>9. Cheapest \in 1 .. n /\ First(Cheapest)
    <2> HIDE DEF First
    <2>1. QED
      BY <1>7, <1>8
  <1>10. QED
    BY <1>1, <1>9
-----------------------------------------------------------------------------
(* What the invariant says of the parts of an action *)

\* A threshold is a number, and so is the time of a run that did not fail.
LEMMA TimesAre ==
  ASSUME TypeOK
  PROVE  /\ Threshold \in Nat
         /\ \A slot \in Slots : RunExp(slot) \subseteq Nat \cup {Failed}
  <1>1. Threshold \in Nat
    BY ConstantsAssumption DEF TypeOK, Threshold
  <1>2. \A slot \in Slots : exes[slot] = NoExe \/ exes[slot] \in SUBSET Lines(HotLines)
    BY DEF TypeOK
  <1>3. \A slot \in Slots : RunExp(slot) \subseteq Nat \cup {Failed}
    BY <1>2, ConstantsAssumption DEF RunExp
  <1>4. QED
    BY <1>1, <1>3

\* The lists of the driver.
Listed(list) ==
  /\ list \in Seq(Nat) /\ Distinct(list) /\ Len(list) <= Len(HotLines)
  /\ Lines(list) \subseteq Lines(HotLines)

LEMMA ListsAre ==
  ASSUME TypeOK
  PROVE  /\ Listed(cur_unsafe) /\ Listed(next_unsafe)
         /\ Len(HotLines) \in Nat
         /\ Len(cur_unsafe) \in Nat /\ Len(cur_unsafe) <= Len(HotLines)
         /\ Slots = 0 .. Len(HotLines) /\ 1 .. Len(cur_unsafe) \subseteq Slots
         /\ \A i \in 1 .. Len(cur_unsafe) : cur_unsafe[i] \in Lines(cur_unsafe)
  <1>1. Listed(cur_unsafe) /\ Listed(next_unsafe)
    BY DEF TypeOK, Listed
  <1>2. Len(HotLines) \in Nat /\ Len(cur_unsafe) \in Nat /\ Len(cur_unsafe) <= Len(HotLines)
    BY <1>1, ConstantsAssumption DEF Listed
  <1>3. Slots = 0 .. Len(HotLines) /\ 1 .. Len(cur_unsafe) \subseteq Slots
    BY <1>2 DEF Slots
  <1>4. \A i \in 1 .. Len(cur_unsafe) : cur_unsafe[i] \in Lines(cur_unsafe)
    BY DEF Lines
  <1>5. QED
    BY <1>1, <1>2, <1>3, <1>4

LEMMA WithoutIsListed ==
  ASSUME NEW list, Listed(list), NEW line \in Lines(list)
  PROVE  /\ Listed(Without(list, line))
         /\ Len(Without(list, line)) = Len(list) - 1
         /\ Lines(Without(list, line)) = Lines(list) \ {line}
  <1>1. /\ Without(list, line) \in Seq(Nat)
        /\ Len(Without(list, line)) = Len(list) - 1
        /\ Lines(Without(list, line)) = Lines(list) \ {line}
        /\ Distinct(Without(list, line))
    BY WithoutIs DEF Listed
  <1>2. Len(list) \in Nat /\ Len(list) <= Len(HotLines) /\ Len(HotLines) \in Nat
    BY ConstantsAssumption DEF Listed
  <1>3. QED
    BY <1>1, <1>2 DEF Listed

\* A round that removes nothing leaves the list as it is, and every run of it was too
\* expensive; any other leaves a shorter one.
LEMMA RemainingIs ==
  ASSUME ExplorerInvariant, pc = "run", Len(exp_times) = Len(cur_unsafe)
  PROVE  /\ Listed(Remaining)
         /\ ~(Len(Remaining) < Len(cur_unsafe)) =>
              /\ Remaining = cur_unsafe
              /\ \A i \in 1 .. Len(cur_unsafe) : exp_times[i] >= Threshold
  <1>1. Listed(cur_unsafe) /\ Listed(next_unsafe) /\ Threshold \in Nat
    BY ListsAre, TimesAre DEF ExplorerInvariant
  <1>2. /\ exp_times \in Seq(Nat) /\ exp_times # <<>>
        /\ Len(next_unsafe) <= Len(cur_unsafe)
        /\ Len(next_unsafe) = Len(cur_unsafe) => next_unsafe = cur_unsafe
    BY DEF ExplorerInvariant, TypeOK, RoundInvariant, InRound
  <1>3. /\ Cheapest \in 1 .. Len(cur_unsafe)
        /\ \A j \in 1 .. Len(cur_unsafe) : exp_times[Cheapest] <= exp_times[j]
    BY <1>2, CheapestIs
  <1>4. Len(cur_unsafe) \in Nat /\ Len(next_unsafe) \in Nat
    BY <1>1 DEF Listed
  <1>5. \A j \in 1 .. Len(cur_unsafe) : exp_times[j] \in Nat
    BY <1>2
  <1>6. CASE Len(next_unsafe) = Len(cur_unsafe) /\ exp_times[Cheapest] < Threshold
    <2>1. Remaining = Without(cur_unsafe, cur_unsafe[Cheapest])
      BY <1>2, <1>6 DEF Remaining
    <2>2. cur_unsafe[Cheapest] \in Lines(cur_unsafe)
      BY <1>3 DEF Lines
    <2>3. Listed(Remaining) /\ Len(Remaining) = Len(cur_unsafe) - 1
      BY <1>1, <2>1, <2>2, WithoutIsListed
    <2>4. QED
      BY <1>4, <2>3
  <1>7. CASE ~(Len(next_unsafe) = Len(cur_unsafe) /\ exp_times[Cheapest] < Threshold)
    <2>1. Remaining = next_unsafe
      BY <1>7 DEF Remaining
    <2>2. ASSUME ~(Len(next_unsafe) < Len(cur_unsafe))
          PROVE  /\ next_unsafe = cur_unsafe
                 /\ \A i \in 1 .. Len(cur_unsafe) : exp_times[i] >= Threshold
      <3>1. Len(next_unsafe) = Len(cur_unsafe)
        BY <1>2, <1>4, <2>2
      <3>2. ~(exp_times[Cheapest] < Threshold)
        BY <1>7, <3>1
      <3>3. QED
        BY <1>1, <1>2, <1>3, <1>5, <3>1, <3>2
    <2>3. QED
      BY <1>1, <2>1, <2>2
  <1>8. QED
    BY <1>6, <1>7

\* A build starts in one directory, and leaves the others alone.
LEMMA GenSourceExpIs ==
  ASSUME TypeOK, NEW slot \in Slots, NEW list, Listed(list), GenSourceExp(slot, list)
  PROVE  /\ children' \in [Slots -> {"none", "building", "built", "failed"}]
         /\ sources' \in [Slots -> SUBSET Lines(HotLines)]
         /\ exes' = exes
         /\ children'[slot] = "building" /\ sources'[slot] = Lines(list)
         /\ \A s \in Slots : s # slot => children'[s] = children[s] /\ sources'[s] = sources[s]
  BY DEF TypeOK, Listed, GenSourceExp
-----------------------------------------------------------------------------
(* The invariant is inductive *)

LEMMA InitHolds == Init => ExplorerInvariant
  <1>1. SUFFICES ASSUME Init PROVE ExplorerInvariant
    OBVIOUS
  <1>2. TypeOK
    <2>1. Len(Thresholds) \in Nat \ {0} /\ Len(HotLines) \in Nat
      BY ConstantsAssumption
    <2>2. Listed(HotLines)
      BY <2>1, ConstantsAssumption DEF Listed
    <2>3. <<>> \in Seq(Nat) /\ Len(<<>>) = 0 /\ 1 .. 0 = {}
      OBVIOUS
    <2>4. Listed(<<>>)
      BY <2>1, <2>3 DEF Listed, Lines, Distinct
    <2>5. /\ children \in [Slots -> {"none", "building", "built", "failed"}]
          /\ sources \in [Slots -> SUBSET Lines(HotLines)]
          /\ exes \in [Slots -> {NoExe} \cup SUBSET Lines(HotLines)]
      BY <1>1 DEF Init
    <2>6. /\ Listed(cur_unsafe) /\ Listed(next_unsafe) /\ exp_times \in Seq(Nat)
          /\ level \in 1 .. Len(Thresholds) /\ idx \in 1 .. Len(HotLines) + 1
      BY <1>1, <2>1, <2>2, <2>3, <2>4 DEF Init
    <2>7. QED
      BY <1>1, <2>5, <2>6 DEF Init, TypeOK, Listed
  <1>3. RoundInvariant /\ BuildInvariant /\ EndInvariant
    BY <1>1 DEF Init, RoundInvariant, InRound, BuildInvariant, EndInvariant
  <1>4. QED
    BY <1>2, <1>3 DEF ExplorerInvariant

LEMMA BuildKeeps ==
  ASSUME ExplorerInvariant, NEW slot \in Slots, Build(slot)
  PROVE  ExplorerInvariant'
  <1> USE DEF round, directories
  <1>1. /\ UNCHANGED <<pc, level, cur_unsafe, cur_baseline, sensitive, next_unsafe, explored,
                       idx, exp_times, sources>>
        /\ children[slot] = "building" /\ children'[slot] \in {"built", "failed"}
        /\ children' \in [Slots -> {"none", "building", "built", "failed"}]
        /\ \A s \in Slots : s # slot => children'[s] = children[s] /\ exes'[s] = exes[s]
        /\ children'[slot] = "built" => exes'[slot] = sources[slot]
        /\ exes' \in [Slots -> {NoExe} \cup SUBSET Lines(HotLines)]
    <2>1. CASE BuildSucceeds(slot)
      BY <2>1 DEF BuildSucceeds, ExplorerInvariant, TypeOK
    <2>2. CASE BuildFails(slot)
      BY <2>2 DEF BuildFails, ExplorerInvariant, TypeOK
    <2>3. QED
      BY <2>1, <2>2 DEF Build
  <1>2. TypeOK'
    BY <1>1 DEF ExplorerInvariant, TypeOK
  <1>3. RoundInvariant'
    BY <1>1 DEF ExplorerInvariant, RoundInvariant, InRound
  <1>4. BuildInvariant'
    <2>1. 0 \in Slots /\ 1 .. Len(cur_unsafe) \subseteq Slots
      BY ListsAre DEF ExplorerInvariant
    <2>2. \A s \in Slots : children'[s] = "built" => exes'[s] = sources'[s]
      BY <1>1 DEF ExplorerInvariant, BuildInvariant
    <2>3. \A s \in Slots : /\ children[s] # "none" => children'[s] # "none"
                           /\ children[s] # "building" => children'[s] # "building"
      BY <1>1
    <2>4. QED
      BY <1>1, <2>1, <2>2, <2>3
      DEF ExplorerInvariant, BuildInvariant, InRound, Started
  <1>5. EndInvariant'
    BY <1>1 DEF ExplorerInvariant, EndInvariant, Threshold
  <1>6. QED
    BY <1>2, <1>3, <1>4, <1>5 DEF ExplorerInvariant

\* The driver's actions but GenerateNext, RunNext and EndRound.
LEMMA DriverMovesOn ==
  ASSUME ExplorerInvariant,
         StartBaseline \/ MeasureBaseline \/ NoBaseline \/ NewRound \/ EndExplore \/ WaitForAll
  PROVE  ExplorerInvariant'
  <1> USE DEF round, directories
  <1>1. /\ Listed(cur_unsafe) /\ Listed(next_unsafe)
        /\ 0 \in Slots /\ 1 .. Len(cur_unsafe) \subseteq Slots
        /\ \A i \in 1 .. Len(cur_unsafe) : cur_unsafe[i] \in Lines(cur_unsafe)
        /\ Len(HotLines) \in Nat /\ Len(cur_unsafe) \in Nat
    BY ListsAre DEF ExplorerInvariant
  <1>2. CASE StartBaseline
    <2>1. /\ children' \in [Slots -> {"none", "building", "built", "failed"}]
          /\ sources' \in [Slots -> SUBSET Lines(HotLines)]
          /\ exes' = exes
          /\ children'[0] = "building" /\ sources'[0] = Lines(cur_unsafe)
          /\ \A s \in Slots : s # 0 => children'[s] = children[s] /\ sources'[s] = sources[s]
      BY <1>1, <1>2, GenSourceExpIs DEF StartBaseline, Baseline, ExplorerInvariant
    <2>2. /\ pc = "start" /\ pc' = "baseline"
          /\ UNCHANGED <<level, cur_unsafe, cur_baseline, sensitive, next_unsafe, explored,
                         idx, exp_times>>
      BY <1>2 DEF StartBaseline
    <2>3. TypeOK'
      BY <2>1, <2>2 DEF ExplorerInvariant, TypeOK
    <2>4. RoundInvariant' /\ EndInvariant'
      BY <2>2 DEF ExplorerInvariant, RoundInvariant, InRound, EndInvariant
    <2>5. BuildInvariant'
      BY <1>1, <2>1, <2>2 DEF ExplorerInvariant, BuildInvariant, InRound
    <2>6. QED
      BY <2>3, <2>4, <2>5 DEF ExplorerInvariant
  <1>3. CASE MeasureBaseline
    <2>1. /\ pc = "baseline" /\ pc' = "loop" /\ children[0] # "building"
          /\ cur_baseline' \in Nat \cup {Failed}
          /\ UNCHANGED <<level, cur_unsafe, sensitive, next_unsafe, explored, idx, exp_times,
                         children, sources, exes>>
      BY <1>1, <1>3, TimesAre DEF MeasureBaseline, Baseline, Exited, ExplorerInvariant
    <2>2. TypeOK'
      BY <2>1 DEF ExplorerInvariant, TypeOK
    <2>3. RoundInvariant' /\ EndInvariant' /\ BuildInvariant'
      BY <2>1 DEF ExplorerInvariant, RoundInvariant, InRound, EndInvariant, BuildInvariant,
                  Threshold
    <2>4. QED
      BY <2>2, <2>3 DEF ExplorerInvariant
  <1>4. CASE NoBaseline
    <2>1. /\ pc' = "crashed"
          /\ UNCHANGED <<level, cur_unsafe, cur_baseline, sensitive, next_unsafe, explored, idx,
                         exp_times, children, sources, exes>>
      BY <1>4 DEF NoBaseline
    <2>2. TypeOK'
      BY <2>1 DEF ExplorerInvariant, TypeOK
    <2>3. RoundInvariant' /\ EndInvariant' /\ BuildInvariant'
      BY <2>1 DEF ExplorerInvariant, RoundInvariant, InRound, EndInvariant, BuildInvariant
    <2>4. QED
      BY <2>2, <2>3 DEF ExplorerInvariant
  <1>5. CASE NewRound
    <2>1. /\ pc = "loop" /\ pc' = "generate" /\ sensitive /\ cur_unsafe # <<>>
          /\ next_unsafe' = cur_unsafe /\ idx' = 1 /\ exp_times' = <<>>
          /\ UNCHANGED <<level, cur_unsafe, cur_baseline, sensitive, explored, children, sources,
                         exes>>
      BY <1>5 DEF NewRound, MayGoOn
    <2>2. <<>> \in Seq(Nat) /\ Len(<<>>) = 0 /\ Len(cur_unsafe) > 0
      BY <1>1, <2>1 DEF Listed
    <2>3. TypeOK'
      BY <1>1, <2>1, <2>2 DEF ExplorerInvariant, TypeOK
    <2>4. RoundInvariant'
      BY <1>1, <2>1, <2>2 DEF ExplorerInvariant, RoundInvariant, InRound
    <2>5. BuildInvariant' /\ EndInvariant'
      BY <1>1, <2>1, <2>2 DEF ExplorerInvariant, EndInvariant, BuildInvariant, InRound, Started
    <2>6. QED
      BY <2>3, <2>4, <2>5 DEF ExplorerInvariant
  <1>6. CASE EndExplore
    <2>1. /\ pc' \in {"done", "start"}
          /\ pc' = "start" => sensitive' = TRUE
          /\ level' \in 1 .. Len(Thresholds) /\ sensitive' \in BOOLEAN /\ explored' \in BOOLEAN
          /\ UNCHANGED <<cur_unsafe, cur_baseline, next_unsafe, idx, exp_times, children, sources,
                         exes>>
      <3>1. /\ level \in 1 .. Len(Thresholds) /\ Len(Thresholds) \in Nat
            /\ sensitive \in BOOLEAN /\ explored \in BOOLEAN
        BY ConstantsAssumption DEF ExplorerInvariant, TypeOK
      <3>2. /\ UNCHANGED <<cur_unsafe, cur_baseline, next_unsafe, idx, exp_times, children, sources,
                           exes>>
            /\ \/ pc' = "done" /\ UNCHANGED <<level, sensitive, explored>>
               \/ /\ level # Len(Thresholds) /\ pc' = "start" /\ level' = level + 1
                  /\ sensitive' = TRUE /\ explored' = FALSE
        BY <1>6 DEF EndExplore
      <3>3. CASE pc' = "done" /\ UNCHANGED <<level, sensitive, explored>>
        BY <3>1, <3>2, <3>3
      <3>4. CASE /\ level # Len(Thresholds) /\ pc' = "start" /\ level' = level + 1
                 /\ sensitive' = TRUE /\ explored' = FALSE
        <4>1. level' \in 1 .. Len(Thresholds)
          BY <3>1, <3>4
        <4>2. QED
          BY <3>2, <3>4, <4>1
      <3>5. QED
        BY <3>2, <3>3, <3>4
    <2>2. TypeOK'
      BY <2>1 DEF ExplorerInvariant, TypeOK
    <2>3. RoundInvariant' /\ EndInvariant' /\ BuildInvariant'
      BY <2>1 DEF ExplorerInvariant, RoundInvariant, InRound, EndInvariant, BuildInvariant
    <2>4. QED
      BY <2>2, <2>3 DEF ExplorerInvariant
  <1>7. CASE WaitForAll
    <2>1. /\ pc = "wait" /\ pc' = "run"
          /\ \A i \in 1 .. Len(cur_unsafe) : children[i] # "building"
          /\ UNCHANGED <<level, cur_unsafe, cur_baseline, sensitive, next_unsafe, explored, idx,
                         exp_times, children, sources, exes>>
      BY <1>7 DEF WaitForAll, AllExited, Exited
    <2>2. TypeOK'
      BY <2>1 DEF ExplorerInvariant, TypeOK
    <2>3. RoundInvariant' /\ EndInvariant'
      BY <2>1 DEF ExplorerInvariant, RoundInvariant, InRound, EndInvariant
    <2>4. BuildInvariant'
      BY <2>1 DEF ExplorerInvariant, BuildInvariant, InRound, Started
    <2>5. QED
      BY <2>2, <2>3, <2>4 DEF ExplorerInvariant
  <1>8. QED
    BY <1>2, <1>3, <1>4, <1>5, <1>6, <1>7

LEMMA GenerateKeeps ==
  ASSUME ExplorerInvariant, GenerateNext
  PROVE  ExplorerInvariant'
  <1> DEFINE line == cur_unsafe[idx]
  <1>1. /\ pc = "generate" /\ idx' = idx + 1
        /\ pc' = IF idx = Len(cur_unsafe) THEN "wait" ELSE "generate"
        /\ GenSourceExp(idx, Without(cur_unsafe, line))
        /\ UNCHANGED <<level, cur_unsafe, cur_baseline, sensitive, next_unsafe, explored,
                       exp_times>>
    BY DEF GenerateNext
  <1>2. /\ Listed(cur_unsafe) /\ idx \in 1 .. Len(cur_unsafe)
        /\ Len(HotLines) \in Nat /\ Len(cur_unsafe) \in Nat /\ Len(cur_unsafe) <= Len(HotLines)
        /\ 0 \in Slots /\ 1 .. Len(cur_unsafe) \subseteq Slots
        /\ line \in Lines(cur_unsafe)
    BY <1>1, ListsAre DEF ExplorerInvariant, BuildInvariant
  <1>3. /\ Listed(Without(cur_unsafe, line))
        /\ Lines(Without(cur_unsafe, line)) = Lines(cur_unsafe) \ {line}
    BY <1>2, WithoutIsListed
  <1>4. /\ children' \in [Slots -> {"none", "building", "built", "failed"}]
        /\ sources' \in [Slots -> SUBSET Lines(HotLines)]
        /\ exes' = exes
        /\ children'[idx] = "building" /\ sources'[idx] = Lines(cur_unsafe) \ {line}
        /\ \A s \in Slots : s # idx => children'[s] = children[s] /\ sources'[s] = sources[s]
    <2>1. idx \in Slots
      BY <1>2
    <2>2. QED
      BY <1>1, <1>3, <2>1, GenSourceExpIs DEF ExplorerInvariant
  <1>5. TypeOK'
    BY <1>1, <1>2, <1>4 DEF ExplorerInvariant, TypeOK
  <1>6. RoundInvariant' /\ EndInvariant'
    BY <1>1 DEF ExplorerInvariant, RoundInvariant, InRound, EndInvariant
  <1>7. BuildInvariant'
    <2>1. \A s \in Slots : children'[s] = "built" => exes'[s] = sources'[s]
      BY <1>4 DEF ExplorerInvariant, BuildInvariant
    <2>2. pc' = "generate" => idx' \in 1 .. Len(cur_unsafe')
      BY <1>1, <1>2
    <2>3. ASSUME NEW i \in 1 .. Len(cur_unsafe), Started(i)'
          PROVE  /\ children'[i] # "none"
                 /\ sources'[i] = Lines(cur_unsafe) \ {cur_unsafe[i]}
      <3>1. i <= idx
        BY <1>1, <1>2, <2>3 DEF Started
      <3>2. CASE i = idx
        BY <1>4, <3>2
      <3>3. CASE i < idx
        BY <1>1, <1>2, <1>4, <3>3 DEF ExplorerInvariant, BuildInvariant, InRound, Started
      <3>4. QED
        BY <1>2, <3>1, <3>2, <3>3
    <2>4. pc' \in {"generate", "wait"}
      BY <1>1
    <2>5. QED
      BY <1>1, <2>1, <2>2, <2>3, <2>4 DEF BuildInvariant, InRound, Started
  <1>8. QED
    BY <1>5, <1>6, <1>7 DEF ExplorerInvariant

LEMMA RunKeeps ==
  ASSUME ExplorerInvariant, RunNext
  PROVE  ExplorerInvariant'
  <1> USE DEF directories
  <1> DEFINE i == Len(exp_times) + 1
             line == cur_unsafe[i]
  <1>1. /\ pc = "run" /\ Len(exp_times) < Len(cur_unsafe)
        /\ UNCHANGED <<level, cur_unsafe, cur_baseline, sensitive, explored, idx, children,
                       sources, exes>>
    BY DEF RunNext
  <1>2. /\ Listed(cur_unsafe) /\ Listed(next_unsafe) /\ exp_times \in Seq(Nat)
        /\ Len(exp_times) \in Nat /\ Len(cur_unsafe) \in Nat /\ Len(next_unsafe) \in Nat
        /\ 1 .. Len(cur_unsafe) \subseteq Slots
    BY ListsAre DEF ExplorerInvariant, TypeOK, Listed
  <1>3. i \in Slots /\ i \in 1 .. Len(cur_unsafe)
    BY <1>1, <1>2
  <1>4. /\ sensitive /\ cur_unsafe # <<>>
        /\ Len(next_unsafe) <= Len(cur_unsafe)
        /\ Len(next_unsafe) = Len(cur_unsafe) => next_unsafe = cur_unsafe
        /\ \A j \in i .. Len(cur_unsafe) : cur_unsafe[j] \in Lines(next_unsafe)
    BY <1>1 DEF ExplorerInvariant, RoundInvariant, InRound
  <1>5. CASE /\ pc' = "crashed" /\ UNCHANGED <<exp_times, next_unsafe>>
    <2>1. TypeOK'
      BY <1>1, <1>5 DEF ExplorerInvariant, TypeOK
    <2>2. RoundInvariant' /\ EndInvariant' /\ BuildInvariant'
      BY <1>1, <1>5 DEF ExplorerInvariant, RoundInvariant, InRound, EndInvariant, BuildInvariant
    <2>3. QED
      BY <2>1, <2>2 DEF ExplorerInvariant
  <1>6. ASSUME NEW time \in Nat, exp_times' = Append(exp_times, time), pc' = pc,
               next_unsafe' = IF Harmless(time) THEN Without(next_unsafe, line) ELSE next_unsafe
        PROVE  ExplorerInvariant'
    <2>1. exp_times' \in Seq(Nat) /\ Len(exp_times') = i
      BY <1>2, <1>6
    <2>2. line \in Lines(next_unsafe)
      BY <1>2, <1>3, <1>4
    <2>3. /\ Listed(next_unsafe')
          /\ \/ next_unsafe' = next_unsafe
             \/ /\ Len(next_unsafe') = Len(next_unsafe) - 1
                /\ Lines(next_unsafe') = Lines(next_unsafe) \ {line}
      <3>1. CASE Harmless(time)
        BY <1>2, <1>6, <2>2, <3>1, WithoutIsListed
      <3>2. CASE ~Harmless(time)
        BY <1>2, <1>6, <3>2
      <3>3. QED
        BY <3>1, <3>2
    <2>4. TypeOK'
      BY <1>1, <1>2, <1>6, <2>1, <2>3 DEF ExplorerInvariant, TypeOK, Listed
    <2>5. \A j \in i + 1 .. Len(cur_unsafe) : cur_unsafe[j] \in Lines(next_unsafe')
      <3>1. SUFFICES ASSUME NEW j \in i + 1 .. Len(cur_unsafe)
                     PROVE  cur_unsafe[j] \in Lines(next_unsafe')
        OBVIOUS
      <3>2. j \in i .. Len(cur_unsafe) /\ j \in 1 .. Len(cur_unsafe) /\ j # i
        BY <1>2, <3>1
      <3>3. cur_unsafe[j] \in Lines(next_unsafe)
        BY <1>4, <3>2
      <3>4. cur_unsafe[j] # line
        BY <1>2, <1>3, <3>2 DEF Listed, Distinct
      <3>5. QED
        BY <2>3, <3>3, <3>4
    <2>6. /\ Len(next_unsafe') <= Len(cur_unsafe)
          /\ Len(next_unsafe') = Len(cur_unsafe) => next_unsafe' = cur_unsafe
      BY <1>2, <1>4, <2>3
    <2>7. RoundInvariant'
      BY <1>1, <1>4, <1>6, <2>1, <2>5, <2>6 DEF RoundInvariant, InRound
    <2>8. BuildInvariant' /\ EndInvariant'
      BY <1>1, <1>6 DEF ExplorerInvariant, BuildInvariant, InRound, Started, EndInvariant
    <2>9. QED
      BY <2>4, <2>7, <2>8 DEF ExplorerInvariant
  <1>7. \A time \in RunExp(i) : time # Failed => time \in Nat
    BY <1>3, TimesAre DEF ExplorerInvariant
  <1>8. QED
    BY <1>5, <1>6, <1>7 DEF RunNext

LEMMA EndRoundKeeps ==
  ASSUME ExplorerInvariant, EndRound
  PROVE  ExplorerInvariant'
  <1>1. /\ pc = "run" /\ pc' = "baseline" /\ Len(exp_times) = Len(cur_unsafe)
        /\ explored' = TRUE /\ cur_unsafe' = Remaining
        /\ sensitive' = (sensitive /\ Len(Remaining) < Len(cur_unsafe))
        /\ GenSourceExp(0, Remaining)
        /\ UNCHANGED <<level, cur_baseline, next_unsafe, idx, exp_times>>
    BY DEF EndRound, StillSensitive, Baseline
  <1>2. /\ Listed(Remaining)
        /\ ~(Len(Remaining) < Len(cur_unsafe)) =>
             /\ Remaining = cur_unsafe
             /\ \A i \in 1 .. Len(cur_unsafe) : exp_times[i] >= Threshold
    BY <1>1, RemainingIs
  <1>3. /\ children' \in [Slots -> {"none", "building", "built", "failed"}]
        /\ sources' \in [Slots -> SUBSET Lines(HotLines)]
        /\ exes' = exes
        /\ children'[0] = "building" /\ sources'[0] = Lines(Remaining)
        /\ \A s \in Slots : s # 0 => children'[s] = children[s] /\ sources'[s] = sources[s]
    <2>1. 0 \in Slots
      BY ListsAre DEF ExplorerInvariant
    <2>2. QED
      BY <1>1, <1>2, <2>1, GenSourceExpIs DEF ExplorerInvariant
  <1>4. sensitive
    BY <1>1 DEF ExplorerInvariant, RoundInvariant, InRound
  <1>5. TypeOK'
    BY <1>1, <1>2, <1>3 DEF ExplorerInvariant, TypeOK, Listed
  <1>6. RoundInvariant'
    BY <1>1 DEF RoundInvariant, InRound
  <1>7. BuildInvariant'
    BY <1>1, <1>3 DEF ExplorerInvariant, BuildInvariant, InRound
  <1>8. EndInvariant'
    BY <1>1, <1>2, <1>4 DEF EndInvariant, Threshold
  <1>9. QED
    BY <1>5, <1>6, <1>7, <1>8 DEF ExplorerInvariant

LEMMA NextKeeps == ExplorerInvariant /\ [Next]_vars => ExplorerInvariant'
  <1>1. SUFFICES ASSUME ExplorerInvariant, [Next]_vars
                 PROVE  ExplorerInvariant'
    OBVIOUS
  <1>2. CASE Driver
    <2>1. CASE GenerateNext
      BY <1>1, <2>1, GenerateKeeps
    <2>2. CASE RunNext
      BY <1>1, <2>2, RunKeeps
    <2>3. CASE EndRound
      BY <1>1, <2>3, EndRoundKeeps
    <2>4. CASE \/ StartBaseline \/ MeasureBaseline \/ NoBaseline \/ NewRound
               \/ EndExplore \/ WaitForAll
      BY <1>1, <2>4, DriverMovesOn
    <2>5. QED
      BY <1>2, <2>1, <2>2, <2>3, <2>4 DEF Driver
  <1>3. CASE \E slot \in Slots : Build(slot)
    BY <1>1, <1>3, BuildKeeps
  <1>4. CASE UNCHANGED vars
    BY <1>1, <1>4 DEF ExplorerInvariant, TypeOK, RoundInvariant, BuildInvariant, EndInvariant,
                      InRound, Started, Threshold, vars, round, directories
  <1>5. QED
    BY <1>1, <1>2, <1>3, <1>4 DEF Next
-----------------------------------------------------------------------------
(* Theorems *)

\* The inductive invariant: the lists of the driver, what is left of a round, what is in
\* each directory and why an exploration ends.
THEOREM ExplorerInvariantHolds == Spec => []ExplorerInvariant
  BY InitHolds, NextKeeps, PTL DEF Spec

\* Type correctness: whatever is removed, the lists stay duplicate-free parts of hot_lines.
THEOREM ExplorerTypes == Spec => []TypeOK
  <1>1. ExplorerInvariant => TypeOK
    BY DEF ExplorerInvariant
  <1>2. QED
    BY <1>1, ExplorerInvariantHolds, PTL

\* Whatever the order in which the builds of a round end, a run measures the program of
\* its own line, or one whose build failed.
THEOREM RunsMeasureTheirBuild == Spec => []MeasuredAsBuilt
  <1>1. ExplorerInvariant => MeasuredAsBuilt
    <2>1. SUFFICES ASSUME ExplorerInvariant PROVE MeasuredAsBuilt
      OBVIOUS
    <2>2. /\ children \in [Slots -> {"none", "building", "built", "failed"}]
          /\ 0 \in Slots /\ 1 .. Len(cur_unsafe) \subseteq Slots
          /\ \A slot \in Slots : children[slot] = "built" => exes[slot] = sources[slot]
      BY <2>1, ListsAre DEF ExplorerInvariant, TypeOK, BuildInvariant
    <2>3. ASSUME pc = "run", NEW i \in 1 .. Len(cur_unsafe)
          PROVE  \/ children[i] = "failed"
                 \/ children[i] = "built" /\ exes[i] = Lines(cur_unsafe) \ {cur_unsafe[i]}
      <3>1. /\ children[i] # "none" /\ children[i] # "building"
            /\ sources[i] = Lines(cur_unsafe) \ {cur_unsafe[i]}
        BY <2>1, <2>3 DEF ExplorerInvariant, BuildInvariant, InRound, Started
      <3>2. QED
        BY <2>2, <3>1
    <2>4. ASSUME pc = "loop"
          PROVE  \/ children[0] = "failed"
                 \/ children[0] = "built" /\ exes[0] = Lines(cur_unsafe)
      BY <2>1, <2>2, <2>4 DEF ExplorerInvariant, BuildInvariant
    <2>5. QED
      BY <2>3, <2>4 DEF MeasuredAsBuilt, Baseline
  <1>2. QED
    BY <1>1, ExplorerInvariantHolds, PTL

\* An exploration that stops before it runs out of lines or of room stops where the
\* removal of any single line was measured at or above the threshold.
THEOREM EndsAreMinimal == Spec => []LocallyMinimal
  <1>1. ExplorerInvariant => LocallyMinimal
    BY DEF ExplorerInvariant, EndInvariant, LocallyMinimal
  <1>2. QED
    BY <1>1, ExplorerInvariantHolds, PTL
=============================================================================
