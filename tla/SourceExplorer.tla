---------------------------- MODULE SourceExplorer ----------------------------
(***************************************************************************)
(* The iterative exploration of SourceCorvair.py.  It starts from the hot  *)
(* lines that use get_unchecked, and round after round gives up the ones   *)
(* whose bounds check costs next to nothing, as long as the program stays  *)
(* below a threshold; then it goes on from there with the next threshold.  *)
(*                                                                         *)
(* To measure a set of lines the driver converts the source in a directory *)
(* of its own, builds it there in a child process and runs exp.exe.  The   *)
(* children of a round build at the same time.  The directories stay, and  *)
(* are used again by the next round: a build that fails leaves the exp.exe *)
(* of an earlier one behind, and the driver looks at no exit code.         *)
(***************************************************************************)
EXTENDS Integers, Sequences

CONSTANTS
  HotLines,      \* hot_lines[:41]: the lines to start from, in order
  Thresholds,    \* 1.005, 1.01 .. 1.08 times the time of the unsafe program
  Unit,          \* times are compared up to 1 + Sensitivity / Unit
  Sensitivity,
  Time(_),       \* the times a program may take that keeps these lines unsafe
  Failed,        \* no time: the run failed
  NoExe          \* no exp.exe in a directory

Lines(list) == {list[i] : i \in 1 .. Len(list)}

Distinct(list) == \A i, j \in 1 .. Len(list) : list[i] = list[j] => i = j

\* list.remove(line)
Without(list, line) ==
  LET k == CHOOSE i \in 1 .. Len(list) : list[i] = line
  IN  [i \in 1 .. Len(list) - 1 |-> IF i < k THEN list[i] ELSE list[i + 1]]

ASSUME ConstantsAssumption ==
  /\ HotLines \in Seq(Nat)
  /\ \A unsafe \in SUBSET Lines(HotLines) : Time(unsafe) \subseteq Nat \cup {Failed}
  /\ Distinct(HotLines)
  /\ Thresholds \in Seq(Nat) /\ Thresholds # <<>>
  /\ Unit \in Nat \ {0} /\ Sensitivity \in Nat \ {0}
  /\ Failed \notin Nat

VARIABLES
  pc,           \* where the driver is
  level,        \* which threshold
  cur_unsafe,   \* the lines still unsafe
  cur_baseline, \* the time with these lines, at its last measurement
  sensitive,    \* sensitivity > 0
  next_unsafe,  \* the lines that the round has not removed
  explored,     \* round_cnt > 0: a round with this threshold is over
  idx,          \* the child to start next
  exp_times,    \* the times measured in this round
  children,     \* the build in each directory
  sources,      \* the lines left unsafe in src/lib.rs of each directory
  exes          \* the lines left unsafe in exp.exe of each directory, or none

directories == <<children, sources, exes>>
round == <<next_unsafe, explored, idx, exp_times>>
vars == <<pc, level, cur_unsafe, cur_baseline, sensitive, round, directories>>

\* exp-quick-test in baseline/, and exp-0, exp-1 .. in explore-src-quick-test/.
Baseline == 0
Slots == 0 .. Len(HotLines)

Threshold == Thresholds[level]

\* What the baseline may grow by, cur_baseline * (1 + sensitivity), is compared with
\* the threshold and with the time of a run.
HasRoom == cur_baseline * (Unit + Sensitivity) < Threshold * Unit

Harmless(time) ==
  time < Threshold /\ time * Unit < cur_baseline * (Unit + Sensitivity)

Init ==
  /\ pc = "start" /\ level = 1
  /\ cur_unsafe = HotLines /\ cur_baseline = 0 /\ sensitive = TRUE
  /\ next_unsafe = <<>> /\ explored = FALSE /\ idx = 1 /\ exp_times = <<>>
  /\ children = [slot \in Slots |-> "none"]
  /\ sources = [slot \in Slots |-> {}]
  /\ exes = [slot \in Slots |-> NoExe]
-----------------------------------------------------------------------------
(* Builds *)

\* genSourceExpNB: convert the source and start the build.
GenSourceExp(slot, list) ==
  /\ sources' = [sources EXCEPT ![slot] = Lines(list)]
  /\ children' = [children EXCEPT ![slot] = "building"]
  /\ UNCHANGED exes

\* oneGenFromSource.sh: cargo build, and the copy of what it built.
BuildSucceeds(slot) ==
  /\ children[slot] = "building"
  /\ children' = [children EXCEPT ![slot] = "built"]
  /\ exes' = [exes EXCEPT ![slot] = sources[slot]]
  /\ UNCHANGED <<pc, level, cur_unsafe, cur_baseline, sensitive, round, sources>>

\* There is nothing to copy; the exp.exe of an earlier build stays.
BuildFails(slot) ==
  /\ children[slot] = "building"
  /\ children' = [children EXCEPT ![slot] = "failed"]
  /\ UNCHANGED <<pc, level, cur_unsafe, cur_baseline, sensitive, round, sources, exes>>

Exited(slot) == children[slot] # "building"

\* runExpWithName
RunExp(slot) == IF exes[slot] = NoExe THEN {Failed} ELSE Time(exes[slot])
-----------------------------------------------------------------------------
(* The driver: iterativeExplore for one threshold after the other *)

StartBaseline ==
  /\ pc = "start" /\ pc' = "baseline"
  /\ GenSourceExp(Baseline, cur_unsafe)
  /\ UNCHANGED <<level, cur_unsafe, cur_baseline, sensitive, round>>

\* quickTestBrotli
MeasureBaseline ==
  /\ pc = "baseline" /\ Exited(Baseline)
  /\ cur_baseline' \in RunExp(Baseline)
  /\ pc' = "loop"
  /\ UNCHANGED <<level, cur_unsafe, sensitive, round, directories>>

\* What the loop asks before it looks at the baseline.
MayGoOn == cur_unsafe # <<>> /\ sensitive

\* A baseline that could not be measured is no number to compare with.
NoBaseline ==
  /\ pc = "loop" /\ MayGoOn /\ cur_baseline = Failed
  /\ pc' = "crashed"
  /\ UNCHANGED <<level, cur_unsafe, cur_baseline, sensitive, round, directories>>

\* Mutation: the times of the last round are kept.
NewRoundUncleared ==
  /\ pc = "loop" /\ MayGoOn /\ cur_baseline # Failed /\ HasRoom
  /\ next_unsafe' = cur_unsafe /\ idx' = 1 /\ UNCHANGED exp_times
  /\ pc' = "generate"
  /\ UNCHANGED <<level, cur_unsafe, cur_baseline, sensitive, explored, directories>>

NewRound ==
  /\ pc = "loop" /\ MayGoOn /\ cur_baseline # Failed /\ HasRoom
  /\ next_unsafe' = cur_unsafe /\ idx' = 1 /\ exp_times' = <<>>
  /\ pc' = "generate"
  /\ UNCHANGED <<level, cur_unsafe, cur_baseline, sensitive, explored, directories>>

\* The call returns, and the next one starts with the threshold after.
EndExplore ==
  /\ pc = "loop"
  /\ MayGoOn => cur_baseline # Failed /\ ~HasRoom
  /\ IF level = Len(Thresholds)
       THEN pc' = "done" /\ UNCHANGED <<level, sensitive, explored>>
       ELSE pc' = "start" /\ level' = level + 1 /\ sensitive' = TRUE /\ explored' = FALSE
  /\ UNCHANGED <<cur_unsafe, cur_baseline, next_unsafe, idx, exp_times, directories>>

\* quickTestBrotliGenAllRoundExp: a child for every line left, which makes it safe.
GenerateNext ==
  /\ pc = "generate"
  /\ GenSourceExp(idx, Without(cur_unsafe, cur_unsafe[idx]))
  /\ idx' = idx + 1
  /\ pc' = IF idx = Len(cur_unsafe) THEN "wait" ELSE "generate"
  /\ UNCHANGED <<level, cur_unsafe, cur_baseline, sensitive, next_unsafe, explored, exp_times>>

\* Mutation: only the child that was started last is waited for.
LastExited == Exited(Len(cur_unsafe))

AllExited == \A slot \in 1 .. Len(cur_unsafe) : Exited(slot)

WaitForAll ==
  /\ pc = "wait" /\ AllExited
  /\ pc' = "run"
  /\ UNCHANGED <<level, cur_unsafe, cur_baseline, sensitive, round, directories>>

\* quickTestExpWithName.  A line is removed if its run is harmless; a run that failed
\* ends the program at the first comparison.
RunNext ==
  /\ pc = "run" /\ Len(exp_times) < Len(cur_unsafe)
  /\ LET i == Len(exp_times) + 1
     IN  \E time \in RunExp(i) :
           IF time = Failed
             THEN pc' = "crashed" /\ UNCHANGED <<exp_times, next_unsafe>>
             ELSE /\ exp_times' = Append(exp_times, time)
                  /\ next_unsafe' = IF Harmless(time) THEN Without(next_unsafe, cur_unsafe[i])
                                    ELSE next_unsafe
                  /\ UNCHANGED pc
  /\ UNCHANGED <<level, cur_unsafe, cur_baseline, sensitive, explored, idx, directories>>

\* min_idx: the first run that took the least time.
Cheapest ==
  CHOOSE i \in 1 .. Len(exp_times) : \A j \in 1 .. Len(exp_times) :
    exp_times[i] < exp_times[j] \/ (exp_times[i] = exp_times[j] /\ i <= j)

\* Mutation: a round that found nothing harmless gives up, though one line could go.
RemainingUnforced == next_unsafe

\* What a round leaves; if nothing was harmless, the cheapest line is removed all the
\* same, provided that its run stayed below the threshold.
Remaining ==
  IF Len(next_unsafe) = Len(cur_unsafe) /\ exp_times[Cheapest] < Threshold
    THEN Without(next_unsafe, cur_unsafe[Cheapest])
    ELSE next_unsafe

\* Mutation: a round without a removal does not end the exploration.
StaysSensitive == sensitive

\* sensitivity = -1 ends the exploration.
StillSensitive == sensitive /\ Len(Remaining) < Len(cur_unsafe)

\* The baseline is measured again with what is left.
EndRound ==
  /\ pc = "run" /\ Len(exp_times) = Len(cur_unsafe)
  /\ explored' = TRUE
  /\ cur_unsafe' = Remaining /\ sensitive' = StillSensitive
  /\ GenSourceExp(Baseline, Remaining)
  /\ pc' = "baseline"
  /\ UNCHANGED <<level, cur_baseline, next_unsafe, idx, exp_times>>

Driver ==
  \/ StartBaseline \/ MeasureBaseline \/ NoBaseline \/ NewRound \/ EndExplore
  \/ GenerateNext \/ WaitForAll \/ RunNext \/ EndRound

Build(slot) == BuildSucceeds(slot) \/ BuildFails(slot)

Next == Driver \/ \E slot \in Slots : Build(slot)

\* The driver runs, and every build ends.
Fairness == WF_vars(Driver) /\ \A slot \in Slots : WF_vars(Build(slot))

Spec == Init /\ [][Next]_vars /\ Fairness
-----------------------------------------------------------------------------
(* Properties *)

\* The types of the driver's variables: its lists are duplicate-free parts of hot_lines,
\* and a round has at most as many times as lines.
TypeOK ==
  /\ pc \in {"start", "baseline", "loop", "generate", "wait", "run", "done", "crashed"}
  /\ level \in 1 .. Len(Thresholds)
  /\ \A list \in {cur_unsafe, next_unsafe} :
       /\ list \in Seq(Nat) /\ Distinct(list) /\ Len(list) <= Len(HotLines)
       /\ Lines(list) \subseteq Lines(HotLines)
  /\ cur_baseline \in Nat \cup {Failed} /\ sensitive \in BOOLEAN
  /\ explored \in BOOLEAN /\ idx \in 1 .. Len(HotLines) + 1
  /\ pc \in {"generate", "wait", "run"} => Len(exp_times) <= Len(cur_unsafe)
  /\ exp_times \in Seq(Nat)
  /\ children \in [Slots -> {"none", "building", "built", "failed"}]
  /\ sources \in [Slots -> SUBSET Lines(HotLines)]
  /\ exes \in [Slots -> {NoExe} \cup SUBSET Lines(HotLines)]

\* What is measured under the name of a set of lines is the program with these lines
\* unsafe, though all children build at once and in directories used before; unless
\* its own build failed.  It holds for the runs of a round and for the baseline.
MeasuredAsBuilt ==
  /\ pc = "run" => \A i \in 1 .. Len(cur_unsafe) :
       \/ children[i] = "failed"
       \/ children[i] = "built" /\ exes[i] = Lines(cur_unsafe) \ {cur_unsafe[i]}
  /\ pc = "loop" =>
       \/ children[Baseline] = "failed"
       \/ children[Baseline] = "built" /\ exes[Baseline] = Lines(cur_unsafe)

\* An exploration that ends though lines are left and the baseline is below the
\* threshold has just measured every one of them, and each alone was too expensive.
LocallyMinimal ==
  pc = "loop" /\ ~sensitive =>
    /\ Len(exp_times) = Len(cur_unsafe)
    /\ \A i \in 1 .. Len(cur_unsafe) : exp_times[i] >= Threshold

\* Every exploration ends, whatever the times and whichever builds and runs fail.
Termination == <>(pc \in {"done", "crashed"})

\* An exploration that was below its threshold when it began stays below it: what
\* "0.5%" and the others say of the lists that main prints (SourceCorvair.py:452).
ThresholdKept ==
  pc = "loop" /\ explored /\ cur_baseline # Failed => cur_baseline < Threshold

\* quickTestBrotli prints "binary generated" (SourceCorvair.py:264) and measures the
\* program that was generated.
BinaryGenerated ==
  pc = "loop" /\ cur_baseline # Failed => exes[Baseline] = Lines(cur_unsafe)
=============================================================================
