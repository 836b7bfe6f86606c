---------------------------- MODULE OuterLoopProf ----------------------------
(***************************************************************************)
(* A program profiled by loops: the pass instruments it, then it runs with *)
(* the profiler's runtime, which notes when each loop began and adds up    *)
(* the time until it ends.  The program calls any of the functions its     *)
(* code calls, in any order, enters and leaves loops, and exits anywhere.  *)
(***************************************************************************)
EXTENDS OuterLoopInstr

CONSTANTS
  Main,
  MaxCalls,  \* bounds: calls on the stack,
  MaxRuns,   \* runs of a profiled loop,
  MaxTime    \* and the clock

ASSUME MainAssumption == Main \in Functions

VARIABLES
  stack,   \* of the program: functions, where they are, and whether they were called by name
  run,     \* "no", "running", "exited"
  now,     \* rdtsc
  invocations, time_elapse, begin_ts_v, begin_ts,
  again    \* history: the profiled loops that began again before they ended

profile == <<invocations, time_elapse, begin_ts_v, begin_ts>>
vars == <<instr, stack, run, now, profile, again>>

Frame(fn, direct) == [fn |-> fn, place |-> Body, direct |-> direct]

Init ==
  /\ InstrInit
  /\ stack = <<>> /\ run = "no" /\ now = 0
  /\ invocations = <<>> /\ time_elapse = <<>> /\ begin_ts_v = <<>> /\ begin_ts = 0
  /\ again = {}

\* prof_initor runs before main.
outer_prof_init ==
  /\ invocations' = [l \in Profiled |-> 0]
  /\ time_elapse' = [l \in Profiled |-> 0]
  /\ begin_ts_v' = [l \in Profiled |-> 0]
  /\ begin_ts' = 0

Start ==
  /\ Instrumented /\ run = "no"
  /\ run' = "running" /\ stack' = <<Frame(Main, TRUE)>>
  /\ outer_prof_init
  /\ UNCHANGED <<instr, now, again>>

loop_invocation(l) ==
  /\ invocations' = [invocations EXCEPT ![l] = @ + 1]
  /\ begin_ts' = now
  /\ begin_ts_v' = [begin_ts_v EXCEPT ![l] = now]
  /\ UNCHANGED time_elapse

\* Mutation: the beginning of the last loop that began.
SinceLast(l) == now - begin_ts

Since(l) == now - begin_ts_v[l]

loop_exit(l) ==
  /\ time_elapse' = [time_elapse EXCEPT ![l] = @ + Since(l)]
  /\ begin_ts' = 0
  /\ UNCHANGED <<invocations, begin_ts_v>>
-----------------------------------------------------------------------------
(* The program *)

Current == Last(stack)

Running == {<<stack[i].fn, stack[i].place>> : i \in DOMAIN stack}

At(place) == [stack EXCEPT ![Len(stack)].place = place]

CallFunction ==
  /\ Len(stack) < MaxCalls
  /\ \E c \in program.calls :
       /\ c.caller = Current.fn /\ c.place = Current.place
       /\ stack' = Append(stack, Frame(c.fn, c.direct))
  /\ UNCHANGED <<profile, again>>

\* The preheader.
EnterLoop(loop) ==
  LET l == <<Current.fn, loop>>
  IN  /\ Current.place = Body /\ stack' = At(loop)
      /\ IF l \in Profiled
           THEN /\ invocations[l] < MaxRuns
                /\ loop_invocation(l)
                /\ again' = again \cup (Running \cap {l})
           ELSE UNCHANGED <<profile, again>>

\* An exit block.
LeaveLoop ==
  LET l == <<Current.fn, Current.place>>
  IN  /\ Current.place # Body /\ stack' = At(Body)
      /\ IF l \in Profiled THEN loop_exit(l) ELSE UNCHANGED profile
      /\ UNCHANGED again

Return ==
  /\ Len(stack) > 1 /\ Current.place = Body
  /\ stack' = Front(stack)
  /\ UNCHANGED <<profile, again>>

Step ==
  /\ run = "running"
  /\ \/ CallFunction
     \/ \E loop \in Loops(Current.fn) : EnterLoop(loop)
     \/ LeaveLoop
     \/ Return
  /\ UNCHANGED <<instr, run, now>>

Tick ==
  /\ run = "running" /\ now < MaxTime
  /\ now' = now + 1
  /\ UNCHANGED <<instr, stack, run, profile, again>>

\* ProfFinish, by atexit: main returns, or something calls exit.
Exit ==
  /\ run = "running"
  /\ run' = "exited" /\ stack' = <<>>
  /\ UNCHANGED <<instr, now, profile, again>>

Next ==
  \/ Instrument /\ UNCHANGED <<stack, run, now, profile, again>>
  \/ Start \/ Step \/ Tick \/ Exit

Spec == Init /\ [][Next]_vars
-----------------------------------------------------------------------------
(* What the profile is worth *)

\* The functions at most n direct calls below a loop of f.
Below(f, n) ==
  {g \in Functions :
     \E m \in 1 .. n : \E path \in [1 .. m -> Functions] :
       /\ path[1] \in LoopCallees(f) /\ path[m] = g
       /\ \A k \in 1 .. m - 1 : path[k + 1] \in Callees(path[k])}

InProfiledLoop(i) == <<stack[i].fn, stack[i].place>> \in Profiled

ByName(i, j) == \A k \in i + 1 .. j : stack[k].direct

\* A profiled loop runs inside another one, by direct calls, only as deep as exp-depth
\* allows: the pass finds all functions called in loops, through any functions in between
\* (visitAndRemoveFnRec), whatever the order in which it walks them.
NestsWithinDepth ==
  \A i, j \in DOMAIN stack :
    (i < j /\ InProfiledLoop(i) /\ InProfiledLoop(j) /\ ByName(i, j))
      => \E f \in Functions : stack[j].fn \in Below(f, FirstDepth(f))

OnRecord == DOMAIN time_elapse \ again

Times == INSTANCE LoopTimes WITH
  start <- [l \in OnRecord \cap Running |-> begin_ts_v[l]],
  total <- [l \in OnRecord |-> time_elapse[l]]

\* The time reported of a loop is that of its runs, even when other profiled loops run
\* inside it, unless it began again before it ended (loop_invocation, loop_exit): the
\* profile refines LoopTimes.
TimesSpec == Times!Spec
=============================================================================
