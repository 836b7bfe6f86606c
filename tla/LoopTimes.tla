------------------------------ MODULE LoopTimes ------------------------------
(***************************************************************************)
(* What a profile of loops promises: of every loop, the time that passed   *)
(* from the beginning to the end of each of its runs.  A loop that begins  *)
(* again before it ended is off the record, and a run that the end of the  *)
(* program cuts off counts for nothing.                                    *)
(***************************************************************************)
EXTENDS Integers, Functions

VARIABLES
  now,
  start,  \* when the run of each running loop began
  total,  \* the time spent in each loop
  run     \* "no", "running", "exited"

times == <<now, start, total, run>>

Init == now = 0 /\ start = <<>> /\ total = <<>> /\ run = "no"

Start ==
  /\ run = "no" /\ run' = "running"
  /\ total' = [l \in DOMAIN total' |-> 0]
  /\ UNCHANGED <<now, start>>

Tick == now' = now + 1 /\ UNCHANGED <<start, total, run>>

Begin(l) ==
  /\ l \notin DOMAIN start
  /\ start' = [x \in DOMAIN start \cup {l} |-> IF x = l THEN now ELSE start[x]]
  /\ UNCHANGED <<now, total, run>>

BeginAgain(l) ==
  /\ l \in DOMAIN start
  /\ start' = Restrict(start, DOMAIN start \ {l})
  /\ total' = Restrict(total, DOMAIN total \ {l})
  /\ UNCHANGED <<now, run>>

End(l) ==
  /\ l \in DOMAIN start
  /\ start' = Restrict(start, DOMAIN start \ {l})
  /\ total' = [total EXCEPT ![l] = @ + now - start[l]]
  /\ UNCHANGED <<now, run>>

Stop == run = "running" /\ run' = "exited" /\ start' = <<>> /\ UNCHANGED <<now, total>>

Next ==
  \/ Start
  \/ run = "running" /\ (Tick \/ (\E l \in DOMAIN total : Begin(l) \/ BeginAgain(l) \/ End(l)))
  \/ Stop

Spec == Init /\ [][Next]_times
=============================================================================
