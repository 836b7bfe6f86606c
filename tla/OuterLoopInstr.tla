---------------------------- MODULE OuterLoopInstr ----------------------------
(***************************************************************************)
(* The pass that chooses the loops to profile: the outermost loops of      *)
(* every function that is not called from such a loop.  It walks the calls *)
(* in the loops of one function after the other, and the calls of what is  *)
(* called there, and takes the functions it comes to off the list.  A      *)
(* function less than exp-depth calls below a loop is left on the list,    *)
(* and one call more is allowed below a function named bench.  The walk    *)
(* looks at a function once, in whatever order the addresses of functions  *)
(* and their code give; a call through a pointer it does not see.          *)
(***************************************************************************)
EXTENDS Integers, Sequences, SequencesExt

CONSTANTS
  Functions,  \* those the module defines
  Bench,      \* those whose names begin with bench
  Programs,   \* the programs to profile
  Depths      \* values of exp-depth

Body == "body"

\* A program gives the outermost loops of every function, and the calls that there are:
\* who calls whom, in which loop or in the body outside of loops, by name or not.
ASSUME ProgramsAssumption ==
  /\ Bench \subseteq Functions /\ Depths \subseteq Nat
  /\ \A p \in Programs :
       /\ Body \notin UNION {p.loops[f] : f \in Functions}
       /\ \A c \in p.calls :
            /\ {c.caller, c.fn} \subseteq Functions /\ c.direct \in BOOLEAN
            /\ c.place \in p.loops[c.caller] \cup {Body}

VARIABLES
  program,
  exp_depth,
  left,         \* the functions whose loops are still to be walked
  frames,       \* the calls of visitAndRemoveFnRec: their depth, and the calls they have left
  visited_fns,
  keep_fns

instr == <<program, exp_depth, left, frames, visited_fns, keep_fns>>

Loops(f) == program.loops[f]

\* map_fn_loops
WithLoops == {f \in Functions : Loops(f) # {}}

\* getCalledFunction
Called(calls) == {c.fn : c \in {d \in calls : d.direct}}

Callees(f) == Called({c \in program.calls : c.caller = f})

LoopCallees(f) == Called({c \in program.calls : c.caller = f /\ c.place # Body})

FirstDepth(f) == IF f \in Bench THEN exp_depth + 1 ELSE exp_depth

InstrInit ==
  /\ program \in Programs /\ exp_depth \in Depths
  /\ left = WithLoops /\ keep_fns = WithLoops
  /\ frames = <<>> /\ visited_fns = {}

\* The next function of map_fn_loops, which is sorted by address.
WalkLoops(f) ==
  /\ frames = <<>> /\ f \in left
  /\ left' = left \ {f}
  /\ frames' = <<[depth |-> FirstDepth(f), calls |-> LoopCallees(f)]>>
  /\ UNCHANGED <<program, exp_depth, visited_fns, keep_fns>>

Depth == Last(frames).depth

\* Mutation: what is called by a function that stays is no deeper than it.
NoDeeper == Depth

Deeper == IF Depth = 0 THEN 0 ELSE Depth - 1

KeptAt(f) == IF Depth = 0 THEN keep_fns \ {f} ELSE keep_fns

\* visitAndRemoveFnRec
Visit(f) ==
  LET caller == [Last(frames) EXCEPT !.calls = @ \ {f}]
      callers == Append(Front(frames), caller)
  IN  /\ frames # <<>> /\ f \in Last(frames).calls
      /\ IF f \in visited_fns
           THEN frames' = callers /\ UNCHANGED <<visited_fns, keep_fns>>
           ELSE /\ visited_fns' = visited_fns \cup {f}
                /\ keep_fns' = KeptAt(f)
                /\ frames' = Append(callers, [depth |-> Deeper, calls |-> Callees(f)])
      /\ UNCHANGED <<program, exp_depth, left>>

Leave ==
  /\ frames # <<>> /\ Last(frames).calls = {}
  /\ frames' = Front(frames)
  /\ UNCHANGED <<program, exp_depth, left, visited_fns, keep_fns>>

Instrumented == left = {} /\ frames = <<>>

Instrument == Leave \/ \E f \in Functions : WalkLoops(f) \/ Visit(f)

\* The loops with calls of loop_invocation and loop_exit.
Profiled == UNION {{<<f, loop>> : loop \in Loops(f)} : f \in keep_fns}
=============================================================================
