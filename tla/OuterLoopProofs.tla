--------------------------- MODULE OuterLoopProofs ---------------------------
(***************************************************************************)
(* Theorems about the outer loop profiler, for every program, every order  *)
(* in which the pass walks it, every exp-depth, and whatever the           *)
(* instrumented program does.                                              *)
(***************************************************************************)
EXTENDS OuterLoopProf, SequenceTheorems, TLAPS

\* The calls that the walk has still to look at.
Awaited == UNION {frames[i].calls : i \in DOMAIN frames}

\* The depth of a call of visitAndRemoveFnRec that may keep a function counts the calls
\* from a loop down.
IsBelow(frame) ==
  frame.depth > 0 =>
    \E r \in Functions :
      /\ frame.depth <= FirstDepth(r)
      /\ frame.calls \subseteq Below(r, FirstDepth(r) - frame.depth + 1)

\* What the walk has come to is closed under direct calls, but for the calls it has still
\* to look at, and a function that it came to and kept is not far below a loop.
WalkInvariant ==
  /\ program \in Programs /\ exp_depth \in Nat
  /\ frames \in Seq([depth : Nat, calls : SUBSET Functions])
  /\ left \subseteq WithLoops /\ keep_fns \subseteq WithLoops /\ visited_fns \subseteq Functions
  /\ \A i \in DOMAIN frames : IsBelow(frames[i])
  /\ \A f \in visited_fns : Callees(f) \subseteq visited_fns \cup Awaited
  /\ \A f \in WithLoops \ left : LoopCallees(f) \subseteq visited_fns \cup Awaited
  /\ \A f \in visited_fns \cap keep_fns : \E r \in Functions : f \in Below(r, FirstDepth(r))

\* Where the frames of the program are.
StackInvariant ==
  /\ stack \in Seq([fn : Functions, place : {Body} \cup UNION {Loops(f) : f \in Functions},
                    direct : BOOLEAN])
  /\ run \in {"no", "running", "exited"}
  /\ run = "running" <=> stack # <<>>
  /\ run # "no" => Instrumented
  /\ \A i \in DOMAIN stack : stack[i].place \in Loops(stack[i].fn) \cup {Body}

\* Whatever is called by name from a profiled loop was found by the walk.
NestingInvariant ==
  \A i, j \in DOMAIN stack :
    i < j /\ InProfiledLoop(i) /\ ByName(i, j) => stack[j].fn \in visited_fns

\* The profile is of the profiled loops, and a loop that runs twice is off the record.
TimesInvariant ==
  /\ now \in Nat
  /\ run = "no" => time_elapse = <<>> /\ again = {}
  /\ run # "no" =>
       /\ time_elapse \in [Profiled -> Nat] /\ begin_ts_v \in [Profiled -> Nat]
       /\ \A l \in Profiled : begin_ts_v[l] <= now
  /\ \A i, j \in DOMAIN stack :
       /\ i # j /\ InProfiledLoop(i)
       /\ stack[i].fn = stack[j].fn /\ stack[i].place = stack[j].place
       => <<stack[i].fn, stack[i].place>> \in again

LoopsInvariant == WalkInvariant /\ StackInvariant /\ NestingInvariant /\ TimesInvariant
-----------------------------------------------------------------------------
(* Sequences and programs *)

LEMMA FrontIs ==
  ASSUME NEW S, NEW s \in Seq(S), s # <<>>
  PROVE  /\ Len(s) \in Nat \ {0} /\ Last(s) = s[Len(s)] /\ Last(s) \in S
         /\ Front(s) \in Seq(S) /\ Len(Front(s)) = Len(s) - 1
         /\ DOMAIN Front(s) = 1 .. Len(s) - 1
         /\ \A i \in 1 .. Len(s) - 1 : Front(s)[i] = s[i]
  <1>1. Len(s) \in Nat /\ Len(s) # 0
    BY EmptySeq
  <1>2. s[Len(s)] \in S
    BY <1>1, ElementOfSeq
  <1>3. /\ SubSeq(s, 1, Len(s) - 1) \in Seq(S) /\ Len(SubSeq(s, 1, Len(s) - 1)) = Len(s) - 1
        /\ \A i \in 1 .. Len(s) - 1 : SubSeq(s, 1, Len(s) - 1)[i] = s[i]
    <2>1. PICK n \in Nat : n = Len(s) - 1 /\ n - 1 + 1 = n
      BY <1>1
    <2>2. \A i \in 1 .. n : s[i] \in S
      BY <1>1, <2>1, ElementOfSeq
    <2>3. /\ SubSeq(s, 1, n) \in Seq(S)
          /\ Len(SubSeq(s, 1, n)) = IF 1 <= n THEN n - 1 + 1 ELSE 0
          /\ \A i \in 1 .. n - 1 + 1 : SubSeq(s, 1, n)[i] = s[1 + i - 1]
      BY <2>2, SubSeqProperties
    <2>4. Len(SubSeq(s, 1, n)) = n
      BY <2>1, <2>3
    <2>5. \A i \in 1 .. n : SubSeq(s, 1, n)[i] = s[i]
      BY <2>1, <2>3
    <2>6. QED
      BY <2>1, <2>3, <2>4, <2>5
  <1>4. DOMAIN SubSeq(s, 1, Len(s) - 1) = 1 .. Len(s) - 1
    BY <1>3, LenProperties
  <1>5. QED
    BY <1>1, <1>2, <1>3, <1>4 DEF Front, Last

LEMMA AppendIs ==
  ASSUME NEW S, NEW s \in Seq(S), NEW e \in S
  PROVE  /\ Append(s, e) \in Seq(S) /\ Append(s, e) # <<>> /\ Len(s) \in Nat
         /\ Len(Append(s, e)) = Len(s) + 1
         /\ DOMAIN Append(s, e) = 1 .. Len(s) + 1
         /\ \A i \in 1 .. Len(s) : Append(s, e)[i] = s[i]
         /\ Append(s, e)[Len(s) + 1] = e
  <1>1. /\ Append(s, e) \in Seq(S) /\ Append(s, e) # <<>> /\ Len(Append(s, e)) = Len(s) + 1
        /\ \A i \in 1 .. Len(s) : Append(s, e)[i] = s[i]
        /\ Append(s, e)[Len(s) + 1] = e
    BY AppendProperties
  <1>2. DOMAIN Append(s, e) = 1 .. Len(Append(s, e)) /\ Len(s) \in Nat
    BY <1>1, LenProperties
  <1>3. QED
    BY <1>1, <1>2

LEMMA ProgramsAre ==
  ASSUME program \in Programs
  PROVE  /\ \A f \in Functions : Body \notin Loops(f)
         /\ \A c \in program.calls :
              /\ c.caller \in Functions /\ c.fn \in Functions /\ c.direct \in BOOLEAN
              /\ c.place \in Loops(c.caller) \cup {Body}
         /\ \A f \in Functions : Callees(f) \subseteq Functions /\ LoopCallees(f) \subseteq Functions
  <1>1. /\ Body \notin UNION {program.loops[f] : f \in Functions}
        /\ \A c \in program.calls :
             /\ {c.caller, c.fn} \subseteq Functions /\ c.direct \in BOOLEAN
             /\ c.place \in program.loops[c.caller] \cup {Body}
    BY ProgramsAssumption
  <1>2. QED
    BY <1>1 DEF Loops, Callees, LoopCallees, Called

LEMMA CallsAreFound ==
  ASSUME NEW c \in program.calls, c.direct
  PROVE  /\ c.fn \in Callees(c.caller)
         /\ c.place # Body => c.fn \in LoopCallees(c.caller)
  BY DEF Callees, LoopCallees, Called

LEMMA ProfiledAre ==
  ASSUME NEW f, NEW place
  PROVE  <<f, place>> \in Profiled <=> f \in keep_fns /\ place \in Loops(f)
  BY DEF Profiled

LEMMA ProfiledPairs ==
  ASSUME NEW l \in Profiled
  PROVE  \E f \in keep_fns : \E loop \in Loops(f) : l = <<f, loop>>
  BY DEF Profiled

\* As long as nothing is walked, what it found is what it was.
LEMMA SameProgram ==
  ASSUME program' = program, exp_depth' = exp_depth
  PROVE  /\ \A f : Loops(f)' = Loops(f) /\ Callees(f)' = Callees(f)
                   /\ LoopCallees(f)' = LoopCallees(f) /\ FirstDepth(f)' = FirstDepth(f)
         /\ \A f, n : Below(f, n)' = Below(f, n)
         /\ WithLoops' = WithLoops
  <1>1. \A f : /\ Loops(f)' = Loops(f) /\ Callees(f)' = Callees(f)
               /\ LoopCallees(f)' = LoopCallees(f) /\ FirstDepth(f)' = FirstDepth(f)
    BY DEF Loops, Callees, LoopCallees, FirstDepth
  <1>2. \A f, n : Below(f, n)' = Below(f, n)
    BY <1>1 DEF Below
  <1>3. WithLoops' = WithLoops
    BY <1>1 DEF WithLoops
  <1>4. QED
    BY <1>1, <1>2, <1>3
-----------------------------------------------------------------------------
(* Functions below a loop *)

LEMMA FirstIsBelow ==
  ASSUME NEW f \in Functions, NEW g \in Functions, g \in LoopCallees(f)
  PROVE  g \in Below(f, 1)
  <1> DEFINE path == [k \in 1 .. 1 |-> g]
  <1>1. path \in [1 .. 1 -> Functions] /\ path[1] = g
    OBVIOUS
  <1>2. \A k \in 1 .. 1 - 1 : path[k + 1] \in Callees(path[k])
    OBVIOUS
  <1>3. 1 \in 1 .. 1
    OBVIOUS
  <1>4. QED
    BY <1>1, <1>2, <1>3 DEF Below

LEMMA BelowGrows ==
  ASSUME NEW f \in Functions, NEW n \in Nat, NEW m \in Nat, n <= m
  PROVE  Below(f, n) \subseteq Below(f, m)
  <1>1. 1 .. n \subseteq 1 .. m
    OBVIOUS
  <1>2. QED
    BY <1>1 DEF Below

LEMMA CalleeIsBelow ==
  ASSUME NEW f \in Functions, NEW n \in Nat, NEW g \in Below(f, n),
         NEW h \in Functions, h \in Callees(g)
  PROVE  h \in Below(f, n + 1)
  <1>1. PICK m \in 1 .. n : \E path \in [1 .. m -> Functions] :
          /\ path[1] \in LoopCallees(f) /\ path[m] = g
          /\ \A k \in 1 .. m - 1 : path[k + 1] \in Callees(path[k])
    BY DEF Below
  <1>2. PICK path \in [1 .. m -> Functions] :
          /\ path[1] \in LoopCallees(f) /\ path[m] = g
          /\ \A k \in 1 .. m - 1 : path[k + 1] \in Callees(path[k])
    BY <1>1
  <1>3. PICK q \in 1 .. n + 1 : q = m + 1
    OBVIOUS
  <1> DEFINE longer == [k \in 1 .. q |-> IF k = q THEN h ELSE path[k]]
  <1>4. longer \in [1 .. q -> Functions]
    BY <1>3
  <1>5. longer[1] = path[1] /\ longer[q] = h
    BY <1>3
  <1>6. ASSUME NEW k \in 1 .. q - 1
        PROVE  longer[k + 1] \in Callees(longer[k])
    <2>1. k \in 1 .. m /\ k # q /\ k \in 1 .. q /\ k + 1 \in 1 .. q
      BY <1>3
    <2>2. longer[k] = path[k]
      BY <2>1
    <2>3. CASE k = m
      <3>1. longer[k + 1] = h
        BY <1>3, <2>1, <2>3
      <3>2. path[k] = g
        BY <1>2, <2>3
      <3>3. QED
        BY <2>2, <3>1, <3>2
    <2>4. CASE k # m
      <3>1. k \in 1 .. m - 1 /\ k + 1 # q
        BY <1>3, <2>1, <2>4
      <3>2. longer[k + 1] = path[k + 1]
        BY <2>1, <3>1
      <3>3. path[k + 1] \in Callees(path[k])
        BY <1>2, <3>1
      <3>4. QED
        BY <2>2, <3>2, <3>3
    <2>5. QED
      BY <2>3, <2>4
  <1> HIDE DEF longer
  <1>7. longer[1] \in LoopCallees(f)
    BY <1>2, <1>5
  <1>8. QED
    BY <1>4, <1>5, <1>6, <1>7 DEF Below
-----------------------------------------------------------------------------
(* The walk *)

WalkFrame == [depth : Nat, calls : SUBSET Functions]

LEMMA WalkTypes ==
  ASSUME WalkInvariant
  PROVE  /\ \A f \in Functions : FirstDepth(f) \in Nat
         /\ WithLoops \subseteq Functions
         /\ frames \in Seq(WalkFrame)
         /\ \A i \in DOMAIN frames : frames[i] \in WalkFrame
         /\ DOMAIN frames = 1 .. Len(frames) /\ Len(frames) \in Nat
  <1>1. exp_depth \in Nat /\ frames \in Seq(WalkFrame)
    BY DEF WalkInvariant, WalkFrame
  <1>2. DOMAIN frames = 1 .. Len(frames) /\ Len(frames) \in Nat
    BY <1>1, LenProperties
  <1>3. \A i \in DOMAIN frames : frames[i] \in WalkFrame
    BY <1>1, <1>2, ElementOfSeq
  <1>4. \A f \in Functions : FirstDepth(f) \in Nat
    BY <1>1 DEF FirstDepth
  <1>5. QED
    BY <1>1, <1>2, <1>3, <1>4 DEF WithLoops

\* What a step of the walk has to show.
LEMMA WalkGoesOn ==
  ASSUME WalkInvariant, program' = program, exp_depth' = exp_depth,
         frames' \in Seq(WalkFrame),
         left' \subseteq left, keep_fns' \subseteq keep_fns, visited_fns' \subseteq Functions,
         \A i \in DOMAIN frames' : IsBelow(frames'[i]),
         \A f \in visited_fns' : Callees(f) \subseteq visited_fns' \cup Awaited',
         \A f \in WithLoops \ left' : LoopCallees(f) \subseteq visited_fns' \cup Awaited',
         \A f \in visited_fns' \cap keep_fns' :
           \E r \in Functions : f \in Below(r, FirstDepth(r))
  PROVE  WalkInvariant'
  <1>1. /\ program' \in Programs /\ exp_depth' \in Nat
        /\ left' \subseteq WithLoops /\ keep_fns' \subseteq WithLoops
    BY DEF WalkInvariant
  <1>2. /\ left' \subseteq WithLoops' /\ keep_fns' \subseteq WithLoops'
    BY <1>1, SameProgram
  <1>3. \A i \in DOMAIN frames' : IsBelow(frames[i])'
    <2> SUFFICES ASSUME NEW i \in DOMAIN frames', frames'[i].depth > 0
                 PROVE  \E r \in Functions :
                          /\ frames'[i].depth <= FirstDepth(r)'
                          /\ frames'[i].calls \subseteq
                               Below(r, FirstDepth(r) - frames[i].depth + 1)'
      BY DEF IsBelow
    <2>1. PICK r \in Functions :
            /\ frames'[i].depth <= FirstDepth(r)
            /\ frames'[i].calls \subseteq Below(r, FirstDepth(r) - frames'[i].depth + 1)
      BY DEF IsBelow
    <2>2. FirstDepth(r)' = FirstDepth(r)
      BY SameProgram
    <2>3. Below(r, FirstDepth(r) - frames[i].depth + 1)'
            = Below(r, FirstDepth(r) - frames'[i].depth + 1)
      BY <2>2, SameProgram DEF Below, LoopCallees, Callees
    <2>4. QED
      BY <2>1, <2>2, <2>3
  <1>4. \A f \in visited_fns' : Callees(f)' \subseteq visited_fns' \cup Awaited'
    BY SameProgram
  <1>5. \A f \in WithLoops' \ left' : LoopCallees(f)' \subseteq visited_fns' \cup Awaited'
    BY SameProgram
  <1>6. \A f \in visited_fns' \cap keep_fns' :
          \E r \in Functions : f \in Below(r, FirstDepth(r))'
    <2> SUFFICES ASSUME NEW f \in visited_fns' \cap keep_fns'
                 PROVE  \E r \in Functions : f \in Below(r, FirstDepth(r))'
      OBVIOUS
    <2>1. PICK r \in Functions : f \in Below(r, FirstDepth(r))
      OBVIOUS
    <2>2. Below(r, FirstDepth(r))' = Below(r, FirstDepth(r))
      BY SameProgram DEF Below, FirstDepth, LoopCallees, Callees
    <2>3. QED
      BY <2>1, <2>2
  <1>7. QED
    BY <1>1, <1>2, <1>3, <1>4, <1>5, <1>6 DEF WalkInvariant, WalkFrame

LEMMA WalkLoopsKeepsWalk ==
  ASSUME WalkInvariant, NEW f \in Functions, WalkLoops(f)
  PROVE  WalkInvariant'
  <1>1. /\ frames = <<>> /\ f \in left /\ left' = left \ {f}
        /\ frames' = <<[depth |-> FirstDepth(f), calls |-> LoopCallees(f)]>>
        /\ UNCHANGED <<program, exp_depth, visited_fns, keep_fns>>
    BY DEF WalkLoops
  <1>2. FirstDepth(f) \in Nat /\ LoopCallees(f) \subseteq Functions
    BY WalkTypes, ProgramsAre DEF WalkInvariant
  <1> DEFINE frame == [depth |-> FirstDepth(f), calls |-> LoopCallees(f)]
  <1>3. frame \in WalkFrame /\ frame.depth = FirstDepth(f) /\ frame.calls = LoopCallees(f)
    BY <1>2 DEF WalkFrame
  <1>4. frames' = <<frame>>
    BY <1>1
  <1> HIDE DEF frame
  <1>5. frames' \in Seq(WalkFrame) /\ DOMAIN frames' = {1} /\ frames'[1] = frame
    BY <1>3, <1>4
  <1>6. Awaited = {}
    <2>1. DOMAIN frames = {}
      BY <1>1
    <2>2. QED
      BY <2>1 DEF Awaited
  <1>7. Awaited' = LoopCallees(f)
    <2>1. Awaited' = UNION {frames'[i].calls : i \in {1}}
      BY <1>5 DEF Awaited
    <2>2. QED
      BY <1>3, <1>5, <2>1
  <1>8. IsBelow(frame)
    <2>1. FirstDepth(f) - FirstDepth(f) + 1 = 1
      BY <1>2
    <2>2. LoopCallees(f) \subseteq Below(f, 1)
      BY <1>2, FirstIsBelow
    <2>3. FirstDepth(f) <= FirstDepth(f)
      BY <1>2
    <2>4. QED
      BY <1>3, <2>1, <2>2, <2>3 DEF IsBelow
  <1>9. \A i \in DOMAIN frames' : IsBelow(frames'[i])
    BY <1>5, <1>8
  <1>10. \A g \in visited_fns' : Callees(g) \subseteq visited_fns' \cup Awaited'
    BY <1>1, <1>6 DEF WalkInvariant
  <1>11. \A g \in WithLoops \ left' : LoopCallees(g) \subseteq visited_fns' \cup Awaited'
    BY <1>1, <1>6, <1>7 DEF WalkInvariant
  <1>12. QED
    BY <1>1, <1>5, <1>9, <1>10, <1>11, WalkGoesOn DEF WalkInvariant

LEMMA LeaveKeepsWalk ==
  ASSUME WalkInvariant, Leave
  PROVE  WalkInvariant'
  <1>1. /\ frames # <<>> /\ Last(frames).calls = {} /\ frames' = Front(frames)
        /\ UNCHANGED <<program, exp_depth, left, visited_fns, keep_fns>>
    BY DEF Leave
  <1>2. frames \in Seq(WalkFrame) /\ DOMAIN frames = 1 .. Len(frames)
    BY WalkTypes
  <1>3. /\ Len(frames) \in Nat \ {0} /\ Last(frames) = frames[Len(frames)]
        /\ frames' \in Seq(WalkFrame)
        /\ DOMAIN frames' = 1 .. Len(frames) - 1
        /\ \A i \in 1 .. Len(frames) - 1 : frames'[i] = frames[i]
    BY <1>1, <1>2, FrontIs
  <1>4. DOMAIN frames' \subseteq DOMAIN frames
    BY <1>2, <1>3
  <1>5. \A i \in DOMAIN frames' : IsBelow(frames'[i])
    BY <1>3, <1>4 DEF WalkInvariant
  <1>6. Awaited \subseteq Awaited'
    <2> SUFFICES ASSUME NEW i \in DOMAIN frames, NEW g \in frames[i].calls
                 PROVE  \E j \in DOMAIN frames' : g \in frames'[j].calls
      BY DEF Awaited
    <2>1. i # Len(frames)
      BY <1>1, <1>3
    <2>2. i \in DOMAIN frames'
      BY <1>2, <1>3, <2>1
    <2>3. QED
      BY <1>3, <2>2
  <1>7. QED
    BY <1>1, <1>3, <1>5, <1>6, WalkGoesOn DEF WalkInvariant

LEMMA VisitKeepsWalk ==
  ASSUME WalkInvariant, NEW f \in Functions, Visit(f)
  PROVE  WalkInvariant'
  <1> DEFINE caller == [Last(frames) EXCEPT !.calls = @ \ {f}]
             callers == Append(Front(frames), caller)
             callee == [depth |-> Deeper, calls |-> Callees(f)]
  <1>1. /\ frames # <<>> /\ f \in Last(frames).calls
        /\ IF f \in visited_fns
             THEN frames' = callers /\ UNCHANGED <<visited_fns, keep_fns>>
             ELSE /\ visited_fns' = visited_fns \cup {f} /\ keep_fns' = KeptAt(f)
                  /\ frames' = Append(callers, callee)
        /\ UNCHANGED <<program, exp_depth, left>>
    BY DEF Visit
  <1>2. frames \in Seq(WalkFrame) /\ DOMAIN frames = 1 .. Len(frames)
    BY WalkTypes
  <1>3. /\ Len(frames) \in Nat \ {0} /\ Last(frames) = frames[Len(frames)]
        /\ Last(frames) \in WalkFrame
        /\ Front(frames) \in Seq(WalkFrame) /\ Len(Front(frames)) = Len(frames) - 1
        /\ \A i \in 1 .. Len(frames) - 1 : Front(frames)[i] = frames[i]
    BY <1>1, <1>2, FrontIs
  <1>4. PICK n \in Nat \ {0} : n = Len(frames)
    BY <1>3
  <1>5. /\ Depth \in Nat /\ Depth = Last(frames).depth
        /\ Last(frames).calls \subseteq Functions
    BY <1>3 DEF Depth, WalkFrame
  <1>6. /\ caller \in WalkFrame /\ caller.depth = Depth
        /\ caller.calls = Last(frames).calls \ {f}
    BY <1>3, <1>5 DEF WalkFrame
  <1>7. Deeper \in Nat /\ (Deeper > 0 => Depth > 0 /\ Deeper = Depth - 1)
    BY <1>5 DEF Deeper
  <1>8. Callees(f) \subseteq Functions
    BY ProgramsAre DEF WalkInvariant
  <1>9. callee \in WalkFrame /\ callee.depth = Deeper /\ callee.calls = Callees(f)
    BY <1>7, <1>8 DEF WalkFrame
  <1> HIDE DEF caller, callee
  <1>10. /\ callers \in Seq(WalkFrame) /\ Len(callers) = n /\ DOMAIN callers = 1 .. n
         /\ \A i \in 1 .. n - 1 : callers[i] = frames[i]
         /\ callers[n] = caller
    <2>1. /\ callers \in Seq(WalkFrame)
          /\ Len(callers) = Len(Front(frames)) + 1
          /\ DOMAIN callers = 1 .. Len(Front(frames)) + 1
          /\ \A i \in 1 .. Len(Front(frames)) : callers[i] = Front(frames)[i]
          /\ callers[Len(Front(frames)) + 1] = caller
      BY <1>3, <1>6, AppendIs
    <2>2. Len(Front(frames)) = n - 1 /\ n - 1 + 1 = n
      BY <1>3, <1>4
    <2>3. QED
      BY <1>3, <1>4, <2>1, <2>2
  <1>11. /\ Append(callers, callee) \in Seq(WalkFrame)
         /\ DOMAIN Append(callers, callee) = 1 .. n + 1
         /\ \A i \in 1 .. n : Append(callers, callee)[i] = callers[i]
         /\ Append(callers, callee)[n + 1] = callee
    BY <1>9, <1>10, AppendIs
  <1> HIDE DEF callers
  <1>12. f \in Last(frames).calls /\ IsBelow(Last(frames))
    BY <1>1, <1>2, <1>3 DEF WalkInvariant
  <1>13. \A i \in 1 .. n : IsBelow(callers[i])
    <2>1. \A i \in 1 .. n - 1 : IsBelow(callers[i])
      <3>1. \A i \in 1 .. n - 1 : i \in DOMAIN frames
        BY <1>2, <1>4
      <3>2. QED
        BY <1>10, <3>1 DEF WalkInvariant
    <2>2. IsBelow(caller)
      BY <1>5, <1>6, <1>12 DEF IsBelow
    <2>3. \A i \in 1 .. n : i = n \/ i \in 1 .. n - 1
      OBVIOUS
    <2>4. QED
      BY <1>10, <2>1, <2>2, <2>3
  <1>14. ASSUME Depth > 0
         PROVE  \E r \in Functions :
                  /\ Depth <= FirstDepth(r)
                  /\ f \in Below(r, FirstDepth(r) - Depth + 1)
    BY <1>5, <1>12, <1>14 DEF IsBelow
  <1>15. IsBelow(callee)
    <2> SUFFICES ASSUME callee.depth > 0
                 PROVE  \E r \in Functions :
                          /\ callee.depth <= FirstDepth(r)
                          /\ callee.calls \subseteq Below(r, FirstDepth(r) - callee.depth + 1)
      BY DEF IsBelow
    <2>1. Depth > 0 /\ Deeper = Depth - 1
      BY <1>7, <1>9
    <2>2. PICK r \in Functions :
            Depth <= FirstDepth(r) /\ f \in Below(r, FirstDepth(r) - Depth + 1)
      BY <1>14, <2>1
    <2>3. FirstDepth(r) \in Nat
      BY WalkTypes
    <2>4. PICK m \in Nat : m = FirstDepth(r) - Depth + 1
      BY <1>5, <2>2, <2>3
    <2>5. FirstDepth(r) - Deeper + 1 = m + 1 /\ Deeper <= FirstDepth(r)
      BY <1>5, <2>1, <2>2, <2>3, <2>4
    <2>6. Callees(f) \subseteq Below(r, m + 1)
      BY <1>8, <2>2, <2>4, CalleeIsBelow
    <2>7. QED
      BY <1>9, <2>5, <2>6
  <1>16. /\ frames' \in Seq(WalkFrame)
         /\ \A i \in DOMAIN frames' : IsBelow(frames'[i])
         /\ n \in DOMAIN frames' /\ DOMAIN frames \subseteq DOMAIN frames'
         /\ \A i \in 1 .. n : frames'[i] = callers[i]
    <2>1. CASE f \in visited_fns
      BY <1>1, <1>2, <1>4, <1>10, <1>13, <2>1
    <2>2. CASE f \notin visited_fns
      <3>1. frames' = Append(callers, callee)
        BY <1>1, <2>2
      <3>2. \A i \in 1 .. n + 1 : i = n + 1 \/ i \in 1 .. n
        OBVIOUS
      <3>3. \A i \in 1 .. n + 1 : IsBelow(Append(callers, callee)[i])
        BY <1>11, <1>13, <1>15, <3>2
      <3>4. n \in 1 .. n + 1 /\ 1 .. n \subseteq 1 .. n + 1
        OBVIOUS
      <3>5. QED
        BY <1>2, <1>4, <1>11, <3>1, <3>3, <3>4
    <2>3. QED
      BY <2>1, <2>2
  <1>17. Awaited \subseteq Awaited' \cup {f}
    <2> SUFFICES ASSUME NEW i \in DOMAIN frames, NEW g \in frames[i].calls, g # f
                 PROVE  \E j \in DOMAIN frames' : g \in frames'[j].calls
      BY DEF Awaited
    <2>1. i \in DOMAIN frames' /\ i \in 1 .. n /\ frames'[i] = callers[i]
      BY <1>2, <1>4, <1>16
    <2>2. CASE i = n
      BY <1>3, <1>4, <1>6, <1>10, <2>1, <2>2
    <2>3. CASE i # n
      <3>1. i \in 1 .. n - 1
        BY <2>1, <2>3
      <3>2. QED
        BY <1>10, <2>1, <3>1
    <2>4. QED
      BY <2>2, <2>3
  <1>18. f \in visited_fns' /\ visited_fns' = visited_fns \cup {f}
    BY <1>1
  <1>19. visited_fns \cup Awaited \subseteq visited_fns' \cup Awaited'
    BY <1>17, <1>18
  <1>20. f \notin visited_fns => Callees(f) \subseteq Awaited'
    <2> SUFFICES ASSUME f \notin visited_fns, NEW g \in Callees(f)
                 PROVE  \E j \in DOMAIN frames' : g \in frames'[j].calls
      BY DEF Awaited
    <2>1. frames' = Append(callers, callee)
      BY <1>1
    <2>2. n + 1 \in 1 .. n + 1
      OBVIOUS
    <2>3. n + 1 \in DOMAIN frames' /\ g \in frames'[n + 1].calls
      BY <1>9, <1>11, <2>1, <2>2
    <2>4. QED
      BY <2>3
  <1>21. \A g \in visited_fns' : Callees(g) \subseteq visited_fns' \cup Awaited'
    BY <1>18, <1>19, <1>20 DEF WalkInvariant
  <1>22. \A g \in WithLoops \ left' : LoopCallees(g) \subseteq visited_fns' \cup Awaited'
    BY <1>1, <1>19 DEF WalkInvariant
  <1>23. keep_fns' \subseteq keep_fns
    BY <1>1 DEF KeptAt
  <1>24. \A g \in visited_fns' \cap keep_fns' :
           \E r \in Functions : g \in Below(r, FirstDepth(r))
    <2> SUFFICES ASSUME NEW g \in visited_fns' \cap keep_fns'
                 PROVE  \E r \in Functions : g \in Below(r, FirstDepth(r))
      OBVIOUS
    <2>1. CASE g \in visited_fns
      BY <1>23, <2>1 DEF WalkInvariant
    <2>2. CASE g \notin visited_fns
      <3>1. g = f /\ f \notin visited_fns
        BY <1>18, <2>2
      <3>2. f \in KeptAt(f)
        BY <1>1, <3>1
      <3>3. Depth > 0
        BY <1>5, <3>2 DEF KeptAt
      <3>4. PICK r \in Functions :
              Depth <= FirstDepth(r) /\ f \in Below(r, FirstDepth(r) - Depth + 1)
        BY <1>14, <3>3
      <3>5. FirstDepth(r) \in Nat
        BY WalkTypes
      <3>6. PICK m \in Nat : m = FirstDepth(r) - Depth + 1 /\ m <= FirstDepth(r)
        BY <1>5, <3>3, <3>4, <3>5
      <3>7. f \in Below(r, FirstDepth(r))
        BY <3>4, <3>5, <3>6, BelowGrows
      <3>8. QED
        BY <3>1, <3>7
    <2>3. QED
      BY <2>1, <2>2
  <1>25. visited_fns' \subseteq Functions /\ left' \subseteq left
    BY <1>1, <1>18 DEF WalkInvariant
  <1>26. QED
    BY <1>1, <1>16, <1>21, <1>22, <1>23, <1>24, <1>25, WalkGoesOn

LEMMA StillKeepsWalk ==
  ASSUME WalkInvariant, UNCHANGED instr
  PROVE  WalkInvariant'
  <1>1. /\ program' = program /\ exp_depth' = exp_depth /\ frames' = frames
        /\ left' = left /\ visited_fns' = visited_fns /\ keep_fns' = keep_fns
    BY DEF instr
  <1>2. Awaited' = Awaited
    BY <1>1 DEF Awaited
  <1>3. frames' \in Seq(WalkFrame)
    BY <1>1, WalkTypes
  <1>4. QED
    BY <1>1, <1>2, <1>3, WalkGoesOn DEF WalkInvariant

LEMMA InstrumentKeepsWalk ==
  ASSUME WalkInvariant, Instrument
  PROVE  WalkInvariant'
  BY WalkLoopsKeepsWalk, VisitKeepsWalk, LeaveKeepsWalk DEF Instrument

\* What the walk found is closed under direct calls.
LEMMA WalkIsClosed ==
  ASSUME WalkInvariant, Instrumented
  PROVE  /\ \A f \in visited_fns : Callees(f) \subseteq visited_fns
         /\ \A f \in WithLoops : LoopCallees(f) \subseteq visited_fns
  <1>1. left = {} /\ DOMAIN frames = {}
    BY DEF Instrumented
  <1>2. Awaited = {}
    BY <1>1 DEF Awaited
  <1>3. QED
    BY <1>1, <1>2 DEF WalkInvariant
-----------------------------------------------------------------------------
(* The program *)

Places == {Body} \cup UNION {Loops(f) : f \in Functions}

StackFrame == [fn : Functions, place : Places, direct : BOOLEAN]

LEMMA StackTypes ==
  ASSUME StackInvariant
  PROVE  /\ stack \in Seq(StackFrame)
         /\ DOMAIN stack = 1 .. Len(stack) /\ Len(stack) \in Nat
         /\ \A i \in DOMAIN stack :
              /\ stack[i] \in StackFrame /\ stack[i].fn \in Functions
              /\ stack[i].place \in Loops(stack[i].fn) \cup {Body}
              /\ stack[i].direct \in BOOLEAN
  <1>1. stack \in Seq(StackFrame)
    BY DEF StackInvariant, StackFrame, Places
  <1>2. DOMAIN stack = 1 .. Len(stack) /\ Len(stack) \in Nat
    BY <1>1, LenProperties
  <1>3. \A i \in DOMAIN stack : stack[i] \in StackFrame
    BY <1>1, <1>2, ElementOfSeq
  <1>4. QED
    BY <1>1, <1>2, <1>3 DEF StackInvariant, StackFrame

LEMMA CurrentIs ==
  ASSUME StackInvariant, run = "running"
  PROVE  /\ Len(stack) \in Nat \ {0} /\ Len(stack) \in DOMAIN stack
         /\ Current = stack[Len(stack)]
         /\ Current.fn \in Functions /\ Current.place \in Loops(Current.fn) \cup {Body}
  <1>1. stack # <<>> /\ stack \in Seq(StackFrame)
    BY StackTypes DEF StackInvariant
  <1>2. Len(stack) \in Nat \ {0} /\ Last(stack) = stack[Len(stack)]
    BY <1>1, FrontIs
  <1>3. Len(stack) \in DOMAIN stack
    BY <1>2, StackTypes
  <1>4. QED
    BY <1>2, <1>3, StackTypes DEF Current

\* The frame of the function that runs goes to another place.
LEMMA AtIs ==
  ASSUME StackInvariant, run = "running", NEW place \in Loops(Current.fn) \cup {Body}
  PROVE  /\ At(place) \in Seq(StackFrame) /\ At(place) # <<>>
         /\ DOMAIN At(place) = DOMAIN stack
         /\ \A i \in DOMAIN stack : i # Len(stack) => At(place)[i] = stack[i]
         /\ At(place)[Len(stack)].fn = Current.fn
         /\ At(place)[Len(stack)].place = place
         /\ At(place)[Len(stack)].direct = stack[Len(stack)].direct
  <1>1. PICK n \in Nat \ {0} : n = Len(stack)
    BY CurrentIs
  <1>2. /\ stack \in Seq(StackFrame) /\ DOMAIN stack = 1 .. n
        /\ Current = stack[n] /\ stack[n] \in StackFrame /\ n \in 1 .. n
        /\ Current.fn \in Functions
    BY <1>1, StackTypes, CurrentIs
  <1> DEFINE frame == [stack[n] EXCEPT !.place = place]
  <1>3. place \in Places
    <2>1. ASSUME NEW f \in Functions
          PROVE  Loops(f) \subseteq Places
      BY DEF Places
    <2>2. Body \in Places
      BY DEF Places
    <2>3. QED
      BY <1>2, <2>1, <2>2
  <1>4. /\ frame \in StackFrame /\ frame.fn = stack[n].fn /\ frame.place = place
        /\ frame.direct = stack[n].direct
    BY <1>2, <1>3 DEF StackFrame
  <1>5. At(place) = [stack EXCEPT ![n] = frame]
    BY <1>1 DEF At
  <1> HIDE DEF frame
  <1>6. stack \in [1 .. n -> StackFrame]
    BY <1>2, StackTypes
  <1>7. At(place) \in [1 .. n -> StackFrame]
    BY <1>4, <1>5, <1>6
  <1>8. At(place) \in Seq(StackFrame)
    BY <1>7, SeqDef
  <1>9. At(place) # <<>>
    BY <1>2, <1>7
  <1>10. /\ At(place)[n] = frame
         /\ \A i \in 1 .. n : i # n => At(place)[i] = stack[i]
    BY <1>2, <1>5
  <1>11. QED
    BY <1>1, <1>2, <1>4, <1>7, <1>8, <1>9, <1>10

\* A place that is no profiled loop.
LEMMA BodyIsNotProfiled ==
  ASSUME WalkInvariant, NEW f \in Functions
  PROVE  <<f, Body>> \notin Profiled
  BY ProfiledAre, ProgramsAre DEF WalkInvariant

LEMMA SameLoops ==
  ASSUME UNCHANGED instr
  PROVE  /\ Profiled' = Profiled /\ (Instrumented' <=> Instrumented) /\ Places' = Places
         /\ \A f : Loops(f)' = Loops(f)
         /\ visited_fns' = visited_fns
  <1>1. /\ program' = program /\ keep_fns' = keep_fns /\ left' = left /\ frames' = frames
        /\ visited_fns' = visited_fns
    BY DEF instr
  <1>2. \A f : Loops(f)' = Loops(f)
    BY <1>1 DEF Loops
  <1>3. QED
    BY <1>1, <1>2 DEF Profiled, Places, Instrumented

\* What a step of the program has to show of the stack.
LEMMA StackGoesOn ==
  ASSUME WalkInvariant, StackInvariant, run = "running", UNCHANGED <<instr, run>>,
         stack' \in Seq(StackFrame), stack' # <<>>,
         \A i \in DOMAIN stack' : stack'[i].place \in Loops(stack'[i].fn) \cup {Body}
  PROVE  StackInvariant'
  <1>1. stack' \in Seq([fn : Functions, place : Places', direct : BOOLEAN])
    BY SameLoops DEF StackFrame
  <1>2. run' = "running" /\ run' # "no" /\ Instrumented'
    BY SameLoops DEF StackInvariant
  <1>3. \A i \in DOMAIN stack' : stack'[i].place \in Loops(stack[i].fn)' \cup {Body}
    BY SameLoops DEF Loops
  <1>4. QED
    BY <1>1, <1>2, <1>3 DEF StackInvariant, Places

\* What it has to show of the times.
LEMMA TimesGoOn ==
  ASSUME run = "running", UNCHANGED <<instr, run>>, now' \in Nat,
         time_elapse' \in [Profiled -> Nat], begin_ts_v' \in [Profiled -> Nat],
         \A l \in Profiled : begin_ts_v'[l] <= now',
         \A i, j \in DOMAIN stack' :
           /\ i # j /\ <<stack'[i].fn, stack'[i].place>> \in Profiled
           /\ stack'[i].fn = stack'[j].fn /\ stack'[i].place = stack'[j].place
           => <<stack'[i].fn, stack'[i].place>> \in again'
  PROVE  TimesInvariant'
  <1>1. Profiled' = Profiled /\ run' # "no"
    BY SameLoops
  <1>2. QED
    BY <1>1 DEF TimesInvariant, InProfiledLoop

\* Frames that stay where they are, and functions that stay, keep what was found.
LEMMA NestingStays ==
  ASSUME StackInvariant, NestingInvariant, UNCHANGED instr,
         NEW m \in Nat, DOMAIN stack' = 1 .. m, 1 .. m \subseteq DOMAIN stack,
         \A i \in 1 .. m : /\ stack'[i].fn = stack[i].fn
                           /\ stack'[i].direct = stack[i].direct
                           /\ i < m => stack'[i] = stack[i]
  PROVE  NestingInvariant'
  <1> SUFFICES ASSUME NEW i \in 1 .. m, NEW j \in 1 .. m, i < j,
                      InProfiledLoop(i)', ByName(i, j)'
               PROVE  stack'[j].fn \in visited_fns'
    BY DEF NestingInvariant
  <1>1. Profiled' = Profiled /\ visited_fns' = visited_fns
    BY SameLoops
  <1>2. i < m /\ i \in DOMAIN stack /\ j \in DOMAIN stack
    OBVIOUS
  <1>3. stack'[i] = stack[i] /\ stack'[j].fn = stack[j].fn
    BY <1>2
  <1>4. InProfiledLoop(i)
    BY <1>1, <1>3 DEF InProfiledLoop
  <1>5. ByName(i, j)
    <2>1. \A k \in i + 1 .. j : k \in 1 .. m
      OBVIOUS
    <2>2. QED
      BY <2>1 DEF ByName
  <1>6. QED
    BY <1>1, <1>2, <1>3, <1>4, <1>5 DEF NestingInvariant

ProgramInvariant == StackInvariant /\ NestingInvariant /\ TimesInvariant

LEMMA CallKeeps ==
  ASSUME LoopsInvariant, run = "running", UNCHANGED <<instr, run, now>>, CallFunction
  PROVE  ProgramInvariant'
  <1>1. WalkInvariant /\ StackInvariant /\ NestingInvariant /\ TimesInvariant /\ UNCHANGED instr
    BY DEF LoopsInvariant
  <1>2. PICK c \in program.calls :
          /\ c.caller = Current.fn /\ c.place = Current.place
          /\ stack' = Append(stack, Frame(c.fn, c.direct))
    BY DEF CallFunction
  <1>3. UNCHANGED <<time_elapse, begin_ts_v, again>>
    BY DEF CallFunction, profile
  <1>4. PICK n \in Nat \ {0} : n = Len(stack)
    BY <1>1, CurrentIs
  <1> DEFINE frame == Frame(c.fn, c.direct)
  <1>5. /\ frame \in StackFrame /\ frame.fn = c.fn /\ frame.place = Body
        /\ frame.direct = c.direct /\ c.fn \in Functions
    BY <1>1, ProgramsAre DEF Frame, StackFrame, Places, WalkInvariant
  <1>6. stack' = Append(stack, frame)
    BY <1>2
  <1> HIDE DEF frame
  <1>7. stack \in Seq(StackFrame) /\ DOMAIN stack = 1 .. n
    BY <1>1, <1>4, StackTypes
  <1>8. /\ stack' \in Seq(StackFrame) /\ stack' # <<>> /\ DOMAIN stack' = 1 .. n + 1
        /\ \A i \in 1 .. n : stack'[i] = stack[i]
        /\ stack'[n + 1] = frame
    BY <1>4, <1>5, <1>6, <1>7, AppendIs
  <1>9. \A i \in 1 .. n + 1 : i = n + 1 \/ i \in 1 .. n
    OBVIOUS
  <1>10. StackInvariant'
    <2>1. \A i \in 1 .. n + 1 : stack'[i].place \in Loops(stack'[i].fn) \cup {Body}
      BY <1>1, <1>5, <1>7, <1>8, <1>9 DEF StackInvariant
    <2>2. QED
      BY <1>1, <1>8, <2>1, StackGoesOn
  <1>11. NestingInvariant'
    <2> SUFFICES ASSUME NEW i \in 1 .. n + 1, NEW j \in 1 .. n + 1, i < j,
                        InProfiledLoop(i)', ByName(i, j)'
                 PROVE  stack'[j].fn \in visited_fns
      BY <1>8, SameLoops DEF NestingInvariant
    <2>1. i \in 1 .. n /\ stack'[i] = stack[i]
      BY <1>8
    <2>2. InProfiledLoop(i)
      BY <1>1, <2>1, SameLoops DEF InProfiledLoop
    <2>3. ASSUME NEW k \in 1 .. n, i < k, k <= j
          PROVE  stack[k].fn \in visited_fns
      <3>1. \A h \in i + 1 .. k : h \in 1 .. n /\ h \in i + 1 .. j
        BY <2>3
      <3>2. ByName(i, k)
        BY <1>8, <3>1 DEF ByName
      <3>3. QED
        BY <1>1, <1>7, <2>1, <2>2, <2>3, <3>2 DEF NestingInvariant
    <2>4. CASE j \in 1 .. n
      <3>1. j <= j
        BY <2>4
      <3>2. QED
        BY <1>8, <2>3, <2>4, <3>1
    <2>5. CASE j = n + 1
      <3>1. stack'[j].fn = c.fn /\ c.direct
        <4>1. n + 1 \in i + 1 .. j
          BY <2>1, <2>5
        <4>2. stack'[n + 1].direct
          BY <4>1 DEF ByName
        <4>3. QED
          BY <1>5, <1>8, <2>5, <4>2
      <3>2. /\ \A f \in visited_fns : Callees(f) \subseteq visited_fns
            /\ \A f \in WithLoops : LoopCallees(f) \subseteq visited_fns
        BY <1>1, WalkIsClosed DEF StackInvariant
      <3>3. Current = stack[n] /\ Current.fn \in Functions
        BY <1>1, <1>4, CurrentIs
      <3>4. CASE i = n
        <4>1. Current.fn \in keep_fns /\ Current.place \in Loops(Current.fn)
          BY <2>2, <3>3, <3>4, ProfiledAre DEF InProfiledLoop
        <4>2. Current.fn \in WithLoops /\ Current.place # Body
          BY <1>1, <3>3, <4>1, ProgramsAre DEF WalkInvariant
        <4>3. c.fn \in LoopCallees(Current.fn)
          BY <1>2, <3>1, <4>2, CallsAreFound
        <4>4. QED
          BY <3>1, <3>2, <4>2, <4>3
      <3>5. CASE i # n
        <4>1. i < n /\ n \in 1 .. n /\ n <= j
          BY <2>1, <2>5, <3>5
        <4>2. Current.fn \in visited_fns
          BY <2>3, <3>3, <4>1
        <4>3. c.fn \in Callees(Current.fn)
          BY <1>2, <3>1, CallsAreFound
        <4>4. QED
          BY <3>1, <3>2, <4>2, <4>3
      <3>6. QED
        BY <3>4, <3>5
    <2>6. QED
      BY <1>9, <2>4, <2>5
  <1>12. TimesInvariant'
    <2>1. /\ now' \in Nat /\ time_elapse' \in [Profiled -> Nat] /\ begin_ts_v' \in [Profiled -> Nat]
          /\ \A l \in Profiled : begin_ts_v'[l] <= now'
      BY <1>1, <1>3 DEF TimesInvariant
    <2>2. ASSUME NEW i \in 1 .. n + 1, NEW j \in 1 .. n + 1,
                 i # j, <<stack'[i].fn, stack'[i].place>> \in Profiled,
                 stack'[i].fn = stack'[j].fn, stack'[i].place = stack'[j].place
          PROVE  <<stack'[i].fn, stack'[i].place>> \in again'
      <3>1. <<stack'[n + 1].fn, stack'[n + 1].place>> \notin Profiled
        BY <1>1, <1>5, <1>8, BodyIsNotProfiled
      <3>2. i # n + 1 /\ j # n + 1
        BY <2>2, <3>1
      <3>3. i \in 1 .. n /\ j \in 1 .. n
        BY <1>9, <3>2
      <3>4. QED
        BY <1>1, <1>3, <1>7, <1>8, <2>2, <3>3 DEF TimesInvariant, InProfiledLoop
    <2>3. QED
      BY <1>1, <1>8, <2>1, <2>2, TimesGoOn
  <1>13. QED
    BY <1>10, <1>11, <1>12 DEF ProgramInvariant

LEMMA ReturnKeeps ==
  ASSUME LoopsInvariant, run = "running", UNCHANGED <<instr, run, now>>, Return
  PROVE  ProgramInvariant'
  <1>1. WalkInvariant /\ StackInvariant /\ NestingInvariant /\ TimesInvariant /\ UNCHANGED instr
    BY DEF LoopsInvariant
  <1>2. Len(stack) > 1 /\ stack' = Front(stack) /\ UNCHANGED <<time_elapse, begin_ts_v, again>>
    BY DEF Return, profile
  <1>3. PICK m \in Nat \ {0} : Len(stack) = m + 1
    <2>1. PICK n \in Nat \ {0} : n = Len(stack)
      BY <1>1, CurrentIs
    <2>2. n - 1 \in Nat \ {0} /\ n = n - 1 + 1
      BY <1>2, <2>1
    <2>3. QED
      BY <2>1, <2>2
  <1>4. stack \in Seq(StackFrame) /\ stack # <<>> /\ DOMAIN stack = 1 .. m + 1
    BY <1>1, <1>3, StackTypes DEF StackInvariant
  <1>5. /\ stack' \in Seq(StackFrame) /\ DOMAIN stack' = 1 .. m
        /\ \A i \in 1 .. m : stack'[i] = stack[i]
    <2>1. Len(stack) - 1 = m
      BY <1>3
    <2>2. QED
      BY <1>2, <1>4, <2>1, FrontIs
  <1>6. 1 .. m \subseteq DOMAIN stack
    BY <1>4
  <1>7. stack' # <<>>
    <2>1. 1 \in DOMAIN stack'
      BY <1>5
    <2>2. QED
      BY <2>1
  <1>8. StackInvariant'
    <2>1. \A i \in DOMAIN stack' : stack'[i].place \in Loops(stack'[i].fn) \cup {Body}
      BY <1>1, <1>5, <1>6 DEF StackInvariant
    <2>2. QED
      BY <1>1, <1>5, <1>7, <2>1, StackGoesOn
  <1>9. NestingInvariant'
    BY <1>1, <1>5, <1>6, NestingStays
  <1>10. TimesInvariant'
    <2>1. /\ now' \in Nat /\ time_elapse' \in [Profiled -> Nat] /\ begin_ts_v' \in [Profiled -> Nat]
          /\ \A l \in Profiled : begin_ts_v'[l] <= now'
      BY <1>1, <1>2 DEF TimesInvariant
    <2>2. ASSUME NEW i \in 1 .. m, NEW j \in 1 .. m,
                 i # j, <<stack'[i].fn, stack'[i].place>> \in Profiled,
                 stack'[i].fn = stack'[j].fn, stack'[i].place = stack'[j].place
          PROVE  <<stack'[i].fn, stack'[i].place>> \in again'
      <3>1. i \in DOMAIN stack /\ j \in DOMAIN stack /\ stack'[i] = stack[i] /\ stack'[j] = stack[j]
        BY <1>5, <1>6
      <3>2. QED
        BY <1>1, <1>2, <2>2, <3>1 DEF TimesInvariant, InProfiledLoop
    <2>3. QED
      BY <1>1, <1>5, <2>1, <2>2, TimesGoOn
  <1>11. QED
    BY <1>8, <1>9, <1>10 DEF ProgramInvariant

LEMMA EnterKeeps ==
  ASSUME LoopsInvariant, run = "running", UNCHANGED <<instr, run, now>>,
         NEW loop \in Loops(Current.fn), EnterLoop(loop)
  PROVE  ProgramInvariant'
  <1>1. WalkInvariant /\ StackInvariant /\ NestingInvariant /\ TimesInvariant /\ UNCHANGED instr
    BY DEF LoopsInvariant
  <1> DEFINE l == <<Current.fn, loop>>
  <1>2. /\ stack' = At(loop)
        /\ UNCHANGED time_elapse
        /\ l \in Profiled => /\ begin_ts_v' = [begin_ts_v EXCEPT ![l] = now]
                             /\ again' = again \cup (Running \cap {l})
        /\ l \notin Profiled => UNCHANGED <<begin_ts_v, again>>
    BY DEF EnterLoop, loop_invocation, profile
  <1>3. PICK n \in Nat \ {0} : n = Len(stack)
    BY <1>1, CurrentIs
  <1>4. DOMAIN stack = 1 .. n /\ n \in 1 .. n /\ Current = stack[n]
    BY <1>1, <1>3, StackTypes, CurrentIs
  <1>5. /\ stack' \in Seq(StackFrame) /\ stack' # <<>> /\ DOMAIN stack' = 1 .. n
        /\ \A i \in 1 .. n : i # n => stack'[i] = stack[i]
        /\ stack'[n].fn = Current.fn /\ stack'[n].place = loop
        /\ stack'[n].direct = stack[n].direct
    BY <1>1, <1>2, <1>3, <1>4, AtIs
  <1> HIDE DEF l
  <1>6. StackInvariant'
    <2>1. \A i \in DOMAIN stack' : stack'[i].place \in Loops(stack'[i].fn) \cup {Body}
      BY <1>1, <1>4, <1>5 DEF StackInvariant
    <2>2. QED
      BY <1>1, <1>5, <2>1, StackGoesOn
  <1>7. NestingInvariant'
    <2>1. \A i \in 1 .. n : /\ stack'[i].fn = stack[i].fn
                            /\ stack'[i].direct = stack[i].direct
                            /\ i < n => stack'[i] = stack[i]
      BY <1>4, <1>5
    <2>2. 1 .. n \subseteq DOMAIN stack
      BY <1>4
    <2>3. QED
      BY <1>1, <1>5, <2>1, <2>2, NestingStays
  <1>8. TimesInvariant'
    <2>1. /\ now \in Nat /\ time_elapse \in [Profiled -> Nat] /\ begin_ts_v \in [Profiled -> Nat]
          /\ \A x \in Profiled : begin_ts_v[x] <= now
      BY <1>1 DEF TimesInvariant
    <2>2. begin_ts_v' \in [Profiled -> Nat] /\ \A x \in Profiled : begin_ts_v'[x] <= now
      <3>1. CASE l \in Profiled
        BY <1>2, <2>1, <3>1
      <3>2. CASE l \notin Profiled
        BY <1>2, <2>1, <3>2
      <3>3. QED
        BY <3>1, <3>2
    <2>3. again \subseteq again'
      BY <1>2
    <2>4. ASSUME NEW k \in 1 .. n, k # n, stack[k].fn = Current.fn, stack[k].place = loop,
                 l \in Profiled
          PROVE  l \in again'
      <3>1. l \in Running
        BY <1>4, <2>4 DEF Running, l
      <3>2. QED
        BY <1>2, <2>4, <3>1
    <2>5. ASSUME NEW i \in 1 .. n, NEW j \in 1 .. n,
                 i # j, <<stack'[i].fn, stack'[i].place>> \in Profiled,
                 stack'[i].fn = stack'[j].fn, stack'[i].place = stack'[j].place
          PROVE  <<stack'[i].fn, stack'[i].place>> \in again'
      <3>1. CASE i = n
        BY <1>5, <2>4, <2>5, <3>1 DEF l
      <3>2. CASE j = n
        BY <1>5, <2>4, <2>5, <3>2 DEF l
      <3>3. CASE i # n /\ j # n
        BY <1>1, <1>4, <1>5, <2>3, <2>5, <3>3 DEF TimesInvariant, InProfiledLoop
      <3>4. QED
        BY <3>1, <3>2, <3>3
    <2>6. QED
      BY <1>1, <1>2, <1>5, <2>1, <2>2, <2>5, TimesGoOn
  <1>9. QED
    BY <1>6, <1>7, <1>8 DEF ProgramInvariant

LEMMA LeaveLoopKeeps ==
  ASSUME LoopsInvariant, run = "running", UNCHANGED <<instr, run, now>>, LeaveLoop
  PROVE  ProgramInvariant'
  <1>1. WalkInvariant /\ StackInvariant /\ NestingInvariant /\ TimesInvariant /\ UNCHANGED instr
    BY DEF LoopsInvariant
  <1> DEFINE l == <<Current.fn, Current.place>>
  <1>2. /\ stack' = At(Body)
        /\ UNCHANGED <<begin_ts_v, again>>
        /\ l \in Profiled => time_elapse' = [time_elapse EXCEPT ![l] = @ + Since(l)]
        /\ l \notin Profiled => UNCHANGED time_elapse
    BY DEF LeaveLoop, loop_exit, profile
  <1>3. PICK n \in Nat \ {0} : n = Len(stack)
    BY <1>1, CurrentIs
  <1>4. /\ DOMAIN stack = 1 .. n /\ n \in 1 .. n /\ Current = stack[n]
        /\ Current.fn \in Functions
    BY <1>1, <1>3, StackTypes, CurrentIs
  <1>5. /\ stack' \in Seq(StackFrame) /\ stack' # <<>> /\ DOMAIN stack' = 1 .. n
        /\ \A i \in 1 .. n : i # n => stack'[i] = stack[i]
        /\ stack'[n].fn = Current.fn /\ stack'[n].place = Body
        /\ stack'[n].direct = stack[n].direct
    BY <1>1, <1>2, <1>3, <1>4, AtIs
  <1> HIDE DEF l
  <1>6. StackInvariant'
    <2>1. \A i \in DOMAIN stack' : stack'[i].place \in Loops(stack'[i].fn) \cup {Body}
      BY <1>1, <1>4, <1>5 DEF StackInvariant
    <2>2. QED
      BY <1>1, <1>5, <2>1, StackGoesOn
  <1>7. NestingInvariant'
    <2>1. \A i \in 1 .. n : /\ stack'[i].fn = stack[i].fn
                            /\ stack'[i].direct = stack[i].direct
                            /\ i < n => stack'[i] = stack[i]
      BY <1>4, <1>5
    <2>2. 1 .. n \subseteq DOMAIN stack
      BY <1>4
    <2>3. QED
      BY <1>1, <1>5, <2>1, <2>2, NestingStays
  <1>8. TimesInvariant'
    <2>1. /\ now \in Nat /\ time_elapse \in [Profiled -> Nat] /\ begin_ts_v \in [Profiled -> Nat]
          /\ \A x \in Profiled : begin_ts_v[x] <= now
      BY <1>1 DEF TimesInvariant
    <2>2. time_elapse' \in [Profiled -> Nat]
      <3>1. CASE l \in Profiled
        <4>1. begin_ts_v[l] \in Nat /\ begin_ts_v[l] <= now /\ time_elapse[l] \in Nat
          BY <2>1, <3>1
        <4>2. time_elapse[l] + Since(l) \in Nat
          BY <2>1, <4>1 DEF Since
        <4>3. time_elapse' = [time_elapse EXCEPT ![l] = time_elapse[l] + Since(l)]
          BY <1>2, <3>1
        <4>4. QED
          BY <2>1, <4>2, <4>3
      <3>2. CASE l \notin Profiled
        BY <1>2, <2>1, <3>2
      <3>3. QED
        BY <3>1, <3>2
    <2>3. ASSUME NEW i \in 1 .. n, NEW j \in 1 .. n,
                 i # j, <<stack'[i].fn, stack'[i].place>> \in Profiled,
                 stack'[i].fn = stack'[j].fn, stack'[i].place = stack'[j].place
          PROVE  <<stack'[i].fn, stack'[i].place>> \in again'
      <3>1. <<stack'[n].fn, stack'[n].place>> \notin Profiled
        BY <1>1, <1>4, <1>5, BodyIsNotProfiled
      <3>2. i # n /\ j # n
        BY <2>3, <3>1
      <3>3. QED
        BY <1>1, <1>2, <1>4, <1>5, <2>3, <3>2 DEF TimesInvariant, InProfiledLoop
    <2>4. QED
      BY <1>1, <1>2, <1>5, <2>1, <2>2, <2>3, TimesGoOn
  <1>9. QED
    BY <1>6, <1>7, <1>8 DEF ProgramInvariant

LEMMA StepKeeps ==
  ASSUME LoopsInvariant, Step
  PROVE  ProgramInvariant'
  <1>1. run = "running" /\ UNCHANGED <<instr, run, now>>
    BY DEF Step
  <1>2. CASE CallFunction
    BY <1>1, <1>2, CallKeeps
  <1>3. CASE \E loop \in Loops(Current.fn) : EnterLoop(loop)
    BY <1>1, <1>3, EnterKeeps
  <1>4. CASE LeaveLoop
    BY <1>1, <1>4, LeaveLoopKeeps
  <1>5. CASE Return
    BY <1>1, <1>5, ReturnKeeps
  <1>6. QED
    BY <1>2, <1>3, <1>4, <1>5 DEF Step

\* A stack without frames.
LEMMA NoFrames ==
  ASSUME stack' = <<>>
  PROVE  /\ NestingInvariant'
         /\ \A i, j \in DOMAIN stack' : i # j => FALSE
         /\ stack' \in Seq([fn : Functions, place : Places', direct : BOOLEAN])
         /\ \A i \in DOMAIN stack' : stack'[i].place \in Loops(stack[i].fn)' \cup {Body}
  <1>1. DOMAIN stack' = {}
    OBVIOUS
  <1>2. stack' \in Seq([fn : Functions, place : Places', direct : BOOLEAN])
    OBVIOUS
  <1>3. QED
    BY <1>1, <1>2 DEF NestingInvariant

LEMMA StartKeeps ==
  ASSUME LoopsInvariant, Start
  PROVE  ProgramInvariant'
  <1>1. WalkInvariant /\ StackInvariant /\ TimesInvariant
    BY DEF LoopsInvariant
  <1>2. /\ Instrumented /\ run' = "running" /\ UNCHANGED <<instr, now, again>>
        /\ stack' = <<Frame(Main, TRUE)>>
        /\ time_elapse' = [x \in Profiled |-> 0] /\ begin_ts_v' = [x \in Profiled |-> 0]
    BY DEF Start, outer_prof_init
  <1> DEFINE frame == Frame(Main, TRUE)
  <1>3. frame \in StackFrame /\ frame.place = Body
    BY MainAssumption DEF Frame, StackFrame, Places
  <1>4. stack' = <<frame>>
    BY <1>2
  <1> HIDE DEF frame
  <1>5. /\ stack' \in Seq(StackFrame) /\ stack' # <<>> /\ DOMAIN stack' = {1}
        /\ stack'[1] = frame
    BY <1>3, <1>4
  <1>6. \A i, j \in DOMAIN stack' : i = j
    BY <1>5
  <1>7. StackInvariant'
    <2>1. stack' \in Seq([fn : Functions, place : Places', direct : BOOLEAN])
      BY <1>2, <1>5, SameLoops DEF StackFrame
    <2>2. Instrumented'
      BY <1>2, SameLoops
    <2>3. \A i \in DOMAIN stack' : stack'[i].place \in Loops(stack[i].fn)' \cup {Body}
      BY <1>3, <1>5
    <2>4. QED
      BY <1>2, <1>5, <2>1, <2>2, <2>3 DEF StackInvariant, Places
  <1>8. NestingInvariant'
    <2>1. \A i, j \in DOMAIN stack' : ~(i < j)
      BY <1>5
    <2>2. QED
      BY <2>1 DEF NestingInvariant
  <1>9. TimesInvariant'
    <2>1. /\ time_elapse' \in [Profiled -> Nat] /\ begin_ts_v' \in [Profiled -> Nat]
          /\ now' \in Nat /\ \A l \in Profiled : begin_ts_v'[l] <= now'
      BY <1>1, <1>2 DEF TimesInvariant
    <2>2. Profiled' = Profiled
      BY <1>2, SameLoops
    <2>3. QED
      BY <1>2, <1>6, <2>1, <2>2 DEF TimesInvariant
  <1>10. QED
    BY <1>7, <1>8, <1>9 DEF ProgramInvariant

LEMMA TickKeeps ==
  ASSUME LoopsInvariant, Tick
  PROVE  ProgramInvariant'
  <1>1. WalkInvariant /\ StackInvariant /\ NestingInvariant /\ TimesInvariant
    BY DEF LoopsInvariant
  <1>2. /\ run = "running" /\ now' = now + 1
        /\ UNCHANGED <<instr, stack, run, time_elapse, begin_ts_v, again>>
    BY DEF Tick, profile
  <1>3. PICK n \in Nat \ {0} : n = Len(stack) /\ DOMAIN stack = 1 .. n
    BY <1>1, <1>2, CurrentIs, StackTypes
  <1>4. stack' \in Seq(StackFrame) /\ stack' # <<>> /\ DOMAIN stack' = 1 .. n
    BY <1>1, <1>2, <1>3, StackTypes DEF StackInvariant
  <1>5. StackInvariant'
    <2>1. \A i \in DOMAIN stack' : stack'[i].place \in Loops(stack'[i].fn) \cup {Body}
      BY <1>1, <1>2 DEF StackInvariant
    <2>2. QED
      BY <1>1, <1>2, <1>4, <2>1, StackGoesOn
  <1>6. NestingInvariant'
    <2>1. n \in Nat /\ 1 .. n \subseteq DOMAIN stack
      BY <1>3
    <2>2. \A i \in 1 .. n : stack'[i] = stack[i]
      BY <1>2
    <2>3. QED
      BY <1>1, <1>2, <1>4, <2>1, <2>2, NestingStays
  <1>7. TimesInvariant'
    <2>1. /\ now \in Nat /\ time_elapse \in [Profiled -> Nat] /\ begin_ts_v \in [Profiled -> Nat]
          /\ \A l \in Profiled : begin_ts_v[l] <= now
      BY <1>1, <1>2 DEF TimesInvariant
    <2>2. /\ now' \in Nat /\ \A l \in Profiled : begin_ts_v'[l] <= now'
      <3>1. PICK t \in Nat : t = now /\ now' = t + 1
        BY <1>2, <2>1
      <3>2. \A l \in Profiled : begin_ts_v'[l] \in Nat /\ begin_ts_v'[l] <= t
        BY <1>2, <2>1, <3>1
      <3>3. QED
        BY <3>1, <3>2
    <2>3. \A i, j \in DOMAIN stack' :
            /\ i # j /\ <<stack'[i].fn, stack'[i].place>> \in Profiled
            /\ stack'[i].fn = stack'[j].fn /\ stack'[i].place = stack'[j].place
            => <<stack'[i].fn, stack'[i].place>> \in again'
      BY <1>1, <1>2 DEF TimesInvariant, InProfiledLoop
    <2>4. QED
      BY <1>2, <2>1, <2>2, <2>3, TimesGoOn
  <1>8. QED
    BY <1>5, <1>6, <1>7 DEF ProgramInvariant

LEMMA ExitKeeps ==
  ASSUME LoopsInvariant, Exit
  PROVE  ProgramInvariant'
  <1>1. WalkInvariant /\ StackInvariant /\ TimesInvariant
    BY DEF LoopsInvariant
  <1>2. /\ run = "running" /\ run' = "exited" /\ stack' = <<>>
        /\ UNCHANGED <<instr, now, time_elapse, begin_ts_v, again>>
    BY DEF Exit, profile
  <1>3. Profiled' = Profiled /\ Instrumented'
    BY <1>1, <1>2, SameLoops DEF StackInvariant
  <1>4. StackInvariant'
    BY <1>2, <1>3, NoFrames DEF StackInvariant, Places
  <1>5. TimesInvariant'
    BY <1>1, <1>2, <1>3, NoFrames DEF TimesInvariant
  <1>6. QED
    BY <1>2, <1>4, <1>5, NoFrames DEF ProgramInvariant

\* The pass is at work: nothing runs.
LEMMA InstrumentKeeps ==
  ASSUME LoopsInvariant, Instrument, UNCHANGED <<stack, run, now, profile, again>>
  PROVE  ProgramInvariant'
  <1>1. WalkInvariant /\ StackInvariant /\ TimesInvariant
    BY DEF LoopsInvariant
  <1>2. ~Instrumented
    BY DEF Instrument, Leave, WalkLoops, Visit, Instrumented
  <1>3. run = "no" /\ stack = <<>>
    BY <1>1, <1>2 DEF StackInvariant
  <1>4. run' = "no" /\ stack' = <<>> /\ UNCHANGED <<now, time_elapse, begin_ts_v, again>>
    BY <1>3 DEF profile
  <1>5. StackInvariant'
    BY <1>4, NoFrames DEF StackInvariant, Places
  <1>6. TimesInvariant'
    BY <1>1, <1>3, <1>4, NoFrames DEF TimesInvariant
  <1>7. QED
    BY <1>4, <1>5, <1>6, NoFrames DEF ProgramInvariant

LEMMA NextKeepsLoops ==
  ASSUME LoopsInvariant, [Next]_vars
  PROVE  LoopsInvariant'
  <1>1. WalkInvariant /\ StackInvariant /\ NestingInvariant /\ TimesInvariant
    BY DEF LoopsInvariant
  <1>2. CASE Instrument /\ UNCHANGED <<stack, run, now, profile, again>>
    BY <1>1, <1>2, InstrumentKeepsWalk, InstrumentKeeps DEF LoopsInvariant, ProgramInvariant
  <1>3. CASE Start
    BY <1>1, <1>3, StillKeepsWalk, StartKeeps DEF LoopsInvariant, ProgramInvariant, Start
  <1>4. CASE Step
    BY <1>1, <1>4, StillKeepsWalk, StepKeeps DEF LoopsInvariant, ProgramInvariant, Step
  <1>5. CASE Tick
    BY <1>1, <1>5, StillKeepsWalk, TickKeeps DEF LoopsInvariant, ProgramInvariant, Tick
  <1>6. CASE Exit
    BY <1>1, <1>6, StillKeepsWalk, ExitKeeps DEF LoopsInvariant, ProgramInvariant, Exit
  <1>7. CASE UNCHANGED vars
    <2>1. UNCHANGED <<instr, stack, run, now, time_elapse, begin_ts_v, again>>
      BY <1>7 DEF vars, profile
    <2>2. WalkInvariant'
      BY <1>1, <2>1, StillKeepsWalk
    <2>3. /\ Profiled' = Profiled /\ (Instrumented' <=> Instrumented) /\ visited_fns' = visited_fns
          /\ \A f : Loops(f)' = Loops(f)
      BY <2>1, SameLoops
    <2>4. StackInvariant'
      <3>1. (UNION {Loops(f) : f \in Functions})' = UNION {Loops(f) : f \in Functions}
        BY <2>3
      <3>2. \A i \in DOMAIN stack : Loops(stack[i].fn)' = Loops(stack[i].fn)
        BY <2>1, <2>3 DEF Loops, instr
      <3>3. QED
        BY <1>1, <2>1, <2>3, <3>1, <3>2 DEF StackInvariant
    <2>5. NestingInvariant'
      BY <1>1, <2>1, <2>3 DEF NestingInvariant, InProfiledLoop, ByName
    <2>6. TimesInvariant'
      BY <1>1, <2>1, <2>3 DEF TimesInvariant, InProfiledLoop
    <2>7. QED
      BY <2>2, <2>4, <2>5, <2>6 DEF LoopsInvariant
  <1>8. QED
    BY <1>2, <1>3, <1>4, <1>5, <1>6, <1>7 DEF Next

LEMMA InitIsOfLoops == Init => LoopsInvariant
  <1> SUFFICES ASSUME Init
               PROVE  LoopsInvariant
    OBVIOUS
  <1>1. /\ program \in Programs /\ exp_depth \in Nat /\ left = WithLoops /\ keep_fns = WithLoops
        /\ frames = <<>> /\ visited_fns = {} /\ stack = <<>> /\ run = "no" /\ now = 0
        /\ time_elapse = <<>> /\ again = {}
    BY ProgramsAssumption DEF Init, InstrInit
  <1>2. DOMAIN frames = {} /\ DOMAIN stack = {}
    BY <1>1
  <1>3. frames \in Seq([depth : Nat, calls : SUBSET Functions])
    BY <1>1
  <1>4. stack \in Seq([fn : Functions, place : Places, direct : BOOLEAN])
    BY <1>1
  <1>5. WalkInvariant
    BY <1>1, <1>2, <1>3 DEF WalkInvariant
  <1>6. StackInvariant
    BY <1>1, <1>2, <1>4 DEF StackInvariant, Places
  <1>7. NestingInvariant /\ TimesInvariant
    BY <1>1, <1>2 DEF NestingInvariant, TimesInvariant
  <1>8. QED
    BY <1>5, <1>6, <1>7 DEF LoopsInvariant
-----------------------------------------------------------------------------
(* Nesting *)

\* The inductive invariant holds of the pass and of the program it instrumented.
THEOREM LoopsInvariantHolds == Spec => []LoopsInvariant
  <1>1. Init => LoopsInvariant
    BY InitIsOfLoops
  <1>2. LoopsInvariant /\ [Next]_vars => LoopsInvariant'
    BY NextKeepsLoops
  <1>3. QED
    BY <1>1, <1>2, PTL DEF Spec

\* Whatever calls what, and in whatever order the pass walks the functions: of two profiled
\* loops, one inside the other by direct calls, the inner is in a function that some loop
\* reaches within exp-depth calls (CatPass.cpp:71, 194).
THEOREM NestingIsWithinDepth == Spec => []NestsWithinDepth
  <1>1. LoopsInvariant => NestsWithinDepth
    <2> SUFFICES ASSUME LoopsInvariant, NEW i \in DOMAIN stack, NEW j \in DOMAIN stack,
                        i < j, InProfiledLoop(i), InProfiledLoop(j), ByName(i, j)
                 PROVE  \E f \in Functions : stack[j].fn \in Below(f, FirstDepth(f))
      BY DEF NestsWithinDepth
    <2>1. stack[j].fn \in visited_fns
      BY DEF LoopsInvariant, NestingInvariant
    <2>2. stack[j].fn \in keep_fns
      BY ProfiledAre DEF InProfiledLoop
    <2>3. QED
      BY <2>1, <2>2 DEF LoopsInvariant, WalkInvariant
  <1>2. QED
    BY <1>1, LoopsInvariantHolds, PTL
-----------------------------------------------------------------------------
(* The times *)

Starts == [l \in OnRecord \cap Running |-> begin_ts_v[l]]

Totals == [l \in OnRecord |-> time_elapse[l]]

LEMMA NoTimes ==
  ASSUME NEW S, S = {}, NEW f
  PROVE  [x \in S |-> f[x]] = <<>>
  OBVIOUS

LEMMA RecordIs ==
  ASSUME TimesInvariant
  PROVE  /\ run = "no" => OnRecord = {} /\ Starts = <<>> /\ Totals = <<>>
         /\ run # "no" => OnRecord = Profiled \ again
  <1>1. CASE run = "no"
    <2>1. DOMAIN time_elapse = {}
      BY <1>1 DEF TimesInvariant
    <2>2. OnRecord = {}
      BY <2>1 DEF OnRecord
    <2>3. OnRecord \cap Running = {}
      BY <2>2
    <2>4. QED
      BY <1>1, <2>2, <2>3, NoTimes DEF Starts, Totals
  <1>2. CASE run # "no"
    BY <1>2 DEF TimesInvariant, OnRecord
  <1>3. QED
    BY <1>1, <1>2

\* A step that begins and ends no loop on the record.
LEMMA NothingTimed ==
  ASSUME UNCHANGED <<now, run>>, OnRecord' = OnRecord,
         \A x \in OnRecord : x \in Running' <=> x \in Running,
         \A x \in OnRecord : begin_ts_v'[x] = begin_ts_v[x] /\ time_elapse'[x] = time_elapse[x]
  PROVE  UNCHANGED <<now, Starts, Totals, run>>
  <1>1. OnRecord' \cap Running' = OnRecord \cap Running
    OBVIOUS
  <1>2. Starts' = Starts
    BY <1>1 DEF Starts
  <1>3. Totals' = Totals
    BY DEF Totals
  <1>4. QED
    BY <1>2, <1>3

LEMMA CallIsUntimed ==
  ASSUME LoopsInvariant, run = "running", UNCHANGED <<instr, run, now>>, CallFunction
  PROVE  UNCHANGED <<now, Starts, Totals, run>>
  <1>1. WalkInvariant /\ StackInvariant /\ TimesInvariant /\ Profiled' = Profiled
    BY SameLoops DEF LoopsInvariant
  <1>2. PICK c \in program.calls : stack' = Append(stack, Frame(c.fn, c.direct))
    BY DEF CallFunction
  <1>3. UNCHANGED <<time_elapse, begin_ts_v, again>>
    BY DEF CallFunction, profile
  <1>4. PICK n \in Nat \ {0} : n = Len(stack) /\ DOMAIN stack = 1 .. n
    BY <1>1, CurrentIs, StackTypes
  <1> DEFINE frame == Frame(c.fn, c.direct)
  <1>5. frame \in StackFrame /\ frame.place = Body /\ frame.fn \in Functions
    BY <1>1, ProgramsAre DEF Frame, StackFrame, Places, WalkInvariant
  <1>6. stack' = Append(stack, frame)
    BY <1>2
  <1> HIDE DEF frame
  <1>7. /\ DOMAIN stack' = 1 .. n + 1
        /\ \A i \in 1 .. n : stack'[i] = stack[i]
        /\ stack'[n + 1] = frame
    BY <1>1, <1>4, <1>5, <1>6, StackTypes, AppendIs
  <1>8. OnRecord = Profiled \ again /\ OnRecord' = OnRecord
    BY <1>1, <1>3, RecordIs DEF OnRecord
  <1>9. ASSUME NEW x \in OnRecord
        PROVE  x \in Running' <=> x \in Running
    <2>1. x \in Profiled /\ x # <<frame.fn, frame.place>>
      BY <1>1, <1>5, <1>8, BodyIsNotProfiled
    <2>2. x \in Running' => x \in Running
      <3> SUFFICES ASSUME NEW i \in 1 .. n + 1, x = <<stack'[i].fn, stack'[i].place>>
                   PROVE  x \in Running
        BY <1>7 DEF Running
      <3>1. i # n + 1
        BY <1>7, <2>1
      <3>2. i \in 1 .. n
        BY <3>1
      <3>3. QED
        BY <1>4, <1>7, <3>2 DEF Running
    <2>3. x \in Running => x \in Running'
      <3> SUFFICES ASSUME NEW i \in 1 .. n, x = <<stack[i].fn, stack[i].place>>
                   PROVE  x \in Running'
        BY <1>4 DEF Running
      <3>1. i \in 1 .. n + 1
        OBVIOUS
      <3>2. QED
        BY <1>7, <3>1 DEF Running
    <2>4. QED
      BY <2>2, <2>3
  <1>10. QED
    BY <1>3, <1>8, <1>9, NothingTimed

LEMMA ReturnIsUntimed ==
  ASSUME LoopsInvariant, run = "running", UNCHANGED <<instr, run, now>>, Return
  PROVE  UNCHANGED <<now, Starts, Totals, run>>
  <1>1. WalkInvariant /\ StackInvariant /\ TimesInvariant /\ Profiled' = Profiled
    BY SameLoops DEF LoopsInvariant
  <1>2. /\ Current.place = Body /\ stack' = Front(stack)
        /\ UNCHANGED <<time_elapse, begin_ts_v, again>>
    BY DEF Return, profile
  <1>3. PICK n \in Nat \ {0} : n = Len(stack) /\ DOMAIN stack = 1 .. n
    BY <1>1, CurrentIs, StackTypes
  <1>4. /\ stack \in Seq(StackFrame) /\ stack # <<>> /\ Current = stack[n]
        /\ Current.fn \in Functions
    BY <1>1, <1>3, StackTypes, CurrentIs DEF StackInvariant
  <1>5. DOMAIN stack' = 1 .. n - 1 /\ \A i \in 1 .. n - 1 : stack'[i] = stack[i]
    BY <1>2, <1>3, <1>4, FrontIs
  <1>6. OnRecord = Profiled \ again /\ OnRecord' = OnRecord
    BY <1>1, <1>2, RecordIs DEF OnRecord
  <1>7. ASSUME NEW x \in OnRecord
        PROVE  x \in Running' <=> x \in Running
    <2>1. x \in Profiled /\ x # <<stack[n].fn, stack[n].place>>
      BY <1>1, <1>2, <1>4, <1>6, BodyIsNotProfiled
    <2>2. x \in Running' => x \in Running
      <3> SUFFICES ASSUME NEW i \in 1 .. n - 1, x = <<stack'[i].fn, stack'[i].place>>
                   PROVE  x \in Running
        BY <1>5 DEF Running
      <3>1. i \in 1 .. n
        OBVIOUS
      <3>2. QED
        BY <1>3, <1>5, <3>1 DEF Running
    <2>3. x \in Running => x \in Running'
      <3> SUFFICES ASSUME NEW i \in 1 .. n, x = <<stack[i].fn, stack[i].place>>
                   PROVE  x \in Running'
        BY <1>3 DEF Running
      <3>1. i # n
        BY <2>1
      <3>2. i \in 1 .. n - 1
        BY <3>1
      <3>3. QED
        BY <1>5, <3>2 DEF Running
    <2>4. QED
      BY <2>2, <2>3
  <1>8. QED
    BY <1>2, <1>6, <1>7, NothingTimed

LEMMA EnterIsTimed ==
  ASSUME LoopsInvariant, run = "running", UNCHANGED <<instr, run, now>>,
         NEW loop \in Loops(Current.fn), EnterLoop(loop)
  PROVE  \/ UNCHANGED <<now, Starts, Totals, run>>
         \/ \E l \in OnRecord : Times!Begin(l) \/ Times!BeginAgain(l)
  <1>1. WalkInvariant /\ StackInvariant /\ TimesInvariant /\ Profiled' = Profiled
    BY SameLoops DEF LoopsInvariant
  <1>0. PICK l : l = <<Current.fn, loop>>
    OBVIOUS
  <1>2. /\ Current.place = Body /\ stack' = At(loop) /\ UNCHANGED time_elapse
        /\ l \in Profiled => /\ begin_ts_v' = [begin_ts_v EXCEPT ![l] = now]
                             /\ again' = again \cup (Running \cap {l})
        /\ l \notin Profiled => UNCHANGED <<begin_ts_v, again>>
    BY <1>0 DEF EnterLoop, loop_invocation, profile
  <1>3. PICK n \in Nat \ {0} : n = Len(stack) /\ DOMAIN stack = 1 .. n
    BY <1>1, CurrentIs, StackTypes
  <1>4. n \in 1 .. n /\ Current = stack[n] /\ Current.fn \in Functions
    BY <1>1, <1>3, CurrentIs
  <1>5. /\ DOMAIN stack' = 1 .. n
        /\ \A i \in 1 .. n : i # n => stack'[i] = stack[i]
        /\ stack'[n].fn = Current.fn /\ stack'[n].place = loop
    BY <1>1, <1>2, <1>3, AtIs
  <1>6. <<stack'[n].fn, stack'[n].place>> = l
    BY <1>0, <1>5
  <1>7. OnRecord = Profiled \ again /\ OnRecord' = Profiled \ again'
    BY <1>1, <1>2, RecordIs DEF OnRecord
  <1>8. begin_ts_v \in [Profiled -> Nat] /\ time_elapse \in [Profiled -> Nat]
    BY <1>1 DEF TimesInvariant
  <1>9. ASSUME NEW x \in Profiled
        PROVE  x \in Running' <=> x \in Running \/ x = l
    <2>1. x # <<stack[n].fn, stack[n].place>>
      BY <1>1, <1>2, <1>4, BodyIsNotProfiled
    <2>2. x \in Running' => x \in Running \/ x = l
      <3> SUFFICES ASSUME NEW i \in 1 .. n, x = <<stack'[i].fn, stack'[i].place>>
                   PROVE  x \in Running \/ x = l
        BY <1>5 DEF Running
      <3>1. i = n => x = l
        BY <1>6
      <3>2. i # n => x \in Running
        BY <1>3, <1>5 DEF Running
      <3>3. QED
        BY <3>1, <3>2
    <2>3. x \in Running => x \in Running'
      <3> SUFFICES ASSUME NEW i \in 1 .. n, x = <<stack[i].fn, stack[i].place>>
                   PROVE  x \in Running'
        BY <1>3 DEF Running
      <3>1. i # n
        BY <2>1
      <3>2. QED
        BY <1>5, <3>1 DEF Running
    <2>4. x = l => x \in Running'
      BY <1>4, <1>5, <1>6 DEF Running
    <2>5. QED
      BY <2>2, <2>3, <2>4
  <1>10. CASE l \notin OnRecord
    <2>1. OnRecord' = OnRecord
      BY <1>2, <1>7, <1>10
    <2>2. \A x \in OnRecord : x \in Profiled /\ x # l
      BY <1>7, <1>10
    <2>3. \A x \in OnRecord : begin_ts_v'[x] = begin_ts_v[x]
      <3>1. CASE l \in Profiled
        BY <1>2, <1>8, <2>2, <3>1
      <3>2. CASE l \notin Profiled
        BY <1>2, <3>2
      <3>3. QED
        BY <3>1, <3>2
    <2>4. UNCHANGED <<now, Starts, Totals, run>>
      BY <1>2, <1>9, <2>1, <2>2, <2>3, NothingTimed
    <2>5. QED
      BY <2>4
  <1>11. CASE l \in OnRecord /\ l \notin Running
    <2>1. again' = again /\ OnRecord' = OnRecord
      BY <1>2, <1>7, <1>11
    <2>2. OnRecord' \cap Running' = (OnRecord \cap Running) \cup {l}
      BY <1>7, <1>9, <1>11, <2>1
    <2>3. \A x \in OnRecord : begin_ts_v'[x] = IF x = l THEN now ELSE begin_ts_v[x]
      BY <1>2, <1>7, <1>8, <1>11
    <2>4. DOMAIN Starts = OnRecord \cap Running
      BY DEF Starts
    <2>5. Starts' = [x \in DOMAIN Starts \cup {l} |-> IF x = l THEN now ELSE Starts[x]]
      <3>1. Starts' = [x \in (OnRecord \cap Running) \cup {l} |-> begin_ts_v'[x]]
        BY <2>2 DEF Starts
      <3>2. \A x \in (OnRecord \cap Running) \cup {l} :
              begin_ts_v'[x] = IF x = l THEN now ELSE Starts[x]
        BY <1>11, <2>3 DEF Starts
      <3>3. QED
        BY <2>4, <3>1, <3>2
    <2>6. Totals' = Totals
      BY <1>2, <2>1 DEF Totals
    <2>7. l \notin DOMAIN Starts
      BY <1>11, <2>4
    <2>8. Times!Begin(l)
      BY <2>5, <2>6, <2>7 DEF Times!Begin, Starts, Totals
    <2>9. QED
      BY <1>11, <2>8
  <1>12. CASE l \in OnRecord /\ l \in Running
    <2>1. again' = again \cup {l} /\ OnRecord' = OnRecord \ {l}
      BY <1>2, <1>7, <1>12
    <2>2. OnRecord' \cap Running' = (OnRecord \cap Running) \ {l}
      BY <1>7, <1>9, <2>1
    <2>3. \A x \in OnRecord \ {l} : begin_ts_v'[x] = begin_ts_v[x]
      BY <1>2, <1>7, <1>8, <1>12
    <2>4. DOMAIN Starts = OnRecord \cap Running /\ DOMAIN Totals = OnRecord
      BY DEF Starts, Totals
    <2>5. Starts' = [x \in DOMAIN Starts \ {l} |-> Starts[x]]
      <3>1. Starts' = [x \in (OnRecord \cap Running) \ {l} |-> begin_ts_v'[x]]
        BY <2>2 DEF Starts
      <3>2. \A x \in (OnRecord \cap Running) \ {l} : begin_ts_v'[x] = Starts[x]
        BY <2>3 DEF Starts
      <3>3. QED
        BY <2>4, <3>1, <3>2
    <2>6. Totals' = [x \in DOMAIN Totals \ {l} |-> Totals[x]]
      <3>1. Totals' = [x \in OnRecord \ {l} |-> time_elapse[x]]
        BY <1>2, <2>1 DEF Totals
      <3>2. \A x \in OnRecord \ {l} : time_elapse[x] = Totals[x]
        BY DEF Totals
      <3>3. QED
        BY <2>4, <3>1, <3>2
    <2>7. l \in DOMAIN Starts
      BY <1>12, <2>4
    <2>8. Times!BeginAgain(l)
      BY <2>5, <2>6, <2>7 DEF Times!BeginAgain, Times!Restrict, Starts, Totals
    <2>9. QED
      BY <1>12, <2>8
  <1>13. QED
    BY <1>10, <1>11, <1>12

LEMMA LeaveLoopIsTimed ==
  ASSUME LoopsInvariant, run = "running", UNCHANGED <<instr, run, now>>, LeaveLoop
  PROVE  \/ UNCHANGED <<now, Starts, Totals, run>>
         \/ \E l \in OnRecord : Times!End(l)
  <1>1. WalkInvariant /\ StackInvariant /\ TimesInvariant /\ Profiled' = Profiled
    BY SameLoops DEF LoopsInvariant
  <1>0. PICK l : l = <<Current.fn, Current.place>>
    OBVIOUS
  <1>2. /\ stack' = At(Body) /\ UNCHANGED <<begin_ts_v, again>>
        /\ l \in Profiled => time_elapse' = [time_elapse EXCEPT ![l] = @ + Since(l)]
        /\ l \notin Profiled => UNCHANGED time_elapse
    BY <1>0 DEF LeaveLoop, loop_exit, profile
  <1>3. PICK n \in Nat \ {0} : n = Len(stack) /\ DOMAIN stack = 1 .. n
    BY <1>1, CurrentIs, StackTypes
  <1>4. n \in 1 .. n /\ Current = stack[n] /\ Current.fn \in Functions
    BY <1>1, <1>3, CurrentIs
  <1>5. /\ DOMAIN stack' = 1 .. n
        /\ \A i \in 1 .. n : i # n => stack'[i] = stack[i]
        /\ stack'[n].fn = Current.fn /\ stack'[n].place = Body
    BY <1>1, <1>2, <1>3, AtIs
  <1>6. <<stack[n].fn, stack[n].place>> = l
    BY <1>0, <1>4
  <1>7. /\ OnRecord = Profiled \ again
        /\ begin_ts_v \in [Profiled -> Nat] /\ time_elapse \in [Profiled -> Nat] /\ now \in Nat
    BY <1>1, RecordIs DEF TimesInvariant
  <1>8. OnRecord' = OnRecord
    <2>1. DOMAIN time_elapse' = DOMAIN time_elapse
      BY <1>2
    <2>2. QED
      BY <1>2, <2>1 DEF OnRecord
  <1>9. ASSUME NEW x \in OnRecord
        PROVE  x \in Running' <=> x \in Running /\ x # l
    <2>1. x \in Profiled /\ x \notin again
      BY <1>7
    <2>2. x # <<stack'[n].fn, stack'[n].place>>
      BY <1>1, <1>4, <1>5, <2>1, BodyIsNotProfiled
    <2>3. x \in Running' => x \in Running /\ x # l
      <3> SUFFICES ASSUME NEW i \in 1 .. n, x = <<stack'[i].fn, stack'[i].place>>
                   PROVE  x \in Running /\ x # l
        BY <1>5 DEF Running
      <3>1. i # n /\ x = <<stack[i].fn, stack[i].place>>
        BY <1>5, <2>2
      <3>2. x \in Running
        BY <1>3, <3>1 DEF Running
      <3>3. x # l
        <4> SUFFICES ASSUME x = l
                     PROVE  FALSE
          OBVIOUS
        <4>1. stack[i].fn = stack[n].fn /\ stack[i].place = stack[n].place
          BY <1>6, <3>1
        <4>2. x \in again
          BY <1>1, <1>3, <1>4, <2>1, <3>1, <4>1 DEF TimesInvariant, InProfiledLoop
        <4>3. QED
          BY <2>1, <4>2
      <3>4. QED
        BY <3>2, <3>3
    <2>4. x \in Running /\ x # l => x \in Running'
      <3> SUFFICES ASSUME NEW i \in 1 .. n, x = <<stack[i].fn, stack[i].place>>, x # l
                   PROVE  x \in Running'
        BY <1>3 DEF Running
      <3>1. i # n
        BY <1>6
      <3>2. QED
        BY <1>5, <3>1 DEF Running
    <2>5. QED
      BY <2>3, <2>4
  <1>10. CASE l \notin OnRecord
    <2>1. \A x \in OnRecord : x \in Profiled /\ x # l
      BY <1>7, <1>10
    <2>2. \A x \in OnRecord : time_elapse'[x] = time_elapse[x]
      <3>1. CASE l \in Profiled
        BY <1>2, <1>7, <2>1, <3>1
      <3>2. CASE l \notin Profiled
        BY <1>2, <3>2
      <3>3. QED
        BY <3>1, <3>2
    <2>3. UNCHANGED <<now, Starts, Totals, run>>
      BY <1>2, <1>8, <1>9, <2>1, <2>2, NothingTimed
    <2>4. QED
      BY <2>3
  <1>11. CASE l \in OnRecord
    <2>1. l \in Running /\ l \in Profiled
      BY <1>3, <1>4, <1>6, <1>7, <1>11 DEF Running
    <2>2. DOMAIN Starts = OnRecord \cap Running /\ DOMAIN Totals = OnRecord
      BY DEF Starts, Totals
    <2>3. l \in DOMAIN Starts /\ Starts[l] = begin_ts_v[l]
      BY <1>11, <2>1, <2>2 DEF Starts
    <2>4. Starts' = [x \in DOMAIN Starts \ {l} |-> Starts[x]]
      <3>1. OnRecord' \cap Running' = (OnRecord \cap Running) \ {l}
        BY <1>8, <1>9
      <3>2. Starts' = [x \in (OnRecord \cap Running) \ {l} |-> begin_ts_v[x]]
        BY <1>2, <3>1 DEF Starts
      <3>3. \A x \in (OnRecord \cap Running) \ {l} : begin_ts_v[x] = Starts[x]
        BY DEF Starts
      <3>4. QED
        BY <2>2, <3>2, <3>3
    <2>5. Totals' = [Totals EXCEPT ![l] = @ + now - Starts[l]]
      <3>1. Totals' = [x \in OnRecord |-> time_elapse'[x]]
        BY <1>8 DEF Totals
      <3>2. time_elapse'[l] = time_elapse[l] + (now - begin_ts_v[l])
        BY <1>2, <1>7, <2>1 DEF Since
      <3>3. time_elapse[l] + (now - begin_ts_v[l]) = time_elapse[l] + now - begin_ts_v[l]
        <4>1. time_elapse[l] \in Nat /\ begin_ts_v[l] \in Nat
          BY <1>7, <2>1
        <4>2. QED
          BY <1>7, <4>1
      <3>4. \A x \in OnRecord : x # l => time_elapse'[x] = time_elapse[x]
        BY <1>2, <1>7, <2>1
      <3>5. \A x \in OnRecord : Totals[x] = time_elapse[x]
        BY DEF Totals
      <3>6. \A x \in OnRecord :
              time_elapse'[x] = IF x = l THEN Totals[l] + now - Starts[l] ELSE Totals[x]
        BY <1>11, <2>3, <3>2, <3>3, <3>4, <3>5
      <3>7. [Totals EXCEPT ![l] = @ + now - Starts[l]]
              = [x \in OnRecord |-> IF x = l THEN Totals[l] + now - Starts[l] ELSE Totals[x]]
        BY <2>2
      <3>8. QED
        BY <3>1, <3>6, <3>7
    <2>6. Times!End(l)
      BY <2>3, <2>4, <2>5 DEF Times!End, Times!Restrict, Starts, Totals
    <2>7. QED
      BY <1>11, <2>6
  <1>12. QED
    BY <1>10, <1>11

LEMMA StepIsTimed ==
  ASSUME LoopsInvariant, [Next]_vars
  PROVE  [Times!Next]_<<now, Starts, Totals, run>>
  <1>1. TimesInvariant /\ StackInvariant /\ WalkInvariant
    BY DEF LoopsInvariant
  <1>2. CASE run = "no" /\ run' = "no"
    <2>1. Starts = <<>> /\ Totals = <<>>
      BY <1>1, <1>2, RecordIs
    <2>2. OnRecord' = {} /\ now' = now
      <3>1. TimesInvariant'
        BY NextKeepsLoops DEF LoopsInvariant
      <3>2. DOMAIN time_elapse' = {}
        BY <1>2, <3>1 DEF TimesInvariant
      <3>3. now' = now
        BY <1>2 DEF Next, Start, Step, Tick, Exit, vars
      <3>4. QED
        BY <3>2, <3>3 DEF OnRecord
    <2>3. Starts' = <<>> /\ Totals' = <<>>
      <3>1. OnRecord' \cap Running' = {}
        BY <2>2
      <3>2. QED
        BY <2>2, <3>1, NoTimes DEF Starts, Totals
    <2>4. QED
      BY <1>2, <2>1, <2>2, <2>3
  <1>3. CASE Start
    <2>1. /\ run = "no" /\ run' = "running" /\ now' = now /\ UNCHANGED <<instr, again>>
          /\ stack' = <<Frame(Main, TRUE)>> /\ time_elapse' = [x \in Profiled |-> 0]
      BY <1>3 DEF Start, outer_prof_init
    <2>2. OnRecord' = Profiled /\ again' = {}
      BY <1>1, <2>1 DEF OnRecord, TimesInvariant
    <2>3. Totals' = [x \in DOMAIN Totals' |-> 0]
      <3>1. DOMAIN Totals' = Profiled
        BY <2>2 DEF Totals
      <3>2. Totals' = [x \in Profiled |-> 0]
        BY <2>1, <2>2 DEF Totals
      <3>3. QED
        BY <3>1, <3>2
    <2>4. OnRecord' \cap Running' = {}
      <3>1. Running' = {<<Main, Body>>}
        <4>1. DOMAIN stack' = {1} /\ stack'[1].fn = Main /\ stack'[1].place = Body
          BY <2>1 DEF Frame
        <4>2. QED
          BY <4>1 DEF Running
      <3>2. <<Main, Body>> \notin Profiled
        BY <1>1, MainAssumption, BodyIsNotProfiled
      <3>3. QED
        BY <2>2, <3>1, <3>2
    <2>5. Starts' = Starts
      <3>1. Starts = <<>>
        BY <1>1, <2>1, RecordIs
      <3>2. Starts' = <<>>
        BY <2>4, NoTimes DEF Starts
      <3>3. QED
        BY <3>1, <3>2
    <2>6. Times!Start
      BY <2>1, <2>3, <2>5 DEF Times!Start, Starts, Totals
    <2>7. QED
      BY <2>6 DEF Times!Next
  <1>4. CASE Step
    <2>1. run = "running" /\ UNCHANGED <<instr, run, now>>
      BY <1>4 DEF Step
    <2>2. \/ UNCHANGED <<now, Starts, Totals, run>>
          \/ \E l \in OnRecord : Times!Begin(l) \/ Times!BeginAgain(l) \/ Times!End(l)
      <3>1. CASE CallFunction
        BY <2>1, <3>1, CallIsUntimed
      <3>2. CASE \E loop \in Loops(Current.fn) : EnterLoop(loop)
        BY <2>1, <3>2, EnterIsTimed
      <3>3. CASE LeaveLoop
        BY <2>1, <3>3, LeaveLoopIsTimed
      <3>4. CASE Return
        BY <2>1, <3>4, ReturnIsUntimed
      <3>5. QED
        BY <1>4, <3>1, <3>2, <3>3, <3>4 DEF Step
    <2>3. DOMAIN Totals = OnRecord
      BY DEF Totals
    <2>4. QED
      BY <2>1, <2>2, <2>3 DEF Times!Next, Totals
  <1>5. CASE Tick
    <2>1. /\ run = "running" /\ now' = now + 1
          /\ UNCHANGED <<stack, run, time_elapse, begin_ts_v, again>>
      BY <1>5 DEF Tick, profile
    <2>2. OnRecord' = OnRecord /\ Running' = Running
      BY <2>1 DEF OnRecord, Running
    <2>3. Starts' = Starts /\ Totals' = Totals
      BY <2>1, <2>2 DEF Starts, Totals
    <2>4. Times!Tick
      BY <2>1, <2>3 DEF Times!Tick, Starts, Totals
    <2>5. QED
      BY <2>1, <2>4 DEF Times!Next
  <1>6. CASE Exit
    <2>1. /\ run = "running" /\ run' = "exited" /\ stack' = <<>> /\ now' = now
          /\ UNCHANGED <<time_elapse, again>>
      BY <1>6 DEF Exit, profile
    <2>2. OnRecord' = OnRecord
      BY <2>1 DEF OnRecord
    <2>3. Totals' = Totals
      BY <2>1, <2>2 DEF Totals
    <2>4. Running' = {}
      <3>1. DOMAIN stack' = {}
        BY <2>1
      <3>2. QED
        BY <3>1 DEF Running
    <2>5. Starts' = <<>>
      <3>1. OnRecord' \cap Running' = {}
        BY <2>4
      <3>2. QED
        BY <3>1, NoTimes DEF Starts
    <2>6. Times!Stop
      BY <2>1, <2>3, <2>5 DEF Times!Stop, Starts, Totals
    <2>7. QED
      BY <2>6 DEF Times!Next
  <1>7. CASE UNCHANGED vars
    <2>1. UNCHANGED <<stack, run, now, time_elapse, begin_ts_v, again>>
      BY <1>7 DEF vars, profile
    <2>2. OnRecord' = OnRecord /\ Running' = Running
      BY <2>1 DEF OnRecord, Running
    <2>3. Starts' = Starts /\ Totals' = Totals
      BY <2>1, <2>2 DEF Starts, Totals
    <2>4. QED
      BY <2>1, <2>3
  <1>8. CASE Instrument /\ UNCHANGED <<stack, run, now, profile, again>>
    <2>1. ~Instrumented
      BY <1>8 DEF Instrument, Leave, WalkLoops, Visit, Instrumented
    <2>2. run = "no" /\ run' = "no"
      BY <1>1, <1>8, <2>1 DEF StackInvariant
    <2>3. QED
      BY <1>2, <2>2
  <1>9. QED
    BY <1>3, <1>4, <1>5, <1>6, <1>7, <1>8 DEF Next

\* Of every profiled loop, the time that is printed is the sum of its runs, whatever other
\* profiled loops began and ended inside it, unless it began again before it ended
\* (OuterLoopProfRT.cpp:29, 42).
THEOREM TimesAreOfRuns == Spec => TimesSpec
  <1>1. Init => Times!Init
    <2> SUFFICES ASSUME Init
                 PROVE  Times!Init
      OBVIOUS
    <2>1. TimesInvariant /\ run = "no" /\ now = 0
      BY InitIsOfLoops DEF LoopsInvariant, Init
    <2>2. Starts = <<>> /\ Totals = <<>>
      BY <2>1, RecordIs
    <2>3. QED
      BY <2>1, <2>2 DEF Times!Init, Starts, Totals
  <1>2. LoopsInvariant /\ [Next]_vars => [Times!Next]_(Times!times)
    BY StepIsTimed DEF Times!times, Starts, Totals
  <1>3. QED
    BY <1>1, <1>2, LoopsInvariantHolds, PTL DEF Spec, TimesSpec, Times!Spec
=============================================================================
