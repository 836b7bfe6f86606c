--------------------------- MODULE RecentDistances ---------------------------
(***************************************************************************)
(* What the distances of a brotli stream mean.  The decoder remembers the  *)
(* last four distances it copied from.  A distance symbol below 16 is one  *)
(* of them, or a neighbour of one of the last two; any other names its     *)
(* distance.  A distance that reaches back behind what a copy may use is a *)
(* word of the static dictionary, which is not remembered, and neither is  *)
(* the last distance when symbol 0 repeats it.  An invalid reference ends  *)
(* the stream, and nothing is remembered.                                  *)
(***************************************************************************)
EXTENDS Integers, Sequences

CONSTANTS
  InitialDistances, \* the four distances at the start, the newest first
  MaxBackward,      \* the farthest a copy may ever reach
  Huge,             \* what a neighbour that is not positive stands for
  Symbols           \* [code : 0 .. 16, distance : Nat]; 16 names its distance

VARIABLES
  recent,     \* the last four distances, the newest first
  written,    \* how many bytes have been decoded
  reference   \* the last distance read: [symbol, distance]

\* Symbols 0 .. 15: which of the recent distances, and how far from it.
Which == <<1, 2, 3, 4, 1, 1, 1, 1, 1, 1, 2, 2, 2, 2, 2, 2>>
Offset == <<0, 0, 0, 0, -1, 1, -2, 2, -3, 3, -1, 1, -2, 2, -3, 3>>

Named == 16

Distance(symbol) ==
  IF symbol.code = Named THEN symbol.distance
  ELSE LET d == recent[Which[symbol.code + 1]] + Offset[symbol.code + 1]
       IN  IF d > 0 THEN d ELSE Huge

Reach == IF written < MaxBackward THEN written ELSE MaxBackward

NoReference == [symbol |-> [code |-> Named, distance |-> 0], distance |-> 0]

Init == recent = InitialDistances /\ written = 0 /\ reference = NoReference

Literals == written' > written /\ UNCHANGED <<recent, reference>>

Refer(symbol) ==
  /\ recent # <<>>
  /\ reference' = [symbol |-> symbol, distance |-> Distance(symbol)]
  /\ IF Distance(symbol) > Reach
       THEN \/ UNCHANGED recent /\ written' >= written
            \/ recent' = <<>> /\ UNCHANGED written
       ELSE /\ recent' = IF symbol.code = 0 THEN recent
                         ELSE <<Distance(symbol)>> \o SubSeq(recent, 1, 3)
            /\ written' > written

Next == Literals \/ \E symbol \in Symbols : Refer(symbol)

Spec == Init /\ [][Next]_<<recent, written, reference>>
=============================================================================
