---------------------------- MODULE MCStreamInput ----------------------------
(* StreamInput on a short stream and a few reads of telling widths: a header    *)
(* field that leaves a byte half read, a literal, a switch that fits in two     *)
(* bytes, the longest command and the longest distance there are, and a copy.   *)
EXTENDS StreamInput

MCOperations ==
  {Header(3), Symbol(9), Switch(1, 2, 9), Command(15, 24, 24), Distance(15, 29),
   Copy(2)}
=============================================================================
