----------------------------- MODULE OutputStream -----------------------------
(***************************************************************************)
(* What the output side of the brotli decoder promises: the bytes it       *)
(* produces reach the caller once, in order, whatever the sizes of the     *)
(* buffers the caller comes with.  Byte k of the output is written k.      *)
(***************************************************************************)
EXTENDS Integers, Sequences

VARIABLES
  produced,   \* how many bytes have been decoded
  delivered   \* the bytes the caller has been given

Init == produced = 0 /\ delivered = <<>>

Produce ==
  /\ produced' \in Nat /\ produced' > produced
  /\ UNCHANGED delivered

Deliver ==
  /\ \E n \in 1 .. produced - Len(delivered) :
       delivered' = delivered \o [k \in 1 .. n |-> Len(delivered) + k - 1]
  /\ UNCHANGED produced

Next == Produce \/ Deliver

Spec == Init /\ [][Next]_<<produced, delivered>>
=============================================================================
