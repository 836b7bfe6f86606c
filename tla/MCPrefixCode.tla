---------------------------- MODULE MCPrefixCode ----------------------------
(***************************************************************************)
(* A small alphabet, code words of up to five bits and tables of three     *)
(* bits and more.  The code of code lengths has four symbols, among them   *)
(* lengths of one, three, four and five bits and the code of runs, or one. *)
(***************************************************************************)
EXTENDS PrefixCodeReader

Order == <<2, 3, 4, 1, 0, 7, 5, 6>>

SomeChoices ==
  [x \in CodeLengthCodes |->
     CASE x \in {1, 2, 3} -> {2} [] x = 4 -> {3}
       [] x = 0 -> {0} [] x \in {5, 6, 7} -> {0, 3}]

\* A second code is read after one whose lengths are all one, and then only as
\* far as its own code of code lengths, unless that is the same again.
SecondCode == codes = 0 \/ outcome = "SUCCESS" \/ Readable = {1}
=============================================================================
