--------------------------- MODULE MCSourceExplorer ---------------------------
(***************************************************************************)
(* Instances of SourceExplorer: three lines, two thresholds.               *)
(***************************************************************************)
EXTENDS SourceExplorer, FiniteSets

\* The lines 11, 22 and 33.
ThreeLines == <<11, 22, 33>>

\* Any program may take any time, or fail: noise, and costs that depend on each other.
AnyTime(unsafe) == {10, 11, 12, Failed}

LowThresholds == <<12, 13>>

\* Every bounds check costs the same, 0.8 percent, and every measurement is exact.
ExactTime(unsafe) == {1000 + 8 * (Len(HotLines) - Cardinality(unsafe))}

FineThresholds == <<1015, 1100>>
=============================================================================
