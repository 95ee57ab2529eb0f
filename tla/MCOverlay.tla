----------------------------- MODULE MCOverlay ------------------------------
(* An instance of Overlay for TLC: one scope whose paths have up to two      *)
(* components, and storage for three entries and two bytes.                *)
EXTENDS Overlay, TLC

CONSTANTS workspace, lakehouse

MCScopes == {<<workspace, lakehouse>>}

\* What was known of nodes that nobody refers to any more is never read.
View == <<disk, dirs \ Unused, Restrict(size, Nodes \ Unused), meddled, state,
          poison, accounting, handles>>

Symmetry == Permutations(Components) \cup Permutations(Handles)
=============================================================================
