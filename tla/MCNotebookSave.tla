--------------------------- MODULE MCNotebookSave ---------------------------
(* Instances of NotebookSave for TLC: a plain notebook, another one, and a   *)
(* third that is stored like the first once its widget outputs are moved.    *)
EXTENDS NotebookSave, TLC

CONSTANTS plain, other, widgets, none, invalid

MCContents == {none, plain, other, widgets}
MCPrepared == none :> invalid @@ plain :> plain @@ other :> other
                @@ widgets :> plain

\* One mount with the definition API and a prewarmer, and one with the content
\* endpoint and without.
MCSetups == {[contentAPI |-> FALSE, prewarming |-> TRUE],
             [contentAPI |-> TRUE, prewarming |-> FALSE]}

Symmetry == Permutations(Others)
=============================================================================
