----------------------------- MODULE MCLakeSave -----------------------------
(* An instance of LakeSave for TLC: an empty content and one that is uploaded *)
(* in two chunks.  A behaviour either uses one path for two uploads, or both  *)
(* paths for one upload and renames between them; then other clients leave    *)
(* the stage alone and nobody empties a file.                                 *)
EXTENDS LakeSave, TLC

CONSTANTS none, text

VARIABLE used   \* the paths that this behaviour uses

MCChunks == none :> 0 @@ text :> 2

Symmetry == Permutations(Paths)

MCInit ==
    /\ Init
    /\ used \in SUBSET Paths \ {{}}
    /\ from \in used
    /\ \A p \in Paths \ used : files[p] = Absent
    /\ used = Paths => \A p \in Paths : Exists(p) => files[p].data = text

ModestEdit ==
    /\ \A i \in Puts : files'[i] = files[i]
    /\ \A p \in Paths : files'[p] \in {files[p], Absent} \/ files'[p].data = text

MCNext ==
    /\ Next
    /\ UNCHANGED used
    /\ to' \in used
    /\ \A p \in Paths \ used : files'[p] = Absent
    /\ used = Paths => /\ puts' <= 1
                       /\ edits' # edits => ModestEdit
                       /\ local' \in {local, text} \/ pc = "idle"

MCSpec == MCInit /\ [][MCNext]_<<vars, used>>
=============================================================================
