------------------------------ MODULE MCLeases ------------------------------
(* Instances of Leases for TLC: a directory with two files in it, one of     *)
(* them a notebook whose content file can be renamed remotely.               *)
EXTENDS Leases, TLC

CONSTANTS dir, data, oldName, newName, lakeFile, notebook

MCKeys == {dir, data, oldName, newName}
MCFiles == {lakeFile, notebook}
MCKeysOf == lakeFile :> {data} @@ notebook :> {oldName, newName}
MCBelow == [k \in MCKeys |-> IF k = dir THEN MCKeys ELSE {k}]

\* mkdir of an item (no key), remove of a file, of the tree, rename of a file.
MCScopes == {{}, {data}, {dir}, {data, oldName}}

Symmetry == Permutations(Clients)
=============================================================================
