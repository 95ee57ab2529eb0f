------------------------------ MODULE Overlay ------------------------------
(***************************************************************************)
(* The overlay store of internal/overlay: local dot-directories under      *)
(* <workspace>/<parent>/, whose entries and bytes are bounded by quotas    *)
(* that store.go and file.go account for in memory.                        *)
(*                                                                         *)
(* Every operation runs under Store.mu, so it is one action here.  What    *)
(* happens within it is with the disk: each of its steps may fail, the     *)
(* check of what it has just made may fail (the store is then poisoned),   *)
(* and the process may die between two steps.  New then scans the disk and *)
(* accounts for what it finds, or refuses the store.                       *)
(*                                                                         *)
(* A path is the sequence of its components: workspace, parent, then the   *)
(* user-visible names.  What resolve and validateComponent admit is given  *)
(* by the constants.                                                       *)
(***************************************************************************)
EXTENDS Integers, FiniteSets, Sequences, SequencesExt, Functions

CONSTANTS
    Scopes,       \* pairs <<workspace, parent>>
    Components,   \* valid names of entries
    Handles,      \* handles that may be open at a time
    Nodes,        \* identities of files and directories
    MaxDepth,     \* maxDepth
    MaxEntries,   \* Options.MaxEntries
    MaxBytes,     \* Options.MaxBytes
    MaxFileSize   \* Options.MaxFileSize

ASSUME OverlayAssumption ==
    /\ \A s \in Scopes : s = <<s[1], s[2]>>
    /\ MaxDepth \in Nat \ {0} /\ MaxEntries \in Nat \ {0}
    /\ MaxBytes \in Nat \ {0} /\ MaxFileSize \in Nat \ {0}

VARIABLES
    disk,       \* what exists: a function from paths to nodes (external)
    dirs,       \* the nodes that are directories (external)
    size,       \* [Nodes -> Nat]: the sizes of files (external)
    meddled,    \* history: somebody else has changed the storage
    state,      \* "down", "open" or "closed": whether there is a Store
    poison,     \* Store.poison # nil
    entries,    \* Store.entries: paths to [id, size]
    total,      \* quota.TotalBytes
    count,      \* quota.Entries
    containers, \* Store.containers: paths to nodes
    workspaces, \* Store.workspaces
    scopes,     \* Store.scopes
    handles     \* Store.handles: handles to [path, id, writable]

storage    == <<disk, dirs, size>>
accounting == <<entries, total, count, containers, workspaces, scopes>>
overlayVars == <<storage, meddled, state, poison, accounting, handles>>

Workspace(p) == SubSeq(p, 1, 1)
Scope(p)     == SubSeq(p, 1, 2)
Depth(p)     == Len(p) - 2
Within(p, q) == IsPrefix(q, p)

\* The locations that resolve accepts for an entry.
Locations ==
    {s \o r : s \in Scopes, r \in UNION {[1..d -> Components] : d \in 1..MaxDepth}}

Exists(p)   == p \in DOMAIN disk
IsDir(p)    == disk[p] \in dirs
Children(p) == {q \in DOMAIN disk : Len(q) = Len(p) + 1 /\ Within(q, p)}

\* Of paths P, those of entries, and those of length n.
Deep(P)    == {p \in P : Len(p) > 2}
Long(P, n) == {p \in P : Len(p) = n}

DiskEntries == Deep(DOMAIN disk)
DiskFiles   == {p \in DiskEntries : ~IsDir(p)}

\* The sum of f over S, as the number of its units.
SumOver(f, S) == Cardinality(UNION {{x} \X (1..f[x]) : x \in S})

\* A file has one path: checkPrivate refuses hard links.
DiskBytes == SumOver(size, {disk[p] : p \in DiskFiles})

\* f, with the values of g.
Joined(f, g) ==
    [x \in DOMAIN f \cup DOMAIN g |-> IF x \in DOMAIN g THEN g[x] ELSE f[x]]

Without(f, S) == Restrict(f, DOMAIN f \ S)

Nothing == << >>    \* the function with no paths

OverlayInit ==
    /\ disk = Nothing /\ dirs = {} /\ size = [n \in Nodes |-> 0]
    /\ meddled = FALSE
    /\ state = "down" /\ poison = FALSE
    /\ entries = Nothing /\ total = 0 /\ count = 0
    /\ containers = Nothing /\ workspaces = 0 /\ scopes = 0
    /\ handles = Nothing

-----------------------------------------------------------------------------
(* Nodes and checks *)

Files(es) == {p \in DOMAIN es : es[p].id \notin dirs}

\* Nodes that neither the disk nor the store knows.
Unused ==
    Nodes \ (Range(disk) \cup {entries[p].id : p \in DOMAIN entries}
             \cup Range(containers) \cup {handles[h].id : h \in DOMAIN handles})

\* Different new nodes for the paths P.
Fits(P, f)  == \A p, q \in P : f[p] = f[q] => p = q
Suffice(P)  == \E f \in [P -> Unused] : Fits(P, f)
NewNodes(P) == CHOOSE f \in [P -> Unused] : Fits(P, f)
NewNode     == CHOOSE n \in Unused : TRUE

\* checkLocked: neither closed nor poisoned.
Usable == state = "open" /\ ~poison

\* entryFor: the record is of the very thing that is there.
Recorded(p) ==
    Exists(p) /\ p \in DOMAIN entries /\ entries[p].id = disk[p]

\* known, for a container.
KnownContainer(c) == Exists(c) /\ c \in DOMAIN containers /\ containers[c] = disk[c]

\* refresh: the sizes that records P have on the disk by now.
Refreshed(es, P) ==
    [p \in DOMAIN es |->
        IF p \in P THEN [es[p] EXCEPT !.size = size[es[p].id]] ELSE es[p]]

Grown(es, P) ==
    LET F == P \cap Files(es)
    IN  SumOver([p \in F |-> size[es[p].id]], F) - SumOver([p \in F |-> es[p].size], F)

Refresh(P) ==
    /\ entries' = Refreshed(entries, P)
    /\ total' = total + Grown(entries, P)

Busy(p) == \E h \in DOMAIN handles : Within(handles[h].path, p)

Writer(id) == \E h \in DOMAIN handles : handles[h].writable /\ handles[h].id = id

\* growth, when the files have t bytes in all.
Growth(t, old, next) ==
    next <= MaxFileSize /\ (next > old => next - old <= MaxBytes - t)

\* destination: the parent is there, a directory, and known.
Destination(p) ==
    LET parent == Front(p)
    IN  /\ Exists(parent) /\ IsDir(parent)
        /\ IF Depth(p) = 1 THEN KnownContainer(parent) ELSE Recorded(parent)

\* The process dies: nothing but the disk is left.
Down ==
    /\ state' = "down" /\ poison' = FALSE
    /\ entries' = Nothing /\ total' = 0 /\ count' = 0
    /\ containers' = Nothing /\ workspaces' = 0 /\ scopes' = 0
    /\ handles' = Nothing

-----------------------------------------------------------------------------
(* Opening and closing the store *)

\* What scan requires of the storage.
Scannable ==
    /\ \A p \in DOMAIN disk : Len(p) <= 3 => IsDir(p)
    /\ \A p \in DiskEntries : p \in Locations
    /\ Cardinality(DiskEntries) <= MaxEntries
    /\ Cardinality(Long(DOMAIN disk, 1)) <= MaxEntries
    /\ Cardinality(Long(DOMAIN disk, 2)) <= MaxEntries
    /\ DiskBytes <= MaxBytes
    /\ \A p \in DiskFiles : size[disk[p]] <= MaxFileSize

\* (mutant) Directories are not counted.
CountedFiles == DiskFiles

\* scanEntries counts directories as well.
Counted == DiskEntries

New ==
    /\ state # "open" /\ Scannable
    /\ state' = "open" /\ poison' = FALSE
    /\ entries' = [p \in DiskEntries |-> [id |-> disk[p], size |-> size[disk[p]]]]
    /\ total' = DiskBytes
    /\ count' = Cardinality(Counted)
    /\ containers' = Without(disk, DiskEntries)
    /\ workspaces' = Cardinality(Long(DOMAIN disk, 1))
    /\ scopes' = Cardinality(Long(DOMAIN disk, 2))
    /\ handles' = Nothing
    /\ UNCHANGED <<storage, meddled>>

\* New returns an error for a storage that it does not accept.
Refuse ==
    /\ state # "open" /\ ~Scannable
    /\ UNCHANGED overlayVars

CloseStore ==
    /\ state = "open"
    /\ state' = "closed"
    /\ handles' = Nothing
    /\ UNCHANGED <<storage, meddled, poison, accounting>>

Crash ==
    /\ state = "open"
    /\ Down
    /\ UNCHANGED <<storage, meddled>>

\* Somebody else adds, removes or resizes something, once.
Meddle(p, n) ==
    /\ ~meddled
    /\ meddled' = TRUE
    /\ \/ /\ ~Exists(p) /\ Exists(Front(p)) /\ IsDir(Front(p)) /\ Unused # {}
          /\ disk' = Joined(disk, [r \in {p} |-> NewNode])
          /\ dirs' = IF Len(p) <= 3 THEN dirs \cup {NewNode} ELSE dirs \ {NewNode}
          /\ size' = [size EXCEPT ![NewNode] = n]
       \/ /\ Exists(p) /\ Children(p) = {}
          /\ disk' = Without(disk, {p})
          /\ UNCHANGED <<dirs, size>>
       \/ /\ Exists(p) /\ ~IsDir(p)
          /\ size' = [size EXCEPT ![disk[p]] = n]
          /\ UNCHANGED <<disk, dirs>>
    /\ UNCHANGED <<state, poison, accounting, handles>>

-----------------------------------------------------------------------------
(* Directories *)

\* Stat and List: what they have looked at is refreshed.
Look(P) ==
    /\ Usable /\ \A p \in P : Recorded(p)
    /\ Refresh(P)
    /\ UNCHANGED <<storage, meddled, state, poison, count, containers,
                   workspaces, scopes, handles>>

\* The directories D are made on the disk.
Made(D) ==
    LET new == NewNodes(D)
    IN  /\ Suffice(D)
        /\ disk' = Joined(disk, new)
        /\ dirs' = dirs \cup Range(new)
        /\ size' = [n \in Nodes |-> IF n \in Range(new) THEN 0 ELSE size[n]]

\* addCreated and the end of ensureContainers: D is accounted for.
Registered(D) ==
    LET E == Deep(D)
    IN  /\ entries' = Joined(entries, [r \in E |-> [id |-> disk'[r], size |-> 0]])
        /\ count' = count + Cardinality(E)
        /\ containers' = Joined(containers, Restrict(disk', D \ E))
        /\ workspaces' = workspaces + Cardinality(Long(D, 1))
        /\ scopes' = scopes + Cardinality(Long(D, 2))
        /\ UNCHANGED total

\* ensureContainers has no other obstacle than the disk.
Ensured(C) ==
    \A c \in C : /\ c \notin DOMAIN containers
                 /\ (IF Len(c) = 1 THEN workspaces ELSE scopes) < MaxEntries

\* reserveEntry.
Room == count < MaxEntries

\* The path itself, and the containers that a dot-directory takes with it.
Lineage(p) == {p} \cup IF Depth(p) = 1 THEN {Workspace(p), Scope(p)} ELSE {}

\* Mkdir makes what is missing, from the workspace downwards; it may get no
\* further than to length k, and the last thing made may fail its check.
Mkdir(p, end) ==
    LET missing == {r \in Lineage(p) : ~Exists(r)}
    IN  /\ Usable /\ ~Exists(p) /\ Room
        /\ \A c \in Lineage(p) \ missing : IsDir(c) /\ KnownContainer(c)
        /\ Depth(p) > 1 => Destination(p)
        /\ p \notin DOMAIN entries
        /\ \E k \in 0..Len(p) :
             LET done == {r \in missing : Len(r) <= k}
             IN  /\ Ensured(done \ {p})
                 /\ Made(done)
                 /\ CASE end = "ok" -> k = Len(p) /\ Registered(done)
                      [] end = "failed" -> p \notin done /\ Registered(done)
                      [] end = "unchecked" -> Long(done, k) # {} /\ Registered(done \ Long(done, k))
                      [] end = "crash" -> done # {} /\ Down
        /\ end # "crash" =>
             poison' = (end = "unchecked") /\ UNCHANGED <<state, handles>>
        /\ UNCHANGED meddled

\* forget, and the end of pruneContainers: entry p and containers C are no
\* longer accounted for.
Forgotten(p, C) ==
    /\ entries' = Without(entries, {p})
    /\ total' = total + Grown(entries, {p}) - (IF IsDir(p) THEN 0 ELSE size[disk[p]])
    /\ count' = count - 1
    /\ containers' = Without(containers, C)
    /\ workspaces' = workspaces - Cardinality(Long(C, 1))
    /\ scopes' = scopes - Cardinality(Long(C, 2))

\* pruneContainers: the containers that are empty once p is gone.
Pruned(p) ==
    IF Depth(p) > 1 \/ Children(Scope(p)) # {p} THEN {}
    ELSE IF Children(Workspace(p)) # {Scope(p)} THEN {Scope(p)}
    ELSE {Scope(p), Workspace(p)}

\* Remove, and its pruning as far as the containers of length k.
RemoveEntry(p, end) ==
    /\ Usable /\ Recorded(p) /\ ~Busy(p) /\ Children(p) = {}
    /\ \E k \in 1..3 :
         LET C == {c \in Pruned(p) : Len(c) >= k}
         IN  /\ end = "ok" => C = Pruned(p)
             /\ disk' = Without(disk, {p} \cup C)
             /\ IF end = "crash"
                  THEN Down
                  ELSE Forgotten(p, C) /\ UNCHANGED <<state, poison, handles>>
    /\ UNCHANGED <<dirs, size, meddled>>

\* (mutant) Only the directory itself is held against the limit.
ShallowOwn(p, q) == Depth(q) <= MaxDepth

\* No entry that moves along gets too deep.
Shallow(p, q) ==
    \A r \in {r \in DOMAIN entries : Within(r, p)} :
        Depth(q) + Len(r) - Len(p) <= MaxDepth

\* Path r, which begins with p, when that beginning has become q.
Onto(r, p, q) == q \o SubSeq(r, Len(p) + 1, Len(r))

Moved(f, p, q) ==
    LET Moving == {r \in DOMAIN f : Within(r, p)}
    IN  [r \in (DOMAIN f \ Moving) \cup {Onto(m, p, q) : m \in Moving} |->
            IF Within(r, q) /\ Onto(r, q, p) \in Moving THEN f[Onto(r, q, p)] ELSE f[r]]

\* Rename within a scope.  A target is a file that a file replaces.
Rename(p, q, crash) ==
    LET target == IF Exists(q) THEN {q} ELSE {}
    IN  /\ Usable /\ Recorded(p) /\ p # q /\ Scope(p) = Scope(q)
        /\ Destination(q)
        /\ ~IsDir(p) => Depth(q) > 1
        /\ Exists(q) => Recorded(q) /\ ~IsDir(q) /\ ~IsDir(p)
        /\ ~Busy(p) /\ ~Busy(q)
        /\ IsDir(p) => ~Within(q, p)
        /\ Shallow(p, q)
        /\ disk' = Moved(disk, p, q)
        /\ IF crash
             THEN Down
             ELSE /\ entries' = Moved(Refreshed(Without(entries, target), {p}), p, q)
                  /\ total' = total + Grown(entries, {p} \cup target)
                              - (IF Exists(q) THEN size[disk[q]] ELSE 0)
                  /\ count' = count - Cardinality(target)
                  /\ UNCHANGED <<state, poison, containers, workspaces, scopes, handles>>
        /\ UNCHANGED <<dirs, size, meddled>>

-----------------------------------------------------------------------------
(* Files *)

WithHandle(h, p, id, writable) ==
    handles' = Joined(handles, [x \in {h} |-> [path |-> p, id |-> id, writable |-> writable]])

\* A step on node id that leaves it with n bytes: refreshLocked accounts for
\* them, or fails and poisons the store.
Resize(p, id, n, seen) ==
    /\ size' = [size EXCEPT ![id] = n]
    /\ poison' = ~seen
    /\ entries' = [entries EXCEPT ![p].size = IF seen THEN n ELSE size[id]]
    /\ total' = total + Grown(entries, {p}) + (IF seen THEN n - size[id] ELSE 0)

\* One writer per file.
Shareable(id, writable) == writable => ~Writer(id)

\* Open of a file; with O_TRUNC it is emptied, or the handle is closed again.
Open(h, p, writable, trunc, ok, seen) ==
    /\ Usable /\ h \notin DOMAIN handles
    /\ Recorded(p) /\ ~IsDir(p)
    /\ Shareable(entries[p].id, writable)
    /\ trunc => writable
    /\ IF trunc THEN Resize(p, disk[p], IF ok THEN 0 ELSE size[disk[p]], seen)
                ELSE ok /\ seen /\ Refresh({p}) /\ UNCHANGED <<size, poison>>
    /\ IF ok /\ seen THEN WithHandle(h, p, disk[p], writable) ELSE UNCHANGED handles
    /\ UNCHANGED <<disk, dirs, meddled, state, count, containers, workspaces,
                   scopes>>

\* Create: a file that cannot be checked stays on the disk.
Create(h, p, writable, end) ==
    /\ Usable /\ h \notin DOMAIN handles
    /\ ~Exists(p) /\ Depth(p) > 1 /\ Destination(p)
    /\ p \notin DOMAIN entries /\ Room
    /\ Unused # {}
    /\ LET id == NewNode
       IN  /\ disk' = Joined(disk, [r \in {p} |-> id])
           /\ dirs' = dirs \ {id}
           /\ size' = [size EXCEPT ![id] = 0]
           /\ CASE end = "ok" ->
                     /\ entries' = Joined(entries, [r \in {p} |-> [id |-> id, size |-> 0]])
                     /\ count' = count + 1
                     /\ WithHandle(h, p, id, writable)
                     /\ UNCHANGED <<state, poison, total, containers, workspaces, scopes>>
                [] end = "unchecked" ->
                     poison' = TRUE /\ UNCHANGED <<state, accounting, handles>>
                [] end = "crash" -> Down
    /\ UNCHANGED meddled

\* WriteAt and Truncate to n bytes, of which got are there in the end.
Write(h, n, got, seen) ==
    LET p == handles[h].path
        id == handles[h].id
    IN  /\ Usable /\ handles[h].writable
        /\ Growth(total + Grown(entries, {p}), size[id], n)
        /\ got = n \/ got \in size[id]..n \/ got = size[id]
        /\ Resize(p, id, got, seen)
        /\ UNCHANGED <<disk, dirs, meddled, state, count, containers,
                       workspaces, scopes, handles>>

\* ReadAt, Size and the refresh of a refused write; Size poisons the store.
ReadAt(h, seen) ==
    /\ Usable
    /\ IF seen THEN Refresh({handles[h].path}) /\ UNCHANGED poison
               ELSE poison' = TRUE /\ UNCHANGED <<entries, total>>
    /\ UNCHANGED <<storage, meddled, state, count, containers, workspaces,
                   scopes, handles>>

CloseFile(h) ==
    /\ handles' = Without(handles, {h})
    /\ UNCHANGED <<storage, meddled, state, poison, accounting>>

-----------------------------------------------------------------------------
Sizes == 0..MaxFileSize

OverlayNext ==
    \/ New \/ Refuse \/ CloseStore \/ Crash
    \/ \E p \in Locations :
         \/ \E n \in Sizes : Meddle(p, n)
         \/ Look({p}) \/ Look(Children(p))
         \/ \E end \in {"ok", "failed", "unchecked", "crash"} : Mkdir(p, end)
         \/ \E end \in {"ok", "failed", "crash"} : RemoveEntry(p, end)
         \/ \E q \in Locations, crash \in BOOLEAN : Rename(p, q, crash)
         \/ \E h \in Handles, writable, trunc, ok, seen \in BOOLEAN :
              Open(h, p, writable, trunc, ok, seen)
         \/ \E h \in Handles, writable \in BOOLEAN, end \in {"ok", "unchecked", "crash"} :
              Create(h, p, writable, end)
    \/ \E h \in DOMAIN handles :
         \/ CloseFile(h)
         \/ \E seen \in BOOLEAN : ReadAt(h, seen)
         \/ \E n, got \in Sizes, seen \in BOOLEAN : Write(h, n, got, seen)

OverlaySpec == OverlayInit /\ [][OverlayNext]_overlayVars

-----------------------------------------------------------------------------
(* Properties *)

\* Every variable has the type of what it stands for.
OverlayTypeOK ==
    /\ Range(disk) \subseteq Nodes /\ dirs \subseteq Nodes
    /\ size \in [Nodes -> Sizes]
    /\ meddled \in BOOLEAN /\ poison \in BOOLEAN
    /\ state \in {"down", "open", "closed"}
    /\ \A p \in DOMAIN entries : entries[p] \in [id : Nodes, size : Nat]
    /\ total \in Nat /\ count \in Nat
    /\ Range(containers) \subseteq Nodes
    /\ workspaces \in Nat /\ scopes \in Nat
    /\ DOMAIN handles \subseteq Handles
    /\ Range(handles) \subseteq [path : Locations, id : Nodes, writable : BOOLEAN]

\* "New validates and accounts for existing storage", and from then on the
\* records, quotas and containers of a Store that still takes operations are
\* exactly what is on the disk - after partial writes, failed mkdirs, pruned
\* containers, moved directories, and whatever a former process left behind.
AccountsForDisk ==
    Usable /\ ~meddled =>
        /\ entries = [p \in DiskEntries |-> [id |-> disk[p], size |-> size[disk[p]]]]
        /\ count = Cardinality(DiskEntries) /\ total = DiskBytes
        /\ containers = Without(disk, DiskEntries)
        /\ workspaces = Cardinality(Long(DOMAIN disk, 1))
        /\ scopes = Cardinality(Long(DOMAIN disk, 2))

\* Whatever fails, and wherever the process dies, the storage stays one that
\* New accepts under the same options: the limits hold on the disk itself, no
\* entry is too deep, and dot-roots are directories.
RestartAccepts == ~meddled => Scannable
=============================================================================
