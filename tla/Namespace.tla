----------------------------- MODULE Namespace ------------------------------
(***************************************************************************)
(* Fabric folders and items as directories: the cached folder tree and     *)
(* mkdir, rmdir, lookup and listing (internal/workspacefs: folders.go,     *)
(* managed_mutations.go, catalog.go), and the catalog that gives every     *)
(* object a name in its directory (internal/namespace/catalog.go).         *)
(*                                                                         *)
(* The adapters run mkdir and rmdir under the write lock of their tree and *)
(* everything else here under the read lock.  Other clients of the service *)
(* are not locked out: they create, delete, rename and move objects at any *)
(* moment, also between two pages of one listing.                          *)
(*                                                                         *)
(* One workspace is modelled.  An object is named by its ID, and no ID is  *)
(* ever used again.  A label is a display name with the suffix of a type.  *)
(***************************************************************************)
EXTENDS Integers, FiniteSets, Functions

CONSTANTS
    Clients,   \* requests of the kernel that are being served
    Folders,   \* IDs of folders,
    Lakes,     \* of Lakehouses, the items that can be removed, and
    Hidden,    \* of items whose type is not shown
    Root,      \* stands for the workspace as a directory
    FolderLabels, ItemLabels,
    Alias(_, _),  \* the name with the n-th ordinal for a label
    Files, Tables,   \* the roots of a Lakehouse
    None, Unborn, Gone,
    MaxAliases,   \* the limit of the catalog
    MaxEdits      \* bound on the changes by other clients

Ids    == Folders \cup Lakes \cup Hidden
Labels == FolderLabels \cup ItemLabels

\* Where objects are, and what a listing of them may give.
Places == [parent : {Root} \cup Folders, label : Labels]
Trees  == UNION {[S -> Places] : S \in SUBSET Ids}

\* A load of the tree: leader, joined callers, what is to be and has been listed.
Loads == [leader : Clients, joined : SUBSET Clients, todo : SUBSET Ids, tree : Trees]

\* Catalog sorts by ID, so IDs are numbers here.
ASSUME NamespaceAssumption ==
    /\ Ids \subseteq Nat /\ Root \notin Ids
    /\ None \notin Ids \cup Trees \cup Loads
    /\ Unborn # Gone /\ Unborn \notin Places /\ Gone \notin Places
    /\ Files # Tables /\ {Files, Tables} \cap {"look", "verify", "send", "wait"} = {}
    /\ Folders \cap (Lakes \cup Hidden) = {} /\ Lakes \cap Hidden = {}
    /\ FolderLabels \cap ItemLabels = {}
    /\ MaxAliases \in Nat /\ MaxEdits \in Nat

VARIABLES
    remote,   \* [Ids -> {Unborn, Gone} or parent and label] (external)
    data,     \* [Lakes -> the roots that are not empty] (external)
    edits,    \* changes by other clients so far (external)
    cached,   \* FS.catalogs: the retained tree
    load,     \* its flight, if there is one
    assigned, \* Catalog.assignments: <<directory, ID, label>> to name
    op,       \* the requests being served: a function from clients
    request,  \* what they sent to the service, until that is over (external)
    shown,    \* history: <<directory, ID, label, name>> given to callers
    made,     \* history: objects a successful mkdir has returned
    removed   \* history: objects a successful rmdir has deleted

namespaceVars == <<remote, data, edits, cached, load, assigned, op, request, shown,
          made, removed>>

-----------------------------------------------------------------------------
(* The tree: a function from the IDs that were listed. *)

Children(t, d) == {id \in DOMAIN t : t[id].parent = d}

\* A directory that the tree has.
Has(t, d) == d # Root => d \in DOMAIN t

\* buildFolderTree: no orphans and no cycles.  Each page is read at another
\* moment, so a listing may have either.
Whole(t) ==
    /\ \A id \in DOMAIN t : Has(t, t[id].parent)
    /\ \A F \in SUBSET (DOMAIN t \cap Folders) :
          F # {} => \E f \in F : t[f].parent \notin F

-----------------------------------------------------------------------------
(* The catalog.  X is a set of <<ID, label>>.  Names are never given up, so  *)
(* the ordinals below nextSuffix are taken and the counter is left out.      *)

Used(a, d)     == {a[k] : k \in {k \in DOMAIN a : k[1] = d}}
Unbound(a, d, X) == {x \in X : <<d, x[1], x[2]>> \notin DOMAIN a}
Room(a, d, X)  == Cardinality(DOMAIN a) + Cardinality(Unbound(a, d, X)) <= MaxAliases

\* Names: what is bound stays; display names that are free go to the lowest
\* ID first; then the others get, in the order of their IDs, the lowest ordinal
\* that makes a free name (nextSuffix only skips some that are taken).
Bindings(a, d, X) ==
    LET new == Unbound(a, d, X)
        genuine == {x \in new : /\ x[2] \notin Used(a, d)
                                /\ \A y \in new : y[2] = x[2] => x[1] <= y[1]}
        others == new \ genuine
        Taken(x, n) == Used(a, d) \cup {y[2] : y \in genuine} \cup
                           {Alias(y[2], n[y]) : y \in {y \in others : y[1] < x[1]}}
        Lowest(x, n) == /\ Alias(x[2], n[x]) \notin Taken(x, n)
                        /\ \A m \in 2..(n[x] - 1) : Alias(x[2], m) \in Taken(x, n)
        Bound(n) == [k \in {<<d, x[1], x[2]>> : x \in new} |->
                        IF <<k[2], k[3]>> \in genuine THEN k[3]
                        ELSE Alias(k[3], n[<<k[2], k[3]>>])]
    IN  {[k \in DOMAIN a \cup DOMAIN Bound(n) |->
             IF k \in DOMAIN a THEN a[k] ELSE Bound(n)[k]] :
           n \in {n \in [others -> 2..(Cardinality(Used(a, d)) + Cardinality(new) + 1)] :
                    \A x \in others : Lowest(x, n)}}

\* (mutant) Only the names of what is listed now count as taken.
NamesListed(a, d, X) ==
    Bindings([k \in {k \in DOMAIN a : k[1] # d \/ \E x \in X : k[2] = x[1]} |-> a[k]], d, X)

Names(a, d, X) == Bindings(a, d, X)

\* (mutant) A name that nothing is listed under is taken for free.
ReservedNever(a, d, n) == FALSE

\* Reserved: the name is, or once was, that of some object.
Reserved(a, d, n) == n \in Used(a, d)

\* managedChildren: the children of an exposed type with their labels.
Listed(t, d) == {<<id, t[id].label>> : id \in Children(t, d) \ Hidden}

-----------------------------------------------------------------------------
With(f, x, y) == [z \in DOMAIN f \cup {x} |-> IF z = x THEN y ELSE f[z]]
Without(f, S) == Restrict(f, DOMAIN f \ S)

Doing(c) == c \in DOMAIN op
At(c, s) == Doing(c) /\ op[c].step = s
Advance(c, s) == op' = [op EXCEPT ![c].step = s]
Mutating(c) == Doing(c) /\ op[c].kind \in {"mkdir", "rmdir"}

\* What is in something: objects in folders, data in the roots of Lakehouses.
Contained(r, m) ==
    {<<id, r[id].parent>> : id \in {id \in Ids : r[id] \notin {Unborn, Gone}}} \cup
        UNION {m[l] \X {l} : l \in {l \in Lakes : r[l] \notin {Unborn, Gone}}}

NamespaceInit ==
    /\ remote \in [Ids -> {Unborn} \cup Places]
    /\ LET t == [id \in {id \in Ids : remote[id] # Unborn} |-> remote[id]]
       IN  Whole(t) /\ \A id \in DOMAIN t : id \in Folders <=> t[id].label \in FolderLabels
    /\ data \in [Lakes -> SUBSET {Files, Tables}]
    /\ edits = 0
    /\ cached = None /\ load = None
    /\ assigned = << >>
    /\ op = << >> /\ request = << >>
    /\ shown = {} /\ made = {} /\ removed = {}

\* Directories that the kernel knows.
Known == {Root} \cup ({s[2] : s \in shown} \cap Folders)

\* A request gets the lock.  A directory to make is named by a label: the
\* canonical form that ParseCreation insists on.
Enter(c, kind, d, n) ==
    /\ ~Doing(c)
    /\ \A e \in Clients : ~Mutating(e)
    /\ kind \in {"mkdir", "rmdir"} => DOMAIN op = {}
    /\ d \in Known
    /\ IF kind = "mkdir" THEN n \in Labels
       ELSE IF kind = "rmdir" THEN \E s \in shown : s[1] = d /\ s[4] = n
       ELSE n = None
    /\ op' = With(op, c, [kind |-> kind, dir |-> d, name |-> n, step |-> "look",
                          tree |-> None, id |-> None,
                          inside |-> Contained(remote, data)])
    /\ UNCHANGED <<remote, data, edits, cached, load, assigned, request, shown,
                   made, removed>>

\* (mutant) rmdir is content with the tree that it found the name in.
ForgetNothing == UNCHANGED cached

\* InvalidateCatalog, before rmdir looks.  Whoever invalidates holds the
\* lock, so no load is in progress.
Forget == cached' = None

\* (mutant) The tree is kept after a change.
ForgetLater == UNCHANGED cached

\* InvalidateCatalog, deferred.
ForgetAfter == cached' = None

\* The request is over, with an error or not.
End(c) ==
    /\ op' = Without(op, {c})
    /\ IF op[c].step \in {"send", "wait"} THEN ForgetAfter ELSE UNCHANGED cached

-----------------------------------------------------------------------------
(* folderTree: the retained tree, a pending load, or one's own. *)

NeedsTree(c) ==
    /\ Doing(c) /\ op[c].step \in {"look", "verify"} /\ op[c].tree = None
    /\ load # None => c \notin load.joined

Hit(c) ==
    /\ NeedsTree(c) /\ cached # None
    /\ op' = [op EXCEPT ![c].tree = cached]
    /\ UNCHANGED <<remote, data, edits, cached, load, assigned, request, shown,
                   made, removed>>

Miss(c) ==
    /\ NeedsTree(c) /\ cached = None
    /\ load' = IF load = None
               THEN [leader |-> c, joined |-> {c}, todo |-> Ids, tree |-> << >>]
               ELSE [load EXCEPT !.joined = @ \cup {c}]
    /\ UNCHANGED <<remote, data, edits, cached, assigned, op, request, shown,
                   made, removed>>

\* Folders and items are listed side by side, each page by page.
ListPage(id) ==
    /\ load # None /\ id \in load.todo
    /\ \A j \in load.todo : j < id => (j \in Folders) # (id \in Folders)
    /\ load' = [load EXCEPT !.todo = @ \ {id},
                            !.tree = IF remote[id] \in {Unborn, Gone} THEN @
                                     ELSE With(@, id, remote[id])]
    /\ UNCHANGED <<remote, data, edits, cached, assigned, op, request, shown,
                   made, removed>>

LoadTree ==
    /\ load # None /\ load.todo = {} /\ Whole(load.tree)
    /\ cached' = load.tree
    /\ op' = [c \in DOMAIN op |-> IF c \in load.joined
                                  THEN [op[c] EXCEPT !.tree = load.tree] ELSE op[c]]
    /\ load' = None
    /\ UNCHANGED <<remote, data, edits, assigned, request, shown, made, removed>>

\* A page fails, the leader is canceled, or the tree is not whole.
LoadFails ==
    /\ load # None
    /\ op' = Without(op, load.joined)
    /\ load' = None
    /\ UNCHANGED <<remote, data, edits, cached, assigned, request, shown, made,
                   removed>>

\* The policy's TTL has passed; it may be zero.
ExpireTree ==
    /\ cached # None
    /\ cached' = None
    /\ UNCHANGED <<remote, data, edits, load, assigned, op, request, shown, made,
                   removed>>

\* A request fails or is canceled where it does not wait for an answer.
Fail(c) ==
    /\ Doing(c) /\ ~At(c, "wait")
    /\ load # None => load.leader # c
    /\ End(c)
    /\ load' = IF load = None THEN None ELSE [load EXCEPT !.joined = @ \ {c}]
    /\ UNCHANGED <<remote, data, edits, assigned, request, shown, made, removed>>

-----------------------------------------------------------------------------
(* What is done with a tree *)

\* ReadDir, and Lookup, which looks through what ReadDir returns.
Answer(c) ==
    LET d == op[c].dir
        t == op[c].tree
        X == Listed(t, d)
    IN  /\ At(c, "look") /\ t # None /\ op[c].kind = "list"
        /\ Has(t, d) /\ Room(assigned, d, X)
        /\ assigned' \in Names(assigned, d, X)
        /\ shown' = shown \cup {<<d, x[1], x[2], assigned'[<<d, x[1], x[2]>>]>> : x \in X}
        /\ End(c)
        /\ UNCHANGED <<remote, data, edits, load, request, made, removed>>

\* mkdirManaged: nothing has, or had, that name.
CheckName(c) ==
    LET d == op[c].dir
        t == op[c].tree
        X == Listed(t, d)
        n == op[c].name
    IN  /\ At(c, "look") /\ t # None /\ op[c].kind = "mkdir"
        /\ Has(t, d) /\ Room(assigned, d, X)
        /\ assigned' \in Names(assigned, d, X)
        /\ IF (\A x \in X : assigned'[<<d, x[1], x[2]>>] # n) /\ ~Reserved(assigned', d, n)
           THEN Advance(c, "send") /\ UNCHANGED cached
           ELSE End(c)
        /\ UNCHANGED <<remote, data, edits, load, request, shown, made, removed>>

\* remove of an adapter looks the name up; then removeManaged takes the lease,
\* which a file open below the object refuses.
Resolve(c) ==
    LET d == op[c].dir
        t == op[c].tree
        X == Listed(t, d)
    IN  /\ At(c, "look") /\ t # None /\ op[c].kind = "rmdir"
        /\ Has(t, d) /\ Room(assigned, d, X)
        /\ assigned' \in Names(assigned, d, X)
        /\ \/ \E x \in X :
                 /\ assigned'[<<d, x[1], x[2]>>] = op[c].name
                 /\ op' = [op EXCEPT ![c].id = x[1], ![c].step = "verify",
                                     ![c].tree = None]
                 /\ Forget
           \/ End(c)
        /\ UNCHANGED <<remote, data, edits, load, request, shown, made, removed>>

\* removeManaged with the fresh tree: the object is there, a folder is empty.
Verify(c) ==
    LET t == op[c].tree
        id == op[c].id
    IN  /\ At(c, "verify") /\ t # None /\ id \in DOMAIN t
        /\ \/ id \in Folders /\ Children(t, id) = {} /\ Advance(c, "send")
           \/ id \in Lakes /\ Advance(c, Files)
        /\ UNCHANGED <<remote, data, edits, cached, load, assigned, request,
                       shown, made, removed>>

\* The roots of a Lakehouse are listed one after the other, uncached.
ListRoot(c, root) ==
    /\ At(c, root) /\ root \notin data[op[c].id]
    /\ Advance(c, IF root = Files THEN Tables ELSE "send")
    /\ UNCHANGED <<remote, data, edits, cached, load, assigned, request, shown,
                   made, removed>>

-----------------------------------------------------------------------------
(* The request to the service *)

Send(c) ==
    /\ At(c, "send") /\ c \notin DOMAIN request
    /\ request' = With(request, c,
                     [kind |-> op[c].kind, dir |-> op[c].dir, label |-> op[c].name,
                      id |-> op[c].id, applied |-> FALSE, late |-> FALSE])
    /\ Advance(c, "wait")
    /\ UNCHANGED <<remote, data, edits, cached, load, assigned, shown, made,
                   removed>>

Exists(d) == d # Root => remote[d] \notin {Unborn, Gone}
Empty(f)  == \A id \in Ids : remote[id] \notin {Unborn, Gone} => remote[id].parent # f

\* A change of the service; what was taken out of something is noted.
Change(r, m) ==
    /\ remote' = r /\ data' = m
    /\ op' = [c \in DOMAIN op |-> [op[c] EXCEPT !.inside = @ \cap Contained(r, m)]]
    /\ UNCHANGED <<cached, load, assigned, shown, made, removed>>

Create(id, d, l) ==
    /\ remote[id] = Unborn /\ Exists(d)
    /\ id \in Folders <=> l \in FolderLabels
    /\ Change([remote EXCEPT ![id] = [parent |-> d, label |-> l]], data)

\* The service deletes only empty folders, but Lakehouses with their data.
Delete(id) ==
    /\ Exists(id) /\ Empty(id)
    /\ Change([remote EXCEPT ![id] = Gone], data)

Apply(c, id) ==
    LET r == request[c]
    IN  /\ c \in DOMAIN request /\ ~r.applied
        /\ IF r.kind = "mkdir" THEN id \notin Hidden /\ Create(id, r.dir, r.label)
                               ELSE id = r.id /\ Delete(id)
        /\ request' = IF r.late THEN Without(request, {c})
                      ELSE [request EXCEPT ![c].applied = TRUE, ![c].id = id]
        /\ UNCHANGED edits

\* An answer of success: the new directory gets its name.
Confirmed(c) ==
    LET r == request[c]
        X == {<<r.id, r.label>>}
    IN  /\ At(c, "wait") /\ r.applied
        /\ IF r.kind = "mkdir"
           THEN /\ Room(assigned, r.dir, X)
                /\ assigned' \in Names(assigned, r.dir, X)
                /\ shown' = shown \cup
                      {<<r.dir, r.id, r.label, assigned'[<<r.dir, r.id, r.label>>]>>}
                /\ made' = made \cup {r.id}
                /\ UNCHANGED removed
           ELSE /\ removed' = removed \cup {r.id}
                /\ UNCHANGED <<assigned, shown, made>>
        /\ request' = Without(request, {c})
        /\ End(c)
        /\ UNCHANGED <<remote, data, edits, load>>

\* A refusal, or no answer: the request has been applied, or will be, or not.
Refused(c, late) ==
    /\ At(c, "wait")
    /\ late => ~request[c].applied
    /\ request' = IF late THEN [request EXCEPT ![c].late = TRUE]
                          ELSE Without(request, {c})
    /\ End(c)
    /\ UNCHANGED <<remote, data, edits, load, assigned, shown, made, removed>>

Lost(c) ==
    /\ c \in DOMAIN request /\ request[c].late
    /\ request' = Without(request, {c})
    /\ UNCHANGED <<remote, data, edits, cached, load, assigned, op, shown, made,
                   removed>>

-----------------------------------------------------------------------------
(* Other clients of the service (external). *)

RenameOrMove(id, d, l) ==
    /\ Exists(id) /\ Exists(d)
    /\ id \in Folders <=> l \in FolderLabels
    /\ (d = remote[id].parent) # (l = remote[id].label)
    /\ LET r == [remote EXCEPT ![id] = [parent |-> d, label |-> l]]
       IN  /\ Whole([j \in {j \in Ids : Exists(j)} |-> r[j]])
           /\ Change(r, data)

Write(l, root) ==
    /\ Exists(l)
    /\ Change(remote, [data EXCEPT ![l] = IF root \in @ THEN @ \ {root} ELSE @ \cup {root}])

Edit ==
    /\ edits < MaxEdits /\ edits' = edits + 1
    /\ \/ \E id \in Ids, d \in Folders \cup {Root}, l \in Labels :
              Create(id, d, l) \/ RenameOrMove(id, d, l)
       \/ \E id \in Ids : Delete(id)
       \/ \E l \in Lakes, root \in {Files, Tables} : Write(l, root)
    /\ UNCHANGED request

-----------------------------------------------------------------------------
NamespaceNext ==
    \/ \E c \in Clients, kind \in {"list", "mkdir", "rmdir"}, d \in Known,
          n \in {None} \cup Labels \cup {s[4] : s \in shown} : Enter(c, kind, d, n)
    \/ \E c \in Clients :
          \/ Hit(c) \/ Miss(c) \/ Fail(c)
          \/ Answer(c) \/ CheckName(c) \/ Resolve(c) \/ Verify(c)
          \/ \E root \in {Files, Tables} : ListRoot(c, root)
          \/ Send(c) \/ Confirmed(c) \/ Lost(c)
          \/ \E id \in Ids : Apply(c, id)
          \/ \E late \in BOOLEAN : Refused(c, late)
    \/ \E id \in Ids : ListPage(id)
    \/ LoadTree \/ LoadFails \/ ExpireTree
    \/ Edit

NamespaceSpec == NamespaceInit /\ [][NamespaceNext]_namespaceVars

-----------------------------------------------------------------------------
(* Properties *)

\* A name never addresses two objects of a directory, and an object never
\* has two names for one display name, in the whole life of the mount, also
\* when objects are deleted, renamed back and forth, moved or made anew
\* (Catalog: "Deleted aliases remain reserved").
AliasesStay ==
    \A s, t \in shown : s[1] = t[1] =>
        /\ s[4] = t[4] => s[2] = t[2]
        /\ s[2] = t[2] /\ s[3] = t[3] => s[4] = t[4]

\* A successful mkdir has made the directory under the very name it was
\* asked for, whatever else has been found to have had that name
\* (mkdirManaged: Reserved, then Names).
CreatedAsAsked ==
    [][\A c \in Clients : Doing(c) /\ made' # made =>
           assigned'[<<op[c].dir, request[c].id, op[c].name>>] = op[c].name]_namespaceVars

\* Every tree that a request works with has what this mount made before the
\* request began and nobody has deleted since, and nothing that this mount
\* has removed (the invalidations of mkdirManaged and removeManaged).
OwnChangesSeen ==
    \A c \in Clients : Doing(c) /\ op[c].step = "look" /\ op[c].tree # None =>
        /\ DOMAIN op[c].tree \cap removed = {}
        /\ \A id \in made : Exists(id) => id \in DOMAIN op[c].tree

\* A delete is sent only for something that has lost, since rmdir began, all
\* that was in it then: items of any type, folders, files and tables
\* (removeManaged looks at a tree and at roots that it has read itself).
DeletesEmptied ==
    [][\A c \in Clients : c \notin DOMAIN request /\ c \in DOMAIN request' /\ op[c].kind = "rmdir" =>
           \A p \in op[c].inside : p[2] # op[c].id]_namespaceVars
=============================================================================
