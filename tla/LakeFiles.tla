----------------------------- MODULE LakeFiles ------------------------------
(***************************************************************************)
(* What a mount promises of the files of a lakehouse, without stages,      *)
(* steps and answers: a path is a register that holds whole versions.  The *)
(* mount changes it by requests that name the versions they are about,     *)
(* which it has read; a request takes effect at once and at most once,     *)
(* while those versions are there, or never.  When it does is up to the    *)
(* service, and whether it has may remain unknown.                         *)
(***************************************************************************)
EXTENDS Integers

CONSTANTS
    Paths,
    Contents,
    Empty,     \* the content of what does not exist
    MaxPuts    \* bound on the number of uploads

VARIABLES
    store,    \* [Paths -> Version]
    last,     \* the last version tag given out
    edits,    \* the number of changes by others
    content,  \* [1..MaxPuts -> Contents]: what an upload is of
    puts,     \* uploads so far
    current,  \* the upload that has yet to ask for its commit, or 0
    read,     \* paths whose version the mount has read
    asked     \* requests that may still take effect

fileVars == <<store, last, edits, content, puts, current, read, asked>>

NoTag == 0
None  == [tag |-> NoTag, data |-> Empty, put |-> 0]

Version == [tag : Nat \ {NoTag}, data : Contents, put : 0..MaxPuts] \cup {None}

Init ==
    /\ store \in [Paths -> Version]
    /\ last \in Nat /\ \A p \in Paths : store[p].tag <= last
    /\ edits = 0
    /\ content = [i \in 1..MaxPuts |-> Empty]
    /\ puts = 0 /\ current = 0
    /\ read = {} /\ asked = {}

\* An upload of c begins.
Begin(c) ==
    /\ puts < MaxPuts
    /\ puts' = puts + 1 /\ current' = puts + 1
    /\ content' = [content EXCEPT ![puts + 1] = c]
    /\ UNCHANGED <<store, last, edits, read, asked>>

\* The mount reads paths or gives up its upload, requests are refused, and
\* others use other files.
Elsewhere ==
    /\ last' >= last /\ edits' >= edits
    /\ read \subseteq read'
    /\ asked' \subseteq asked
    /\ current' \in {0, current}
    /\ UNCHANGED <<store, content, puts>>

\* If version tag is what is at p, it has been read.
Known(p, tag) == store[p] # None /\ store[p].tag = tag => p \in read'

\* The mount asks for r, which is to replace, move or delete versions that it
\* knows; an upload asks once, and not to replace itself or a later one.
Ask(r) ==
    /\ asked' = asked \cup {r} /\ read \subseteq read'
    /\ Known(r.to, r.dtag)
    /\ r.from \in Paths => Known(r.from, r.stag)
    /\ IF r.from \in Paths
         THEN current' = current
         ELSE /\ r.from = current /\ current' = 0
              /\ store[r.to].tag = r.dtag => store[r.to].put < r.from
    /\ UNCHANGED <<store, last, edits, content, puts>>

\* Versions f are stored; one that has been replaced is not known any more.
Stored(f) ==
    /\ store' = f
    /\ read' \subseteq {p \in read : store'[p] = store[p]}
    /\ UNCHANGED <<content, puts, current>>

\* The version that r is to replace or delete is the one that is there.
Expected(r) ==
    /\ r \in asked /\ asked' \subseteq asked \ {r}
    /\ store[r.to].tag = r.dtag
    /\ UNCHANGED edits

\* A request takes effect: the commit of an upload, which is there as a whole;
Save(r) ==
    /\ Expected(r) /\ r.op = "rename" /\ r.from \notin Paths
    /\ last' > last
    /\ Stored([store EXCEPT ![r.to] =
                  [tag |-> last', data |-> content[r.from], put |-> r.from]])

\* a rename, which moves what the mount has looked at;
Move(r) ==
    /\ Expected(r) /\ r.op = "rename" /\ r.from \in Paths
    /\ store[r.from] # None /\ store[r.from].tag = r.stag
    /\ last' > last
    /\ Stored([store EXCEPT ![r.from] = None,
                            ![r.to] = [tag |-> last', data |-> store[r.from].data, put |-> 0]])

\* or a delete.
Delete(r) ==
    /\ Expected(r) /\ r.op = "delete" /\ store[r.to] # None
    /\ last' = last
    /\ Stored([store EXCEPT ![r.to] = None])

\* Somebody else writes or deletes p.
Other(p, c) ==
    /\ edits' = edits + 1
    /\ asked' \subseteq asked
    /\ \/ last' > last /\ Stored([store EXCEPT ![p] = [tag |-> last', data |-> c, put |-> 0]])
       \/ last' = last /\ Stored([store EXCEPT ![p] = None])

Next ==
    \/ Elsewhere
    \/ \E c \in Contents : Begin(c)
    \/ \E r \in asked : Save(r) \/ Move(r) \/ Delete(r)
    \/ \E p \in Paths, c \in Contents : Other(p, c)
    \/ \E r \in asked' : Ask(r)

Spec == Init /\ [][Next]_fileVars
=============================================================================
