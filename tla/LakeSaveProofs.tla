--------------------------- MODULE LakeSaveProofs ---------------------------
(* Theorems about LakeSave, for any paths, contents and number of uploads.   *)
EXTENDS LakeSave, TLAPS

-----------------------------------------------------------------------------
(* The invariant *)

\* The last upload whose stage the service may have been asked for.
Begun == IF pc = "create" THEN puts - 1 ELSE puts

\* The steps of an upload, and those of a rename that is none.
Uploading == PutPCs \cup {"target", "rename", "verify"}
Moving    == \/ pc \in {"target stat", "source stat"}
             \/ pc \in {"target", "rename"} /\ ~Putting

\* TypeOK without its last parts, which depend on the step.
Types ==
    /\ files \in [Names -> File]
    /\ tags \in Nat /\ edits \in 0..MaxEdits
    /\ late \subseteq Request
    /\ pc \in PCs /\ job \in Jobs
    /\ from \in Names /\ to \in Paths
    /\ stag \in Nat /\ base \in Nat
    /\ puts \in 0..MaxPuts
    /\ content \in [Puts -> Contents]
    /\ local \in Contents /\ dirty \in BOOLEAN /\ spool \in BOOLEAN
    /\ known \subseteq Paths /\ excused \subseteq Puts
    /\ written \in BOOLEAN /\ reached \in BOOLEAN

\* What belongs to which step.
Shape ==
    /\ pc \in PutPCs => Putting
    /\ Putting => /\ pc \in Uploading
                  /\ puts \in Puts /\ from = puts
                  /\ pos \in 0..Chunks[content[puts]]
                  /\ spool
    /\ Moving => from \in Paths
    /\ pc = "open" => spool
    /\ job = "create" => ~written
    /\ job = "save" => local = content[puts]
    /\ pos \in Nat

\* ETags are given out in order, and only to what exists.
Tagged ==
    /\ stag <= tags /\ base <= tags
    /\ \A n \in Names : /\ files[n].tag <= tags
                        /\ ~Exists(n) => files[n] = Absent

\* n holds all of the upload of its name.
Exact(n) ==
    files[n].data = content[n] /\ files[n].len = Chunks[content[n]]

\* No stage exists before it is created; a path has whole files, and uploads
\* that have been made.
Placed ==
    /\ \A i \in Puts : i > Begun => files[i] = Absent
    /\ \A p \in Paths : /\ files[p].len = Chunks[files[p].data]
                        /\ files[p].put <= puts
                        /\ files[p].put # 0 => files[p].data = content[files[p].put]

\* The version tag of a path is one that the mount has read.
Seen(p, tag) == Exists(p) /\ files[p].tag = tag => p \in known

\* What the mount has made sure of before it sends the request r, and what
\* holds until r arrives: the versions that r is conditional on have been read,
\* are whole, and are of earlier uploads.
Due(r) ==
    /\ r.stag \in 0..tags /\ r.dtag \in 0..tags
    /\ r.op \in {"create", "flush"} => r.to \in Puts
    /\ r.op = "create" => r.dtag = NoTag
    /\ r.op = "rename" =>
          /\ r.to \in Paths
          /\ r.from \in Paths => Seen(r.from, r.stag)
          /\ r.from \in Puts =>
                /\ r.from <= puts
                /\ Exists(r.from) /\ files[r.from].tag = r.stag => Exact(r.from)
                /\ files[r.to].tag = r.dtag => files[r.to].put < r.from
    /\ r.op \in {"rename", "delete"} /\ r.to \in Paths => Seen(r.to, r.dtag)
    /\ r.op = "delete" /\ r.to \in Puts =>
          (Exists(r.to) /\ files[r.to].tag = r.dtag => files[r.to].owner = r.to)

\* A request on its way is for a stage that has been asked for, and a create
\* has been excused.
Requests ==
    \A r \in late : /\ Due(r)
                    /\ r.to \in Puts => r.to <= Begun
                    /\ r.op = "create" => r.to \in excused

\* What the current step knows of the source and of the target.
Step1 ==
    /\ pc \notin {"idle", "target stat"} => Seen(to, base)
    /\ Moving => Seen(from, stag)
    /\ Putting /\ pc \in {"stat", "target", "rename"} =>
          (Exists(from) /\ files[from].tag = stag => Exact(from))
    /\ pc = "cleandelete" =>
          (Exists(from) /\ files[from].tag = stag => files[from].owner = from)
    /\ Putting => (files[to].tag = base => files[to].put < puts)
    /\ pc = "verify" /\ job = "save" /\ written => reached
    /\ pc = "verify" /\ Putting /\ files[from].owner = from => from \in excused

LInv == /\ Types /\ Shape /\ Tagged /\ Placed /\ Requests /\ Step1
        /\ SavedOrKept /\ StagesCleaned

-----------------------------------------------------------------------------
(* What changes of the service mean for the invariant *)

\* A step of the system as requests on their way see it: what changes in the
\* service has a new version tag or is gone, and histories only grow.
Evolves ==
    /\ tags' \in {tags, tags + 1} /\ puts <= puts' /\ Begun <= Begun'
    /\ \A n \in Names : \/ files'[n] = files[n] \/ files'[n] = Absent
                        \/ files'[n].tag = tags + 1 /\ tags' = tags + 1
    /\ \A p \in known : files'[p] = files[p] => p \in known'
    /\ \A i \in Puts : i <= puts => content'[i] = content[i]
    /\ excused \subseteq excused'

LEMMA Tags ==
    ASSUME Types, Tagged
    PROVE  /\ tags \in Nat
           /\ \A n \in Names : /\ files[n] \in File /\ files[n].tag \in 0..tags
                               /\ files[n].tag = 0 => files[n] = Absent
  BY DEF Types, Tagged, Exists, NoTag, File

LEMMA AbsentFields ==
    /\ Absent \in File /\ Absent.tag = 0 /\ Absent.put = 0 /\ Absent.owner = 0
    /\ Absent.data = Empty /\ Absent.len = 0
  BY LakeSaveAssumption DEF Absent, File, NoTag

\* A request that was due stays so.
LEMMA DueKept ==
    ASSUME Types, Types', Tagged, Evolves, NEW r \in Request, Due(r)
    PROVE  Due(r)'
<1>0. /\ r.from \in Names /\ r.to \in Names /\ r.stag \in Int /\ r.dtag \in Int
      /\ r.stag \in 0..tags /\ r.dtag \in 0..tags /\ tags \in Nat
      /\ puts \in Nat /\ puts' \in Nat /\ Begun \in Int /\ Begun' \in Int
  BY DEF Request, Types, Due, Begun
<1>1. ASSUME NEW n \in Names, NEW s \in 0..tags, files'[n].tag = s, files'[n].tag # 0
      PROVE  files'[n] = files[n]
  BY <1>0, <1>1, AbsentFields DEF Evolves
<1>2. ASSUME NEW p \in Paths, NEW s \in 0..tags, Seen(p, s)
      PROVE  Seen(p, s)'
  BY <1>1, <1>2 DEF Seen, Exists, NoTag, Evolves, Names
<1>3. ASSUME r.op = "rename", r.from \in Puts
      PROVE  /\ r.from <= puts'
             /\ Exists(r.from)' /\ files'[r.from].tag = r.stag => Exact(r.from)'
             /\ files'[r.to].tag = r.dtag => files'[r.to].put < r.from
  <2>1. r.from <= puts' /\ r.from <= puts /\ r.from \in Nat \ {0}
    BY <1>0, <1>3 DEF Due, Evolves, Puts
  <2>2. Exists(r.from)' /\ files'[r.from].tag = r.stag => Exact(r.from)'
    <3>1. content'[r.from] = content[r.from]
      BY <1>3, <2>1 DEF Evolves
    <3> QED
      BY <1>0, <1>1, <1>3, <3>1 DEF Due, Exists, Exact, NoTag
  <2>3. files'[r.to].tag = r.dtag => files'[r.to].put < r.from
    <3>1. CASE files'[r.to].tag = 0
      <4>1. files'[r.to] = files[r.to] \/ files'[r.to] = Absent
        BY <1>0, <3>1 DEF Evolves
      <4>2. files[r.to].tag = 0 => files[r.to] = Absent
        BY <1>0, Tags
      <4> QED
        BY <2>1, <3>1, <4>1, <4>2, AbsentFields
    <3>2. CASE files'[r.to].tag # 0
      BY <1>0, <1>1, <1>3, <3>2 DEF Due
    <3> QED
      BY <3>1, <3>2
  <2> QED
    BY <2>1, <2>2, <2>3
<1>4. r.op = "delete" /\ r.to \in Puts =>
        (Exists(r.to)' /\ files'[r.to].tag = r.dtag => files'[r.to].owner = r.to)
  BY <1>0, <1>1 DEF Due, Exists, NoTag
<1>5. r.stag \in 0..tags' /\ r.dtag \in 0..tags'
  BY <1>0 DEF Evolves
<1> QED
  BY <1>0, <1>2, <1>3, <1>4, <1>5 DEF Due

LEMMA RequestsKept ==
    ASSUME Types, Types', Tagged, Evolves, Requests, NEW r \in late
    PROVE  /\ Due(r)'
           /\ r.to \in Puts => r.to <= Begun'
           /\ r.op = "create" => r.to \in excused'
<1>1. Due(r)' /\ (r.op = "create" => r.to \in excused')
  BY DueKept DEF Types, Requests, Evolves
<1>2. Begun \in Int /\ Begun' \in Int
  BY DEF Types, Begun
<1> QED
  BY <1>1, <1>2 DEF Requests, Evolves, Puts

\* What a request that is due makes of the file that it names.
LEMMA ResultTyped ==
    ASSUME Types, NEW r \in Request, Due(r)
    PROVE  /\ Result(r) \in File
           /\ r.op # "delete" => Result(r).tag = tags + 1
           /\ r.op = "delete" => Result(r) = Absent
<1>0. /\ r.op \in {"create", "flush", "rename", "delete"} /\ tags \in Nat
      /\ r.from \in Names /\ r.to \in Names /\ files \in [Names -> File]
      /\ content \in [Puts -> Contents]
      /\ \A c \in Contents : Chunks[c] \in Nat
      /\ MaxPuts \in Nat /\ Empty \in Contents
  BY LakeSaveAssumption DEF Request, Types
<1>1. CASE r.op = "create"
  <2>1. r.to \in 0..MaxPuts
    BY <1>0, <1>1 DEF Due, Puts
  <2> QED
    BY <1>0, <1>1, <2>1 DEF Result, File
<1>2. CASE r.op = "flush"
  <2>1. r.to \in Puts
    BY <1>2 DEF Due
  <2>2. files[r.to].owner \in 0..MaxPuts /\ content[r.to] \in Contents
    BY <1>0, <2>1 DEF File
  <2> QED
    BY <1>0, <1>2, <2>2 DEF Result, File
<1>3. CASE r.op = "rename"
  <2>1. (IF r.from \in Puts THEN r.from ELSE 0) \in 0..MaxPuts
    BY <1>0 DEF Puts
  <2>2. files[r.from].data \in Contents /\ files[r.from].len \in Nat
    BY <1>0 DEF File
  <2> QED
    BY <1>0, <1>3, <2>1, <2>2 DEF Result, File
<1>4. CASE r.op = "delete"
  BY <1>0, <1>4, AbsentFields DEF Result
<1> QED
  BY <1>0, <1>1, <1>2, <1>3, <1>4

\* The service applies a request that is due, while the client's uploads stay.
LEMMA Applying ==
    ASSUME Types, Tagged, Placed, NEW r \in Request, Due(r), Apply(r),
           puts' = puts, content' = content, Begun <= Begun', excused \subseteq excused',
           r.to \in Puts => r.to <= Begun'
    PROVE  /\ Evolves
           /\ files' \in [Names -> File] /\ tags' \in Nat /\ edits' = edits
           /\ late' \subseteq late \ {r}
           /\ known' \subseteq known /\ reached' \in BOOLEAN
           /\ \A n \in Names : files'[n].tag <= tags' /\ (files'[n].tag = 0 => files'[n] = Absent)
           /\ Placed'
           /\ \A i \in Puts : files'[i].owner = i =>
                 files[i].owner = i \/ (r.op = "create" /\ r.to = i)
           /\ reached => reached'
<1>0. /\ r.op \in {"create", "flush", "rename", "delete"} /\ tags \in Nat
      /\ r.from \in Names /\ r.to \in Names /\ files \in [Names -> File]
      /\ content \in [Puts -> Contents]
      /\ r.stag \in 0..tags /\ r.dtag \in 0..tags
      /\ puts \in Nat /\ Begun \in Int /\ Begun' \in Int
  BY LakeSaveAssumption DEF Request, Types, Due, Begun
<1>1. tags' = IF r.op = "delete" THEN tags ELSE tags + 1
  BY DEF Apply
<1>2. ASSUME NEW n \in Names
      PROVE  files'[n] = IF n = r.to THEN Result(r)
                         ELSE IF r.op = "rename" /\ n = r.from THEN Absent ELSE files[n]
  BY <1>2 DEF Apply, Applied
<1>3. files' \in [Names -> File]
  BY <1>0, ResultTyped, AbsentFields DEF Apply, Applied
<1>4. \A n \in Names : \/ files'[n] = files[n] \/ files'[n] = Absent
                       \/ files'[n].tag = tags + 1 /\ tags' = tags + 1
  BY <1>0, <1>1, <1>2, ResultTyped
<1>5. Evolves
  BY <1>0, <1>1, <1>4 DEF Evolves, Apply, Noticed
<1>6. \A n \in Names : files'[n].tag <= tags' /\ (files'[n].tag = 0 => files'[n] = Absent)
  BY <1>0, <1>1, <1>4, Tags, AbsentFields
<1>7. late' \subseteq late \ {r} /\ known' \subseteq known
      /\ reached' \in BOOLEAN /\ (reached => reached')
  BY DEF Apply, Noticed, Pending, Types
<1>8. \A i \in Puts : i > Begun' => files'[i] = Absent
  <2> SUFFICES ASSUME NEW i \in Puts, i > Begun' PROVE files'[i] = Absent
    OBVIOUS
  <2>1. i \in Int /\ i > Begun /\ i \in Names
    BY <1>0 DEF Puts, Names
  <2>2. i # r.to
    BY <1>0, <2>1
  <2>3. files[i] = Absent
    BY <2>1 DEF Placed
  <2> QED
    BY <1>2, <2>1, <2>2, <2>3
<1>9. ASSUME NEW p \in Paths
      PROVE  /\ files'[p].len = Chunks[files'[p].data]
             /\ files'[p].put <= puts
             /\ files'[p].put # 0 => files'[p].data = content[files'[p].put]
  <2>0. p \in Names /\ p \notin Puts
    BY LakeSaveAssumption DEF Names, Puts
  <2>1. CASE p # r.to
    BY <1>0, <1>2, <2>0, <2>1, AbsentFields, LakeSaveAssumption DEF Placed
  <2>2. CASE p = r.to /\ r.op = "delete"
    BY <1>0, <1>2, <2>0, <2>2, AbsentFields, LakeSaveAssumption, ResultTyped
  <2>3. CASE p = r.to /\ r.op = "rename"
    <3>1. files'[p] = Result(r) /\ Met(r.stag, r.from) /\ Exists(r.from)
      BY <1>2, <2>0, <2>3 DEF Apply, Holds
    <3>2. files[r.from].tag = r.stag
      BY <1>0, <3>1 DEF Met, AnyTag
    <3>3. CASE r.from \in Puts
      <4>1. Exact(r.from) /\ r.from <= puts
        BY <2>3, <3>1, <3>2, <3>3 DEF Due
      <4>2. /\ files'[p].data = files[r.from].data /\ files'[p].len = files[r.from].len
            /\ files'[p].put = r.from
        BY <2>3, <3>1, <3>3 DEF Result
      <4> QED
        BY <4>1, <4>2 DEF Exact
    <3>4. CASE r.from \notin Puts
      <4>1. r.from \in Paths
        BY <1>0, <3>4 DEF Names
      <4>2. /\ files'[p].data = files[r.from].data /\ files'[p].len = files[r.from].len
            /\ files'[p].put = 0
        BY <2>3, <3>1, <3>4 DEF Result
      <4> QED
        BY <1>0, <4>1, <4>2 DEF Placed
    <3> QED
      BY <3>3, <3>4
  <2> QED
    BY <1>0, <2>0, <2>1, <2>2, <2>3 DEF Due
<1>10. ASSUME NEW i \in Puts, files'[i].owner = i
       PROVE  files[i].owner = i \/ (r.op = "create" /\ r.to = i)
  <2>0. i \in Names /\ i # 0 /\ i \notin Paths
    BY LakeSaveAssumption DEF Puts, Names
  <2>1. CASE i = r.to
    <3>1. r.op # "rename"
      BY <2>0, <2>1 DEF Due
    <3>2. r.op = "flush" => files'[i].owner = files[i].owner
      BY <1>2, <2>0, <2>1 DEF Result
    <3>3. r.op # "delete"
      BY <1>2, <1>10, <2>0, <2>1, ResultTyped, AbsentFields
    <3> QED
      BY <1>0, <1>10, <2>1, <3>1, <3>2, <3>3
  <2>2. CASE i # r.to
    BY <1>2, <1>10, <2>0, <2>2, AbsentFields
  <2> QED
    BY <2>1, <2>2
<1>11. Placed'
  BY <1>8, <1>9 DEF Placed
<1>12. tags' \in Nat /\ edits' = edits
  BY <1>0, <1>1 DEF Apply
<1> QED
  BY <1>3, <1>5, <1>6, <1>7, <1>10, <1>11, <1>12

\* What a step of the client, or of the service, has to leave in order.
LEMMA Collect ==
    ASSUME LInv, Types', Evolves, Placed', Tagged', Shape', Step1',
           SavedOrKept', StagesCleaned',
           \A r \in late' \ late : /\ r \in Request /\ Due(r)
                                   /\ r.to \in Puts => r.to <= Begun'
                                   /\ r.op = "create" => r.to \in excused'
    PROVE  LInv'
<1>1. ASSUME NEW r \in late'
      PROVE  /\ Due(r)'
             /\ r.to \in Puts => r.to <= Begun'
             /\ r.op = "create" => r.to \in excused'
  BY RequestsKept, DueKept DEF LInv
<1>2. Requests'
  BY <1>1 DEF Requests
<1> QED
  BY <1>2 DEF LInv

\* A step of the client that changes nothing at the service.
LEMMA Unmoved ==
    ASSUME Types, Types', Tagged, Placed, UNCHANGED <<files, tags>>,
           puts <= puts', Begun <= Begun', known \subseteq known',
           excused \subseteq excused',
           \A i \in Puts : i <= puts => content'[i] = content[i]
    PROVE  /\ Evolves /\ Placed'
           /\ \A n \in Names : files'[n].tag <= tags' /\ (~Exists(n)' => files'[n] = Absent)
<1>1. /\ tags \in Nat /\ puts \in Nat /\ puts' \in Nat /\ Begun \in Int /\ Begun' \in Int
  BY DEF Types, Begun
<1>2. \A p \in Paths : p \in Names /\ files[p].put \in 0..MaxPuts
  BY DEF Types, Names, File
<1>3. MaxPuts \in Nat
  BY LakeSaveAssumption
<1>4. \A i \in 1..MaxPuts : i \in Puts
  BY DEF Puts
<1> QED
  <2>1. Evolves
    BY <1>1 DEF Evolves
  <2>2. \A i \in Puts : i > Begun' => files'[i] = Absent
    BY <1>1 DEF Placed, Puts
  <2>3. ASSUME NEW p \in Paths
        PROVE  /\ files'[p].len = Chunks[files'[p].data]
               /\ files'[p].put <= puts'
               /\ files'[p].put # 0 => files'[p].data = content'[files'[p].put]
    BY <1>1, <1>2, <1>3, <1>4, <2>3 DEF Placed
  <2> QED
    BY <2>1, <2>2, <2>3 DEF Placed, Tagged, Exists

\* The service moves on by itself: a late request or another client.
LEMMA Moved ==
    ASSUME LInv, Types', Evolves, Placed',
           UNCHANGED <<pc, job, from, to, stag, base, puts, pos, local, dirty, spool,
                       content, excused, written>>,
           late' \subseteq late, reached => reached',
           \A n \in Names : files'[n].tag <= tags' /\ (~Exists(n)' => files'[n] = Absent),
           \A i \in Puts : files'[i].owner = i => files[i].owner = i \/ i \in excused
    PROVE  LInv'
<1>0. /\ Types /\ Shape /\ Tagged /\ Placed /\ Requests /\ Step1
      /\ SavedOrKept /\ StagesCleaned
  BY DEF LInv
<1>1. Shape'
  BY <1>0 DEF Shape, Putting, Moving
<1>2. /\ tags \in Nat /\ tags' \in {tags, tags + 1} /\ stag \in 0..tags /\ base \in 0..tags
      /\ to \in Paths /\ from \in Names /\ to \in Names
  BY <1>0 DEF Types, Tagged, Evolves, Names
<1>3. Tagged'
  BY <1>2 DEF Tagged
<1>5. SavedOrKept'
  BY <1>0 DEF SavedOrKept
<1>6. StagesCleaned'
  BY <1>0 DEF StagesCleaned, Putting
<1>7. ASSUME NEW n \in Names, NEW s \in 0..tags, files'[n].tag = s
      PROVE  files'[n] = files[n] \/ files'[n] = Absent
  BY <1>2, <1>7 DEF Evolves
<1>8. ASSUME NEW p \in Paths, NEW s \in 0..tags, Seen(p, s)
      PROVE  Seen(p, s)'
  BY <1>7, <1>8, AbsentFields DEF Seen, Exists, NoTag, Evolves, Names
<1>9. Step1'
  <2>1. pc' \notin {"idle", "target stat"} => Seen(to, base)'
    BY <1>0, <1>2, <1>8 DEF Step1
  <2>2. Moving' => Seen(from, stag)'
    BY <1>0, <1>2, <1>8 DEF Step1, Shape, Moving, Putting
  <2>3. Putting' /\ pc' \in {"stat", "target", "rename"} =>
          (Exists(from)' /\ files'[from].tag = stag => Exact(from)')
    <3>1. Putting => content'[from] = content[from]
      OBVIOUS
    <3> QED
      BY <1>0, <1>2, <1>7, AbsentFields DEF Step1, Putting, Exists, Exact, NoTag
  <2>4. pc' = "cleandelete" =>
          (Exists(from)' /\ files'[from].tag = stag => files'[from].owner = from)
    BY <1>0, <1>2, <1>7, AbsentFields DEF Step1, Exists, NoTag
  <2>5. Putting' => (files'[to].tag = base => files'[to].put < puts')
    <3>1. Putting => puts \in Nat /\ puts > 0
      BY <1>0 DEF Shape, Puts
    <3> QED
      BY <1>0, <1>2, <1>7, <3>1, AbsentFields DEF Step1, Putting
  <2>6. pc' = "verify" /\ job' = "save" /\ written' => reached'
    BY <1>0 DEF Step1
  <2>7. pc' = "verify" /\ Putting' /\ files'[from].owner = from => from \in excused'
    <3>1. Putting => from \in Puts
      BY <1>0 DEF Shape
    <3> QED
      BY <1>0, <3>1 DEF Step1, Putting
  <2> QED
    BY <2>1, <2>2, <2>3, <2>4, <2>5, <2>6, <2>7 DEF Step1, Seen, Exact, Exists
<1> QED
  BY <1>1, <1>3, <1>5, <1>6, <1>9, Collect

LEMMA DeliverKeeps ==
    ASSUME LInv, NEW r \in late, Deliver(r)
    PROVE  LInv'
<1>0. /\ Types /\ Tagged /\ Placed /\ Requests /\ r \in Request /\ Due(r)
      /\ (r.op = "create" => r.to \in excused)
      /\ (r.to \in Puts => r.to <= Begun) /\ puts \in Nat
  BY DEF LInv, Types, Requests
<1>1. /\ UNCHANGED <<pc, job, from, to, stag, base, puts, pos, local, dirty, spool,
                     content, excused, written>>
      /\ Apply(r)
  BY DEF Deliver, operation, handle
<1>2. Begun <= Begun' /\ Begun' = Begun
  BY <1>0, <1>1 DEF Begun
<1> HIDE DEF Begun
<1>3. /\ Evolves
      /\ files' \in [Names -> File] /\ tags' \in Nat /\ edits' = edits
      /\ late' \subseteq late \ {r}
      /\ known' \subseteq known /\ reached' \in BOOLEAN
      /\ \A n \in Names : files'[n].tag <= tags' /\ (files'[n].tag = 0 => files'[n] = Absent)
      /\ Placed'
      /\ \A i \in Puts : files'[i].owner = i =>
            files[i].owner = i \/ (r.op = "create" /\ r.to = i)
      /\ reached => reached'
  BY <1>0, <1>1, <1>2, Applying
<1>4. Types'
  BY <1>0, <1>1, <1>3 DEF Types
<1> QED
  BY <1>0, <1>1, <1>3, <1>4, Moved DEF Exists, NoTag

LEMMA EditKeeps ==
    ASSUME LInv, NEW n \in Names, NEW c \in Contents, NEW owner \in 0..MaxPuts,
           Edit(n, c, owner)
    PROVE  LInv'
<1>0. /\ Types /\ Tagged /\ Placed /\ tags \in Nat /\ edits \in Nat /\ puts \in Nat
      /\ Chunks[c] \in Nat /\ Chunks[Empty] = 0 /\ MaxPuts \in Nat /\ MaxEdits \in Nat
  BY LakeSaveAssumption DEF LInv, Types
<1>1. /\ UNCHANGED <<pc, job, from, to, stag, base, puts, pos, local, dirty, spool,
                     content, excused, written>>
      /\ late' \subseteq late /\ (reached => reached') /\ reached' \in BOOLEAN
      /\ known' = {p \in known : files'[p] = files[p]}
      /\ edits < MaxEdits /\ edits' = edits + 1
      /\ n \in Puts => Exists(n) /\ owner \in {0, files[n].owner}
      /\ n \in Paths => owner = 0
  BY <1>0 DEF Edit, Noticed, Pending, operation, handle, Types
<1> DEFINE f == [tag |-> tags + 1, data |-> c, len |-> Chunks[c], owner |-> owner, put |-> 0]
<1>2. \/ files' = [files EXCEPT ![n] = f] /\ tags' = tags + 1
      \/ Exists(n) /\ files' = [files EXCEPT ![n] = Absent] /\ tags' = tags
  BY DEF Edit
<1>3. /\ f \in File /\ f.tag = tags + 1 /\ f.data = c /\ f.len = Chunks[c]
      /\ f.owner = owner /\ f.put = 0
  BY <1>0 DEF File
<1> HIDE DEF f
<1>4. /\ files' \in [Names -> File] /\ tags' \in {tags, tags + 1}
      /\ \A m \in Names : m # n => files'[m] = files[m]
      /\ \/ files'[n] = f /\ tags' = tags + 1
         \/ files'[n] = Absent /\ tags' = tags
  BY <1>0, <1>2, <1>3, AbsentFields DEF Types
<1>5. Types'
  BY <1>0, <1>1, <1>4 DEF Types
<1>6. Begun' = Begun
  BY <1>1 DEF Begun
<1>7. Evolves
  BY <1>0, <1>1, <1>3, <1>4, <1>6 DEF Evolves, Begun
<1>8. Placed'
  <2>1. \A i \in Puts : i \in Names /\ (i > Begun' => files'[i] = Absent)
    BY <1>0, <1>1, <1>4, <1>6, AbsentFields DEF Placed, Exists, NoTag, Names
  <2>2. ASSUME NEW p \in Paths
        PROVE  /\ files'[p].len = Chunks[files'[p].data]
               /\ files'[p].put <= puts'
               /\ files'[p].put # 0 => files'[p].data = content'[files'[p].put]
    BY <1>0, <1>1, <1>3, <1>4, <2>2, AbsentFields DEF Placed, Names
  <2> QED
    BY <2>1, <2>2 DEF Placed
<1>9. \A m \in Names : files'[m].tag <= tags' /\ (~Exists(m)' => files'[m] = Absent)
  BY <1>0, <1>3, <1>4, AbsentFields, Tags DEF Exists, NoTag
<1>10. \A i \in Puts : files'[i].owner = i => files[i].owner = i \/ i \in excused
  BY <1>1, <1>3, <1>4, AbsentFields DEF Puts, Names
<1> QED
  BY <1>1, <1>5, <1>7, <1>8, <1>9, <1>10, Moved

\* Uploads that have been asked for stay so.
LEMMA BegunKept ==
    ASSUME puts \in Nat, puts' = puts, pc' # "create" \/ pc = "create"
    PROVE  Begun <= Begun'
<1>1. CASE pc' = "create"
  BY <1>1 DEF Begun
<1>2. CASE pc' # "create"
  <2>1. Begun' = puts
    BY <1>2 DEF Begun
  <2> QED
    BY <2>1 DEF Begun
<1> QED
  BY <1>1, <1>2

\* A step of the client that changes nothing at the service keeps the rest.
LEMMA Client ==
    ASSUME LInv, UNCHANGED <<files, tags>>, Types', Shape', Step1',
           stag' <= tags, base' <= tags, puts <= puts', Begun <= Begun',
           known \subseteq known', excused \subseteq excused',
           \A i \in Puts : i <= puts => content'[i] = content[i],
           late' \subseteq late,
           SavedOrKept', StagesCleaned'
    PROVE  LInv'
<1>1. Evolves /\ Placed' /\ Tagged'
  BY Unmoved DEF LInv, Tagged
<1> QED
  BY <1>1, Collect

-----------------------------------------------------------------------------
(* Requests of the client *)

\* What the invariant says of the values that steps read.
LEMMA Values ==
    ASSUME LInv
    PROVE  /\ Types /\ Shape /\ Tagged /\ Placed /\ Step1 /\ SavedOrKept /\ StagesCleaned
           /\ tags \in Nat /\ puts \in 0..MaxPuts /\ MaxPuts \in Nat
           /\ stag \in 0..tags /\ base \in 0..tags
           /\ from \in Names /\ to \in Paths /\ to \in Names /\ to \notin Puts
           /\ \A i \in Puts : i \in 1..MaxPuts /\ i \in Names /\ i \notin Paths /\ i # 0
           /\ \A n \in Names : n \in Puts \/ n \in Paths
           /\ \A n \in Names : files[n] \in File /\ files[n].tag \in 0..tags
<1>1. /\ Types /\ Shape /\ Tagged /\ Placed /\ Step1 /\ SavedOrKept /\ StagesCleaned
      /\ \A n \in Names : files[n] \in File /\ files[n].tag \in 0..tags
  BY Tags DEF LInv
<1>2. /\ tags \in Nat /\ puts \in 0..MaxPuts /\ stag \in 0..tags /\ base \in 0..tags
      /\ from \in Names /\ to \in Paths
  BY <1>1 DEF Types, Tagged
<1>3. /\ MaxPuts \in Nat
      /\ \A i \in Puts : i \in 1..MaxPuts /\ i \in Names /\ i \notin Paths /\ i # 0
      /\ \A n \in Names : n \in Puts \/ n \in Paths
  BY LakeSaveAssumption DEF Puts, Names
<1> QED
  BY <1>1, <1>2, <1>3 DEF Names

\* Every request is due when it is sent.
LEMMA DueSent ==
    ASSUME LInv
    PROVE  /\ pc = "create" => CreateStage \in Request /\ Due(CreateStage)
           /\ pc = "append" => FlushStage \in Request /\ Due(FlushStage)
           /\ pc = "rename" => Commit \in Request /\ Due(Commit)
           /\ pc = "cleandelete" => DeleteStage \in Request /\ Due(DeleteStage)
           /\ pc = "delete" => DeletePath \in Request /\ Due(DeletePath)
<1>0. /\ Types /\ Shape /\ Step1
      /\ tags \in Nat /\ puts \in 0..MaxPuts
      /\ stag \in 0..tags /\ base \in 0..tags
      /\ from \in Names /\ to \in Paths /\ to \in Names /\ to \notin Puts
      /\ \A i \in Puts : i \in 1..MaxPuts /\ i \notin Paths
      /\ \A n \in Names : n \in Puts \/ n \in Paths
  BY Values
<1>1. /\ CreateStage.op = "create" /\ CreateStage.to = from /\ CreateStage.stag = NoTag
      /\ CreateStage.dtag = NoTag /\ CreateStage.from = from /\ CreateStage \in Request
  BY <1>0 DEF CreateStage, Request, NoTag
<1>2. /\ FlushStage.op = "flush" /\ FlushStage.to = from /\ FlushStage.stag = NoTag
      /\ FlushStage.dtag = stag /\ FlushStage.from = from /\ FlushStage \in Request
  BY <1>0 DEF FlushStage, Request, NoTag
<1>3. /\ Commit.op = "rename" /\ Commit.to = to /\ Commit.stag = stag
      /\ Commit.dtag = base /\ Commit.from = from /\ Commit \in Request
  BY <1>0 DEF Commit, Request
<1>4. /\ DeleteStage.op = "delete" /\ DeleteStage.to = from /\ DeleteStage.stag = NoTag
      /\ DeleteStage.dtag = stag /\ DeleteStage.from = from /\ DeleteStage \in Request
  BY <1>0 DEF DeleteStage, Request, NoTag
<1>5. /\ DeletePath.op = "delete" /\ DeletePath.to = to /\ DeletePath.stag = NoTag
      /\ DeletePath.dtag = base /\ DeletePath.from = from /\ DeletePath \in Request
  BY <1>0 DEF DeletePath, Request, NoTag
<1>6. pc \in PutPCs => from \in Puts
  BY <1>0 DEF Shape
<1>7. ASSUME pc = "create" PROVE Due(CreateStage)
  BY <1>0, <1>1, <1>6, <1>7 DEF Due, PutPCs, NoTag
<1>8. ASSUME pc = "append" PROVE Due(FlushStage)
  BY <1>0, <1>2, <1>6, <1>8 DEF Due, PutPCs, NoTag
<1>9. ASSUME pc = "rename" PROVE Due(Commit)
  <2>1. Seen(to, base)
    BY <1>0, <1>9 DEF Step1
  <2>2. CASE Putting
    <3>1. from = puts /\ from \in Puts /\ from \notin Paths
      BY <1>0, <2>2 DEF Shape
    <3>2. /\ Exists(from) /\ files[from].tag = stag => Exact(from)
          /\ files[to].tag = base => files[to].put < from
      BY <1>0, <1>9, <2>2, <3>1 DEF Step1
    <3>3. from <= puts
      BY <1>0, <3>1
    <3> QED
      BY <1>0, <1>3, <2>1, <3>1, <3>2, <3>3 DEF Due
  <2>3. CASE ~Putting
    <3>1. from \in Paths /\ from \notin Puts /\ Seen(from, stag)
      BY <1>0, <1>9, <2>3 DEF Shape, Step1, Moving
    <3> QED
      BY <1>0, <1>3, <2>1, <3>1 DEF Due
  <2> QED
    BY <2>2, <2>3
<1>10. ASSUME pc = "cleandelete" PROVE Due(DeleteStage)
  <2>1. from \in Puts /\ from \notin Paths
    BY <1>0, <1>6, <1>10 DEF PutPCs
  <2>2. Exists(from) /\ files[from].tag = stag => files[from].owner = from
    BY <1>0, <1>10 DEF Step1
  <2> QED
    BY <1>0, <1>4, <2>1, <2>2 DEF Due, NoTag
<1>11. ASSUME pc = "delete" PROVE Due(DeletePath)
  <2>1. Seen(to, base)
    BY <1>0, <1>11 DEF Step1
  <2> QED
    BY <1>0, <1>5, <2>1 DEF Due, NoTag
<1> QED
  BY <1>1, <1>2, <1>3, <1>4, <1>5, <1>7, <1>8, <1>9, <1>10, <1>11

\* A request is refused or given up on.
LEMMA AskFailsKeeps ==
    ASSUME LInv, NEW r \in Request, Due(r), r.op # "create",
           r.to \in Puts => r.to <= puts, pc \in {"append", "rename", "delete"},
           AskFails(r)
    PROVE  LInv'
<1>0. /\ Types /\ Shape /\ Tagged /\ Placed /\ Step1 /\ SavedOrKept /\ StagesCleaned
      /\ puts \in 0..MaxPuts /\ MaxPuts \in Nat
  BY Values
<1>1. /\ UNCHANGED <<files, tags, edits, job, from, to, stag, base, puts, pos, local, dirty,
                     spool, content, known, excused, written, reached>>
      /\ late' \subseteq late \cup {r}
      /\ pc' = IF Putting THEN "cleanstat" ELSE "idle"
  BY DEF AskFails, Failed, Goto, service, operation, handle, history
<1>2. Types'
  BY <1>0, <1>1 DEF Types, PCs, PutPCs
<1>3. Begun' = puts /\ Begun = puts
  BY <1>0, <1>1 DEF Begun
<1>4. Evolves /\ Placed' /\ Tagged'
  BY <1>0, <1>1, <1>2, <1>3, Unmoved DEF Tagged
<1>5. Shape'
  BY <1>0, <1>1 DEF Shape, Moving, Putting, Uploading, PutPCs
<1>6. Step1'
  BY <1>0, <1>1 DEF Step1, Moving, Putting, Seen, Exact, Exists
<1>7. SavedOrKept' /\ StagesCleaned'
  BY <1>0, <1>1 DEF SavedOrKept, StagesCleaned, Putting
<1> QED
  BY <1>1, <1>2, <1>3, <1>4, <1>5, <1>6, <1>7, Collect

\* The service applies what the client has just asked for.
LEMMA Asked ==
    ASSUME LInv, NEW r \in Request, Due(r), Apply(r), puts' = puts, content' = content,
           excused' = excused, pc' # "create",
           pc = "create" \/ r.op # "create", r.op = "create" => r.to = puts,
           r.to \in Puts => r.to = from /\ from = puts
    PROVE  /\ Evolves /\ Placed'
           /\ files' \in [Names -> File] /\ tags' \in Nat /\ edits' = edits
           /\ late' \subseteq late /\ late' \subseteq Request
           /\ known' \subseteq Paths /\ reached' \in BOOLEAN /\ (reached => reached')
           /\ \A n \in Names : files'[n].tag <= tags' /\ (~Exists(n)' => files'[n] = Absent)
           /\ tags <= tags'
           /\ \A i \in Puts : files'[i].owner = i =>
                 files[i].owner = i \/ (r.op = "create" /\ i = puts)
           /\ \A n \in Names : files'[n] =
                 IF n = r.to THEN Result(r)
                 ELSE IF r.op = "rename" /\ n = r.from THEN Absent ELSE files[n]
           /\ tags' = IF r.op = "delete" THEN tags ELSE tags + 1
           /\ known' = {p \in known : files'[p] = files[p]}
           /\ reached' = (reached \/ /\ written
                                     /\ files'[to].tag # NoTag /\ files'[to].data = local)
           /\ Holds(r)
<1>0. /\ Types /\ Tagged /\ Placed /\ tags \in Nat /\ puts \in Nat
  BY Values
<1>1. Begun' = puts /\ Begun <= Begun'
  BY <1>0 DEF Begun
<1>2. r.to \in Puts => r.to <= Begun'
  BY <1>0, <1>1
<1> HIDE DEF Begun
<1>3. /\ Evolves
      /\ files' \in [Names -> File] /\ tags' \in Nat /\ edits' = edits
      /\ late' \subseteq late \ {r}
      /\ known' \subseteq known /\ reached' \in BOOLEAN
      /\ \A n \in Names : files'[n].tag <= tags' /\ (files'[n].tag = 0 => files'[n] = Absent)
      /\ Placed'
      /\ \A i \in Puts : files'[i].owner = i =>
            files[i].owner = i \/ (r.op = "create" /\ r.to = i)
      /\ reached => reached'
  BY <1>0, <1>1, <1>2, Applying
<1>4. late \subseteq Request /\ known \subseteq Paths
  BY <1>0 DEF Types
<1>5. /\ tags' = IF r.op = "delete" THEN tags ELSE tags + 1
      /\ known' = {p \in known : files'[p] = files[p]}
      /\ reached' = (reached \/ /\ written
                                /\ files'[to].tag # NoTag /\ files'[to].data = local)
      /\ Holds(r)
  BY DEF Apply, Noticed
<1>6. ASSUME NEW n \in Names
      PROVE  files'[n] = IF n = r.to THEN Result(r)
                         ELSE IF r.op = "rename" /\ n = r.from THEN Absent ELSE files[n]
  BY <1>6 DEF Apply, Applied
<1> QED
  BY <1>0, <1>3, <1>4, <1>5, <1>6 DEF Exists, NoTag

LEMMA PutFlushKeeps == ASSUME LInv, PutFlush PROVE LInv'
<1>0. /\ Types /\ Shape /\ Tagged /\ Placed /\ Step1 /\ SavedOrKept /\ StagesCleaned
      /\ tags \in Nat /\ stag \in 0..tags /\ base \in 0..tags /\ puts \in 0..MaxPuts
      /\ from \in Names /\ to \in Paths /\ to \in Names /\ to \notin Puts
      /\ FlushStage \in Request /\ Due(FlushStage)
      /\ pc = "append" /\ Putting /\ from = puts /\ from \in Puts
  BY Values, DueSent DEF PutFlush, Shape, PutPCs
<1>1. FlushStage.op = "flush" /\ FlushStage.to = from
  BY DEF FlushStage
<1>2. CASE AskFails(FlushStage)
  BY <1>0, <1>1, <1>2, AskFailsKeeps
<1>3. CASE /\ Apply(FlushStage) /\ stag' = tags + 1 /\ pc' = "stat"
           /\ UNCHANGED <<job, from, to, base, puts, pos, local, dirty, spool, content,
                          excused, written>>
  <2>1. /\ Evolves /\ Placed' /\ files' \in [Names -> File] /\ tags' = tags + 1
        /\ edits' = edits /\ late' \subseteq late /\ late' \subseteq Request
        /\ known' \subseteq Paths /\ reached' \in BOOLEAN /\ (reached => reached')
        /\ \A n \in Names : files'[n].tag <= tags' /\ (~Exists(n)' => files'[n] = Absent)
        /\ \A i \in Puts : files'[i].owner = i => files[i].owner = i
        /\ known' = {p \in known : files'[p] = files[p]}
    BY <1>0, <1>1, <1>3, Asked
  <2>2. /\ files'[from] = Result(FlushStage)
        /\ files'[to] = files[to]
    BY <1>0, <1>1, <1>3, Asked
  <2>3. Exact(from)'
    BY <1>0, <1>1, <1>3, <2>2 DEF Exact, Result
  <2>4. Types'
    BY <1>0, <1>3, <2>1 DEF Types, PCs, PutPCs
  <2>5. Tagged'
    <3>1. stag' <= tags' /\ base' <= tags'
      BY <1>0, <1>3, <2>1
    <3> QED
      BY <2>1, <3>1 DEF Tagged
  <2>6. Shape'
    BY <1>0, <1>3 DEF Shape, Moving, Putting, Uploading, PutPCs
  <2>7. Step1'
    <3>1. Seen(to, base)'
      BY <1>0, <1>3, <2>1, <2>2 DEF Step1, Seen, Exists
    <3> QED
      BY <1>0, <1>3, <2>2, <2>3, <3>1 DEF Step1, Moving, Putting, Exact
  <2>8. SavedOrKept' /\ StagesCleaned'
    BY <1>0, <1>3, <2>1 DEF SavedOrKept, StagesCleaned, Putting
  <2> QED
    BY <2>1, <2>4, <2>5, <2>6, <2>7, <2>8, Collect
<1> QED
  BY <1>2, <1>3 DEF PutFlush, operation, handle, Goto

LEMMA RenameStepKeeps == ASSUME LInv, RenameStep PROVE LInv'
<1>0. /\ Types /\ Shape /\ Tagged /\ Placed /\ Step1 /\ SavedOrKept /\ StagesCleaned
      /\ tags \in Nat /\ stag \in 0..tags /\ base \in 0..tags /\ puts \in 0..MaxPuts
      /\ from \in Names /\ to \in Paths /\ to \in Names /\ to \notin Puts
      /\ Commit \in Request /\ Due(Commit)
      /\ pc = "rename"
      /\ Putting => from = puts /\ from \in Puts /\ from # to /\ from # 0
      /\ \A i \in Puts : i # to
  BY Values, DueSent DEF RenameStep, Shape
<1>1. /\ Commit.op = "rename" /\ Commit.to = to /\ Commit.from = from
      /\ Commit.stag = stag
  BY DEF Commit
<1>2. CASE AskFails(Commit)
  BY <1>0, <1>1, <1>2, AskFailsKeeps
<1>3. CASE /\ Apply(Commit) /\ stag' = tags + 1 /\ pc' = "verify"
           /\ UNCHANGED <<job, from, to, base, puts, pos, local, dirty, spool, content,
                          excused, written>>
  <2>1. /\ Evolves /\ Placed' /\ files' \in [Names -> File] /\ tags' = tags + 1
        /\ edits' = edits /\ late' \subseteq late /\ late' \subseteq Request
        /\ known' \subseteq Paths /\ reached' \in BOOLEAN /\ (reached => reached')
        /\ \A n \in Names : files'[n].tag <= tags' /\ (~Exists(n)' => files'[n] = Absent)
        /\ \A i \in Puts : files'[i].owner = i => files[i].owner = i
        /\ reached' = (reached \/ /\ written
                                  /\ files'[to].tag # NoTag /\ files'[to].data = local)
    BY <1>0, <1>1, <1>3, Asked
  <2>2. /\ files'[to] = Result(Commit) /\ Holds(Commit)
        /\ from # to => files'[from] = Absent
    BY <1>0, <1>1, <1>3, Asked
  <2>3. files'[to].tag = tags + 1 /\ files'[to].data = files[from].data
    BY <1>1, <2>2 DEF Result
  <2>4. Exists(from) /\ files[from].tag = stag
    BY <1>0, <1>1, <2>2 DEF Holds, Met, AnyTag
  <2>5. job = "save" /\ written => reached'
    <3>1. job = "save" => files[from].data = local
      BY <1>0, <2>4 DEF Step1, Shape, Exact, Putting
    <3>2. files'[to].tag # NoTag
      BY <1>0, <2>3 DEF NoTag
    <3> QED
      BY <2>1, <2>3, <3>1, <3>2
  <2>6. Types'
    BY <1>0, <1>3, <2>1 DEF Types, PCs, PutPCs
  <2>7. Tagged'
    <3>1. stag' <= tags' /\ base' <= tags'
      BY <1>0, <1>3, <2>1
    <3> QED
      BY <2>1, <3>1 DEF Tagged
  <2>8. Shape'
    BY <1>0, <1>3 DEF Shape, Moving, Putting, Uploading, PutPCs
  <2>9. Step1'
    <3>1. files'[to].tag # base'
      BY <1>0, <1>3, <2>3
    <3>2. Putting => files'[from].owner # from
      BY <1>0, <2>2, AbsentFields
    <3> QED
      BY <1>0, <1>3, <2>5, <3>1, <3>2 DEF Step1, Moving, Putting, Seen
  <2>10. SavedOrKept' /\ StagesCleaned'
    BY <1>0, <1>3, <2>1 DEF SavedOrKept, StagesCleaned, Putting
  <2> QED
    BY <2>1, <2>6, <2>7, <2>8, <2>9, <2>10, Collect
<1> QED
  BY <1>2, <1>3 DEF RenameStep, operation, handle, Goto

LEMMA DeleteKeeps == ASSUME LInv, Delete PROVE LInv'
<1>0. /\ Types /\ Shape /\ Tagged /\ Placed /\ Step1 /\ SavedOrKept /\ StagesCleaned
      /\ tags \in Nat /\ stag \in 0..tags /\ base \in 0..tags /\ puts \in 0..MaxPuts
      /\ from \in Names /\ to \in Paths /\ to \in Names /\ to \notin Puts
      /\ DeletePath \in Request /\ Due(DeletePath)
      /\ pc = "delete" /\ ~Putting
  BY Values, DueSent DEF Delete, Shape, Uploading, PutPCs
<1>1. DeletePath.op = "delete" /\ DeletePath.to = to
  BY DEF DeletePath
<1>2. CASE AskFails(DeletePath)
  BY <1>0, <1>1, <1>2, AskFailsKeeps
<1>3. CASE /\ Apply(DeletePath) /\ pc' = "idle"
           /\ UNCHANGED <<job, from, to, stag, base, puts, pos, local, dirty, spool, content,
                          excused, written>>
  <2>1. /\ Evolves /\ Placed' /\ files' \in [Names -> File] /\ tags' = tags
        /\ edits' = edits /\ late' \subseteq late /\ late' \subseteq Request
        /\ known' \subseteq Paths /\ reached' \in BOOLEAN /\ (reached => reached')
        /\ \A n \in Names : files'[n].tag <= tags' /\ (~Exists(n)' => files'[n] = Absent)
        /\ \A i \in Puts : files'[i].owner = i => files[i].owner = i
    BY <1>0, <1>1, <1>3, Asked
  <2>2. Types'
    BY <1>0, <1>3, <2>1 DEF Types, PCs, PutPCs
  <2>3. Tagged'
    BY <1>0, <1>3, <2>1 DEF Tagged
  <2>4. Shape'
    BY <1>0, <1>3 DEF Shape, Moving, Putting, Uploading, PutPCs
  <2>5. Step1'
    BY <1>0, <1>3 DEF Step1, Moving, Putting
  <2>6. SavedOrKept' /\ StagesCleaned'
    BY <1>0, <1>3, <2>1 DEF SavedOrKept, StagesCleaned, Putting
  <2> QED
    BY <2>1, <2>2, <2>3, <2>4, <2>5, <2>6, Collect
<1> QED
  BY <1>2, <1>3 DEF Delete, operation, handle, Goto

LEMMA CleanDeleteKeeps == ASSUME LInv, CleanDelete PROVE LInv'
<1>0. /\ Types /\ Shape /\ Tagged /\ Placed /\ Step1 /\ SavedOrKept /\ StagesCleaned
      /\ tags \in Nat /\ stag \in 0..tags /\ base \in 0..tags /\ puts \in 0..MaxPuts
      /\ from \in Names /\ to \in Paths /\ to \in Names /\ to \notin Puts
      /\ DeleteStage \in Request /\ Due(DeleteStage)
      /\ pc = "cleandelete" /\ Putting /\ from = puts /\ from \in Puts /\ from # 0
  BY Values, DueSent DEF CleanDelete, Shape, PutPCs
<1>1. DeleteStage.op = "delete" /\ DeleteStage.to = from
  BY DEF DeleteStage
<1>2. /\ pc' = IF job = "save" THEN "open" ELSE "idle"
      /\ job' = "none" /\ stag' = 0 /\ pos' = 0 /\ spool' = (job = "save")
      /\ UNCHANGED <<from, to, base, puts, local, dirty, content, written>>
  BY DEF CleanDelete, Settle, Goto, NoTag
<1>3. Begun' = puts /\ Begun = puts
  BY <1>0, <1>2 DEF Begun
<1>4. Shape'
  BY <1>0, <1>2 DEF Shape, Moving, Putting, PutPCs
<1>5. CASE Apply(DeleteStage) /\ excused' = excused
  <2>1. /\ Evolves /\ Placed' /\ files' \in [Names -> File] /\ tags' = tags
        /\ edits' = edits /\ late' \subseteq late /\ late' \subseteq Request
        /\ known' \subseteq Paths /\ reached' \in BOOLEAN /\ (reached => reached')
        /\ \A n \in Names : files'[n].tag <= tags' /\ (~Exists(n)' => files'[n] = Absent)
        /\ \A i \in Puts : files'[i].owner = i => files[i].owner = i
        /\ known' = {p \in known : files'[p] = files[p]}
    BY <1>0, <1>1, <1>2, <1>5, Asked
  <2>2. /\ files'[from] = Result(DeleteStage) /\ files'[to] = files[to]
    BY <1>0, <1>1, <1>2, <1>5, Asked
  <2>3. files'[from].owner # from
    BY <1>0, <1>1, <2>2, ResultTyped, AbsentFields
  <2>4. Types'
    BY <1>0, <1>2, <1>5, <2>1 DEF Types, PCs, Jobs
  <2>5. Tagged'
    BY <1>0, <1>2, <2>1 DEF Tagged
  <2>6. Step1'
    <3>1. Seen(to, base)'
      BY <1>0, <1>2, <2>1, <2>2 DEF Step1, Seen, Exists
    <3> QED
      BY <1>2, <3>1 DEF Step1, Moving, Putting
  <2>7. SavedOrKept' /\ StagesCleaned'
    BY <1>0, <1>2, <1>5, <2>1, <2>3 DEF SavedOrKept, StagesCleaned, Putting, Shape
  <2> QED
    BY <1>4, <2>1, <2>4, <2>5, <2>6, <2>7, Collect
<1>6. CASE /\ late' \subseteq late \cup {DeleteStage} /\ excused' = excused \cup {puts}
           /\ UNCHANGED <<files, tags, edits, known, reached>>
  <2>1. Types'
    BY <1>0, <1>2, <1>6 DEF Types, PCs, Jobs
  <2>2. Evolves /\ Placed' /\ Tagged'
    BY <1>0, <1>2, <1>3, <1>6, <2>1, Unmoved DEF Tagged
  <2>3. Step1'
    BY <1>0, <1>2, <1>6 DEF Step1, Moving, Putting, Seen, Exists
  <2>4. SavedOrKept' /\ StagesCleaned'
    BY <1>0, <1>2, <1>6 DEF SavedOrKept, StagesCleaned, Putting, Shape
  <2>5. \A r \in late' \ late : r = DeleteStage
    BY <1>6
  <2>6. DeleteStage.to <= Begun'
    BY <1>0, <1>1, <1>3
  <2> QED
    BY <1>0, <1>1, <1>4, <2>1, <2>2, <2>3, <2>4, <2>5, <2>6, Collect
<1> QED
  BY <1>5, <1>6 DEF CleanDelete, service

LEMMA PutCreateKeeps == ASSUME LInv, PutCreate PROVE LInv'
<1>0. /\ Types /\ Shape /\ Tagged /\ Placed /\ Step1 /\ SavedOrKept /\ StagesCleaned
      /\ tags \in Nat /\ stag \in 0..tags /\ base \in 0..tags /\ puts \in 0..MaxPuts
      /\ from \in Names /\ to \in Paths /\ to \in Names /\ to \notin Puts
      /\ CreateStage \in Request /\ Due(CreateStage)
      /\ pc = "create" /\ Putting /\ from = puts /\ from \in Puts /\ from # 0
      /\ \A p \in Paths : p # from
  BY Values, DueSent DEF PutCreate, Shape, PutPCs
<1>1. CreateStage.op = "create" /\ CreateStage.to = from
  BY DEF CreateStage
<1>2. UNCHANGED <<from, to, base, puts, content, written>>
  BY DEF PutCreate
<1>3. puts \in Puts /\ Begun = puts - 1 /\ files[from] = Absent
  BY <1>0 DEF Begun, Placed
<1>4. pc' # "create" => Begun' = puts /\ Begun <= Begun'
  BY <1>0, <1>2, <1>3 DEF Begun
<1>5. CASE /\ Apply(CreateStage)
           /\ \/ pc' = "append" /\ stag' = tags + 1
              \/ pc' = "cleanstat" /\ stag' = stag
           /\ UNCHANGED <<job, pos, local, dirty, spool, excused>>
  <2>1. /\ Evolves /\ Placed' /\ files' \in [Names -> File] /\ tags' = tags + 1
        /\ edits' = edits /\ late' \subseteq late /\ late' \subseteq Request
        /\ known' \subseteq Paths /\ reached' \in BOOLEAN /\ (reached => reached')
        /\ \A n \in Names : files'[n].tag <= tags' /\ (~Exists(n)' => files'[n] = Absent)
        /\ \A i \in Puts : files'[i].owner = i => files[i].owner = i \/ i = puts
        /\ known' = {p \in known : files'[p] = files[p]}
        /\ files'[to] = files[to]
    BY <1>0, <1>1, <1>2, <1>5, Asked
  <2>0. stag' \in Nat /\ stag' <= tags' /\ base' <= tags' /\ pc' \in PCs /\ tags' \in Nat
    <3>1. tags' = tags + 1 /\ base' = base
      BY <1>2, <2>1
    <3>2. stag' = tags + 1 \/ stag' = stag
      BY <1>5
    <3>3. pc' \in PCs
      BY <1>5 DEF PCs, PutPCs
    <3> QED
      BY <1>0, <3>1, <3>2, <3>3
  <2>2. Types'
    BY <1>0, <1>2, <1>5, <2>0, <2>1 DEF Types
  <2>3. Tagged'
    BY <2>0, <2>1 DEF Tagged
  <2>4. Shape'
    BY <1>0, <1>2, <1>5 DEF Shape, Moving, Putting, Uploading, PutPCs
  <2>5. Step1'
    <3>1. Seen(to, base)'
      BY <1>0, <1>2, <2>1 DEF Step1, Seen, Exists
    <3> QED
      BY <1>0, <1>2, <1>5, <2>1, <3>1 DEF Step1, Moving, Putting
  <2>6. SavedOrKept' /\ StagesCleaned'
    BY <1>0, <1>2, <1>5, <2>1 DEF SavedOrKept, StagesCleaned, Putting
  <2> QED
    BY <2>1, <2>2, <2>3, <2>4, <2>5, <2>6, Collect
<1>6. CASE /\ files' = [files EXCEPT ![from] =
                          [tag |-> tags + 1, data |-> Empty, len |-> 0, owner |-> 0, put |-> 0]]
           /\ tags' = tags + 1 /\ pc' = "cleanstat"
           /\ UNCHANGED <<late, edits, job, stag, pos, local, dirty, spool, known, excused,
                          reached>>
  <2> DEFINE f == [tag |-> tags + 1, data |-> Empty, len |-> 0, owner |-> 0, put |-> 0]
  <2>1. f \in File /\ f.tag = tags + 1 /\ f.owner = 0
    BY <1>0, LakeSaveAssumption DEF File
  <2> HIDE DEF f
  <2>2. /\ files' \in [Names -> File] /\ files'[from] = f
        /\ \A n \in Names : n # from => files'[n] = files[n]
    BY <1>0, <1>6, <2>1 DEF Types, f
  <2>3. Types'
    BY <1>0, <1>2, <1>6, <2>2 DEF Types, PCs, PutPCs
  <2>4. Evolves
    BY <1>0, <1>2, <1>4, <1>6, <2>1, <2>2 DEF Evolves
  <2>5. Placed'
    <3>1. \A i \in Puts : i \in Names /\ (i > Begun' => i > Begun /\ i # from)
      BY <1>0, <1>3, <1>4, <1>6 DEF Puts, Names
    <3>2. \A i \in Puts : i > Begun' => files'[i] = Absent
      BY <1>0, <2>2, <3>1 DEF Placed
    <3>3. \A p \in Paths : files'[p] = files[p]
      BY <1>0, <2>2 DEF Names
    <3> QED
      BY <1>0, <1>2, <3>2, <3>3 DEF Placed
  <2>6. Tagged'
    <3>1. stag' <= tags' /\ base' <= tags'
      BY <1>0, <1>2, <1>6
    <3>2. ASSUME NEW n \in Names
          PROVE  files'[n].tag <= tags' /\ (~Exists(n)' => files'[n] = Absent)
      <4>1. files[n].tag \in 0..tags /\ (files[n].tag = 0 => files[n] = Absent)
        BY <1>0, Tags
      <4>2. tags' = tags + 1 /\ tags \in Nat
        BY <1>0, <1>6
      <4> QED
        BY <2>1, <2>2, <4>1, <4>2 DEF Exists, NoTag
    <3> QED
      BY <3>1, <3>2 DEF Tagged
  <2>7. Shape'
    BY <1>0, <1>2, <1>6 DEF Shape, Moving, Putting, Uploading, PutPCs
  <2>8. files'[to] = files[to]
    BY <1>0, <2>2
  <2>9. Step1'
    <3>1. Seen(to, base)'
      BY <1>0, <1>2, <1>6, <2>8 DEF Step1, Seen, Exists
    <3> QED
      BY <1>0, <1>2, <1>6, <2>8, <3>1 DEF Step1, Moving, Putting
  <2>10. SavedOrKept' /\ StagesCleaned'
    <3>1. \A i \in Puts : files'[i].owner = i => files[i].owner = i \/ i = puts
      BY <1>0, <2>2 DEF Names
    <3> QED
      BY <1>0, <1>2, <1>6, <3>1 DEF SavedOrKept, StagesCleaned, Putting
  <2> QED
    BY <1>6, <2>3, <2>4, <2>5, <2>6, <2>7, <2>9, <2>10, Collect
<1>7. CASE /\ Settle
           /\ UNCHANGED <<files, tags, edits, late, local, dirty, known, excused, reached>>
  <2>1. /\ pc' = IF job = "save" THEN "open" ELSE "idle"
        /\ job' = "none" /\ stag' = 0 /\ pos' = 0 /\ spool' = (job = "save")
    BY <1>7 DEF Settle, Goto, NoTag
  <2>2. Types'
    BY <1>0, <1>2, <1>7, <2>1 DEF Types, PCs, Jobs
  <2>3. Begun <= Begun'
    BY <1>4, <2>1
  <2>4. Shape'
    BY <1>0, <1>2, <2>1 DEF Shape, Moving, Putting, PutPCs
  <2>5. Step1'
    BY <1>0, <1>2, <1>7, <2>1 DEF Step1, Moving, Putting, Seen, Exists
  <2>6. SavedOrKept' /\ StagesCleaned'
    <3>1. files[puts].owner # puts
      BY <1>0, <1>3, AbsentFields
    <3> QED
      BY <1>0, <1>2, <1>7, <2>1, <3>1 DEF SavedOrKept, StagesCleaned, Putting, Shape
  <2>7. /\ UNCHANGED <<files, tags>> /\ stag' <= tags /\ base' <= tags /\ puts <= puts'
    BY <1>0, <1>2, <1>7, <2>1
  <2> QED
    BY <1>2, <1>7, <2>2, <2>3, <2>4, <2>5, <2>6, <2>7, Client
<1>8. CASE /\ pc' = "cleanstat" /\ late' = late \cup {CreateStage}
           /\ excused' = excused \cup {puts}
           /\ UNCHANGED <<files, tags, edits, job, stag, pos, local, dirty, spool, known,
                          reached>>
  <2>1. Types'
    BY <1>0, <1>2, <1>8 DEF Types, PCs, PutPCs
  <2>2. Evolves /\ Placed' /\ Tagged'
    BY <1>0, <1>2, <1>4, <1>8, <2>1, Unmoved DEF Tagged
  <2>3. Shape'
    BY <1>0, <1>2, <1>8 DEF Shape, Moving, Putting, Uploading, PutPCs
  <2>4. Step1'
    BY <1>0, <1>2, <1>8 DEF Step1, Moving, Putting, Seen, Exists
  <2>5. SavedOrKept' /\ StagesCleaned'
    BY <1>0, <1>2, <1>8 DEF SavedOrKept, StagesCleaned, Putting
  <2>6. \A r \in late' \ late : r = CreateStage
    BY <1>8
  <2>7. CreateStage.to <= Begun' /\ CreateStage.to \in excused'
    BY <1>0, <1>1, <1>4, <1>8
  <2> QED
    BY <1>0, <1>1, <2>1, <2>2, <2>3, <2>4, <2>5, <2>6, <2>7, Collect
<1> QED
  BY <1>5, <1>6, <1>7, <1>8 DEF PutCreate, handle, service, Goto

\* Every step keeps the invariant.
LEMMA InvNext == LInv /\ [Next]_vars => LInv'
<1> SUFFICES ASSUME LInv, [Next]_vars
             PROVE  LInv'
  OBVIOUS
<1>0. /\ Shape /\ Tagged /\ Placed /\ Requests /\ Step1 /\ SavedOrKept /\ StagesCleaned
      /\ Types /\ puts \in 0..MaxPuts /\ MaxPuts \in Nat
      /\ \A c \in Contents : Chunks[c] \in Nat
      /\ Empty \in Contents /\ \A n \in Names : files[n] \in File
      /\ \A n \in Names : files[n].tag \in 0..tags /\ (files[n].tag = 0 => files[n] = Absent)
      /\ \A n \in Names : files[n].data \in Contents
      /\ \A i \in Puts : i \in 1..MaxPuts /\ i \notin Paths
      /\ tags \in Nat
  BY LakeSaveAssumption, Tags DEF LInv, Types, Puts, File
<1>1. ASSUME NEW p \in Paths, NEW trunc \in BOOLEAN, Open(p, trunc)
      PROVE  LInv'
  <2>1. Types'
    <3>1. files' = files /\ tags' = tags /\ edits' = edits /\ late' = late
      BY <1>1 DEF Open, service, operation, handle, history
    <3>2. pc' \in PCs /\ job' \in Jobs
      BY <1>0, <1>1 DEF Open, service, operation, handle, history, Goto, Putting, PutPCs, Types, PCs, Jobs
    <3>3. from' \in Names /\ to' \in Paths /\ puts' \in 0..MaxPuts
      BY <1>0, <1>1 DEF Open, service, operation, handle, history, Goto, Putting, PutPCs, Types, Names, Puts
    <3>4. stag' \in Nat /\ base' \in Nat
      <4>1. \A n \in Names : files[n].tag \in Nat
        BY <1>0, <1>1
      <4> QED
        BY <1>0, <1>1, <4>1 DEF Open, service, operation, handle, history, Goto, Putting, PutPCs, Types, NoTag, Names
    <3>5. content' \in [Puts -> Contents] /\ local' \in Contents
      BY <1>0, <1>1 DEF Open, service, operation, handle, history, Goto, Putting, PutPCs, Types, Puts, Names
    <3>6. dirty' \in BOOLEAN /\ spool' \in BOOLEAN
      BY <1>0, <1>1 DEF Open, service, operation, handle, history, Goto, Putting, PutPCs, Types
    <3>7. known' \subseteq Paths /\ excused' \subseteq Puts
      BY <1>0, <1>1 DEF Open, service, operation, handle, history, Goto, Putting, PutPCs, Types, Shape
    <3>8. written' \in BOOLEAN /\ reached' \in BOOLEAN
      BY <1>0, <1>1 DEF Open, service, operation, handle, history, Goto, Putting, PutPCs, Types
    <3> QED
      BY <1>0, <1>1, <3>1, <3>2, <3>3, <3>4, <3>5, <3>6, <3>7, <3>8 DEF Types
  <2>2. Shape'
    BY <1>0, <1>1 DEF Open, service, operation, handle, history, Goto, Putting, PutPCs, Types, Names, Shape, Uploading, Moving, Puts
  <2>3. /\ UNCHANGED <<files, tags>> /\ stag' <= tags /\ base' <= tags /\ puts <= puts'
        /\ known \subseteq known' /\ excused \subseteq excused' /\ late' = late
        /\ \A i \in Puts : i <= puts => content'[i] = content[i]
    BY <1>0, <1>1 DEF Open, service, operation, handle, history, Goto, Putting, PutPCs, Types, Tagged, Names, NoTag, Puts
  <2>4. Begun <= Begun'
    <3>1. puts' = puts /\ pc' # "create"
      BY <1>1 DEF Open, service, operation, handle, history, Goto, Putting, PutPCs
    <3> QED
      BY <1>0, <1>1, <3>1, BegunKept
  <2>5. Step1'
    BY <1>0, <1>1 DEF Open, service, operation, handle, history, Goto, Putting, PutPCs, Types, Step1, Shape, Seen, Exact, Exists, Moving, Names, NoTag, Placed, Uploading, Absent
  <2>6. SavedOrKept'
    BY <1>0, <1>1 DEF Open, service, operation, handle, history, Goto, Putting, PutPCs, Types, SavedOrKept, Shape, Step1
  <2>7. StagesCleaned'
    BY <1>0, <1>1 DEF Open, service, operation, handle, history, Goto, Putting, PutPCs, Types, StagesCleaned, Shape, Step1, Placed, Begun, Absent, Exists, Uploading, NoTag, Puts
  <2> QED
    BY <2>1, <2>2, <2>3, <2>4, <2>5, <2>6, <2>7, Client
<1>2. ASSUME NEW c \in Contents, Write(c)
      PROVE  LInv'
  <2>1. Types'
    BY <1>0, <1>2 DEF Write, service, operation, handle, history, Putting, PutPCs, Types, PCs, Jobs, Names, Shape, NoTag, Puts, Uploading, Moving
  <2>2. Shape'
    BY <1>0, <1>2 DEF Write, service, operation, handle, history, Putting, PutPCs, Types, Names, Shape, Uploading, Moving, Puts
  <2>3. /\ UNCHANGED <<files, tags>> /\ stag' <= tags /\ base' <= tags /\ puts <= puts'
        /\ known \subseteq known' /\ excused \subseteq excused' /\ late' = late
        /\ \A i \in Puts : i <= puts => content'[i] = content[i]
    BY <1>0, <1>2 DEF Write, service, operation, handle, history, Putting, PutPCs, Types, Tagged, Names, NoTag, Puts
  <2>4. Begun <= Begun'
    <3>1. puts' = puts /\ pc' # "create"
      BY <1>2 DEF Write, service, operation, handle, history, Putting, PutPCs
    <3> QED
      BY <1>0, <1>2, <3>1, BegunKept
  <2>5. Step1'
    BY <1>0, <1>2 DEF Write, service, operation, handle, history, Putting, PutPCs, Types, Step1, Shape, Seen, Exact, Exists, Moving, Names, NoTag, Placed, Uploading, Absent
  <2>6. SavedOrKept'
    BY <1>0, <1>2 DEF Write, service, operation, handle, history, Putting, PutPCs, Types, SavedOrKept, Shape, Step1
  <2>7. StagesCleaned'
    BY <1>0, <1>2 DEF Write, service, operation, handle, history, Putting, PutPCs, Types, StagesCleaned, Shape, Step1, Placed, Begun, Absent, Exists, Uploading, NoTag, Puts
  <2> QED
    BY <2>1, <2>2, <2>3, <2>4, <2>5, <2>6, <2>7, Client
<1>3. CASE Flush
  <2>1. Types'
    BY <1>0, <1>3 DEF Flush, service, operation, handle, history, Goto, StartPut, Putting, PutPCs, Types, PCs, Jobs, Names, Shape, NoTag, Puts, Uploading, Moving
  <2>2. Shape'
    BY <1>0, <1>3 DEF Flush, service, operation, handle, history, Goto, StartPut, Putting, PutPCs, Types, Names, Shape, Uploading, Moving, Puts
  <2>3. /\ UNCHANGED <<files, tags>> /\ stag' <= tags /\ base' <= tags /\ puts <= puts'
        /\ known \subseteq known' /\ excused \subseteq excused' /\ late' = late
        /\ \A i \in Puts : i <= puts => content'[i] = content[i]
    BY <1>0, <1>3 DEF Flush, service, operation, handle, history, Goto, StartPut, Putting, PutPCs, Types, Tagged, Names, NoTag, Puts
  <2>4. Begun <= Begun'
    BY <1>0, <1>3 DEF Flush, service, operation, handle, history, Goto, StartPut, Putting, PutPCs, Begun
  <2>5. Step1'
    <3>1. /\ pc = "open" /\ pc' = "create" /\ job' = "save" /\ puts' = puts + 1
          /\ files' = files /\ known' = known /\ base' = base /\ to' = to
      BY <1>3 DEF Flush, StartPut, Goto, service, handle
    <3>2. Seen(to, base)'
      BY <1>0, <3>1 DEF Step1, Seen, Exists
    <3>3. files[to].put < puts'
      <4>1. files[to].put <= puts /\ files[to].put \in Int /\ puts \in Int
        BY <1>0 DEF Placed, Types, File, Names
      <4> QED
        BY <3>1, <4>1
    <3> QED
      BY <3>1, <3>2, <3>3 DEF Step1, Moving, Putting
  <2>6. SavedOrKept'
    BY <1>0, <1>3 DEF Flush, service, operation, handle, history, Goto, StartPut, Putting, PutPCs, Types, SavedOrKept, Shape, Step1
  <2>7. StagesCleaned'
    BY <1>0, <1>3 DEF Flush, service, operation, handle, history, Goto, StartPut, Putting, PutPCs, Types, StagesCleaned, Shape, Step1, Placed, Begun, Absent, Exists, Uploading, NoTag, Puts
  <2> QED
    BY <2>1, <2>2, <2>3, <2>4, <2>5, <2>6, <2>7, Client
<1>4. ASSUME NEW p \in Paths, Create(p)
      PROVE  LInv'
  <2>1. Types'
    <3>1. files' = files /\ tags' = tags /\ edits' = edits /\ late' = late
      BY <1>4 DEF Create, service, operation, handle, history
    <3>2. pc' \in PCs /\ job' \in Jobs
      BY <1>0, <1>4 DEF Create, service, operation, handle, history, Goto, StartPut, Putting, PutPCs, Types, PCs, Jobs
    <3>3. from' \in Names /\ to' \in Paths /\ puts' \in 0..MaxPuts
      BY <1>0, <1>4 DEF Create, service, operation, handle, history, Goto, StartPut, Putting, PutPCs, Types, Names, Puts
    <3>4. stag' \in Nat /\ base' \in Nat
      <4>1. \A n \in Names : files[n].tag \in Nat
        BY <1>0, <1>4
      <4> QED
        BY <1>0, <1>4, <4>1 DEF Create, service, operation, handle, history, Goto, StartPut, Putting, PutPCs, Types, NoTag, Names
    <3>5. content' \in [Puts -> Contents] /\ local' \in Contents
      BY <1>0, <1>4 DEF Create, service, operation, handle, history, Goto, StartPut, Putting, PutPCs, Types, Puts, Names
    <3>6. dirty' \in BOOLEAN /\ spool' \in BOOLEAN
      BY <1>0, <1>4 DEF Create, service, operation, handle, history, Goto, StartPut, Putting, PutPCs, Types
    <3>7. known' \subseteq Paths /\ excused' \subseteq Puts
      BY <1>0, <1>4 DEF Create, service, operation, handle, history, Goto, StartPut, Putting, PutPCs, Types, Shape
    <3>8. written' \in BOOLEAN /\ reached' \in BOOLEAN
      BY <1>0, <1>4 DEF Create, service, operation, handle, history, Goto, StartPut, Putting, PutPCs, Types
    <3> QED
      BY <1>0, <1>4, <3>1, <3>2, <3>3, <3>4, <3>5, <3>6, <3>7, <3>8 DEF Types
  <2>2. Shape'
    BY <1>0, <1>4 DEF Create, service, operation, handle, history, Goto, StartPut, Putting, PutPCs, Types, Names, Shape, Uploading, Moving, Puts
  <2>3. /\ UNCHANGED <<files, tags>> /\ stag' <= tags /\ base' <= tags /\ puts <= puts'
        /\ known \subseteq known' /\ excused \subseteq excused' /\ late' = late
        /\ \A i \in Puts : i <= puts => content'[i] = content[i]
    BY <1>0, <1>4 DEF Create, service, operation, handle, history, Goto, StartPut, Putting, PutPCs, Types, Tagged, Names, NoTag, Puts
  <2>4. Begun <= Begun'
    BY <1>0, <1>4 DEF Create, service, operation, handle, history, Goto, StartPut, Putting, PutPCs, Begun
  <2>5. Step1'
    BY <1>0, <1>4 DEF Create, service, operation, handle, history, Goto, StartPut, Putting, PutPCs, Types, Step1, Shape, Seen, Exact, Exists, Moving, Names, NoTag, Placed, Uploading, Absent
  <2>6. SavedOrKept'
    BY <1>0, <1>4 DEF Create, service, operation, handle, history, Goto, StartPut, Putting, PutPCs, Types, SavedOrKept, Shape, Step1
  <2>7. StagesCleaned'
    BY <1>0, <1>4 DEF Create, service, operation, handle, history, Goto, StartPut, Putting, PutPCs, Types, StagesCleaned, Shape, Step1, Placed, Begun, Absent, Exists, Uploading, NoTag, Puts
  <2> QED
    BY <2>1, <2>2, <2>3, <2>4, <2>5, <2>6, <2>7, Client
<1>5. CASE Close
  <2>1. Types'
    BY <1>0, <1>5 DEF Close, service, operation, handle, history, Goto, Putting, PutPCs, Types, PCs, Jobs, Names, Shape, NoTag, Puts, Uploading, Moving, RetainSpool
  <2>2. Shape'
    BY <1>0, <1>5 DEF Close, service, operation, handle, history, Goto, Putting, PutPCs, Types, Names, Shape, Uploading, Moving, RetainSpool, Puts
  <2>3. /\ UNCHANGED <<files, tags>> /\ stag' <= tags /\ base' <= tags /\ puts <= puts'
        /\ known \subseteq known' /\ excused \subseteq excused' /\ late' = late
        /\ \A i \in Puts : i <= puts => content'[i] = content[i]
    BY <1>0, <1>5 DEF Close, service, operation, handle, history, Goto, Putting, PutPCs, Types, Tagged, Names, NoTag, Puts
  <2>4. Begun <= Begun'
    <3>1. puts' = puts /\ pc' # "create"
      BY <1>5 DEF Close, service, operation, handle, history, Goto, Putting, PutPCs
    <3> QED
      BY <1>0, <1>5, <3>1, BegunKept
  <2>5. Step1'
    BY <1>0, <1>5 DEF Close, service, operation, handle, history, Goto, Putting, PutPCs, Types, Step1, Shape, Seen, Exact, Exists, Moving, Names, NoTag, Placed, Uploading, Absent
  <2>6. SavedOrKept'
    BY <1>0, <1>5 DEF Close, service, operation, handle, history, Goto, Putting, PutPCs, Types, SavedOrKept, Shape, Step1, RetainSpool
  <2>7. StagesCleaned'
    BY <1>0, <1>5 DEF Close, service, operation, handle, history, Goto, Putting, PutPCs, Types, StagesCleaned, Shape, Step1, Placed, Begun, Absent, Exists, Uploading, NoTag, Puts
  <2> QED
    BY <2>1, <2>2, <2>3, <2>4, <2>5, <2>6, <2>7, Client
<1>6. CASE Crash
  <2>1. Types'
    BY <1>0, <1>6 DEF Crash, service, operation, handle, history, Goto, Putting, PutPCs, Types, PCs, Jobs, Names, Shape, NoTag, Puts, Uploading, Moving
  <2>2. Shape'
    BY <1>0, <1>6 DEF Crash, service, operation, handle, history, Goto, Putting, PutPCs, Types, Names, Shape, Uploading, Moving, Puts
  <2>3. /\ UNCHANGED <<files, tags>> /\ stag' <= tags /\ base' <= tags /\ puts <= puts'
        /\ known \subseteq known' /\ excused \subseteq excused' /\ late' = late
        /\ \A i \in Puts : i <= puts => content'[i] = content[i]
    BY <1>0, <1>6 DEF Crash, service, operation, handle, history, Goto, Putting, PutPCs, Types, Tagged, Names, NoTag, Puts
  <2>4. Begun <= Begun'
    <3>1. puts' = puts /\ pc' # "create"
      BY <1>6 DEF Crash, service, operation, handle, history, Goto, Putting, PutPCs
    <3> QED
      BY <1>0, <1>6, <3>1, BegunKept
  <2>5. Step1'
    BY <1>0, <1>6 DEF Crash, service, operation, handle, history, Goto, Putting, PutPCs, Types, Step1, Shape, Seen, Exact, Exists, Moving, Names, NoTag, Placed, Uploading, Absent
  <2>6. SavedOrKept'
    BY <1>0, <1>6 DEF Crash, service, operation, handle, history, Goto, Putting, PutPCs, Types, SavedOrKept, Shape, Step1
  <2>7. StagesCleaned'
    BY <1>0, <1>6 DEF Crash, service, operation, handle, history, Goto, Putting, PutPCs, Types, StagesCleaned, Shape, Step1, Placed, Begun, Absent, Exists, Uploading, NoTag, Puts
  <2> QED
    BY <2>1, <2>2, <2>3, <2>4, <2>5, <2>6, <2>7, Client
<1>7. ASSUME NEW p \in Paths, Remove(p)
      PROVE  LInv'
  <2>1. Types'
    BY <1>0, <1>7 DEF Remove, service, operation, handle, history, Goto, Putting, PutPCs, Types, PCs, Jobs, Names, Shape, NoTag, Puts, Uploading, Moving
  <2>2. Shape'
    BY <1>0, <1>7 DEF Remove, service, operation, handle, history, Goto, Putting, PutPCs, Types, Names, Shape, Uploading, Moving, Puts
  <2>3. /\ UNCHANGED <<files, tags>> /\ stag' <= tags /\ base' <= tags /\ puts <= puts'
        /\ known \subseteq known' /\ excused \subseteq excused' /\ late' = late
        /\ \A i \in Puts : i <= puts => content'[i] = content[i]
    BY <1>0, <1>7 DEF Remove, service, operation, handle, history, Goto, Putting, PutPCs, Types, Tagged, Names, NoTag, Puts
  <2>4. Begun <= Begun'
    <3>1. puts' = puts /\ pc' # "create"
      BY <1>7 DEF Remove, service, operation, handle, history, Goto, Putting, PutPCs
    <3> QED
      BY <1>0, <1>7, <3>1, BegunKept
  <2>5. Step1'
    BY <1>0, <1>7 DEF Remove, service, operation, handle, history, Goto, Putting, PutPCs, Types, Step1, Shape, Seen, Exact, Exists, Moving, Names, NoTag, Placed, Uploading, Absent
  <2>6. SavedOrKept'
    BY <1>0, <1>7 DEF Remove, service, operation, handle, history, Goto, Putting, PutPCs, Types, SavedOrKept, Shape, Step1
  <2>7. StagesCleaned'
    BY <1>0, <1>7 DEF Remove, service, operation, handle, history, Goto, Putting, PutPCs, Types, StagesCleaned, Shape, Step1, Placed, Begun, Absent, Exists, Uploading, NoTag, Puts
  <2> QED
    BY <2>1, <2>2, <2>3, <2>4, <2>5, <2>6, <2>7, Client
<1>8. ASSUME NEW p \in Paths, NEW q \in Paths, Rename(p, q)
      PROVE  LInv'
  <2>1. Types'
    <3>1. files' = files /\ tags' = tags /\ edits' = edits /\ late' = late
      BY <1>8 DEF Rename, service, operation, handle, history
    <3>2. pc' \in PCs /\ job' \in Jobs
      BY <1>0, <1>8 DEF Rename, service, operation, handle, history, Goto, Putting, PutPCs, Types, PCs, Jobs
    <3>3. from' \in Names /\ to' \in Paths /\ puts' \in 0..MaxPuts
      BY <1>0, <1>8 DEF Rename, service, operation, handle, history, Goto, Putting, PutPCs, Types, Names, Puts
    <3>4. stag' \in Nat /\ base' \in Nat
      <4>1. \A n \in Names : files[n].tag \in Nat
        BY <1>0, <1>8
      <4> QED
        BY <1>0, <1>8, <4>1 DEF Rename, service, operation, handle, history, Goto, Putting, PutPCs, Types, NoTag, Names
    <3>5. content' \in [Puts -> Contents] /\ local' \in Contents
      BY <1>0, <1>8 DEF Rename, service, operation, handle, history, Goto, Putting, PutPCs, Types, Puts, Names
    <3>6. dirty' \in BOOLEAN /\ spool' \in BOOLEAN
      BY <1>0, <1>8 DEF Rename, service, operation, handle, history, Goto, Putting, PutPCs, Types
    <3>7. known' \subseteq Paths /\ excused' \subseteq Puts
      BY <1>0, <1>8 DEF Rename, service, operation, handle, history, Goto, Putting, PutPCs, Types, Shape
    <3>8. written' \in BOOLEAN /\ reached' \in BOOLEAN
      BY <1>0, <1>8 DEF Rename, service, operation, handle, history, Goto, Putting, PutPCs, Types
    <3> QED
      BY <1>0, <1>8, <3>1, <3>2, <3>3, <3>4, <3>5, <3>6, <3>7, <3>8 DEF Types
  <2>2. Shape'
    BY <1>0, <1>8 DEF Rename, service, operation, handle, history, Goto, Putting, PutPCs, Types, Names, Shape, Uploading, Moving, Puts
  <2>3. /\ UNCHANGED <<files, tags>> /\ stag' <= tags /\ base' <= tags /\ puts <= puts'
        /\ known \subseteq known' /\ excused \subseteq excused' /\ late' = late
        /\ \A i \in Puts : i <= puts => content'[i] = content[i]
    <3>1. files' = files /\ tags' = tags /\ late' = late
      BY <1>8 DEF Rename, service, operation, handle, history
    <3>2. stag' <= tags /\ base' <= tags
      BY <1>0, <1>8 DEF Rename, service, operation, handle, history, Goto, Putting, PutPCs, Types, Tagged, Names, NoTag
    <3>3. known \subseteq known' /\ excused \subseteq excused'
      BY <1>8 DEF Rename, service, operation, handle, history, Goto, Putting, PutPCs
    <3>4. puts <= puts'
      <4>1. puts' = puts
        BY <1>8 DEF Rename, service, operation, handle, history, Goto, Putting, PutPCs
      <4> QED
        BY <1>0, <1>8, <4>1
    <3>5. \A i \in Puts : i <= puts => content'[i] = content[i]
      BY <1>0, <1>8 DEF Rename, service, operation, handle, history, Goto, Putting, PutPCs, Types, Puts
    <3> QED
      BY <3>1, <3>2, <3>3, <3>4, <3>5
  <2>4. Begun <= Begun'
    <3>1. puts' = puts /\ pc' # "create"
      BY <1>8 DEF Rename, service, operation, handle, history, Goto, Putting, PutPCs
    <3> QED
      BY <1>0, <1>8, <3>1, BegunKept
  <2>5. Step1'
    BY <1>0, <1>8 DEF Rename, service, operation, handle, history, Goto, Putting, PutPCs, Types, Step1, Shape, Seen, Exact, Exists, Moving, Names, NoTag, Placed, Uploading, Absent
  <2>6. SavedOrKept'
    BY <1>0, <1>8 DEF Rename, service, operation, handle, history, Goto, Putting, PutPCs, Types, SavedOrKept, Shape, Step1
  <2>7. StagesCleaned'
    BY <1>0, <1>8 DEF Rename, service, operation, handle, history, Goto, Putting, PutPCs, Types, StagesCleaned, Shape, Step1, Placed, Begun, Absent, Exists, Uploading, NoTag, Puts
  <2> QED
    BY <2>1, <2>2, <2>3, <2>4, <2>5, <2>6, <2>7, Client
<1>9. ASSUME NEW noReplace \in BOOLEAN, TargetStat(noReplace)
      PROVE  LInv'
  <2>1. Types'
    <3>1. files' = files /\ tags' = tags /\ edits' = edits /\ late' = late
      BY <1>9 DEF TargetStat, service, operation, handle, history
    <3>2. pc' \in PCs /\ job' \in Jobs
      BY <1>0, <1>9 DEF TargetStat, service, operation, handle, history, Goto, Putting, PutPCs, Types, PCs, Jobs
    <3>3. from' \in Names /\ to' \in Paths /\ puts' \in 0..MaxPuts
      BY <1>0, <1>9 DEF TargetStat, service, operation, handle, history, Goto, Putting, PutPCs, Types, Names, Puts
    <3>4. stag' \in Nat /\ base' \in Nat
      <4>1. \A n \in Names : files[n].tag \in Nat
        BY <1>0, <1>9
      <4> QED
        BY <1>0, <1>9, <4>1 DEF TargetStat, service, operation, handle, history, Goto, Putting, PutPCs, Types, NoTag, Names
    <3>5. content' \in [Puts -> Contents] /\ local' \in Contents
      BY <1>0, <1>9 DEF TargetStat, service, operation, handle, history, Goto, Putting, PutPCs, Types, Puts, Names
    <3>6. dirty' \in BOOLEAN /\ spool' \in BOOLEAN
      BY <1>0, <1>9 DEF TargetStat, service, operation, handle, history, Goto, Putting, PutPCs, Types
    <3>7. known' \subseteq Paths /\ excused' \subseteq Puts
      BY <1>0, <1>9 DEF TargetStat, service, operation, handle, history, Goto, Putting, PutPCs, Types, Shape
    <3>8. written' \in BOOLEAN /\ reached' \in BOOLEAN
      BY <1>0, <1>9 DEF TargetStat, service, operation, handle, history, Goto, Putting, PutPCs, Types
    <3> QED
      BY <1>0, <1>9, <3>1, <3>2, <3>3, <3>4, <3>5, <3>6, <3>7, <3>8 DEF Types
  <2>2. Shape'
    BY <1>0, <1>9 DEF TargetStat, service, operation, handle, history, Goto, Putting, PutPCs, Types, Names, Shape, Uploading, Moving, Puts
  <2>3. /\ UNCHANGED <<files, tags>> /\ stag' <= tags /\ base' <= tags /\ puts <= puts'
        /\ known \subseteq known' /\ excused \subseteq excused' /\ late' = late
        /\ \A i \in Puts : i <= puts => content'[i] = content[i]
    <3>1. files' = files /\ tags' = tags /\ late' = late
      BY <1>9 DEF TargetStat, service, operation, handle, history
    <3>2. stag' <= tags /\ base' <= tags
      BY <1>0, <1>9 DEF TargetStat, service, operation, handle, history, Goto, Putting, PutPCs, Types, Tagged, Names, NoTag
    <3>3. known \subseteq known' /\ excused \subseteq excused'
      BY <1>9 DEF TargetStat, service, operation, handle, history, Goto, Putting, PutPCs
    <3>4. puts <= puts'
      <4>1. puts' = puts
        BY <1>9 DEF TargetStat, service, operation, handle, history, Goto, Putting, PutPCs
      <4> QED
        BY <1>0, <1>9, <4>1
    <3>5. \A i \in Puts : i <= puts => content'[i] = content[i]
      BY <1>0, <1>9 DEF TargetStat, service, operation, handle, history, Goto, Putting, PutPCs, Types, Puts
    <3> QED
      BY <3>1, <3>2, <3>3, <3>4, <3>5
  <2>4. Begun <= Begun'
    <3>1. puts' = puts /\ pc' # "create"
      BY <1>9 DEF TargetStat, service, operation, handle, history, Goto, Putting, PutPCs
    <3> QED
      BY <1>0, <1>9, <3>1, BegunKept
  <2>5. Step1'
    BY <1>0, <1>9 DEF TargetStat, service, operation, handle, history, Goto, Putting, PutPCs, Types, Step1, Shape, Seen, Exact, Exists, Moving, Names, NoTag, Placed, Uploading, Absent
  <2>6. SavedOrKept'
    BY <1>0, <1>9 DEF TargetStat, service, operation, handle, history, Goto, Putting, PutPCs, Types, SavedOrKept, Shape, Step1
  <2>7. StagesCleaned'
    BY <1>0, <1>9 DEF TargetStat, service, operation, handle, history, Goto, Putting, PutPCs, Types, StagesCleaned, Shape, Step1, Placed, Begun, Absent, Exists, Uploading, NoTag, Puts
  <2> QED
    BY <2>1, <2>2, <2>3, <2>4, <2>5, <2>6, <2>7, Client
<1>10. CASE SourceStat
  <2>1. Types'
    BY <1>0, <1>10 DEF SourceStat, service, operation, handle, history, Goto, Putting, PutPCs, Types, PCs, Jobs, Names, Shape, NoTag, Puts, Uploading, Moving
  <2>2. Shape'
    BY <1>0, <1>10 DEF SourceStat, service, operation, handle, history, Goto, Putting, PutPCs, Types, Names, Shape, Uploading, Moving, Puts
  <2>3. /\ UNCHANGED <<files, tags>> /\ stag' <= tags /\ base' <= tags /\ puts <= puts'
        /\ known \subseteq known' /\ excused \subseteq excused' /\ late' = late
        /\ \A i \in Puts : i <= puts => content'[i] = content[i]
    <3>1. files' = files /\ tags' = tags /\ late' = late
      BY <1>10 DEF SourceStat, service, operation, handle, history
    <3>2. stag' <= tags /\ base' <= tags
      BY <1>0, <1>10 DEF SourceStat, service, operation, handle, history, Goto, Putting, PutPCs, Types, Tagged, Names, NoTag
    <3>3. known \subseteq known' /\ excused \subseteq excused'
      BY <1>10 DEF SourceStat, service, operation, handle, history, Goto, Putting, PutPCs
    <3>4. puts <= puts'
      <4>1. puts' = puts
        BY <1>10 DEF SourceStat, service, operation, handle, history, Goto, Putting, PutPCs
      <4> QED
        BY <1>0, <1>10, <4>1
    <3>5. \A i \in Puts : i <= puts => content'[i] = content[i]
      BY <1>0, <1>10 DEF SourceStat, service, operation, handle, history, Goto, Putting, PutPCs, Types, Puts
    <3> QED
      BY <3>1, <3>2, <3>3, <3>4, <3>5
  <2>4. Begun <= Begun'
    <3>1. puts' = puts /\ pc' # "create"
      BY <1>10 DEF SourceStat, service, operation, handle, history, Goto, Putting, PutPCs
    <3> QED
      BY <1>0, <1>10, <3>1, BegunKept
  <2>5. Step1'
    BY <1>0, <1>10 DEF SourceStat, service, operation, handle, history, Goto, Putting, PutPCs, Types, Step1, Shape, Seen, Exact, Exists, Moving, Names, NoTag, Placed, Uploading, Absent
  <2>6. SavedOrKept'
    BY <1>0, <1>10 DEF SourceStat, service, operation, handle, history, Goto, Putting, PutPCs, Types, SavedOrKept, Shape, Step1
  <2>7. StagesCleaned'
    BY <1>0, <1>10 DEF SourceStat, service, operation, handle, history, Goto, Putting, PutPCs, Types, StagesCleaned, Shape, Step1, Placed, Begun, Absent, Exists, Uploading, NoTag, Puts
  <2> QED
    BY <2>1, <2>2, <2>3, <2>4, <2>5, <2>6, <2>7, Client
<1>11. CASE Fail
  <2>1. Types'
    BY <1>0, <1>11 DEF Fail, service, operation, handle, history, Goto, Failed, Putting, PutPCs, Types, PCs, Jobs, Names, Shape, NoTag, Puts, Uploading, Moving
  <2>2. Shape'
    BY <1>0, <1>11 DEF Fail, service, operation, handle, history, Goto, Failed, Putting, PutPCs, Types, Names, Shape, Uploading, Moving, Puts
  <2>3. /\ UNCHANGED <<files, tags>> /\ stag' <= tags /\ base' <= tags /\ puts <= puts'
        /\ known \subseteq known' /\ excused \subseteq excused' /\ late' = late
        /\ \A i \in Puts : i <= puts => content'[i] = content[i]
    <3>1. files' = files /\ tags' = tags /\ late' = late
      BY <1>11 DEF Fail, service, operation, handle, history
    <3>2. stag' <= tags /\ base' <= tags
      BY <1>0, <1>11 DEF Fail, service, operation, handle, history, Goto, Failed, Putting, PutPCs, Types, Tagged, Names, NoTag
    <3>3. known \subseteq known' /\ excused \subseteq excused'
      BY <1>11 DEF Fail, service, operation, handle, history, Goto, Failed, Putting, PutPCs
    <3>4. puts <= puts'
      <4>1. puts' = puts
        BY <1>11 DEF Fail, service, operation, handle, history, Goto, Failed, Putting, PutPCs
      <4> QED
        BY <1>0, <1>11, <4>1
    <3>5. \A i \in Puts : i <= puts => content'[i] = content[i]
      BY <1>0, <1>11 DEF Fail, service, operation, handle, history, Goto, Failed, Putting, PutPCs, Types, Puts
    <3> QED
      BY <3>1, <3>2, <3>3, <3>4, <3>5
  <2>4. Begun <= Begun'
    <3>1. puts' = puts /\ pc' # "create"
      BY <1>11 DEF Fail, service, operation, handle, history, Goto, Failed, Putting, PutPCs
    <3> QED
      BY <1>0, <1>11, <3>1, BegunKept
  <2>5. Step1'
    BY <1>0, <1>11 DEF Fail, service, operation, handle, history, Goto, Failed, Putting, PutPCs, Types, Step1, Shape, Seen, Exact, Exists, Moving, Names, NoTag, Placed, Uploading, Absent
  <2>6. SavedOrKept'
    BY <1>0, <1>11 DEF Fail, service, operation, handle, history, Goto, Failed, Putting, PutPCs, Types, SavedOrKept, Shape, Step1
  <2>7. StagesCleaned'
    BY <1>0, <1>11 DEF Fail, service, operation, handle, history, Goto, Failed, Putting, PutPCs, Types, StagesCleaned, Shape, Step1, Placed, Begun, Absent, Exists, Uploading, NoTag, Puts
  <2> QED
    BY <2>1, <2>2, <2>3, <2>4, <2>5, <2>6, <2>7, Client
<1>12. CASE PutAppend
  <2>1. Types'
    BY <1>0, <1>12 DEF PutAppend, service, operation, handle, history, Putting, PutPCs, Types, PCs, Jobs, Names, Shape, NoTag, Puts, Uploading, Moving, More
  <2>2. Shape'
    BY <1>0, <1>12 DEF PutAppend, service, operation, handle, history, Putting, PutPCs, Types, Names, Shape, Uploading, Moving, More, Puts
  <2>3. /\ UNCHANGED <<files, tags>> /\ stag' <= tags /\ base' <= tags /\ puts <= puts'
        /\ known \subseteq known' /\ excused \subseteq excused' /\ late' = late
        /\ \A i \in Puts : i <= puts => content'[i] = content[i]
    BY <1>0, <1>12 DEF PutAppend, service, operation, handle, history, Putting, PutPCs, Types, Tagged, Names, NoTag, Puts
  <2>4. Begun <= Begun'
    <3>1. puts' = puts /\ pc' # "create"
      BY <1>12 DEF PutAppend, service, operation, handle, history, Putting, PutPCs
    <3> QED
      BY <1>0, <1>12, <3>1, BegunKept
  <2>5. Step1'
    BY <1>0, <1>12 DEF PutAppend, service, operation, handle, history, Putting, PutPCs, Types, Step1, Shape, Seen, Exact, Exists, Moving, Names, NoTag, Placed, Uploading, Absent
  <2>6. SavedOrKept'
    BY <1>0, <1>12 DEF PutAppend, service, operation, handle, history, Putting, PutPCs, Types, SavedOrKept, Shape, Step1
  <2>7. StagesCleaned'
    BY <1>0, <1>12 DEF PutAppend, service, operation, handle, history, Putting, PutPCs, Types, StagesCleaned, Shape, Step1, Placed, Begun, Absent, Exists, Uploading, NoTag, Puts
  <2> QED
    BY <2>1, <2>2, <2>3, <2>4, <2>5, <2>6, <2>7, Client
<1>13. CASE PutStat
  <2>1. Types'
    BY <1>0, <1>13 DEF PutStat, service, operation, handle, history, Goto, Putting, PutPCs, Types, PCs, Jobs, Names, Shape, NoTag, Puts, Uploading, Moving
  <2>2. Shape'
    BY <1>0, <1>13 DEF PutStat, service, operation, handle, history, Goto, Putting, PutPCs, Types, Names, Shape, Uploading, Moving, Puts
  <2>3. /\ UNCHANGED <<files, tags>> /\ stag' <= tags /\ base' <= tags /\ puts <= puts'
        /\ known \subseteq known' /\ excused \subseteq excused' /\ late' = late
        /\ \A i \in Puts : i <= puts => content'[i] = content[i]
    BY <1>0, <1>13 DEF PutStat, service, operation, handle, history, Goto, Putting, PutPCs, Types, Tagged, Names, NoTag, Puts
  <2>4. Begun <= Begun'
    <3>1. puts' = puts /\ pc' # "create"
      BY <1>13 DEF PutStat, service, operation, handle, history, Goto, Putting, PutPCs
    <3> QED
      BY <1>0, <1>13, <3>1, BegunKept
  <2>5. Step1'
    BY <1>0, <1>13 DEF PutStat, service, operation, handle, history, Goto, Putting, PutPCs, Types, Step1, Shape, Seen, Exact, Exists, Moving, Names, NoTag, Placed, Uploading, Absent
  <2>6. SavedOrKept'
    BY <1>0, <1>13 DEF PutStat, service, operation, handle, history, Goto, Putting, PutPCs, Types, SavedOrKept, Shape, Step1
  <2>7. StagesCleaned'
    BY <1>0, <1>13 DEF PutStat, service, operation, handle, history, Goto, Putting, PutPCs, Types, StagesCleaned, Shape, Step1, Placed, Begun, Absent, Exists, Uploading, NoTag, Puts
  <2> QED
    BY <2>1, <2>2, <2>3, <2>4, <2>5, <2>6, <2>7, Client
<1>14. CASE CheckTarget
  <2>1. Types'
    BY <1>0, <1>14 DEF CheckTarget, service, operation, handle, history, Goto, Putting, PutPCs, Types, PCs, Jobs, Names, Shape, NoTag, Puts, Uploading, Moving
  <2>2. Shape'
    BY <1>0, <1>14 DEF CheckTarget, service, operation, handle, history, Goto, Putting, PutPCs, Types, Names, Shape, Uploading, Moving, Puts
  <2>3. /\ UNCHANGED <<files, tags>> /\ stag' <= tags /\ base' <= tags /\ puts <= puts'
        /\ known \subseteq known' /\ excused \subseteq excused' /\ late' = late
        /\ \A i \in Puts : i <= puts => content'[i] = content[i]
    BY <1>0, <1>14 DEF CheckTarget, service, operation, handle, history, Goto, Putting, PutPCs, Types, Tagged, Names, NoTag, Puts
  <2>4. Begun <= Begun'
    <3>1. puts' = puts /\ pc' # "create"
      BY <1>14 DEF CheckTarget, service, operation, handle, history, Goto, Putting, PutPCs
    <3> QED
      BY <1>0, <1>14, <3>1, BegunKept
  <2>5. Step1'
    BY <1>0, <1>14 DEF CheckTarget, service, operation, handle, history, Goto, Putting, PutPCs, Types, Step1, Shape, Seen, Exact, Exists, Moving, Names, NoTag, Placed, Uploading, Absent
  <2>6. SavedOrKept'
    BY <1>0, <1>14 DEF CheckTarget, service, operation, handle, history, Goto, Putting, PutPCs, Types, SavedOrKept, Shape, Step1
  <2>7. StagesCleaned'
    BY <1>0, <1>14 DEF CheckTarget, service, operation, handle, history, Goto, Putting, PutPCs, Types, StagesCleaned, Shape, Step1, Placed, Begun, Absent, Exists, Uploading, NoTag, Puts
  <2> QED
    BY <2>1, <2>2, <2>3, <2>4, <2>5, <2>6, <2>7, Client
<1>15. CASE Verify
  <2>1. Types'
    BY <1>0, <1>15 DEF Verify, service, operation, handle, history, Goto, Putting, PutPCs, Types, PCs, Jobs, Names, Shape, NoTag, Puts, Uploading, Moving, StillDirty
  <2>2. Shape'
    BY <1>0, <1>15 DEF Verify, service, operation, handle, history, Goto, Putting, PutPCs, Types, Names, Shape, Uploading, Moving, Puts
  <2>3. /\ UNCHANGED <<files, tags>> /\ stag' <= tags /\ base' <= tags /\ puts <= puts'
        /\ known \subseteq known' /\ excused \subseteq excused' /\ late' = late
        /\ \A i \in Puts : i <= puts => content'[i] = content[i]
    BY <1>0, <1>15 DEF Verify, service, operation, handle, history, Goto, Putting, PutPCs, Types, Tagged, Names, NoTag, Puts
  <2>4. Begun <= Begun'
    <3>1. puts' = puts /\ pc' # "create"
      BY <1>15 DEF Verify, service, operation, handle, history, Goto, Putting, PutPCs
    <3> QED
      BY <1>0, <1>15, <3>1, BegunKept
  <2>5. Step1'
    BY <1>0, <1>15 DEF Verify, service, operation, handle, history, Goto, Putting, PutPCs, Types, Step1, Shape, Seen, Exact, Exists, Moving, Names, NoTag, Placed, Uploading, Absent, StillDirty
  <2>6. SavedOrKept'
    BY <1>0, <1>15 DEF Verify, service, operation, handle, history, Goto, Putting, PutPCs, Types, SavedOrKept, Shape, Step1, StillDirty
  <2>7. StagesCleaned'
    BY <1>0, <1>15 DEF Verify, service, operation, handle, history, Goto, Putting, PutPCs, Types, StagesCleaned, Shape, Step1, Placed, Begun, Absent, Exists, Uploading, NoTag, Puts
  <2> QED
    BY <2>1, <2>2, <2>3, <2>4, <2>5, <2>6, <2>7, Client
<1>16. CASE CleanStat
  <2>0. /\ pc = "cleanstat" /\ Putting
        /\ UNCHANGED <<files, tags, from, to, base, puts, local, dirty, content, known,
                       written, reached>>
        /\ \/ /\ Settle /\ (~Exists(from) \/ excused' = excused \cup {puts})
              /\ excused \subseteq excused'
           \/ /\ Exists(from) /\ OwnsStage /\ stag' = files[from].tag
              /\ pc' = "cleandelete" /\ UNCHANGED <<job, pos, spool, excused>>
    BY <1>0, <1>16 DEF CleanStat, Goto, service, Shape, PutPCs
  <2>1. Types'
    <3>1. files' = files /\ tags' = tags /\ edits' = edits /\ late' = late
      BY <1>16 DEF CleanStat, service, operation, handle, history
    <3>2. pc' \in PCs /\ job' \in Jobs
      BY <1>0, <1>16 DEF CleanStat, service, operation, handle, history, Goto, Settle, Putting, PutPCs, Types, PCs, Jobs
    <3>3. from' \in Names /\ to' \in Paths /\ puts' \in 0..MaxPuts
      BY <1>0, <1>16 DEF CleanStat, service, operation, handle, history, Goto, Settle, Putting, PutPCs, Types, Names, Puts
    <3>4. stag' \in Nat /\ base' \in Nat
      <4>1. \A n \in Names : files[n].tag \in Nat
        BY <1>0, <1>16
      <4> QED
        BY <1>0, <1>16, <4>1 DEF CleanStat, service, operation, handle, history, Goto, Settle, Putting, PutPCs, Types, NoTag, Names
    <3>5. content' \in [Puts -> Contents] /\ local' \in Contents
      BY <1>0, <1>16 DEF CleanStat, service, operation, handle, history, Goto, Settle, Putting, PutPCs, Types, Puts, Names
    <3>6. dirty' \in BOOLEAN /\ spool' \in BOOLEAN
      BY <1>0, <1>16 DEF CleanStat, service, operation, handle, history, Goto, Settle, Putting, PutPCs, Types
    <3>7. known' \subseteq Paths /\ excused' \subseteq Puts
      BY <1>0, <1>16 DEF CleanStat, service, operation, handle, history, Goto, Settle, Putting, PutPCs, Types, Shape
    <3>8. written' \in BOOLEAN /\ reached' \in BOOLEAN
      BY <1>0, <1>16 DEF CleanStat, service, operation, handle, history, Goto, Settle, Putting, PutPCs, Types
    <3> QED
      BY <1>0, <1>16, <3>1, <3>2, <3>3, <3>4, <3>5, <3>6, <3>7, <3>8 DEF Types
  <2>2. Shape'
    <3>1. CASE Settle
      BY <1>0, <2>0, <3>1 DEF Settle, Goto, Shape, Moving, Putting, PutPCs
    <3>2. CASE pc' = "cleandelete" /\ UNCHANGED <<job, pos, spool>>
      BY <1>0, <2>0, <3>2 DEF Shape, Moving, Putting, PutPCs, Uploading
    <3> QED
      BY <2>0, <3>1, <3>2
  <2>3. /\ UNCHANGED <<files, tags>> /\ stag' <= tags /\ base' <= tags /\ puts <= puts'
        /\ known \subseteq known' /\ excused \subseteq excused' /\ late' = late
        /\ \A i \in Puts : i <= puts => content'[i] = content[i]
    BY <1>0, <1>16 DEF CleanStat, service, operation, handle, history, Goto, Settle, Putting, PutPCs, Types, Tagged, Names, NoTag, Puts
  <2>4. Begun <= Begun'
    <3>1. puts' = puts /\ pc' # "create"
      BY <1>16 DEF CleanStat, service, operation, handle, history, Goto, Settle, Putting, PutPCs
    <3> QED
      BY <1>0, <1>16, <3>1, BegunKept
  <2>5. Step1'
    <3>1. Seen(to, base)'
      BY <1>0, <2>0 DEF Step1, Seen, Exists
    <3>2. CASE Settle
      BY <1>0, <2>0, <3>1, <3>2 DEF Settle, Goto, Step1, Moving, Putting
    <3>3. CASE /\ OwnsStage /\ stag' = files[from].tag /\ pc' = "cleandelete"
               /\ UNCHANGED <<job, pos, spool>>
      BY <1>0, <2>0, <3>1, <3>3 DEF Step1, Moving, Putting, OwnsStage
    <3> QED
      BY <2>0, <3>2, <3>3
  <2>6. SavedOrKept'
    BY <1>0, <1>16 DEF CleanStat, service, operation, handle, history, Goto, Settle, Putting, PutPCs, Types, SavedOrKept, Shape, Step1
  <2>7. StagesCleaned'
    BY <1>0, <1>16 DEF CleanStat, service, operation, handle, history, Goto, Settle, Putting, PutPCs, Types, StagesCleaned, Shape, Step1, Placed, Begun, Absent, Exists, Uploading, OwnsStage, NoTag, Puts
  <2> QED
    BY <2>1, <2>2, <2>3, <2>4, <2>5, <2>6, <2>7, Client
<1>17. ASSUME UNCHANGED vars PROVE LInv'
  <2>1. /\ UNCHANGED <<files, tags, edits, late, pc, job, from, to, stag, base, puts, pos>>
        /\ UNCHANGED <<local, dirty, spool, content, known, excused, written, reached>>
    BY <1>17 DEF vars, service, operation, handle, history
  <2>2. Begun' = Begun
    BY <2>1 DEF Begun
  <2>3. Types'
    BY <1>0, <2>1 DEF Types
  <2>4. Shape'
    BY <1>0, <2>1 DEF Shape, Putting, Moving
  <2>5. Step1'
    BY <1>0, <2>1 DEF Step1, Seen, Exists, Exact, Putting, Moving
  <2>6. SavedOrKept' /\ StagesCleaned'
    BY <1>0, <2>1 DEF SavedOrKept, StagesCleaned, Putting
  <2>7. Begun <= Begun' /\ stag <= tags /\ base <= tags
    BY <1>0, <2>1, <2>2 DEF Begun, Tagged
  <2> QED
    BY <1>0, <2>1, <2>3, <2>4, <2>5, <2>6, <2>7, Client
<1>18. ASSUME NEW p \in Paths, Missing(p) PROVE LInv'
  BY <1>17, <1>18 DEF Missing
<1>19. ASSUME Step PROVE LInv'
  <2>1. CASE Put
    BY <1>12, <1>13, <1>16, <2>1, PutCreateKeeps, PutFlushKeeps, CleanDeleteKeeps DEF Put
  <2> QED
    BY <1>3, <1>9, <1>10, <1>11, <1>14, <1>15, <1>19, <2>1, RenameStepKeeps, DeleteKeeps
       DEF Step
<1>20. ASSUME NEW r \in late, Deliver(r) PROVE LInv'
  BY <1>20, DeliverKeeps
<1>21. ASSUME NEW n \in Names, NEW c \in Contents, NEW owner \in 0..MaxPuts,
              Edit(n, c, owner)
       PROVE  LInv'
  BY <1>21, EditKeeps
<1> QED
  BY <1>1, <1>2, <1>4, <1>5, <1>6, <1>7, <1>8, <1>17, <1>18, <1>19, <1>20, <1>21 DEF Next

LEMMA InvInit == Init => LInv
<1> SUFFICES ASSUME Init PROVE LInv
  OBVIOUS
<1>1. /\ MaxPuts \in Nat /\ MaxEdits \in Nat /\ Empty \in Contents /\ Chunks[Empty] = 0
      /\ \A c \in Contents : Chunks[c] \in Nat
      /\ \A i \in Puts : i \in 1..MaxPuts /\ i \in Names /\ i \notin Paths
      /\ \A p \in Paths : p \in Names
  BY LakeSaveAssumption DEF Puts, Names
<1>2. /\ tags = 1 /\ late = {} /\ edits = 0 /\ pc = "idle" /\ job = "none"
      /\ from \in Paths /\ to = from /\ stag = 0 /\ base = 0 /\ puts = 0 /\ pos = 0
      /\ local = Empty /\ dirty = FALSE /\ spool = FALSE
      /\ content = [i \in Puts |-> Empty] /\ known = {} /\ excused = {}
      /\ written = FALSE /\ reached = FALSE
      /\ \A i \in Puts : files[i] = Absent
  BY DEF Init, NoTag
<1>3. \A n \in Names : files[n] = Absent \/
        \E c \in Contents : files[n] = [tag |-> 1, data |-> c, len |-> Chunks[c],
                                       owner |-> 0, put |-> 0]
  BY DEF Init
<1>4. ASSUME NEW n \in Names
      PROVE  /\ files[n] \in File /\ files[n].tag \in {0, 1}
             /\ files[n].tag = 0 => files[n] = Absent
             /\ files[n].len = Chunks[files[n].data]
             /\ files[n].put = 0 /\ files[n].owner = 0
  <2>1. CASE files[n] = Absent
    BY <1>1, <2>1, AbsentFields
  <2>2. ASSUME NEW c \in Contents, files[n] = [tag |-> 1, data |-> c, len |-> Chunks[c],
                                               owner |-> 0, put |-> 0]
        PROVE  /\ files[n] \in File /\ files[n].tag = 1
               /\ files[n].len = Chunks[files[n].data]
               /\ files[n].put = 0 /\ files[n].owner = 0
    BY <1>1, <2>2 DEF File
  <2>3. 1 \in {0, 1} /\ 1 # 0
    OBVIOUS
  <2>4. CASE files[n] # Absent
    <3>1. PICK c \in Contents : files[n] = [tag |-> 1, data |-> c, len |-> Chunks[c],
                                           owner |-> 0, put |-> 0]
      BY <1>3, <2>4
    <3> QED
      BY <2>2, <2>3, <3>1
  <2> QED
    BY <2>1, <2>4
<1>5. files \in [Names -> File]
  <2>1. files \in [Names -> {Absent} \cup {[tag |-> 1, data |-> c, len |-> Chunks[c],
                                            owner |-> 0, put |-> 0] : c \in Contents}]
    BY DEF Init
  <2> QED
    BY <1>4, <2>1
<1>6. Types
  <2>1. /\ from \in Names /\ to \in Paths /\ puts \in 0..MaxPuts /\ edits \in 0..MaxEdits
        /\ tags \in Nat /\ stag \in Nat /\ base \in Nat
    BY <1>1, <1>2
  <2>2. /\ content \in [Puts -> Contents] /\ local \in Contents /\ late \subseteq Request
        /\ known \subseteq Paths /\ excused \subseteq Puts
    BY <1>1, <1>2
  <2>3. /\ dirty \in BOOLEAN /\ spool \in BOOLEAN /\ written \in BOOLEAN
        /\ reached \in BOOLEAN
    BY <1>2
  <2>4. pc \in PCs /\ job \in Jobs
    BY <1>2 DEF PCs, Jobs
  <2> QED
    BY <1>5, <2>1, <2>2, <2>3, <2>4 DEF Types
<1>7. Shape
  BY <1>2 DEF Shape, Putting, Moving, PutPCs
<1>8. Tagged
  BY <1>2, <1>4 DEF Tagged, Exists, NoTag
<1>9. Placed
  BY <1>1, <1>2, <1>4 DEF Placed
<1>10. Requests
  BY <1>2 DEF Requests
<1>11. Step1
  BY <1>2 DEF Step1, Moving, Putting
<1>12. SavedOrKept /\ StagesCleaned
  BY <1>1, <1>2, <1>4 DEF SavedOrKept, StagesCleaned
<1> QED
  BY <1>6, <1>7, <1>8, <1>9, <1>10, <1>11, <1>12 DEF LInv

LEMMA LInvAlways == Spec => []LInv
  BY InvInit, InvNext, PTL DEF Spec

\* Whatever changes the files: another client, the markerless answer to the
\* create of a stage, or a request that was due.
LEMMA Effects ==
    ASSUME LInv, [Next]_vars
    PROVE  \/ files' = files
           \/ /\ edits' = edits + 1
              /\ \A p \in Paths : files'[p] = files[p] \/ files'[p].put = 0
           \/ /\ pc = "create" /\ files'[from] # Absent
              /\ \A n \in Names : n # from => files'[n] = files[n]
           \/ \E r \in Request : Due(r) /\ Apply(r)
<1>1. CASE UNCHANGED vars
  BY <1>1 DEF vars, service
<1>2. ASSUME NEW p \in Paths, NEW q \in Paths, NEW b \in BOOLEAN, NEW c \in Contents,
             \/ Open(p, b) \/ Create(p) \/ Remove(p) \/ Missing(p) \/ Rename(p, q)
             \/ Write(c) \/ Close \/ Crash
      PROVE  files' = files
  BY <1>2 DEF Open, Create, Remove, Missing, Rename, Write, Close, Crash, vars, service
<1>3. ASSUME NEW b \in BOOLEAN,
             \/ Flush \/ PutAppend \/ PutStat \/ CleanStat \/ CheckTarget \/ Verify
             \/ Fail \/ SourceStat \/ TargetStat(b)
      PROVE  files' = files
  BY <1>3 DEF Flush, PutAppend, PutStat, CleanStat, CheckTarget, Verify, Fail, SourceStat,
     TargetStat, service
<1>4. ASSUME NEW n \in Names, NEW c \in Contents, NEW owner \in 0..MaxPuts,
             Edit(n, c, owner)
      PROVE  /\ edits' = edits + 1
             /\ \A p \in Paths : files'[p] = files[p] \/ files'[p].put = 0
  <2>1. edits' = edits + 1
    BY <1>4 DEF Edit
  <2>2. \/ files' = [files EXCEPT ![n] = [tag |-> tags + 1, data |-> c, len |-> Chunks[c],
                                        owner |-> owner, put |-> 0]]
        \/ files' = [files EXCEPT ![n] = Absent]
    BY <1>4 DEF Edit
  <2>3. files \in [Names -> File] /\ \A p \in Paths : p \in Names
    BY DEF LInv, Types, Names
  <2> QED
    BY <2>1, <2>2, <2>3, AbsentFields
<1>5. ASSUME NEW r \in late, Deliver(r)
      PROVE  \E q \in Request : Due(q) /\ Apply(q)
  <2>1. r \in Request /\ Due(r)
    BY DEF LInv, Types, Requests
  <2> QED
    BY <1>5, <2>1 DEF Deliver
<1>6. CASE PutFlush
  BY <1>6, DueSent DEF PutFlush, AskFails, service
<1>7. CASE RenameStep
  BY <1>7, DueSent DEF RenameStep, AskFails, service
<1>8. CASE Delete
  BY <1>8, DueSent DEF Delete, AskFails, service
<1>9. CASE CleanDelete
  BY <1>9, DueSent DEF CleanDelete, service
<1>10. CASE PutCreate
  <2>1. CASE files' = [files EXCEPT ![from] =
                          [tag |-> tags + 1, data |-> Empty, len |-> 0,
                           owner |-> 0, put |-> 0]]
    <3>1. files \in [Names -> File] /\ from \in Names /\ tags + 1 # 0 /\ pc = "create"
      BY <1>10, Values DEF Types, PutCreate
    <3> QED
      BY <2>1, <3>1, AbsentFields
  <2> QED
    BY <1>10, <2>1, DueSent DEF PutCreate, service
<1>11. CASE Next
  <2>1. CASE Step
    <3>1. CASE Put
      BY <1>3, <1>6, <1>9, <1>10, <3>1 DEF Put
    <3> QED
      BY <1>3, <1>7, <1>8, <2>1, <3>1 DEF Step
  <2>2. Empty \in Contents /\ TRUE \in BOOLEAN /\ to \in Paths
    BY LakeSaveAssumption DEF LInv, Types
  <2> QED
    BY <1>2, <1>4, <1>5, <1>11, <2>1, <2>2 DEF Next
<1> QED
  BY <1>1, <1>11

-----------------------------------------------------------------------------
(* Theorems *)

\* Type correctness of openLake, Remove, Rename and Put: whatever the service
\* answers, and whoever else writes, an upload never sends more than its spool.
THEOREM TypeCorrect == Spec => []TypeOK
<1>1. LInv => TypeOK
  <2> SUFFICES ASSUME LInv PROVE TypeOK
    OBVIOUS
  <2>1. Types /\ Shape
    BY DEF LInv
  <2>2. pc \in PutPCs => puts \in Puts /\ from = puts /\ pos \in 0..Chunks[content[puts]]
    BY <2>1 DEF Shape
  <2> QED
    BY <2>1, <2>2 DEF TypeOK, Types
<1> QED
  BY <1>1, LInvAlways, PTL

\* Flush and Close never discard what was written: the handle is dirty and its
\* spool on the disk, or the path has held it, however many handles, saves,
\* lost answers and deaths of the process there have been.
THEOREM SavesAreKept == Spec => []SavedOrKept
<1>1. LInv => SavedOrKept
  BY DEF LInv
<1> QED
  BY <1>1, LInvAlways, PTL

\* A path never holds part of an upload, nor a stage that somebody else has
\* written to: the rename of Put is conditional on the version that it checked.
THEOREM CommitsAreExact == Spec => []CommitsExact
<1>1. LInv => CommitsExact
  BY DEF LInv, Placed, CommitsExact
<1> QED
  BY <1>1, LInvAlways, PTL

\* The cleanup of Put leaves no marked stage behind that the user has not been
\* told of.
THEOREM CleanupIsComplete == Spec => []StagesCleaned
<1>1. LInv => StagesCleaned
  BY DEF LInv
<1> QED
  BY <1>1, LInvAlways, PTL

\* What a request that was due does not do: it replaces no version of a path
\* that the mount has not read, deletes no stage of others, and puts no upload
\* in the place of a later one.
LEMMA Effect ==
    ASSUME LInv, NEW r \in Request, Due(r), Apply(r)
    PROVE  /\ \A p \in Paths : Exists(p) /\ files'[p] # files[p] => p \in known
           /\ \A i \in Puts : Exists(i) /\ files'[i] = Absent =>
                 files[i].owner = i \/ \E p \in Paths : files'[p].put = i
           /\ \A p \in Paths :
                 /\ files[p].put # 0 /\ files'[p].put # 0
                 /\ files'[p].tag # files[p].tag
                 => files'[p].put > files[p].put
<1>0. /\ r.op \in {"create", "flush", "rename", "delete"} /\ tags \in Nat
      /\ r.from \in Names /\ r.to \in Names
      /\ r.stag \in 0..tags /\ r.dtag \in 0..tags
      /\ \A i \in Puts : i \in Names /\ i \notin Paths /\ i # 0 /\ i \in Nat
      /\ \A n \in Names : n \in Puts \/ n \in Paths
      /\ \A p \in Paths : p \in Names
      /\ \A n \in Names : files[n] \in File
  BY Values DEF Request, Due, Names
<1>1. \A n \in Names : files'[n] = IF n = r.to THEN Result(r)
                                  ELSE IF r.op = "rename" /\ n = r.from THEN Absent
                                  ELSE files[n]
  BY DEF Apply, Applied
<1>2. /\ files[r.to].tag = r.dtag
      /\ r.op = "rename" => Exists(r.from) /\ files[r.from].tag = r.stag
  BY <1>0 DEF Apply, Holds, Met, AnyTag
<1>3. ASSUME NEW p \in Paths, Exists(p), files'[p] # files[p]
      PROVE  p \in known
  <2>1. CASE p = r.to
    BY <1>0, <1>2, <1>3, <2>1 DEF Due, Seen
  <2>2. CASE r.op = "rename" /\ p = r.from
    BY <1>0, <1>2, <1>3, <2>2 DEF Due, Seen
  <2> QED
    BY <1>0, <1>1, <1>3, <2>1, <2>2
<1>4. ASSUME NEW i \in Puts, Exists(i), files'[i] = Absent
      PROVE  files[i].owner = i \/ \E p \in Paths : files'[p].put = i
  <2>1. CASE i = r.to
    <3>1. r.op = "delete"
      BY <1>0, <1>1, <1>4, <2>1, ResultTyped, AbsentFields, Values
    <3> QED
      BY <1>2, <1>4, <2>1, <3>1 DEF Due
  <2>2. CASE i # r.to /\ r.op = "rename" /\ i = r.from
    <3>1. r.to \in Paths /\ files'[r.to] = Result(r)
      BY <1>0, <1>1, <2>2 DEF Due
    <3>2. Result(r).put = i
      BY <2>2 DEF Result
    <3> QED
      BY <3>1, <3>2
  <2> QED
    BY <1>0, <1>1, <1>4, <2>1, <2>2, AbsentFields DEF Exists, NoTag
<1>5. ASSUME NEW p \in Paths, files[p].put # 0, files'[p].put # 0,
             files'[p].tag # files[p].tag
      PROVE  files'[p].put > files[p].put
  <2>1. p \in Names /\ files'[p] # files[p] /\ files'[p] # Absent
    BY <1>0, <1>5, AbsentFields
  <2>2. p = r.to /\ files'[p] = Result(r)
    BY <1>0, <1>1, <2>1
  <2>3. r.op = "rename"
    BY <1>0, <1>5, <2>1, <2>2, ResultTyped, Values DEF Due
  <2>4. r.from \in Puts /\ files'[p].put = r.from
    BY <1>5, <2>2, <2>3 DEF Result
  <2>5. files[p].put < r.from
    BY <1>2, <2>2, <2>3, <2>4 DEF Due
  <2>6. files[p].put \in Int /\ r.from \in Int
    BY <1>0, <2>1, <2>4 DEF File
  <2> QED
    BY <2>4, <2>5, <2>6
<1> QED
  BY <1>3, <1>4, <1>5

\* The actions of OverwritesKnown and of SavesInOrder.
KnownStep ==
    edits' = edits =>
        /\ \A p \in Paths : Exists(p) /\ files'[p] # files[p] => p \in known
        /\ \A i \in Puts : Exists(i) /\ files'[i] = Absent =>
              files[i].owner = i \/ \E p \in Paths : files'[p].put = i

OrderStep ==
    \A p \in Paths :
        /\ files[p].put # 0 /\ files'[p].put # 0
        /\ files'[p].tag # files[p].tag
        => files'[p].put > files[p].put

\* A request of the mount, even one that arrives after it has been given up on,
\* only ever replaces or deletes a version of a path that the mount had read,
\* and a stage with the mark of its upload.
THEOREM OverwritesAreKnown == Spec => OverwritesKnown
<1>1. LInv /\ [Next]_vars => [KnownStep]_vars
  <2> SUFFICES ASSUME LInv, [Next]_vars, edits' = edits
               PROVE  KnownStep
    BY DEF KnownStep
  <2>1. edits \in Nat /\ edits # edits + 1
    BY LakeSaveAssumption DEF LInv, Types
  <2>2. CASE files' = files
    BY <2>2, AbsentFields DEF Exists, NoTag, KnownStep
  <2>3. CASE /\ pc = "create" /\ files'[from] # Absent
             /\ \A n \in Names : n # from => files'[n] = files[n]
    <3>1. from \notin Paths
      BY <2>3, Values DEF Shape, PutPCs
    <3> QED
      BY <2>3, <3>1, AbsentFields DEF Exists, NoTag, Names, KnownStep
  <2>4. ASSUME NEW r \in Request, Due(r), Apply(r)
        PROVE  KnownStep
    BY <2>4, Effect DEF KnownStep
  <2> QED
    BY <2>1, <2>2, <2>3, <2>4, Effects
<1> QED
  BY <1>1, LInvAlways, PTL DEF OverwritesKnown, Spec, KnownStep

\* A save that arrives late never takes the place of a later one.
THEOREM SavesAreInOrder == Spec => SavesInOrder
<1>1. LInv /\ [Next]_vars => [OrderStep]_vars
  <2>1. ASSUME LInv, [Next]_vars, NEW p \in Paths, files[p].put # 0, files'[p].put # 0,
               files'[p].tag # files[p].tag
        PROVE  files'[p].put > files[p].put
    <3>1. ~(files' = files) /\ ~(files'[p] = files[p])
      BY <2>1
    <3>2. pc = "create" => p # from /\ p \in Names
      BY <2>1, Values DEF Shape, PutPCs, Names
    <3>3. \E r \in Request : Due(r) /\ Apply(r)
      BY <2>1, <3>1, <3>2, Effects
    <3> QED
      BY <2>1, <3>3, Effect
  <2> QED
    BY <2>1 DEF OrderStep
<1> QED
  BY <1>1, LInvAlways, PTL DEF SavesInOrder, Spec, OrderStep

-----------------------------------------------------------------------------
(* The registers of LakeFiles *)

\* What is new at the service has a new version tag.
TagsMove ==
    /\ tags' \in {tags, tags + 1}
    /\ \A n \in Names : \/ files'[n] = files[n] \/ files'[n] = Absent
                        \/ files'[n].tag = tags + 1 /\ tags' = tags + 1

\* A request that may take effect could have done so before, and on the same
\* versions.
LEMMA Outlives ==
    ASSUME LInv, TagsMove, NEW r \in Request, Due(r), r.to \in Paths,
           MayHold(r)', r.op = "rename" => Exists(r.from)'
    PROVE  MayHold(r) /\ (r.op = "rename" => Exists(r.from))
<1>0. /\ tags \in Nat /\ r.stag \in 0..tags /\ r.dtag \in 0..tags
      /\ r.from \in Names /\ r.to \in Names
  BY Values DEF Request, Due
<1>1. ASSUME NEW n \in Names, NEW s \in 0..tags, s # 0, files'[n].tag = s
      PROVE  files[n].tag = s
  BY <1>0, <1>1, AbsentFields DEF TagsMove
<1>2. r.dtag # NoTag => Met(r.dtag, r.to)
  BY <1>0, <1>1 DEF MayHold, Met, NoTag, AnyTag
<1>3. r.op = "rename" => Met(r.stag, r.from) /\ Exists(r.from)
  BY <1>0, <1>1 DEF MayHold, Met, Exists, NoTag, AnyTag
<1> QED
  BY <1>2, <1>3 DEF MayHold

\* The request of the current step is due.
LEMMA AskingDue ==
    ASSUME LInv
    PROVE  \A r \in late \cup Asking : r \in Request /\ Due(r)
  BY DueSent DEF LInv, Types, Requests, Asking

\* Unless it has been sent, no request gets outstanding.
LEMMA Fewer ==
    ASSUME LInv, TagsMove,
           \A r \in late' \cup Asking' : r \in late \cup Asking \/ r.to \notin Paths
    PROVE  Outstanding' \subseteq Outstanding
<1> SUFFICES ASSUME NEW r \in Outstanding'
             PROVE  r \in Outstanding
  OBVIOUS
<1>1. /\ r \in late' \cup Asking' /\ r.to \in Paths
      /\ MayHold(r)' /\ (r.op = "rename" => Exists(r.from)')
  BY DEF Outstanding
<1>2. r \in late \cup Asking /\ r \in Request /\ Due(r)
  BY <1>1, AskingDue
<1> QED
  BY <1>1, <1>2, Outlives DEF Outstanding

\* A step that the registers do not see.
LEMMA Aside ==
    ASSUME LInv, TagsMove, \A p \in Paths : files'[p] = files[p],
           \A r \in late' \cup Asking' : r \in late \cup Asking \/ r.to \notin Paths,
           UNCHANGED <<content, puts>>, edits' = edits \/ edits' = edits + 1,
           known \subseteq known', Current' \in {0, Current}
    PROVE  Registers!Elsewhere
<1>1. tags' >= tags /\ edits' >= edits
  BY Values DEF TagsMove, Types
<1>2. Outstanding' \subseteq Outstanding
  BY Fewer
<1>3. Versions' = Versions
  BY DEF Versions
<1> QED
  BY <1>1, <1>2, <1>3 DEF Registers!Elsewhere

\* The service has changed nothing, and the client is not about to ask.
Quiet ==
    /\ UNCHANGED <<files, tags, edits, late, content, puts>> /\ known \subseteq known'
    /\ pc' \notin {"rename", "delete"}
    /\ Current' \in {0, Current}

LEMMA QuietAside ==
    ASSUME LInv, Quiet
    PROVE  Registers!Elsewhere
<1>1. TagsMove /\ (\A p \in Paths : files'[p] = files[p]) /\ edits' = edits
  BY DEF Quiet, TagsMove
<1>2. Asking' = {} /\ late' = late
  BY DEF Quiet, Asking
<1> QED
  BY <1>1, <1>2, Aside DEF Quiet

\* Steps that ask for nothing and change nothing at a path.
LEMMA QuietBetween ==
    ASSUME NEW p \in Paths, NEW q \in Paths, NEW b \in BOOLEAN, NEW c \in Contents,
           Open(p, b) \/ Rename(p, q) \/ Write(c) \/ Close \/ Crash \/ TargetStat(b)
    PROVE  Quiet
<1>1. UNCHANGED <<files, tags, edits, late, content, puts>>
  BY DEF Open, Rename, Write, Close, Crash, TargetStat, service, operation, handle, history
<1>2. known \subseteq known'
  BY DEF Open, Rename, Write, Close, Crash, TargetStat, service, operation, handle, history
<1>3. pc' \in {"idle", "open", "target stat", "source stat"}
  BY DEF Open, Rename, Write, Close, Crash, TargetStat, Goto, service, operation, handle, history
<1>4. Current' = 0
  BY <1>3 DEF Current
<1> QED
  BY <1>1, <1>2, <1>3, <1>4 DEF Quiet

LEMMA QuietSteps ==
    ASSUME LInv, PutAppend \/ PutStat \/ CleanStat \/ Verify \/ Fail \/ SourceStat
    PROVE  Quiet
<1>1. UNCHANGED <<files, tags, edits, late, content, puts>>
  BY DEF PutAppend, PutStat, CleanStat, Verify, Fail, SourceStat, service, operation, handle, history
<1>2. known \subseteq known'
  BY DEF PutAppend, PutStat, CleanStat, Verify, Fail, SourceStat, service, operation, handle, history
<1>3. CASE PutAppend \/ PutStat
  <2>1. pc \in {"append", "stat"} /\ pc' \in {"append", "target"} /\ job' = job
    BY <1>3 DEF PutAppend, PutStat, Goto, service, operation, handle, history
  <2>2. Current' = Current
    BY <1>1, <2>1 DEF Current, Putting
  <2> QED
    BY <1>1, <1>2, <2>1, <2>2 DEF Quiet
<1>4. CASE CleanStat \/ Verify \/ Fail
  <2>1. pc' \in {"idle", "open", "cleanstat", "cleandelete"}
    BY <1>4 DEF CleanStat, Verify, Fail, Failed, Settle, Goto, service, operation, handle, history
  <2>2. Current' = 0
    BY <2>1 DEF Current
  <2> QED
    BY <1>1, <1>2, <2>1, <2>2 DEF Quiet
<1>5. CASE SourceStat
  <2>1. pc = "source stat" /\ pc' \in {"idle", "target"} /\ job' = job
    BY <1>5 DEF SourceStat, Goto, service, operation, handle, history
  <2>2. ~Putting
    BY <2>1, Values DEF Shape, Uploading, PutPCs
  <2>3. Current' = 0
    BY <2>1, <2>2 DEF Current, Putting
  <2> QED
    BY <1>1, <1>2, <2>1, <2>3 DEF Quiet
<1> QED
  BY <1>3, <1>4, <1>5

\* An upload begins.
LEMMA Begins ==
    ASSUME LInv, NEW p \in Paths, Flush \/ Create(p)
    PROVE  \E c \in Contents : Registers!Begin(c)
<1>1. \E c \in Contents : StartPut(c)
  <2>1. Empty \in Contents /\ local \in Contents
    BY LakeSaveAssumption, Values DEF Types
  <2>2. StartPut(Empty) \/ StartPut(local)
    BY DEF Flush, Create
  <2> QED
    BY <2>1, <2>2
<1>2. PICK c \in Contents : StartPut(c)
  BY <1>1
<1>3. /\ UNCHANGED <<service, late, known>> /\ pc \in {"open", "idle"}
      /\ pc' = "create" /\ job' \in {"create", "save"}
  BY <1>2 DEF Flush, Create, StartPut, Goto
<1>4. Outstanding' = Outstanding
  <2>1. Asking = {} /\ Asking' = {} /\ late' = late /\ files' = files
    BY <1>3 DEF Asking, service
  <2> QED
    BY <2>1 DEF Outstanding, MayHold, Met, Exists
<1>5. Versions' = Versions /\ UNCHANGED <<tags, edits>>
  BY <1>3 DEF Versions, service
<1>6. Current' = puts + 1
  BY <1>2, <1>3 DEF Current, Putting, StartPut
<1>7. Registers!Begin(c)
  BY <1>2, <1>3, <1>4, <1>5, <1>6 DEF StartPut, Registers!Begin
<1> QED
  BY <1>7

\* The commit of an upload, or a rename, is asked for.
LEMMA CheckTargetAsks ==
    ASSUME LInv, CheckTarget
    PROVE  \/ Registers!Elsewhere
           \/ \E r \in Outstanding' : Registers!Ask(r)
<1>0. /\ UNCHANGED <<files, tags, edits, late, job, from, to, stag, base, content, puts, known>>
      /\ pc = "target" /\ pc' = "rename"
  BY DEF CheckTarget, Goto, service, operation, handle, history
<1>1. Commit' = Commit /\ Asking = {} /\ Asking' = {Commit}
  BY <1>0 DEF Commit, Asking
<1>2. Current' = 0
  BY <1>0 DEF Current
<1>3. Versions' = Versions
  BY <1>0 DEF Versions
<1>4. \A r : /\ MayHold(r)' <=> MayHold(r)
             /\ Exists(r.from)' <=> Exists(r.from)
  BY <1>0 DEF MayHold, Met, Exists
<1>5. CASE Commit \in Outstanding'
  <2>1. Outstanding' = Outstanding \cup {Commit}
    BY <1>0, <1>1, <1>4, <1>5 DEF Outstanding
  <2>2. /\ Commit.from = from /\ Commit.to = to /\ Commit.stag = stag /\ Commit.dtag = base
        /\ Commit.op = "rename"
    BY DEF Commit
  <2>3. /\ Step1 /\ Shape /\ to \in Paths /\ from \in Names
        /\ \A i \in Puts : i \notin Paths
        /\ \A n \in Names : n \in Puts \/ n \in Paths
    BY Values
  <2>4. Versions[to] # Registers!None /\ Versions[to].tag = base => to \in known'
    <3>1. Seen(to, base)
      BY <1>0, <2>3 DEF Step1
    <3>2. files[to].tag = 0 => Versions[to] = Registers!None
      BY <2>3, Tags, Values, AbsentFields DEF Versions, Registers!None, Registers!NoTag, Names
    <3> QED
      BY <1>0, <2>3, <3>1, <3>2 DEF Seen, Exists, NoTag, Versions
  <2>5. CASE Putting
    <3>1. from \in Puts /\ from = puts /\ from \notin Paths /\ Current = puts
      BY <1>0, <2>3, <2>5 DEF Shape, Current
    <3>2. Versions[to].tag = base => Versions[to].put < from
      BY <2>3, <2>5, <3>1 DEF Step1, Versions
    <3>3. Registers!Ask(Commit)
      BY <1>0, <1>2, <1>3, <2>1, <2>2, <2>4, <3>1, <3>2
         DEF Registers!Ask, Registers!Known
    <3> QED
      BY <1>5, <3>3
  <2>6. CASE ~Putting
    <3>1. from \in Paths /\ Seen(from, stag) /\ Current = 0
      BY <1>0, <2>3, <2>6 DEF Shape, Step1, Moving, Current
    <3>2. files[from].tag = 0 => Versions[from] = Registers!None
      BY <2>3, <3>1, Tags, Values, AbsentFields
         DEF Versions, Registers!None, Registers!NoTag, Names
    <3>3. Versions[from] # Registers!None /\ Versions[from].tag = stag => from \in known'
      BY <1>0, <3>1, <3>2 DEF Seen, Exists, NoTag, Versions
    <3>4. Registers!Ask(Commit)
      BY <1>0, <1>2, <1>3, <2>1, <2>2, <2>4, <3>1, <3>3
         DEF Registers!Ask, Registers!Known
    <3> QED
      BY <1>5, <3>4
  <2> QED
    BY <2>5, <2>6
<1>6. CASE Commit \notin Outstanding'
  <2>1. Outstanding' \subseteq Outstanding
    BY <1>0, <1>1, <1>4, <1>6 DEF Outstanding
  <2>2. tags' >= tags /\ edits' >= edits
    BY <1>0, Values DEF Types
  <2> QED
    BY <1>0, <1>2, <1>3, <2>1, <2>2 DEF Registers!Elsewhere
<1> QED
  BY <1>5, <1>6

\* A delete is asked for.
LEMMA RemoveAsks ==
    ASSUME LInv, NEW p \in Paths, Remove(p)
    PROVE  \E r \in Outstanding' : Registers!Ask(r)
<1>0. /\ UNCHANGED <<files, tags, edits, late, content, puts>>
      /\ pc = "idle" /\ pc' = "delete" /\ to' = p /\ from' = p /\ Exists(p)
      /\ base' = files[p].tag /\ known' = known \cup {p}
  BY DEF Remove, Goto, service, operation, handle, history
<1> DEFINE r == [op |-> "delete", from |-> p, to |-> p, stag |-> NoTag, dtag |-> files[p].tag]
<1>1. Asking = {} /\ Asking' = {r}
  BY <1>0 DEF Asking, DeletePath
<1>2. Current' = 0 /\ Current = 0
  BY <1>0 DEF Current
<1>3. Versions' = Versions
  BY <1>0 DEF Versions
<1>4. \A q : /\ MayHold(q)' <=> MayHold(q)
             /\ Exists(q.from)' <=> Exists(q.from)
  BY <1>0 DEF MayHold, Met, Exists
<1>5. MayHold(r) /\ r.to \in Paths /\ r.op # "rename" /\ r.from \in Paths
  BY DEF MayHold, Met
<1>6. Outstanding' = Outstanding \cup {r}
  BY <1>0, <1>1, <1>4, <1>5 DEF Outstanding
<1>7. Registers!Ask(r)
  BY <1>0, <1>2, <1>3, <1>6 DEF Registers!Ask, Registers!Known
<1> QED
  BY <1>6, <1>7

\* A request that is refused or given up on stays outstanding, if it can.
LEMMA AskFailsAside ==
    ASSUME LInv, NEW r, AskFails(r), r \in Asking \/ r.to \notin Paths
    PROVE  Registers!Elsewhere
<1>1. /\ UNCHANGED <<files, tags, edits, content, puts, known>>
      /\ late' \in {late, late \cup {q \in {r} : MayHold(q)}}
      /\ pc' \in {"cleanstat", "idle"}
  BY DEF AskFails, Failed, Goto, service, history
<1>2. Asking' = {} /\ Current' = 0
  BY <1>1 DEF Asking, Current
<1>3. TagsMove /\ \A p \in Paths : files'[p] = files[p]
  BY <1>1 DEF TagsMove
<1>4. \A q \in late' \cup Asking' : q \in late \cup Asking \/ q.to \notin Paths
  BY <1>1, <1>2
<1> QED
  BY <1>1, <1>2, <1>3, <1>4, Aside

\* What a request that was due does to the tags and to the history.
LEMMA AppliedMoves ==
    ASSUME LInv, NEW r \in Request, Due(r), Apply(r)
    PROVE  /\ TagsMove /\ edits' = edits /\ late' \subseteq late \ {r}
           /\ tags' = IF r.op = "delete" THEN tags ELSE tags + 1
           /\ known' = {p \in known : files'[p] = files[p]}
           /\ \A n \in Names : files'[n] = IF n = r.to THEN Result(r)
                                          ELSE IF r.op = "rename" /\ n = r.from THEN Absent
                                          ELSE files[n]
<1>1. /\ tags' = IF r.op = "delete" THEN tags ELSE tags + 1
      /\ edits' = edits /\ late' \subseteq late \ {r}
      /\ known' = {p \in known : files'[p] = files[p]}
  BY DEF Apply, Noticed, Pending
<1>2. \A n \in Names : files'[n] = IF n = r.to THEN Result(r)
                                  ELSE IF r.op = "rename" /\ n = r.from THEN Absent
                                  ELSE files[n]
  BY DEF Apply, Applied
<1>3. /\ r.op # "delete" => Result(r).tag = tags + 1
      /\ r.op = "delete" => Result(r) = Absent
  BY Values, ResultTyped
<1>4. TagsMove
  BY <1>1, <1>2, <1>3 DEF TagsMove
<1> QED
  BY <1>1, <1>2, <1>4

\* A request for a stage is none for a path.
LEMMA StageAside ==
    ASSUME LInv, NEW r \in Request, Due(r), Apply(r), r.to \notin Paths,
           UNCHANGED <<content, puts>>, Current' \in {0, Current},
           \A q \in Asking' : q \in late \cup Asking \/ q.to \notin Paths
    PROVE  Registers!Elsewhere
<1>1. r.op # "rename"
  BY DEF Due
<1>2. \A p \in Paths : files'[p] = files[p]
  BY <1>1, AppliedMoves DEF Names
<1>3. known' = known
  BY <1>2, AppliedMoves, Values DEF Types
<1>4. \A q \in late' \cup Asking' : q \in late \cup Asking \/ q.to \notin Paths
  BY AppliedMoves
<1> QED
  BY <1>2, <1>3, <1>4, Aside, AppliedMoves

\* A request for a path takes effect, once.
LEMMA TakesEffect ==
    ASSUME LInv, NEW r \in late \cup Asking, Apply(r), r.to \in Paths,
           UNCHANGED <<content, puts, Current>>, Asking' \subseteq Asking
    PROVE  \E q \in Outstanding : Registers!Save(q) \/ Registers!Move(q) \/ Registers!Delete(q)
<1>0. /\ r \in Request /\ Due(r) /\ tags \in Nat
      /\ r.to \in Names /\ r.from \in Names /\ r.to \notin Puts
      /\ r.stag \in 0..tags /\ r.dtag \in 0..tags
      /\ \A i \in Puts : i \notin Paths
      /\ \A n \in Names : files[n] \in File /\ files[n].tag \in 0..tags
  BY AskingDue, Values DEF Request, Due
<1>1. /\ files[r.to].tag = r.dtag /\ r.op \in {"rename", "delete"}
      /\ r.op = "delete" => Exists(r.to)
      /\ r.op = "rename" => Exists(r.from) /\ files[r.from].tag = r.stag
  BY <1>0 DEF Apply, Holds, Met, AnyTag, Due, Request
<1>2. r \in Outstanding
  BY <1>1 DEF Outstanding, MayHold, Met
<1>3. /\ TagsMove /\ edits' = edits /\ late' \subseteq late \ {r}
      /\ tags' = IF r.op = "delete" THEN tags ELSE tags + 1
      /\ known' = {p \in known : files'[p] = files[p]}
      /\ \A n \in Names : files'[n] = IF n = r.to THEN Result(r)
                                     ELSE IF r.op = "rename" /\ n = r.from THEN Absent
                                     ELSE files[n]
  BY <1>0, AppliedMoves
<1>4. Outstanding' \subseteq Outstanding \ {r}
  <2>1. Outstanding' \subseteq Outstanding
    BY <1>3, Fewer
  <2>2. CASE r.op = "rename"
    <3>1. CASE r.from = r.to
      <4>1. files'[r.from].tag = tags + 1
        BY <1>0, <1>3, <2>2, <3>1, ResultTyped, Values
      <4>2. ~MayHold(r)'
        BY <1>0, <2>2, <4>1 DEF MayHold, Met, AnyTag
      <4> QED
        BY <2>1, <4>2 DEF Outstanding
    <3>2. CASE r.from # r.to
      <4>1. ~Exists(r.from)'
        BY <1>0, <1>3, <2>2, <3>2, AbsentFields DEF Exists, NoTag
      <4> QED
        BY <2>1, <2>2, <4>1 DEF Outstanding
    <3> QED
      BY <3>1, <3>2
  <2>3. CASE r.op = "delete"
    <3>1. files'[r.to].tag = 0 /\ r.dtag # 0
      BY <1>0, <1>1, <1>3, <2>3, ResultTyped, AbsentFields, Values DEF Exists, NoTag
    <3>2. ~MayHold(r)'
      BY <1>0, <3>1 DEF MayHold, Met, AnyTag, NoTag
    <3> QED
      BY <2>1, <3>2 DEF Outstanding
  <2> QED
    BY <1>1, <2>2, <2>3
<1>5. Registers!Expected(r)
  BY <1>1, <1>2, <1>3, <1>4 DEF Registers!Expected, Versions
<1>6. known' \subseteq {p \in known : Versions'[p] = Versions[p]}
  <2>1. known \subseteq Paths
    BY Values DEF Types
  <2> QED
    BY <1>3, <2>1 DEF Versions
<1>7. \A p \in Paths : p \in Names
  BY DEF Names
<1>8. CASE r.op = "rename" /\ r.from \in Puts
  <2>1. /\ Result(r).tag = tags + 1 /\ Result(r).data = files[r.from].data
        /\ Result(r).put = r.from
    BY <1>8 DEF Result
  <2>2. files[r.from].data = content[r.from]
    BY <1>0, <1>1, <1>8 DEF Due, Exact
  <2>3. Versions' = [Versions EXCEPT ![r.to] =
                       [tag |-> tags', data |-> content[r.from], put |-> r.from]]
    BY <1>0, <1>3, <1>7, <1>8, <2>1, <2>2 DEF Versions
  <2>2a. tags' > tags /\ r.op = "rename" /\ r.from \notin Paths
    BY <1>0, <1>3, <1>8
  <2>4. Registers!Save(r)
    BY <2>2a, <1>5, <1>6, <2>3 DEF Registers!Save, Registers!Stored
  <2> QED
    BY <1>2, <2>4
<1>9. CASE r.op = "rename" /\ r.from \notin Puts
  <2>1. r.from \in Paths
    BY <1>0, <1>9 DEF Names
  <2>2. /\ Result(r).tag = tags + 1 /\ Result(r).data = files[r.from].data
        /\ Result(r).put = 0
    BY <1>9 DEF Result
  <2>3. Versions' = [Versions EXCEPT ![r.from] = Registers!None,
                       ![r.to] = [tag |-> tags', data |-> Versions[r.from].data, put |-> 0]]
    BY <1>0, <1>3, <1>7, <1>9, <2>1, <2>2, AbsentFields
       DEF Versions, Registers!None, Registers!NoTag
  <2>4. Versions[r.from] # Registers!None /\ Versions[r.from].tag = r.stag
    BY <1>1, <1>9, <2>1 DEF Versions, Registers!None, Registers!NoTag, Exists, NoTag
  <2>2a. tags' > tags /\ r.op = "rename" /\ r.from \in Paths
    BY <1>0, <1>3, <1>9, <2>1
  <2>5. Registers!Move(r)
    BY <2>2a, <1>5, <1>6, <2>3, <2>4 DEF Registers!Move, Registers!Stored
  <2> QED
    BY <1>2, <2>5
<1>10. CASE r.op = "delete"
  <2>1. Result(r) = Absent
    BY <1>0, <1>10, Values, ResultTyped
  <2>2. Versions' = [Versions EXCEPT ![r.to] = Registers!None]
    BY <1>0, <1>3, <1>7, <1>10, <2>1, AbsentFields
       DEF Versions, Registers!None, Registers!NoTag
  <2>3. Versions[r.to] # Registers!None
    BY <1>1, <1>10 DEF Versions, Registers!None, Registers!NoTag, Exists, NoTag
  <2>4. Registers!Delete(r)
    BY <1>3, <1>5, <1>6, <1>10, <2>2, <2>3 DEF Registers!Delete, Registers!Stored
  <2> QED
    BY <1>2, <2>4
<1> QED
  BY <1>1, <1>8, <1>9, <1>10

\* The steps that send a request for a path.
LEMMA PathSteps ==
    ASSUME LInv, RenameStep \/ Delete
    PROVE  \/ Registers!Elsewhere
           \/ \E q \in Outstanding : Registers!Save(q) \/ Registers!Move(q) \/ Registers!Delete(q)
<1> DEFINE r == IF pc = "rename" THEN Commit ELSE DeletePath
<1>1. pc \in {"rename", "delete"} /\ r \in Asking /\ r.to \in Paths
  BY Values DEF RenameStep, Delete, Asking, Commit, DeletePath
<1>2. AskFails(r) \/ (Apply(r) /\ pc' \in {"verify", "idle"} /\ UNCHANGED <<content, puts>>)
  BY DEF RenameStep, Delete, Goto
<1>3. CASE AskFails(r)
  BY <1>1, <1>3, AskFailsAside
<1>4. CASE Apply(r) /\ pc' \in {"verify", "idle"} /\ UNCHANGED <<content, puts>>
  <2>1. Asking' = {} /\ Current' = 0 /\ Current = 0
    BY <1>1, <1>4 DEF Asking, Current
  <2> QED
    BY <1>1, <1>4, <2>1, TakesEffect
<1> QED
  BY <1>2, <1>3, <1>4

\* The steps that send a request for a stage.
LEMMA StageSteps ==
    ASSUME LInv, PutCreate \/ PutFlush \/ CleanDelete
    PROVE  Registers!Elsewhere
<1>0. /\ pc \in {"create", "append", "cleandelete"}
      /\ from \in Names /\ from \notin Paths
      /\ \A p \in Paths : p \in Names
      /\ known \subseteq Paths
      /\ UNCHANGED <<content, puts>>
  <2>1. pc \in {"create", "append", "cleandelete"}
    BY DEF PutCreate, PutFlush, CleanDelete
  <2>2. UNCHANGED <<content, puts>>
    BY DEF PutCreate, PutFlush, CleanDelete, AskFails, history
  <2>3. from \notin Paths
    BY <2>1, Values DEF Shape, PutPCs
  <2> QED
    BY <2>1, <2>2, <2>3, Values DEF Types, Names
<1>1. pc' \notin {"rename", "delete"}
  BY DEF PutCreate, PutFlush, CleanDelete, AskFails, Failed, Settle, Goto
<1>2. Asking' = {}
  BY <1>1 DEF Asking
<1>3. Current' \in {0, Current}
  <2>1. \/ pc' \in {"idle", "open", "cleanstat"}
        \/ pc' \in {"append", "stat"} /\ job' = job /\ pc \in {"create", "append"}
    BY DEF PutCreate, PutFlush, CleanDelete, AskFails, Failed, Settle, Goto, operation
  <2> QED
    BY <1>0, <2>1 DEF Current, Putting
<1>4. /\ CreateStage.to = from /\ FlushStage.to = from /\ DeleteStage.to = from
  BY DEF CreateStage, FlushStage, DeleteStage
<1>5. CASE Apply(CreateStage) /\ pc = "create"
  BY <1>0, <1>2, <1>3, <1>4, <1>5, DueSent, StageAside
<1>6. CASE Apply(FlushStage) /\ pc = "append"
  BY <1>0, <1>2, <1>3, <1>4, <1>6, DueSent, StageAside
<1>7. CASE Apply(DeleteStage) /\ pc = "cleandelete"
  BY <1>0, <1>2, <1>3, <1>4, <1>7, DueSent, StageAside
<1>8. CASE AskFails(FlushStage)
  BY <1>0, <1>4, <1>8, AskFailsAside
<1>9. CASE /\ UNCHANGED <<service, known>>
           /\ late' \subseteq late \cup {CreateStage, DeleteStage}
  <2>1. TagsMove /\ (\A p \in Paths : files'[p] = files[p]) /\ edits' = edits
    BY <1>9 DEF TagsMove, service
  <2>2. \A q \in late' \cup Asking' : q \in late \cup Asking \/ q.to \notin Paths
    BY <1>0, <1>2, <1>4, <1>9
  <2> QED
    BY <1>0, <1>3, <1>9, <2>1, <2>2, Aside
<1>10. CASE /\ files' = [files EXCEPT ![from] = [tag |-> tags + 1, data |-> Empty, len |-> 0,
                                               owner |-> 0, put |-> 0]]
            /\ tags' = tags + 1 /\ UNCHANGED <<late, edits, known>>
  <2>1. \A n \in Names : files'[n] = files[n] \/ files'[n].tag = tags + 1
    BY <1>10, Values DEF Types
  <2>2. TagsMove /\ (\A p \in Paths : files'[p] = files[p])
    BY <1>0, <1>10, <2>1, Values DEF TagsMove, Types
  <2> QED
    BY <1>0, <1>2, <1>3, <1>10, <2>2, Aside
<1>11. CASE PutCreate
  <2>1. pc = "create"
    BY <1>11 DEF PutCreate
  <2> QED
    BY <1>5, <1>9, <1>10, <1>11, <2>1 DEF PutCreate
<1>12. CASE PutFlush
  BY <1>6, <1>8, <1>12 DEF PutFlush
<1>13. CASE CleanDelete
  <2>1. pc = "cleandelete"
    BY <1>13 DEF CleanDelete
  <2> QED
    BY <1>7, <1>9, <1>13, <2>1 DEF CleanDelete
<1> QED
  BY <1>11, <1>12, <1>13

\* A request arrives after it has been given up on.
LEMMA Arrives ==
    ASSUME LInv, NEW r \in late, Deliver(r)
    PROVE  \/ Registers!Elsewhere
           \/ \E q \in Outstanding : Registers!Save(q) \/ Registers!Move(q) \/ Registers!Delete(q)
<1>1. /\ Apply(r) /\ UNCHANGED <<content, puts, pc, job, from, to, stag, base>>
      /\ r \in Request /\ Due(r)
  BY AskingDue DEF Deliver, operation
<1>2. Asking' = Asking
  BY <1>1 DEF Asking, Commit, DeletePath
<1>3. Current' = Current
  BY <1>1 DEF Current, Putting
<1> QED
  BY <1>1, <1>2, <1>3, StageAside, TakesEffect

\* Another client writes.
LEMMA Others ==
    ASSUME LInv, NEW n \in Names, NEW c \in Contents, NEW owner \in 0..MaxPuts,
           Edit(n, c, owner)
    PROVE  \/ Registers!Elsewhere
           \/ \E p \in Paths : Registers!Other(p, c)
<1>0. /\ edits' = edits + 1 /\ late' \subseteq late
      /\ UNCHANGED <<content, puts, pc, job, from, to, stag, base>>
      /\ known' = {p \in known : files'[p] = files[p]}
      /\ known \subseteq Paths /\ files \in [Names -> File]
      /\ \A p \in Paths : p \in Names
  BY Values DEF Edit, Noticed, Pending, operation, Types, Names
<1>1. \/ /\ files' = [files EXCEPT ![n] = [tag |-> tags + 1, data |-> c, len |-> Chunks[c],
                                         owner |-> owner, put |-> 0]]
         /\ tags' = tags + 1
      \/ files' = [files EXCEPT ![n] = Absent] /\ tags' = tags
  BY DEF Edit
<1>2. /\ Asking' = Asking /\ Current' = Current
  BY <1>0 DEF Asking, Commit, DeletePath, Current, Putting
<1>3. TagsMove
  BY <1>0, <1>1 DEF TagsMove
<1>4. CASE n \in Paths
  <2>1. Outstanding' \subseteq Outstanding
    BY <1>0, <1>2, <1>3, Fewer
  <2>2. known' \subseteq {p \in known : Versions'[p] = Versions[p]}
    BY <1>0 DEF Versions
  <2>3. \/ /\ tags' > tags
           /\ Versions' = [Versions EXCEPT ![n] = [tag |-> tags', data |-> c, put |-> 0]]
        \/ tags' = tags /\ Versions' = [Versions EXCEPT ![n] = Registers!None]
    <3>1. CASE /\ files' = [files EXCEPT ![n] = [tag |-> tags + 1, data |-> c, len |-> Chunks[c],
                                                owner |-> owner, put |-> 0]]
               /\ tags' = tags + 1
      <4>1. tags' > tags
        BY <3>1, Values
      <4>2. Versions' = [Versions EXCEPT ![n] = [tag |-> tags', data |-> c, put |-> 0]]
        BY <1>0, <1>4, <3>1 DEF Versions
      <4> QED
        BY <4>1, <4>2
    <3>2. CASE files' = [files EXCEPT ![n] = Absent] /\ tags' = tags
      <4>1. Versions' = [Versions EXCEPT ![n] = Registers!None]
        BY <1>0, <1>4, <3>2, AbsentFields DEF Versions, Registers!None, Registers!NoTag
      <4> QED
        BY <3>2, <4>1
    <3> QED
      BY <1>1, <3>1, <3>2
  <2>4. Registers!Other(n, c)
    BY <1>0, <1>2, <2>1, <2>2, <2>3 DEF Registers!Other, Registers!Stored
  <2> QED
    BY <1>4, <2>4
<1>5. CASE n \notin Paths
  <2>1. \A p \in Paths : files'[p] = files[p]
    BY <1>0, <1>1, <1>5
  <2>2. known' = known
    BY <1>0, <2>1
  <2> QED
    BY <1>0, <1>2, <1>3, <2>1, <2>2, Aside
<1> QED
  BY <1>4, <1>5

\* Every step of the mount, the service and the other clients is one of the
\* registers, or one that they do not see.
LEMMA StepRefines == LInv /\ [Next]_vars => [Registers!Next]_Registers!fileVars
<1> SUFFICES ASSUME LInv, [Next]_vars
             PROVE  [Registers!Next]_Registers!fileVars
  OBVIOUS
<1>1. CASE UNCHANGED vars
  <2>1. UNCHANGED <<files, tags, edits, late, pc, job, from, to, stag, base, puts, content, known>>
    BY <1>1 DEF vars, service, operation, history
  <2>2. Asking' = Asking /\ Current' = Current /\ Versions' = Versions
    BY <2>1 DEF Asking, Commit, DeletePath, Current, Putting, Versions
  <2>3. Outstanding' = Outstanding
    BY <2>1, <2>2 DEF Outstanding, MayHold, Met, Exists
  <2> QED
    BY <2>1, <2>2, <2>3 DEF Registers!fileVars
<1>2. CASE Next
  <2> SUFFICES Registers!Next
    OBVIOUS
  <2>1. ASSUME Registers!Elsewhere
        PROVE  Registers!Next
    BY <2>1 DEF Registers!Next
  <2>2. ASSUME \E q \in Outstanding :
                  Registers!Save(q) \/ Registers!Move(q) \/ Registers!Delete(q)
        PROVE  Registers!Next
    BY <2>2 DEF Registers!Next
  <2>3. ASSUME \E q \in Outstanding' : Registers!Ask(q)
        PROVE  Registers!Next
    BY <2>3 DEF Registers!Next
  <2>4. ASSUME NEW p \in Paths, NEW b \in BOOLEAN, Open(p, b)
        PROVE  Registers!Next
    BY <2>1, <2>4, QuietBetween, QuietAside, LakeSaveAssumption
  <2>5. ASSUME NEW p \in Paths, Create(p)
        PROVE  Registers!Next
    BY <2>5, Begins DEF Registers!Next
  <2>6. ASSUME NEW p \in Paths, Remove(p)
        PROVE  Registers!Next
    BY <2>3, <2>6, RemoveAsks
  <2>7. ASSUME NEW p \in Paths, NEW q \in Paths, Rename(p, q)
        PROVE  Registers!Next
    BY <2>1, <2>7, QuietBetween, QuietAside, LakeSaveAssumption
  <2>8. ASSUME NEW c \in Contents, Write(c)
        PROVE  Registers!Next
    BY <2>1, <2>8, QuietBetween, QuietAside, Values
  <2>9. ASSUME Close \/ Crash \/ \E b \in BOOLEAN : TargetStat(b)
        PROVE  Registers!Next
    BY <2>1, <2>9, QuietBetween, QuietAside, Values, LakeSaveAssumption
  <2>10. ASSUME PutAppend \/ PutStat \/ CleanStat \/ Verify \/ Fail \/ SourceStat
         PROVE  Registers!Next
    BY <2>1, <2>10, QuietSteps, QuietAside
  <2>11. ASSUME Flush
         PROVE  Registers!Next
    BY <2>11, Begins, Values DEF Registers!Next
  <2>12. ASSUME CheckTarget
         PROVE  Registers!Next
    BY <2>1, <2>3, <2>12, CheckTargetAsks
  <2>13. ASSUME RenameStep \/ Delete
         PROVE  Registers!Next
    BY <2>1, <2>2, <2>13, PathSteps
  <2>14. ASSUME PutCreate \/ PutFlush \/ CleanDelete
         PROVE  Registers!Next
    BY <2>1, <2>14, StageSteps
  <2>15. ASSUME NEW r \in late, Deliver(r)
         PROVE  Registers!Next
    BY <2>1, <2>2, <2>15, Arrives
  <2>16. ASSUME NEW n \in Names, NEW c \in Contents, NEW owner \in 0..MaxPuts,
                Edit(n, c, owner)
         PROVE  Registers!Next
    BY <2>1, <2>16, Others DEF Registers!Next
  <2>17. ASSUME NEW p \in Paths, Missing(p)
         PROVE  Registers!Next
    <3>1. UNCHANGED <<service, late, pc, operation, stag, base, content, puts, known>>
      BY <2>17 DEF Missing, vars, history
    <3>2. Asking' = Asking /\ Current' = Current
      BY <3>1 DEF Asking, Commit, DeletePath, Current, Putting, operation
    <3>3. TagsMove /\ (\A q \in Paths : files'[q] = files[q]) /\ edits' = edits
      BY <3>1 DEF TagsMove, service
    <3> QED
      BY <2>1, <3>1, <3>2, <3>3, Aside
  <2>18. CASE Step
    BY <2>9, <2>10, <2>11, <2>12, <2>13, <2>14, <2>18 DEF Step, Put
  <2> QED
    BY <1>2, <2>4, <2>5, <2>6, <2>7, <2>8, <2>9, <2>15, <2>16, <2>17, <2>18 DEF Next
<1> QED
  BY <1>1, <1>2

\* Put, Remove and Rename of OneLake implement registers that are changed by
\* compare-and-set, for any paths, contents, uploads and other clients: a request
\* takes effect once or never, and only on versions that the mount has read.
THEOREM LakeFilesImplemented == Spec => ImplementsLakeFiles
<1>1. Init => Registers!Init
  <2> SUFFICES ASSUME Init
               PROVE  Registers!Init
    OBVIOUS
  <2>1. LInv /\ Types
    BY InvInit DEF LInv
  <2>2. Versions \in [Paths -> Registers!Version]
    <3> SUFFICES ASSUME NEW p \in Paths
                 PROVE  [tag |-> files[p].tag, data |-> files[p].data, put |-> files[p].put]
                           \in Registers!Version
      BY DEF Versions
    <3>1. p \in Names /\ files[p] \in File /\ (files[p].tag = 0 => files[p] = Absent)
      BY <2>1, Tags, Values DEF Names
    <3> QED
      BY <3>1, AbsentFields
         DEF File, Registers!Version, Registers!None, Registers!NoTag
  <2>3. tags \in Nat /\ \A p \in Paths : Versions[p].tag <= tags
    BY <2>1, Values DEF Versions, Names
  <2>4. Outstanding = {} /\ Current = 0
    BY DEF Init, Outstanding, Asking, Current
  <2>5. content = [i \in 1..MaxPuts |-> Empty] /\ puts = 0 /\ known = {} /\ edits = 0
    BY DEF Init, Puts
  <2> QED
    BY <2>2, <2>3, <2>4, <2>5 DEF Registers!Init
<1> QED
  BY <1>1, LInvAlways, StepRefines, PTL DEF Spec, ImplementsLakeFiles, Registers!Spec
=============================================================================
