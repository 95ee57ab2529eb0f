-------------------------- MODULE ResourcesProofs --------------------------
(***************************************************************************)
(* Proofs about Resources for any number of clients, files, contents and   *)
(* changes by others, and every policy: what a request changes has been    *)
(* compared, nothing from before a mutation outlives it in the caches,     *)
(* deadlines are those of the oldest part of an answer, and a rename that  *)
(* returns has happened.                                                   *)
(*                                                                         *)
(* The invariant is about the steps that an operation has yet to do: their *)
(* order, which of them there are together, and what the service must have *)
(* where nothing is left to be compared.                                   *)
(***************************************************************************)
EXTENDS Resources, ListTheorems

Final == {"send", "same", "gone", "return"}

\* Step t of an operation does not come after step s.
Misplaced(kind, s, t) ==
    \/ s[1] \in Final /\ t[1] \in {"snap", "check", "compare", "send"}
    \/ s[1] \in {"check", "compare"} /\ t[1] = "snap"
    \/ s[1] \in {"check", "compare"} /\ t[1] = "look" /\ kind # "mkdir"
    \/ s[1] = "compare" /\ t = <<"check", s[2]>>
    \/ s[1] = "check" /\ t = s
    \/ s[1] = "snap" /\ t = <<"look", s[2]>>
    \/ s[1] = "return" /\ t[1] \in {"same", "gone"}

Ordered(kind, todo) ==
    \A i, j \in DOMAIN todo : i < j => ~Misplaced(kind, todo[i], todo[j])

\* What follows the request immediately, up to the return.
Follows(s, t) ==
    \/ s[1] = "send" /\ t[1] \in {"same", "return"}
    \/ s[1] = "same" /\ t[1] = "gone"
    \/ s[1] = "gone" /\ t[1] = "return"

Linked(todo) ==
    \A i \in DOMAIN todo : todo[i][1] \in {"send", "same", "gone"} =>
        i + 1 \in DOMAIN todo /\ Follows(todo[i], todo[i + 1])

\* There is a step with one of the labels L among the steps R.
Some(R, L) == \E s \in R : s[1] \in L

\* Which steps there are together, and what the caller knows when there are.
Covered(o, R) ==
    /\ \A p \in Paths :
         /\ <<"snap", p>> \in R /\ Some(R, {"send"}) => <<"compare", p>> \in R
         /\ <<"check", p>> \in R /\ <<"compare", p>> \notin R /\ o.kind # "rmdir" =>
              o.expect[p] = Absent
         /\ <<"look", p>> \in R /\ <<"check", p>> \in R => o.expect[p] = Absent
         /\ <<"look", p>> \in R /\ <<"compare", p>> \in R => <<"check", p>> \in R
    /\ o.kind = "rename" /\ Some(R, {"snap", "check", "compare", "send"}) =>
         Some(R, {"same"}) /\ Some(R, {"gone"})
    /\ Some(R, {"check"}) => Some(R, {"send"})
    /\ \A s \in R :
         /\ s[1] \in {"check", "compare", "empty"} \cup Final => o.kind \in Mutations
         /\ s[1] = "compare" => o.kind # "mkdir"
         /\ s[1] \in {"check", "compare"} => s[2] \in {o.src, o.dst}
         /\ s[1] \in {"gone", "return"} => s[2] = o.src
         /\ s[1] = "same" => s[2] = o.dst
         /\ s[1] \in {"dir", "list"} => o.kind = "list"
    /\ (o.kind = "rename") = (o.src # o.dst)

Shaped(o) ==
    /\ o \in Operation /\ o.todo # << >>
    /\ Ordered(o.kind, o.todo) /\ Linked(o.todo)
    /\ Covered(o, Range(o.todo))

-----------------------------------------------------------------------------
(* Programs *)

\* An operation begins with a list of steps.
LEMMA ProgramTyped ==
    ASSUME NEW kind \in Kinds, NEW p \in Paths, NEW q \in Paths
    PROVE  /\ Program(kind, p, q) \in Seq(Steps)
           /\ Program(kind, p, q) # << >>
<1>1. CASE kind = "stat"
  BY <1>1 DEF Program, Stat, Steps, Labels
<1>2. CASE kind = "list"
  <2>1. CASE Parent[p] = Root
    BY <1>2, <2>1 DEF Program, Steps, Labels
  <2>2. CASE Parent[p] # Root
    <3>1. Parent[p] \in Paths
      BY <2>2, ResourcesAssumption
    <3> QED
      BY <1>2, <2>2, <3>1 DEF Program, Steps, Labels
  <2> QED
    BY <2>1, <2>2
<1>3. CASE kind \in {"open", "write"}
  <2>1. Program(kind, p, q) = Version(p)
    BY <1>3 DEF Program
  <2> QED
    BY <2>1 DEF Version, Steps, Labels
<1>4. CASE kind \in {"create", "remove"}
  <2>1. Program(kind, p, q) = Replace(p)
    BY <1>4 DEF Program
  <2> QED
    BY <2>1 DEF Replace, Steps, Labels
<1>5. CASE kind = "save"
  BY <1>5 DEF Program, Steps, Labels
<1>6. CASE kind = "mkdir"
  BY <1>6 DEF Program, Steps, Labels
<1>7. CASE kind = "rmdir"
  BY <1>7 DEF Program, Steps, Labels
<1>8. CASE kind = "rename"
  BY <1>8 DEF Program, Rename, Steps, Labels
<1> QED
  BY <1>1, <1>2, <1>3, <1>4, <1>5, <1>6, <1>7, <1>8 DEF Kinds, Mutations

\* What an operation begins with is in order.
LEMMA ProgramOrdered ==
    ASSUME NEW kind \in Kinds, NEW p \in Paths, NEW q \in Paths, kind = "rename" => p # q
    PROVE  Ordered(kind, Program(kind, p, q)) /\ Linked(Program(kind, p, q))
<1>1. CASE kind = "stat"
  BY <1>1 DEF Program, Stat, Ordered, Linked, Misplaced, Follows, Final
<1>2. CASE kind = "list"
  <2>1. CASE Parent[p] = Root
    BY <1>2, <2>1 DEF Program, Ordered, Linked, Misplaced, Follows, Final
  <2>2. CASE Parent[p] # Root
    BY <1>2, <2>2 DEF Program, Ordered, Linked, Misplaced, Follows, Final
  <2> QED
    BY <2>1, <2>2
<1>3. CASE kind \in {"open", "write"}
  <2>1. Program(kind, p, q) = Version(p)
    BY <1>3 DEF Program
  <2>2. Ordered(kind, Version(p))
    BY <1>3 DEF Version, Ordered, Misplaced, Final
  <2>3. Linked(Version(p))
    BY DEF Version, Linked, Follows
  <2> QED
    BY <2>1, <2>2, <2>3
<1>4. CASE kind \in {"create", "remove"}
  <2>1. Program(kind, p, q) = Replace(p)
    BY <1>4 DEF Program
  <2>2. Ordered(kind, Replace(p))
    BY <1>4 DEF Replace, Ordered, Misplaced, Final
  <2>3. Linked(Replace(p))
    BY DEF Replace, Linked, Follows
  <2> QED
    BY <2>1, <2>2, <2>3
<1>5. CASE kind = "save"
  BY <1>5 DEF Program, Ordered, Linked, Misplaced, Follows, Final
<1>6. CASE kind = "mkdir"
  BY <1>6 DEF Program, Ordered, Linked, Misplaced, Follows, Final
<1>7. CASE kind = "rmdir"
  BY <1>7 DEF Program, Ordered, Linked, Misplaced, Follows, Final
<1>8. CASE kind = "rename"
  <2>1. Program(kind, p, q) = Rename(p, q)
    BY <1>8 DEF Program
  <2>2. Ordered(kind, Rename(p, q))
    BY <1>8 DEF Rename, Ordered, Misplaced, Final
  <2>3. Linked(Rename(p, q))
    BY DEF Rename, Linked, Follows
  <2> QED
    BY <2>1, <2>2, <2>3
<1> QED
  BY <1>1, <1>2, <1>3, <1>4, <1>5, <1>6, <1>7, <1>8 DEF Kinds, Mutations

\* An operation begins with every step that it may need.
LEMMA ProgramCovers ==
    ASSUME NEW o, o.kind \in Kinds, o.src \in Paths, o.dst \in Paths,
           (o.kind = "rename") = (o.src # o.dst),
           o.todo = Program(o.kind, o.src, o.dst),
           o.kind # "save" => \A p \in Paths : o.expect[p] = Absent
    PROVE  Covered(o, Range(o.todo))
<1> DEFINE p == o.src
           q == o.dst
<1>0. /\ o.kind \in Kinds /\ p \in Paths /\ q \in Paths /\ (o.kind = "rename") = (p # q)
      /\ o.todo = Program(o.kind, p, q)
      /\ o.kind # "save" => \A r \in Paths : o.expect[r] = Absent
      /\ o.src = p /\ o.dst = q
  OBVIOUS
<1> HIDE DEF p, q
<1>1. CASE o.kind = "stat"
  <2>1. Range(o.todo) = {<<"look", p>>, <<"meta", p>>, <<"done", p>>}
    BY <1>0, <1>1 DEF Program, Stat, Range
  <2> QED
    BY <1>0, <1>1, <2>1 DEF Covered, Some, Final, Mutations
<1>2. CASE o.kind = "list" /\ Parent[p] = Root
  <2>1. Range(o.todo) = {<<"list", p>>, <<"meta", p>>, <<"done", p>>}
    BY <1>0, <1>2 DEF Program, Range
  <2> QED
    BY <1>0, <1>2, <2>1 DEF Covered, Some, Final, Mutations
<1>3. CASE o.kind = "list" /\ Parent[p] # Root
  <2>1. Range(o.todo) = {<<"dir", Parent[p]>>, <<"list", p>>, <<"meta", p>>, <<"done", p>>}
    BY <1>0, <1>3 DEF Program, Range
  <2> QED
    BY <1>0, <1>3, <2>1 DEF Covered, Some, Final, Mutations
<1>4. CASE o.kind \in {"open", "write"}
  <2>1. Range(o.todo) = {<<"look", p>>, <<"meta", p>>, <<"snap", p>>}
    BY <1>0, <1>4 DEF Program, Version, Range
  <2> QED
    BY <1>0, <1>4, <2>1 DEF Covered, Some, Final, Mutations
<1>5. CASE o.kind \in {"create", "remove"}
  <2>1. Range(o.todo) = {<<"look", p>>, <<"meta", p>>, <<"snap", p>>, <<"check", p>>, <<"compare", p>>, <<"send", p>>, <<"return", p>>}
    BY <1>0, <1>5 DEF Program, Replace, Range
  <2> QED
    BY <1>0, <1>5, <2>1 DEF Covered, Some, Final, Mutations
<1>6. CASE o.kind = "save"
  <2>1. Range(o.todo) = {<<"check", p>>, <<"compare", p>>, <<"send", p>>, <<"return", p>>}
    BY <1>0, <1>6 DEF Program, Range
  <2> DEFINE R == Range(o.todo)
  <2> HIDE DEF R
  <2>2. \A s \in R :
           /\ s[1] \in {"check", "compare", "empty"} \cup Final => o.kind \in Mutations
           /\ s[1] = "compare" => o.kind # "mkdir"
           /\ s[1] \in {"check", "compare"} => s[2] \in {o.src, o.dst}
           /\ s[1] \in {"gone", "return"} => s[2] = o.src
           /\ s[1] = "same" => s[2] = o.dst
           /\ s[1] \in {"dir", "list"} => o.kind = "list"
    BY <1>0, <1>6, <2>1 DEF Final, Mutations, R
  <2>3. Some(R, {"send"}) /\ (o.kind = "rename" => Some(R, {"same"}) /\ Some(R, {"gone"}))
    BY <1>6, <2>1 DEF Some, R
  <2>4. ASSUME NEW r \in Paths
        PROVE  /\ <<"snap", r>> \in R => <<"compare", r>> \in R
               /\ <<"check", r>> \in R /\ <<"compare", r>> \notin R /\ o.kind # "rmdir" =>
                    o.expect[r] = Absent
               /\ <<"look", r>> \in R /\ <<"check", r>> \in R => o.expect[r] = Absent
               /\ <<"look", r>> \in R /\ <<"compare", r>> \in R => <<"check", r>> \in R
    BY <1>0, <1>6, <2>1 DEF R
  <2> QED
    BY <1>0, <2>2, <2>3, <2>4 DEF Covered, R
<1>7. CASE o.kind = "mkdir"
  <2>1. Range(o.todo) = {<<"check", p>>, <<"send", p>>, <<"return", p>>, <<"look", p>>, <<"meta", p>>}
    BY <1>0, <1>7 DEF Program, Range
  <2> DEFINE R == Range(o.todo)
  <2> HIDE DEF R
  <2>2. \A s \in R :
           /\ s[1] \in {"check", "compare", "empty"} \cup Final => o.kind \in Mutations
           /\ s[1] = "compare" => o.kind # "mkdir"
           /\ s[1] \in {"check", "compare"} => s[2] \in {o.src, o.dst}
           /\ s[1] \in {"gone", "return"} => s[2] = o.src
           /\ s[1] = "same" => s[2] = o.dst
           /\ s[1] \in {"dir", "list"} => o.kind = "list"
    BY <1>0, <1>7, <2>1 DEF Final, Mutations, R
  <2>3. Some(R, {"send"}) /\ (o.kind = "rename" => Some(R, {"same"}) /\ Some(R, {"gone"}))
    <3>1. <<"send", p>> \in R
      BY <2>1 DEF R
    <3>2. o.kind # "rename"
      BY <1>7
    <3> QED
      BY <3>1, <3>2 DEF Some
  <2>4. ASSUME NEW r \in Paths
        PROVE  /\ <<"snap", r>> \in R => <<"compare", r>> \in R
               /\ <<"check", r>> \in R /\ <<"compare", r>> \notin R /\ o.kind # "rmdir" =>
                    o.expect[r] = Absent
               /\ <<"look", r>> \in R /\ <<"check", r>> \in R => o.expect[r] = Absent
               /\ <<"look", r>> \in R /\ <<"compare", r>> \in R => <<"check", r>> \in R
    BY <1>0, <1>7, <2>1 DEF R
  <2> QED
    BY <1>0, <2>2, <2>3, <2>4 DEF Covered, R
<1>8. CASE o.kind = "rmdir"
  <2>1. Range(o.todo) = {<<"look", p>>, <<"meta", p>>, <<"check", p>>, <<"empty", p>>, <<"send", p>>, <<"return", p>>}
    BY <1>0, <1>8 DEF Program, Range
  <2> DEFINE R == Range(o.todo)
  <2> HIDE DEF R
  <2>2. \A s \in R :
           /\ s[1] \in {"check", "compare", "empty"} \cup Final => o.kind \in Mutations
           /\ s[1] = "compare" => o.kind # "mkdir"
           /\ s[1] \in {"check", "compare"} => s[2] \in {o.src, o.dst}
           /\ s[1] \in {"gone", "return"} => s[2] = o.src
           /\ s[1] = "same" => s[2] = o.dst
           /\ s[1] \in {"dir", "list"} => o.kind = "list"
    BY <1>0, <1>8, <2>1 DEF Final, Mutations, R
  <2>3. Some(R, {"send"}) /\ (o.kind = "rename" => Some(R, {"same"}) /\ Some(R, {"gone"}))
    BY <1>8, <2>1 DEF Some, R
  <2>4. ASSUME NEW r \in Paths
        PROVE  /\ <<"snap", r>> \in R => <<"compare", r>> \in R
               /\ <<"check", r>> \in R /\ <<"compare", r>> \notin R /\ o.kind # "rmdir" =>
                    o.expect[r] = Absent
               /\ <<"look", r>> \in R /\ <<"check", r>> \in R => o.expect[r] = Absent
               /\ <<"look", r>> \in R /\ <<"compare", r>> \in R => <<"check", r>> \in R
    BY <1>0, <1>8, <2>1 DEF R
  <2> QED
    BY <1>0, <2>2, <2>3, <2>4 DEF Covered, R
<1>9. CASE o.kind = "rename"
  <2>1. Range(o.todo) = {<<"look", p>>, <<"meta", p>>, <<"snap", p>>, <<"look", q>>, <<"meta", q>>, <<"snap", q>>, <<"check", p>>, <<"compare", p>>, <<"check", q>>, <<"compare", q>>, <<"send", p>>, <<"same", q>>, <<"gone", p>>, <<"return", p>>}
    BY <1>0, <1>9 DEF Program, Rename, Range
  <2> DEFINE R == Range(o.todo)
  <2> HIDE DEF R
  <2>2. \A s \in R :
           /\ s[1] \in {"check", "compare", "empty"} \cup Final => o.kind \in Mutations
           /\ s[1] = "compare" => o.kind # "mkdir"
           /\ s[1] \in {"check", "compare"} => s[2] \in {o.src, o.dst}
           /\ s[1] \in {"gone", "return"} => s[2] = o.src
           /\ s[1] = "same" => s[2] = o.dst
           /\ s[1] \in {"dir", "list"} => o.kind = "list"
    BY <1>0, <1>9, <2>1 DEF Final, Mutations, R
  <2>3. Some(R, {"send"}) /\ (o.kind = "rename" => Some(R, {"same"}) /\ Some(R, {"gone"}))
    <3>1. <<"send", p>> \in R /\ <<"same", q>> \in R /\ <<"gone", p>> \in R
      BY <2>1 DEF R
    <3> QED
      BY <3>1 DEF Some
  <2>4. ASSUME NEW r \in Paths
        PROVE  /\ <<"snap", r>> \in R => <<"compare", r>> \in R
               /\ <<"check", r>> \in R /\ <<"compare", r>> \notin R /\ o.kind # "rmdir" =>
                    o.expect[r] = Absent
               /\ <<"look", r>> \in R /\ <<"check", r>> \in R => o.expect[r] = Absent
               /\ <<"look", r>> \in R /\ <<"compare", r>> \in R => <<"check", r>> \in R
    BY <1>0, <1>9, <2>1 DEF R
  <2> QED
    BY <1>0, <2>2, <2>3, <2>4 DEF Covered, R
<1> QED
  BY <1>0, <1>1, <1>2, <1>3, <1>4, <1>5, <1>6, <1>7, <1>8, <1>9 DEF Kinds, Mutations

-----------------------------------------------------------------------------
(* A step *)

\* What remains of an operation behind its first step.
After(o) == IF Len(o.todo) = 1 THEN None ELSE [o EXCEPT !.todo = Tail(@)]

\* The steps that remain are in order, and complete.
LEMMA AfterShaped ==
    ASSUME NEW o, Shaped(o), Len(o.todo) # 1
    PROVE  /\ After(o) = [o EXCEPT !.todo = Tail(o.todo)]
           /\ Shaped(After(o))
           /\ Range(Tail(o.todo)) \subseteq Range(o.todo)
           /\ Range(o.todo) \subseteq {o.todo[1]} \cup Range(Tail(o.todo))
           /\ \A s \in Range(Tail(o.todo)) : ~Misplaced(o.kind, o.todo[1], s)
           /\ o.todo[1][1] \in {"send", "same", "gone"} =>
                Follows(o.todo[1], After(o).todo[1])
<1> DEFINE d == o.todo
           t == Tail(d)
           R == Range(d)
           H == Range(t)
           a == After(o)
<1>1. /\ o \in Operation /\ d \in Seq(Steps) /\ d # << >>
      /\ Ordered(o.kind, d) /\ Linked(d) /\ Covered(o, R)
  BY DEF Shaped, Operation
<1>2. a = [o EXCEPT !.todo = t]
  BY DEF After
<1> HIDE DEF d
<1>3. /\ t \in Seq(Steps) /\ Len(t) = Len(d) - 1
      /\ \A i \in DOMAIN t : i + 1 \in DOMAIN d /\ t[i] = d[i + 1]
      /\ \A i \in DOMAIN d : i # 1 => i - 1 \in DOMAIN t
      /\ H \subseteq R /\ R \subseteq {d[1]} \cup H
      /\ d[1] \in R /\ 1 \in DOMAIN d
  BY <1>1, Rest
<1>4. /\ Len(d) \in Nat /\ DOMAIN d = 1..Len(d) /\ Len(d) # 1 /\ Len(d) # 0
      /\ DOMAIN t = 1..Len(d) - 1
  <2>1. Len(d) \in Nat \ {0} /\ DOMAIN d = 1..Len(d)
    BY <1>1, LenProperties, EmptySeq
  <2>2. DOMAIN t = 1..Len(t)
    BY <1>3, LenProperties
  <2> QED
    BY <1>3, <2>1, <2>2 DEF d
<1>5. t # << >>
  BY <1>3, <1>4, EmptySeq
<1>6. a \in Operation /\ a.todo = t /\ a.kind = o.kind
  BY <1>1, <1>2, <1>3 DEF Operation
<1> HIDE DEF t
<1>7. Ordered(a.kind, t)
  <2> SUFFICES ASSUME NEW i \in DOMAIN t, NEW j \in DOMAIN t, i < j
               PROVE  ~Misplaced(o.kind, t[i], t[j])
    BY <1>6 DEF Ordered
  <2>1. i + 1 \in DOMAIN d /\ j + 1 \in DOMAIN d /\ i + 1 < j + 1
    BY <1>3, <1>4
  <2>2. ~Misplaced(o.kind, d[i + 1], d[j + 1])
    BY <1>1, <2>1 DEF Ordered
  <2> QED
    BY <1>3, <2>2
<1>8. Linked(t)
  <2> SUFFICES ASSUME NEW i \in DOMAIN t, t[i][1] \in {"send", "same", "gone"}
               PROVE  i + 1 \in DOMAIN t /\ Follows(t[i], t[i + 1])
    BY DEF Linked
  <2>1. i + 1 \in DOMAIN d /\ t[i] = d[i + 1]
    BY <1>3
  <2>2. (i + 1) + 1 \in DOMAIN d /\ Follows(d[i + 1], d[(i + 1) + 1])
    BY <1>1, <2>1 DEF Linked
  <2>3. i + 1 \in DOMAIN t
    BY <1>4, <2>2
  <2> QED
    BY <1>3, <2>1, <2>2, <2>3
<1>9. \A s \in H : ~Misplaced(o.kind, d[1], s)
  <2> SUFFICES ASSUME NEW i \in DOMAIN t PROVE ~Misplaced(o.kind, d[1], t[i])
    BY DEF Range
  <2>1. i + 1 \in DOMAIN d /\ 1 < i + 1 /\ t[i] = d[i + 1]
    BY <1>3, <1>4
  <2> QED
    BY <1>1, <1>3, <2>1 DEF Ordered
<1>10. d[1][1] \in {"send", "same", "gone"} => Follows(d[1], t[1])
  <2>1. t[1] = d[1 + 1]
    BY <1>3, <1>4
  <2> QED
    BY <1>1, <1>3, <2>1 DEF Linked
<1>11. Covered(a, H)
  <2> DEFINE h == d[1]
  <2>0. /\ H \subseteq R /\ R \subseteq {h} \cup H
        /\ \A s \in H : ~Misplaced(o.kind, h, s)
        /\ a.kind = o.kind /\ a.src = o.src /\ a.dst = o.dst /\ a.expect = o.expect
    BY <1>2, <1>3, <1>9
  <2> HIDE DEF h, a, R, H
  <2>1. /\ \A s \in R :
           /\ s[1] \in {"check", "compare", "empty"} \cup Final => o.kind \in Mutations
           /\ s[1] = "compare" => o.kind # "mkdir"
           /\ s[1] \in {"check", "compare"} => s[2] \in {o.src, o.dst}
           /\ s[1] \in {"gone", "return"} => s[2] = o.src
           /\ s[1] = "same" => s[2] = o.dst
           /\ s[1] \in {"dir", "list"} => o.kind = "list"
        /\ (o.kind = "rename") = (o.src # o.dst)
        /\ Some(R, {"check"}) => Some(R, {"send"})
        /\ o.kind = "rename" /\ Some(R, {"snap", "check", "compare", "send"}) =>
              Some(R, {"same"}) /\ Some(R, {"gone"})
    BY <1>1 DEF Covered
  <2>2. Some(H, {"check"}) => Some(H, {"send"})
    <3> SUFFICES ASSUME NEW s \in H, s[1] = "check" PROVE Some(H, {"send"})
      BY DEF Some
    <3>1. PICK x \in R : x[1] = "send"
      BY <2>0, <2>1 DEF Some
    <3>2. x # h
      BY <2>0, <3>1 DEF Misplaced, Final
    <3> QED
      BY <2>0, <3>1, <3>2 DEF Some
  <2>3. o.kind = "rename" /\ Some(H, {"snap", "check", "compare", "send"}) =>
          Some(H, {"same"}) /\ Some(H, {"gone"})
    <3> SUFFICES ASSUME o.kind = "rename", NEW s \in H,
                        s[1] \in {"snap", "check", "compare", "send"}
                 PROVE  Some(H, {"same"}) /\ Some(H, {"gone"})
      BY DEF Some
    <3>1. PICK x \in R, y \in R : x[1] = "same" /\ y[1] = "gone"
      BY <2>0, <2>1 DEF Some
    <3>2. x # h /\ y # h
      BY <2>0, <3>1 DEF Misplaced, Final
    <3> QED
      BY <2>0, <3>1, <3>2 DEF Some
  <2>4. ASSUME NEW p \in Paths
        PROVE  /\ <<"snap", p>> \in H /\ Some(H, {"send"}) => <<"compare", p>> \in H
               /\ <<"check", p>> \in H /\ <<"compare", p>> \notin H /\ o.kind # "rmdir" =>
                    o.expect[p] = Absent
               /\ <<"look", p>> \in H /\ <<"check", p>> \in H => o.expect[p] = Absent
               /\ <<"look", p>> \in H /\ <<"compare", p>> \in H => <<"check", p>> \in H
    <3>1. /\ <<"snap", p>> \in R /\ Some(R, {"send"}) => <<"compare", p>> \in R
          /\ <<"check", p>> \in R /\ <<"compare", p>> \notin R /\ o.kind # "rmdir" =>
               o.expect[p] = Absent
          /\ <<"look", p>> \in R /\ <<"check", p>> \in R => o.expect[p] = Absent
          /\ <<"look", p>> \in R /\ <<"compare", p>> \in R => <<"check", p>> \in R
      BY <1>1 DEF Covered
    <3>2. Some(H, {"send"}) => Some(R, {"send"})
      BY <2>0 DEF Some
    <3>3. <<"snap", p>> \in H => h # <<"compare", p>>
      BY <2>0 DEF Misplaced
    <3>4. <<"check", p>> \in H => h # <<"compare", p>>
      BY <2>0 DEF Misplaced
    <3>5. <<"look", p>> \in H /\ <<"compare", p>> \in H => h # <<"check", p>>
      BY <2>0, <2>1 DEF Misplaced
    <3> QED
      BY <2>0, <3>1, <3>2, <3>3, <3>4, <3>5
  <2> QED
    BY <2>0, <2>1, <2>2, <2>3, <2>4 DEF Covered
<1>12. Shaped(a)
  BY <1>5, <1>6, <1>7, <1>8, <1>11 DEF Shaped
<1> QED
  BY <1>2, <1>3, <1>6, <1>9, <1>10, <1>12 DEF d, t, a

\* What an operation that is about to send, or has sent, can rely on when r is
\* what the service has.
Compared(o, r) ==
    Some(Range(o.todo), {"send"}) =>
        \A p \in {o.src, o.dst} :
            /\ <<"check", p>> \notin Range(o.todo) /\ <<"compare", p>> \notin Range(o.todo)
            /\ p \notin o.raced
            => r[p] = o.expect[p]

\* What a rename that has been confirmed has found.
Moved(o, r) ==
    o.kind = "rename" /\ Some(Range(o.todo), {"return"}) =>
        /\ ~Some(Range(o.todo), {"same"}) /\ o.dst \notin o.raced => r[o.dst] = o.expect[o.src]
        /\ ~Some(Range(o.todo), {"gone"}) /\ o.src \notin o.raced => r[o.src] = Absent

\* The next step of an operation leaves it right if what the step itself is
\* about has been found to be so.
LEMMA AfterRight ==
    ASSUME NEW o, Shaped(o), Len(o.todo) # 1, NEW r, Moved(o, r),
           o.todo[1][1] # "send" => Compared(o, r),
           \A p \in Paths :
              o.todo[1] \in {<<"check", p>>, <<"compare", p>>} =>
                 <<"compare", p>> \in Range(Tail(o.todo)) \/ p \in o.raced \/ r[p] = o.expect[p],
           o.todo[1][1] = "same" => r[o.dst] = o.expect[o.src],
           o.todo[1][1] = "gone" => r[o.src] = Absent
    PROVE  Compared(After(o), r) /\ Moved(After(o), r)
<1> DEFINE a == After(o)
           h == o.todo[1]
           R == Range(o.todo)
           H == Range(Tail(o.todo))
<1>1. /\ a = [o EXCEPT !.todo = Tail(o.todo)] /\ o \in Operation
      /\ H \subseteq R /\ R \subseteq {h} \cup H /\ \A s \in H : ~Misplaced(o.kind, h, s)
  BY AfterShaped DEF Shaped
<1>2. /\ a.kind = o.kind /\ a.src = o.src /\ a.dst = o.dst /\ a.expect = o.expect
      /\ a.raced = o.raced /\ Range(a.todo) = H /\ o.src \in Paths /\ o.dst \in Paths
  BY <1>1 DEF Operation
<1>3. /\ \A p \in Paths :
            h \in {<<"check", p>>, <<"compare", p>>} =>
               <<"compare", p>> \in H \/ p \in o.raced \/ r[p] = o.expect[p]
      /\ h[1] = "same" => r[o.dst] = o.expect[o.src]
      /\ h[1] = "gone" => r[o.src] = Absent
  OBVIOUS
<1>4. /\ h[1] # "send" /\ Some(R, {"send"}) =>
           \A p \in {o.src, o.dst} :
             <<"check", p>> \notin R /\ <<"compare", p>> \notin R /\ p \notin o.raced
               => r[p] = o.expect[p]
      /\ o.kind = "rename" /\ Some(R, {"return"}) =>
           /\ ~Some(R, {"same"}) /\ o.dst \notin o.raced => r[o.dst] = o.expect[o.src]
           /\ ~Some(R, {"gone"}) /\ o.src \notin o.raced => r[o.src] = Absent
  BY DEF Compared, Moved
<1> HIDE DEF a, h, R, H
<1>5. \A L : Some(H, L) => Some(R, L)
  BY <1>1 DEF Some
<1>6. Compared(a, r)
  <2> SUFFICES ASSUME Some(H, {"send"}), NEW p \in {o.src, o.dst},
                      <<"check", p>> \notin H, <<"compare", p>> \notin H, p \notin o.raced
               PROVE  r[p] = o.expect[p]
    BY <1>2 DEF Compared
  <2>0. h[1] # "send"
    BY <1>1 DEF Some, Misplaced, Final
  <2>1. CASE h \in {<<"check", p>>, <<"compare", p>>}
    BY <1>2, <1>3, <2>1
  <2>2. CASE h \notin {<<"check", p>>, <<"compare", p>>}
    BY <1>1, <1>4, <1>5, <2>0, <2>2
  <2> QED
    BY <2>1, <2>2
<1>7. Moved(a, r)
  <2> SUFFICES ASSUME o.kind = "rename", Some(H, {"return"})
               PROVE  /\ ~Some(H, {"same"}) /\ o.dst \notin o.raced => r[o.dst] = o.expect[o.src]
                      /\ ~Some(H, {"gone"}) /\ o.src \notin o.raced => r[o.src] = Absent
    BY <1>2 DEF Moved
  <2>1. Some(R, {"return"})
    BY <1>5
  <2>2. ASSUME ~Some(H, {"same"}), o.dst \notin o.raced
        PROVE  r[o.dst] = o.expect[o.src]
    <3>1. CASE h[1] = "same"
      BY <1>3, <3>1
    <3>2. CASE h[1] # "same"
      <4>1. ~Some(R, {"same"})
        BY <1>1, <2>2, <3>2 DEF Some
      <4> QED
        BY <1>4, <2>1, <2>2, <4>1
    <3> QED
      BY <3>1, <3>2
  <2>3. ASSUME ~Some(H, {"gone"}), o.src \notin o.raced
        PROVE  r[o.src] = Absent
    <3>1. CASE h[1] = "gone"
      BY <1>3, <3>1
    <3>2. CASE h[1] # "gone"
      <4>1. ~Some(R, {"gone"})
        BY <1>1, <2>3, <3>2 DEF Some
      <4> QED
        BY <1>4, <2>1, <2>3, <4>1
    <3> QED
      BY <3>1, <3>2
  <2> QED
    BY <2>2, <2>3
<1> QED
  BY <1>6, <1>7 DEF a

\* Without some of its steps an operation is still in order.
LEMMA KeptShaped ==
    ASSUME NEW o, Shaped(o), NEW S, NEW e \in Operation,
           e.kind = o.kind, e.src = o.src, e.dst = o.dst, e.expect = o.expect,
           e.raced = o.raced, e.todo = Keeping(o.todo, S), o.todo[1] \in S,
           \/ /\ \A s \in Range(o.todo) : s[1] \in Final \cup {"check"} => s \in S
              /\ \A p \in Paths : <<"compare", p>> \in Range(o.todo) \ S =>
                   <<"check", p>> \in Range(o.todo) /\ e.expect[p] = Absent
                      /\ <<"snap", p>> \notin S
           \/ /\ o.kind # "rename"
              /\ \A s \in S : s[1] \notin Final \cup {"check", "compare"}
    PROVE  /\ Shaped(e) /\ e.todo[1] = o.todo[1]
           /\ Range(e.todo) = Range(o.todo) \cap S
           /\ \A r : Compared(o, r) /\ Moved(o, r) => Compared(e, r) /\ Moved(e, r)
<1> DEFINE d == o.todo
           k == Keeping(d, S)
           R == Range(d)
           K == Range(k)
<1>1. /\ o \in Operation /\ d \in Seq(Steps) /\ d # << >>
      /\ Ordered(o.kind, d) /\ Linked(d) /\ Covered(o, R)
  BY DEF Shaped, Operation
<1>2. \/ /\ \A s \in R : s[1] \in Final \cup {"check"} => s \in S
         /\ \A p \in Paths : <<"compare", p>> \in R \ S =>
              <<"check", p>> \in R /\ e.expect[p] = Absent /\ <<"snap", p>> \notin S
      \/ o.kind # "rename" /\ \A s \in S : s[1] \notin Final \cup {"check", "compare"}
  OBVIOUS
<1>3. e.todo = k /\ d[1] \in S
  OBVIOUS
<1> HIDE DEF d
<1>4. k \in Seq(Steps) /\ K = R \cap S
  BY <1>1, Keeps
<1>5. PICK at \in [DOMAIN k -> DOMAIN d] :
         /\ \A n \in DOMAIN k : k[n] = d[at[n]]
         /\ \A m, n \in DOMAIN k : m < n => at[m] < at[n]
         /\ \A n \in DOMAIN k : at[n] + 1 \in DOMAIN d /\ d[at[n] + 1] \in S =>
              n + 1 \in DOMAIN k /\ k[n + 1] = d[at[n] + 1]
         /\ d # << >> /\ d[1] \in S => 1 \in DOMAIN k /\ k[1] = d[1]
  BY <1>1, KeepsPlaces
<1> HIDE DEF k
<1>6. 1 \in DOMAIN k /\ k[1] = d[1] /\ k # << >>
  <2>1. 1 \in DOMAIN k /\ k[1] = d[1]
    BY <1>1, <1>3, <1>5
  <2>2. Len(k) # 0
    BY <1>4, <2>1, LenProperties
  <2> QED
    BY <2>1, <2>2, EmptySeq
<1>7. Ordered(e.kind, k)
  BY <1>1, <1>5 DEF Ordered
<1>8. \A s \in K : s \in R /\ s \in S
  BY <1>4
<1>9. Linked(k)
  <2> SUFFICES ASSUME NEW n \in DOMAIN k, k[n][1] \in {"send", "same", "gone"}
               PROVE  n + 1 \in DOMAIN k /\ Follows(k[n], k[n + 1])
    BY DEF Linked
  <2>1. k[n] \in S /\ k[n][1] \in Final
    BY <1>8 DEF Range, Final
  <2>2. \A s \in R : s[1] \in Final => s \in S
    BY <1>2, <2>1
  <2>3. at[n] \in DOMAIN d /\ k[n] = d[at[n]]
    BY <1>5
  <2>4. at[n] + 1 \in DOMAIN d /\ Follows(d[at[n]], d[at[n] + 1])
    BY <1>1, <2>3 DEF Linked
  <2>5. d[at[n] + 1] \in S
    BY <2>2, <2>4 DEF Follows, Final, Range
  <2> QED
    BY <1>5, <2>3, <2>4, <2>5
<1> HIDE DEF R, K
<1>10. /\ \A p \in Paths :
            /\ <<"snap", p>> \in R /\ Some(R, {"send"}) => <<"compare", p>> \in R
            /\ <<"check", p>> \in R /\ <<"compare", p>> \notin R /\ o.kind # "rmdir" =>
                 o.expect[p] = Absent
            /\ <<"look", p>> \in R /\ <<"check", p>> \in R => o.expect[p] = Absent
            /\ <<"look", p>> \in R /\ <<"compare", p>> \in R => <<"check", p>> \in R
       /\ o.kind = "rename" /\ Some(R, {"snap", "check", "compare", "send"}) =>
            Some(R, {"same"}) /\ Some(R, {"gone"})
       /\ Some(R, {"check"}) => Some(R, {"send"})
       /\ \A s \in R :
            /\ s[1] \in {"check", "compare", "empty"} \cup Final => o.kind \in Mutations
            /\ s[1] = "compare" => o.kind # "mkdir"
            /\ s[1] \in {"check", "compare"} => s[2] \in {o.src, o.dst}
            /\ s[1] \in {"gone", "return"} => s[2] = o.src
            /\ s[1] = "same" => s[2] = o.dst
            /\ s[1] \in {"dir", "list"} => o.kind = "list"
       /\ (o.kind = "rename") = (o.src # o.dst)
  BY <1>1 DEF Covered
<1>11. \A L : Some(K, L) => Some(R, L)
  BY <1>8 DEF Some
<1>12. ASSUME \A s \in R : s[1] \in Final \cup {"check"} => s \in S,
              \A p \in Paths : <<"compare", p>> \in R \ S =>
                 <<"check", p>> \in R /\ e.expect[p] = Absent /\ <<"snap", p>> \notin S
       PROVE  Covered(e, K) /\ \A r : Compared(o, r) /\ Moved(o, r) => Compared(e, r) /\ Moved(e, r)
  <2>1. /\ \A p : <<"check", p>> \in K <=> <<"check", p>> \in R
        /\ Some(K, {"check"}) <=> Some(R, {"check"})
        /\ Some(K, {"send"}) <=> Some(R, {"send"})
        /\ Some(K, {"same"}) <=> Some(R, {"same"})
        /\ Some(K, {"gone"}) <=> Some(R, {"gone"})
        /\ Some(K, {"return"}) <=> Some(R, {"return"})
    BY <1>4, <1>12 DEF Some, Final, R, K
  <2>2. ASSUME NEW p \in Paths
        PROVE  /\ <<"snap", p>> \in K /\ Some(K, {"send"}) => <<"compare", p>> \in K
               /\ <<"check", p>> \in K /\ <<"compare", p>> \notin K /\ o.kind # "rmdir" =>
                    o.expect[p] = Absent
               /\ <<"look", p>> \in K /\ <<"check", p>> \in K => o.expect[p] = Absent
               /\ <<"look", p>> \in K /\ <<"compare", p>> \in K => <<"check", p>> \in K
    BY <1>4, <1>8, <1>10, <1>12, <2>1 DEF R, K
  <2>3. Covered(e, K)
    <3>1. o.kind = "rename" /\ Some(K, {"snap", "check", "compare", "send"}) =>
            Some(K, {"same"}) /\ Some(K, {"gone"})
      BY <1>10, <1>11, <2>1
    <3>2. Some(K, {"check"}) => Some(K, {"send"})
      BY <1>10, <2>1
    <3> QED
      BY <1>8, <1>10, <2>2, <3>1, <3>2 DEF Covered
  <2>4. ASSUME NEW r, Compared(o, r), Moved(o, r)
        PROVE  Compared(e, r) /\ Moved(e, r)
    <3>1. \A p \in Paths : <<"compare", p>> \in R \ K => <<"check", p>> \in R
      BY <1>4, <1>12 DEF R, K
    <3>2. o.src \in Paths /\ o.dst \in Paths
      BY <1>1 DEF Operation
    <3>3. Range(o.todo) = R /\ Range(e.todo) = K
      BY <1>3 DEF R, K, d
    <3>4. Compared(e, r)
      BY <2>1, <2>4, <3>1, <3>2, <3>3 DEF Compared
    <3>5. Moved(e, r)
      BY <2>1, <2>4, <3>3 DEF Moved
    <3> QED
      BY <3>4, <3>5
  <2> QED
    BY <2>3, <2>4
<1>13. ASSUME o.kind # "rename", \A s \in S : s[1] \notin Final \cup {"check", "compare"}
       PROVE  Covered(e, K) /\ \A r : Compared(e, r) /\ Moved(e, r)
  <2>1. o.kind # "rename" /\ \A s \in K : s[1] \notin Final \cup {"check", "compare"}
    BY <1>8, <1>13
  <2>2. /\ ~Some(K, {"send"}) /\ ~Some(K, {"check"}) /\ ~Some(K, {"return"})
        /\ \A p : <<"check", p>> \notin K /\ <<"compare", p>> \notin K
    BY <2>1 DEF Some, Final
  <2>3. Range(e.todo) = K
    BY <1>3 DEF K
  <2>4. \A r : Compared(e, r) /\ Moved(e, r)
    BY <2>2, <2>3 DEF Compared, Moved
  <2> QED
    BY <1>8, <1>10, <2>1, <2>2, <2>4 DEF Covered
<1>14. Covered(e, K)
  BY <1>2, <1>12, <1>13
<1>15. Shaped(e)
  BY <1>3, <1>6, <1>7, <1>9, <1>14 DEF Shaped, K
<1>16. \A r : Compared(o, r) /\ Moved(o, r) => Compared(e, r) /\ Moved(e, r)
  BY <1>2, <1>12, <1>13
<1> QED
  BY <1>3, <1>4, <1>6, <1>15, <1>16 DEF K, R, d

\* What comes behind the first step, or is it.
LEMMA First ==
    ASSUME NEW o, Shaped(o)
    PROVE  /\ o \in Operation /\ o.todo \in Seq(Steps) /\ o.todo[1] \in Steps
           /\ o.todo[1] \in Range(o.todo) /\ 1 \in DOMAIN o.todo
           /\ \A s \in Range(o.todo) : s = o.todo[1] \/ ~Misplaced(o.kind, o.todo[1], s)
           /\ o.todo[1][1] \in {"send", "same", "gone"} => Len(o.todo) # 1
           /\ Covered(o, Range(o.todo))
<1>1. /\ o \in Operation /\ o.todo \in Seq(Steps) /\ o.todo # << >>
      /\ Ordered(o.kind, o.todo) /\ Linked(o.todo) /\ Covered(o, Range(o.todo))
  BY DEF Shaped, Operation
<1>2. /\ o.todo[1] \in Range(o.todo) /\ 1 \in DOMAIN o.todo
  BY <1>1, Rest
<1>3. o.todo[1] \in Steps /\ Len(o.todo) \in Nat /\ DOMAIN o.todo = 1..Len(o.todo)
  BY <1>1, <1>2, LenProperties
<1>4. ASSUME NEW s \in Range(o.todo), s # o.todo[1]
      PROVE  ~Misplaced(o.kind, o.todo[1], s)
  <2>1. PICK i \in DOMAIN o.todo : s = o.todo[i]
    BY DEF Range
  <2>2. 1 < i
    BY <1>3, <1>4, <2>1
  <2> QED
    BY <1>1, <1>2, <2>1, <2>2 DEF Ordered
<1>5. o.todo[1][1] \in {"send", "same", "gone"} => Len(o.todo) # 1
  <2> SUFFICES ASSUME o.todo[1][1] \in {"send", "same", "gone"}, Len(o.todo) = 1 PROVE FALSE
    OBVIOUS
  <2>1. 1 + 1 \in DOMAIN o.todo
    BY <1>1, <1>2 DEF Linked
  <2> QED
    BY <1>3, <2>1
<1> QED
  BY <1>1, <1>2, <1>3, <1>4, <1>5

-----------------------------------------------------------------------------
(* The invariant *)

Values(k) == IF k[1] = "listing" THEN [Below(k[2]) -> Files] ELSE Contents
Obs(k)    == [value : Values(k), at : Nat, behind : BOOLEAN]
LoadOf(k) == [key : {k}, attached : BOOLEAN, obs : Obs(k)]

\* Every variable has the type of what it stands for.
Typed ==
    /\ remote \in [Paths -> Files] /\ now \in Nat
    /\ cache = [k \in Keys |-> cache[k]]
    /\ \A k \in Keys : cache[k] # None => cache[k] \in Obs(k)
    /\ load = [c \in Clients |-> load[c]]
    /\ op = [c \in Clients |-> op[c]]
    /\ request = [c \in Clients |-> request[c]]
    /\ \A c \in Clients : request[c] # None => request[c] \in Request
    /\ handle = [c \in Clients |-> handle[c]]
    /\ \A c \in Clients : handle[c] # None => handle[c] \in [path : Paths, version : Contents]

\* A client loads what it is about to read.
Loading ==
    \A c \in Clients : load[c] # None => Reading(c) /\ load[c] \in LoadOf(Key(c))

\* The request of an operation.
Open(c) == request[c] # None /\ ~request[c].late

\* It is about to be answered, and it is not another one's.
Asked == \A c \in Clients : Open(c) => At(c, "send")

\* A request that has not been applied finds what its caller knows.
Promised ==
    \A c \in Clients : request[c] # None /\ ~request[c].applied =>
        \A p \in {request[c].src, request[c].dst} \ request[c].raced :
            remote[p] = request[c].expect[p]

\* Attributes are kept no longer than what they were put together from.
Dated(o) ==
    IF o.until = None THEN o.oldest = None
    ELSE o.until \in Nat /\ o.oldest \in Nat \ {None} /\ o.until <= o.oldest + Attr

Right(o, r) == Shaped(o) /\ Dated(o) /\ Moved(o, r)

Running ==
    \A c \in Clients : Doing(c) =>
        Right(op[c], remote) /\ (~Open(c) => Compared(op[c], remote))

Base == Typed /\ Loading /\ Asked /\ Promised /\ Running

-----------------------------------------------------------------------------
(* Changes of an operation *)

\* What is merged in is no older than its deadline allows.
LEMMA ObservedRight ==
    ASSUME NEW c, Shaped(op[c]), Dated(op[c]), NEW obs, obs.at \in Nat,
           NEW ttl \in Nat, ttl <= Attr
    PROVE  LET o == op[c]
               e == Observed(c, obs, ttl)
           IN  /\ e \in Operation /\ Dated(e) /\ Shaped(e)
               /\ e.kind = o.kind /\ e.src = o.src /\ e.dst = o.dst /\ e.todo = o.todo
               /\ e.expect = o.expect /\ e.raced = o.raced
<1> DEFINE o == op[c]
           e == Observed(c, obs, ttl)
           u == Cap(o.until, obs.at, ttl)
           l == IF o.oldest = None THEN obs.at ELSE Min({o.oldest, obs.at})
<1>1. o \in Operation
  BY DEF Shaped
<1>2. e = [o EXCEPT !.until = u, !.oldest = l]
  BY DEF Observed
<1>3. Attr \in Nat /\ None \notin Nat
  BY ResourcesAssumption, NoneAssumption
<1>4. u \in Nat /\ l \in Nat /\ u <= l + Attr
  <2>1. CASE o.until = None
    BY <1>3, <2>1 DEF Dated, Cap
  <2>2. CASE o.until # None
    <3>1. o.until \in Nat /\ o.oldest \in Nat /\ o.oldest # None /\ o.until <= o.oldest + Attr
      BY <2>2 DEF Dated
    <3>2. l \in {o.oldest, obs.at}
      <4>1. \E x \in {o.oldest, obs.at} : \A y \in {o.oldest, obs.at} : x <= y
        BY <3>1
      <4> QED
        BY <3>1, <4>1 DEF Min
    <3> QED
      BY <1>3, <2>2, <3>1, <3>2 DEF Cap
  <2> QED
    BY <2>1, <2>2
<1> HIDE DEF u, l
<1>5. e \in Operation /\ e.until = u /\ e.oldest = l
  BY <1>1, <1>2, <1>4 DEF Operation
<1>6. Dated(e)
  BY <1>3, <1>4, <1>5 DEF Dated
<1>7. /\ e.kind = o.kind /\ e.src = o.src /\ e.dst = o.dst /\ e.todo = o.todo
      /\ e.expect = o.expect /\ e.raced = o.raced
  BY <1>1, <1>2 DEF Operation
<1> HIDE DEF e
<1>8. Shaped(e)
  BY <1>5, <1>7 DEF Shaped, Covered
<1> QED
  BY <1>5, <1>6, <1>7, <1>8 DEF e, o

\* What a caller expects can change where it is not relied on.
LEMMA ExpectShaped ==
    ASSUME NEW o, Shaped(o), NEW e \in Operation,
           e.kind = o.kind, e.src = o.src, e.dst = o.dst, e.todo = o.todo,
           \A p \in Paths : e.expect[p] # o.expect[p] =>
             /\ <<"check", p>> \in Range(o.todo) =>
                  <<"compare", p>> \in Range(o.todo) \/ o.kind = "rmdir"
             /\ <<"look", p>> \notin Range(o.todo)
    PROVE  Shaped(e)
<1> DEFINE R == Range(o.todo)
<1>1. Covered(o, R)
  BY DEF Shaped
<1>2. \A p \in Paths : e.expect[p] # o.expect[p] =>
         (<<"check", p>> \in R => <<"compare", p>> \in R \/ o.kind = "rmdir")
           /\ <<"look", p>> \notin R
  OBVIOUS
<1> HIDE DEF R
<1>3. ASSUME NEW p \in Paths
      PROVE  /\ <<"snap", p>> \in R /\ Some(R, {"send"}) => <<"compare", p>> \in R
             /\ <<"check", p>> \in R /\ <<"compare", p>> \notin R /\ e.kind # "rmdir" =>
                  e.expect[p] = Absent
             /\ <<"look", p>> \in R /\ <<"check", p>> \in R => e.expect[p] = Absent
             /\ <<"look", p>> \in R /\ <<"compare", p>> \in R => <<"check", p>> \in R
  BY <1>1, <1>2 DEF Covered
<1>4. Covered(e, R)
  BY <1>1, <1>3 DEF Covered
<1> QED
  BY <1>4 DEF Shaped, R

\* Others have changed the paths P.
LEMMA RacedRight ==
    ASSUME NEW o, NEW r, Right(o, r), NEW s, NEW P \in SUBSET Paths,
           \A p \in Paths \ P : s[p] = r[p]
    PROVE  /\ Raced(o, P) # None /\ Right(Raced(o, P), s) /\ Raced(o, P).todo = o.todo
           /\ Compared(o, r) => Compared(Raced(o, P), s)
<1> DEFINE e == Raced(o, P)
           R == Range(o.todo)
<1>1. o \in Operation /\ Covered(o, R) /\ Shaped(o) /\ Dated(o) /\ Moved(o, r)
  BY DEF Right, Shaped
<1>2. o # None
  BY <1>1, NoneAssumption
<1>3. e = [o EXCEPT !.raced = @ \cup (IF o.kind \in Mutations THEN P \cap {o.src, o.dst} ELSE {})]
  BY <1>2 DEF Raced
<1>4. /\ e \in Operation /\ e.kind = o.kind /\ e.src = o.src /\ e.dst = o.dst
      /\ e.todo = o.todo /\ e.expect = o.expect /\ e.until = o.until /\ e.oldest = o.oldest
      /\ o.src \in Paths /\ o.dst \in Paths
  BY <1>1, <1>3 DEF Operation
<1>5. /\ \A p \in {o.src, o.dst} : o.kind \in Mutations /\ p \notin e.raced =>
           p \notin o.raced /\ s[p] = r[p]
  BY <1>1, <1>3, <1>4 DEF Operation
<1> HIDE DEF e
<1>6. Shaped(e)
  BY <1>1, <1>4 DEF Shaped, Covered
<1>7. Moved(e, s)
  BY <1>1, <1>4, <1>5 DEF Moved, Mutations
<1>8. Some(R, {"send"}) => o.kind \in Mutations
  BY <1>1 DEF Some, Covered, Final
<1>9. Compared(o, r) => Compared(e, s)
  BY <1>4, <1>5, <1>8 DEF Compared
<1>10. Dated(e)
  BY <1>1, <1>4 DEF Dated
<1>11. e # None
  BY <1>4, NoneAssumption
<1> QED
  BY <1>4, <1>6, <1>7, <1>9, <1>10, <1>11 DEF Right, e

\* The next step of an operation leaves it right.
LEMMA NextRight ==
    ASSUME NEW o, NEW r, Right(o, r), o.todo[1][1] # "send" => Compared(o, r),
           \A p \in Paths :
              o.todo[1] \in {<<"check", p>>, <<"compare", p>>} =>
                 <<"compare", p>> \in Range(Tail(o.todo)) \/ p \in o.raced \/ r[p] = o.expect[p],
           o.todo[1][1] = "same" => r[o.dst] = o.expect[o.src],
           o.todo[1][1] = "gone" => r[o.src] = Absent
    PROVE  After(o) = None \/ (Right(After(o), r) /\ Compared(After(o), r))
<1>1. CASE Len(o.todo) = 1
  BY <1>1 DEF After
<1>2. CASE Len(o.todo) # 1
  <2>1. Shaped(o) /\ Dated(o) /\ Moved(o, r) /\ o \in Operation
    BY DEF Right, Shaped
  <2>2. After(o) = [o EXCEPT !.todo = Tail(o.todo)] /\ Shaped(After(o))
    BY <1>2, <2>1, AfterShaped
  <2>3. Compared(After(o), r) /\ Moved(After(o), r)
    BY <1>2, <2>1, AfterRight
  <2>4. Dated(After(o))
    <3>1. After(o).until = o.until /\ After(o).oldest = o.oldest
      BY <2>1, <2>2 DEF Operation
    <3> QED
      BY <2>1, <3>1 DEF Dated
  <2> QED
    BY <2>2, <2>3, <2>4 DEF Right
<1> QED
  BY <1>1, <1>2

\* A step that only looks leaves an operation right.
LEMMA LookedRight ==
    ASSUME NEW o, NEW r, Right(o, r), Compared(o, r),
           o.todo[1][1] \notin {"check", "compare", "same", "gone"}
    PROVE  After(o) = None \/ (Right(After(o), r) /\ Compared(After(o), r))
<1>1. \A p \in Paths : o.todo[1] \notin {<<"check", p>>, <<"compare", p>>}
  OBVIOUS
<1> QED
  BY <1>1, NextRight

-----------------------------------------------------------------------------
(* Steps of the clients *)

\* Operation c goes on as x, or is over.
GoesOn(c, x) ==
    /\ op' = [op EXCEPT ![c] = x]
    /\ x = None \/ (Right(x, remote) /\ Compared(x, remote))

\* That concerns nobody else.
LEMMA Proceeds ==
    ASSUME Base, NEW c \in Clients, NEW x, GoesOn(c, x), remote' = remote,
           request' = [d \in Clients |-> request'[d]],
           \A d \in Clients \ {c} : request'[d] = request[d],
           request'[c] \in {request[c], None} , ~Open(c)'
    PROVE  /\ Running' /\ Asked' /\ Promised' /\ op' = [d \in Clients |-> op'[d]]
           /\ \A d \in Clients : request'[d] # None => request'[d] \in Request
           /\ \A d \in Clients \ {c} : op'[d] = op[d]
           /\ op'[c] = x
<1>1. op' = [d \in Clients |-> op'[d]] /\ op'[c] = x /\ \A d \in Clients \ {c} : op'[d] = op[d]
  BY DEF GoesOn, Base, Typed
<1>2. \A d \in Clients \ {c} : (Open(d)' <=> Open(d)) /\ (Doing(d)' <=> Doing(d))
  BY <1>1 DEF Open, Doing
<1>3. Running'
  <2> SUFFICES ASSUME NEW d \in Clients, Doing(d)'
               PROVE  Right(op'[d], remote) /\ (~Open(d)' => Compared(op'[d], remote))
    BY DEF Running
  <2>1. CASE d = c
    BY <1>1, <2>1 DEF GoesOn, Doing
  <2>2. CASE d # c
    BY <1>1, <1>2, <2>2 DEF Base, Running
  <2> QED
    BY <2>1, <2>2
<1>4. Asked'
  BY <1>1, <1>2 DEF Asked, Base, At, Doing
<1>5. Promised'
  BY DEF Promised, Base
<1> QED
  BY <1>1, <1>3, <1>4, <1>5 DEF Base, Typed

\* Nothing is loaded for a step that reads no cache.
LEMMA Unread ==
    ASSUME Base, NEW c \in Clients, load[c] = None \/ ~Reading(c),
           load' = load, \A d \in Clients \ {c} : op'[d] = op[d]
    PROVE  Loading' /\ load' = [d \in Clients |-> load'[d]]
<1>1. load[c] = None
  BY DEF Base, Loading
<1>2. ASSUME NEW d \in Clients \ {c}
      PROVE  (Reading(d)' <=> Reading(d)) /\ Key(d)' = Key(d)
  BY DEF Reading, Key, Doing, At, Place
<1> QED
  BY <1>1, <1>2 DEF Loading, Base, Typed

\* An invalidation detaches what is being loaded.
LEMMA Detaches ==
    ASSUME Base, NEW c \in Clients, Invalidate(c), \A d \in Clients \ {c} : op'[d] = op[d]
    PROVE  /\ Loading' /\ load' = [d \in Clients |-> load'[d]]
           /\ cache' = [k \in Keys |-> cache'[k]]
           /\ \A k \in Keys : cache'[k] = None
           /\ \A d \in Clients : load'[d] # None => ~load'[d].attached
<1>1. ASSUME NEW d \in Clients \ {c}
      PROVE  (Reading(d)' <=> Reading(d)) /\ Key(d)' = Key(d)
  BY DEF Reading, Key, Doing, At, Place
<1>2. ASSUME NEW d \in Clients, load'[d] # None
      PROVE  d # c /\ load[d] # None /\ load'[d] = [load[d] EXCEPT !.attached = FALSE]
  BY <1>2 DEF Invalidate
<1>3. ASSUME NEW d \in Clients, load'[d] # None
      PROVE  Reading(d)' /\ load'[d] \in LoadOf(Key(d)') /\ ~load'[d].attached
  <2>1. d # c /\ Reading(d) /\ load[d] \in LoadOf(Key(d))
    BY <1>2, <1>3 DEF Base, Loading
  <2>2. load'[d] \in LoadOf(Key(d)) /\ ~load'[d].attached
    BY <1>2, <1>3, <2>1 DEF LoadOf
  <2> QED
    BY <1>1, <2>1, <2>2
<1>4. Loading'
  BY <1>3 DEF Loading
<1> QED
  BY <1>3, <1>4 DEF Invalidate

\* What a reader is given is an answer to its question.
LEMMA Delivers ==
    ASSUME Base, NEW c \in Clients, NEW obs, Deliver(c, obs),
           \A d \in Clients \ {c} : op'[d] = op[d]
    PROVE  /\ Key(c) \in Keys /\ obs \in Obs(Key(c))
           /\ Loading' /\ load' = [d \in Clients |-> load'[d]]
           /\ cache' = [k \in Keys |-> cache'[k]]
           /\ \A k \in Keys : cache'[k] # None => cache'[k] \in Obs(k)
           /\ remote' = remote /\ request' = request /\ now' = now /\ edits' = edits
           /\ load' = [load EXCEPT ![c] = None]
           /\ cache' = cache \/ (load[c] # None /\ load[c].attached /\ obs = load[c].obs
                                  /\ cache' = [cache EXCEPT ![Key(c)] = obs])
<1>0. Reading(c) /\ Doing(c) /\ obs \in Available(c)
  BY DEF Deliver, Reading
<1>1. Key(c) \in Keys
  <2>1. op[c].todo[1] \in Steps
    BY <1>0, First DEF Base, Running, Right
  <2>2. Place(c) \in Paths
    BY <2>1 DEF Place, Steps
  <2>3. Parent[Place(c)] \in Range(Parent)
    BY <2>2, ResourcesAssumption DEF Range
  <2>4. CASE At(c, "look") \/ At(c, "dir") \/ At(c, "list")
    <3>1. Key(c) = <<"listing", Parent[Place(c)]>>
      BY <2>4 DEF Key, At
    <3> QED
      BY <2>3, <3>1 DEF Keys
  <2>5. CASE At(c, "meta")
    <3>1. Key(c) = <<"metadata", Place(c)>>
      BY <2>5 DEF Key, At
    <3> QED
      BY <2>2, <3>1 DEF Keys
  <2>6. CASE At(c, "snap")
    <3>1. Key(c) = <<"content", Place(c)>>
      BY <2>6 DEF Key, At
    <3> QED
      BY <2>2, <3>1 DEF Keys
  <2> QED
    BY <1>0, <2>4, <2>5, <2>6 DEF Reading, At
<1>2. ASSUME NEW d \in Clients, load[d] # None
      PROVE  load[d].key = Key(d) /\ load[d].obs \in Obs(Key(d))
  BY <1>2 DEF Base, Loading, LoadOf
<1>3. obs \in Obs(Key(c)) /\ (load[c] # None => obs = load[c].obs)
  <2>1. CASE load[c] # None
    <3>1. obs = load[c].obs
      BY <1>0, <2>1 DEF Available
    <3> QED
      BY <1>2, <2>1, <3>1
  <2>2. CASE load[c] = None /\ cache[Key(c)] # None /\ now < cache[Key(c)].at + Age(c)
    <3>1. obs = cache[Key(c)]
      BY <1>0, <2>2 DEF Available
    <3> QED
      BY <1>1, <2>2, <3>1 DEF Base, Typed
  <2>3. CASE load[c] = None /\ ~(cache[Key(c)] # None /\ now < cache[Key(c)].at + Age(c))
    <3>1. PICK d \in Clients : load[d] # None /\ load[d].key = Key(c) /\ obs = load[d].obs
      BY <1>0, <2>3 DEF Available
    <3> QED
      BY <1>2, <2>3, <3>1
  <2> QED
    BY <2>1, <2>2, <2>3
<1>4. load' = [load EXCEPT ![c] = None] /\ load' = [d \in Clients |-> load'[d]]
  BY DEF Deliver, Base, Typed
<1>5. Loading'
  <2>1. ASSUME NEW d \in Clients \ {c}
        PROVE  (Reading(d)' <=> Reading(d)) /\ Key(d)' = Key(d) /\ load'[d] = load[d]
    BY <1>4 DEF Reading, Key, Doing, At, Place, Base, Typed
  <2>2. load'[c] = None
    BY <1>4 DEF Base, Typed
  <2> QED
    BY <2>1, <2>2 DEF Loading, Base
<1>6. cache' = cache \/ (load[c] # None /\ load[c].attached /\ obs = load[c].obs
                                  /\ cache' = [cache EXCEPT ![Key(c)] = obs])
  BY <1>3 DEF Deliver
<1>7. /\ cache' = [k \in Keys |-> cache'[k]]
      /\ \A k \in Keys : cache'[k] # None => cache'[k] \in Obs(k)
  BY <1>1, <1>3, <1>6 DEF Base, Typed
<1> QED
  BY <1>1, <1>3, <1>4, <1>5, <1>6, <1>7 DEF Deliver

\* A cached read leaves things right if the operation goes on as it should.
LEMMA ReadKeeps ==
    ASSUME Base, NEW c \in Clients, NEW obs, Deliver(c, obs), NEW x, GoesOn(c, x),
           handle' = [d \in Clients |-> handle'[d]],
           \A d \in Clients : handle'[d] # None => handle'[d] \in [path : Paths, version : Contents]
    PROVE  Base'
<1>1. request' = request /\ remote' = remote /\ now' = now
  BY DEF Deliver
<1>2. ~Open(c)'
  <2>1. ~At(c, "send")
    BY DEF Deliver, Reading, At
  <2> QED
    BY <1>1, <2>1 DEF Base, Asked, Open
<1>3. request' = [d \in Clients |-> request'[d]]
  BY <1>1 DEF Base, Typed
<1>4. /\ Running' /\ Asked' /\ Promised' /\ op' = [d \in Clients |-> op'[d]]
      /\ \A d \in Clients : request'[d] # None => request'[d] \in Request
      /\ \A d \in Clients \ {c} : op'[d] = op[d]
  BY <1>1, <1>2, <1>3, Proceeds
<1>5. /\ Loading' /\ load' = [d \in Clients |-> load'[d]]
      /\ cache' = [k \in Keys |-> cache'[k]]
      /\ \A k \in Keys : cache'[k] # None => cache'[k] \in Obs(k)
  BY <1>4, Delivers
<1>6. Typed'
  <2>1. remote' \in [Paths -> Files] /\ now' \in Nat
    BY <1>1 DEF Base, Typed
  <2> QED
    BY <1>3, <1>4, <1>5, <2>1 DEF Typed, Obs, Values
<1> QED
  BY <1>4, <1>5, <1>6 DEF Base

\* So does a step that reads no cache.
LEMMA StepKeeps ==
    ASSUME Base, NEW c \in Clients, NEW x, GoesOn(c, x), ~At(c, "send"),
           load[c] = None \/ ~Reading(c),
           UNCHANGED <<remote, edits, now, cache, load, request, handle>>
    PROVE  Base'
<1>1. request' = [d \in Clients |-> request'[d]] /\ ~Open(c)'
  BY DEF Base, Typed, Asked, Open
<1>2. /\ Running' /\ Asked' /\ Promised' /\ op' = [d \in Clients |-> op'[d]]
      /\ \A d \in Clients \ {c} : op'[d] = op[d]
  BY <1>1, Proceeds
<1>3. Loading'
  BY <1>2, Unread
<1>4. Typed'
  BY <1>2 DEF Base, Typed
<1> QED
  BY <1>2, <1>3, <1>4 DEF Base

\* Where c's operation is.
LEMMA Here ==
    ASSUME Base, NEW c \in Clients, Doing(c)
    PROVE  /\ Right(op[c], remote) /\ Shaped(op[c]) /\ Dated(op[c]) /\ Moved(op[c], remote)
           /\ ~At(c, "send") => Compared(op[c], remote)
           /\ op[c] \in Operation /\ op[c] # None /\ Covered(op[c], Range(op[c].todo))
           /\ op[c].todo \in Seq(Steps) /\ op[c].todo[1] \in Steps /\ Place(c) \in Paths
           /\ op[c].todo[1] = <<op[c].todo[1][1], Place(c)>>
           /\ op[c].todo[1] \in Range(op[c].todo)
           /\ \A s \in Range(op[c].todo) :
                s = op[c].todo[1] \/ ~Misplaced(op[c].kind, op[c].todo[1], s)
<1>1. Right(op[c], remote) /\ (~Open(c) => Compared(op[c], remote))
  BY DEF Base, Running
<1>2. ~At(c, "send") => ~Open(c)
  BY DEF Base, Asked
<1>3. Shaped(op[c]) /\ Dated(op[c]) /\ Moved(op[c], remote)
  BY <1>1 DEF Right
<1>4. /\ op[c] \in Operation /\ op[c].todo \in Seq(Steps) /\ op[c].todo[1] \in Steps
      /\ op[c].todo[1] \in Range(op[c].todo)
      /\ \A s \in Range(op[c].todo) :
           s = op[c].todo[1] \/ ~Misplaced(op[c].kind, op[c].todo[1], s)
      /\ Covered(op[c], Range(op[c].todo))
  BY <1>3, First
<1>5. Place(c) \in Paths /\ op[c].todo[1] = <<op[c].todo[1][1], Place(c)>>
  BY <1>4 DEF Place, Steps
<1> QED
  BY <1>1, <1>2, <1>3, <1>4, <1>5 DEF Doing

\* The next step as GoesOn.
LEMMA Continues ==
    ASSUME NEW c, NEW o, Continue(c, o),
           After(o) = None \/ (Right(After(o), remote) /\ Compared(After(o), remote))
    PROVE  GoesOn(c, After(o))
BY DEF GoesOn, Continue, After

LEMMA LookKeeps ==
    ASSUME Base, NEW c \in Clients, NEW obs, Look(c, obs)
    PROVE  Base'
<1> DEFINE p == Place(c)
           o == [Observed(c, obs, Attr) EXCEPT !.found = obs.value[p]]
           T == CASE obs.value[p] = Absent -> Without(o.todo, p)
                  [] obs.value[p] = Dir -> Dropping(o.todo, {<<"meta", p>>})
                  [] OTHER -> IF op[c].kind = "create" THEN Keeping(o.todo, Range(Version(p)))
                              ELSE o.todo
           e == [o EXCEPT !.todo = T]
           R == Range(op[c].todo)
<1>1. /\ At(c, "look") /\ Deliver(c, obs) /\ Doing(c)
      /\ Continue(c, e) /\ handle' = handle
  BY DEF Look, At
<1>2. /\ Right(op[c], remote) /\ Shaped(op[c]) /\ Dated(op[c]) /\ Compared(op[c], remote)
      /\ Moved(op[c], remote) /\ Covered(op[c], R) /\ op[c].todo \in Seq(Steps)
      /\ p \in Paths /\ op[c].todo[1] = <<"look", p>> /\ op[c].todo[1] \in R
  BY <1>1, Here DEF At
<1>3. obs.at \in Nat /\ obs.value[p] \in Files
  <2>1. op' = [op EXCEPT ![c] = After(e)]
    BY <1>1 DEF Continue, After
  <2>2. \A d \in Clients \ {c} : op'[d] = op[d]
    BY <2>1 DEF Base, Typed
  <2>3. obs \in Obs(Key(c))
    BY <1>1, <2>2, Delivers
  <2>4. Key(c) = <<"listing", Parent[p]>>
    BY <1>1 DEF Key, At
  <2>5. obs.value \in [Below(Parent[p]) -> Files] /\ obs.at \in Nat
    BY <2>3, <2>4 DEF Obs, Values
  <2>6. p \in Below(Parent[p])
    BY <1>2 DEF Below
  <2> QED
    BY <2>5, <2>6
<1> HIDE DEF T
<1>4. /\ o \in Operation /\ Dated(o) /\ Shaped(o)
      /\ o.kind = op[c].kind /\ o.src = op[c].src /\ o.dst = op[c].dst /\ o.todo = op[c].todo
      /\ o.expect = op[c].expect /\ o.raced = op[c].raced
  <2> DEFINE b == Observed(c, obs, Attr)
  <2>1. /\ b \in Operation /\ Dated(b) /\ Shaped(b)
        /\ b.kind = op[c].kind /\ b.src = op[c].src /\ b.dst = op[c].dst
        /\ b.todo = op[c].todo /\ b.expect = op[c].expect /\ b.raced = op[c].raced
    <3>1. Attr \in Nat
      BY ResourcesAssumption
    <3> QED
      BY <1>2, <1>3, <3>1, ObservedRight
  <2> HIDE DEF b
  <2>2. /\ o \in Operation /\ o.kind = b.kind /\ o.src = b.src /\ o.dst = b.dst
        /\ o.todo = b.todo /\ o.expect = b.expect /\ o.raced = b.raced
        /\ o.until = b.until /\ o.oldest = b.oldest
    BY <1>3, <2>1 DEF Operation, b
  <2> HIDE DEF o
  <2>3. Shaped(o)
    BY <2>1, <2>2, ExpectShaped
  <2> QED
    BY <2>1, <2>2, <2>3 DEF Dated
<1> HIDE DEF o
<1>5. Compared(o, remote) /\ Moved(o, remote)
  BY <1>2, <1>4 DEF Compared, Moved
<1>6. /\ T \in Seq(Steps) => e \in Operation
      /\ e.kind = o.kind /\ e.src = o.src /\ e.dst = o.dst /\ e.todo = T
      /\ e.expect = o.expect /\ e.raced = o.raced /\ e.until = o.until /\ e.oldest = o.oldest
  BY <1>4 DEF Operation
<1> HIDE DEF e
<1>7. ASSUME NEW S, T = Keeping(o.todo, S), <<"look", p>> \in S,
             \/ /\ \A s \in R : s[1] \in Final \cup {"check"} => s \in S
                /\ \A q \in Paths : <<"compare", q>> \in R \ S => q = p /\ <<"snap", p>> \notin S
             \/ /\ o.kind # "rename"
                /\ \A s \in S : s[1] \notin Final \cup {"check", "compare"}
      PROVE  Right(e, remote) /\ Compared(e, remote) /\ e.todo[1] = <<"look", p>>
  <2>1. T \in Seq(Steps)
    BY <1>2, <1>4, <1>7, Keeps
  <2>2. \A q \in Paths : <<"compare", q>> \in R /\ q = p =>
           <<"check", q>> \in R /\ e.expect[q] = Absent
    BY <1>2, <1>4, <1>6 DEF Covered
  <2>3. \/ /\ \A s \in R : s[1] \in Final \cup {"check"} => s \in S
           /\ \A q \in Paths : <<"compare", q>> \in R \ S =>
                <<"check", q>> \in R /\ e.expect[q] = Absent /\ <<"snap", q>> \notin S
        \/ /\ o.kind # "rename"
           /\ \A s \in S : s[1] \notin Final \cup {"check", "compare"}
    BY <1>7, <2>2
  <2>4. e \in Operation /\ e.todo = Keeping(o.todo, S) /\ o.todo[1] \in S /\ Range(o.todo) = R
    BY <1>2, <1>4, <1>6, <1>7, <2>1
  <2>5. /\ Shaped(e) /\ e.todo[1] = o.todo[1]
        /\ \A r : Compared(o, r) /\ Moved(o, r) => Compared(e, r) /\ Moved(e, r)
    BY <1>4, <1>6, <2>3, <2>4, KeptShaped
  <2>6. Dated(e)
    BY <1>4, <1>6 DEF Dated
  <2> QED
    BY <1>2, <1>4, <1>5, <2>5, <2>6 DEF Right
<1>8. Right(e, remote) /\ Compared(e, remote) /\ e.todo[1] = <<"look", p>>
  <2>1. CASE obs.value[p] = Absent
    <3> DEFINE S == Range(o.todo) \ {<<"meta", p>>, <<"snap", p>>, <<"compare", p>>}
    <3>1. T = Keeping(o.todo, S)
      BY <2>1, ResourcesAssumption DEF T, Without, Dropping
    <3>2. /\ <<"look", p>> \in S
          /\ \A s \in R : s[1] \in Final \cup {"check"} => s \in S
          /\ \A q \in Paths : <<"compare", q>> \in R \ S => q = p /\ <<"snap", p>> \notin S
      BY <1>2, <1>4 DEF Final
    <3> QED
      BY <1>7, <3>1, <3>2
  <2>2. CASE obs.value[p] # Absent /\ obs.value[p] = Dir
    <3> DEFINE S == Range(o.todo) \ {<<"meta", p>>}
    <3>1. T = Keeping(o.todo, S)
      BY <2>2 DEF T, Dropping
    <3>2. /\ <<"look", p>> \in S
          /\ \A s \in R : s[1] \in Final \cup {"check"} => s \in S
          /\ \A q \in Paths : <<"compare", q>> \in R \ S => q = p /\ <<"snap", p>> \notin S
      BY <1>2, <1>4 DEF Final
    <3> QED
      BY <1>7, <3>1, <3>2
  <2>3. CASE obs.value[p] \notin {Absent, Dir} /\ op[c].kind = "create"
    <3> DEFINE S == Range(Version(p))
    <3>1. T = Keeping(o.todo, S)
      BY <2>3 DEF T
    <3>2. S = {<<"look", p>>, <<"meta", p>>, <<"snap", p>>}
      BY DEF Version, Range
    <3> HIDE DEF S
    <3>3. /\ <<"look", p>> \in S /\ o.kind # "rename"
          /\ \A s \in S : s[1] \notin Final \cup {"check", "compare"}
      BY <1>4, <2>3, <3>2 DEF Final
    <3> QED
      BY <1>7, <3>1, <3>3
  <2>4. CASE obs.value[p] \notin {Absent, Dir} /\ op[c].kind # "create"
    <3>1. T = o.todo
      BY <2>4 DEF T
    <3>2. e \in Operation
      BY <1>2, <1>4, <1>6, <3>1
    <3>3. Shaped(e)
      BY <1>4, <1>6, <3>1, <3>2, ExpectShaped
    <3>4. Dated(e) /\ Compared(e, remote) /\ Moved(e, remote)
      BY <1>4, <1>5, <1>6, <3>1 DEF Dated, Compared, Moved
    <3> QED
      BY <1>2, <1>4, <1>6, <3>1, <3>3, <3>4 DEF Right
  <2> QED
    BY <2>1, <2>2, <2>3, <2>4
<1>9. After(e) = None \/ (Right(After(e), remote) /\ Compared(After(e), remote))
  BY <1>8, LookedRight
<1>10. GoesOn(c, After(e))
  BY <1>1, <1>9, Continues
<1> QED
  BY <1>1, <1>10, ReadKeeps DEF Base, Typed

\* What c reads with its next step.
LEMMA Reads ==
    ASSUME Base, NEW c \in Clients, NEW obs, Deliver(c, obs), NEW x, Continue(c, x)
    PROVE  /\ Doing(c) /\ obs \in Obs(Key(c)) /\ obs.at \in Nat
           /\ Right(op[c], remote) /\ Compared(op[c], remote)
<1>1. Doing(c) /\ ~At(c, "send")
  BY DEF Deliver, Reading, At
<1>2. \A d \in Clients \ {c} : op'[d] = op[d]
  BY DEF Continue, Base, Typed
<1>3. obs \in Obs(Key(c))
  BY <1>2, Delivers
<1> QED
  BY <1>1, <1>3, Here DEF Obs

LEMMA LookDirKeeps ==
    ASSUME Base, NEW c \in Clients, NEW obs, LookDir(c, obs)
    PROVE  Base'
<1>1. At(c, "dir") /\ Deliver(c, obs) /\ Continue(c, op[c]) /\ handle' = handle
  BY DEF LookDir
<1>2. Right(op[c], remote) /\ Compared(op[c], remote)
  BY <1>1, Reads
<1>3. GoesOn(c, After(op[c]))
  BY <1>1, <1>2, LookedRight, Continues DEF At
<1> QED
  BY <1>1, <1>3, ReadKeeps DEF Base, Typed

\* A merged observation changes nothing else.
LEMMA ObservedKeeps ==
    ASSUME NEW c, Right(op[c], remote), Compared(op[c], remote), NEW obs, obs.at \in Nat,
           NEW ttl \in Nat, ttl <= Attr
    PROVE  LET o == op[c]
               e == Observed(c, obs, ttl)
           IN  /\ Right(e, remote) /\ Compared(e, remote) /\ e \in Operation
               /\ e.kind = o.kind /\ e.src = o.src /\ e.dst = o.dst /\ e.todo = o.todo
<1> DEFINE o == op[c]
           e == Observed(c, obs, ttl)
<1>1. /\ e \in Operation /\ Dated(e) /\ Shaped(e)
      /\ e.kind = o.kind /\ e.src = o.src /\ e.dst = o.dst /\ e.todo = o.todo
      /\ e.expect = o.expect /\ e.raced = o.raced
  BY ObservedRight DEF Right
<1> HIDE DEF e
<1>2. Compared(e, remote) /\ Moved(e, remote)
  BY <1>1 DEF Right, Compared, Moved
<1> QED
  BY <1>1, <1>2 DEF Right, e

LEMMA MetaKeeps ==
    ASSUME Base, NEW c \in Clients, NEW obs, Meta(c, obs)
    PROVE  Base'
<1> DEFINE e == Observed(c, obs, Attr)
<1>1. At(c, "meta") /\ Deliver(c, obs) /\ Continue(c, e) /\ handle' = handle
  BY DEF Meta
<1>2. Right(op[c], remote) /\ Compared(op[c], remote) /\ obs.at \in Nat
  BY <1>1, Reads
<1>3. Attr \in Nat
  BY ResourcesAssumption
<1>4. Right(e, remote) /\ Compared(e, remote) /\ e.todo = op[c].todo
  BY <1>2, <1>3, ObservedKeeps
<1> HIDE DEF e
<1>5. GoesOn(c, After(e))
  BY <1>1, <1>4, LookedRight, Continues DEF At
<1> QED
  BY <1>1, <1>5, ReadKeeps DEF Base, Typed

LEMMA ListKeeps ==
    ASSUME Base, NEW c \in Clients, NEW obs, List(c, obs)
    PROVE  Base'
<1> DEFINE p == Place(c)
           o == Observed(c, obs, Min({Directory, Attr}))
           e == [o EXCEPT !.todo = Without(o.todo, p)]
           x == IF obs.value[p] \in Contents THEN o ELSE e
           R == Range(op[c].todo)
           S == R \ {<<"meta", p>>, <<"snap", p>>, <<"compare", p>>}
<1>1. At(c, "list") /\ Deliver(c, obs) /\ Continue(c, x) /\ handle' = handle
  BY DEF List
<1>2. Doing(c) /\ Right(op[c], remote) /\ Compared(op[c], remote) /\ obs.at \in Nat
  BY <1>1, Reads
<1>3. Min({Directory, Attr}) \in Nat /\ Min({Directory, Attr}) <= Attr
  <2>1. Directory \in Nat /\ Attr \in Nat
    BY ResourcesAssumption
  <2>2. \E m \in {Directory, Attr} : \A n \in {Directory, Attr} : m <= n
    BY <2>1
  <2> QED
    BY <2>1, <2>2 DEF Min
<1>4. /\ Right(o, remote) /\ Compared(o, remote) /\ o \in Operation
      /\ o.kind = op[c].kind /\ o.todo = op[c].todo
  BY <1>2, <1>3, ObservedKeeps
<1>5. /\ op[c].todo[1] = <<"list", p>> /\ op[c].todo[1] \in R /\ Covered(op[c], R)
      /\ op[c].todo \in Seq(Steps)
  BY <1>1, <1>2, Here DEF At
<1>6. op[c].kind = "list" /\ \A s \in R : s[1] \notin Final \cup {"check", "compare"}
  BY <1>5 DEF Covered, Mutations
<1> HIDE DEF o
<1>7. Right(e, remote) /\ Compared(e, remote) /\ e.todo[1] = <<"list", p>>
  <2>1. Without(o.todo, p) = Keeping(o.todo, S)
    BY <1>4 DEF Without, Dropping
  <2>2. Keeping(o.todo, S) \in Seq(Steps)
    BY <1>4, <1>5, Keeps
  <2>3. /\ e \in Operation /\ e.kind = o.kind /\ e.src = o.src /\ e.dst = o.dst
        /\ e.expect = o.expect /\ e.raced = o.raced /\ e.todo = Keeping(o.todo, S)
        /\ e.until = o.until /\ e.oldest = o.oldest
    BY <1>4, <2>1, <2>2 DEF Operation
  <2> HIDE DEF e
  <2>4. /\ o.kind # "rename" /\ o.todo[1] \in S
        /\ \A s \in S : s[1] \notin Final \cup {"check", "compare"}
    BY <1>4, <1>5, <1>6
  <2> HIDE DEF S
  <2>5. /\ Shaped(e) /\ e.todo[1] = o.todo[1]
        /\ \A r : Compared(o, r) /\ Moved(o, r) => Compared(e, r) /\ Moved(e, r)
    BY <1>4, <2>3, <2>4, KeptShaped DEF Right
  <2> QED
    BY <1>4, <1>5, <2>3, <2>5 DEF Right, Dated
<1> HIDE DEF e
<1>8. Right(x, remote) /\ Compared(x, remote) /\ x.todo[1] = <<"list", p>>
  BY <1>4, <1>5, <1>7
<1> HIDE DEF x
<1>9. GoesOn(c, After(x))
  BY <1>1, <1>8, LookedRight, Continues
<1> QED
  BY <1>1, <1>9, ReadKeeps DEF Base, Typed

LEMMA MetaKnownKeeps ==
    ASSUME Base, NEW c \in Clients, MetaKnown(c) \/ Done(c)
    PROVE  Base'
<1>1. /\ Doing(c) /\ op[c].todo[1][1] \in {"meta", "done"} /\ Continue(c, op[c])
      /\ load[c] = None \/ ~Reading(c)
      /\ UNCHANGED <<remote, edits, now, cache, load, request, handle>>
  BY DEF MetaKnown, Done, At, Reading
<1>2. ~At(c, "send")
  BY <1>1 DEF At
<1>3. Right(op[c], remote) /\ Compared(op[c], remote)
  BY <1>1, <1>2, Here
<1>4. GoesOn(c, After(op[c]))
  BY <1>1, <1>3, LookedRight, Continues
<1> QED
  BY <1>1, <1>2, <1>4, StepKeeps

LEMMA SnapKeeps ==
    ASSUME Base, NEW c \in Clients, NEW obs, Snap(c, obs)
    PROVE  Base'
<1> DEFINE p == Place(c)
           o == op[c]
           e == [op[c] EXCEPT !.expect[p] = obs.value]
           R == Range(o.todo)
<1>1. At(c, "snap") /\ Deliver(c, obs) /\ Continue(c, e)
  BY DEF Snap
<1>2. Doing(c) /\ Right(o, remote) /\ Compared(o, remote) /\ obs \in Obs(Key(c))
  BY <1>1, Reads
<1>3. obs.value \in Contents
  <2>1. Key(c) = <<"content", p>>
    BY <1>1 DEF Key, At
  <2> QED
    BY <1>2, <2>1 DEF Obs, Values
<1>4. /\ o \in Operation /\ o.todo[1] = <<"snap", p>> /\ o.todo[1] \in R /\ Covered(o, R)
      /\ Shaped(o) /\ Dated(o) /\ p \in Paths /\ Moved(o, remote)
      /\ \A s \in R : s = o.todo[1] \/ ~Misplaced(o.kind, o.todo[1], s)
  BY <1>1, <1>2, Here DEF At
<1>5. /\ e \in Operation /\ e.kind = o.kind /\ e.src = o.src /\ e.dst = o.dst
      /\ e.todo = o.todo /\ e.raced = o.raced /\ e.until = o.until /\ e.oldest = o.oldest
      /\ \A q \in Paths : q # p => e.expect[q] = o.expect[q]
  BY <1>3, <1>4 DEF Operation, Files
<1> HIDE DEF e, o
<1>6. /\ <<"look", p>> \notin R
      /\ Some(R, {"send"}) => <<"compare", p>> \in R
      /\ <<"check", p>> \in R => <<"compare", p>> \in R
  <2>1. <<"look", p>> \notin R
    BY <1>4 DEF Misplaced
  <2>2. Some(R, {"send"}) => <<"compare", p>> \in R
    BY <1>4 DEF Covered
  <2>3. <<"check", p>> \in R => Some(R, {"check"})
    BY DEF Some
  <2>4. Some(R, {"check"}) => Some(R, {"send"})
    BY <1>4 DEF Covered
  <2> QED
    BY <2>1, <2>2, <2>3, <2>4
<1>7. Shaped(e)
  BY <1>4, <1>5, <1>6, ExpectShaped
<1>8. Compared(e, remote)
  <2>1. o.src \in Paths /\ o.dst \in Paths
    BY <1>4 DEF Operation
  <2> QED
    BY <1>2, <1>5, <1>6, <2>1 DEF Compared
<1>9. Moved(e, remote)
  <2>1. o.kind = "rename" => Some(R, {"same"}) /\ Some(R, {"gone"})
    BY <1>4 DEF Covered, Some
  <2> QED
    BY <1>5, <2>1 DEF Moved
<1>10. Right(e, remote) /\ e.todo[1] = <<"snap", p>>
  BY <1>4, <1>5, <1>7, <1>9 DEF Right, Dated
<1>11. GoesOn(c, After(e))
  BY <1>1, <1>8, <1>10, LookedRight, Continues
<1>12. /\ handle' = [d \in Clients |-> handle'[d]]
       /\ \A d \in Clients : handle'[d] # None => handle'[d] \in [path : Paths, version : Contents]
  BY <1>3, <1>4 DEF Snap, Base, Typed
<1> QED
  BY <1>1, <1>11, <1>12, ReadKeeps

-----------------------------------------------------------------------------
(* Fresh looks *)

\* A path that an operation has just looked at is nobody else's change.
LEMMA LookedAt ==
    ASSUME NEW o, NEW r, Right(o, r), Compared(o, r), NEW p \in Paths, NEW e \in Operation,
           o.todo[1] \in {<<"check", p>>, <<"compare", p>>},
           e.kind = o.kind, e.src = o.src, e.dst = o.dst, e.todo = o.todo,
           e.until = o.until, e.oldest = o.oldest, e.raced = o.raced \ {p},
           \A q \in Paths : e.expect[q] # o.expect[q] => q = p /\ o.kind = "rmdir"
    PROVE  Right(e, r) /\ Compared(e, r)
<1> DEFINE R == Range(o.todo)
<1>1. /\ o \in Operation /\ o.todo[1] \in R /\ Covered(o, R) /\ Shaped(o) /\ Dated(o)
      /\ \A s \in R : s = o.todo[1] \/ ~Misplaced(o.kind, o.todo[1], s)
  BY First DEF Right
<1>2. <<"check", p>> \in R \/ <<"compare", p>> \in R
  BY <1>1
<1>3. o.src \in Paths /\ o.dst \in Paths
  BY <1>1 DEF Operation
<1>4. Shaped(e)
  <2>1. o.kind = "rmdir" => <<"look", p>> \notin R
    BY <1>1 DEF Misplaced
  <2> QED
    BY <1>1, <2>1, ExpectShaped
<1>5. Compared(e, r)
  BY <1>2, <1>3 DEF Compared
<1>6. Moved(e, r)
  <2>1. o.kind = "rename" => Some(R, {"same"}) /\ Some(R, {"gone"})
    <3>1. Some(R, {"snap", "check", "compare", "send"})
      BY <1>2 DEF Some
    <3> QED
      BY <1>1, <3>1 DEF Covered
  <2> QED
    BY <2>1 DEF Moved
<1> QED
  BY <1>1, <1>4, <1>5, <1>6 DEF Right, Dated

LEMMA CheckKeeps ==
    ASSUME Base, NEW c \in Clients, Check(c)
    PROVE  Base'
<1> DEFINE p == Place(c)
           o == op[c]
           wanted == IF o.kind = "rmdir" THEN Dir ELSE o.expect[p]
           b == [o EXCEPT !.raced = @ \ {p}, !.expect[p] = wanted]
           e == IF remote[p] = Absent THEN [b EXCEPT !.todo = Without(@, p)] ELSE b
           R == Range(o.todo)
           S == R \ {<<"meta", p>>, <<"snap", p>>, <<"compare", p>>}
<1>1. At(c, "check") /\ Doing(c) /\ ~At(c, "send") /\ ~Reading(c)
  BY DEF Check, At, Reading
<1>2. /\ Right(o, remote) /\ Compared(o, remote) /\ o \in Operation /\ Covered(o, R)
      /\ o.todo \in Seq(Steps) /\ p \in Paths /\ o.todo[1] = <<"check", p>> /\ o.todo[1] \in R
  BY <1>1, Here DEF At
<1>3. Fresh(<<"listing", Parent[p]>>)[p] = remote[p]
  <2>1. p \in Below(Parent[p])
    BY <1>2 DEF Below
  <2> QED
    BY <2>1 DEF Fresh, View
<1>4. /\ IF wanted \in Contents THEN remote[p] \in Contents ELSE remote[p] = wanted
      /\ UNCHANGED <<remote, edits, now, cache, load, request, handle>>
      /\ Continue(c, [o EXCEPT !.raced = @ \ {p}, !.expect[p] = wanted,
                               !.todo = IF remote[p] = Absent THEN Without(@, p) ELSE @])
  BY <1>3 DEF Check
<1>5. remote[p] = Absent => wanted = Absent
  BY <1>4, ResourcesAssumption
<1>6. wanted \in Files /\ o.expect \in [Paths -> Files]
  BY <1>2 DEF Files, Operation
<1>7. [o EXCEPT !.raced = @ \ {p}, !.expect[p] = wanted,
                !.todo = IF remote[p] = Absent THEN Without(@, p) ELSE @] = e
  BY <1>2 DEF Operation
<1>8. Continue(c, e)
  BY <1>4, <1>7
<1> HIDE DEF wanted
<1>9. /\ b \in Operation /\ b.kind = o.kind /\ b.src = o.src /\ b.dst = o.dst
      /\ b.todo = o.todo /\ b.until = o.until /\ b.oldest = o.oldest
      /\ b.raced = o.raced \ {p} /\ b.expect[p] = wanted
      /\ \A q \in Paths : q # p => b.expect[q] = o.expect[q]
  BY <1>2, <1>6 DEF Operation
<1> HIDE DEF b, o
<1>10. Right(b, remote) /\ Compared(b, remote)
  <2>1. \A q \in Paths : b.expect[q] # o.expect[q] => q = p /\ o.kind = "rmdir"
    BY <1>9 DEF wanted
  <2> QED
    BY <1>2, <1>9, <2>1, LookedAt
<1>11. /\ Right(e, remote) /\ Compared(e, remote) /\ e.todo[1] = <<"check", p>>
       /\ e.expect[p] = wanted /\ e.kind = o.kind
       /\ remote[p] # Absent => e = b
       /\ \A s \in Range(e.todo) : s \in R
       /\ e.todo \in Seq(Steps) /\ e.todo # << >>
  <2>1. CASE remote[p] # Absent
    <3>1. e = b
      BY <2>1
    <3>2. b.todo # << >>
      BY <1>10 DEF Right, Shaped
    <3> QED
      BY <1>2, <1>9, <1>10, <2>1, <3>1, <3>2
  <2>2. CASE remote[p] = Absent
    <3>1. Without(b.todo, p) = Keeping(b.todo, S)
      BY <1>9 DEF Without, Dropping
    <3>2. Keeping(b.todo, S) \in Seq(Steps)
      BY <1>2, <1>9, Keeps
    <3>3. e = [b EXCEPT !.todo = Keeping(b.todo, S)]
      BY <2>2, <3>1
    <3>4. /\ e \in Operation /\ e.kind = b.kind /\ e.src = b.src /\ e.dst = b.dst
          /\ e.todo = Keeping(b.todo, S) /\ e.until = b.until /\ e.oldest = b.oldest
          /\ e.raced = b.raced /\ e.expect = b.expect
      BY <1>9, <3>2, <3>3 DEF Operation
    <3> HIDE DEF e
    <3>5. /\ b.todo[1] \in S
          /\ \A s \in Range(b.todo) : s[1] \in Final \cup {"check"} => s \in S
      BY <1>2, <1>9 DEF Final
    <3>6. \A q \in Paths : <<"compare", q>> \in Range(b.todo) \ S =>
             <<"check", q>> \in Range(b.todo) /\ e.expect[q] = Absent /\ <<"snap", q>> \notin S
      BY <1>2, <1>5, <1>9, <2>2, <3>4
    <3> HIDE DEF S
    <3>7. /\ Shaped(e) /\ e.todo[1] = b.todo[1] /\ Range(e.todo) = Range(b.todo) \cap S
          /\ \A r : Compared(b, r) /\ Moved(b, r) => Compared(e, r) /\ Moved(e, r)
      BY <1>10, <3>4, <3>5, <3>6, KeptShaped DEF Right
    <3>8. Right(e, remote) /\ Compared(e, remote)
      BY <1>10, <3>4, <3>7 DEF Right, Dated
    <3> QED
      BY <1>2, <1>9, <2>2, <3>2, <3>4, <3>7, <3>8 DEF Shaped
  <2> QED
    BY <2>1, <2>2
<1> HIDE DEF e
<1>12. <<"compare", p>> \in Range(Tail(e.todo)) \/ remote[p] = e.expect[p]
  <2>1. CASE <<"compare", p>> \in Range(e.todo)
    <3>1. Range(e.todo) \subseteq {e.todo[1]} \cup Range(Tail(e.todo))
      BY <1>11, Rest
    <3> QED
      BY <1>11, <2>1, <3>1
  <2>2. CASE <<"compare", p>> \notin Range(e.todo) /\ remote[p] # Absent /\ o.kind # "rmdir"
    <3>1. <<"compare", p>> \notin R
      BY <1>9, <1>11, <2>2
    <3>2. o.expect[p] = Absent
      BY <1>2, <2>2, <3>1 DEF Covered
    <3> QED
      BY <1>4, <1>11, <2>2, <3>2, ResourcesAssumption DEF wanted
  <2>3. CASE remote[p] = Absent
    BY <1>5, <1>11, <2>3
  <2>4. CASE o.kind = "rmdir"
    BY <1>4, <1>11, <2>4, ResourcesAssumption DEF wanted
  <2> QED
    BY <2>1, <2>2, <2>3, <2>4
<1>13. After(e) = None \/ (Right(After(e), remote) /\ Compared(After(e), remote))
  <2>1. ASSUME NEW q \in Paths, e.todo[1] \in {<<"check", q>>, <<"compare", q>>}
        PROVE  <<"compare", q>> \in Range(Tail(e.todo)) \/ q \in e.raced \/ remote[q] = e.expect[q]
    BY <1>11, <1>12, <2>1
  <2> QED
    BY <1>11, <2>1, NextRight
<1>14. GoesOn(c, After(e))
  BY <1>8, <1>13, Continues
<1> QED
  BY <1>1, <1>4, <1>14, StepKeeps

LEMMA CompareVersionKeeps ==
    ASSUME Base, NEW c \in Clients, CompareVersion(c)
    PROVE  Base'
<1> DEFINE p == Place(c)
           o == op[c]
           e == [o EXCEPT !.raced = @ \ {p}]
<1>1. /\ At(c, "compare") /\ Doing(c) /\ ~At(c, "send") /\ ~Reading(c)
      /\ remote[p] = o.expect[p] /\ Continue(c, e)
      /\ UNCHANGED <<remote, edits, now, cache, load, request, handle>>
  BY DEF CompareVersion, At, Reading, Fresh, View
<1>2. /\ Right(o, remote) /\ Compared(o, remote) /\ o \in Operation
      /\ p \in Paths /\ o.todo[1] = <<"compare", p>>
  BY <1>1, Here DEF At
<1>3. /\ e \in Operation /\ e.kind = o.kind /\ e.src = o.src /\ e.dst = o.dst
      /\ e.todo = o.todo /\ e.until = o.until /\ e.oldest = o.oldest
      /\ e.raced = o.raced \ {p} /\ e.expect = o.expect
  BY <1>2 DEF Operation
<1> HIDE DEF e, o
<1>4. Right(e, remote) /\ Compared(e, remote)
  BY <1>2, <1>3, LookedAt
<1>5. After(e) = None \/ (Right(After(e), remote) /\ Compared(After(e), remote))
  <2>1. ASSUME NEW q \in Paths, e.todo[1] \in {<<"check", q>>, <<"compare", q>>}
        PROVE  remote[q] = e.expect[q]
    BY <1>1, <1>2, <1>3, <2>1
  <2> QED
    BY <1>2, <1>3, <1>4, <2>1, NextRight
<1>6. GoesOn(c, After(e))
  BY <1>1, <1>5, Continues
<1> QED
  BY <1>1, <1>6, StepKeeps

LEMMA CheckEmptyKeeps ==
    ASSUME Base, NEW c \in Clients, CheckEmpty(c)
    PROVE  Base'
<1>1. /\ At(c, "empty") /\ Doing(c) /\ ~At(c, "send") /\ ~Reading(c) /\ Continue(c, op[c])
      /\ UNCHANGED <<remote, edits, now, cache, load, request, handle>>
  BY DEF CheckEmpty, At, Reading
<1>2. Right(op[c], remote) /\ Compared(op[c], remote)
  BY <1>1, Here
<1>3. GoesOn(c, After(op[c]))
  BY <1>1, <1>2, LookedRight, Continues DEF At
<1> QED
  BY <1>1, <1>3, StepKeeps

\* A rename that looks at what has become of the source or the target.
LEMMA SameGoneKeeps ==
    ASSUME Base, NEW c \in Clients, Same(c) \/ Gone(c)
    PROVE  Base'
<1> DEFINE p == Place(c)
           o == op[c]
           e == [o EXCEPT !.raced = @ \ {p}]
           R == Range(o.todo)
<1>1. /\ Doing(c) /\ o.todo[1][1] \in {"same", "gone"} /\ ~At(c, "send") /\ ~Reading(c)
      /\ Continue(c, e)
      /\ UNCHANGED <<remote, edits, now, cache, load, request, handle>>
  BY DEF Same, Gone, At, Reading
<1>2. /\ Right(o, remote) /\ o \in Operation /\ Covered(o, R) /\ Shaped(o) /\ Dated(o)
      /\ Moved(o, remote) /\ p \in Paths /\ o.todo[1] = <<o.todo[1][1], p>> /\ o.todo[1] \in R
      /\ \A s \in R : s = o.todo[1] \/ ~Misplaced(o.kind, o.todo[1], s)
  BY <1>1, Here
<1>3. /\ o.todo[1][1] = "same" => p = o.dst /\ remote[o.dst] = o.expect[o.src]
      /\ o.todo[1][1] = "gone" => p = o.src /\ remote[o.src] = Absent
  <2>1. /\ o.todo[1][1] = "same" => p = o.dst
        /\ o.todo[1][1] = "gone" => p = o.src
    BY <1>2 DEF Covered
  <2>2. At(c, "same") => remote[p] = o.expect[o.src]
    BY DEF Same, Gone, At, Fresh, View
  <2>3. At(c, "gone") => remote[p] = Absent
    <3>1. p \in Below(Parent[p])
      BY <1>2 DEF Below
    <3> QED
      BY <3>1 DEF Same, Gone, At, Fresh, View
  <2> QED
    BY <1>1, <2>1, <2>2, <2>3 DEF At
<1>4. /\ e \in Operation /\ e.kind = o.kind /\ e.src = o.src /\ e.dst = o.dst
      /\ e.todo = o.todo /\ e.until = o.until /\ e.oldest = o.oldest
      /\ e.raced = o.raced \ {p} /\ e.expect = o.expect
  BY <1>2 DEF Operation
<1> HIDE DEF e, o, p
<1>5. Shaped(e)
  BY <1>2, <1>4, ExpectShaped
<1>6. ~Some(R, {"send"})
  BY <1>1, <1>2 DEF Some, Misplaced, Final
<1>7. Compared(e, remote)
  BY <1>4, <1>6 DEF Compared
<1>8. Moved(e, remote)
  <2>1. (o.kind = "rename") = (o.src # o.dst)
    BY <1>2 DEF Covered
  <2>2. /\ o.todo[1][1] = "same" => Some(R, {"same"})
        /\ o.todo[1][1] = "gone" => Some(R, {"gone"})
    BY <1>2 DEF Some
  <2> QED
    BY <1>1, <1>2, <1>3, <1>4, <2>1, <2>2 DEF Moved
<1>9. Right(e, remote)
  BY <1>2, <1>4, <1>5, <1>8 DEF Right, Dated
<1>10. After(e) = None \/ (Right(After(e), remote) /\ Compared(After(e), remote))
  <2>1. \A q \in Paths : e.todo[1] \notin {<<"check", q>>, <<"compare", q>>}
    BY <1>1, <1>4
  <2> QED
    BY <1>3, <1>4, <1>7, <1>9, <2>1, NextRight
<1>11. GoesOn(c, After(e))
  BY <1>1, <1>10, Continues
<1> QED
  BY <1>1, <1>11, StepKeeps

-----------------------------------------------------------------------------
(* Requests and their ends *)

LEMMA ConfirmedKeeps ==
    ASSUME Base, NEW c \in Clients, Confirmed(c)
    PROVE  Base'
<1>1. /\ Doing(c) /\ op[c].todo[1][1] = "send" /\ ~Reading(c) /\ Continue(c, op[c])
      /\ request' = [request EXCEPT ![c] = None]
      /\ UNCHANGED <<remote, edits, now, cache, load, handle>>
  BY DEF Confirmed, Waiting, At, Reading
<1>2. Right(op[c], remote)
  BY <1>1, Here
<1>3. \A p \in Paths : op[c].todo[1] \notin {<<"check", p>>, <<"compare", p>>}
  BY <1>1
<1>4. GoesOn(c, After(op[c]))
  BY <1>1, <1>2, <1>3, NextRight, Continues
<1>5. /\ request' = [d \in Clients |-> request'[d]] /\ request'[c] = None
      /\ \A d \in Clients \ {c} : request'[d] = request[d]
  BY <1>1 DEF Base, Typed
<1>6. ~Open(c)'
  BY <1>5 DEF Open
<1>7. /\ Running' /\ Asked' /\ Promised' /\ op' = [d \in Clients |-> op'[d]]
      /\ \A d \in Clients : request'[d] # None => request'[d] \in Request
      /\ \A d \in Clients \ {c} : op'[d] = op[d]
  BY <1>1, <1>4, <1>5, <1>6, Proceeds
<1>8. Loading'
  BY <1>1, <1>7, Unread
<1>9. Typed'
  BY <1>1, <1>5, <1>7 DEF Base, Typed
<1> QED
  BY <1>7, <1>8, <1>9 DEF Base

LEMMA ReturnKeeps ==
    ASSUME Base, NEW c \in Clients, Return(c)
    PROVE  Base'
<1>1. /\ Doing(c) /\ op[c].todo[1][1] = "return" /\ Continue(c, op[c]) /\ Invalidate(c)
      /\ ~At(c, "send") /\ UNCHANGED <<remote, edits, now, request>>
  BY DEF Return, At, InvalidateAfter
<1>2. /\ Right(op[c], remote) /\ Compared(op[c], remote) /\ op[c] \in Operation
  BY <1>1, Here
<1>3. GoesOn(c, After(op[c]))
  BY <1>1, <1>2, LookedRight, Continues
<1>4. request' = [d \in Clients |-> request'[d]] /\ ~Open(c)'
  BY <1>1 DEF Base, Typed, Asked, Open
<1>5. /\ Running' /\ Asked' /\ Promised' /\ op' = [d \in Clients |-> op'[d]]
      /\ \A d \in Clients \ {c} : op'[d] = op[d]
  BY <1>1, <1>3, <1>4, Proceeds
<1>6. /\ Loading' /\ load' = [d \in Clients |-> load'[d]]
      /\ cache' = [k \in Keys |-> cache'[k]] /\ \A k \in Keys : cache'[k] = None
  BY <1>1, <1>5, Detaches
<1>7. /\ handle' = [d \in Clients |-> handle'[d]]
      /\ \A d \in Clients : handle'[d] # None => handle'[d] \in [path : Paths, version : Contents]
  BY <1>2 DEF Return, Base, Typed, Operation
<1>8. Typed'
  BY <1>1, <1>4, <1>5, <1>6, <1>7 DEF Base, Typed
<1> QED
  BY <1>5, <1>6, <1>8 DEF Base

\* A request is sent when each of its paths has been compared.
LEMMA SendKeeps ==
    ASSUME Base, NEW c \in Clients, Send(c)
    PROVE  Base'
<1> DEFINE o == op[c]
           q == [kind |-> o.kind, src |-> o.src, dst |-> o.dst, value |-> o.value,
                 expect |-> o.expect, raced |-> o.raced, applied |-> FALSE, late |-> FALSE]
<1>1. /\ Doing(c) /\ At(c, "send") /\ request[c] = None /\ Invalidate(c)
      /\ request' = [request EXCEPT ![c] = q]
      /\ UNCHANGED <<remote, edits, now, op, handle>>
  BY DEF Send, At
<1>2. /\ Right(o, remote) /\ o \in Operation /\ Covered(o, Range(o.todo))
      /\ o.todo[1] \in Range(o.todo)
      /\ \A s \in Range(o.todo) : s = o.todo[1] \/ ~Misplaced(o.kind, o.todo[1], s)
  BY <1>1, Here
<1>3. Compared(o, remote)
  BY <1>1 DEF Base, Running, Open
<1>4. o.todo[1][1] = "send" /\ o.kind \in Mutations
  BY <1>1, <1>2 DEF At, Covered, Final
<1>5. q \in Request /\ q # None
  <2>1. q \in Request
    BY <1>2, <1>4 DEF Operation, Request
  <2> QED
    BY <2>1, NoneAssumption
<1>6. \A p \in {q.src, q.dst} \ q.raced : remote[p] = q.expect[p]
  <2>1. \A p : <<"check", p>> \notin Range(o.todo) /\ <<"compare", p>> \notin Range(o.todo)
    BY <1>2, <1>4 DEF Misplaced, Final
  <2>2. Some(Range(o.todo), {"send"})
    BY <1>2, <1>4 DEF Some
  <2> QED
    BY <1>3, <2>1, <2>2 DEF Compared
<1> HIDE DEF q
<1>7. /\ request' = [d \in Clients |-> request'[d]] /\ request'[c] = q
      /\ \A d \in Clients \ {c} : request'[d] = request[d]
  BY <1>1 DEF Base, Typed
<1>8. /\ Loading' /\ load' = [d \in Clients |-> load'[d]]
      /\ cache' = [k \in Keys |-> cache'[k]] /\ \A k \in Keys : cache'[k] = None
  BY <1>1, Detaches
<1>9. Typed'
  BY <1>1, <1>5, <1>7, <1>8 DEF Base, Typed
<1>10. Asked'
  BY <1>1, <1>7 DEF Base, Asked, Open, At, Doing
<1>11. Promised'
  <2> SUFFICES ASSUME NEW d \in Clients, request'[d] # None, ~request'[d].applied,
                      NEW p \in {request'[d].src, request'[d].dst} \ request'[d].raced
               PROVE  remote[p] = request'[d].expect[p]
    BY <1>1 DEF Promised
  <2>1. CASE d = c
    BY <1>6, <1>7, <2>1
  <2>2. CASE d # c
    BY <1>7, <2>2 DEF Base, Promised
  <2> QED
    BY <2>1, <2>2
<1>12. Running'
  <2> SUFFICES ASSUME NEW d \in Clients, Doing(d)'
               PROVE  Right(op[d], remote) /\ (~Open(d)' => Compared(op[d], remote))
    BY <1>1 DEF Running
  <2>1. CASE d = c
    BY <1>2, <1>3, <2>1
  <2>2. CASE d # c
    BY <1>1, <1>7, <2>2 DEF Base, Running, Open, Doing
  <2> QED
    BY <2>1, <2>2
<1> QED
  BY <1>8, <1>9, <1>10, <1>11, <1>12 DEF Base

\* An operation that is over leaves nothing of its own.
LEMMA EndKeeps ==
    ASSUME Base, NEW c \in Clients, Doing(c), End(c), UNCHANGED <<remote, edits, now, handle>>,
           \/ UNCHANGED request /\ ~Open(c)
           \/ /\ request[c] # None
              /\ request' = [request EXCEPT ![c] = None]
           \/ /\ request[c] # None /\ ~request[c].applied
              /\ request' = [request EXCEPT ![c] = [@ EXCEPT !.late = TRUE]]
    PROVE  Base'
<1>1. /\ op' = [op EXCEPT ![c] = None]
      /\ Invalidate(c) \/ (load' = [load EXCEPT ![c] = None] /\ UNCHANGED cache)
  BY DEF End, InvalidateAfter
<1>2. /\ op' = [d \in Clients |-> op'[d]] /\ op'[c] = None
      /\ \A d \in Clients \ {c} : op'[d] = op[d]
  BY <1>1 DEF Base, Typed
<1>3. /\ request' = [d \in Clients |-> request'[d]]
      /\ \A d \in Clients \ {c} : request'[d] = request[d]
      /\ \A d \in Clients : request'[d] # None =>
           /\ request'[d] \in Request /\ request[d] # None
           /\ request'[d].src = request[d].src /\ request'[d].dst = request[d].dst
           /\ request'[d].raced = request[d].raced /\ request'[d].expect = request[d].expect
           /\ request'[d].applied = request[d].applied
      /\ ~Open(c)'
  <2>1. CASE UNCHANGED request /\ ~Open(c)
    BY <2>1 DEF Base, Typed, Open
  <2>2. CASE request' = [request EXCEPT ![c] = None]
    BY <2>2 DEF Base, Typed, Open
  <2>3. CASE /\ request[c] # None
             /\ request' = [request EXCEPT ![c] = [@ EXCEPT !.late = TRUE]]
    <3> DEFINE q == [request[c] EXCEPT !.late = TRUE]
    <3>1. /\ q \in Request /\ q.late /\ q.src = request[c].src /\ q.dst = request[c].dst
          /\ q.raced = request[c].raced /\ q.expect = request[c].expect
          /\ q.applied = request[c].applied
      BY <2>3 DEF Base, Typed, Request
    <3>2. request' = [request EXCEPT ![c] = q]
      BY <2>3
    <3> HIDE DEF q
    <3>3. /\ request' = [d \in Clients |-> request'[d]] /\ request'[c] = q
          /\ \A d \in Clients \ {c} : request'[d] = request[d]
      BY <3>2 DEF Base, Typed
    <3> QED
      BY <2>3, <3>1, <3>3 DEF Base, Typed, Open
  <2> QED
    BY <2>1, <2>2, <2>3
<1>4. /\ Loading' /\ load' = [d \in Clients |-> load'[d]]
      /\ cache' = [k \in Keys |-> cache'[k]]
      /\ \A k \in Keys : cache'[k] # None => cache'[k] \in Obs(k)
  <2>1. CASE Invalidate(c)
    BY <1>2, <2>1, Detaches
  <2>2. CASE load' = [load EXCEPT ![c] = None] /\ UNCHANGED cache
    <3>1. ASSUME NEW d \in Clients \ {c}
          PROVE  (Reading(d)' <=> Reading(d)) /\ Key(d)' = Key(d) /\ load'[d] = load[d]
      BY <1>2, <2>2 DEF Reading, Key, Doing, At, Place, Base, Typed
    <3>2. load'[c] = None /\ load' = [d \in Clients |-> load'[d]]
      BY <2>2 DEF Base, Typed
    <3> QED
      BY <2>2, <3>1, <3>2 DEF Loading, Base, Typed
  <2> QED
    BY <1>1, <2>1, <2>2
<1>5. Typed'
  <2>1. remote' \in [Paths -> Files] /\ now' \in Nat
    BY DEF Base, Typed
  <2>2. /\ handle' = [d \in Clients |-> handle'[d]]
        /\ \A d \in Clients : handle'[d] # None => handle'[d] \in [path : Paths, version : Contents]
    BY DEF Base, Typed
  <2> QED
    BY <1>2, <1>3, <1>4, <2>1, <2>2 DEF Typed, Obs, Values
<1>6. Asked'
  BY <1>2, <1>3 DEF Base, Asked, Open, At, Doing
<1>7. Promised'
  BY <1>3 DEF Base, Promised
<1>8. Running'
  BY <1>2, <1>3 DEF Base, Running, Open, Doing
<1> QED
  BY <1>4, <1>5, <1>6, <1>7, <1>8 DEF Base

LEMMA FailKeeps ==
    ASSUME Base, NEW c \in Clients, Fail(c)
    PROVE  Base'
<1>1. ~Open(c)
  BY DEF Fail, Waiting, Base, Asked, Open
<1> QED
  BY <1>1, EndKeeps DEF Fail

LEMMA RefusedKeeps ==
    ASSUME Base, NEW c \in Clients, NEW late \in BOOLEAN, Refused(c, late)
    PROVE  Base'
<1>1. Doing(c) /\ request[c] # None /\ End(c) /\ UNCHANGED <<remote, edits, now, handle>>
  BY DEF Refused, Waiting, At
<1>2. CASE late
  BY <1>1, <1>2, EndKeeps DEF Refused
<1>3. CASE ~late
  BY <1>1, <1>3, EndKeeps DEF Refused
<1> QED
  BY <1>2, <1>3

-----------------------------------------------------------------------------
(* Beginning *)

\* What sends a request looks at its paths first.
LEMMA ProgramChecks ==
    ASSUME NEW kind \in Kinds, NEW p \in Paths, NEW q \in Paths, kind # "rename" => p = q,
           Some(Range(Program(kind, p, q)), {"send"})
    PROVE  \A r \in {p, q} : <<"check", r>> \in Range(Program(kind, p, q))
<1>1. CASE kind = "stat"
  BY <1>1 DEF Program, Stat, Range, Some
<1>2. CASE kind = "list" /\ Parent[p] = Root
  BY <1>2 DEF Program, Range, Some
<1>3. CASE kind = "list" /\ Parent[p] # Root
  BY <1>3 DEF Program, Range, Some
<1>4. CASE kind \in {"open", "write"}
  BY <1>4 DEF Program, Version, Range, Some
<1>5. CASE kind \in {"create", "remove"}
  <2>1. Program(kind, p, q) = Replace(p) /\ p = q
    BY <1>5 DEF Program
  <2>2. <<"check", p>> \in Range(Replace(p))
    BY DEF Replace, Range
  <2> QED
    BY <2>1, <2>2
<1>6. CASE kind = "save"
  BY <1>6 DEF Program, Range, Some
<1>7. CASE kind = "mkdir"
  BY <1>7 DEF Program, Range, Some
<1>8. CASE kind = "rmdir"
  BY <1>8 DEF Program, Range, Some
<1>9. CASE kind = "rename"
  BY <1>9 DEF Program, Rename, Range, Some
<1> QED
  BY <1>1, <1>2, <1>3, <1>4, <1>5, <1>6, <1>7, <1>8, <1>9 DEF Kinds, Mutations

LEMMA BeginKeeps ==
    ASSUME Base, NEW c \in Clients, NEW kind \in Kinds, NEW p \in Paths, NEW q \in Paths,
           NEW v \in Contents, Begin(c, kind, p, q, v)
    PROVE  Base'
<1> DEFINE x == [kind |-> kind, src |-> p, dst |-> q, value |-> v,
                 todo |-> Program(kind, p, q),
                 expect |-> [r \in Paths |-> IF kind = "save" THEN handle[c].version
                                             ELSE Absent],
                 found |-> None, until |-> None, oldest |-> None, raced |-> {}]
           R == Range(x.todo)
<1>1. /\ ~Doing(c) /\ (kind = "rename") = (p # q)
      /\ kind = "save" => handle[c] # None
      /\ op' = [op EXCEPT ![c] = x]
      /\ UNCHANGED <<remote, edits, now, cache, load, request, handle>>
  BY DEF Begin
<1>2. x \in Operation
  <2>1. Program(kind, p, q) \in Seq(Steps)
    BY ProgramTyped
  <2>2. kind = "save" => handle[c].version \in Contents
    BY <1>1 DEF Base, Typed
  <2>3. [r \in Paths |-> IF kind = "save" THEN handle[c].version ELSE Absent] \in [Paths -> Files]
    BY <2>2 DEF Files
  <2> QED
    BY <2>1, <2>3 DEF Operation
<1>3. /\ x.kind = kind /\ x.src = p /\ x.dst = q /\ x.todo = Program(kind, p, q)
      /\ x.until = None /\ x.oldest = None
      /\ kind # "save" => \A r \in Paths : x.expect[r] = Absent
  OBVIOUS
<1> HIDE DEF x
<1>4. Covered(x, R)
  BY <1>1, <1>3, ProgramCovers
<1>5. Shaped(x)
  <2>1. x.todo # << >>
    BY <1>3, ProgramTyped
  <2>2. Ordered(x.kind, x.todo) /\ Linked(x.todo)
    BY <1>1, <1>3, ProgramOrdered
  <2> QED
    BY <1>2, <1>4, <2>1, <2>2 DEF Shaped
<1>6. Compared(x, remote)
  <2>1. Some(R, {"send"}) => \A r \in {p, q} : <<"check", r>> \in R
    BY <1>1, <1>3, ProgramChecks
  <2> QED
    BY <1>3, <2>1 DEF Compared
<1>7. Moved(x, remote)
  <2>1. x.kind = "rename" => Some(R, {"same"}) /\ Some(R, {"gone"})
    <3>1. x.kind = "rename" => <<"same", q>> \in R /\ <<"gone", p>> \in R
      BY <1>3 DEF Program, Rename, Range
    <3> QED
      BY <3>1 DEF Some
  <2> QED
    BY <2>1 DEF Moved
<1>8. GoesOn(c, x)
  BY <1>1, <1>3, <1>5, <1>6, <1>7 DEF GoesOn, Right, Dated
<1>9. ~At(c, "send") /\ ~Reading(c)
  BY <1>1 DEF At, Reading
<1> QED
  BY <1>1, <1>8, <1>9, StepKeeps

-----------------------------------------------------------------------------
(* What clients do besides, and others *)

LEMMA LoadKeeps ==
    ASSUME Base, NEW c \in Clients, Load(c)
    PROVE  Base'
<1> DEFINE k == Key(c)
           x == [key |-> k, attached |-> TRUE,
                 obs |-> [value |-> View(k), at |-> now, behind |-> FALSE]]
<1>1. /\ Reading(c) /\ Answered(k) /\ load' = [load EXCEPT ![c] = x]
      /\ UNCHANGED <<remote, edits, now, cache, op, request, handle>>
  BY DEF Load
<1>2. View(k) \in Values(k)
  <2>1. CASE k[1] = "listing"
    <3>1. View(k) = [p \in Below(k[2]) |-> remote[p]]
      BY <2>1 DEF View
    <3>2. Below(k[2]) \subseteq Paths
      BY DEF Below
    <3> QED
      BY <2>1, <3>1, <3>2 DEF Values, Base, Typed
  <2>2. CASE k[1] # "listing"
    BY <1>1, <2>2 DEF View, Answered, Values
  <2> QED
    BY <2>1, <2>2
<1>3. x \in LoadOf(k)
  BY <1>2 DEF LoadOf, Obs, Base, Typed
<1> HIDE DEF x
<1>4. /\ load' = [d \in Clients |-> load'[d]] /\ load'[c] = x
      /\ \A d \in Clients \ {c} : load'[d] = load[d]
  BY <1>1 DEF Base, Typed
<1>5. Loading'
  <2>1. \A d \in Clients : (Reading(d)' <=> Reading(d)) /\ Key(d)' = Key(d)
    BY <1>1 DEF Reading, Key, Doing, At, Place
  <2> QED
    BY <1>1, <1>3, <1>4, <2>1 DEF Base, Loading
<1>6. Typed'
  BY <1>1, <1>4 DEF Base, Typed
<1>7. Asked' /\ Promised' /\ Running'
  BY <1>1 DEF Base, Asked, Promised, Running, Open, At, Doing
<1> QED
  BY <1>5, <1>6, <1>7 DEF Base

LEMMA DropKeeps ==
    ASSUME Base, NEW c \in Clients, Drop(c)
    PROVE  Base'
<1>1. /\ request[c] # None /\ request[c].late /\ request' = [request EXCEPT ![c] = None]
      /\ UNCHANGED <<remote, edits, now, cache, load, op, handle>>
  BY DEF Drop
<1>2. /\ request' = [d \in Clients |-> request'[d]] /\ request'[c] = None
      /\ \A d \in Clients \ {c} : request'[d] = request[d]
  BY <1>1 DEF Base, Typed
<1>3. \A d \in Clients : Open(d)' <=> Open(d)
  BY <1>1, <1>2 DEF Open
<1>4. Loading'
  BY <1>1 DEF Base, Loading, Reading, Key, Doing, At, Place
<1>5. Typed' /\ Promised'
  BY <1>1, <1>2 DEF Base, Typed, Promised
<1>6. Asked' /\ Running'
  BY <1>1, <1>3 DEF Base, Asked, Running, At, Doing
<1> QED
  BY <1>4, <1>5, <1>6 DEF Base

LEMMA CloseKeeps ==
    ASSUME Base, NEW c \in Clients, Close(c)
    PROVE  Base'
<1>1. /\ handle' = [handle EXCEPT ![c] = None]
      /\ UNCHANGED <<remote, edits, now, cache, load, op, request>>
  BY DEF Close
<1>2. Typed'
  BY <1>1 DEF Base, Typed
<1>3. Loading'
  BY <1>1 DEF Base, Loading, Reading, Key, Doing, At, Place
<1>4. Asked' /\ Promised' /\ Running'
  BY <1>1 DEF Base, Asked, Promised, Running, Open, At, Doing
<1> QED
  BY <1>2, <1>3, <1>4 DEF Base

LEMMA TickKeeps ==
    ASSUME Base, Tick
    PROVE  Base'
<1>1. /\ now' = now + 1
      /\ cache' = [k \in Keys |-> IF cache[k] # None /\ now + 1 >= cache[k].at + TTL(k)
                                    THEN None ELSE cache[k]]
      /\ UNCHANGED <<remote, edits, load, op, request, handle>>
  BY DEF Tick
<1>2. /\ cache' = [k \in Keys |-> cache'[k]]
      /\ \A k \in Keys : cache'[k] # None => cache'[k] = cache[k]
  BY <1>1
<1>3. Typed'
  BY <1>1, <1>2 DEF Base, Typed
<1>4. Loading'
  BY <1>1 DEF Base, Loading, Reading, Key, Doing, At, Place
<1>5. Asked' /\ Promised' /\ Running'
  BY <1>1 DEF Base, Asked, Promised, Running, Open, At, Doing
<1> QED
  BY <1>3, <1>4, <1>5 DEF Base

\* A request to which somebody else's changes have been added.
LEMMA RacedRequest ==
    ASSUME NEW r \in Request, NEW P \in SUBSET Paths
    PROVE  LET q == Raced(r, P)
           IN  /\ q \in Request /\ q # None /\ q.src = r.src /\ q.dst = r.dst /\ q.kind = r.kind
               /\ q.expect = r.expect /\ q.applied = r.applied /\ q.late = r.late
               /\ q.raced = r.raced \cup (P \cap {r.src, r.dst})
<1>1. r # None /\ r.kind \in Mutations
  BY NoneAssumption DEF Request
<1>2. Raced(r, P) = [r EXCEPT !.raced = @ \cup (P \cap {r.src, r.dst})]
  BY <1>1 DEF Raced
<1>3. Raced(r, P) \in Request
  BY <1>2 DEF Request
<1> QED
  BY <1>2, <1>3, NoneAssumption DEF Request

\* Changes by somebody else leave the operations as they are, but for what
\* they know.
LEMMA Races ==
    ASSUME Base, NEW P \in SUBSET Paths, \A p \in Paths \ P : remote'[p] = remote[p],
           \A d \in Clients : op'[d] = Raced(op[d], P) \/ (op'[d] = op[d] /\ Open(d)'),
           \A d \in Clients :
              \/ request'[d] = Raced(request[d], P)
              \/ request'[d] = None
              \/ request'[d] = [request[d] EXCEPT !.applied = TRUE] /\ request[d] # None,
           \A d \in Clients : Open(d)' <=> Open(d)
    PROVE  /\ Running' /\ Asked' /\ Promised'
           /\ \A d \in Clients : request'[d] # None => request'[d] \in Request
           /\ \A d \in Clients : (Reading(d)' <=> Reading(d)) /\ Key(d)' = Key(d)
           /\ \A d \in Clients, s \in Labels : At(d, s)' <=> At(d, s)
<1>1. ASSUME NEW d \in Clients
      PROVE  (Doing(d)' <=> Doing(d)) /\ (Doing(d) => op'[d].todo = op[d].todo)
  <2>1. CASE Doing(d)
    <3>1. Right(op[d], remote)
      BY <2>1, Here
    <3> QED
      BY <2>1, <3>1, RacedRight DEF Doing
  <2>2. CASE ~Doing(d)
    BY <2>2 DEF Doing, Raced
  <2> QED
    BY <2>1, <2>2
<1>2. ASSUME NEW d \in Clients
      PROVE  /\ (Reading(d)' <=> Reading(d)) /\ Key(d)' = Key(d)
             /\ \A s \in Labels : At(d, s)' <=> At(d, s)
  <2>1. CASE Doing(d)
    BY <1>1, <2>1 DEF Reading, Key, At, Place
  <2>2. CASE ~Doing(d)
    <3>1. op'[d] = op[d]
      BY <1>1, <2>2 DEF Doing
    <3> QED
      BY <1>1, <2>2, <3>1 DEF Reading, Key, At, Place
  <2> QED
    BY <2>1, <2>2
<1>3. Running'
  <2> SUFFICES ASSUME NEW d \in Clients, Doing(d)'
               PROVE  Right(op'[d], remote') /\ (~Open(d)' => Compared(op'[d], remote'))
    BY DEF Running
  <2>1. /\ Right(op[d], remote) /\ Shaped(op[d]) /\ Dated(op[d])
        /\ Covered(op[d], Range(op[d].todo))
        /\ op[d].todo[1] \in Range(op[d].todo)
        /\ ~Open(d) => Compared(op[d], remote)
    BY <1>1, Here DEF Base, Running
  <2>2. CASE op'[d] = Raced(op[d], P)
    <3>1. /\ Right(Raced(op[d], P), remote')
          /\ Compared(op[d], remote) => Compared(Raced(op[d], P), remote')
      BY <2>1, RacedRight
    <3> QED
      BY <2>1, <2>2, <3>1
  <2>3. CASE op'[d] = op[d] /\ Open(d)'
    <3>1. op[d].todo[1][1] = "send"
      BY <2>3 DEF Base, Asked, At
    <3>2. op[d].kind = "rename" => Some(Range(op[d].todo), {"same"}) /\ Some(Range(op[d].todo), {"gone"})
      BY <2>1, <3>1 DEF Covered, Some
    <3>3. Moved(op[d], remote')
      BY <3>2 DEF Moved
    <3> QED
      BY <2>1, <2>3, <3>3 DEF Right
  <2> QED
    BY <2>2, <2>3
<1>4. Asked'
  BY <1>2 DEF Base, Asked, Labels
<1>5. ASSUME NEW d \in Clients, request'[d] # None
      PROVE  /\ request'[d] \in Request
             /\ ~request'[d].applied => \A p \in {request'[d].src, request'[d].dst} \ request'[d].raced :
                    remote'[p] = request'[d].expect[p]
  <2>1. request[d] # None /\ request[d] \in Request
    BY <1>5 DEF Base, Typed, Raced
  <2>2. CASE request'[d] = Raced(request[d], P)
    <3> DEFINE q == Raced(request[d], P)
    <3>1. /\ q \in Request /\ q.src = request[d].src /\ q.dst = request[d].dst
          /\ q.expect = request[d].expect /\ q.applied = request[d].applied
          /\ q.raced = request[d].raced \cup (P \cap {request[d].src, request[d].dst})
      BY <2>1, RacedRequest
    <3> HIDE DEF q
    <3>2. request'[d] = q
      BY <2>2 DEF q
    <3>3. ASSUME ~q.applied, NEW p \in {q.src, q.dst} \ q.raced
          PROVE  remote'[p] = q.expect[p]
      <4>1. p \in {request[d].src, request[d].dst} \ request[d].raced /\ p \notin P /\ p \in Paths
        BY <2>1, <3>1, <3>3 DEF Request
      <4>2. remote[p] = request[d].expect[p]
        BY <2>1, <3>1, <3>3, <4>1 DEF Base, Promised
      <4> QED
        BY <3>1, <4>1, <4>2
    <3> QED
      BY <3>1, <3>2, <3>3
  <2>3. CASE request'[d] = [request[d] EXCEPT !.applied = TRUE]
    BY <2>1, <2>3 DEF Request
  <2> QED
    BY <1>5, <2>2, <2>3
<1>6. Promised'
  BY <1>5 DEF Promised
<1> QED
  BY <1>2, <1>3, <1>4, <1>5, <1>6

\* What a request changes is what it is about.
LEMMA EffectsTyped ==
    ASSUME Base, NEW r \in Request, NEW s \in Effects(r)
    PROVE  s \in [Paths -> Files] /\ \A p \in Paths \ {r.src, r.dst} : s[p] = remote[p]
<1> DEFINE p == r.src
           q == r.dst
<1>1. /\ p \in Paths /\ q \in Paths /\ r.kind \in Mutations /\ r.value \in Contents
      /\ remote \in [Paths -> Files]
  BY DEF Request, Base, Typed
<1>2. /\ \A v \in Files : [remote EXCEPT ![p] = v] \in [Paths -> Files]
      /\ \A v : \A t \in Paths \ {p, q} : [remote EXCEPT ![p] = v][t] = remote[t]
  BY <1>1
<1>3. r.value \in Files /\ Absent \in Files /\ Dir \in Files /\ remote[p] \in Files
  BY <1>1 DEF Files
<1>4. CASE r.kind = "rename"
  <2>1. s \in {[remote EXCEPT ![q] = remote[p]], [remote EXCEPT ![p] = Absent, ![q] = remote[p]]}
    BY <1>4 DEF Effects
  <2> QED
    BY <1>1, <1>3, <2>1
<1>5. CASE r.kind # "rename"
  <2>1. \E v \in Files : s = [remote EXCEPT ![p] = v]
    BY <1>1, <1>3, <1>5 DEF Effects, Mutations
  <2> QED
    BY <1>2, <2>1
<1> QED
  BY <1>4, <1>5

LEMMA ApplyKeeps ==
    ASSUME Base, NEW c \in Clients, Apply(c)
    PROVE  Base'
<1> DEFINE r == request[c]
<1>1. /\ r # None /\ ~r.applied /\ remote' \in Effects(r) /\ r \in Request
      /\ op' = [d \in Clients |->
              IF d = c /\ ~r.late THEN op[c] ELSE Raced(op[d], Changed)]
      /\ request' = [d \in Clients |->
              IF d # c THEN Raced(request[d], Changed)
              ELSE IF r.late THEN None ELSE [r EXCEPT !.applied = TRUE]]
      /\ cache' = [k \in Keys |->
              IF cache[k] # None /\ Touched(k) /\ ~r.late
                THEN [cache[k] EXCEPT !.behind = TRUE] ELSE cache[k]]
      /\ load' = [d \in Clients |->
              IF load[d] # None /\ Touched(load[d].key) /\ ~r.late
                THEN [load[d] EXCEPT !.obs.behind = TRUE] ELSE load[d]]
      /\ UNCHANGED <<edits, now, handle>>
  BY DEF Apply, Base, Typed
<1>2. remote' \in [Paths -> Files]
  BY <1>1, EffectsTyped
<1>3. Changed \in SUBSET Paths /\ \A p \in Paths \ Changed : remote'[p] = remote[p]
  BY DEF Changed
<1>4. \A d \in Clients : Open(d)' <=> Open(d)
  <2> SUFFICES ASSUME NEW d \in Clients PROVE Open(d)' <=> Open(d)
    OBVIOUS
  <2>1. CASE d # c
    <3>1. request'[d] = Raced(request[d], Changed)
      BY <1>1, <2>1
    <3>2. CASE request[d] = None
      BY <3>1, <3>2 DEF Open, Raced
    <3>3. CASE request[d] # None
      <4>1. request[d] \in Request
        BY <3>3 DEF Base, Typed
      <4>2. Raced(request[d], Changed) # None /\ Raced(request[d], Changed).late = request[d].late
        BY <1>3, <4>1, RacedRequest
      <4> QED
        BY <3>1, <3>3, <4>2 DEF Open
    <3> QED
      BY <3>2, <3>3
  <2>2. CASE d = c
    <3>1. CASE r.late
      BY <1>1, <2>2, <3>1 DEF Open
    <3>2. CASE ~r.late
      <4>1. request'[c] = [r EXCEPT !.applied = TRUE]
        BY <1>1, <3>2
      <4>2. [r EXCEPT !.applied = TRUE] \in Request /\ ~[r EXCEPT !.applied = TRUE].late
        BY <1>1, <3>2 DEF Request
      <4>3. [r EXCEPT !.applied = TRUE] # None
        BY <4>2, NoneAssumption
      <4> QED
        BY <1>1, <2>2, <3>2, <4>1, <4>2, <4>3 DEF Open
    <3> QED
      BY <3>1, <3>2
  <2> QED
    BY <2>1, <2>2
<1>5. \A d \in Clients : op'[d] = Raced(op[d], Changed) \/ (op'[d] = op[d] /\ Open(d)')
  BY <1>1, <1>4 DEF Open
<1>6. \A d \in Clients :
         \/ request'[d] = Raced(request[d], Changed)
         \/ request'[d] = None
         \/ request'[d] = [request[d] EXCEPT !.applied = TRUE] /\ request[d] # None
  BY <1>1
<1>7. /\ Running' /\ Asked' /\ Promised'
      /\ \A d \in Clients : request'[d] # None => request'[d] \in Request
      /\ \A d \in Clients : (Reading(d)' <=> Reading(d)) /\ Key(d)' = Key(d)
  BY <1>3, <1>4, <1>5, <1>6, Races
<1>8. /\ cache' = [k \in Keys |-> cache'[k]]
      /\ \A k \in Keys : cache'[k] # None => cache'[k] \in Obs(k)
  <2>1. \A k \in Keys : cache[k] # None => [cache[k] EXCEPT !.behind = TRUE] \in Obs(k)
    BY DEF Base, Typed, Obs
  <2> QED
    BY <1>1, <2>1 DEF Base, Typed
<1>9. Loading' /\ load' = [d \in Clients |-> load'[d]]
  <2>1. ASSUME NEW d \in Clients, load[d] # None
        PROVE  [load[d] EXCEPT !.obs.behind = TRUE] \in LoadOf(Key(d))
    <3>1. load[d] \in LoadOf(Key(d))
      BY <2>1 DEF Base, Loading
    <3> QED
      BY <3>1 DEF LoadOf, Obs
  <2>2. ASSUME NEW d \in Clients, load'[d] # None
        PROVE  Reading(d) /\ load'[d] \in LoadOf(Key(d))
    <3>1. load[d] # None
      BY <1>1, <2>2
    <3>2. Reading(d) /\ load[d] \in LoadOf(Key(d))
      BY <3>1 DEF Base, Loading
    <3>3. load'[d] \in {load[d], [load[d] EXCEPT !.obs.behind = TRUE]}
      BY <1>1
    <3> QED
      BY <2>1, <3>1, <3>2, <3>3
  <2>3. Loading'
    BY <1>7, <2>2 DEF Loading
  <2> QED
    BY <1>1, <2>3
<1>10. Typed'
  <2>1. /\ op' = [d \in Clients |-> op'[d]] /\ request' = [d \in Clients |-> request'[d]]
        /\ load' = [d \in Clients |-> load'[d]]
    BY <1>1
  <2> QED
    BY <1>1, <1>2, <1>7, <1>8, <2>1 DEF Base, Typed, Obs, Values
<1> QED
  BY <1>7, <1>9, <1>10 DEF Base

LEMMA EditKeeps ==
    ASSUME Base, NEW p \in Paths, NEW v \in Contents \cup {Absent}, Edit(p, v)
    PROVE  Base'
<1>1. /\ remote' = [remote EXCEPT ![p] = v]
      /\ op' = [c \in Clients |-> Raced(op[c], {p})]
      /\ request' = [c \in Clients |-> Raced(request[c], {p})]
      /\ UNCHANGED <<now, cache, load, handle>>
  BY DEF Edit
<1>2. remote' \in [Paths -> Files] /\ \A q \in Paths \ {p} : remote'[q] = remote[q]
  BY <1>1 DEF Base, Typed, Files
<1>3. \A d \in Clients : Open(d)' <=> Open(d)
  <2> SUFFICES ASSUME NEW d \in Clients PROVE Open(d)' <=> Open(d)
    OBVIOUS
  <2>1. request'[d] = Raced(request[d], {p})
    BY <1>1
  <2>2. CASE request[d] = None
    BY <2>1, <2>2 DEF Open, Raced
  <2>3. CASE request[d] # None
    <3>1. request[d] \in Request
      BY <2>3 DEF Base, Typed
    <3>2. Raced(request[d], {p}) # None /\ Raced(request[d], {p}).late = request[d].late
      BY <3>1, RacedRequest
    <3> QED
      BY <2>1, <2>3, <3>2 DEF Open
  <2> QED
    BY <2>2, <2>3
<1>4. /\ \A d \in Clients : op'[d] = Raced(op[d], {p})
      /\ \A d \in Clients : request'[d] = Raced(request[d], {p})
  BY <1>1
<1>5. /\ Running' /\ Asked' /\ Promised'
      /\ \A d \in Clients : request'[d] # None => request'[d] \in Request
      /\ \A d \in Clients : (Reading(d)' <=> Reading(d)) /\ Key(d)' = Key(d)
  BY <1>2, <1>3, <1>4, Races
<1>6. Loading'
  BY <1>1, <1>5 DEF Base, Loading
<1>7. Typed'
  <2>1. op' = [d \in Clients |-> op'[d]] /\ request' = [d \in Clients |-> request'[d]]
    BY <1>1
  <2> QED
    BY <1>1, <1>2, <1>5, <2>1 DEF Base, Typed
<1> QED
  BY <1>5, <1>6, <1>7 DEF Base

-----------------------------------------------------------------------------
(* Theorems *)

LEMMA InitBase == Init => Base
<1> SUFFICES ASSUME Init PROVE Base
  OBVIOUS
<1>1. Typed
  <2>1. remote \in [Paths -> Files]
    BY ResourcesAssumption DEF Init, Files
  <2>2. \A k \in Keys : cache[k] = None
    BY DEF Init
  <2>3. \A c \in Clients : op[c] = None /\ request[c] = None /\ handle[c] = None
    BY DEF Init
  <2> QED
    BY <2>1, <2>2, <2>3 DEF Init, Typed
<1>2. Loading /\ Asked /\ Promised /\ Running
  BY DEF Init, Loading, Asked, Promised, Running, Open, Doing
<1> QED
  BY <1>1, <1>2 DEF Base

LEMMA NextBase == Base /\ [Next]_vars => Base'
<1> SUFFICES ASSUME Base, [Next]_vars PROVE Base'
  OBVIOUS
<1>1. CASE UNCHANGED vars
  <2>1. Typed'
    BY <1>1 DEF vars, Base, Typed
  <2>2. Loading'
    BY <1>1 DEF vars, Base, Loading, Reading, Key, Doing, At, Place
  <2>3. Asked' /\ Promised' /\ Running'
    BY <1>1 DEF vars, Base, Asked, Promised, Running, Open, At, Doing
  <2> QED
    BY <2>1, <2>2, <2>3 DEF Base
<1>2. CASE Tick
  BY <1>2, TickKeeps
<1>3. CASE \E p \in Paths, v \in Contents \cup {Absent} : Edit(p, v)
  BY <1>3, EditKeeps
<1>4. ASSUME NEW c \in Clients, \E kind \in Kinds, p, q \in Paths, v \in Contents : Begin(c, kind, p, q, v)
      PROVE  Base'
  BY <1>4, BeginKeeps
<1>5. ASSUME NEW c \in Clients,
             Fail(c) \/ Load(c) \/ MetaKnown(c) \/ Done(c) \/ Check(c) \/ CompareVersion(c) \/ CheckEmpty(c)
      PROVE  Base'
  BY <1>5, FailKeeps, LoadKeeps, MetaKnownKeeps, CheckKeeps, CompareVersionKeeps, CheckEmptyKeeps
<1>6. ASSUME NEW c \in Clients, NEW obs \in Available(c),
             Look(c, obs) \/ LookDir(c, obs) \/ List(c, obs) \/ Meta(c, obs) \/ Snap(c, obs)
      PROVE  Base'
  BY <1>6, LookKeeps, LookDirKeeps, ListKeeps, MetaKeeps, SnapKeeps
<1>7. ASSUME NEW c \in Clients, Send(c) \/ Apply(c) \/ Confirmed(c) \/ Drop(c)
      PROVE  Base'
  BY <1>7, SendKeeps, ApplyKeeps, ConfirmedKeeps, DropKeeps
<1>8. ASSUME NEW c \in Clients, \E late \in BOOLEAN : Refused(c, late)
      PROVE  Base'
  BY <1>8, RefusedKeeps
<1>9. ASSUME NEW c \in Clients, Same(c) \/ Gone(c) \/ Return(c) \/ Close(c)
      PROVE  Base'
  BY <1>9, SameGoneKeeps, ReturnKeeps, CloseKeeps
<1> QED
  BY <1>1, <1>2, <1>3, <1>4, <1>5, <1>6, <1>7, <1>8, <1>9 DEF Next

\* What an operation has yet to do is in order and complete, and what it has
\* found is still so but for the changes of others.
THEOREM StepsHold == Spec => []Base
BY InitBase, NextBase, PTL DEF Spec

\* capObservation: attributes are not used longer than attributes may be from
\* the oldest of the requests that they were put together from.
THEOREM DeadlinesHonest == Spec => []HonestDeadlines
<1>1. Attr \in Nat
  BY ResourcesAssumption
<1>2. Base => HonestDeadlines
  BY <1>1 DEF Base, Running, Right, Dated, HonestDeadlines
<1> QED
  BY <1>2, StepsHold, PTL

\* Rename reports no move that has not happened: both checks of
\* read-after-rename lie between the request and the return.
THEOREM RenamesHappened == Spec => []RenameHappened
<1>1. Base => RenameHappened
  <2> SUFFICES ASSUME Base, NEW c \in Clients, At(c, "return"), op[c].kind = "rename"
               PROVE  /\ op[c].dst \notin op[c].raced => remote[op[c].dst] = op[c].expect[op[c].src]
                      /\ op[c].src \notin op[c].raced => remote[op[c].src] = Absent
    BY DEF RenameHappened
  <2>1. /\ Moved(op[c], remote) /\ op[c].todo[1] \in Range(op[c].todo)
        /\ op[c].todo[1][1] = "return"
        /\ \A s \in Range(op[c].todo) :
             s = op[c].todo[1] \/ ~Misplaced(op[c].kind, op[c].todo[1], s)
    BY Here DEF At
  <2>2. /\ Some(Range(op[c].todo), {"return"})
        /\ ~Some(Range(op[c].todo), {"same"}) /\ ~Some(Range(op[c].todo), {"gone"})
    BY <2>1 DEF Some, Misplaced
  <2> QED
    BY <2>1, <2>2 DEF Moved
<1> QED
  BY <1>1, StepsHold, PTL

\* Only an application of a request, and another client of the service,
\* change a file.
LEMMA WhoChanges ==
    ASSUME Base, [Next]_vars, Changed # {}
    PROVE  \/ \E c \in Clients : Apply(c)
           \/ \E p \in Paths, v \in Contents \cup {Absent} : Edit(p, v)
<1>1. remote' # remote
  BY DEF Changed
<1>2. Tick => remote' = remote
  BY DEF Tick
<1>3. ASSUME NEW c \in Clients, NEW obs,
             Look(c, obs) \/ LookDir(c, obs) \/ List(c, obs) \/ Meta(c, obs) \/ Snap(c, obs)
      PROVE  remote' = remote
  BY <1>3 DEF Look, LookDir, List, Meta, Snap, Deliver
<1>4. ASSUME NEW c \in Clients,
             \/ \E kind \in Kinds, p, q \in Paths, v \in Contents : Begin(c, kind, p, q, v)
             \/ Fail(c) \/ Load(c) \/ MetaKnown(c) \/ Done(c)
             \/ Check(c) \/ CompareVersion(c) \/ CheckEmpty(c)
      PROVE  remote' = remote
  BY <1>4 DEF Begin, Fail, Load, MetaKnown, Done, Check, CompareVersion, CheckEmpty
<1>5. ASSUME NEW c \in Clients,
             \/ Send(c) \/ Confirmed(c) \/ Drop(c) \/ \E late \in BOOLEAN : Refused(c, late)
             \/ Same(c) \/ Gone(c) \/ Return(c) \/ Close(c)
      PROVE  remote' = remote
  BY <1>5 DEF Send, Confirmed, Drop, Refused, Same, Gone, Return, Close
<1>6. UNCHANGED vars => remote' = remote
  BY DEF vars
<1> QED
  BY <1>1, <1>2, <1>3, <1>4, <1>5, <1>6 DEF Next

\* Put, Mkdir, Remove and Rename: a path that a request changes was as its
\* caller knew it, or somebody else has changed it since the fresh look.
THEOREM NothingUnseenIsOverwritten == Spec => OverwritesCompared
<1>1. ASSUME Base, [Next]_vars, NEW c \in Clients, request[c] # None, ~request[c].applied,
             request'[c] = None \/ request'[c].applied,
             NEW p \in Changed \ request[c].raced
      PROVE  remote[p] = request[c].expect[p]
  <2>1. request[c] \in Request
    BY <1>1 DEF Base, Typed
  <2>2. p \in Paths /\ remote'[p] # remote[p]
    BY <1>1 DEF Changed
  <2>3. \A P \in SUBSET Paths : request'[c] # Raced(request[c], P)
    <3> SUFFICES ASSUME NEW P \in SUBSET Paths, request'[c] = Raced(request[c], P) PROVE FALSE
      OBVIOUS
    <3>1. Raced(request[c], P) # None /\ Raced(request[c], P).applied = request[c].applied
      BY <2>1, RacedRequest
    <3> QED
      BY <1>1, <3>1
  <2>4. CASE \E q \in Paths, v \in Contents \cup {Absent} : Edit(q, v)
    BY <2>3, <2>4 DEF Edit
  <2>5. ASSUME NEW d \in Clients, Apply(d)
        PROVE  remote[p] = request[c].expect[p]
    <3>1. d = c
      <4>1. d # c => request'[c] = Raced(request[c], Changed)
        BY <2>5 DEF Apply
      <4>2. Changed \in SUBSET Paths
        BY DEF Changed
      <4> QED
        BY <2>3, <4>1, <4>2
    <3>2. remote' \in Effects(request[c])
      BY <2>5, <3>1 DEF Apply
    <3>3. p \in {request[c].src, request[c].dst}
      BY <1>1, <2>1, <2>2, <3>2, EffectsTyped
    <3> QED
      BY <1>1, <3>3 DEF Base, Promised
  <2> QED
    BY <1>1, <2>4, <2>5, WhoChanges
<1>2. Base /\ [Next]_vars =>
        [\A c \in Clients :
           (request[c] # None /\ ~request[c].applied
              /\ (request'[c] = None \/ request'[c].applied))
             => \A p \in Changed \ request[c].raced : remote[p] = request[c].expect[p]]_vars
  BY <1>1
<1> QED
  BY <1>2, StepsHold, PTL DEF Spec, OverwritesCompared

-----------------------------------------------------------------------------
(* What a mutation leaves in the caches *)

\* Something from before a mutation of this mount is retained, or will be.
Stale ==
    \/ \E k \in Keys : cache[k] # None /\ cache[k].behind
    \/ \E c \in Clients : load[c] # None /\ load[c].attached /\ load[c].obs.behind

\* c has an invalidation to come.
Mending(c) == Waiting(c) \/ At(c, "same") \/ At(c, "gone") \/ At(c, "return")

\* Operations of others are not affected by a step.
LEMMA OthersMend ==
    ASSUME Base, NEW c \in Clients, ~Mending(c) \/ Mending(c)',
           \A d \in Clients \ {c} : op'[d] = op[d] /\ request'[d] = request[d],
           Stale' => Stale, OwnChangesSeen
    PROVE  OwnChangesSeen'
<1>1. \A d \in Clients \ {c} : Mending(d)' <=> Mending(d)
  BY DEF Mending, Waiting, At, Doing
<1>2. Stale => \E d \in Clients : Mending(d)
  BY DEF OwnChangesSeen, Stale, Mending
<1>3. Stale' => \E d \in Clients : Mending(d)'
  BY <1>1, <1>2
<1> QED
  BY <1>3 DEF OwnChangesSeen, Stale, Mending

\* After an invalidation there is nothing to see.
LEMMA NothingStale ==
    ASSUME Base, NEW c \in Clients, Invalidate(c), \A d \in Clients \ {c} : op'[d] = op[d]
    PROVE  OwnChangesSeen'
<1>1. /\ \A k \in Keys : cache'[k] = None
      /\ \A d \in Clients : load'[d] # None => ~load'[d].attached
  BY Detaches
<1> QED
  BY <1>1 DEF OwnChangesSeen

\* What has sent its request goes on to the next look or to the return.
LEMMA MendsOn ==
    ASSUME Base, NEW c \in Clients, At(c, "send") \/ At(c, "same") \/ At(c, "gone"),
           NEW e, e = op[c] \/ e = [op[c] EXCEPT !.raced = @ \ {Place(c)}], Continue(c, e)
    PROVE  Mending(c)'
<1> DEFINE o == op[c]
<1>1. /\ Doing(c) /\ o.todo[1][1] \in {"send", "same", "gone"}
  BY DEF At
<1>2. Shaped(o) /\ o \in Operation
  BY <1>1, Here
<1>3. Len(o.todo) # 1
  BY <1>1, <1>2, First
<1>4. /\ Follows(o.todo[1], After(o).todo[1]) /\ After(o).todo = Tail(o.todo)
  <2>1. After(o) = [o EXCEPT !.todo = Tail(o.todo)] /\ Follows(o.todo[1], After(o).todo[1])
    BY <1>1, <1>2, <1>3, AfterShaped
  <2> QED
    BY <1>2, <2>1 DEF Operation
<1>5. e.todo = o.todo /\ e \in Operation
  BY <1>2 DEF Operation
<1>6. op' = [op EXCEPT ![c] = [e EXCEPT !.todo = Tail(e.todo)]]
  BY <1>3, <1>5 DEF Continue
<1>7. op'[c] = [e EXCEPT !.todo = Tail(e.todo)]
  BY <1>6 DEF Base, Typed
<1>8. op'[c].todo = Tail(o.todo) /\ op'[c] \in Operation
  <2>1. Tail(e.todo) \in Seq(Steps)
    BY <1>2, <1>5, Rest DEF Shaped, Operation
  <2> QED
    BY <1>5, <1>7, <2>1 DEF Operation
<1>9. op'[c].todo[1][1] \in {"same", "gone", "return"}
  BY <1>4, <1>8 DEF Follows
<1>10. Doing(c)'
  BY <1>8, NoneAssumption DEF Doing
<1> QED
  BY <1>9, <1>10 DEF Mending, At

LEMMA StaleInit == Init => OwnChangesSeen
BY DEF Init, OwnChangesSeen

LEMMA StaleReads ==
    ASSUME Base, OwnChangesSeen, NEW c \in Clients, NEW obs,
           Look(c, obs) \/ LookDir(c, obs) \/ List(c, obs) \/ Meta(c, obs) \/ Snap(c, obs)
    PROVE  OwnChangesSeen'
<1>1. Deliver(c, obs) /\ \E o : Continue(c, o)
  BY DEF Look, LookDir, List, Meta, Snap
<1>2. \A d \in Clients \ {c} : op'[d] = op[d]
  BY <1>1 DEF Continue, Base, Typed
<1>3. /\ Key(c) \in Keys /\ request' = request
      /\ load' = [load EXCEPT ![c] = None]
      /\ cache' = cache \/ (load[c] # None /\ load[c].attached /\ obs = load[c].obs
                             /\ cache' = [cache EXCEPT ![Key(c)] = obs])
  BY <1>1, <1>2, Delivers
<1>4. Stale' => Stale
  <2> SUFFICES ASSUME Stale' PROVE Stale
    OBVIOUS
  <2>1. CASE \E d \in Clients : load'[d] # None /\ load'[d].attached /\ load'[d].obs.behind
    BY <1>3, <2>1 DEF Stale, Base, Typed
  <2>2. ASSUME NEW k \in Keys, cache'[k] # None, cache'[k].behind
        PROVE  Stale
    <3>1. CASE cache'[k] = cache[k]
      BY <2>2, <3>1 DEF Stale
    <3>2. CASE cache'[k] # cache[k]
      <4>1. load[c] # None /\ load[c].attached /\ cache'[k] = load[c].obs
        BY <1>3, <3>2 DEF Base, Typed
      <4> QED
        BY <2>2, <4>1 DEF Stale
    <3> QED
      BY <3>1, <3>2
  <2> QED
    BY <2>1, <2>2 DEF Stale
<1>5. ~Mending(c)
  BY <1>1 DEF Deliver, Reading, Mending, Waiting, At
<1> QED
  BY <1>2, <1>3, <1>4, <1>5, OthersMend

LEMMA StaleSteps ==
    ASSUME Base, OwnChangesSeen, NEW c \in Clients,
           MetaKnown(c) \/ Done(c) \/ Check(c) \/ CompareVersion(c) \/ CheckEmpty(c)
    PROVE  OwnChangesSeen'
<1>1. /\ UNCHANGED <<cache, load, request>> /\ \E o : Continue(c, o)
      /\ ~Mending(c)
  BY DEF MetaKnown, Done, Check, CompareVersion, CheckEmpty, Mending, Waiting, At
<1>2. \A d \in Clients \ {c} : op'[d] = op[d]
  BY <1>1 DEF Continue, Base, Typed
<1>3. Stale' => Stale
  BY <1>1 DEF Stale
<1> QED
  BY <1>1, <1>2, <1>3, OthersMend

LEMMA StaleEnds ==
    ASSUME Base, OwnChangesSeen, NEW c \in Clients, Doing(c), End(c),
           At(c, "send") \/ (Fail(c) /\ ~Waiting(c)),
           \A d \in Clients \ {c} : request'[d] = request[d]
    PROVE  OwnChangesSeen'
<1>1. op' = [op EXCEPT ![c] = None]
  BY DEF End
<1>2. \A d \in Clients \ {c} : op'[d] = op[d]
  BY <1>1 DEF Base, Typed
<1>3. op[c].todo[1][1] \in Final => op[c].kind \in Mutations
  BY Here DEF Covered
<1>4. CASE op[c].kind \in Mutations /\ op[c].todo[1][1] \notin {"look", "meta", "snap"}
  <2>1. Invalidate(c)
    BY <1>4 DEF End, InvalidateAfter
  <2> QED
    BY <1>2, <2>1, NothingStale
<1>5. CASE ~(op[c].kind \in Mutations /\ op[c].todo[1][1] \notin {"look", "meta", "snap"})
  <2>1. load' = [load EXCEPT ![c] = None] /\ UNCHANGED cache
    BY <1>5 DEF End
  <2>2. Stale' => Stale
    BY <2>1 DEF Stale, Base, Typed
  <2>3. ~Mending(c)
    BY <1>3, <1>5 DEF Mending, Waiting, At, Final
  <2> QED
    BY <1>2, <2>2, <2>3, OthersMend
<1> QED
  BY <1>4, <1>5

\* What a request makes of the caches is what its sender will drop.
LEMMA StaleApply ==
    ASSUME Base, OwnChangesSeen, NEW c \in Clients, Apply(c)
    PROVE  OwnChangesSeen'
<1> DEFINE r == request[c]
<1>1. /\ r # None /\ r \in Request
      /\ op' = [d \in Clients |->
              IF d = c /\ ~r.late THEN op[c] ELSE Raced(op[d], Changed)]
      /\ request' = [d \in Clients |->
              IF d # c THEN Raced(request[d], Changed)
              ELSE IF r.late THEN None ELSE [r EXCEPT !.applied = TRUE]]
      /\ r.late => cache' = [k \in Keys |-> cache[k]] /\ load' = [d \in Clients |-> load[d]]
  BY DEF Apply, Base, Typed
<1>2. CASE ~r.late
  <2>1. Open(c)
    BY <1>1, <1>2 DEF Open
  <2>2. At(c, "send")
    BY <2>1 DEF Base, Asked
  <2>3. At(c, "send")'
    BY <1>1, <1>2, <2>2 DEF At, Doing
  <2>4. request'[c] # None /\ ~request'[c].late
    <3>1. request'[c] = [r EXCEPT !.applied = TRUE]
      BY <1>1, <1>2
    <3>2. [r EXCEPT !.applied = TRUE] \in Request /\ ~[r EXCEPT !.applied = TRUE].late
      BY <1>1, <1>2 DEF Request
    <3> QED
      BY <3>1, <3>2, NoneAssumption
  <2> QED
    BY <2>3, <2>4 DEF OwnChangesSeen, Waiting
<1>3. CASE r.late
  <2>1. Stale' => Stale
    BY <1>1, <1>3 DEF Stale
  <2>2. ASSUME NEW d \in Clients, Mending(d)
        PROVE  Mending(d)'
    <3>1. Doing(d) /\ op'[d] = Raced(op[d], Changed)
      BY <1>1, <1>3, <2>2 DEF Mending, Waiting, At
    <3>2. Raced(op[d], Changed) # None /\ Raced(op[d], Changed).todo = op[d].todo
      <4>1. Right(op[d], remote)
        BY <3>1, Here
      <4>2. Changed \in SUBSET Paths /\ \A p \in Paths \ Changed : remote'[p] = remote[p]
        BY DEF Changed
      <4> QED
        BY <4>1, <4>2, RacedRight
    <3>3. \A s : At(d, s)' <=> At(d, s)
      BY <3>1, <3>2 DEF At, Doing
    <3>4. Waiting(d) => Waiting(d)'
      <4> SUFFICES ASSUME Waiting(d) PROVE Waiting(d)'
        OBVIOUS
      <4>1. d # c /\ request[d] # None /\ ~request[d].late
        BY <1>3 DEF Waiting
      <4>2. request[d] \in Request /\ request'[d] = Raced(request[d], Changed)
        BY <1>1, <4>1 DEF Base, Typed
      <4>3. Changed \in SUBSET Paths
        BY DEF Changed
      <4>4. request'[d] # None /\ ~request'[d].late
        BY <4>1, <4>2, <4>3, RacedRequest
      <4> QED
        BY <3>3, <4>4 DEF Waiting
    <3> QED
      BY <2>2, <3>3, <3>4 DEF Mending
  <2>3. Stale => \E d \in Clients : Mending(d)
    BY DEF OwnChangesSeen, Stale, Mending
  <2>4. Stale' => \E d \in Clients : Mending(d)'
    BY <2>1, <2>2, <2>3
  <2> QED
    BY <2>4 DEF OwnChangesSeen, Stale, Mending
<1> QED
  BY <1>2, <1>3

LEMMA StaleEdit ==
    ASSUME Base, OwnChangesSeen, NEW p \in Paths, NEW v \in Contents \cup {Absent}, Edit(p, v)
    PROVE  OwnChangesSeen'
<1>1. /\ remote' = [remote EXCEPT ![p] = v]
      /\ op' = [c \in Clients |-> Raced(op[c], {p})]
      /\ request' = [c \in Clients |-> Raced(request[c], {p})]
      /\ UNCHANGED <<cache, load>>
  BY DEF Edit
<1>2. ASSUME NEW d \in Clients, Mending(d)
      PROVE  Mending(d)'
  <2>1. Doing(d)
    BY <1>2 DEF Mending, Waiting, At
  <2>2. Raced(op[d], {p}) # None /\ Raced(op[d], {p}).todo = op[d].todo
    <3>1. Right(op[d], remote)
      BY <2>1, Here
    <3>2. \A q \in Paths \ {p} : remote'[q] = remote[q]
      BY <1>1 DEF Base, Typed
    <3> QED
      BY <3>1, <3>2, RacedRight
  <2>3. \A s : At(d, s)' <=> At(d, s)
    BY <1>1, <2>1, <2>2 DEF At, Doing
  <2>4. Waiting(d) => Waiting(d)'
    <3> SUFFICES ASSUME Waiting(d) PROVE Waiting(d)'
      OBVIOUS
    <3>1. request[d] \in Request /\ request'[d] = Raced(request[d], {p}) /\ ~request[d].late
      BY <1>1 DEF Base, Typed, Waiting
    <3>2. request'[d] # None /\ ~request'[d].late
      BY <3>1, RacedRequest
    <3> QED
      BY <2>3, <3>2 DEF Waiting
  <2> QED
    BY <1>2, <2>3, <2>4 DEF Mending
<1>3. Stale => \E d \in Clients : Mending(d)
  BY DEF OwnChangesSeen, Stale, Mending
<1>4. Stale' => \E d \in Clients : Mending(d)'
  BY <1>1, <1>2, <1>3 DEF Stale
<1> QED
  BY <1>4 DEF OwnChangesSeen, Stale, Mending

LEMMA StaleNext == Base /\ OwnChangesSeen /\ [Next]_vars => OwnChangesSeen'
<1> SUFFICES ASSUME Base, OwnChangesSeen, [Next]_vars PROVE OwnChangesSeen'
  OBVIOUS
<1>1. CASE UNCHANGED vars
  BY <1>1 DEF vars, OwnChangesSeen, Waiting, At, Doing
<1>2. CASE Tick
  <2>1. /\ \A k \in Keys : cache'[k] # None => cache'[k] = cache[k]
        /\ UNCHANGED <<load, op, request>>
    BY <1>2 DEF Tick
  <2> QED
    BY <2>1 DEF OwnChangesSeen, Waiting, At, Doing
<1>3. CASE \E p \in Paths, v \in Contents \cup {Absent} : Edit(p, v)
  BY <1>3, StaleEdit
<1>4. ASSUME NEW c \in Clients, \E kind \in Kinds, p, q \in Paths, v \in Contents : Begin(c, kind, p, q, v)
      PROVE  OwnChangesSeen'
  <2>1. ~Doing(c) /\ (\E x : op' = [op EXCEPT ![c] = x]) /\ UNCHANGED <<cache, load, request>>
    BY <1>4 DEF Begin
  <2>2. ~Mending(c) /\ (Stale' => Stale)
    BY <2>1 DEF Mending, Waiting, At, Stale
  <2>3. \A d \in Clients \ {c} : op'[d] = op[d]
    BY <2>1 DEF Base, Typed
  <2> QED
    BY <2>1, <2>2, <2>3, OthersMend
<1>5. ASSUME NEW c \in Clients, Fail(c)
      PROVE  OwnChangesSeen'
  BY <1>5, StaleEnds DEF Fail
<1>6. ASSUME NEW c \in Clients, Load(c)
      PROVE  OwnChangesSeen'
  <2>1. /\ \E x : load' = [load EXCEPT ![c] = [key |-> x.key, attached |-> TRUE,
                        obs |-> [value |-> x.value, at |-> now, behind |-> FALSE]]]
        /\ UNCHANGED <<cache, op, request>>
    <3>1. load' = [load EXCEPT ![c] = [key |-> Key(c), attached |-> TRUE,
                        obs |-> [value |-> View(Key(c)), at |-> now, behind |-> FALSE]]]
      BY <1>6 DEF Load
    <3> DEFINE x == [key |-> Key(c), value |-> View(Key(c))]
    <3>2. x.key = Key(c) /\ x.value = View(Key(c))
      OBVIOUS
    <3> QED
      BY <1>6, <3>1, <3>2 DEF Load
  <2>2. \A d \in Clients : load'[d] = load[d] \/ ~load'[d].obs.behind
    BY <2>1 DEF Base, Typed
  <2> QED
    BY <2>1, <2>2 DEF OwnChangesSeen, Waiting, At, Doing
<1>7. ASSUME NEW c \in Clients,
             MetaKnown(c) \/ Done(c) \/ Check(c) \/ CompareVersion(c) \/ CheckEmpty(c)
      PROVE  OwnChangesSeen'
  BY <1>7, StaleSteps
<1>8. ASSUME NEW c \in Clients, NEW obs \in Available(c),
             Look(c, obs) \/ LookDir(c, obs) \/ List(c, obs) \/ Meta(c, obs) \/ Snap(c, obs)
      PROVE  OwnChangesSeen'
  BY <1>8, StaleReads
<1>9. ASSUME NEW c \in Clients, Send(c)
      PROVE  OwnChangesSeen'
  BY <1>9, NothingStale DEF Send
<1>10. ASSUME NEW c \in Clients, Apply(c)
       PROVE  OwnChangesSeen'
  BY <1>10, StaleApply
<1>11. ASSUME NEW c \in Clients, Confirmed(c) \/ Same(c) \/ Gone(c)
       PROVE  OwnChangesSeen'
  <2>1. /\ At(c, "send") \/ At(c, "same") \/ At(c, "gone")
        /\ \E e : /\ e = op[c] \/ e = [op[c] EXCEPT !.raced = @ \ {Place(c)}]
                  /\ Continue(c, e)
        /\ UNCHANGED <<cache, load>>
        /\ \A d \in Clients \ {c} : request'[d] = request[d]
    BY <1>11 DEF Confirmed, Waiting, Same, Gone, Base, Typed
  <2>2. Mending(c)'
    BY <2>1, MendsOn
  <2>3. \A d \in Clients \ {c} : op'[d] = op[d]
    BY <2>1 DEF Continue, Base, Typed
  <2> QED
    BY <2>1, <2>2, <2>3, OthersMend DEF Stale
<1>12. ASSUME NEW c \in Clients, \E late \in BOOLEAN : Refused(c, late)
       PROVE  OwnChangesSeen'
  <2>1. /\ Doing(c) /\ At(c, "send") /\ End(c)
        /\ \A d \in Clients \ {c} : request'[d] = request[d]
    BY <1>12 DEF Refused, Waiting, At, Base, Typed
  <2> QED
    BY <2>1, StaleEnds
<1>13. ASSUME NEW c \in Clients, Return(c)
       PROVE  OwnChangesSeen'
  <2>1. Invalidate(c) /\ \A d \in Clients \ {c} : op'[d] = op[d]
    BY <1>13 DEF Return, InvalidateAfter, Continue, Base, Typed
  <2> QED
    BY <2>1, NothingStale
<1>14. ASSUME NEW c \in Clients, Drop(c)
       PROVE  OwnChangesSeen'
  <2>1. /\ ~Mending(c) \/ Mending(c)'
        /\ UNCHANGED <<cache, load, op>>
        /\ \A d \in Clients \ {c} : request'[d] = request[d]
    BY <1>14 DEF Drop, Mending, Waiting, At, Doing, Base, Typed
  <2> QED
    BY <2>1, OthersMend DEF Stale
<1>15. ASSUME NEW c \in Clients, Close(c)
       PROVE  OwnChangesSeen'
  BY <1>15 DEF Close, OwnChangesSeen, Waiting, At, Doing
<1> QED
  BY <1>1, <1>2, <1>3, <1>4, <1>5, <1>6, <1>7, <1>8, <1>9, <1>10, <1>11, <1>12, <1>13, <1>14,
     <1>15 DEF Next

\* invalidate, before the request and again when the operation is over, however
\* it ends: nothing from before a mutation of this mount outlives it.
THEOREM OwnChangesAreSeen == Spec => []OwnChangesSeen
<1>1. Base /\ OwnChangesSeen /\ [Next]_vars => OwnChangesSeen'
  BY StaleNext
<1> QED
  BY <1>1, StaleInit, StepsHold, PTL DEF Spec
=============================================================================
