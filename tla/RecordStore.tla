---------------------------- MODULE RecordStore ----------------------------
(***************************************************************************)
(* What a zone promises those who use it one operation at a time: a set of *)
(* records, at most one of a label and type, that only ever gives way to a *)
(* newer version or is removed; and answers that are true of it.           *)
(***************************************************************************)
EXTENDS Naturals

VARIABLES
  db,     \* the records: [label, type, ver, ct]
  said    \* the last answer: [kind, label, type, ver]

vars == <<db, said>>

Same(r, s) == r.label = s.label /\ r.type = s.type

(* "data" hands out a record, "nack" denies one (version 0 stands for any), *)
(* "ok" confirms an update, "fail" refuses one that is not newer.           *)
True(a, S) ==
  LET there == {r \in S : Same(r, a)}
  IN  /\ a.kind \in {"data", "ok"} => \E r \in there : r.ver = a.ver
      /\ a.kind = "nack" => \A r \in there : a.ver \notin {0, r.ver}
      /\ a.kind = "fail" => \E r \in there : r.ver >= a.ver

Init ==
  /\ \A r, s \in db : Same(r, s) => r = s
  /\ said.kind = "none"

Put(r) ==
  /\ \A s \in db : Same(r, s) => s.ver < r.ver
  /\ db' = {s \in db : ~Same(r, s)} \cup {r}

Drop(r) == db' = db \ {r}

Next ==
  /\ \/ \E r \in db' : Put(r)
     \/ \E r \in db : Drop(r)
     \/ UNCHANGED db
  /\ True(said', db')

Spec == Init /\ [][Next]_vars
=============================================================================
