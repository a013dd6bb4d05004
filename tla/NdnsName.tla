------------------------------ MODULE NdnsName ------------------------------
(***************************************************************************)
(* Names, the orders on them, and denial-of-existence (DoE) ranges.        *)
(*                                                                         *)
(* A name is a sequence of components.  A component is a natural number:   *)
(* its rank in the canonical order of NDN name components (a shorter       *)
(* component first, equal lengths byte by byte).  A record type ("NS",     *)
(* "TXT", ...) is a component as well, and so is ranked on the same scale. *)
(***************************************************************************)
EXTENDS Integers, Sequences

Name == Seq(Nat)

(***************************************************************************)
(* The canonical order of names: at the first difference the smaller       *)
(* component decides, and a proper prefix precedes its extensions.  SQLite *)
(* compares the saved labels in this order too.                            *)
(***************************************************************************)
NameLess(a, b) ==
  \E i \in 1 .. Len(b) :
    /\ i =< Len(a) + 1
    /\ \A j \in 1 .. i - 1 : a[j] = b[j]
    /\ i =< Len(a) => a[i] < b[i]

IsProperPrefix(a, b) ==
  /\ Len(a) < Len(b)
  /\ \A j \in 1 .. Len(a) : a[j] = b[j]

(* The name a record is denied by: its label followed by its type. *)
KeyName(r) == Append(r.label, r.type)

(* Rrset::operator<, the order std::sort uses in generateDoe. *)
RrsetLess(r, s) ==
  \/ NameLess(r.label, s.label)
  \/ /\ r.label = s.label
     /\ \/ r.type < s.type
        \/ r.type = s.type /\ r.ver < s.ver

(***************************************************************************)
(* IterativeQueryController::isAbsentByDoe: the client's reading of a DoE  *)
(* range (lo, hi) for the label/type q it asked for last.                  *)
(***************************************************************************)
isAbsentByDoe(lo, hi, q) ==
  \/ NameLess(lo, q) /\ NameLess(q, hi)
  \/ NameLess(hi, lo) /\ (NameLess(q, lo) \/ NameLess(hi, q))

(***************************************************************************)
(* What a range stands for: the names strictly between its ends, on the    *)
(* cycle that closes the last name of a zone to its first.                 *)
(***************************************************************************)
InRange(lo, hi, q) ==
  IF NameLess(lo, hi)
  THEN NameLess(lo, q) /\ NameLess(q, hi)
  ELSE NameLess(lo, q) \/ NameLess(q, hi)
=============================================================================
