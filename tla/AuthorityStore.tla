--------------------------- MODULE AuthorityStore ---------------------------
(***************************************************************************)
(* Authority implements RecordStore when operations do not overlap.  The   *)
(* statements of a command are hidden: between the DELETE and the INSERT   *)
(* of a replacement the old record counts as stored, an AUTH record counts *)
(* from its own INSERT on, and the DoE chain is not part of the contents.  *)
(***************************************************************************)
EXTENDS Authority

Replaced == {tool[t].old : t \in {u \in Tools : tool[u].pc = "insert" /\ tool[u].old # NoRow}}

Contents == {[label |-> r.label, type |-> r.type, ver |-> r.ver, ct |-> r.ct] :
               r \in Records \cup Replaced}

Answer == [kind |-> out.kind, label |-> out.req.label, type |-> out.req.type, ver |-> out.req.ver]

Store == INSTANCE RecordStore WITH db <- Contents, said <- Answer

(* Every step of tools and daemon is a step of RecordStore or is not seen   *)
(* there: a replacement needs a newer version whichever of addRrset,        *)
(* addRrsetFromFile and doUpdate makes it, a command that is refused leaves *)
(* the records alone, and what the daemon answers, denies, confirms or      *)
(* refuses is true of the records at that moment.                           *)
ImplementsStore == Store!Spec
=============================================================================
