---------------------------- MODULE MCAuthority ----------------------------
(***************************************************************************)
(* Instances of Authority for TLC.  Components are ranked as the canonical *)
(* order ranks the strings "a" "NS" "DOE" "KEY" "TXT" "net" "CERT" and two *)
(* eight-byte key ids.                                                     *)
(***************************************************************************)
EXTENDS AuthorityStore, TLC

Ca == 1
Cns == 2
Cdoe == 3
Ckey == 4
Ctxt == 5
Cnet == 6
Ccert == 7
Ck1 == 8
Ck2 == 9

LabelA == <<Ca>>
LabelNet == <<Cnet>>
LabelNetNet == <<Cnet, Cnet>>
LabelNetA == <<Cnet, Ca>>

K(label, type) == [label |-> label, type |-> type]
R(label, type, ver, ct) == [label |-> label, type |-> type, ver |-> ver, ct |-> ct]
Q(label, type, ver) == [label |-> label, type |-> type, ver |-> ver]

Certs == <<K(<<Ckey, Ck1>>, Ccert), K(<<Ckey, Ck2>>, Ccert)>>
None == {}
OneVersion == {1}
TwoVersions == {1, 2}

(* serial: every command, one at a time, with queries and updates between. *)
SerialAdds == {R(LabelA, Ctxt, 1, "RESP"), R(LabelA, Ctxt, 2, "RESP"),
               R(LabelNet, Cns, 1, "LINK"), R(LabelNetNet, Cns, 1, "LINK"),
               R(LabelNetNet, Ctxt, 2, "RESP")}
SerialFiles == {R(LabelA, Cns, 1, "LINK"), R(LabelA, Ctxt, 2, "RESP")}
SerialRemovals == {K(LabelA, Ctxt), K(LabelNetNet, Cns)}
SerialUpdates == {R(LabelA, Ctxt, 1, "RESP"), R(LabelA, Ctxt, 3, "RESP"),
                  R(LabelNet, Ctxt, 3, "RESP")}
SerialQueries == {Q(LabelA, Ctxt, 0), Q(LabelA, Ctxt, 1), Q(LabelA, Cns, 0), Q(LabelNet, Cns, 0),
                  Q(LabelNetNet, Ctxt, 0), Q(LabelNetA, Cns, 0), Q(<<Ck1>>, Ctxt, 0)}

(* readers: one tool, killed at any statement, under concurrent queries; it *)
(* may also empty the zone.                                                 *)
ReaderAdds == {R(LabelA, Ctxt, 1, "RESP"), R(LabelA, Ctxt, 2, "RESP"),
               R(LabelNetNet, Ctxt, 2, "RESP")}
ReaderRemovals == {Certs[1], Certs[2], K(LabelA, Ctxt)}
ReaderQueries == {Q(LabelA, Ctxt, 0), Q(LabelNetNet, Ctxt, 0), Q(LabelNet, Cns, 0)}

(* contention: two tools that add the same label below one that has no      *)
(* record, updates and locked files, all at once.                           *)
ContentionAdds == {R(LabelNetNet, Ctxt, 2, "RESP")}
ContentionUpdates == {R(LabelNetNet, Ctxt, 3, "RESP")}
ToolSymmetry == Permutations(Tools)

(* The single requests of the runs that exhibit one behaviour. *)
AddNetA == {R(LabelNetA, Ctxt, 1, "RESP")}
AddA1 == {R(LabelA, Ctxt, 1, "RESP")}
AddA12 == {R(LabelA, Ctxt, 1, "RESP"), R(LabelA, Ctxt, 2, "RESP")}
UpdateA1 == {R(LabelA, Ctxt, 1, "RESP")}
UpdateA3 == {R(LabelA, Ctxt, 3, "RESP")}
RemoveA == {K(LabelA, Ctxt)}
QueryA == {Q(LabelA, Ctxt, 0)}
QueryNet == {Q(LabelNet, Cns, 0)}

(* A zone in use: createZone is over, its chain stands, the daemon is up.   *)
(* A behaviour of Spec reaches this state, and InUseSpec goes on from it.   *)
InUse ==
  LET First == KeyName(Certs[1])
      Last == KeyName(Certs[2])
      Doe(id, label, lo, hi) == [id |-> id, label |-> label, type |-> DOE, ver |-> 0,
                                 ct |-> "DOE", lo |-> lo, hi |-> hi]
  IN
  /\ rows = {CertRow(1), CertRow(2), Doe(3, First, First, Last),
             Doe(4, Last, Last, First), Doe(5, <<>>, Last, First)}
  /\ tool = [t \in Tools |-> IdleTool] /\ srv = IdleServer
  /\ pending = {} /\ out = Silent /\ ops = 0
  /\ alone = {} /\ sound = TRUE

InUseSpec == InUse /\ [][Next]_vars
=============================================================================
