----------------------------- MODULE Authority -----------------------------
(***************************************************************************)
(* The authoritative side of one zone: the rows of the rrsets table, the   *)
(* management tools that edit it, and the name server that answers queries *)
(* and dynamic updates from it.  The tools and the daemon are separate     *)
(* processes on one SQLite file; no code path opens a transaction, so one  *)
(* step of a process is one SQL statement.                                 *)
(*                                                                         *)
(* A tool runs one command at a time; tool[t].pc names the statement it    *)
(* executes next.  The server is single threaded; srv.pc does the same for *)
(* it.  An update waits in `pending' while the validator works on it.      *)
(***************************************************************************)
EXTENDS NdnsName, FiniteSets

CONSTANTS
  NS, DOE,       \* the two record types the code treats specially
  Tools,         \* management-tool processes
  CertKeys,      \* <<ksk, dsk>>: label and type of the zone's first records
  AddReqs,       \* records given to ndns-add-rr
  FileReqs,      \* records given to ndns-add-rr-from-file
  RmKeys,        \* label/type pairs given to ndns-remove-rr
  UpdReqs,       \* records carried by update Interests
  Queries,       \* label/type/version asked for; version 0 stands for none
  AuthVersions,  \* versions the clock may give an AUTH record
  MaxOps,        \* bound: commands and updates in a behaviour
  Overlap,       \* operations of different processes may overlap
  Kills,         \* a process may be killed between two statements
  Busy           \* a statement may fail because the file is locked

(* NDNS content types; a plain Data and a certificate differ here only in   *)
(* name.                                                                    *)
ContentType == {"none", "LINK", "AUTH", "RESP", "CERT", "DOE"}

Key == [label : Name, type : Nat]
Query == [label : Name, type : Nat, ver : Nat]
Req == [label : Name, type : Nat, ver : Nat, ct : ContentType]
Row == [id : Nat, label : Name, type : Nat, ver : Nat, ct : ContentType,
        lo : Name, hi : Name]

NoReq == [label |-> <<>>, type |-> 0, ver |-> 0, ct |-> "none"]
NoRow == [id |-> 0, label |-> <<>>, type |-> 0, ver |-> 0, ct |-> "none",
          lo |-> <<>>, hi |-> <<>>]

ASSUME ConstantsAssumption ==
  /\ NS \in Nat /\ DOE \in Nat /\ NS # DOE
  /\ CertKeys \in Seq(Key) /\ Len(CertKeys) = 2 /\ CertKeys[1] # CertKeys[2]
  /\ \A i \in 1 .. 2 : CertKeys[i].type # DOE
  /\ AddReqs \subseteq Req /\ FileReqs \subseteq Req /\ UpdReqs \subseteq Req
  /\ RmKeys \subseteq Key /\ Queries \subseteq Query
  /\ AuthVersions \subseteq Nat
  /\ \A r \in AddReqs \cup FileReqs \cup UpdReqs : r.type # DOE
  /\ \A r \in AddReqs : Len(r.label) > 0
  /\ \A k \in RmKeys : k.type # DOE
  /\ MaxOps \in Nat
  /\ Overlap \in BOOLEAN /\ Kills \in BOOLEAN /\ Busy \in BOOLEAN

VARIABLES
  rows,     \* the zone's rows of the rrsets table
  tool,     \* what each management tool is doing
  srv,      \* what the name server is doing
  pending,  \* updates the server's validator is working on
  out,      \* the Data the last step put on the face
  ops,      \* commands and updates so far
  alone,    \* history: the tool whose generateDoe nobody has disturbed
  sound     \* history: no record changed since an undisturbed generateDoe

vars == <<rows, tool, srv, pending, out, ops, alone, sound>>

ToolPcs == {"idle", "auth", "link", "override", "authFind", "authInsert",
            "ver", "rmOld", "insert", "rmFind", "rmRow",
            "doeClear", "doeRead", "doeInsert", "doeGuard"}
ServerPcs == {"down", "idle", "doe", "update", "insert"}

Records == {r \in rows : r.type # DOE}
IdleTool == [pc |-> "idle", req |-> NoReq, i |-> 0, old |-> NoRow,
             recs |-> {}, left |-> {}]
IdleServer == [pc |-> "idle", req |-> NoReq, old |-> NoRow]
Silent == [kind |-> "none", req |-> NoReq, lo |-> <<>>, hi |-> <<>>]

SameKey(r, s) == r.label = s.label /\ r.type = s.type
AsReq(q) == [label |-> q.label, type |-> q.type, ver |-> q.ver, ct |-> "none"]
RmReq(k) == [label |-> k.label, type |-> k.type, ver |-> 0, ct |-> "none"]

(***************************************************************************)
(* The state after createZone has stored the KSK and DSK certificates: its *)
(* generateDoe is still to run and the daemon is not up.                   *)
(***************************************************************************)
CertRow(i) ==
  [id |-> i, label |-> CertKeys[i].label, type |-> CertKeys[i].type,
   ver |-> 1, ct |-> "CERT", lo |-> <<>>, hi |-> <<>>]

Init ==
  /\ rows = {CertRow(1), CertRow(2)}
  /\ \E t \in Tools :
       tool = [u \in Tools |->
                 IF u = t THEN [IdleTool EXCEPT !.pc = "doeClear"] ELSE IdleTool]
  /\ srv = [IdleServer EXCEPT !.pc = "down"]
  /\ pending = {} /\ out = Silent /\ ops = 0
  /\ alone = {} /\ sound = FALSE

-----------------------------------------------------------------------------
(* DbMgr: one statement each. *)

(* SELECT by label and type: any one matching row, and none when the file   *)
(* is locked, since every result but a row is read as "not found".          *)
Find(label, type) ==
  LET hits == {r \in rows : r.label = label /\ r.type = type}
  IN  IF hits = {} \/ Busy THEN hits \cup {NoRow} ELSE hits

(* SELECT of the DoE row with the greatest label below a name. *)
FindLowerBound(name) ==
  LET below == {d \in rows : d.type = DOE /\ NameLess(d.label, name)}
      best == {d \in below : \A e \in below : ~NameLess(d.label, e.label)}
  IN  IF best = {} \/ Busy THEN best \cup {NoRow} ELSE best

(* INSERT: SQLite gives the new row the largest id in use plus one. *)
Insert(label, type, ver, ct, lo, hi) ==
  \E m \in {r.id : r \in rows} \cup {0} :
    /\ \A r \in rows : r.id =< m
    /\ rows' = rows \cup {[id |-> m + 1, label |-> label, type |-> type,
                           ver |-> ver, ct |-> ct, lo |-> lo, hi |-> hi]}

(* The unique index on label, type and version refuses an INSERT. *)
Conflicts(label, type, ver) ==
  \E r \in rows : r.label = label /\ r.type = type /\ r.ver = ver

(* DELETE by row id. *)
RemoveId(id) == rows' = {r \in rows : r.id # id}

(* UPDATE by row id.  A row that is gone, or an index that refuses the new  *)
(* version, leaves the table as it was, and nobody hears of it.             *)
Updated(r, id, ver, ct) == IF r.id = id THEN [r EXCEPT !.ver = ver, !.ct = ct] ELSE r

UpdateId(id, ver, ct) ==
  rows' = IF \E r, s \in rows : r.id = id /\ s.id # id /\ SameKey(r, s) /\ s.ver = ver
          THEN rows
          ELSE {Updated(r, id, ver, ct) : r \in rows}

-----------------------------------------------------------------------------
(* History: a row that comes or goes spoils the DoE chain and every         *)
(* generateDoe under way in a process outside self.                         *)
Disturb(self) == sound' = FALSE /\ alone' = alone \cap self

Idle(t) == tool[t].pc = "idle"
ServerQuiet == srv.pc \in {"idle", "down"}
Goto(t, pc) == tool' = [tool EXCEPT ![t].pc = pc]
Done(t) == tool' = [tool EXCEPT ![t] = IdleTool]

-----------------------------------------------------------------------------
(* ManagementTool commands. *)

StartCommand(t, pc, req) ==
  /\ Idle(t) /\ ops < MaxOps
  /\ Overlap \/ (ServerQuiet /\ \A u \in Tools : Idle(u))
  /\ tool' = [tool EXCEPT ![t] = [IdleTool EXCEPT !.pc = pc, !.req = req, !.i = 1]]
  /\ ops' = ops + 1 /\ out' = Silent
  /\ UNCHANGED <<rows, srv, pending, alone, sound>>

(* ndns-add-rr: a label of several components goes the multi-level way. *)
StartAdd(t) ==
  \E req \in AddReqs :
    StartCommand(t, IF Len(req.label) > 1 THEN "link" ELSE "auth", req)

StartAddFromFile(t) == \E req \in FileReqs : StartCommand(t, "ver", req)

StartRemove(t) == \E k \in RmKeys : StartCommand(t, "rmFind", RmReq(k))

(* addRrset: refuse to shadow an AUTH record of the same label. *)
CheckAuth(t) ==
  /\ tool[t].pc = "auth"
  /\ \E r \in Find(tool[t].req.label, NS) :
       IF r.ct = "AUTH" THEN Done(t) ELSE Goto(t, "ver")
  /\ out' = Silent
  /\ UNCHANGED <<rows, srv, pending, ops, alone, sound>>

(* The i-th proper prefix of the label a command works on. *)
Prefix(t) == SubSeq(tool[t].req.label, 1, tool[t].i)
LastPrefix(t) == tool[t].i = Len(tool[t].req.label) - 1

(* addMultiLevelLabelRrset, first loop: no prefix may be delegated away. *)
CheckLink(t) ==
  /\ tool[t].pc = "link"
  /\ \E r \in Find(Prefix(t), NS) :
       IF r.ct = "LINK" THEN Done(t)
       ELSE tool' = [tool EXCEPT
                       ![t].pc = IF LastPrefix(t) THEN "override" ELSE "link",
                       ![t].i = IF LastPrefix(t) THEN 1 ELSE @ + 1]
  /\ out' = Silent
  /\ UNCHANGED <<rows, srv, pending, ops, alone, sound>>

(* ... an NS record may not take the place of an AUTH record ... *)
CheckOverride(t) ==
  /\ tool[t].pc = "override"
  /\ \E r \in Find(tool[t].req.label, tool[t].req.type) :
       IF tool[t].req.type = NS /\ r.ct = "AUTH" THEN Done(t)
       ELSE Goto(t, "authFind")
  /\ out' = Silent
  /\ UNCHANGED <<rows, srv, pending, ops, alone, sound>>

(* ... and, second loop, every prefix without an NS record gets an AUTH. *)
NextPrefix(t) ==
  tool' = [tool EXCEPT ![t].pc = IF LastPrefix(t) THEN "ver" ELSE "authFind",
                       ![t].i = @ + 1]

(* Mutant: every prefix is taken to have its record. *)
FindAuthSkips(t) ==
  /\ tool[t].pc = "authFind"
  /\ NextPrefix(t)
  /\ out' = Silent
  /\ UNCHANGED <<rows, srv, pending, ops, alone, sound>>

FindAuth(t) ==
  /\ tool[t].pc = "authFind"
  /\ \E r \in Find(Prefix(t), NS) :
       IF r # NoRow THEN NextPrefix(t) ELSE Goto(t, "authInsert")
  /\ out' = Silent
  /\ UNCHANGED <<rows, srv, pending, ops, alone, sound>>

(* Mutant: the version the factory takes as "use the clock" is stored. *)
InsertAuthSentinel(t) ==
  /\ tool[t].pc = "authInsert"
  /\ Insert(Prefix(t), NS, -1, "AUTH", <<>>, <<>>)
  /\ NextPrefix(t)
  /\ Disturb({t}) /\ out' = Silent
  /\ UNCHANGED <<srv, pending, ops>>

InsertAuth(t) ==
  /\ tool[t].pc = "authInsert"
  /\ \E v \in AuthVersions :
       /\ ~Conflicts(Prefix(t), NS, v)
       /\ Insert(Prefix(t), NS, v, "AUTH", <<>>, <<>>)
  /\ NextPrefix(t)
  /\ Disturb({t}) /\ out' = Silent
  /\ UNCHANGED <<srv, pending, ops>>

(* Mutant: any stored version is replaced. *)
CheckNoVersion(t) ==
  /\ tool[t].pc = "ver"
  /\ \E r \in Find(tool[t].req.label, tool[t].req.type) :
       IF r = NoRow THEN Goto(t, "insert")
       ELSE tool' = [tool EXCEPT ![t].pc = "rmOld", ![t].old = r]
  /\ out' = Silent
  /\ UNCHANGED <<rows, srv, pending, ops, alone, sound>>

(* checkRrsetVersion: only a newer version may replace a stored record. *)
CheckRrsetVersion(t) ==
  /\ tool[t].pc = "ver"
  /\ \E r \in Find(tool[t].req.label, tool[t].req.type) :
       IF r = NoRow THEN Goto(t, "insert")
       ELSE IF r.ver >= tool[t].req.ver THEN Done(t)
       ELSE tool' = [tool EXCEPT ![t].pc = "rmOld", ![t].old = r]
  /\ out' = Silent
  /\ UNCHANGED <<rows, srv, pending, ops, alone, sound>>

(* Mutant: the replaced version is left in the table. *)
RemoveOldForgotten(t) ==
  /\ tool[t].pc = "rmOld"
  /\ Goto(t, "insert")
  /\ Disturb({t}) /\ out' = Silent
  /\ UNCHANGED <<rows, srv, pending, ops>>

RemoveOld(t) ==
  /\ tool[t].pc = "rmOld"
  /\ RemoveId(tool[t].old.id)
  /\ Goto(t, "insert")
  /\ Disturb({t}) /\ out' = Silent
  /\ UNCHANGED <<srv, pending, ops>>

InsertRrset(t) ==
  LET req == tool[t].req IN
  /\ tool[t].pc = "insert"
  /\ ~Conflicts(req.label, req.type, req.ver)
  /\ Insert(req.label, req.type, req.ver, req.ct, <<>>, <<>>)
  /\ Goto(t, "doeClear")
  /\ Disturb({t}) /\ out' = Silent
  /\ UNCHANGED <<srv, pending, ops>>

(* removeRrSet *)
FindForRemoval(t) ==
  /\ tool[t].pc = "rmFind"
  /\ \E r \in Find(tool[t].req.label, tool[t].req.type) :
       IF r = NoRow THEN Done(t)
       ELSE tool' = [tool EXCEPT ![t].pc = "rmRow", ![t].old = r]
  /\ out' = Silent
  /\ UNCHANGED <<rows, srv, pending, ops, alone, sound>>

(* Mutant: removeRrSet returns without generating the chain again. *)
RemoveRowOnly(t) ==
  /\ tool[t].pc = "rmRow"
  /\ RemoveId(tool[t].old.id)
  /\ Done(t)
  /\ Disturb({t}) /\ out' = Silent
  /\ UNCHANGED <<srv, pending, ops>>

RemoveRow(t) ==
  /\ tool[t].pc = "rmRow"
  /\ RemoveId(tool[t].old.id)
  /\ Goto(t, "doeClear")
  /\ Disturb({t}) /\ out' = Silent
  /\ UNCHANGED <<srv, pending, ops>>

-----------------------------------------------------------------------------
(* generateDoe: delete the chain, read the records, write the chain again. *)

(* r comes first in S, or last, in the order of Rrset::operator<. *)
IsFirst(r, S) == r \in S /\ \A x \in S \ {r} : RrsetLess(r, x)
IsLast(r, S) == r \in S /\ \A x \in S \ {r} : RrsetLess(x, r)

(* Mutant: the old chain is kept. *)
DoeKeep(t) ==
  /\ tool[t].pc = "doeClear"
  /\ Goto(t, "doeRead")
  /\ sound' = FALSE /\ alone' = {t} /\ out' = Silent
  /\ UNCHANGED <<rows, srv, pending, ops>>

DoeClear(t) ==
  /\ tool[t].pc = "doeClear"
  /\ rows' = Records
  /\ Goto(t, "doeRead")
  /\ sound' = FALSE /\ alone' = {t} /\ out' = Silent
  /\ UNCHANGED <<srv, pending, ops>>

(* An empty zone makes size() - 1 wrap: the loop reads past the vector and  *)
(* the tool dies.                                                           *)
DoeRead(t) ==
  /\ tool[t].pc = "doeRead"
  /\ \E recs \in {rows} \cup (IF Busy THEN {{}} ELSE {}) :
       IF recs = {} THEN Done(t)
       ELSE tool' = [tool EXCEPT ![t].pc = "doeInsert",
                                 ![t].recs = recs, ![t].left = recs]
  /\ out' = Silent
  /\ UNCHANGED <<rows, srv, pending, ops, alone, sound>>

(* One range per record, in ascending order; the last one closes the cycle. *)
DoeInsert(t) ==
  LET left == tool[t].left
      recs == tool[t].recs
  IN
  /\ tool[t].pc = "doeInsert"
  /\ \E r \in left, s \in recs :
       /\ IsFirst(r, left)
       /\ IsFirst(s, IF left = {r} THEN recs ELSE left \ {r})
       /\ Insert(KeyName(r), DOE, 0, "DOE", KeyName(r), KeyName(s))
       /\ tool' = [tool EXCEPT ![t].left = left \ {r},
                               ![t].pc = IF left = {r} THEN "doeGuard" ELSE @]
  /\ Disturb({t}) /\ out' = Silent
  /\ UNCHANGED <<srv, pending, ops>>

(* Mutant: the guard is not written. *)
DoeNoGuard(t) ==
  /\ tool[t].pc = "doeGuard"
  /\ Done(t)
  /\ sound' = (t \in alone) /\ alone' = {} /\ out' = Silent
  /\ UNCHANGED <<rows, srv, pending, ops>>

(* The guard: a copy of the last range under the empty label. *)
DoeGuard(t) ==
  /\ tool[t].pc = "doeGuard"
  /\ \E r \in tool[t].recs, s \in tool[t].recs :
       /\ IsLast(r, tool[t].recs) /\ IsFirst(s, tool[t].recs)
       /\ Insert(<<>>, DOE, 0, "DOE", KeyName(r), KeyName(s))
  /\ Done(t)
  /\ sound' = (t \in alone) /\ alone' = {} /\ out' = Silent
  /\ UNCHANGED <<srv, pending, ops>>

(* An exception from the unique index ends the command.  The version of a   *)
(* DoE row is a timestamp: two rows of one label may or may not share it.   *)
ToolConflict(t) ==
  /\ \/ /\ tool[t].pc = "authInsert"
        /\ \E v \in AuthVersions : Conflicts(Prefix(t), NS, v)
     \/ /\ tool[t].pc = "insert"
        /\ Conflicts(tool[t].req.label, tool[t].req.type, tool[t].req.ver)
     \/ /\ tool[t].pc = "doeInsert"
        /\ \E r \in tool[t].left :
             IsFirst(r, tool[t].left) /\ \E d \in rows : d.type = DOE /\ d.label = KeyName(r)
     \/ /\ tool[t].pc = "doeGuard"
        /\ \E d \in rows : d.type = DOE /\ d.label = <<>>
  /\ Done(t)
  /\ out' = Silent
  /\ UNCHANGED <<rows, srv, pending, ops, alone, sound>>

(* The tool is killed, or a locked file makes its next statement throw. *)
ToolAbort(t) ==
  /\ ~Idle(t)
  /\ \/ Kills
     \/ Busy /\ tool[t].pc \in {"authInsert", "rmOld", "insert", "rmRow",
                                "doeClear", "doeInsert", "doeGuard"}
  /\ Done(t)
  /\ out' = Silent
  /\ UNCHANGED <<rows, srv, pending, ops, alone, sound>>

-----------------------------------------------------------------------------
(* NameServer: the daemon's event loop. *)

ServerStart == Overlap \/ \A t \in Tools : Idle(t)
Reply(kind, req, lo, hi) == out' = [kind |-> kind, req |-> req, lo |-> lo, hi |-> hi]

(* handleQuery, first statement: the record answers when it is found and,   *)
(* if a version was asked for, has it.                                      *)
HandleQuery ==
  /\ srv.pc = "idle" /\ ServerStart
  /\ \E q \in Queries : \E r \in Find(q.label, q.type) :
       IF r # NoRow /\ q.ver \in {0, r.ver}
       THEN /\ Reply("data", [AsReq(q) EXCEPT !.ver = r.ver, !.ct = r.ct], r.lo, r.hi)
            /\ UNCHANGED srv
       ELSE /\ srv' = [IdleServer EXCEPT !.pc = "doe", !.req = AsReq(q)]
            /\ out' = Silent
  /\ UNCHANGED <<rows, tool, pending, ops, alone, sound>>

(* handleQuery, second statement: a NACK around the DoE row below the name; *)
(* without one the exception ends the daemon.                               *)
DenyQuery ==
  /\ srv.pc = "doe"
  /\ \E d \in FindLowerBound(KeyName(srv.req)) :
       IF d = NoRow
       THEN /\ srv' = [IdleServer EXCEPT !.pc = "down"]
            /\ pending' = {}
            /\ out' = Silent
       ELSE /\ srv' = IdleServer
            /\ UNCHANGED pending
            /\ Reply("nack", srv.req, d.lo, d.hi)
  /\ UNCHANGED <<rows, tool, ops, alone, sound>>

(* handleUpdate: the validator takes the update; its verdict comes later. *)
HandleUpdate ==
  /\ srv.pc = "idle" /\ ops < MaxOps
  /\ \E u \in UpdReqs : pending' = pending \cup {u}
  /\ ops' = ops + 1 /\ out' = Silent
  /\ UNCHANGED <<rows, tool, srv, alone, sound>>

RejectUpdate ==
  /\ srv.pc = "idle"
  /\ \E u \in pending : pending' = pending \ {u}
  /\ out' = Silent
  /\ UNCHANGED <<rows, tool, srv, ops, alone, sound>>

(* doUpdate, first statement: find the record and compare versions. *)
DoUpdate ==
  /\ srv.pc = "idle" /\ ServerStart
  /\ \E u \in pending :
       /\ pending' = pending \ {u}
       /\ \E r \in Find(u.label, u.type) :
            IF r = NoRow
            THEN srv' = [IdleServer EXCEPT !.pc = "insert", !.req = u] /\ out' = Silent
            ELSE IF u.ver > r.ver
            THEN srv' = [pc |-> "update", req |-> u, old |-> r] /\ out' = Silent
            ELSE UNCHANGED srv /\ Reply("fail", u, <<>>, <<>>)
  /\ UNCHANGED <<rows, tool, ops, alone, sound>>

(* doUpdate, replacement: UPDATE by the id found.  The result of the        *)
(* statement is not looked at.                                              *)
DoUpdateReplace ==
  /\ srv.pc = "update"
  /\ \/ UpdateId(srv.old.id, srv.req.ver, srv.req.ct)
     \/ Busy /\ UNCHANGED rows
  /\ srv' = IdleServer
  /\ Reply("ok", srv.req, <<>>, <<>>)
  /\ UNCHANGED <<tool, pending, ops, alone, sound>>

(* doUpdate, new record: INSERT; the chain is not generated again. *)
DoUpdateInsert ==
  LET req == srv.req IN
  /\ srv.pc = "insert"
  /\ IF Conflicts(req.label, req.type, req.ver)
     THEN UNCHANGED <<rows, sound, alone>> /\ Reply("fail", req, <<>>, <<>>)
     ELSE \/ /\ Insert(req.label, req.type, req.ver, req.ct, <<>>, <<>>)
             /\ Disturb({})
             /\ Reply("ok", req, <<>>, <<>>)
          \/ /\ Busy
             /\ UNCHANGED <<rows, sound, alone>> /\ Reply("fail", req, <<>>, <<>>)
  /\ srv' = IdleServer
  /\ UNCHANGED <<tool, pending, ops>>

(* The daemon is killed; whatever it was doing or validating is forgotten. *)
ServerKill ==
  /\ Kills /\ srv.pc # "down"
  /\ srv' = [IdleServer EXCEPT !.pc = "down"]
  /\ pending' = {} /\ out' = Silent
  /\ UNCHANGED <<rows, tool, ops, alone, sound>>

(* The daemon is started (again): its constructor finds the zone. *)
ServerRestart ==
  /\ srv.pc = "down"
  /\ srv' = IdleServer
  /\ out' = Silent
  /\ UNCHANGED <<rows, tool, pending, ops, alone, sound>>

-----------------------------------------------------------------------------
ToolStep(t) ==
  \/ CheckAuth(t) \/ CheckLink(t) \/ CheckOverride(t)
  \/ FindAuth(t) \/ InsertAuth(t)
  \/ CheckRrsetVersion(t) \/ RemoveOld(t) \/ InsertRrset(t)
  \/ FindForRemoval(t) \/ RemoveRow(t)
  \/ DoeClear(t) \/ DoeRead(t) \/ DoeInsert(t) \/ DoeGuard(t)
  \/ ToolConflict(t)

ToolNext(t) ==
  \/ StartAdd(t) \/ StartAddFromFile(t) \/ StartRemove(t)
  \/ ToolStep(t) \/ ToolAbort(t)

ServerStep == DenyQuery \/ DoUpdateReplace \/ DoUpdateInsert

ServerNext ==
  \/ HandleQuery \/ HandleUpdate \/ RejectUpdate \/ DoUpdate
  \/ ServerStep \/ ServerKill \/ ServerRestart

Next == (\E t \in Tools : ToolNext(t)) \/ ServerNext

Spec == Init /\ [][Next]_vars

(* A running tool and a running daemon keep executing statements. *)
FairSpec ==
  /\ Spec
  /\ \A t \in Tools : WF_vars(ToolStep(t))
  /\ WF_vars(ServerStep) /\ WF_vars(ServerRestart)

-----------------------------------------------------------------------------
(* Correctness properties. *)

ToolState ==
  [pc : ToolPcs, req : Req, i : Nat, old : Row, recs : SUBSET Row, left : SUBSET Row]
ServerState == [pc : ServerPcs, req : Req, old : Row]
Output == [kind : {"none", "data", "nack", "ok", "fail"}, req : Req, lo : Name, hi : Name]

(* Every variable keeps the shape the code gives it. *)
TypeOK ==
  /\ rows \subseteq Row
  /\ tool \in [Tools -> ToolState]
  /\ srv \in ServerState
  /\ pending \subseteq UpdReqs
  /\ out \in Output
  /\ ops \in 0 .. MaxOps
  /\ alone \subseteq Tools
  /\ sound \in BOOLEAN

(* find, remove and update address "the" record of a label and type: the    *)
(* table never holds two records (of different versions) of one label and   *)
(* type, although its index would allow that.                               *)
UniqueRecord == \A r, s \in Records : SameKey(r, s) => r = s

(* After a generateDoe that nobody disturbed, and until a record comes or   *)
(* goes, no range of the stored chain covers an existing record: a NACK     *)
(* never denies what the zone holds.                                        *)
DoeSound ==
  sound /\ UniqueRecord =>
    \A d \in rows, r \in Records :
      d.type = DOE => ~InRange(d.lo, d.hi, KeyName(r))

(* ... and the row findLowerBound picks for an absent label/type is one the *)
(* client's isAbsentByDoe accepts; a client that is not convinced throws.   *)
DenialAccepted ==
  sound /\ UniqueRecord /\ Cardinality(Records) > 1 =>
    \A q \in Queries :
      (\A r \in Records : ~SameKey(r, q)) =>
        LET ds == FindLowerBound(KeyName(q)) \ {NoRow}
        IN  ds # {} /\ \A d \in ds : isAbsentByDoe(d.lo, d.hi, KeyName(q))

(* UPDATE_OK is answered only when the record carried by the update is in   *)
(* the table.                                                               *)
UpdateAckStored ==
  out.kind = "ok" => \E r \in rows : SameKey(r, out.req) /\ r.ver = out.req.ver

(* No query brings the daemon down. *)
NeverExits == [][srv.pc = "down" \/ srv'.pc # "down"]_vars

(* Every proper prefix of a label added by ndns-add-rr keeps an AUTH record *)
(* at its NS entry, so that a resolver walking down the label goes on in    *)
(* this zone; whatever moment a command is killed at, and whichever of two  *)
(* commands wins.  A record with a version only updates carry is not one    *)
(* that ndns-add-rr stored: doUpdate adds no AUTH records.                  *)
AuthClosed ==
  \A r \in Records : \A req \in AddReqs :
    SameKey(r, req) /\ r.ver = req.ver =>
      \A i \in 1 .. Len(r.label) - 1 :
        \E a \in Records : a.label = SubSeq(r.label, 1, i) /\ a.type = NS /\ a.ct = "AUTH"

(* With no process at work, no stored range covers an existing record. *)
QuiescentDoeSound ==
  (\A t \in Tools : Idle(t)) /\ srv.pc = "idle" =>
    \A d \in rows, r \in Records :
      d.type = DOE => ~InRange(d.lo, d.hi, KeyName(r))

(* checkRrsetVersion takes away a version only if the one that is to take   *)
(* its place is newer than what the table holds at that moment.             *)
NewerKept ==
  [][\A t \in Tools : tool[t].pc = "rmOld" /\ tool'[t].pc = "insert" =>
       \A r \in rows \ rows' : r.ver < tool[t].req.ver]_vars

(* A command that is about to change the records makes the stored chain     *)
(* worthless, and before it ends generateDoe has written a sound one: from  *)
(* the change on there is no sound chain until the command is over, and     *)
(* then there is.  (An AUTH record stored by an add that is then refused    *)
(* is not followed by generateDoe at all, management-tool.cpp:287-290.)     *)
ChainRegenerated ==
  \A t \in Tools :
    tool[t].pc \in {"rmOld", "insert", "rmRow"} ~> (~sound /\ <>(Idle(t) /\ sound))
=============================================================================
