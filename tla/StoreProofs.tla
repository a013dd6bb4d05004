---------------------------- MODULE StoreProofs ----------------------------
(***************************************************************************)
(* As long as one process at a time changes the table, it holds at most    *)
(* one record of a label and type; when operations do not overlap at all,  *)
(* tools and daemon together implement RecordStore, and the daemon does    *)
(* not exit.  Above every label stored by ndns-add-rr there are AUTH       *)
(* records, when operations do not overlap and also when they do but no    *)
(* command removes a record.                                               *)
(***************************************************************************)
EXTENDS AuthorityStore, AuthorityProofs

(* The daemon takes no update and there is one tool, or operations do not   *)
(* overlap; and no statement fails because the file is locked.              *)
OneWriter ==
  /\ ~Busy
  /\ ~Overlap \/ (UpdReqs = {} /\ \A t, u \in Tools : t = u)

-----------------------------------------------------------------------------
(* The inductive invariant. *)

(* A row is addressed by its id, and no row has the id of NoRow. *)
IdsGiven == IdsUnique /\ \A r \in rows : r.id > 0

(* At most one process is between two statements of a change. *)
Exclusive ==
  /\ \A t, u \in Tools : ~Idle(t) /\ ~Idle(u) => t = u
  /\ srv.pc \in {"update", "insert"} => \A t \in Tools : Idle(t)
  /\ srv.pc = "doe" /\ ~Overlap => \A t \in Tools : Idle(t)

Absent(label, type) == \A r \in Records : ~(r.label = label /\ r.type = type)

(* old is stored, and req may take its place. *)
GivesWay(old, req) == SameKey(old, req) /\ old.ver < req.ver

(* What a command has found out is still so when it acts on it. *)
ToolSees(t) ==
  LET pc == tool[t].pc
      req == tool[t].req
      old == tool[t].old
  IN
  /\ pc \in {"auth", "link", "override", "authFind", "authInsert", "ver", "rmOld",
             "insert", "rmFind", "rmRow"} => req.type # DOE
  /\ pc \in {"auth", "link", "override", "authFind", "authInsert", "ver"} => old = NoRow
  /\ pc = "authInsert" => Absent(Prefix(t), NS)
  /\ pc = "rmOld" => old \in rows /\ GivesWay(old, req)
  /\ pc = "insert" => Absent(req.label, req.type) /\ (old = NoRow \/ GivesWay(old, req))
  /\ pc = "rmRow" => old \in Records

(* So is what the daemon has found out. *)
ServerSees ==
  LET req == srv.req IN
  /\ srv.pc \in {"update", "insert"} => req \in UpdReqs
  /\ srv.pc = "update" => srv.old \in rows /\ GivesWay(srv.old, req)
  /\ srv.pc = "insert" => Absent(req.label, req.type)
  /\ srv.pc = "doe" /\ ~Overlap =>
       \A r \in Records : SameKey(r, req) => req.ver \notin {0, r.ver}

StoreInv ==
  /\ IdsGiven /\ Exclusive /\ UniqueRecord
  /\ \A t \in Tools : ToolSees(t)
  /\ ServerSees

-----------------------------------------------------------------------------
(* What the statements do. *)

(* SELECT finds a row of the label and type unless there is none. *)
LEMMA FindExact ==
  ASSUME ~Busy, IdsGiven, NEW label, NEW type, NEW r \in Find(label, type)
  PROVE  /\ r # NoRow => r \in rows /\ r.label = label /\ r.type = type
         /\ r = NoRow => \A s \in rows : ~(s.label = label /\ s.type = type)
<1> DEFINE hits == {s \in rows : s.label = label /\ s.type = type}
<1>1. NoRow \notin rows
  BY DEF IdsGiven, NoRow
<1>2. CASE hits = {}
  BY <1>2 DEF Find
<1>3. CASE hits # {}
  BY <1>1, <1>3 DEF Find
<1> QED BY <1>2, <1>3

(* INSERT adds the row it is given, under an id of its own. *)
LEMMA InsertRow ==
  ASSUME TypeOK, IdsGiven, NEW label, NEW type, NEW ver, NEW ct, NEW lo, NEW hi,
         Insert(label, type, ver, ct, lo, hi)
  PROVE  /\ IdsGiven'
         /\ \E n : /\ rows' = rows \cup {n}
                  /\ n.label = label /\ n.type = type /\ n.ver = ver /\ n.ct = ct
                  /\ n.lo = lo /\ n.hi = hi
<1>1. PICK m \in {r.id : r \in rows} \cup {0} :
        /\ \A r \in rows : r.id =< m
        /\ rows' = rows \cup {[id |-> m + 1, label |-> label, type |-> type,
                               ver |-> ver, ct |-> ct, lo |-> lo, hi |-> hi]}
  BY DEF Insert
<1>2. PICK n : n = [id |-> m + 1, label |-> label, type |-> type,
                    ver |-> ver, ct |-> ct, lo |-> lo, hi |-> hi]
  OBVIOUS
<1>3. m \in Nat /\ \A r \in rows : r.id \in Nat
  BY DEF TypeOK, Row
<1>4. n.id = m + 1 /\ n.id > 0 /\ \A r \in rows : r.id # n.id
  BY <1>1, <1>2, <1>3
<1>5. rows' = rows \cup {n}
  BY <1>1, <1>2
<1>6. /\ n.label = label /\ n.type = type /\ n.ver = ver /\ n.ct = ct
      /\ n.lo = lo /\ n.hi = hi
  BY <1>2
<1>7. IdsUnique'
  BY <1>4, <1>5 DEF IdsGiven, IdsUnique
<1>8. \A r \in rows' : r.id > 0
  BY <1>4, <1>5 DEF IdsGiven
<1> QED BY <1>5, <1>6, <1>7, <1>8 DEF IdsGiven

(* A record no other has the label and type of keeps the table unique. *)
LEMMA InsertUnique ==
  ASSUME UniqueRecord, NEW n, rows' = rows \cup {n}, n.type # DOE => Absent(n.label, n.type)
  PROVE  UniqueRecord'
BY DEF UniqueRecord, Records, Absent, SameKey

(* DELETE of a stored row takes away that row and no other. *)
LEMMA RemoveExact ==
  ASSUME IdsGiven, NEW old \in rows, RemoveId(old.id)
  PROVE  rows' = rows \ {old} /\ IdsGiven'
<1>1. rows' = rows \ {old}
  BY DEF RemoveId, IdsGiven, IdsUnique
<1>2. IdsGiven'
  BY <1>1 DEF IdsGiven, IdsUnique
<1> QED BY <1>1, <1>2

(* Taking rows away keeps the table unique. *)
LEMMA FewerUnique ==
  ASSUME UniqueRecord, \A r \in rows' : r \in rows
  PROVE  UniqueRecord'
BY DEF UniqueRecord, Records

(* The index never refuses to update a record that is the only one of its   *)
(* label and type.                                                          *)
LEMMA UpdateExact ==
  ASSUME TypeOK, IdsGiven, UniqueRecord, NEW old \in Records,
         NEW ver \in Nat, NEW ct \in ContentType, UpdateId(old.id, ver, ct)
  PROVE  /\ IdsGiven' /\ UniqueRecord'
         /\ \E n : /\ rows' = (rows \ {old}) \cup {n}
                   /\ SameKey(n, old) /\ n.ver = ver /\ n.ct = ct
<1> DEFINE Up(r) == Updated(r, old.id, ver, ct)
<1>1. old \in rows /\ old.type # DOE /\ old \in Row /\ \A r \in rows : r \in Row
  BY DEF Records, TypeOK
<1>2. ~\E r, s \in rows : r.id = old.id /\ s.id # old.id /\ SameKey(r, s) /\ s.ver = ver
  <2> SUFFICES ASSUME NEW r \in rows, NEW s \in rows,
                      r.id = old.id, s.id # old.id, SameKey(r, s)
               PROVE  FALSE
    OBVIOUS
  <2>1. r = old
    BY <1>1 DEF IdsGiven, IdsUnique
  <2>2. s \in Records
    BY <1>1, <2>1 DEF Records, SameKey
  <2> QED BY <2>1, <2>2 DEF UniqueRecord
<1>3. rows' = {Up(r) : r \in rows}
  BY <1>2 DEF UpdateId
<1>4. \A r \in rows : r # old => Up(r) = r
  BY <1>1 DEF IdsGiven, IdsUnique, Updated
<1>5. PICK n : n = [old EXCEPT !.ver = ver, !.ct = ct]
  OBVIOUS
<1>6. Up(old) = n
  BY <1>5 DEF Updated
<1>7. n.id = old.id /\ SameKey(n, old) /\ n.ver = ver /\ n.ct = ct
  BY <1>1, <1>5 DEF Row, SameKey
<1>8. rows' = (rows \ {old}) \cup {n}
  <2> HIDE DEF Up
  <2> QED BY <1>1, <1>3, <1>4, <1>6
<1>9. IdsGiven'
  BY <1>1, <1>7, <1>8 DEF IdsGiven, IdsUnique
<1>10. UniqueRecord'
  BY <1>7, <1>8 DEF UniqueRecord, Records, SameKey
<1> QED BY <1>7, <1>8, <1>9, <1>10

-----------------------------------------------------------------------------
(* What a step leaves to be shown. *)

(* While a command is at work nobody else acts on what he has seen. *)
LEMMA CommandStep ==
  ASSUME StoreInv, NEW t \in Tools, ~Idle(t), UNCHANGED srv,
         \A u \in Tools \ {t} : tool'[u] = tool[u],
         IdsGiven', UniqueRecord', ToolSees(t)'
  PROVE  StoreInv'
<1>1. \A u \in Tools \ {t} : tool[u].pc = "idle" /\ tool'[u].pc = "idle"
  BY DEF StoreInv, Exclusive, Idle
<1>2. \A u \in Tools : ToolSees(u)'
  <2> TAKE u \in Tools
  <2>1. CASE u = t
    BY <2>1
  <2>2. CASE u # t
    BY <1>1, <2>2 DEF ToolSees
  <2> QED BY <2>1, <2>2
<1>3. srv.pc \notin {"update", "insert"} /\ (srv.pc = "doe" => Overlap)
  BY DEF StoreInv, Exclusive
<1>4. Exclusive'
  BY <1>1, <1>3 DEF Exclusive, Idle
<1>5. ServerSees'
  BY <1>3 DEF ServerSees
<1> QED BY <1>2, <1>4, <1>5 DEF StoreInv

(* A command that only reads has just its own findings to account for. *)
LEMMA ReaderStep ==
  ASSUME StoreInv, NEW t \in Tools, ~Idle(t), UNCHANGED <<rows, srv>>,
         \A u \in Tools \ {t} : tool'[u] = tool[u],
         ToolSees(t)'
  PROVE  StoreInv'
<1>1. IdsGiven' /\ UniqueRecord'
  BY DEF StoreInv, IdsGiven, IdsUnique, UniqueRecord, Records
<1> QED BY <1>1, CommandStep

(* Nor does the end of a command leave anything behind. *)
LEMMA DoneStep ==
  ASSUME TypeOK, StoreInv, NEW t \in Tools, ~Idle(t), UNCHANGED <<rows, srv>>, Done(t)
  PROVE  StoreInv'
<1>1. tool'[t].pc = "idle" /\ \A u \in Tools \ {t} : tool'[u] = tool[u]
  BY DoneType
<1>2. ToolSees(t)'
  BY <1>1 DEF ToolSees
<1> QED BY <1>1, <1>2, ReaderStep

-----------------------------------------------------------------------------
(* Commands. *)

(* A command starts when nobody else is changing the table. *)
LEMMA StartStep ==
  ASSUME OneWriter, TypeOK, StoreInv, NEW t \in Tools,
         StartAdd(t) \/ StartAddFromFile(t) \/ StartRemove(t)
  PROVE  StoreInv'
<1>1. PICK pc, req : /\ StartCommand(t, pc, req) /\ req.type # DOE
                     /\ pc \in {"link", "auth", "ver", "rmFind"}
  <2>0. /\ \A r \in AddReqs \cup FileReqs : r.type # DOE
        /\ \A k \in RmKeys : RmReq(k).type # DOE
    BY ConstantsAssumption DEF RmReq
  <2>1. CASE StartAdd(t)
    <3>1. PICK r \in AddReqs : StartCommand(t, IF Len(r.label) > 1 THEN "link" ELSE "auth", r)
      BY <2>1 DEF StartAdd
    <3> QED BY <2>0, <3>1
  <2>2. CASE StartAddFromFile(t)
    <3>1. PICK r \in FileReqs : StartCommand(t, "ver", r)
      BY <2>2 DEF StartAddFromFile
    <3> QED BY <2>0, <3>1
  <2>3. CASE StartRemove(t)
    <3>1. PICK k \in RmKeys : StartCommand(t, "rmFind", RmReq(k))
      BY <2>3 DEF StartRemove
    <3> QED BY <2>0, <3>1
  <2> QED BY <2>1, <2>2, <2>3
<1>2. /\ UNCHANGED <<rows, srv>>
      /\ Idle(t) /\ (Overlap \/ (ServerQuiet /\ \A u \in Tools : Idle(u)))
  BY <1>1 DEF StartCommand
<1>3. /\ \A u \in Tools \ {t} : tool'[u] = tool[u]
      /\ tool'[t].pc = pc /\ tool'[t].req = req /\ tool'[t].old = NoRow
  BY <1>1 DEF StartCommand, TypeOK, IdleTool
<1>4. IdsGiven' /\ UniqueRecord' /\ Records' = Records
  BY <1>2 DEF StoreInv, IdsGiven, IdsUnique, UniqueRecord, Records
<1>5. ToolSees(t)'
  BY <1>1, <1>3 DEF ToolSees
<1>6. \A u \in Tools : ToolSees(u)'
  <2> TAKE u \in Tools
  <2>1. CASE u = t
    BY <1>5, <2>1
  <2>2. CASE u # t
    <3>1. ToolSees(u) /\ tool'[u] = tool[u]
      BY <1>3, <2>2 DEF StoreInv
    <3> QED BY <1>2, <1>4, <3>1 DEF ToolSees, Absent, Prefix
  <2> QED BY <2>1, <2>2
<1>7. ServerSees'
  BY <1>2, <1>4 DEF StoreInv, ServerSees, Absent
<1>8. Exclusive'
  <2>1. CASE Overlap
    <3>1. UpdReqs = {} /\ \A u, v \in Tools : u = v
      BY <2>1 DEF OneWriter
    <3>2. srv.pc \notin {"update", "insert"}
      BY <3>1 DEF StoreInv, ServerSees
    <3> QED BY <1>2, <2>1, <3>1, <3>2 DEF Exclusive
  <2>2. CASE ServerQuiet /\ \A u \in Tools : Idle(u)
    BY <1>2, <1>3, <2>2 DEF Exclusive, Idle, ServerQuiet
  <2> QED BY <1>2, <2>1, <2>2
<1> QED BY <1>4, <1>6, <1>7, <1>8 DEF StoreInv

(* The checks of addRrset and addMultiLevelLabelRrset. *)
LEMMA CheckStep ==
  ASSUME TypeOK, StoreInv, NEW t \in Tools,
         CheckAuth(t) \/ CheckLink(t) \/ CheckOverride(t)
  PROVE  StoreInv'
<1>1. UNCHANGED <<rows, srv>> /\ tool[t] \in ToolState
      /\ tool[t].pc \in {"auth", "link", "override"} /\ ToolSees(t)
  BY DEF CheckAuth, CheckLink, CheckOverride, TypeOK, StoreInv
<1>2. CASE Done(t)
  BY <1>1, <1>2, DoneStep DEF Idle
<1>3. ASSUME NEW pc \in {"ver", "authFind"}, Goto(t, pc) PROVE StoreInv'
  <2>1. /\ \A u \in Tools \ {t} : tool'[u] = tool[u]
        /\ tool'[t].pc = pc /\ tool'[t].req = tool[t].req /\ tool'[t].old = tool[t].old
    BY <1>1, <1>3, GotoType DEF ToolState, ToolPcs
  <2>2. ToolSees(t)'
    BY <1>1, <2>1 DEF ToolSees
  <2> QED BY <1>1, <2>1, <2>2, ReaderStep DEF Idle
<1>4. CASE tool' = [tool EXCEPT ![t].pc = IF LastPrefix(t) THEN "override" ELSE "link",
                                ![t].i = IF LastPrefix(t) THEN 1 ELSE @ + 1]
  <2>1. /\ \A u \in Tools \ {t} : tool'[u] = tool[u]
        /\ tool'[t].pc \in {"override", "link"}
        /\ tool'[t].req = tool[t].req /\ tool'[t].old = tool[t].old
    BY <1>1, <1>4 DEF TypeOK, ToolState
  <2>2. ToolSees(t)'
    BY <1>1, <2>1 DEF ToolSees
  <2> QED BY <1>1, <2>1, <2>2, ReaderStep DEF Idle
<1> QED BY <1>2, <1>3, <1>4 DEF CheckAuth, CheckLink, CheckOverride

(* The next prefix: nothing has been found out about it yet. *)
LEMMA NextPrefixSees ==
  ASSUME TypeOK, StoreInv, NEW t \in Tools, NextPrefix(t),
         tool[t].pc \in {"authFind", "authInsert"}
  PROVE  /\ \A u \in Tools \ {t} : tool'[u] = tool[u]
         /\ ToolSees(t)'
<1>1. tool[t] \in ToolState /\ ToolSees(t)
  BY DEF TypeOK, StoreInv
<1>2. /\ \A u \in Tools \ {t} : tool'[u] = tool[u]
      /\ tool'[t].pc \in {"ver", "authFind"}
      /\ tool'[t].req = tool[t].req /\ tool'[t].old = tool[t].old
  BY <1>1 DEF NextPrefix, TypeOK, ToolState
<1>3. ToolSees(t)'
  BY <1>1, <1>2 DEF ToolSees
<1> QED BY <1>2, <1>3

(* The second loop looks for the NS record of a prefix ... *)
LEMMA FindAuthStep ==
  ASSUME ~Busy, TypeOK, StoreInv, NEW t \in Tools, FindAuth(t)
  PROVE  StoreInv'
<1>1. UNCHANGED <<rows, srv>> /\ tool[t] \in ToolState
      /\ tool[t].pc = "authFind" /\ ToolSees(t) /\ IdsGiven
  BY DEF FindAuth, TypeOK, StoreInv
<1>2. PICK r \in Find(Prefix(t), NS) :
        IF r # NoRow THEN NextPrefix(t) ELSE Goto(t, "authInsert")
  BY DEF FindAuth
<1>3. CASE r # NoRow
  BY <1>1, <1>2, <1>3, NextPrefixSees, ReaderStep DEF Idle
<1>4. CASE r = NoRow
  <2>1. \A s \in rows : ~(s.label = Prefix(t) /\ s.type = NS)
    BY <1>1, <1>4, FindExact
  <2>2. /\ \A u \in Tools \ {t} : tool'[u] = tool[u]
        /\ tool'[t].pc = "authInsert"
        /\ tool'[t] = [tool[t] EXCEPT !.pc = "authInsert"]
    BY <1>2, <1>4, GotoType DEF ToolPcs
  <2>3. tool'[t].req = tool[t].req /\ tool'[t].old = tool[t].old /\ tool'[t].i = tool[t].i
    BY <1>1, <2>2 DEF ToolState
  <2>4. Absent(Prefix(t), NS)'
    BY <1>1, <2>1, <2>3 DEF Absent, Records, Prefix
  <2>5. ToolSees(t)'
    BY <1>1, <2>2, <2>3, <2>4 DEF ToolSees
  <2> QED BY <1>1, <2>2, <2>5, ReaderStep DEF Idle
<1> QED BY <1>3, <1>4

(* ... and stores an AUTH record where there is none. *)
LEMMA InsertAuthStep ==
  ASSUME TypeOK, StoreInv, NEW t \in Tools, InsertAuth(t)
  PROVE  StoreInv'
<1>1. UNCHANGED srv /\ tool[t].pc = "authInsert" /\ ToolSees(t) /\ NextPrefix(t)
  BY DEF InsertAuth, StoreInv
<1>2. PICK v \in AuthVersions : Insert(Prefix(t), NS, v, "AUTH", <<>>, <<>>)
  BY DEF InsertAuth
<1>3. IdsGiven'
  BY <1>2, InsertRow DEF StoreInv
<1>4. PICK n : rows' = rows \cup {n} /\ n.label = Prefix(t) /\ n.type = NS
  BY <1>2, InsertRow DEF StoreInv
<1>5. Absent(n.label, n.type)
  BY <1>1, <1>4 DEF ToolSees
<1>6. UniqueRecord'
  BY <1>4, <1>5, InsertUnique DEF StoreInv
<1> QED BY <1>1, <1>3, <1>6, NextPrefixSees, CommandStep DEF Idle

(* checkRrsetVersion and removeRrSet look for the record itself. *)
LEMMA FindOldStep ==
  ASSUME ~Busy, TypeOK, StoreInv, NEW t \in Tools, CheckRrsetVersion(t) \/ FindForRemoval(t)
  PROVE  StoreInv'
<1>1. UNCHANGED <<rows, srv>> /\ tool[t] \in ToolState
      /\ tool[t].pc \in {"ver", "rmFind"} /\ ToolSees(t) /\ IdsGiven
  BY DEF CheckRrsetVersion, FindForRemoval, TypeOK, StoreInv
<1> DEFINE req == tool[t].req
<1>2. PICK r \in Find(req.label, req.type) :
        \/ Done(t)
        \/ r = NoRow /\ tool[t].pc = "ver" /\ Goto(t, "insert")
        \/ /\ r # NoRow /\ tool[t].pc = "ver" /\ ~(r.ver >= req.ver)
           /\ tool' = [tool EXCEPT ![t].pc = "rmOld", ![t].old = r]
        \/ /\ r # NoRow /\ tool[t].pc = "rmFind"
           /\ tool' = [tool EXCEPT ![t].pc = "rmRow", ![t].old = r]
  BY DEF CheckRrsetVersion, FindForRemoval
<1>3. CASE Done(t)
  BY <1>1, <1>3, DoneStep DEF Idle
<1>4. CASE r = NoRow /\ tool[t].pc = "ver" /\ Goto(t, "insert")
  <2>1. \A s \in rows : ~(s.label = req.label /\ s.type = req.type)
    BY <1>1, <1>2, <1>4, FindExact
  <2>2. /\ \A u \in Tools \ {t} : tool'[u] = tool[u]
        /\ tool'[t].pc = "insert"
        /\ tool'[t] = [tool[t] EXCEPT !.pc = "insert"]
    BY <1>4, GotoType DEF ToolPcs
  <2>3. tool'[t].req = tool[t].req /\ tool'[t].old = tool[t].old
    BY <1>1, <2>2 DEF ToolState
  <2>4. Absent(req.label, req.type)'
    BY <1>1, <2>1, <2>3 DEF Absent, Records
  <2>5. ToolSees(t)'
    BY <1>1, <1>4, <2>2, <2>3, <2>4 DEF ToolSees
  <2> QED BY <1>1, <2>2, <2>5, ReaderStep DEF Idle
<1>5. CASE r # NoRow /\ \E pc \in {"rmOld", "rmRow"} :
             /\ pc = "rmOld" => tool[t].pc = "ver" /\ ~(r.ver >= req.ver)
             /\ pc = "rmRow" => tool[t].pc = "rmFind"
             /\ tool' = [tool EXCEPT ![t].pc = pc, ![t].old = r]
  <2>1. PICK pc \in {"rmOld", "rmRow"} :
             /\ pc = "rmOld" => tool[t].pc = "ver" /\ ~(r.ver >= req.ver)
             /\ pc = "rmRow" => tool[t].pc = "rmFind"
             /\ tool' = [tool EXCEPT ![t].pc = pc, ![t].old = r]
    BY <1>5
  <2>2. r \in rows /\ r.label = req.label /\ r.type = req.type
    BY <1>1, <1>5, FindExact
  <2>3. /\ \A u \in Tools \ {t} : tool'[u] = tool[u]
        /\ tool'[t].pc = pc /\ tool'[t].req = req /\ tool'[t].old = r
    BY <1>1, <2>1 DEF TypeOK, ToolState
  <2>4. req.type # DOE
    BY <1>1 DEF ToolSees
  <2>5. r.ver \in Nat /\ req.ver \in Nat
    BY <1>1, <2>2 DEF TypeOK, Row, ToolState, Req
  <2>6. pc = "rmOld" => GivesWay(r, req)
    BY <2>1, <2>2, <2>5 DEF GivesWay, SameKey
  <2>7. r \in Records'
    BY <1>1, <2>2, <2>4 DEF Records
  <2>8. ToolSees(t)'
    BY <1>1, <2>1, <2>2, <2>3, <2>4, <2>6, <2>7 DEF ToolSees
  <2> QED BY <1>1, <2>3, <2>8, ReaderStep DEF Idle
<1> QED BY <1>2, <1>3, <1>4, <1>5

(* The old version goes first: then the label and type are free. *)
LEMMA RemoveOldStep ==
  ASSUME TypeOK, StoreInv, NEW t \in Tools, RemoveOld(t)
  PROVE  StoreInv'
<1>1. UNCHANGED srv /\ tool[t].pc = "rmOld" /\ ToolSees(t) /\ tool[t] \in ToolState
  BY DEF RemoveOld, StoreInv, TypeOK
<1> DEFINE old == tool[t].old
           req == tool[t].req
<1>2. old \in rows /\ GivesWay(old, req) /\ req.type # DOE
  BY <1>1 DEF ToolSees
<1>3. rows' = rows \ {old} /\ IdsGiven'
  BY <1>2, RemoveExact DEF RemoveOld, StoreInv
<1>4. UniqueRecord'
  BY <1>3, FewerUnique DEF StoreInv
<1>5. /\ \A u \in Tools \ {t} : tool'[u] = tool[u]
      /\ tool'[t].pc = "insert"
      /\ tool'[t] = [tool[t] EXCEPT !.pc = "insert"]
  BY GotoType DEF RemoveOld, ToolPcs
<1>6. tool'[t].req = tool[t].req /\ tool'[t].old = tool[t].old
  BY <1>1, <1>5 DEF ToolState
<1>7. Absent(req.label, req.type)'
  <2> SUFFICES ASSUME NEW r \in Records', r.label = req.label, r.type = req.type
               PROVE  FALSE
    BY <1>6 DEF Absent
  <2>1. r \in Records /\ r # old
    BY <1>3 DEF Records
  <2>2. old \in Records /\ SameKey(r, old)
    BY <1>2 DEF Records, GivesWay, SameKey
  <2> QED BY <2>1, <2>2 DEF StoreInv, UniqueRecord
<1>8. ToolSees(t)'
  BY <1>2, <1>5, <1>6, <1>7 DEF ToolSees
<1> QED BY <1>1, <1>3, <1>4, <1>5, <1>8, CommandStep DEF Idle

(* The INSERT of the record, or the DELETE of removeRrSet. *)
LEMMA ChangeStep ==
  ASSUME TypeOK, StoreInv, NEW t \in Tools, InsertRrset(t) \/ RemoveRow(t)
  PROVE  StoreInv'
<1>1. UNCHANGED srv /\ tool[t].pc \in {"insert", "rmRow"} /\ ToolSees(t)
      /\ Goto(t, "doeClear")
  BY DEF InsertRrset, RemoveRow, StoreInv
<1>2. tool'[t].pc = "doeClear" /\ \A u \in Tools \ {t} : tool'[u] = tool[u]
  BY <1>1, GotoType DEF ToolPcs
<1>3. ToolSees(t)'
  BY <1>2 DEF ToolSees
<1>4. IdsGiven' /\ UniqueRecord'
  <2>1. CASE InsertRrset(t)
    <3> DEFINE req == tool[t].req
    <3>1. Insert(req.label, req.type, req.ver, req.ct, <<>>, <<>>) /\ tool[t].pc = "insert"
      BY <2>1 DEF InsertRrset
    <3>2. IdsGiven'
      BY <3>1, InsertRow DEF StoreInv
    <3>3. PICK n : rows' = rows \cup {n} /\ n.label = req.label /\ n.type = req.type
      BY <3>1, InsertRow DEF StoreInv
    <3>4. Absent(n.label, n.type)
      BY <1>1, <3>1, <3>3 DEF ToolSees
    <3> QED BY <3>2, <3>3, <3>4, InsertUnique DEF StoreInv
  <2>2. CASE RemoveRow(t)
    <3>1. tool[t].old \in rows
      BY <1>1, <2>2 DEF RemoveRow, ToolSees, Records
    <3>2. rows' = rows \ {tool[t].old} /\ IdsGiven'
      BY <2>2, <3>1, RemoveExact DEF RemoveRow, StoreInv
    <3> QED BY <3>2, FewerUnique DEF StoreInv
  <2> QED BY <2>1, <2>2
<1> QED BY <1>1, <1>2, <1>3, <1>4, CommandStep DEF Idle

(* generateDoe writes no record: it deletes ranges, reads, inserts ranges. *)
LEMMA GenerateKeeps ==
  ASSUME TypeOK, IdsGiven, NEW t \in Tools,
         DoeClear(t) \/ DoeRead(t) \/ DoeInsert(t) \/ DoeGuard(t)
  PROVE  /\ IdsGiven' /\ Records' = Records
         /\ UNCHANGED srv
         /\ \A u \in Tools \ {t} : tool'[u] = tool[u]
         /\ tool[t].pc \in {"doeClear", "doeRead", "doeInsert", "doeGuard"}
         /\ tool'[t].pc \in {"idle", "doeRead", "doeInsert", "doeGuard"}
<1>1. tool[t] \in ToolState /\ tool \in [Tools -> ToolState]
  BY DEF TypeOK
<1>2. CASE DoeClear(t)
  <2>1. rows' = Records
    BY <1>2 DEF DoeClear
  <2>2. IdsGiven' /\ Records' = Records
    BY <2>1 DEF IdsGiven, IdsUnique, Records
  <2> QED BY <1>2, <2>2, GotoType DEF DoeClear, ToolPcs
<1>3. CASE DoeRead(t)
  <2>1. UNCHANGED <<rows, srv>> /\ tool[t].pc = "doeRead"
    BY <1>3 DEF DoeRead
  <2>2. IdsGiven' /\ Records' = Records
    BY <2>1 DEF IdsGiven, IdsUnique, Records
  <2>3. CASE Done(t)
    BY <2>1, <2>2, <2>3, DoneType
  <2>4. CASE \E recs : tool' = [tool EXCEPT ![t].pc = "doeInsert",
                                            ![t].recs = recs, ![t].left = recs]
    BY <1>1, <2>1, <2>2, <2>4 DEF ToolState
  <2> QED BY <1>3, <2>3, <2>4 DEF DoeRead
<1>4. ASSUME NEW label, NEW lo, NEW hi, Insert(label, DOE, 0, "DOE", lo, hi)
      PROVE  IdsGiven' /\ Records' = Records
  <2>1. IdsGiven'
    BY <1>4, InsertRow
  <2>2. PICK n : rows' = rows \cup {n} /\ n.type = DOE
    BY <1>4, InsertRow
  <2>3. Records' = Records
    BY <2>2 DEF Records
  <2> QED BY <2>1, <2>3
<1>5. CASE DoeInsert(t)
  <2>1. PICK r : tool' = [tool EXCEPT ![t].left = tool[t].left \ {r},
                             ![t].pc = IF tool[t].left = {r} THEN "doeGuard" ELSE @]
    BY <1>5 DEF DoeInsert
  <2>2. UNCHANGED srv /\ tool[t].pc = "doeInsert"
        /\ \E label, lo, hi : Insert(label, DOE, 0, "DOE", lo, hi)
    BY <1>5 DEF DoeInsert
  <2>3. /\ \A u \in Tools \ {t} : tool'[u] = tool[u]
        /\ tool'[t].pc \in {"doeInsert", "doeGuard"}
    BY <1>1, <2>1, <2>2 DEF ToolState
  <2> QED BY <1>4, <2>2, <2>3
<1>6. CASE DoeGuard(t)
  <2>1. UNCHANGED srv /\ tool[t].pc = "doeGuard" /\ Done(t)
        /\ \E label, lo, hi : Insert(label, DOE, 0, "DOE", lo, hi)
    BY <1>6 DEF DoeGuard
  <2> QED BY <1>4, <2>1, DoneType
<1> QED BY <1>2, <1>3, <1>5, <1>6

(* So it keeps the invariant. *)
LEMMA GenerateStoreStep ==
  ASSUME TypeOK, StoreInv, NEW t \in Tools,
         DoeClear(t) \/ DoeRead(t) \/ DoeInsert(t) \/ DoeGuard(t)
  PROVE  StoreInv'
<1>1. /\ IdsGiven' /\ Records' = Records
      /\ UNCHANGED srv
      /\ \A u \in Tools \ {t} : tool'[u] = tool[u]
      /\ tool[t].pc \in {"doeClear", "doeRead", "doeInsert", "doeGuard"}
      /\ tool'[t].pc \in {"idle", "doeRead", "doeInsert", "doeGuard"}
  BY GenerateKeeps DEF StoreInv
<1>2. UniqueRecord'
  BY <1>1 DEF StoreInv, UniqueRecord
<1>3. ToolSees(t)'
  BY <1>1 DEF ToolSees
<1> QED BY <1>1, <1>2, <1>3, CommandStep DEF Idle

(* A command that fails or is killed leaves the table as it is. *)
LEMMA EndStep ==
  ASSUME TypeOK, StoreInv, NEW t \in Tools, ToolConflict(t) \/ ToolAbort(t)
  PROVE  StoreInv'
<1>1. ~Idle(t) /\ UNCHANGED <<rows, srv>> /\ Done(t)
  BY DEF ToolConflict, ToolAbort, Idle
<1> QED BY <1>1, DoneStep

(* Every step of a command. *)
LEMMA ToolStoreStep ==
  ASSUME OneWriter, TypeOK, StoreInv, NEW t \in Tools, ToolNext(t)
  PROVE  StoreInv'
<1>1. ~Busy
  BY DEF OneWriter
<1> QED
  BY <1>1, StartStep, CheckStep, FindAuthStep, InsertAuthStep, FindOldStep,
     RemoveOldStep, ChangeStep, GenerateStoreStep, EndStep DEF ToolNext, ToolStep

-----------------------------------------------------------------------------
(* The daemon. *)

(* Events that do not touch the table. *)
LEMMA ServerReadStep ==
  ASSUME StoreInv, UNCHANGED <<rows, tool>>, ServerSees',
         srv'.pc \in {"update", "insert"} => \A t \in Tools : Idle(t),
         srv'.pc = "doe" /\ ~Overlap => \A t \in Tools : Idle(t)
  PROVE  StoreInv'
<1>1. IdsGiven' /\ UniqueRecord' /\ Records' = Records
  BY DEF StoreInv, IdsGiven, IdsUnique, UniqueRecord, Records
<1>2. \A t \in Tools : ToolSees(t)'
  <2> TAKE t \in Tools
  <2>1. ToolSees(t)
    BY DEF StoreInv
  <2> QED BY <1>1, <2>1 DEF ToolSees, Absent, Prefix
<1>3. Exclusive'
  BY DEF StoreInv, Exclusive, Idle
<1> QED BY <1>1, <1>2, <1>3 DEF StoreInv

(* A query that is denied asked for a version that is not stored. *)
LEMMA QueryStep ==
  ASSUME ~Busy, TypeOK, StoreInv, HandleQuery
  PROVE  StoreInv'
<1>1. UNCHANGED <<rows, tool>> /\ ServerStart /\ srv.pc = "idle" /\ Records' = Records
  BY DEF HandleQuery, Records
<1>2. PICK q \in Queries : \E r \in Find(q.label, q.type) :
        \/ UNCHANGED srv
        \/ /\ ~(r # NoRow /\ q.ver \in {0, r.ver})
           /\ srv' = [IdleServer EXCEPT !.pc = "doe", !.req = AsReq(q)]
  BY DEF HandleQuery
<1>3. PICK r \in Find(q.label, q.type) :
        \/ UNCHANGED srv
        \/ /\ ~(r # NoRow /\ q.ver \in {0, r.ver})
           /\ srv' = [IdleServer EXCEPT !.pc = "doe", !.req = AsReq(q)]
  BY <1>2
<1>4. CASE UNCHANGED srv
  <2>1. ServerSees'
    BY <1>1, <1>4 DEF ServerSees
  <2> QED BY <1>1, <1>4, <2>1, ServerReadStep
<1>5. CASE /\ ~(r # NoRow /\ q.ver \in {0, r.ver})
           /\ srv' = [IdleServer EXCEPT !.pc = "doe", !.req = AsReq(q)]
  <2>1. /\ srv'.pc = "doe"
        /\ srv'.req.label = q.label /\ srv'.req.type = q.type /\ srv'.req.ver = q.ver
    BY <1>5 DEF IdleServer, AsReq
  <2>2. ASSUME NEW s \in Records, s.label = q.label, s.type = q.type
        PROVE  q.ver \notin {0, s.ver}
    <3>1. r # NoRow
      BY <2>2, FindExact DEF StoreInv, Records
    <3>2. r \in rows /\ r.label = q.label /\ r.type = q.type
      BY <3>1, FindExact DEF StoreInv
    <3>3. r \in Records /\ SameKey(r, s)
      BY <2>2, <3>2 DEF Records, SameKey
    <3>4. r = s
      BY <3>3 DEF StoreInv, UniqueRecord
    <3> QED BY <1>5, <3>1, <3>4
  <2>3. ServerSees'
    BY <1>1, <2>1, <2>2 DEF ServerSees, SameKey
  <2> QED BY <1>1, <2>1, <2>3, ServerReadStep DEF ServerStart
<1> QED BY <1>3, <1>4, <1>5

(* Events after which the daemon acts on nothing it has found. *)
LEMMA RestStep ==
  ASSUME StoreInv,
         DenyQuery \/ HandleUpdate \/ RejectUpdate \/ ServerKill \/ ServerRestart
  PROVE  StoreInv'
<1>1. UNCHANGED <<rows, tool>>
  BY DEF DenyQuery, HandleUpdate, RejectUpdate, ServerKill, ServerRestart
<1>2. srv'.pc \in {"idle", "down"}
  <2>1. CASE DenyQuery
    <3>1. srv' = IdleServer \/ srv' = [IdleServer EXCEPT !.pc = "down"]
      BY <2>1 DEF DenyQuery
    <3> QED BY <3>1 DEF IdleServer
  <2>2. CASE HandleUpdate \/ RejectUpdate
    BY <2>2 DEF HandleUpdate, RejectUpdate
  <2>3. CASE ServerKill \/ ServerRestart
    BY <2>3 DEF ServerKill, ServerRestart, IdleServer
  <2> QED BY <2>1, <2>2, <2>3
<1>3. ServerSees'
  BY <1>2 DEF ServerSees
<1> QED BY <1>1, <1>2, <1>3, ServerReadStep

(* doUpdate finds the record it is to replace, or finds that there is none. *)
LEMMA UpdateFindStep ==
  ASSUME OneWriter, TypeOK, StoreInv, DoUpdate
  PROVE  StoreInv'
<1>1. UNCHANGED <<rows, tool>> /\ ServerStart /\ srv.pc = "idle" /\ Records' = Records /\ ~Busy
  BY DEF DoUpdate, Records, OneWriter
<1>2. PICK u \in pending : \E r \in Find(u.label, u.type) :
        \/ srv' = srv
        \/ r = NoRow /\ srv' = [IdleServer EXCEPT !.pc = "insert", !.req = u]
        \/ r # NoRow /\ u.ver > r.ver /\ srv' = [pc |-> "update", req |-> u, old |-> r]
  BY DEF DoUpdate
<1>3. PICK r \in Find(u.label, u.type) :
        \/ srv' = srv
        \/ r = NoRow /\ srv' = [IdleServer EXCEPT !.pc = "insert", !.req = u]
        \/ r # NoRow /\ u.ver > r.ver /\ srv' = [pc |-> "update", req |-> u, old |-> r]
  BY <1>2
<1>4. u \in UpdReqs /\ u \in Req
  BY ConstantsAssumption DEF TypeOK
<1>5. \A t \in Tools : Idle(t)
  BY <1>1, <1>4 DEF OneWriter, ServerStart
<1>6. CASE srv' = srv
  <2>1. ServerSees'
    BY <1>1, <1>6 DEF ServerSees
  <2> QED BY <1>1, <1>6, <2>1, ServerReadStep
<1>7. CASE r = NoRow /\ srv' = [IdleServer EXCEPT !.pc = "insert", !.req = u]
  <2>1. srv'.pc = "insert" /\ srv'.req = u
    BY <1>7 DEF IdleServer
  <2>2. \A s \in rows : ~(s.label = u.label /\ s.type = u.type)
    BY <1>1, <1>7, FindExact DEF StoreInv
  <2>3. ServerSees'
    BY <1>1, <1>4, <2>1, <2>2 DEF ServerSees, Absent, Records
  <2> QED BY <1>1, <1>5, <2>1, <2>3, ServerReadStep
<1>8. CASE r # NoRow /\ u.ver > r.ver /\ srv' = [pc |-> "update", req |-> u, old |-> r]
  <2>1. srv'.pc = "update" /\ srv'.req = u /\ srv'.old = r
    BY <1>8
  <2>2. r \in rows /\ r.label = u.label /\ r.type = u.type
    BY <1>1, <1>8, FindExact DEF StoreInv
  <2>3. r.ver \in Nat /\ u.ver \in Nat
    BY <1>4, <2>2 DEF TypeOK, Row, Req
  <2>4. GivesWay(r, u)
    BY <1>8, <2>2, <2>3 DEF GivesWay, SameKey
  <2>5. ServerSees'
    BY <1>1, <1>4, <2>1, <2>2, <2>4 DEF ServerSees
  <2> QED BY <1>1, <1>5, <2>1, <2>5, ServerReadStep
<1> QED BY <1>3, <1>6, <1>7, <1>8

(* doUpdate writes while no command is at work. *)
LEMMA UpdateWriteStep ==
  ASSUME ~Busy, TypeOK, StoreInv, DoUpdateReplace \/ DoUpdateInsert
  PROVE  StoreInv'
<1> DEFINE req == srv.req
<1>1. /\ srv.pc \in {"update", "insert"} /\ UNCHANGED tool /\ srv'.pc = "idle"
      /\ \A t \in Tools : tool[t].pc = "idle"
  BY DEF DoUpdateReplace, DoUpdateInsert, IdleServer, StoreInv, Exclusive, Idle
<1>2. req \in UpdReqs /\ req \in Req /\ req.type # DOE /\ ServerSees
  BY <1>1, ConstantsAssumption DEF StoreInv, ServerSees
<1>3. IdsGiven' /\ UniqueRecord'
  <2>1. CASE UNCHANGED rows
    BY <2>1 DEF StoreInv, IdsGiven, IdsUnique, UniqueRecord, Records
  <2>2. CASE DoUpdateReplace
    <3>1. UpdateId(srv.old.id, req.ver, req.ct) /\ srv.pc = "update"
      BY <2>2 DEF DoUpdateReplace
    <3>2. srv.old \in Records
      BY <1>2, <3>1 DEF ServerSees, GivesWay, SameKey, Records
    <3>3. req.ver \in Nat /\ req.ct \in ContentType
      BY <1>2 DEF Req
    <3> QED BY <3>1, <3>2, <3>3, UpdateExact DEF StoreInv
  <2>3. CASE /\ srv.pc = "insert"
             /\ Insert(req.label, req.type, req.ver, req.ct, <<>>, <<>>)
    <3>1. IdsGiven'
      BY <2>3, InsertRow DEF StoreInv
    <3>2. PICK n : rows' = rows \cup {n} /\ n.label = req.label /\ n.type = req.type
      BY <2>3, InsertRow DEF StoreInv
    <3>3. Absent(n.label, n.type)
      BY <1>2, <2>3, <3>2 DEF ServerSees
    <3> QED BY <3>1, <3>2, <3>3, InsertUnique DEF StoreInv
  <2> QED BY <2>1, <2>2, <2>3 DEF DoUpdateInsert
<1>4. \A t \in Tools : ToolSees(t)'
  BY <1>1 DEF ToolSees
<1>5. Exclusive' /\ ServerSees'
  BY <1>1 DEF Exclusive, ServerSees, Idle
<1> QED BY <1>3, <1>4, <1>5 DEF StoreInv

(* Every step of the daemon. *)
LEMMA ServerStoreStep ==
  ASSUME OneWriter, TypeOK, StoreInv, ServerNext
  PROVE  StoreInv'
<1>1. ~Busy
  BY DEF OneWriter
<1> QED BY <1>1, QueryStep, RestStep, UpdateFindStep, UpdateWriteStep DEF ServerNext, ServerStep

(* A step that changes nothing. *)
LEMMA StoreStutter ==
  ASSUME StoreInv, UNCHANGED vars
  PROVE  StoreInv'
<1>1. UNCHANGED <<rows, tool, srv>>
  BY DEF vars
<1>2. Records' = Records
  BY <1>1 DEF Records
<1>3. ServerSees'
  BY <1>1, <1>2 DEF StoreInv, ServerSees, Absent
<1> QED BY <1>1, <1>3, ServerReadStep DEF StoreInv, Exclusive

(* createZone leaves two records with different labels or types. *)
LEMMA StoreInit ==
  ASSUME Init
  PROVE  StoreInv
<1>1. PICK t \in Tools : tool = [u \in Tools |->
          IF u = t THEN [IdleTool EXCEPT !.pc = "doeClear"] ELSE IdleTool]
  BY DEF Init
<1>2. /\ \A u \in Tools : tool[u].pc \in {"idle", "doeClear"}
      /\ \A u \in Tools : u # t => tool[u].pc = "idle"
      /\ srv.pc = "down"
  BY <1>1 DEF Init, IdleTool, IdleServer
<1>3. Exclusive /\ ServerSees /\ \A u \in Tools : ToolSees(u)
  BY <1>2 DEF Exclusive, ServerSees, ToolSees, Idle
<1>4. IdsGiven
  BY DEF Init, IdsGiven, IdsUnique, CertRow
<1>5. CertKeys[1] \in Key /\ CertKeys[2] \in Key /\ CertKeys[1] # CertKeys[2]
  BY ConstantsAssumption
<1>6. CertKeys[1].label # CertKeys[2].label \/ CertKeys[1].type # CertKeys[2].type
  BY <1>5 DEF Key
<1>7. UniqueRecord
  BY <1>6 DEF Init, UniqueRecord, Records, SameKey, CertRow
<1> QED BY <1>3, <1>4, <1>7 DEF StoreInv

(* StoreInv holds in every behaviour with one writer at a time. *)
LEMMA AlwaysStoreInv ==
  ASSUME OneWriter
  PROVE  Spec => [](TypeInv /\ StoreInv)
<1>1. Init => TypeInv /\ StoreInv
  <2> SUFFICES ASSUME Init PROVE TypeInv /\ StoreInv
    OBVIOUS
  <2>1. \A t \in Tools : tool[t].pc \in {"idle", "doeClear"}
    BY DEF Init, IdleTool
  <2> QED BY <2>1, InitType, StoreInit DEF TypeInv, LoopIndex, OverrideIndex
<1>2. TypeInv /\ StoreInv /\ [Next]_vars => TypeInv' /\ StoreInv'
  <2> SUFFICES ASSUME TypeInv, StoreInv, [Next]_vars PROVE TypeInv' /\ StoreInv'
    OBVIOUS
  <2>1. TypeInv'
    BY TypeStep
  <2>2. StoreInv'
    BY ToolStoreStep, ServerStoreStep, StoreStutter DEF TypeInv, Next
  <2> QED BY <2>1, <2>2
<1> QED BY <1>1, <1>2, PTL DEF Spec

(***************************************************************************)
(* The table never holds two records of one label and type, with any       *)
(* requests, any kills and any number of queries under way, as long as one *)
(* process at a time changes it.                                           *)
(***************************************************************************)
THEOREM RecordsUnique ==
  ASSUME OneWriter
  PROVE  Spec => []UniqueRecord
<1>1. TypeInv /\ StoreInv => UniqueRecord
  BY DEF StoreInv
<1> QED BY <1>1, AlwaysStoreInv, PTL

-----------------------------------------------------------------------------
(* The refinement. *)

(* Operations do not overlap, and nobody asks for the chain itself, which   *)
(* is not part of the abstract contents.                                    *)
Serial ==
  /\ ~Overlap /\ ~Busy
  /\ \A q \in Queries : q.type # DOE

(* A row as the abstract store knows it. *)
Public(r) == [label |-> r.label, type |-> r.type, ver |-> r.ver, ct |-> r.ct]

Stored == Records \cup Replaced

(* The contents are the rows as the abstract store knows them. *)
LEMMA ContentsStored ==
  /\ Contents = {Public(r) : r \in Stored}
  /\ Contents' = {Public(r) : r \in Stored'}
BY DEF Contents, Stored, Public

(* What the abstract store tells apart in a row. *)
LEMMA PublicFields ==
  ASSUME NEW r
  PROVE  /\ Public(r).label = r.label /\ Public(r).type = r.type
         /\ Public(r).ver = r.ver /\ Public(r).ct = r.ct
BY DEF Public

(* A step that keeps the contents. *)
LEMMA NextSame ==
  ASSUME Stored' = Stored, Store!True(Answer', Contents')
  PROVE  Store!Next
<1>1. Contents' = Contents
  BY ContentsStored
<1> QED BY <1>1 DEF Store!Next

(* A step that stores n in the place of what it is newer than. *)
LEMMA NextPut ==
  ASSUME NEW n \in Stored',
         \A a \in Stored : SameKey(a, n) => a.ver < n.ver,
         \A a \in Stored : ~SameKey(a, n) => a \in Stored',
         \A b \in Stored' : b = n \/ (b \in Stored /\ ~SameKey(b, n)),
         Store!True(Answer', Contents')
  PROVE  Store!Next
<1> DEFINE p == Public(n)
<1>1. p \in Contents'
  BY ContentsStored
<1>2. \A a : Store!Same(p, Public(a)) <=> SameKey(a, n)
  BY PublicFields DEF Store!Same, SameKey
<1>3. \A s \in Contents : Store!Same(p, s) => s.ver < p.ver
  BY <1>2, ContentsStored, PublicFields
<1>4. Contents' = {s \in Contents : ~Store!Same(p, s)} \cup {p}
  <2>1. ASSUME NEW s \in Contents' PROVE s = p \/ (s \in Contents /\ ~Store!Same(p, s))
    <3>1. PICK b \in Stored' : s = Public(b)
      BY <2>1, ContentsStored
    <3>2. CASE b = n
      BY <3>1, <3>2
    <3>3. CASE b \in Stored /\ ~SameKey(b, n)
      BY <1>2, <3>1, <3>3, ContentsStored
    <3> QED BY <3>2, <3>3
  <2>2. ASSUME NEW s \in Contents, ~Store!Same(p, s) PROVE s \in Contents'
    <3>1. PICK a \in Stored : s = Public(a)
      BY <2>2, ContentsStored
    <3>2. a \in Stored'
      BY <1>2, <2>2, <3>1
    <3> QED BY <3>1, <3>2, ContentsStored
  <2> HIDE DEF p
  <2> QED BY <1>1, <2>1, <2>2
<1>5. Store!Put(p)
  BY <1>3, <1>4 DEF Store!Put
<1> QED BY <1>1, <1>5 DEF Store!Next

(* A step that takes away old. *)
LEMMA NextDrop ==
  ASSUME NEW old \in Stored, Stored' = Stored \ {old},
         \A a \in Stored : SameKey(a, old) => a = old,
         Store!True(Answer', Contents')
  PROVE  Store!Next
<1> DEFINE p == Public(old)
<1>1. p \in Contents
  BY ContentsStored
<1>2. \A a \in Stored : Public(a) = p => a = old
  <2> TAKE a \in Stored
  <2>1. Public(a) = p => SameKey(a, old)
    BY PublicFields DEF SameKey
  <2> QED BY <2>1
<1>3. Contents' = Contents \ {p}
  BY <1>2, ContentsStored
<1>4. Store!Drop(p)
  BY <1>3 DEF Store!Drop
<1> QED BY <1>1, <1>4 DEF Store!Next

(* Silence is true. *)
LEMMA SilentTrue ==
  ASSUME out' = Silent
  PROVE  Store!True(Answer', Contents')
<1>1. Answer'.kind = "none"
  BY DEF Answer, Silent
<1> QED BY <1>1 DEF Store!True

(* An answer about a stored row, or about the lack of one. *)
LEMMA AnswerTrue ==
  ASSUME NEW kind, NEW req, NEW lo, NEW hi, Reply(kind, req, lo, hi),
         kind \in {"data", "ok"} =>
           \E r \in Stored' : SameKey(r, req) /\ r.ver = req.ver,
         kind = "fail" => \E r \in Stored' : SameKey(r, req) /\ r.ver >= req.ver,
         kind = "nack" => \A r \in Stored' : SameKey(r, req) => req.ver \notin {0, r.ver}
  PROVE  Store!True(Answer', Contents')
<1>1. /\ Answer'.kind = kind /\ Answer'.label = req.label
      /\ Answer'.type = req.type /\ Answer'.ver = req.ver
  BY DEF Reply, Answer
<1>2. \A r : Store!Same(Public(r), Answer') <=> SameKey(r, req)
  BY <1>1, PublicFields DEF Store!Same, SameKey
<1> DEFINE there == {r \in Contents' : Store!Same(r, Answer')}
<1>3. \A r \in Stored' : SameKey(r, req) => Public(r) \in there
  BY <1>2, ContentsStored
<1>4. \A s \in there : \E r \in Stored' : SameKey(r, req) /\ s = Public(r)
  BY <1>2, ContentsStored
<1>5. Answer'.kind \in {"data", "ok"} => \E s \in there : s.ver = Answer'.ver
  BY <1>1, <1>3, PublicFields
<1>6. Answer'.kind = "fail" => \E s \in there : s.ver >= Answer'.ver
  BY <1>1, <1>3, PublicFields
<1>7. Answer'.kind = "nack" => \A s \in there : Answer'.ver \notin {0, s.ver}
  BY <1>1, <1>4, PublicFields
<1> QED BY <1>5, <1>6, <1>7 DEF Store!True

-----------------------------------------------------------------------------
(* The old record counts as stored until the new one is. *)

(* Before the step of the command at work ... *)
LEMMA StoredBefore ==
  ASSUME StoreInv, NEW t \in Tools, ~Idle(t)
  PROVE  /\ tool[t].pc # "insert" \/ tool[t].old = NoRow => Stored = Records
         /\ tool[t].pc = "insert" /\ tool[t].old # NoRow => Stored = Records \cup {tool[t].old}
<1>1. \A u \in Tools \ {t} : tool[u].pc = "idle"
  BY DEF StoreInv, Exclusive, Idle
<1> QED BY <1>1 DEF Stored, Replaced

(* ... and after it. *)
LEMMA StoredAfter ==
  ASSUME StoreInv, NEW t \in Tools, ~Idle(t), \A u \in Tools \ {t} : tool'[u] = tool[u]
  PROVE  /\ tool'[t].pc # "insert" \/ tool'[t].old = NoRow => Stored' = Records'
         /\ tool'[t].pc = "insert" /\ tool'[t].old # NoRow =>
              Stored' = Records' \cup {tool'[t].old}
<1>1. \A u \in Tools \ {t} : tool'[u].pc = "idle"
  BY DEF StoreInv, Exclusive, Idle
<1> QED BY <1>1 DEF Stored, Replaced

(* While no command is at work the records are what is stored. *)
LEMMA StoredIdle ==
  ASSUME \A t \in Tools : Idle(t), UNCHANGED tool
  PROVE  Stored = Records /\ Stored' = Records'
BY DEF Stored, Replaced, Idle

-----------------------------------------------------------------------------
(* Every step of a command is one of the store, or is not seen there. *)

(* A command starts. *)
LEMMA StartRefines ==
  ASSUME Serial, TypeOK, StoreInv, NEW t \in Tools,
         StartAdd(t) \/ StartAddFromFile(t) \/ StartRemove(t)
  PROVE  Store!Next
<1>1. PICK pc, req : StartCommand(t, pc, req) /\ pc # "insert"
  BY DEF StartAdd, StartAddFromFile, StartRemove
<1>2. /\ \A u \in Tools : tool[u].pc = "idle"
      /\ UNCHANGED rows /\ out' = Silent
  BY <1>1 DEF StartCommand, Serial, Idle
<1>3. \A u \in Tools : tool'[u].pc # "insert"
  BY <1>1, <1>2 DEF StartCommand, TypeOK, IdleTool
<1>4. Stored' = Stored
  BY <1>2, <1>3 DEF Stored, Replaced, Records
<1> QED BY <1>2, <1>4, NextSame, SilentTrue

(* The end of a command is seen when it is killed between the DELETE and    *)
(* the INSERT of a replacement: the record is gone.                         *)
LEMMA DoneRefines ==
  ASSUME TypeOK, StoreInv, NEW t \in Tools, ~Idle(t), UNCHANGED rows, Done(t), out' = Silent
  PROVE  Store!Next
<1>1. tool'[t].pc = "idle" /\ \A u \in Tools \ {t} : tool'[u] = tool[u]
  BY DoneType
<1>2. Stored' = Records
  BY <1>1, StoredAfter DEF Records
<1>3. CASE tool[t].pc = "insert" /\ tool[t].old # NoRow
  <2> DEFINE old == tool[t].old
  <2>1. Stored = Records \cup {old}
    BY <1>3, StoredBefore
  <2>2. \A a \in Records : ~SameKey(a, old)
    BY <1>3 DEF StoreInv, ToolSees, Absent, GivesWay, SameKey
  <2>3. old \notin Records
    BY <2>2 DEF SameKey
  <2>4. Stored' = Stored \ {old}
    BY <1>2, <2>1, <2>3
  <2> QED BY <2>1, <2>2, <2>4, NextDrop, SilentTrue
<1>4. CASE ~(tool[t].pc = "insert" /\ tool[t].old # NoRow)
  <2>1. Stored = Records
    BY <1>4, StoredBefore
  <2> QED BY <1>2, <2>1, NextSame, SilentTrue
<1> QED BY <1>3, <1>4

(* The statements that read. *)
LEMMA ReadRefines ==
  ASSUME TypeOK, StoreInv, NEW t \in Tools, ~Idle(t), tool[t].pc # "insert",
         UNCHANGED rows, out' = Silent,
         \A u \in Tools \ {t} : tool'[u] = tool[u],
         tool'[t].pc # "insert" \/ tool'[t].old = NoRow
  PROVE  Store!Next
<1>1. Stored = Records /\ Stored' = Records
  BY StoredBefore, StoredAfter DEF Records
<1> QED BY <1>1, NextSame, SilentTrue

(* The checks of a command. *)
LEMMA ChecksRefine ==
  ASSUME TypeOK, StoreInv, NEW t \in Tools,
         \/ CheckAuth(t) \/ CheckLink(t) \/ CheckOverride(t) \/ FindAuth(t)
         \/ CheckRrsetVersion(t) \/ FindForRemoval(t)
  PROVE  Store!Next
<1>1. /\ UNCHANGED rows /\ out' = Silent /\ tool[t] \in ToolState
      /\ tool[t].pc \in {"auth", "link", "override", "authFind", "ver", "rmFind"}
  BY DEF CheckAuth, CheckLink, CheckOverride, FindAuth, CheckRrsetVersion,
         FindForRemoval, TypeOK
<1>2. CASE Done(t)
  BY <1>1, <1>2, DoneRefines DEF Idle
<1>3. ASSUME NEW pc \in {"ver", "authFind", "authInsert"}, Goto(t, pc) PROVE Store!Next
  <2>1. tool'[t].pc # "insert" /\ \A u \in Tools \ {t} : tool'[u] = tool[u]
    BY <1>3, GotoType DEF ToolPcs
  <2> QED BY <1>1, <2>1, ReadRefines DEF Idle
<1>4. CASE tool[t].pc = "ver" /\ Goto(t, "insert")
  <2>1. /\ \A u \in Tools \ {t} : tool'[u] = tool[u]
        /\ tool'[t] = [tool[t] EXCEPT !.pc = "insert"]
    BY <1>4, GotoType DEF ToolPcs
  <2>2. tool'[t].old = NoRow
    BY <1>1, <1>4, <2>1 DEF StoreInv, ToolSees, ToolState
  <2> QED BY <1>1, <2>1, <2>2, ReadRefines DEF Idle
<1>5. CASE tool' = [tool EXCEPT ![t].pc = IF LastPrefix(t) THEN "override" ELSE "link",
                                ![t].i = IF LastPrefix(t) THEN 1 ELSE @ + 1]
  <2>1. tool'[t].pc # "insert" /\ \A u \in Tools \ {t} : tool'[u] = tool[u]
    BY <1>1, <1>5 DEF TypeOK, ToolState
  <2> QED BY <1>1, <2>1, ReadRefines DEF Idle
<1>6. CASE NextPrefix(t)
  <2>1. tool'[t].pc # "insert" /\ \A u \in Tools \ {t} : tool'[u] = tool[u]
    BY <1>1, <1>6 DEF NextPrefix, TypeOK, ToolState
  <2> QED BY <1>1, <2>1, ReadRefines DEF Idle
<1>7. ASSUME NEW pc \in {"rmOld", "rmRow"}, NEW r,
             tool' = [tool EXCEPT ![t].pc = pc, ![t].old = r]
      PROVE  Store!Next
  <2>1. tool'[t].pc # "insert" /\ \A u \in Tools \ {t} : tool'[u] = tool[u]
    BY <1>1, <1>7 DEF TypeOK, ToolState
  <2> QED BY <1>1, <2>1, ReadRefines DEF Idle
<1>8. CASE CheckAuth(t) \/ CheckLink(t) \/ CheckOverride(t) \/ FindAuth(t)
  BY <1>2, <1>3, <1>5, <1>6, <1>8 DEF CheckAuth, CheckLink, CheckOverride, FindAuth
<1>9. CASE CheckRrsetVersion(t)
  BY <1>2, <1>4, <1>7, <1>9 DEF CheckRrsetVersion
<1>10. CASE FindForRemoval(t)
  BY <1>2, <1>7, <1>10 DEF FindForRemoval
<1> QED BY <1>8, <1>9, <1>10

(* An AUTH record, or the record of the command, is put. *)
LEMMA InsertRefines ==
  ASSUME TypeOK, StoreInv, NEW t \in Tools, InsertAuth(t) \/ InsertRrset(t)
  PROVE  Store!Next
<1>1. /\ out' = Silent /\ tool[t] \in ToolState /\ ToolSees(t)
      /\ tool[t].pc \in {"authInsert", "insert"}
  BY DEF InsertAuth, InsertRrset, TypeOK, StoreInv
<1>2. PICK n : rows' = rows \cup {n} /\ n.type # DOE /\ Absent(n.label, n.type)
               /\ (tool[t].pc = "insert" =>
                     SameKey(n, tool[t].req) /\ n.ver = tool[t].req.ver)
  <2>1. CASE InsertAuth(t)
    <3>1. PICK v \in AuthVersions : Insert(Prefix(t), NS, v, "AUTH", <<>>, <<>>)
      BY <2>1 DEF InsertAuth
    <3>2. PICK n : rows' = rows \cup {n} /\ n.label = Prefix(t) /\ n.type = NS
      BY <3>1, InsertRow DEF StoreInv
    <3>3. tool[t].pc = "authInsert" /\ NS # DOE
      BY <2>1, ConstantsAssumption DEF InsertAuth
    <3> QED BY <1>1, <3>2, <3>3 DEF ToolSees
  <2>2. CASE InsertRrset(t)
    <3> DEFINE req == tool[t].req
    <3>1. Insert(req.label, req.type, req.ver, req.ct, <<>>, <<>>) /\ tool[t].pc = "insert"
      BY <2>2 DEF InsertRrset
    <3>2. PICK n : rows' = rows \cup {n} /\ n.label = req.label /\ n.type = req.type
                   /\ n.ver = req.ver
      BY <3>1, InsertRow DEF StoreInv
    <3> QED BY <1>1, <3>1, <3>2 DEF ToolSees, SameKey
  <2> QED BY <2>1, <2>2
<1>3. tool'[t].pc # "insert" /\ \A u \in Tools \ {t} : tool'[u] = tool[u]
  <2>1. CASE InsertAuth(t)
    BY <1>1, <2>1 DEF InsertAuth, NextPrefix, TypeOK, ToolState
  <2>2. CASE InsertRrset(t)
    BY <2>2, GotoType DEF InsertRrset, ToolPcs
  <2> QED BY <2>1, <2>2
<1>4. Records' = Records \cup {n}
  BY <1>2 DEF Records
<1>5. Stored' = Records \cup {n}
  BY <1>1, <1>3, <1>4, StoredAfter DEF Idle
<1>6. \A a \in Records : ~SameKey(a, n)
  BY <1>2 DEF Absent, SameKey
<1>7. CASE tool[t].pc = "insert" /\ tool[t].old # NoRow
  <2> DEFINE old == tool[t].old
  <2>1. Stored = Records \cup {old}
    BY <1>7, StoredBefore DEF Idle
  <2>2. GivesWay(old, tool[t].req)
    BY <1>1, <1>7 DEF ToolSees
  <2>3. SameKey(old, n) /\ old.ver < n.ver
    BY <1>2, <1>7, <2>2 DEF GivesWay, SameKey
  <2>4. /\ \A a \in Stored : SameKey(a, n) => a.ver < n.ver
        /\ \A a \in Stored : ~SameKey(a, n) => a \in Stored'
        /\ \A b \in Stored' : b = n \/ (b \in Stored /\ ~SameKey(b, n))
    BY <1>5, <1>6, <2>1, <2>3
  <2> QED BY <1>1, <1>5, <2>4, NextPut, SilentTrue
<1>8. CASE ~(tool[t].pc = "insert" /\ tool[t].old # NoRow)
  <2>1. Stored = Records
    BY <1>1, <1>8, StoredBefore DEF Idle
  <2>2. /\ \A a \in Stored : SameKey(a, n) => a.ver < n.ver
        /\ \A a \in Stored : ~SameKey(a, n) => a \in Stored'
        /\ \A b \in Stored' : b = n \/ (b \in Stored /\ ~SameKey(b, n))
    BY <1>5, <1>6, <2>1
  <2> QED BY <1>1, <1>5, <2>2, NextPut, SilentTrue
<1> QED BY <1>7, <1>8

(* The DELETE of a replacement is not seen, that of removeRrSet is. *)
LEMMA RemoveRefines ==
  ASSUME TypeOK, StoreInv, NEW t \in Tools, RemoveOld(t) \/ RemoveRow(t)
  PROVE  Store!Next
<1> DEFINE old == tool[t].old
<1>1. /\ out' = Silent /\ tool[t] \in ToolState /\ ToolSees(t)
      /\ tool[t].pc \in {"rmOld", "rmRow"} /\ RemoveId(old.id)
  BY DEF RemoveOld, RemoveRow, TypeOK, StoreInv
<1>2. old \in Records /\ old \in rows
  BY <1>1 DEF ToolSees, GivesWay, SameKey, Records
<1>3. rows' = rows \ {old}
  BY <1>1, <1>2, RemoveExact DEF StoreInv
<1>4. Records' = Records \ {old} /\ Stored = Records
  BY <1>1, <1>3, StoredBefore DEF Records, Idle
<1>5. CASE RemoveOld(t)
  <2>1. /\ \A u \in Tools \ {t} : tool'[u] = tool[u]
        /\ tool'[t] = [tool[t] EXCEPT !.pc = "insert"]
        /\ tool'[t].pc = "insert"
    BY <1>5, GotoType DEF RemoveOld, ToolPcs
  <2>2. tool'[t].old = old
    BY <1>1, <2>1 DEF ToolState
  <2>3. old # NoRow
    BY <1>2 DEF StoreInv, IdsGiven, NoRow
  <2>4. Stored' = Records' \cup {old}
    BY <1>1, <2>1, <2>2, <2>3, StoredAfter DEF Idle
  <2>5. Stored' = Stored
    BY <1>2, <1>4, <2>4
  <2> QED BY <1>1, <2>5, NextSame, SilentTrue
<1>6. CASE RemoveRow(t)
  <2>1. tool'[t].pc = "doeClear" /\ \A u \in Tools \ {t} : tool'[u] = tool[u]
    BY <1>6, GotoType DEF RemoveRow, ToolPcs
  <2>2. Stored' = Records'
    BY <1>1, <2>1, StoredAfter DEF Idle
  <2>3. \A a \in Stored : SameKey(a, old) => a = old
    BY <1>2, <1>4 DEF StoreInv, UniqueRecord
  <2> QED BY <1>1, <1>2, <1>4, <2>2, <2>3, NextDrop, SilentTrue
<1> QED BY <1>5, <1>6

(* generateDoe is not seen. *)
LEMMA GenerateRefines ==
  ASSUME TypeOK, StoreInv, NEW t \in Tools,
         DoeClear(t) \/ DoeRead(t) \/ DoeInsert(t) \/ DoeGuard(t)
  PROVE  Store!Next
<1>1. /\ Records' = Records
      /\ \A u \in Tools \ {t} : tool'[u] = tool[u]
      /\ tool[t].pc \in {"doeClear", "doeRead", "doeInsert", "doeGuard"}
      /\ tool'[t].pc \in {"idle", "doeRead", "doeInsert", "doeGuard"}
  BY GenerateKeeps DEF StoreInv
<1>2. out' = Silent
  BY DEF DoeClear, DoeRead, DoeInsert, DoeGuard
<1>3. Stored' = Stored
  BY <1>1, StoredBefore, StoredAfter DEF Idle
<1> QED BY <1>2, <1>3, NextSame, SilentTrue

(* All steps of a command. *)
LEMMA ToolRefines ==
  ASSUME Serial, TypeOK, StoreInv, NEW t \in Tools, ToolNext(t)
  PROVE  Store!Next
<1>1. CASE ToolConflict(t) \/ ToolAbort(t)
  <2>1. ~Idle(t) /\ UNCHANGED rows /\ Done(t) /\ out' = Silent
    BY <1>1 DEF ToolConflict, ToolAbort, Idle
  <2> QED BY <2>1, DoneRefines
<1> QED
  BY <1>1, StartRefines, ChecksRefine, InsertRefines, RemoveRefines, GenerateRefines
  DEF ToolNext, ToolStep

-----------------------------------------------------------------------------
(* What the daemon says is true of the records. *)

(* handleQuery answers with the record it found. *)
LEMMA QueryRefines ==
  ASSUME Serial, TypeOK, StoreInv, HandleQuery
  PROVE  Store!Next
<1>1. UNCHANGED <<rows, tool>> /\ ~Busy /\ \A t \in Tools : Idle(t)
  BY DEF HandleQuery, Serial, ServerStart
<1>2. Stored = Records /\ Stored' = Records
  BY <1>1, StoredIdle DEF Records
<1>3. PICK q \in Queries : \E r \in Find(q.label, q.type) :
        \/ /\ r # NoRow
           /\ Reply("data", [AsReq(q) EXCEPT !.ver = r.ver, !.ct = r.ct], r.lo, r.hi)
        \/ out' = Silent
  BY DEF HandleQuery
<1>4. PICK r \in Find(q.label, q.type) :
        \/ /\ r # NoRow
           /\ Reply("data", [AsReq(q) EXCEPT !.ver = r.ver, !.ct = r.ct], r.lo, r.hi)
        \/ out' = Silent
  BY <1>3
<1>5. CASE out' = Silent
  BY <1>2, <1>5, NextSame, SilentTrue
<1>6. CASE /\ r # NoRow
           /\ Reply("data", [AsReq(q) EXCEPT !.ver = r.ver, !.ct = r.ct], r.lo, r.hi)
  <2>1. r \in rows /\ r.label = q.label /\ r.type = q.type /\ q.type # DOE
    BY <1>1, <1>6, FindExact DEF StoreInv, Serial
  <2>2. PICK req : req = [AsReq(q) EXCEPT !.ver = r.ver, !.ct = r.ct]
    OBVIOUS
  <2>3. req.label = q.label /\ req.type = q.type /\ req.ver = r.ver
    BY <2>2 DEF AsReq
  <2>4. r \in Stored' /\ SameKey(r, req) /\ r.ver = req.ver
    BY <1>2, <2>1, <2>3 DEF Records, SameKey
  <2>5. Reply("data", req, r.lo, r.hi)
    BY <1>6, <2>2
  <2>6. Store!True(Answer', Contents')
    BY <2>4, <2>5, AnswerTrue
  <2> QED BY <1>2, <2>6, NextSame
<1> QED BY <1>4, <1>5, <1>6

(* handleQuery denies what is not there. *)
LEMMA DenyRefines ==
  ASSUME Serial, TypeOK, StoreInv, DenyQuery
  PROVE  Store!Next
<1>1. UNCHANGED <<rows, tool>> /\ srv.pc = "doe" /\ ~Overlap
  BY DEF DenyQuery, Serial
<1>2. \A t \in Tools : Idle(t)
  BY <1>1 DEF StoreInv, Exclusive
<1>3. Stored = Records /\ Stored' = Records
  BY <1>1, <1>2, StoredIdle DEF Records
<1>4. out' = Silent \/ \E lo, hi : Reply("nack", srv.req, lo, hi)
  BY DEF DenyQuery
<1>5. CASE out' = Silent
  BY <1>3, <1>5, NextSame, SilentTrue
<1>6. CASE \E lo, hi : Reply("nack", srv.req, lo, hi)
  <2>1. PICK lo, hi : Reply("nack", srv.req, lo, hi)
    BY <1>6
  <2>2. \A r \in Records : SameKey(r, srv.req) => srv.req.ver \notin {0, r.ver}
    BY <1>1 DEF StoreInv, ServerSees
  <2>3. Store!True(Answer', Contents')
    BY <1>3, <2>1, <2>2, AnswerTrue
  <2> QED BY <1>3, <2>3, NextSame
<1> QED BY <1>4, <1>5, <1>6

(* doUpdate refuses what is not newer. *)
LEMMA UpdateFindRefines ==
  ASSUME Serial, TypeOK, StoreInv, DoUpdate
  PROVE  Store!Next
<1>1. UNCHANGED <<rows, tool>> /\ ~Busy /\ \A t \in Tools : Idle(t)
  BY DEF DoUpdate, Serial, ServerStart
<1>2. Stored = Records /\ Stored' = Records
  BY <1>1, StoredIdle DEF Records
<1>3. PICK u \in pending : \E r \in Find(u.label, u.type) :
        \/ r # NoRow /\ ~(u.ver > r.ver) /\ Reply("fail", u, <<>>, <<>>)
        \/ out' = Silent
  BY DEF DoUpdate
<1>4. PICK r \in Find(u.label, u.type) :
        \/ r # NoRow /\ ~(u.ver > r.ver) /\ Reply("fail", u, <<>>, <<>>)
        \/ out' = Silent
  BY <1>3
<1>5. CASE out' = Silent
  BY <1>2, <1>5, NextSame, SilentTrue
<1>6. CASE r # NoRow /\ ~(u.ver > r.ver) /\ Reply("fail", u, <<>>, <<>>)
  <2>1. r \in rows /\ r.label = u.label /\ r.type = u.type
    BY <1>1, <1>6, FindExact DEF StoreInv
  <2>2. u \in Req /\ u.type # DOE
    BY ConstantsAssumption DEF TypeOK
  <2>3. r.ver \in Nat /\ u.ver \in Nat
    BY <2>1, <2>2 DEF TypeOK, Row, Req
  <2>4. r \in Stored' /\ SameKey(r, u) /\ r.ver >= u.ver
    BY <1>2, <1>6, <2>1, <2>2, <2>3 DEF Records, SameKey
  <2>5. Store!True(Answer', Contents')
    BY <1>6, <2>4, AnswerTrue
  <2> QED BY <1>2, <2>5, NextSame
<1> QED BY <1>4, <1>5, <1>6

(* doUpdate confirms what it has stored. *)
LEMMA UpdateWriteRefines ==
  ASSUME Serial, TypeOK, StoreInv, DoUpdateReplace \/ DoUpdateInsert
  PROVE  Store!Next
<1> DEFINE req == srv.req
<1>1. /\ srv.pc \in {"update", "insert"} /\ UNCHANGED tool /\ ~Busy
      /\ \A t \in Tools : Idle(t)
  BY DEF DoUpdateReplace, DoUpdateInsert, StoreInv, Exclusive, Serial
<1>2. Stored = Records /\ Stored' = Records'
  BY <1>1, StoredIdle
<1>3. req \in UpdReqs /\ ServerSees
  BY <1>1 DEF StoreInv, ServerSees
<1>4. req \in Req /\ req.type # DOE
  BY <1>3, ConstantsAssumption
<1>5. req.ver \in Nat /\ req.ct \in ContentType
  BY <1>4 DEF Req
<1>6. CASE DoUpdateReplace
  <2> DEFINE old == srv.old
  <2>1. UpdateId(old.id, req.ver, req.ct) /\ srv.pc = "update" /\ Reply("ok", req, <<>>, <<>>)
    BY <1>1, <1>6 DEF DoUpdateReplace
  <2>2. old \in Records /\ GivesWay(old, req)
    BY <1>3, <1>4, <2>1 DEF ServerSees, GivesWay, SameKey, Records
  <2>3. PICK n : /\ rows' = (rows \ {old}) \cup {n}
                 /\ SameKey(n, old) /\ n.ver = req.ver /\ n.ct = req.ct
    BY <1>5, <2>1, <2>2, UpdateExact DEF StoreInv
  <2>4. Records' = (Records \ {old}) \cup {n} /\ SameKey(n, req)
    BY <1>4, <2>2, <2>3 DEF Records, GivesWay, SameKey
  <2>5. \A a \in Records : SameKey(a, n) => a = old
    BY <2>2, <2>3 DEF StoreInv, UniqueRecord, SameKey
  <2>6. SameKey(old, n) /\ old.ver < n.ver
    BY <2>2, <2>3 DEF GivesWay, SameKey
  <2>7. /\ \A a \in Stored : SameKey(a, n) => a.ver < n.ver
        /\ \A a \in Stored : ~SameKey(a, n) => a \in Stored'
        /\ \A b \in Stored' : b = n \/ (b \in Stored /\ ~SameKey(b, n))
        /\ n \in Stored'
    BY <1>2, <2>4, <2>5, <2>6
  <2>8. Store!True(Answer', Contents')
    BY <2>1, <2>3, <2>4, <2>7, AnswerTrue
  <2> QED BY <2>7, <2>8, NextPut
<1>7. CASE DoUpdateInsert
  <2>1. srv.pc = "insert" /\ Absent(req.label, req.type)
    BY <1>3, <1>7 DEF DoUpdateInsert, ServerSees
  <2>2. ~Conflicts(req.label, req.type, req.ver)
    BY <1>4, <2>1 DEF Conflicts, Absent, Records
  <2>3. /\ Insert(req.label, req.type, req.ver, req.ct, <<>>, <<>>)
        /\ Reply("ok", req, <<>>, <<>>)
    BY <1>1, <1>7, <2>2 DEF DoUpdateInsert
  <2>4. PICK n : rows' = rows \cup {n} /\ n.label = req.label /\ n.type = req.type
                 /\ n.ver = req.ver
    BY <2>3, InsertRow DEF StoreInv
  <2>5. Records' = Records \cup {n} /\ SameKey(n, req)
    BY <1>4, <2>4 DEF Records, SameKey
  <2>6. \A a \in Records : ~SameKey(a, n)
    BY <2>1, <2>4 DEF Absent, SameKey
  <2>7. /\ \A a \in Stored : SameKey(a, n) => a.ver < n.ver
        /\ \A a \in Stored : ~SameKey(a, n) => a \in Stored'
        /\ \A b \in Stored' : b = n \/ (b \in Stored /\ ~SameKey(b, n))
        /\ n \in Stored'
    BY <1>2, <2>5, <2>6
  <2>8. Store!True(Answer', Contents')
    BY <2>3, <2>4, <2>5, <2>7, AnswerTrue
  <2> QED BY <2>7, <2>8, NextPut
<1> QED BY <1>6, <1>7

(* All steps of the daemon. *)
LEMMA ServerRefines ==
  ASSUME Serial, TypeOK, StoreInv, ServerNext
  PROVE  Store!Next
<1>1. CASE HandleUpdate \/ RejectUpdate \/ ServerKill \/ ServerRestart
  <2>1. UNCHANGED <<rows, tool>> /\ out' = Silent
    BY <1>1 DEF HandleUpdate, RejectUpdate, ServerKill, ServerRestart
  <2>2. Stored' = Stored
    BY <2>1 DEF Stored, Replaced, Records
  <2> QED BY <2>1, <2>2, NextSame, SilentTrue
<1> QED
  BY <1>1, QueryRefines, DenyRefines, UpdateFindRefines, UpdateWriteRefines
  DEF ServerNext, ServerStep

(* The zone that createZone leaves is a store with nothing said yet. *)
LEMMA InitRefines ==
  ASSUME Init
  PROVE  Store!Init
<1>1. UniqueRecord
  BY StoreInit DEF StoreInv
<1>2. \A t \in Tools : tool[t].pc # "insert"
  BY DEF Init, IdleTool
<1>3. Stored = Records
  BY <1>2 DEF Stored, Replaced
<1>4. \A r, s \in Contents : Store!Same(r, s) => r = s
  <2> SUFFICES ASSUME NEW r \in Contents, NEW s \in Contents, Store!Same(r, s)
               PROVE  r = s
    OBVIOUS
  <2>1. PICK a \in Records : r = Public(a)
    BY <1>3, ContentsStored
  <2>2. PICK b \in Records : s = Public(b)
    BY <1>3, ContentsStored
  <2>3. SameKey(a, b)
    BY <2>1, <2>2, PublicFields DEF Store!Same, SameKey
  <2> QED BY <1>1, <2>1, <2>2, <2>3 DEF UniqueRecord
<1>5. Answer.kind = "none"
  BY DEF Init, Answer, Silent
<1> QED BY <1>4, <1>5 DEF Store!Init

(***************************************************************************)
(* Used one operation at a time, the tools and the daemon are the abstract *)
(* store, whatever they are asked and whenever they are killed: a record   *)
(* only gives way to a newer version, and every answer is true.            *)
(***************************************************************************)
THEOREM AuthorityImplementsStore ==
  ASSUME Serial
  PROVE  Spec => ImplementsStore
<1>1. OneWriter
  BY DEF Serial, OneWriter
<1>2. Spec => [](TypeInv /\ StoreInv)
  BY <1>1, AlwaysStoreInv
<1>3. Init => Store!Init
  BY InitRefines
<1>4. TypeInv /\ StoreInv /\ [Next]_vars => [Store!Next]_(Store!vars)
  <2> SUFFICES ASSUME TypeInv, StoreInv, [Next]_vars PROVE [Store!Next]_(Store!vars)
    OBVIOUS
  <2>1. CASE Next
    BY <2>1, ToolRefines, ServerRefines DEF Next, TypeInv
  <2>2. CASE UNCHANGED vars
    <3>1. UNCHANGED <<rows, tool, out>>
      BY <2>2 DEF vars
    <3>2. Stored' = Stored
      BY <3>1 DEF Stored, Replaced, Records
    <3>3. Contents' = Contents
      BY <3>2, ContentsStored
    <3>4. Answer' = Answer
      BY <3>1 DEF Answer
    <3> QED BY <3>3, <3>4 DEF Store!vars
  <2> QED BY <2>1, <2>2
<1> QED BY <1>2, <1>3, <1>4, PTL DEF Spec, ImplementsStore, Store!Spec

-----------------------------------------------------------------------------
(* The daemon finds a range for everything it has to deny. *)

(* Operations neither overlap nor are interrupted, and one certificate of   *)
(* the zone is never removed.                                               *)
Undisturbed ==
  /\ ~Overlap /\ ~Busy /\ ~Kills
  /\ \E i \in 1 .. 2 : \A k \in RmKeys : ~SameKey(k, CertKeys[i])

DoePcs == {"doeClear", "doeRead", "doeInsert", "doeGuard"}

(* A record the zone keeps, or is about to have again. *)
Kept(key) ==
  \/ \E r \in Records : SameKey(r, key)
  \/ \E t \in Tools : tool[t].pc = "insert" /\ SameKey(tool[t].req, key)

Guarded == \E d \in rows : d.type = DOE /\ d.label = <<>>

(* removeRrSet deletes what it was asked to, and generateDoe meets none of  *)
(* the ranges it is going to write.                                         *)
Unhindered(t) ==
  LET pc == tool[t].pc
      recs == tool[t].recs
      left == tool[t].left
  IN
  /\ pc \in {"rmFind", "rmRow"} => \E k \in RmKeys : SameKey(tool[t].req, k)
  /\ pc = "rmRow" => SameKey(tool[t].old, tool[t].req)
  /\ pc = "doeRead" => \A d \in rows : d.type # DOE
  /\ pc \in {"doeInsert", "doeGuard"} =>
       /\ recs = Records /\ left \subseteq recs
       /\ \A d \in rows : d.type = DOE => \E x \in recs \ left : d.label = KeyName(x)

ExitInv(key) ==
  /\ Kept(key)
  /\ (\A t \in Tools : tool[t].pc \notin DoePcs) => Guarded
  /\ \A t \in Tools : Unhindered(t)

(* What is left to show of a step of the command at work. *)
LEMMA ExitFrame ==
  ASSUME StoreInv, NEW t \in Tools, ~Idle(t), NEW key,
         \A u \in Tools \ {t} : tool'[u] = tool[u],
         Kept(key)', tool'[t].pc \notin DoePcs => Guarded', Unhindered(t)'
  PROVE  ExitInv(key)'
<1>1. \A u \in Tools \ {t} : tool'[u].pc = "idle"
  BY DEF StoreInv, Exclusive, Idle
<1>2. \A u \in Tools : Unhindered(u)'
  <2> TAKE u \in Tools
  <2>1. CASE u = t
    BY <2>1
  <2>2. CASE u # t
    BY <1>1, <2>2 DEF Unhindered
  <2> QED BY <2>1, <2>2
<1>3. (\A u \in Tools : tool'[u].pc \notin DoePcs) => Guarded'
  OBVIOUS
<1> QED BY <1>2, <1>3 DEF ExitInv

(* While a command is not generating, the guard is there. *)
LEMMA GuardedBefore ==
  ASSUME StoreInv, NEW key, ExitInv(key), NEW t \in Tools, ~Idle(t), tool[t].pc \notin DoePcs
  PROVE  Guarded
<1>1. \A u \in Tools \ {t} : tool[u].pc = "idle"
  BY DEF StoreInv, Exclusive, Idle
<1>2. \A u \in Tools : tool[u].pc \notin DoePcs
  BY <1>1 DEF DoePcs
<1> QED BY <1>2 DEF ExitInv

(* Outside the INSERT of a replacement the kept record is in the table. *)
LEMMA KeptBefore ==
  ASSUME StoreInv, NEW key, ExitInv(key), NEW t \in Tools, ~Idle(t), tool[t].pc # "insert"
  PROVE  \E r \in Records : SameKey(r, key)
<1>1. \A u \in Tools \ {t} : tool[u].pc = "idle"
  BY DEF StoreInv, Exclusive, Idle
<1> QED BY <1>1 DEF ExitInv, Kept

(* A command starts while the guard is there. *)
LEMMA StartExit ==
  ASSUME ~Overlap, TypeOK, NEW key, ExitInv(key), NEW t \in Tools,
         StartAdd(t) \/ StartAddFromFile(t) \/ StartRemove(t)
  PROVE  ExitInv(key)'
<1>1. PICK pc, req : /\ StartCommand(t, pc, req)
                     /\ pc \in {"link", "auth", "ver", "rmFind"}
                     /\ pc = "rmFind" => \E k \in RmKeys : SameKey(req, k)
  <2>1. CASE StartAdd(t) \/ StartAddFromFile(t)
    BY <2>1 DEF StartAdd, StartAddFromFile
  <2>2. CASE StartRemove(t)
    BY <2>2 DEF StartRemove, RmReq, SameKey
  <2> QED BY <2>1, <2>2
<1>2. /\ \A u \in Tools : tool[u].pc = "idle"
      /\ UNCHANGED rows
  BY <1>1 DEF StartCommand, Idle
<1>3. /\ \A u \in Tools \ {t} : tool'[u].pc = "idle"
      /\ tool'[t].pc = pc /\ tool'[t].req = req
  BY <1>1, <1>2 DEF StartCommand, TypeOK, IdleTool
<1>4. Guarded'
  BY <1>2 DEF ExitInv, Guarded, DoePcs
<1>5. Kept(key)'
  BY <1>2 DEF ExitInv, Kept, Records
<1>6. Unhindered(t)'
  BY <1>1, <1>3 DEF Unhindered
<1>7. \A u \in Tools : Unhindered(u)'
  <2> TAKE u \in Tools
  <2>1. CASE u # t
    BY <1>3, <2>1 DEF Unhindered
  <2> QED BY <1>6, <2>1
<1> QED BY <1>4, <1>5, <1>7 DEF ExitInv

(* The statements of a command that read, and its end before it writes. *)
LEMMA ReadExit ==
  ASSUME TypeOK, StoreInv, NEW key, ExitInv(key), NEW t \in Tools, ~Idle(t),
         tool[t].pc \notin DoePcs, tool[t].pc # "insert", UNCHANGED rows,
         \A u \in Tools \ {t} : tool'[u] = tool[u],
         tool'[t].pc \notin DoePcs,
         tool'[t].pc \in {"rmFind", "rmRow"} =>
           /\ \E k \in RmKeys : SameKey(tool'[t].req, k)
           /\ tool'[t].pc = "rmRow" => SameKey(tool'[t].old, tool'[t].req)
  PROVE  ExitInv(key)'
<1>1. Guarded'
  BY GuardedBefore DEF Guarded
<1>2. Kept(key)'
  BY KeptBefore DEF Kept, Records
<1>3. Unhindered(t)'
  BY DEF Unhindered, DoePcs
<1> QED BY <1>1, <1>2, <1>3, ExitFrame

(* The checks of a command. *)
LEMMA ChecksExit ==
  ASSUME ~Busy, TypeOK, StoreInv, NEW key, ExitInv(key), NEW t \in Tools,
         \/ CheckAuth(t) \/ CheckLink(t) \/ CheckOverride(t) \/ FindAuth(t)
         \/ CheckRrsetVersion(t) \/ FindForRemoval(t)
  PROVE  ExitInv(key)'
<1>1. /\ UNCHANGED rows /\ tool[t] \in ToolState
      /\ tool[t].pc \in {"auth", "link", "override", "authFind", "ver", "rmFind"}
      /\ tool[t].pc \notin DoePcs /\ ~Idle(t)
  BY DEF CheckAuth, CheckLink, CheckOverride, FindAuth, CheckRrsetVersion,
         FindForRemoval, TypeOK, DoePcs, Idle
<1>2. CASE Done(t)
  BY <1>1, <1>2, DoneType, ReadExit DEF DoePcs
<1>3. ASSUME NEW pc \in {"ver", "authFind", "authInsert", "insert"}, Goto(t, pc)
      PROVE  ExitInv(key)'
  <2>1. tool'[t].pc = pc /\ \A u \in Tools \ {t} : tool'[u] = tool[u]
    BY <1>3, GotoType DEF ToolPcs
  <2> QED BY <1>1, <2>1, ReadExit DEF DoePcs
<1>4. CASE tool' = [tool EXCEPT ![t].pc = IF LastPrefix(t) THEN "override" ELSE "link",
                                ![t].i = IF LastPrefix(t) THEN 1 ELSE @ + 1]
  <2>1. /\ tool'[t].pc \in {"override", "link"}
        /\ \A u \in Tools \ {t} : tool'[u] = tool[u]
    BY <1>1, <1>4 DEF TypeOK, ToolState
  <2> QED BY <1>1, <2>1, ReadExit DEF DoePcs
<1>5. CASE NextPrefix(t)
  <2>1. /\ tool'[t].pc \in {"ver", "authFind"}
        /\ \A u \in Tools \ {t} : tool'[u] = tool[u]
    BY <1>1, <1>5 DEF NextPrefix, TypeOK, ToolState
  <2> QED BY <1>1, <2>1, ReadExit DEF DoePcs
<1>6. ASSUME NEW r, tool' = [tool EXCEPT ![t].pc = "rmOld", ![t].old = r]
      PROVE  ExitInv(key)'
  <2>1. tool'[t].pc = "rmOld" /\ \A u \in Tools \ {t} : tool'[u] = tool[u]
    BY <1>1, <1>6 DEF TypeOK, ToolState
  <2> QED BY <1>1, <2>1, ReadExit DEF DoePcs
<1>7. ASSUME tool[t].pc = "rmFind", NEW r \in Find(tool[t].req.label, tool[t].req.type),
             r # NoRow, tool' = [tool EXCEPT ![t].pc = "rmRow", ![t].old = r]
      PROVE  ExitInv(key)'
  <2>1. /\ tool'[t].pc = "rmRow" /\ \A u \in Tools \ {t} : tool'[u] = tool[u]
        /\ tool'[t].req = tool[t].req /\ tool'[t].old = r
    BY <1>1, <1>7 DEF TypeOK, ToolState
  <2>2. SameKey(r, tool[t].req)
    BY <1>7, FindExact DEF StoreInv, SameKey
  <2>3. \E k \in RmKeys : SameKey(tool[t].req, k)
    BY <1>7 DEF ExitInv, Unhindered
  <2> QED BY <1>1, <2>1, <2>2, <2>3, ReadExit DEF DoePcs
<1>8. CASE CheckAuth(t) \/ CheckLink(t) \/ CheckOverride(t) \/ FindAuth(t)
  BY <1>2, <1>3, <1>4, <1>5, <1>8 DEF CheckAuth, CheckLink, CheckOverride, FindAuth
<1>9. CASE CheckRrsetVersion(t)
  BY <1>2, <1>3, <1>6, <1>9 DEF CheckRrsetVersion
<1>10. CASE FindForRemoval(t)
  BY <1>2, <1>7, <1>10 DEF FindForRemoval
<1> QED BY <1>8, <1>9, <1>10

(* The statements of a command that write a record. *)
LEMMA WriteExit ==
  ASSUME TypeOK, StoreInv, NEW key, ExitInv(key), NEW t \in Tools,
         \A k \in RmKeys : ~SameKey(k, key),
         InsertAuth(t) \/ RemoveOld(t) \/ InsertRrset(t) \/ RemoveRow(t)
  PROVE  ExitInv(key)'
<1>1. /\ tool[t] \in ToolState /\ ToolSees(t) /\ Unhindered(t)
      /\ tool[t].pc \in {"authInsert", "rmOld", "insert", "rmRow"}
      /\ tool[t].pc \notin DoePcs /\ ~Idle(t)
  BY DEF InsertAuth, RemoveOld, InsertRrset, RemoveRow, TypeOK, StoreInv, ExitInv, DoePcs, Idle
<1>2. Guarded
  BY <1>1, GuardedBefore
<1>3. CASE InsertAuth(t)
  <2>1. PICK v \in AuthVersions : Insert(Prefix(t), NS, v, "AUTH", <<>>, <<>>)
    BY <1>3 DEF InsertAuth
  <2>2. PICK n : rows' = rows \cup {n}
    BY <2>1, InsertRow DEF StoreInv
  <2>3. /\ tool'[t].pc \in {"ver", "authFind"}
        /\ \A u \in Tools \ {t} : tool'[u] = tool[u]
    BY <1>1, <1>3 DEF InsertAuth, NextPrefix, TypeOK, ToolState
  <2>4. \E r \in Records : SameKey(r, key)
    BY <1>1, <1>3, KeptBefore DEF InsertAuth
  <2>5. Guarded' /\ Kept(key)'
    BY <1>2, <2>2, <2>4 DEF Guarded, Kept, Records
  <2>6. Unhindered(t)'
    BY <2>3 DEF Unhindered
  <2> QED BY <1>1, <2>3, <2>5, <2>6, ExitFrame
<1>4. CASE RemoveOld(t)
  <2> DEFINE old == tool[t].old
  <2>1. old \in rows /\ GivesWay(old, tool[t].req) /\ tool[t].req.type # DOE
    BY <1>1, <1>4 DEF RemoveOld, ToolSees
  <2>2. rows' = rows \ {old} /\ old.type # DOE
    BY <1>4, <2>1, RemoveExact DEF RemoveOld, StoreInv, GivesWay, SameKey
  <2>3. /\ \A u \in Tools \ {t} : tool'[u] = tool[u]
        /\ tool'[t] = [tool[t] EXCEPT !.pc = "insert"] /\ tool'[t].pc = "insert"
    BY <1>4, GotoType DEF RemoveOld, ToolPcs
  <2>4. tool'[t].req = tool[t].req
    BY <1>1, <2>3 DEF ToolState
  <2>5. PICK r \in Records : SameKey(r, key)
    BY <1>1, <1>4, KeptBefore DEF RemoveOld
  <2>6. Kept(key)'
    <3>1. CASE r = old
      BY <2>1, <2>3, <2>4, <2>5, <3>1 DEF Kept, GivesWay, SameKey
    <3>2. CASE r # old
      BY <2>2, <2>5, <3>2 DEF Kept, Records
    <3> QED BY <3>1, <3>2
  <2>7. Guarded' /\ Unhindered(t)'
    BY <1>2, <2>2, <2>3 DEF Guarded, Unhindered
  <2> QED BY <1>1, <2>3, <2>6, <2>7, ExitFrame
<1>5. CASE InsertRrset(t) \/ RemoveRow(t)
  <2>1. tool'[t].pc = "doeClear" /\ \A u \in Tools \ {t} : tool'[u] = tool[u]
    BY <1>5, GotoType DEF InsertRrset, RemoveRow, ToolPcs
  <2>2. Unhindered(t)' /\ tool'[t].pc \in DoePcs
    BY <2>1 DEF Unhindered, DoePcs
  <2>3. CASE InsertRrset(t)
    <3> DEFINE req == tool[t].req
    <3>1. Insert(req.label, req.type, req.ver, req.ct, <<>>, <<>>) /\ tool[t].pc = "insert"
      BY <2>3 DEF InsertRrset
    <3>2. PICK n : rows' = rows \cup {n} /\ n.label = req.label /\ n.type = req.type
      BY <3>1, InsertRow DEF StoreInv
    <3>3. req.type # DOE
      BY <1>1, <3>1 DEF ToolSees
    <3>4. \A u \in Tools : tool[u].pc = "insert" => u = t
      BY <1>1 DEF StoreInv, Exclusive, Idle
    <3>5. Kept(key)'
      BY <3>2, <3>3, <3>4 DEF ExitInv, Kept, Records, SameKey
    <3> QED BY <1>1, <2>1, <2>2, <3>5, ExitFrame
  <2>4. CASE RemoveRow(t)
    <3> DEFINE old == tool[t].old
    <3>1. old \in rows /\ ~SameKey(old, key)
      BY <1>1, <2>4 DEF RemoveRow, ToolSees, Records, Unhindered, SameKey
    <3>2. rows' = rows \ {old}
      BY <2>4, <3>1, RemoveExact DEF RemoveRow, StoreInv
    <3>3. \E r \in Records : SameKey(r, key)
      BY <1>1, <2>4, KeptBefore DEF RemoveRow
    <3>4. Kept(key)'
      BY <3>1, <3>2, <3>3 DEF Kept, Records
    <3> QED BY <1>1, <2>1, <2>2, <3>4, ExitFrame
  <2> QED BY <1>5, <2>3, <2>4
<1> QED BY <1>3, <1>4, <1>5

(* generateDoe: the zone is not empty, so it reaches the guard. *)
LEMMA GenerateExit ==
  ASSUME ~Busy, TypeOK, StoreInv, NEW key, ExitInv(key), NEW t \in Tools,
         DoeClear(t) \/ DoeRead(t) \/ DoeInsert(t) \/ DoeGuard(t)
  PROVE  ExitInv(key)'
<1>1. /\ Records' = Records
      /\ \A u \in Tools \ {t} : tool'[u] = tool[u]
      /\ tool[t].pc \in DoePcs /\ ~Idle(t) /\ tool[t].pc # "insert"
  BY GenerateKeeps DEF StoreInv, DoePcs, Idle
<1>2. PICK keeper \in Records : SameKey(keeper, key)
  BY <1>1, KeptBefore
<1>3. Kept(key)'
  BY <1>1, <1>2 DEF Kept
<1>4. tool[t] \in ToolState /\ tool \in [Tools -> ToolState] /\ Unhindered(t)
  BY DEF TypeOK, ExitInv
<1>5. CASE DoeClear(t)
  <2>1. rows' = Records /\ tool'[t].pc = "doeRead"
    BY <1>5, GotoType DEF DoeClear, ToolPcs
  <2>2. Unhindered(t)' /\ tool'[t].pc \in DoePcs
    BY <2>1 DEF Unhindered, Records, DoePcs
  <2> QED BY <1>1, <1>3, <2>2, ExitFrame
<1>6. CASE DoeRead(t)
  <2>1. /\ tool' = [tool EXCEPT ![t].pc = "doeInsert", ![t].recs = rows, ![t].left = rows]
        /\ UNCHANGED rows
    BY <1>2, <1>6 DEF DoeRead, Records
  <2>2. tool'[t].pc = "doeInsert" /\ tool'[t].recs = rows /\ tool'[t].left = rows
    BY <1>4, <2>1 DEF ToolState
  <2>3. \A d \in rows : d.type # DOE
    BY <1>4, <1>6 DEF DoeRead, Unhindered
  <2>4. rows = Records
    BY <2>3 DEF Records
  <2>5. Unhindered(t)' /\ tool'[t].pc \in DoePcs
    BY <1>1, <2>1, <2>2, <2>3, <2>4 DEF Unhindered, DoePcs
  <2> QED BY <1>1, <1>3, <2>5, ExitFrame
<1>7. CASE DoeInsert(t)
  <2> DEFINE left == tool[t].left
             recs == tool[t].recs
  <2>1. PICK r \in left, s \in recs :
          /\ Insert(KeyName(r), DOE, 0, "DOE", KeyName(r), KeyName(s))
          /\ tool' = [tool EXCEPT ![t].left = left \ {r},
                                  ![t].pc = IF left = {r} THEN "doeGuard" ELSE @]
    BY <1>7 DEF DoeInsert
  <2>2. PICK n : rows' = rows \cup {n} /\ n.label = KeyName(r)
    BY <2>1, InsertRow DEF StoreInv
  <2>3. /\ tool'[t].recs = recs /\ tool'[t].left = left \ {r}
        /\ tool'[t].pc \in {"doeInsert", "doeGuard"}
    BY <1>4, <1>7, <2>1 DEF DoeInsert, ToolState
  <2>4. /\ recs = Records /\ left \subseteq recs
        /\ \A d \in rows : d.type = DOE => \E x \in recs \ left : d.label = KeyName(x)
    BY <1>4, <1>7 DEF DoeInsert, Unhindered
  <2>5. \A d \in rows' : d.type = DOE => \E x \in recs \ (left \ {r}) : d.label = KeyName(x)
    <3> SUFFICES ASSUME NEW d \in rows', d.type = DOE
                 PROVE  \E x \in recs \ (left \ {r}) : d.label = KeyName(x)
      OBVIOUS
    <3>1. CASE d \in rows
      BY <2>4, <3>1
    <3>2. CASE d = n
      BY <2>1, <2>2, <2>4, <3>2
    <3> QED BY <2>2, <3>1, <3>2
  <2>6. Unhindered(t)' /\ tool'[t].pc \in DoePcs
    BY <1>1, <2>3, <2>4, <2>5 DEF Unhindered, DoePcs
  <2> QED BY <1>1, <1>3, <2>6, ExitFrame
<1>8. CASE DoeGuard(t)
  <2>1. PICK lo, hi : Insert(<<>>, DOE, 0, "DOE", lo, hi)
    BY <1>8 DEF DoeGuard
  <2>2. PICK n : rows' = rows \cup {n} /\ n.label = <<>> /\ n.type = DOE
    BY <2>1, InsertRow DEF StoreInv
  <2>3. tool'[t].pc = "idle"
    BY <1>8, DoneType DEF DoeGuard
  <2>4. Guarded' /\ Unhindered(t)'
    BY <2>2, <2>3 DEF Guarded, Unhindered
  <2> QED BY <1>1, <1>3, <2>4, ExitFrame
<1> QED BY <1>5, <1>6, <1>7, <1>8

(* No INSERT is refused. *)
LEMMA NoConflict ==
  ASSUME TypeOK, StoreInv, NEW key, ExitInv(key), NEW t \in Tools
  PROVE  ~ToolConflict(t)
<1>1. SUFFICES ASSUME ToolConflict(t) PROVE FALSE
  OBVIOUS
<1>2. ToolSees(t) /\ Unhindered(t) /\ NS # DOE /\ UniqueRecord
  BY ConstantsAssumption DEF StoreInv, ExitInv
<1>3. \A x \in Records : x.label \in Name /\ x.type \in Nat
  BY DEF TypeOK, Row, Records
<1>4. CASE tool[t].pc = "authInsert" /\ \E v \in AuthVersions : Conflicts(Prefix(t), NS, v)
  BY <1>2, <1>4 DEF Conflicts, ToolSees, Absent, Records
<1>5. CASE tool[t].pc = "insert"
           /\ Conflicts(tool[t].req.label, tool[t].req.type, tool[t].req.ver)
  BY <1>2, <1>5 DEF Conflicts, ToolSees, Absent, Records
<1>6. CASE /\ tool[t].pc = "doeInsert"
           /\ \E r \in tool[t].left : \E d \in rows : d.type = DOE /\ d.label = KeyName(r)
  <2>1. PICK r \in tool[t].left, d \in rows : d.type = DOE /\ d.label = KeyName(r)
    BY <1>6
  <2>2. PICK x \in tool[t].recs \ tool[t].left : KeyName(r) = KeyName(x)
    BY <1>2, <1>6, <2>1 DEF Unhindered
  <2>3. r \in Records /\ x \in Records
    BY <1>2, <1>6, <2>1, <2>2 DEF Unhindered
  <2>4. SameKey(r, x)
    BY <1>3, <2>2, <2>3, KeyNameInjective DEF SameKey
  <2>5. r = x
    BY <1>2, <2>3, <2>4 DEF UniqueRecord
  <2> QED BY <2>1, <2>2, <2>5
<1>7. CASE tool[t].pc = "doeGuard" /\ \E d \in rows : d.type = DOE /\ d.label = <<>>
  <2>1. PICK x \in tool[t].recs : KeyName(x) = <<>>
    BY <1>2, <1>7 DEF Unhindered
  <2>2. x \in Records
    BY <1>2, <1>7, <2>1 DEF Unhindered
  <2> QED BY <1>3, <2>1, <2>2, EmptyBeforeKey
<1> QED BY <1>1, <1>4, <1>5, <1>6, <1>7 DEF ToolConflict

(* The daemon changes the table only while no command is at work. *)
LEMMA ServerExit ==
  ASSUME ~Busy, TypeOK, StoreInv, NEW key, ExitInv(key), ServerNext
  PROVE  ExitInv(key)'
<1>1. UNCHANGED tool
  BY DEF ServerNext, ServerStep, HandleQuery, HandleUpdate, RejectUpdate, DoUpdate,
         DenyQuery, DoUpdateReplace, DoUpdateInsert, ServerKill, ServerRestart
<1>2. CASE UNCHANGED rows
  <2>1. Records' = Records
    BY <1>2 DEF Records
  <2>2. Kept(key)' /\ (Guarded' <=> Guarded)
    BY <1>1, <1>2, <2>1 DEF ExitInv, Kept, Guarded
  <2>3. \A t \in Tools : Unhindered(t)'
    <3> TAKE t \in Tools
    <3>1. Unhindered(t)
      BY DEF ExitInv
    <3> QED BY <1>1, <1>2, <2>1, <3>1 DEF Unhindered
  <2> QED BY <1>1, <2>2, <2>3 DEF ExitInv
<1>3. CASE DoUpdateReplace \/ DoUpdateInsert
  <2>1. \A t \in Tools : tool[t].pc = "idle"
    BY <1>3 DEF DoUpdateReplace, DoUpdateInsert, StoreInv, Exclusive, Idle
  <2>2. Guarded /\ \E r \in Records : SameKey(r, key)
    BY <2>1 DEF ExitInv, Kept, DoePcs
  <2>3. \A t \in Tools : Unhindered(t)'
    BY <1>1, <2>1 DEF Unhindered
  <2>4. srv.req \in UpdReqs /\ ServerSees
    BY <1>3 DEF DoUpdateReplace, DoUpdateInsert, StoreInv, ServerSees
  <2>5. srv.req \in Req /\ srv.req.type # DOE
    BY <2>4, ConstantsAssumption
  <2>6. UNCHANGED rows \/ (Guarded' /\ Kept(key)')
    <3>1. CASE DoUpdateReplace
      <4> DEFINE old == srv.old
      <4>1. UpdateId(old.id, srv.req.ver, srv.req.ct) /\ srv.pc = "update"
        BY <3>1 DEF DoUpdateReplace
      <4>2. old \in Records
        BY <2>4, <2>5, <4>1 DEF ServerSees, GivesWay, SameKey, Records
      <4>3. srv.req.ver \in Nat /\ srv.req.ct \in ContentType
        BY <2>5 DEF Req
      <4>4. PICK n : rows' = (rows \ {old}) \cup {n} /\ SameKey(n, old)
        BY <4>1, <4>2, <4>3, UpdateExact DEF StoreInv
      <4>5. Guarded'
        BY <2>2, <4>2, <4>4 DEF Guarded, Records
      <4>6. Kept(key)'
        BY <2>2, <4>2, <4>4 DEF Kept, Records, SameKey
      <4> QED BY <4>5, <4>6
    <3>2. CASE Insert(srv.req.label, srv.req.type, srv.req.ver, srv.req.ct, <<>>, <<>>)
      <4>1. PICK n : rows' = rows \cup {n}
        BY <3>2, InsertRow DEF StoreInv
      <4> QED BY <2>2, <4>1 DEF Guarded, Kept, Records
    <3> QED BY <1>3, <3>1, <3>2 DEF DoUpdateInsert
  <2> QED BY <1>2, <2>3, <2>6 DEF ExitInv
<1> QED BY <1>2, <1>3 DEF ServerNext, ServerStep, HandleQuery, HandleUpdate, RejectUpdate,
      DoUpdate, DenyQuery, ServerKill, ServerRestart

(* Every step keeps the invariant. *)
LEMMA ExitStep ==
  ASSUME ~Overlap, ~Busy, ~Kills, TypeOK, StoreInv, NEW key, ExitInv(key),
         \A k \in RmKeys : ~SameKey(k, key), [Next]_vars
  PROVE  ExitInv(key)'
<1>1. CASE UNCHANGED vars
  <2>1. UNCHANGED <<rows, tool>>
    BY <1>1 DEF vars
  <2> QED BY <2>1 DEF ExitInv, Kept, Guarded, Unhindered, Records
<1>2. CASE ServerNext
  BY <1>2, ServerExit
<1>3. ASSUME NEW t \in Tools, ToolNext(t) PROVE ExitInv(key)'
  <2>1. ~ToolAbort(t)
    BY DEF ToolAbort
  <2> QED BY <1>3, <2>1, NoConflict, StartExit, ChecksExit, WriteExit, GenerateExit
          DEF ToolNext, ToolStep
<1> QED BY <1>1, <1>2, <1>3 DEF Next

(* The daemon that denies finds the guard at least. *)
LEMMA DenialFound ==
  ASSUME ~Overlap, ~Busy, ~Kills, TypeOK, TableInv, StoreInv, NEW key, ExitInv(key), Next
  PROVE  srv.pc = "down" \/ srv'.pc # "down"
<1>1. CASE DenyQuery
  <2>1. srv.pc = "doe" /\ srv.req \in Req
    BY <1>1 DEF DenyQuery, TypeOK, ServerState
  <2>2. \A t \in Tools : tool[t].pc = "idle"
    BY <2>1 DEF StoreInv, Exclusive, Idle
  <2>3. PICK g \in rows : g.type = DOE /\ g.label = <<>>
    BY <2>2 DEF ExitInv, Guarded, DoePcs
  <2>4. NameLess(g.label, KeyName(srv.req))
    BY <2>1, <2>3, EmptyBeforeKey DEF Req
  <2>5. FindLowerBound(KeyName(srv.req)) \ {NoRow} # {}
    BY <2>3, <2>4, LowerBoundFound
  <2>6. NoRow \notin FindLowerBound(KeyName(srv.req))
    <3>1. NoRow \notin rows
      BY DEF TableInv, NoRow
    <3> QED BY <2>5, <3>1 DEF FindLowerBound
  <2>7. srv' = IdleServer
    BY <1>1, <2>6 DEF DenyQuery
  <2> QED BY <2>7 DEF IdleServer
<1>2. CASE HandleQuery
  <2>1. PICK q : srv' = srv \/ srv' = [IdleServer EXCEPT !.pc = "doe", !.req = AsReq(q)]
    BY <1>2 DEF HandleQuery
  <2> QED BY <1>2, <2>1 DEF HandleQuery, IdleServer
<1>3. CASE DoUpdate
  <2>1. PICK u, r : \/ srv' = srv
                    \/ srv' = [IdleServer EXCEPT !.pc = "insert", !.req = u]
                    \/ srv' = [pc |-> "update", req |-> u, old |-> r]
    BY <1>3 DEF DoUpdate
  <2>2. [IdleServer EXCEPT !.pc = "insert", !.req = u].pc = "insert"
    BY DEF IdleServer
  <2>3. [pc |-> "update", req |-> u, old |-> r].pc = "update"
    OBVIOUS
  <2>4. srv.pc = "idle"
    BY <1>3 DEF DoUpdate
  <2>5. srv'.pc \in {"idle", "insert", "update"}
    BY <2>1, <2>2, <2>3, <2>4
  <2> QED BY <2>5
<1>4. CASE HandleUpdate \/ RejectUpdate \/ DoUpdateReplace \/ DoUpdateInsert \/ ServerRestart
  BY <1>4 DEF HandleUpdate, RejectUpdate, DoUpdateReplace, DoUpdateInsert, ServerRestart, IdleServer
<1>5. CASE ServerKill
  BY <1>5 DEF ServerKill
<1>6. ASSUME NEW t \in Tools, ToolNext(t) PROVE UNCHANGED srv
  BY <1>6 DEF ToolNext, ToolStep, StartAdd, StartAddFromFile, StartRemove, StartCommand,
     CheckAuth, CheckLink, CheckOverride, FindAuth, InsertAuth, CheckRrsetVersion, RemoveOld,
     InsertRrset, FindForRemoval, RemoveRow, DoeClear, DoeRead, DoeInsert, DoeGuard,
     ToolConflict, ToolAbort
<1> QED BY <1>1, <1>2, <1>3, <1>4, <1>5, <1>6 DEF Next, ServerNext, ServerStep

(***************************************************************************)
(* No query brings the daemon down as long as operations neither overlap   *)
(* nor are interrupted, and one certificate of the zone is not removed:    *)
(* every command that changes a record reaches the end of generateDoe.     *)
(***************************************************************************)
THEOREM DaemonStays ==
  ASSUME Undisturbed
  PROVE  Spec => NeverExits
<1>1. PICK i \in 1 .. 2 : \A k \in RmKeys : ~SameKey(k, CertKeys[i])
  BY DEF Undisturbed
<1> DEFINE key == CertKeys[i]
           Inv == TypeInv /\ StoreInv /\ TableInv /\ ExitInv(key)
<1>2. ~Overlap /\ ~Busy /\ ~Kills /\ OneWriter
  BY DEF Undisturbed, OneWriter
<1>3. Init => TableInv /\ ExitInv(key)
  <2> SUFFICES ASSUME Init PROVE ExitInv(key)
    BY TableInit
  <2>1. PICK t \in Tools : tool = [u \in Tools |->
            IF u = t THEN [IdleTool EXCEPT !.pc = "doeClear"] ELSE IdleTool]
    BY DEF Init
  <2>2. tool[t].pc = "doeClear" /\ \A u \in Tools : tool[u].pc \in {"idle", "doeClear"}
    BY <2>1 DEF IdleTool
  <2>3. CertRow(i) \in Records /\ SameKey(CertRow(i), key)
    BY ConstantsAssumption DEF Init, Records, CertRow, SameKey
  <2> QED BY <2>2, <2>3 DEF ExitInv, Kept, Unhindered, DoePcs
<1>4. Spec => [](TypeInv /\ StoreInv)
  BY <1>2, AlwaysStoreInv
<1>5. TypeInv /\ StoreInv /\ TableInv /\ ExitInv(key) /\ [Next]_vars
        => TableInv' /\ ExitInv(key)'
  <2> SUFFICES ASSUME TypeInv, StoreInv, TableInv, ExitInv(key), [Next]_vars
               PROVE  TableInv' /\ ExitInv(key)'
    OBVIOUS
  <2> QED BY <1>1, <1>2, TableStep, ExitStep DEF TypeInv
<1>6. Inv /\ [Next]_vars => [srv.pc = "down" \/ srv'.pc # "down"]_vars
  BY <1>2, DenialFound DEF TypeInv
<1> QED BY <1>3, <1>4, <1>5, <1>6, PTL DEF Spec, NeverExits

-----------------------------------------------------------------------------
(***************************************************************************)
(* AUTH records above what ndns-add-rr stores.                             *)
(***************************************************************************)

(* The NS entry of a proper prefix of a label given to ndns-add-rr. *)
Above(label, type) ==
  type = NS /\ \E r \in AddReqs : \E i \in 1 .. Len(r.label) - 1 : label = SubSeq(r.label, 1, i)

(* A record that AuthClosed speaks of. *)
Added(r) == \E req \in AddReqs : SameKey(r, req) /\ r.ver = req.ver

HasNs(label, ct) == \E a \in Records : a.label = label /\ a.type = NS /\ a.ct = ct
AuthsUpTo(label, n) == \A j \in 1 .. n : HasNs(SubSeq(label, 1, j), "AUTH")
Backed(r) == Added(r) => AuthsUpTo(r.label, Len(r.label) - 1)

(* Only ndns-add-rr writes the NS entries above the labels it is given, and *)
(* only it stores those labels with the versions it is given, unless they   *)
(* have one component.                                                      *)
OwnEntries ==
  /\ \A k \in FileReqs \cup UpdReqs \cup RmKeys : ~Above(k.label, k.type)
  /\ \A r \in FileReqs \cup UpdReqs : Added(r) => Len(r.label) =< 1
  /\ \A i \in 1 .. 2 : /\ ~Above(CertKeys[i].label, CertKeys[i].type)
                       /\ Added(CertRow(i)) => Len(CertKeys[i].label) =< 1

(* How far a command has come with the AUTH records. *)
Climbs(t) ==
  LET pc == tool[t].pc
      req == tool[t].req
  IN
  /\ pc \in {"link", "override", "authFind", "authInsert"} => req \in AddReqs
  /\ pc \in {"authFind", "authInsert"} => AuthsUpTo(req.label, tool[t].i - 1)
  /\ pc \in {"auth", "ver", "rmOld", "insert"} => Backed(req)

(* The daemon works on an update, and the row it has found is there. *)
UpdateSees ==
  /\ srv.pc \in {"update", "insert"} => srv.req \in UpdReqs
  /\ srv.pc = "update" => \E r \in Records : r.id = srv.old.id /\ SameKey(r, srv.req)

(* One after the other: ndns-add-rr puts a delegation or an AUTH record at  *)
(* such an entry.                                                           *)
InTurn ==
  /\ ~Overlap /\ ~Busy
  /\ \A r \in AddReqs : Above(r.label, r.type) => r.ct \in {"LINK", "AUTH"}

(* What addRrset and addMultiLevelLabelRrset have checked. *)
Checked(t) ==
  LET pc == tool[t].pc
      req == tool[t].req
  IN
  /\ pc \in {"auth", "link", "override", "authFind", "authInsert", "ver", "rmOld", "insert"} =>
       (Above(req.label, req.type) => req.ct \in {"LINK", "AUTH"})
  /\ pc \in {"rmFind", "rmRow"} => ~Above(req.label, req.type)
  /\ pc = "rmRow" => SameKey(tool[t].old, req)
  /\ pc = "link" => \A j \in 1 .. tool[t].i - 1 : ~HasNs(SubSeq(req.label, 1, j), "LINK")
  /\ pc \in {"override", "authFind", "authInsert"} =>
       \A j \in 1 .. Len(req.label) - 1 : ~HasNs(SubSeq(req.label, 1, j), "LINK")
  /\ pc \in {"authFind", "authInsert", "ver", "rmOld", "insert"} =>
       (Above(req.label, req.type) => ~HasNs(req.label, "AUTH"))

TurnInv ==
  /\ AuthClosed
  /\ \A r \in Records : Above(r.label, r.type) => r.ct \in {"LINK", "AUTH"}
  /\ \A t \in Tools : Climbs(t) /\ Checked(t)

(* All at once: no command removes a record or replaces one by a newer      *)
(* version, and none writes such an entry.                                  *)
AllAtOnce ==
  /\ RmKeys = {}
  /\ \A a \in AddReqs \cup FileReqs :
       /\ ~Above(a.label, a.type)
       /\ \A b \in AddReqs \cup FileReqs \cup UpdReqs : SameKey(a, b) => a.ver =< b.ver
       /\ \A i \in 1 .. 2 : SameKey(a, CertKeys[i]) => a.ver =< 1

(* No command is about to remove a record. *)
OnlyAdds(t) ==
  /\ tool[t].pc \notin {"rmOld", "rmFind", "rmRow"}
  /\ tool[t].pc \in {"auth", "link", "override", "authFind", "authInsert", "ver", "insert"} =>
       tool[t].req \in AddReqs \cup FileReqs

RaceInv ==
  /\ IdsGiven /\ AuthClosed
  /\ \A r \in Records : Above(r.label, r.type) => r.ct = "AUTH"
  /\ \A r \in Records, a \in AddReqs \cup FileReqs : SameKey(r, a) => a.ver =< r.ver
  /\ \A t \in Tools : Climbs(t) /\ OnlyAdds(t)
  /\ UpdateSees

-----------------------------------------------------------------------------
(* What both arguments share. *)

(* A step keeps the AUTH records where AuthClosed may need them. *)
AuthsKept == \A p : Above(p, NS) /\ HasNs(p, "AUTH") => HasNs(p, "AUTH")'

LEMMA ClosedBacked ==
  /\ AuthClosed <=> \A r \in Records : Backed(r)
  /\ AuthClosed' <=> \A r \in Records' : Backed(r)'
BY DEF AuthClosed, Backed, Added, AuthsUpTo, HasNs

(* The prefixes of a given label. *)
LEMMA UpToKept ==
  ASSUME AuthsKept, NEW a \in AddReqs, NEW n, n \in Int, n =< Len(a.label) - 1,
         AuthsUpTo(a.label, n)
  PROVE  AuthsUpTo(a.label, n)'
<1>1. \A j \in 1 .. n : j \in 1 .. Len(a.label) - 1
  <2>1. Len(a.label) \in Nat
    BY ConstantsAssumption DEF Req, Name
  <2> QED BY <2>1
<1>2. \A j \in 1 .. n : Above(SubSeq(a.label, 1, j), NS)
  BY <1>1 DEF Above
<1> QED BY <1>2 DEF AuthsKept, AuthsUpTo

LEMMA BackedKept ==
  ASSUME AuthsKept, NEW r, Backed(r)
  PROVE  Backed(r)'
<1>1. CASE Added(r)
  <2>1. PICK a \in AddReqs : r.label = a.label
    BY <1>1 DEF Added, SameKey
  <2>0. Len(a.label) \in Nat
    BY ConstantsAssumption DEF Req, Name
  <2> DEFINE n == Len(a.label) - 1
  <2>2. n \in Int /\ n =< Len(a.label) - 1
    BY <2>0
  <2> HIDE DEF n
  <2>3. AuthsUpTo(a.label, n)
    BY <1>1, <2>1 DEF Backed, n
  <2>4. AuthsUpTo(a.label, n)'
    BY <2>2, <2>3, UpToKept
  <2> QED BY <2>1, <2>4 DEF Backed, n
<1>2. CASE ~Added(r)
  BY <1>2 DEF Backed, Added
<1> QED BY <1>1, <1>2

(* Nothing is asked of a record whose label has one component. *)
LEMMA ShortBacked ==
  ASSUME NEW r, r.label \in Name, Added(r) => Len(r.label) =< 1
  PROVE  Backed(r) /\ Backed(r)'
BY DEF Backed, Added, AuthsUpTo, Name

(* A step closes the table again if every new record has its AUTH records.  *)
LEMMA ClosedStep ==
  ASSUME AuthClosed, AuthsKept, \A r \in Records' : r \in Records \/ Backed(r)
  PROVE  AuthClosed'
BY ClosedBacked, BackedKept

(* A command that does not move. *)
LEMMA ClimbsStay ==
  ASSUME TypeInv, AuthsKept, NEW t \in Tools, Climbs(t), tool'[t] = tool[t]
  PROVE  Climbs(t)'
<1>1. PICK l : l = tool[t]
  OBVIOUS
<1>2. CASE l.pc \in {"authFind", "authInsert"}
  <2>1. l.req \in AddReqs /\ AuthsUpTo(l.req.label, l.i - 1)
    BY <1>1, <1>2 DEF Climbs
  <2>2. l.i - 1 \in Int /\ l.i - 1 =< Len(l.req.label) - 1
    BY <1>1, <1>2 DEF TypeInv, LoopIndex, TypeOK, ToolState
  <2>3. AuthsUpTo(l.req.label, l.i - 1)'
    BY <2>1, <2>2, UpToKept
  <2> QED BY <1>1, <1>2, <2>1, <2>3 DEF Climbs
<1>3. CASE l.pc \in {"auth", "ver", "rmOld", "insert"}
  <2>1. Backed(l.req)
    BY <1>1, <1>3 DEF Climbs
  <2>2. Backed(l.req)'
    BY <2>1, BackedKept
  <2> QED BY <1>1, <1>3, <2>2 DEF Climbs
<1>4. CASE l.pc \notin {"authFind", "authInsert", "auth", "ver", "rmOld", "insert"}
  BY <1>1, <1>4 DEF Climbs
<1> QED BY <1>2, <1>3, <1>4

(* A command that takes its record along. *)
LEMMA ClimbsOn ==
  ASSUME AuthsKept, NEW t \in Tools, Climbs(t),
         tool[t].pc \in {"auth", "ver", "rmOld"}, tool'[t].pc \in {"ver", "rmOld", "insert"},
         tool'[t].req = tool[t].req
  PROVE  Climbs(t)'
<1>1. PICK q : q = tool[t].req
  OBVIOUS
<1>2. Backed(q)
  BY <1>1 DEF Climbs
<1>3. Backed(q)'
  BY <1>2, BackedKept
<1> QED BY <1>1, <1>3 DEF Climbs

(* A command that has nothing more to do with AUTH records. *)
LEMMA ClimbsOff ==
  ASSUME NEW t \in Tools,
         tool'[t].pc \notin {"auth", "link", "override", "authFind", "authInsert",
                             "ver", "rmOld", "insert"}
  PROVE  Climbs(t)'
BY DEF Climbs

(* One more prefix has its AUTH record. *)
LEMMA ClimbsUp ==
  ASSUME TypeInv, AuthsKept, NEW t \in Tools, Climbs(t),
         tool[t].pc \in {"authFind", "authInsert"}, NextPrefix(t),
         NEW p, p = Prefix(t), HasNs(p, "AUTH")'
  PROVE  Climbs(t)' /\ \A u \in Tools \ {t} : tool'[u] = tool[u]
<1>1. PICK l : l = tool[t]
  OBVIOUS
<1>2. /\ l \in ToolState /\ l.i \in 1 .. Len(l.req.label) - 1 /\ Len(l.req.label) \in Nat
      /\ tool \in [Tools -> ToolState]
  BY <1>1 DEF TypeInv, TypeOK, LoopIndex, ToolState, Req, Name
<1>3. /\ tool'[t].req = l.req /\ tool'[t].i = l.i + 1
      /\ tool'[t].pc = (IF LastPrefix(t) THEN "ver" ELSE "authFind")
      /\ \A u \in Tools \ {t} : tool'[u] = tool[u]
  BY <1>1, <1>2 DEF NextPrefix, ToolState
<1>4. l.req \in AddReqs /\ AuthsUpTo(l.req.label, l.i - 1)
  BY <1>1 DEF Climbs
<1>5. AuthsUpTo(l.req.label, l.i - 1)'
  <2>1. l.i - 1 \in Int /\ l.i - 1 =< Len(l.req.label) - 1
    BY <1>2
  <2> QED BY <1>4, <2>1, UpToKept
<1>6. HasNs(SubSeq(l.req.label, 1, l.i), "AUTH")'
  BY <1>1 DEF Prefix
<1>7. AuthsUpTo(l.req.label, l.i)'
  <2>1. \A j \in 1 .. l.i : j \in 1 .. l.i - 1 \/ j = l.i
    BY <1>2
  <2> QED BY <1>5, <1>6, <2>1 DEF AuthsUpTo
<1>8. CASE LastPrefix(t)
  <2>1. l.i = Len(l.req.label) - 1
    BY <1>1, <1>8 DEF LastPrefix
  <2>2. Backed(l.req)'
    BY <1>7, <2>1 DEF Backed
  <2>3. tool'[t].pc = "ver"
    BY <1>3, <1>8
  <2> QED BY <1>3, <2>2, <2>3 DEF Climbs
<1>9. CASE ~LastPrefix(t)
  <2>1. tool'[t].pc = "authFind" /\ tool'[t].i - 1 = l.i
    BY <1>2, <1>3, <1>9
  <2> QED BY <1>3, <1>4, <1>7, <2>1 DEF Climbs, AuthsUpTo
<1> QED BY <1>8, <1>9, <1>3

-----------------------------------------------------------------------------
(* Rows that only come take no AUTH record away. *)
LEMMA MoreKept ==
  ASSUME \A r \in Records : r \in Records'
  PROVE  AuthsKept
BY DEF AuthsKept, HasNs

(* The beginning of a command. *)
LEMMA StartClimbs ==
  ASSUME OwnEntries, TypeInv, NEW t \in Tools,
         StartAdd(t) \/ StartAddFromFile(t) \/ StartRemove(t)
  PROVE  Climbs(t)' /\ \A u \in Tools \ {t} : tool'[u] = tool[u]
<1>1. ASSUME NEW pc, NEW req, StartCommand(t, pc, req)
      PROVE  /\ tool'[t].pc = pc /\ tool'[t].req = req
             /\ \A u \in Tools \ {t} : tool'[u] = tool[u]
  BY <1>1 DEF StartCommand, TypeInv, TypeOK, IdleTool
<1>2. CASE StartAdd(t)
  <2>1. PICK req \in AddReqs : StartCommand(t, IF Len(req.label) > 1 THEN "link" ELSE "auth", req)
    BY <1>2 DEF StartAdd
  <2>2. req.label \in Name /\ Len(req.label) \in Nat
    BY ConstantsAssumption DEF Req, Name
  <2>3. CASE Len(req.label) > 1
    <3>1. StartCommand(t, "link", req)
      BY <2>1, <2>3
    <3> QED BY <1>1, <3>1 DEF Climbs
  <2>4. CASE ~(Len(req.label) > 1)
    <3>1. StartCommand(t, "auth", req)
      BY <2>1, <2>4
    <3>2. Backed(req)'
      BY <2>2, <2>4, ShortBacked
    <3> QED BY <1>1, <3>1, <3>2 DEF Climbs
  <2> QED BY <2>3, <2>4
<1>3. CASE StartAddFromFile(t)
  <2>1. PICK req \in FileReqs : StartCommand(t, "ver", req)
    BY <1>3 DEF StartAddFromFile
  <2>2. req.label \in Name /\ (Added(req) => Len(req.label) =< 1)
    BY ConstantsAssumption DEF Req, OwnEntries
  <2>3. Backed(req)'
    BY <2>2, ShortBacked
  <2> QED BY <1>1, <2>1, <2>3 DEF Climbs
<1>4. CASE StartRemove(t)
  <2>1. PICK k \in RmKeys : StartCommand(t, "rmFind", RmReq(k))
    BY <1>4 DEF StartRemove
  <2> QED BY <1>1, <2>1 DEF Climbs
<1> QED BY <1>2, <1>3, <1>4

(* The SELECTs of a command but for the one of the second loop, and its     *)
(* ends.                                                                    *)
LEMMA CheckClimbs ==
  ASSUME TypeInv, AuthsKept, NEW t \in Tools, Climbs(t),
         \/ CheckAuth(t) \/ CheckLink(t) \/ CheckOverride(t)
         \/ CheckRrsetVersion(t) \/ FindForRemoval(t) \/ ToolConflict(t) \/ ToolAbort(t)
  PROVE  Climbs(t)' /\ \A u \in Tools \ {t} : tool'[u] = tool[u]
<1>1. tool[t] \in ToolState /\ tool \in [Tools -> ToolState] /\ TypeOK
  BY DEF TypeInv, TypeOK
<1>2. CASE Done(t)
  BY <1>1, <1>2, DoneType, ClimbsOff
<1>3. ASSUME tool[t].pc \in {"auth", "ver"}, NEW pc \in {"ver", "insert"}, Goto(t, pc)
      PROVE  Climbs(t)' /\ \A u \in Tools \ {t} : tool'[u] = tool[u]
  <2>1. /\ tool'[t].pc = pc /\ tool'[t].req = tool[t].req
        /\ \A u \in Tools \ {t} : tool'[u] = tool[u]
    BY <1>1, <1>3 DEF Goto, ToolState
  <2> QED BY <1>3, <2>1, ClimbsOn
<1>4. CASE CheckAuth(t)
  BY <1>2, <1>3, <1>4 DEF CheckAuth
<1>5. CASE CheckLink(t)
  <2>1. CASE tool' = [tool EXCEPT ![t].pc = IF LastPrefix(t) THEN "override" ELSE "link",
                                  ![t].i = IF LastPrefix(t) THEN 1 ELSE @ + 1]
    <3>1. /\ tool'[t].pc \in {"override", "link"} /\ tool'[t].req = tool[t].req
          /\ \A u \in Tools \ {t} : tool'[u] = tool[u]
      BY <1>1, <2>1 DEF ToolState
    <3>2. tool[t].pc = "link"
      BY <1>5 DEF CheckLink
    <3> QED BY <3>1, <3>2 DEF Climbs
  <2> QED BY <1>2, <1>5, <2>1 DEF CheckLink
<1>6. CASE CheckOverride(t)
  <2>1. CASE Goto(t, "authFind")
    <3>1. tool[t].pc = "override" /\ tool[t].i = 1
      BY <1>6 DEF CheckOverride, TypeInv, OverrideIndex
    <3>2. /\ tool'[t].pc = "authFind" /\ tool'[t].req = tool[t].req /\ tool'[t].i - 1 = 0
          /\ \A u \in Tools \ {t} : tool'[u] = tool[u]
      BY <1>1, <2>1, <3>1 DEF Goto, ToolState
    <3> QED BY <3>1, <3>2 DEF Climbs, AuthsUpTo
  <2> QED BY <1>2, <1>6, <2>1 DEF CheckOverride
<1>7. ASSUME tool[t].pc \in {"ver", "rmFind"}, NEW r,
             tool' = [tool EXCEPT ![t].pc = IF tool[t].pc = "ver" THEN "rmOld" ELSE "rmRow",
                                  ![t].old = r]
      PROVE  Climbs(t)' /\ \A u \in Tools \ {t} : tool'[u] = tool[u]
  <2>1. /\ tool'[t].pc = (IF tool[t].pc = "ver" THEN "rmOld" ELSE "rmRow")
        /\ tool'[t].req = tool[t].req
        /\ \A u \in Tools \ {t} : tool'[u] = tool[u]
    BY <1>1, <1>7 DEF ToolState
  <2>2. CASE tool[t].pc = "ver"
    BY <2>1, <2>2, ClimbsOn
  <2>3. CASE tool[t].pc = "rmFind"
    BY <2>1, <2>3, ClimbsOff
  <2> QED BY <1>7, <2>1, <2>2, <2>3
<1>8. CASE CheckRrsetVersion(t)
  <2>1. tool[t].pc = "ver"
    BY <1>8 DEF CheckRrsetVersion
  <2>2. PICK r : \/ Goto(t, "insert") \/ Done(t)
                 \/ tool' = [tool EXCEPT ![t].pc = "rmOld", ![t].old = r]
    BY <1>8 DEF CheckRrsetVersion
  <2> QED BY <1>2, <1>3, <1>7, <2>1, <2>2
<1>9. CASE FindForRemoval(t)
  <2>1. tool[t].pc = "rmFind"
    BY <1>9 DEF FindForRemoval
  <2>2. PICK r : Done(t) \/ tool' = [tool EXCEPT ![t].pc = "rmRow", ![t].old = r]
    BY <1>9 DEF FindForRemoval
  <2> QED BY <1>2, <1>7, <2>1, <2>2
<1> QED BY <1>2, <1>4, <1>5, <1>6, <1>8, <1>9 DEF ToolConflict, ToolAbort

(* The statements that write. *)
LEMMA WriteClimbs ==
  ASSUME TypeInv, IdsGiven, AuthsKept, NEW t \in Tools, Climbs(t),
         InsertAuth(t) \/ RemoveOld(t) \/ InsertRrset(t) \/ RemoveRow(t)
  PROVE  Climbs(t)' /\ \A u \in Tools \ {t} : tool'[u] = tool[u]
<1>1. tool[t] \in ToolState /\ tool \in [Tools -> ToolState] /\ TypeOK
  BY DEF TypeInv, TypeOK
<1>2. CASE InsertAuth(t)
  <2>1. PICK p : p = Prefix(t)
    OBVIOUS
  <2>2. PICK v : Insert(p, NS, v, "AUTH", <<>>, <<>>)
    BY <1>2, <2>1 DEF InsertAuth
  <2>3. PICK n : rows' = rows \cup {n} /\ n.label = p /\ n.type = NS /\ n.ct = "AUTH"
    BY <1>1, <2>2, InsertRow
  <2>4. HasNs(p, "AUTH")'
    BY <2>3, ConstantsAssumption DEF HasNs, Records
  <2>5. tool[t].pc = "authInsert" /\ NextPrefix(t)
    BY <1>2 DEF InsertAuth
  <2> QED BY <2>1, <2>4, <2>5, ClimbsUp
<1>3. CASE RemoveOld(t)
  <2>1. tool[t].pc = "rmOld" /\ Goto(t, "insert")
    BY <1>3 DEF RemoveOld
  <2>2. /\ tool'[t].pc = "insert" /\ tool'[t].req = tool[t].req
        /\ \A u \in Tools \ {t} : tool'[u] = tool[u]
    BY <1>1, <2>1 DEF Goto, ToolState
  <2> QED BY <2>1, <2>2, ClimbsOn
<1>4. CASE InsertRrset(t) \/ RemoveRow(t)
  <2>1. Goto(t, "doeClear")
    BY <1>4 DEF InsertRrset, RemoveRow
  <2>2. tool'[t].pc = "doeClear" /\ \A u \in Tools \ {t} : tool'[u] = tool[u]
    BY <1>1, <2>1 DEF Goto, ToolState
  <2> QED BY <2>2, ClimbsOff
<1> QED BY <1>2, <1>3, <1>4

(* A prefix of a prefix. *)
LEMMA PrefixOfPrefix ==
  ASSUME NEW label \in Name, NEW i \in 1 .. Len(label), NEW j \in 1 .. i
  PROVE  /\ Len(SubSeq(label, 1, i)) = i
         /\ SubSeq(SubSeq(label, 1, i), 1, j) = SubSeq(label, 1, j)
<1> DEFINE a == SubSeq(SubSeq(label, 1, i), 1, j)
           b == SubSeq(label, 1, j)
<1>1. SubSeq(label, 1, i) \in Seq(Nat) /\ Len(SubSeq(label, 1, i)) = i
      /\ \A k \in 1 .. i : SubSeq(label, 1, i)[k] = label[k]
  BY DEF Name
<1>2. a \in Seq(Nat) /\ Len(a) = j /\ \A k \in 1 .. j : a[k] = label[k]
  BY <1>1
<1>3. b \in Seq(Nat) /\ Len(b) = j /\ \A k \in 1 .. j : b[k] = label[k]
  BY DEF Name
<1> HIDE DEF a, b
<1>4. a = b
  BY <1>2, <1>3, SeqEqual
<1> QED BY <1>1, <1>4 DEF a, b

(* The records a command stores: AUTH records, and the one it was given. *)
LEMMA NewRecords ==
  ASSUME TypeInv, IdsGiven, NEW t \in Tools, ToolNext(t), NEW r \in Records', r \notin Records
  PROVE  \/ /\ tool[t].pc = "authInsert"
            /\ r.label = Prefix(t) /\ r.type = NS /\ r.ct = "AUTH"
         \/ /\ tool[t].pc = "insert"
            /\ SameKey(r, tool[t].req) /\ r.ver = tool[t].req.ver /\ r.ct = tool[t].req.ct
<1>1. TypeOK /\ r \in rows' /\ ~(\A x \in rows' : x \in rows)
  BY DEF TypeInv, Records
<1>2. CASE InsertAuth(t)
  <2>1. PICK v : Insert(Prefix(t), NS, v, "AUTH", <<>>, <<>>)
    BY <1>2 DEF InsertAuth
  <2>2. PICK n : rows' = rows \cup {n} /\ n.label = Prefix(t) /\ n.type = NS /\ n.ct = "AUTH"
    BY <1>1, <2>1, InsertRow
  <2> QED BY <1>2, <2>2 DEF InsertAuth, Records
<1>3. CASE InsertRrset(t)
  <2>1. PICK q : q = tool[t].req
    OBVIOUS
  <2>2. Insert(q.label, q.type, q.ver, q.ct, <<>>, <<>>)
    BY <1>3, <2>1 DEF InsertRrset
  <2>3. PICK n : /\ rows' = rows \cup {n} /\ n.label = q.label /\ n.type = q.type
                 /\ n.ver = q.ver /\ n.ct = q.ct
    BY <1>1, <2>2, InsertRow
  <2> QED BY <1>3, <2>1, <2>3 DEF InsertRrset, Records, SameKey
<1>4. CASE DoeClear(t) \/ DoeRead(t) \/ DoeInsert(t) \/ DoeGuard(t)
  BY <1>1, <1>4, GenerateKeeps
<1>5. CASE RemoveOld(t) \/ RemoveRow(t)
  BY <1>1, <1>5 DEF RemoveOld, RemoveRow, RemoveId
<1>6. CASE StartAdd(t) \/ StartAddFromFile(t) \/ StartRemove(t)
  BY <1>1, <1>6 DEF StartAdd, StartAddFromFile, StartRemove, StartCommand
<1> QED BY <1>1, <1>2, <1>3, <1>4, <1>5, <1>6 DEF ToolNext, ToolStep, CheckAuth, CheckLink,
      CheckOverride, FindAuth, CheckRrsetVersion, FindForRemoval, ToolConflict, ToolAbort

(* None of them lacks its AUTH records. *)
LEMMA StoresBacked ==
  ASSUME TypeInv, IdsGiven, NEW t \in Tools, Climbs(t), ToolNext(t)
  PROVE  \A r \in Records' : r \in Records \/ Backed(r)
<1> SUFFICES ASSUME NEW r \in Records', r \notin Records PROVE Backed(r)
  OBVIOUS
<1>1. PICK l : l = tool[t]
  OBVIOUS
<1>2. l \in ToolState
  BY <1>1 DEF TypeInv, TypeOK
<1>3. CASE l.pc = "authInsert" /\ r.label = Prefix(t)
  <2>1. l.req.label \in Name /\ l.i \in 1 .. Len(l.req.label) - 1 /\ Len(l.req.label) \in Nat
    BY <1>1, <1>2, <1>3 DEF TypeInv, LoopIndex, ToolState, Req, Name
  <2>2. AuthsUpTo(l.req.label, l.i - 1) /\ r.label = SubSeq(l.req.label, 1, l.i)
    BY <1>1, <1>3 DEF Climbs, Prefix
  <2>3. l.i \in 1 .. Len(l.req.label) /\ l.i \in 1 .. l.i /\ \A j \in 1 .. l.i - 1 : j \in 1 .. l.i
    BY <2>1
  <2>4. Len(r.label) = l.i
    BY <2>1, <2>2, <2>3, PrefixOfPrefix
  <2>5. \A j \in 1 .. l.i - 1 : SubSeq(r.label, 1, j) = SubSeq(l.req.label, 1, j)
    BY <2>1, <2>2, <2>3, PrefixOfPrefix
  <2> QED BY <2>2, <2>4, <2>5 DEF Backed, AuthsUpTo
<1>4. CASE l.pc = "insert" /\ SameKey(r, l.req) /\ r.ver = l.req.ver
  <2>1. Backed(l.req)
    BY <1>1, <1>4 DEF Climbs
  <2> QED BY <1>4, <2>1 DEF Backed, Added, SameKey
<1> QED BY <1>1, <1>3, <1>4, NewRecords

(* Only the two statements that remove a record can take an AUTH record     *)
(* away.                                                                    *)
LEMMA CommandKeeps ==
  ASSUME TypeInv, IdsGiven, NEW t \in Tools, ToolNext(t), ~RemoveOld(t), ~RemoveRow(t)
  PROVE  \A r \in Records : r \in Records'
<1>1. TypeOK
  BY DEF TypeInv
<1>2. CASE UNCHANGED rows
  BY <1>2 DEF Records
<1>3. CASE InsertAuth(t) \/ InsertRrset(t)
  <2>1. PICK label, type, ver, ct, lo, hi : Insert(label, type, ver, ct, lo, hi)
    BY <1>3 DEF InsertAuth, InsertRrset
  <2>2. PICK n : rows' = rows \cup {n}
    BY <1>1, <2>1, InsertRow
  <2> QED BY <2>2 DEF Records
<1>4. CASE DoeClear(t) \/ DoeRead(t) \/ DoeInsert(t) \/ DoeGuard(t)
  BY <1>1, <1>4, GenerateKeeps
<1>5. CASE StartAdd(t) \/ StartAddFromFile(t) \/ StartRemove(t)
  BY <1>2, <1>5 DEF StartAdd, StartAddFromFile, StartRemove, StartCommand
<1> QED BY <1>2, <1>3, <1>4, <1>5 DEF ToolNext, ToolStep, CheckAuth, CheckLink,
      CheckOverride, FindAuth, CheckRrsetVersion, FindForRemoval, ToolConflict, ToolAbort

(* Every step of a command, provided that AUTH records stay and that a      *)
(* record found at an NS entry above is one.                                *)
LEMMA CommandClimbs ==
  ASSUME OwnEntries, TypeInv, IdsGiven, AuthClosed, NEW t \in Tools, Climbs(t), ToolNext(t),
         AuthsKept,
         FindAuth(t) => \A r \in Find(Prefix(t), NS) : r # NoRow => HasNs(Prefix(t), "AUTH")
  PROVE  AuthClosed' /\ Climbs(t)' /\ \A u \in Tools \ {t} : tool'[u] = tool[u]
<1>1. AuthClosed'
  BY StoresBacked, ClosedStep
<1> SUFFICES Climbs(t)' /\ \A u \in Tools \ {t} : tool'[u] = tool[u]
  BY <1>1
<1>2. TypeOK /\ tool[t] \in ToolState /\ tool \in [Tools -> ToolState]
  BY DEF TypeInv, TypeOK
<1>3. CASE FindAuth(t)
  <2>1. PICK r \in Find(Prefix(t), NS) : IF r # NoRow THEN NextPrefix(t) ELSE Goto(t, "authInsert")
    BY <1>3 DEF FindAuth
  <2>2. tool[t].pc = "authFind" /\ UNCHANGED rows
    BY <1>3 DEF FindAuth
  <2>3. CASE r # NoRow
    <3>1. PICK p : p = Prefix(t)
      OBVIOUS
    <3>2. HasNs(p, "AUTH")
      BY <1>3, <2>1, <2>3, <3>1
    <3>3. HasNs(p, "AUTH")'
      BY <2>2, <3>2 DEF HasNs, Records
    <3> QED BY <2>1, <2>2, <2>3, <3>1, <3>3, ClimbsUp
  <2>4. CASE r = NoRow
    <3>1. PICK l : l = tool[t]
      OBVIOUS
    <3>2. Goto(t, "authInsert")
      BY <2>1, <2>4
    <3>3. /\ tool'[t].pc = "authInsert" /\ tool'[t].req = l.req /\ tool'[t].i = l.i
          /\ \A u \in Tools \ {t} : tool'[u] = tool[u]
      BY <1>2, <3>1, <3>2 DEF Goto, ToolState
    <3>4. l.req \in AddReqs /\ AuthsUpTo(l.req.label, l.i - 1)
      BY <2>2, <3>1 DEF Climbs
    <3>5. AuthsUpTo(l.req.label, l.i - 1)'
      BY <2>2, <3>4 DEF AuthsUpTo, HasNs, Records
    <3> QED BY <3>3, <3>4, <3>5 DEF Climbs
  <2> QED BY <2>3, <2>4
<1>4. CASE StartAdd(t) \/ StartAddFromFile(t) \/ StartRemove(t)
  BY <1>4, StartClimbs
<1>5. CASE \/ CheckAuth(t) \/ CheckLink(t) \/ CheckOverride(t)
           \/ CheckRrsetVersion(t) \/ FindForRemoval(t) \/ ToolConflict(t) \/ ToolAbort(t)
  BY <1>5, CheckClimbs
<1>6. CASE InsertAuth(t) \/ RemoveOld(t) \/ InsertRrset(t) \/ RemoveRow(t)
  BY <1>6, WriteClimbs
<1>7. CASE DoeClear(t) \/ DoeRead(t) \/ DoeInsert(t) \/ DoeGuard(t)
  <2>1. /\ \A u \in Tools \ {t} : tool'[u] = tool[u]
        /\ tool'[t].pc \in {"idle", "doeRead", "doeInsert", "doeGuard"}
    BY <1>2, <1>7, GenerateKeeps
  <2> QED BY <2>1, ClimbsOff
<1> QED BY <1>3, <1>4, <1>5, <1>6, <1>7 DEF ToolNext, ToolStep

(* The beginning: createZone has stored two certificates. *)
LEMMA ClimbsInit ==
  ASSUME OwnEntries, Init
  PROVE  /\ AuthClosed
         /\ \A t \in Tools : Climbs(t) /\ tool[t].pc \in {"idle", "doeClear"}
         /\ \A r \in rows : r \in {CertRow(1), CertRow(2)}
         /\ \A r \in Records : ~Above(r.label, r.type)
<1>1. \A t \in Tools : tool[t].pc \in {"idle", "doeClear"}
  BY DEF Init, IdleTool
<1>2. rows = {CertRow(1), CertRow(2)}
  BY DEF Init
<1>3. ASSUME NEW i \in 1 .. 2
      PROVE  Backed(CertRow(i)) /\ ~Above(CertRow(i).label, CertRow(i).type)
  <2>1. CertRow(i).label = CertKeys[i].label /\ CertRow(i).type = CertKeys[i].type
    BY DEF CertRow
  <2>2. CertKeys[i].label \in Name
    <3>1. CertKeys[i] \in Key
      BY ConstantsAssumption
    <3> QED BY <3>1 DEF Key
  <2>3. ~Above(CertKeys[i].label, CertKeys[i].type)
        /\ (Added(CertRow(i)) => Len(CertKeys[i].label) =< 1)
    BY DEF OwnEntries
  <2> QED BY <2>1, <2>2, <2>3, ShortBacked
<1>4. \A r \in rows : Backed(r) /\ ~Above(r.label, r.type)
  BY <1>2, <1>3
<1>5. AuthClosed
  BY <1>4, ClosedBacked DEF Records
<1>6. \A t \in Tools : Climbs(t)
  BY <1>1 DEF Climbs
<1> QED BY <1>1, <1>2, <1>4, <1>5, <1>6 DEF Records

(* An update changes the record of its label and type, or adds it. *)
LEMMA UpdateRecords ==
  ASSUME TypeInv, IdsGiven, UpdateSees, ServerNext
  PROVE  /\ UNCHANGED tool
         /\ \A r \in Records : r \in Records' \/
              /\ srv.req \in UpdReqs /\ SameKey(r, srv.req)
              /\ \E s \in Records' : s.id = r.id /\ SameKey(s, r)
         /\ \A r \in Records' : r \in Records \/
              /\ srv.req \in UpdReqs /\ SameKey(r, srv.req) /\ r.ver = srv.req.ver
<1>1. UNCHANGED tool
  BY DEF ServerNext, ServerStep, HandleQuery, HandleUpdate, RejectUpdate, DoUpdate, DenyQuery,
     DoUpdateReplace, DoUpdateInsert, ServerKill, ServerRestart
<1>2. CASE UNCHANGED rows
  BY <1>1, <1>2 DEF Records
<1>3. CASE DoUpdateInsert
  <2>1. PICK q : q = srv.req
    OBVIOUS
  <2>2. CASE Insert(q.label, q.type, q.ver, q.ct, <<>>, <<>>)
    <3>1. PICK n : rows' = rows \cup {n} /\ n.label = q.label /\ n.type = q.type /\ n.ver = q.ver
      BY <2>2, InsertRow DEF TypeInv
    <3>2. q \in UpdReqs
      BY <1>3, <2>1 DEF DoUpdateInsert, UpdateSees
    <3> QED BY <1>1, <2>1, <3>1, <3>2 DEF Records, SameKey
  <2> QED BY <1>2, <1>3, <2>1, <2>2 DEF DoUpdateInsert
<1>4. CASE DoUpdateReplace
  <2>1. PICK q, id : q = srv.req /\ id = srv.old.id
    OBVIOUS
  <2>2. PICK old \in Records : old.id = id /\ SameKey(old, q)
    BY <1>4, <2>1 DEF DoUpdateReplace, UpdateSees
  <2>3. q \in UpdReqs
    BY <1>4, <2>1 DEF DoUpdateReplace, UpdateSees
  <2> DEFINE Up(r) == Updated(r, id, q.ver, q.ct)
  <2>4. rows' = rows \/ rows' = {Up(r) : r \in rows}
    BY <1>4, <2>1 DEF DoUpdateReplace, UpdateId
  <2>5. \A r \in rows : r # old => Up(r) = r
    BY <2>2 DEF IdsGiven, IdsUnique, Updated, Records
  <2>6. Up(old).id = old.id /\ SameKey(Up(old), old) /\ Up(old).ver = q.ver
    <3>1. old \in Row
      BY DEF TypeInv, TypeOK, Records
    <3> QED BY <2>2, <3>1 DEF Updated, Row, SameKey
  <2> HIDE DEF Up
  <2>7. CASE rows' = {Up(r) : r \in rows}
    <3>1. Up(old) \in Records'
      BY <2>2, <2>6, <2>7 DEF Records, SameKey
    <3>2. \A r \in Records : r \in Records' \/ r = old
      BY <2>5, <2>7 DEF Records
    <3>3. \A r \in Records' : r \in Records \/ r = Up(old)
      BY <2>5, <2>7 DEF Records
    <3>4. SameKey(Up(old), q)
      BY <2>2, <2>6 DEF SameKey
    <3> QED BY <1>1, <2>1, <2>2, <2>3, <2>6, <3>1, <3>2, <3>3, <3>4
  <2> QED BY <1>2, <2>4, <2>7
<1> QED BY <1>2, <1>3, <1>4 DEF ServerNext, ServerStep, HandleQuery, HandleUpdate, RejectUpdate,
      DoUpdate, DenyQuery, ServerKill, ServerRestart

(* So it leaves the AUTH records alone, and adds nothing that needs any. *)
LEMMA UpdateClosed ==
  ASSUME OwnEntries, TypeInv, IdsGiven, AuthClosed, UpdateSees, ServerNext
  PROVE  AuthsKept /\ AuthClosed'
<1>1. \A r \in Records : r \in Records' \/ (srv.req \in UpdReqs /\ SameKey(r, srv.req))
  BY UpdateRecords
<1>2. \A u \in UpdReqs : ~Above(u.label, u.type)
  BY DEF OwnEntries
<1>3. \A r \in Records : Above(r.label, r.type) => r \in Records'
  BY <1>1, <1>2 DEF SameKey
<1>4. AuthsKept
  BY <1>3 DEF AuthsKept, HasNs
<1>5. ASSUME NEW r \in Records', r \notin Records PROVE Backed(r)
  <2>1. PICK q : q = srv.req /\ q \in UpdReqs /\ SameKey(r, q) /\ r.ver = q.ver
    BY <1>5, UpdateRecords
  <2>2. r.label = q.label /\ (Added(r) => Added(q))
    BY <2>1 DEF Added, SameKey
  <2>3. r.label \in Name /\ (Added(r) => Len(r.label) =< 1)
    BY <2>1, <2>2, ConstantsAssumption DEF OwnEntries, Req
  <2> QED BY <2>3, ShortBacked
<1> QED BY <1>4, <1>5, ClosedStep

-----------------------------------------------------------------------------
(* One operation after the other. *)

(* A SELECT that returns something else shows that there is no such record. *)
LEMMA NsFound ==
  ASSUME ~Busy, StoreInv, NEW label, NEW ct, NEW r \in Find(label, NS), r.ct # ct
  PROVE  ~HasNs(label, ct)
<1> SUFFICES ASSUME NEW a \in Records, a.label = label, a.type = NS, a.ct = ct
             PROVE  FALSE
  BY DEF HasNs
<1>1. IdsGiven /\ UniqueRecord /\ a \in rows
  BY DEF StoreInv, Records
<1>2. r \in rows /\ r.label = label /\ r.type = NS
  BY <1>1, FindExact
<1>3. r \in Records
  BY <1>2, ConstantsAssumption DEF Records
<1> QED BY <1>1, <1>2, <1>3 DEF UniqueRecord, SameKey

(* No such record comes when records only go. *)
LEMMA NsNone ==
  ASSUME \A r \in Records' : r \in Records, NEW label, NEW ct, ~HasNs(label, ct)
  PROVE  ~HasNs(label, ct)'
BY DEF HasNs

(* A command does not remove an AUTH record that something stands below. *)
LEMMA TurnKept ==
  ASSUME InTurn, TypeInv, StoreInv, NEW t \in Tools, Checked(t), ToolNext(t)
  PROVE  AuthsKept
<1>1. IdsGiven /\ ToolSees(t)
  BY DEF StoreInv
<1>2. ASSUME NEW old \in Records, rows' = rows \ {old},
             Above(old.label, old.type) => old.ct # "AUTH"
      PROVE  AuthsKept
  <2> SUFFICES ASSUME NEW p, Above(p, NS), HasNs(p, "AUTH") PROVE HasNs(p, "AUTH")'
    BY DEF AuthsKept
  <2>1. PICK a \in Records : a.label = p /\ a.type = NS /\ a.ct = "AUTH"
    BY DEF HasNs
  <2>2. a # old
    BY <1>2, <2>1
  <2>3. a \in Records'
    BY <1>2, <2>1, <2>2 DEF Records
  <2> QED BY <2>1, <2>3 DEF HasNs
<1>3. CASE RemoveOld(t)
  <2>1. PICK l : l = tool[t]
    OBVIOUS
  <2>2. l.pc = "rmOld" /\ RemoveId(l.old.id) /\ l.old \in rows /\ SameKey(l.old, l.req)
        /\ l.req.type # DOE
    BY <1>1, <1>3, <2>1 DEF RemoveOld, ToolSees, GivesWay
  <2>3. l.old \in Records /\ rows' = rows \ {l.old}
    BY <1>1, <2>2, RemoveExact DEF Records, SameKey
  <2>4. Above(l.req.label, l.req.type) => ~HasNs(l.req.label, "AUTH")
    BY <2>1, <2>2 DEF Checked
  <2>5. Above(l.old.label, l.old.type) => l.old.ct # "AUTH"
    BY <2>2, <2>3, <2>4 DEF Above, HasNs, SameKey
  <2> QED BY <1>2, <2>3, <2>5
<1>4. CASE RemoveRow(t)
  <2>1. PICK l : l = tool[t]
    OBVIOUS
  <2>2. l.pc = "rmRow" /\ RemoveId(l.old.id) /\ l.old \in Records /\ SameKey(l.old, l.req)
        /\ ~Above(l.req.label, l.req.type)
    BY <1>1, <1>4, <2>1 DEF RemoveRow, ToolSees, Checked
  <2>3. rows' = rows \ {l.old}
    BY <1>1, <2>2, RemoveExact DEF Records
  <2> QED BY <1>2, <2>2, <2>3 DEF SameKey
<1>5. CASE ~RemoveOld(t) /\ ~RemoveRow(t)
  BY <1>1, <1>5, CommandKeeps, MoreKept
<1> QED BY <1>3, <1>4, <1>5

(* What the second loop finds at an entry is an AUTH record. *)
LEMMA TurnFinds ==
  ASSUME InTurn, TypeInv, StoreInv, TurnInv, NEW t \in Tools, FindAuth(t),
         NEW r \in Find(Prefix(t), NS), r # NoRow
  PROVE  HasNs(Prefix(t), "AUTH")
<1>1. PICK l : l = tool[t]
  OBVIOUS
<1>2. l.pc = "authFind" /\ l.i \in 1 .. Len(l.req.label) - 1 /\ l.req \in AddReqs
      /\ Prefix(t) = SubSeq(l.req.label, 1, l.i)
  BY <1>1 DEF FindAuth, TypeInv, LoopIndex, TurnInv, Climbs, Prefix
<1>3. ~HasNs(Prefix(t), "LINK")
  BY <1>1, <1>2 DEF TurnInv, Checked
<1>4. r \in rows /\ r.label = Prefix(t) /\ r.type = NS
  BY FindExact DEF InTurn, StoreInv
<1>5. r \in Records
  BY <1>4, ConstantsAssumption DEF Records
<1>6. Above(r.label, r.type)
  BY <1>2, <1>4 DEF Above
<1>7. r.ct \in {"LINK", "AUTH"}
  BY <1>5, <1>6 DEF TurnInv
<1> QED BY <1>3, <1>4, <1>5, <1>7 DEF HasNs

(* A command that goes on after its checks. *)
LEMMA CheckedOn ==
  ASSUME \A r \in Records' : r \in Records, NEW t \in Tools, Checked(t),
         tool'[t].req = tool[t].req,
         \/ /\ tool[t].pc \in {"authFind", "authInsert"}
            /\ tool'[t].pc \in {"authFind", "authInsert", "ver"}
         \/ tool[t].pc \in {"ver", "rmOld"} /\ tool'[t].pc \in {"rmOld", "insert"}
  PROVE  Checked(t)'
<1>1. PICK q : q = tool[t].req
  OBVIOUS
<1>2. Above(q.label, q.type) => q.ct \in {"LINK", "AUTH"}
  BY <1>1 DEF Checked
<1>3. Above(q.label, q.type) => ~HasNs(q.label, "AUTH")'
  BY <1>1, NsNone DEF Checked
<1>4. tool'[t].pc \in {"authFind", "authInsert"} =>
        \A j \in 1 .. Len(q.label) - 1 : ~HasNs(SubSeq(q.label, 1, j), "LINK")'
  BY <1>1, NsNone DEF Checked
<1>5. tool'[t].req = q
  BY <1>1
<1>6. Above(q.label, q.type)' = Above(q.label, q.type)
  BY DEF Above
<1> QED BY <1>2, <1>3, <1>4, <1>5, <1>6 DEF Checked

(* A command that has checked all there was to check. *)
LEMMA CheckedOff ==
  ASSUME NEW t \in Tools, tool'[t].pc \in {"idle", "doeClear", "doeRead", "doeInsert", "doeGuard"}
  PROVE  Checked(t)'
BY DEF Checked

(* The beginning of a command. *)
LEMMA StartChecked ==
  ASSUME OwnEntries, InTurn, TypeOK, NEW t \in Tools,
         StartAdd(t) \/ StartAddFromFile(t) \/ StartRemove(t)
  PROVE  Checked(t)'
<1>1. ASSUME NEW pc, NEW req, StartCommand(t, pc, req)
      PROVE  tool'[t].pc = pc /\ tool'[t].req = req /\ tool'[t].i = 1
  BY <1>1 DEF StartCommand, TypeOK, IdleTool
<1>2. CASE StartAdd(t)
  <2>1. PICK req \in AddReqs, pc \in {"link", "auth"} : StartCommand(t, pc, req)
    BY <1>2 DEF StartAdd
  <2>2. Above(req.label, req.type) => req.ct \in {"LINK", "AUTH"}
    BY DEF InTurn
  <2>3. tool'[t].pc \in {"link", "auth"} /\ tool'[t].req = req /\ 1 .. tool'[t].i - 1 = {}
    BY <1>1, <2>1
  <2> QED BY <2>2, <2>3 DEF Checked
<1>3. CASE StartAddFromFile(t)
  <2>1. PICK req \in FileReqs : StartCommand(t, "ver", req)
    BY <1>3 DEF StartAddFromFile
  <2>2. ~Above(req.label, req.type)
    BY DEF OwnEntries
  <2>3. tool'[t].pc = "ver" /\ tool'[t].req = req
    BY <1>1, <2>1
  <2> QED BY <2>2, <2>3 DEF Checked
<1>4. CASE StartRemove(t)
  <2>1. PICK k \in RmKeys : StartCommand(t, "rmFind", RmReq(k))
    BY <1>4 DEF StartRemove
  <2>2. ~Above(k.label, k.type)
    BY DEF OwnEntries
  <2>3. tool'[t].pc = "rmFind" /\ tool'[t].req.label = k.label /\ tool'[t].req.type = k.type
    BY <1>1, <2>1 DEF RmReq
  <2> QED BY <2>2, <2>3 DEF Checked
<1> QED BY <1>2, <1>3, <1>4

(* addRrset looks for an AUTH record ... *)
LEMMA AuthChecked ==
  ASSUME InTurn, TypeOK, StoreInv, NEW t \in Tools, Checked(t), CheckAuth(t) \/ CheckOverride(t)
  PROVE  Checked(t)'
<1>1. PICK l : l = tool[t]
  OBVIOUS
<1>2. /\ l \in ToolState /\ tool \in [Tools -> ToolState] /\ ~Busy
      /\ UNCHANGED rows /\ l.pc \in {"auth", "override"}
  BY <1>1 DEF TypeOK, InTurn, CheckAuth, CheckOverride
<1>3. CASE Done(t)
  BY <1>3, DoneType, CheckedOff
<1>4. ASSUME NEW pc \in {"ver", "authFind"}, Goto(t, pc),
             pc = "authFind" => l.pc = "override",
             Above(l.req.label, l.req.type) => ~HasNs(l.req.label, "AUTH")
      PROVE  Checked(t)'
  <2>1. tool'[t].pc = pc /\ tool'[t].req = l.req
    BY <1>1, <1>2, <1>4 DEF Goto, ToolState
  <2>2. Above(l.req.label, l.req.type) => l.req.ct \in {"LINK", "AUTH"}
    BY <1>1, <1>2 DEF Checked
  <2>3. Above(l.req.label, l.req.type) => ~HasNs(l.req.label, "AUTH")'
    BY <1>2, <1>4 DEF HasNs, Records
  <2>4. pc = "authFind" =>
          \A j \in 1 .. Len(l.req.label) - 1 : ~HasNs(SubSeq(l.req.label, 1, j), "LINK")'
    BY <1>1, <1>2, <1>4 DEF Checked, HasNs, Records
  <2> QED BY <2>1, <2>2, <2>3, <2>4 DEF Checked
<1>5. CASE CheckAuth(t)
  <2>1. PICK r \in Find(l.req.label, NS) : IF r.ct = "AUTH" THEN Done(t) ELSE Goto(t, "ver")
    BY <1>1, <1>5 DEF CheckAuth
  <2>2. r.ct # "AUTH" => ~HasNs(l.req.label, "AUTH")
    BY <1>2, NsFound
  <2> QED BY <1>3, <1>4, <2>1, <2>2
<1>6. CASE CheckOverride(t)
  <2>1. PICK r \in Find(l.req.label, l.req.type) :
          IF l.req.type = NS /\ r.ct = "AUTH" THEN Done(t) ELSE Goto(t, "authFind")
    BY <1>1, <1>6 DEF CheckOverride
  <2>2. l.req.type = NS /\ r.ct # "AUTH" => ~HasNs(l.req.label, "AUTH")
    BY <1>2, NsFound
  <2>3. l.pc = "override"
    BY <1>1, <1>6 DEF CheckOverride
  <2>4. CASE l.req.type = NS /\ r.ct = "AUTH"
    BY <1>3, <2>1, <2>4
  <2>5. CASE ~(l.req.type = NS /\ r.ct = "AUTH")
    <3>1. Above(l.req.label, l.req.type) => ~HasNs(l.req.label, "AUTH")
      BY <2>2, <2>5 DEF Above
    <3> QED BY <1>4, <2>1, <2>3, <2>5, <3>1
  <2> QED BY <2>4, <2>5
<1> QED BY <1>5, <1>6

(* ... and addMultiLevelLabelRrset for a delegation. *)
LEMMA LinkChecked ==
  ASSUME InTurn, TypeInv, StoreInv, NEW t \in Tools, Checked(t), CheckLink(t)
  PROVE  Checked(t)'
<1>1. PICK l : l = tool[t]
  OBVIOUS
<1>2. /\ l \in ToolState /\ tool \in [Tools -> ToolState] /\ ~Busy /\ TypeOK
      /\ UNCHANGED rows /\ l.pc = "link"
      /\ l.i \in 1 .. Len(l.req.label) - 1 /\ Len(l.req.label) \in Nat
  BY <1>1 DEF TypeInv, TypeOK, LoopIndex, InTurn, CheckLink, ToolState, Req, Name
<1>3. PICK r \in Find(SubSeq(l.req.label, 1, l.i), NS) :
        IF r.ct = "LINK" THEN Done(t)
        ELSE tool' = [tool EXCEPT ![t].pc = IF LastPrefix(t) THEN "override" ELSE "link",
                                  ![t].i = IF LastPrefix(t) THEN 1 ELSE @ + 1]
  BY <1>1 DEF CheckLink, Prefix
<1>4. CASE r.ct = "LINK"
  BY <1>2, <1>3, <1>4, DoneType, CheckedOff
<1>5. CASE r.ct # "LINK"
  <2>1. /\ tool'[t].req = l.req
        /\ tool'[t].pc = IF LastPrefix(t) THEN "override" ELSE "link"
        /\ tool'[t].i = IF LastPrefix(t) THEN 1 ELSE l.i + 1
    BY <1>1, <1>2, <1>3, <1>5 DEF ToolState
  <2>2. ~HasNs(SubSeq(l.req.label, 1, l.i), "LINK")
    BY <1>2, <1>3, <1>5, NsFound
  <2>3. \A j \in 1 .. l.i - 1 : ~HasNs(SubSeq(l.req.label, 1, j), "LINK")
    BY <1>1, <1>2 DEF Checked
  <2>4. \A j \in 1 .. l.i : j \in 1 .. l.i - 1 \/ j = l.i
    BY <1>2
  <2>5. \A j \in 1 .. l.i : ~HasNs(SubSeq(l.req.label, 1, j), "LINK")'
    BY <1>2, <2>2, <2>3, <2>4 DEF HasNs, Records
  <2>6. Above(l.req.label, l.req.type) => l.req.ct \in {"LINK", "AUTH"}
    BY <1>1, <1>2 DEF Checked
  <2>7. CASE LastPrefix(t)
    <3>1. l.i = Len(l.req.label) - 1 /\ tool'[t].pc = "override"
      BY <1>1, <2>1, <2>7 DEF LastPrefix
    <3> QED BY <2>1, <2>5, <2>6, <3>1 DEF Checked
  <2>8. CASE ~LastPrefix(t)
    <3>1. tool'[t].pc = "link" /\ tool'[t].i - 1 = l.i
      BY <1>2, <2>1, <2>8
    <3> QED BY <2>1, <2>5, <2>6, <3>1 DEF Checked
  <2> QED BY <2>7, <2>8
<1> QED BY <1>4, <1>5

(* The second loop. *)
LEMMA LoopChecked ==
  ASSUME TypeInv, IdsGiven, NEW t \in Tools, Checked(t), FindAuth(t) \/ InsertAuth(t)
  PROVE  Checked(t)'
<1>1. PICK l : l = tool[t]
  OBVIOUS
<1>2. /\ l \in ToolState /\ tool \in [Tools -> ToolState] /\ TypeOK
      /\ l.pc \in {"authFind", "authInsert"}
      /\ l.i \in 1 .. Len(l.req.label) - 1 /\ l.req.label \in Name /\ Len(l.req.label) \in Nat
  BY <1>1 DEF TypeInv, TypeOK, LoopIndex, FindAuth, InsertAuth, ToolState, Req, Name
<1>3. NextPrefix(t) => tool'[t].pc \in {"ver", "authFind"} /\ tool'[t].req = l.req
  BY <1>1, <1>2 DEF NextPrefix, ToolState
<1>4. CASE FindAuth(t)
  <2>1. NextPrefix(t) \/ Goto(t, "authInsert")
    BY <1>4 DEF FindAuth
  <2>2. Goto(t, "authInsert") => tool'[t].pc = "authInsert" /\ tool'[t].req = l.req
    BY <1>1, <1>2 DEF Goto, ToolState
  <2>3. \A r \in Records' : r \in Records
    BY <1>4 DEF FindAuth, Records
  <2> QED BY <1>1, <1>2, <1>3, <2>1, <2>2, <2>3, CheckedOn
<1>5. CASE InsertAuth(t)
  <2>1. PICK p : p = SubSeq(l.req.label, 1, l.i)
    OBVIOUS
  <2>2. PICK v : Insert(p, NS, v, "AUTH", <<>>, <<>>)
    BY <1>1, <1>5, <2>1 DEF InsertAuth, Prefix
  <2>3. PICK n : rows' = rows \cup {n} /\ n.label = p /\ n.ct = "AUTH"
    BY <1>2, <2>2, InsertRow
  <2>4. tool'[t].pc \in {"ver", "authFind"} /\ tool'[t].req = l.req
    BY <1>3, <1>5 DEF InsertAuth
  <2>5. l.i \in 1 .. Len(l.req.label) /\ l.i \in 1 .. l.i
    BY <1>2
  <2>6. Len(p) = l.i
    BY <1>2, <2>1, <2>5, PrefixOfPrefix
  <2>7. p # l.req.label
    BY <1>2, <2>6
  <2>8. Above(l.req.label, l.req.type) => ~HasNs(l.req.label, "AUTH")'
    BY <1>1, <1>2, <2>3, <2>7 DEF Checked, HasNs, Records
  <2>9. \A j \in 1 .. Len(l.req.label) - 1 : ~HasNs(SubSeq(l.req.label, 1, j), "LINK")'
    BY <1>1, <1>2, <2>3 DEF Checked, HasNs, Records
  <2>10. Above(l.req.label, l.req.type) => l.req.ct \in {"LINK", "AUTH"}
    BY <1>1, <1>2 DEF Checked
  <2> QED BY <2>4, <2>8, <2>9, <2>10 DEF Checked
<1> QED BY <1>4, <1>5

(* The tail of an addition, and a removal. *)
LEMMA TailChecked ==
  ASSUME InTurn, TypeOK, IdsGiven, NEW t \in Tools, Checked(t),
         CheckRrsetVersion(t) \/ FindForRemoval(t) \/ RemoveOld(t)
  PROVE  Checked(t)'
<1>1. PICK l : l = tool[t]
  OBVIOUS
<1>2. l \in ToolState /\ tool \in [Tools -> ToolState] /\ ~Busy
      /\ \A r \in Records' : r \in Records
  BY <1>1 DEF TypeOK, InTurn, CheckRrsetVersion, FindForRemoval, RemoveOld, RemoveId, Records
<1>3. CASE Done(t)
  BY <1>3, DoneType, CheckedOff
<1>4. ASSUME l.pc \in {"ver", "rmOld"}, Goto(t, "insert") PROVE Checked(t)'
  <2>1. tool'[t].pc = "insert" /\ tool'[t].req = l.req
    BY <1>1, <1>2, <1>4 DEF Goto, ToolState
  <2> QED BY <1>1, <1>2, <1>4, <2>1, CheckedOn
<1>5. CASE CheckRrsetVersion(t)
  <2>1. PICK r : \/ Goto(t, "insert") \/ Done(t)
                 \/ tool' = [tool EXCEPT ![t].pc = "rmOld", ![t].old = r]
    BY <1>5 DEF CheckRrsetVersion
  <2>2. l.pc = "ver"
    BY <1>1, <1>5 DEF CheckRrsetVersion
  <2>3. CASE tool' = [tool EXCEPT ![t].pc = "rmOld", ![t].old = r]
    <3>1. tool'[t].pc = "rmOld" /\ tool'[t].req = l.req
      BY <1>1, <1>2, <2>3 DEF ToolState
    <3> QED BY <1>1, <1>2, <2>2, <3>1, CheckedOn
  <2> QED BY <1>3, <1>4, <2>1, <2>2, <2>3
<1>6. CASE FindForRemoval(t)
  <2>1. PICK r \in Find(l.req.label, l.req.type) :
          IF r = NoRow THEN Done(t)
          ELSE tool' = [tool EXCEPT ![t].pc = "rmRow", ![t].old = r]
    BY <1>1, <1>6 DEF FindForRemoval
  <2>2. CASE r # NoRow
    <3>1. SameKey(r, l.req)
      BY <1>2, <2>1, <2>2, FindExact DEF SameKey
    <3>2. tool'[t].pc = "rmRow" /\ tool'[t].req = l.req /\ tool'[t].old = r
      BY <1>1, <1>2, <2>1, <2>2 DEF ToolState
    <3>3. ~Above(l.req.label, l.req.type)
      BY <1>1, <1>6 DEF FindForRemoval, Checked
    <3> QED BY <3>1, <3>2, <3>3 DEF Checked
  <2> QED BY <1>3, <2>1, <2>2
<1>7. CASE RemoveOld(t)
  BY <1>1, <1>4, <1>7 DEF RemoveOld
<1> QED BY <1>5, <1>6, <1>7

(* Every step of a command. *)
LEMMA ToolChecked ==
  ASSUME OwnEntries, InTurn, TypeInv, StoreInv, NEW t \in Tools, Checked(t), ToolNext(t)
  PROVE  Checked(t)'
<1>1. TypeOK /\ IdsGiven
  BY DEF TypeInv, StoreInv
<1>2. CASE InsertRrset(t) \/ RemoveRow(t)
  <2>1. Goto(t, "doeClear")
    BY <1>2 DEF InsertRrset, RemoveRow
  <2>2. tool'[t].pc = "doeClear"
    BY <1>1, <2>1 DEF Goto, TypeOK, ToolState
  <2> QED BY <2>2, CheckedOff
<1>3. CASE DoeClear(t) \/ DoeRead(t) \/ DoeInsert(t) \/ DoeGuard(t)
  <2>1. tool'[t].pc \in {"idle", "doeRead", "doeInsert", "doeGuard"}
    BY <1>1, <1>3, GenerateKeeps
  <2> QED BY <2>1, CheckedOff
<1>4. CASE ToolConflict(t) \/ ToolAbort(t)
  BY <1>1, <1>4, DoneType, CheckedOff DEF ToolConflict, ToolAbort
<1>5. CASE FindAuth(t) \/ InsertAuth(t)
  BY <1>1, <1>5, LoopChecked
<1>6. CASE CheckRrsetVersion(t) \/ FindForRemoval(t) \/ RemoveOld(t)
  BY <1>1, <1>6, TailChecked
<1>7. CASE StartAdd(t) \/ StartAddFromFile(t) \/ StartRemove(t)
  BY <1>1, <1>7, StartChecked
<1>8. CASE CheckAuth(t) \/ CheckOverride(t)
  BY <1>1, <1>8, AuthChecked
<1>9. CASE CheckLink(t)
  BY <1>9, LinkChecked
<1> QED BY <1>2, <1>3, <1>4, <1>5, <1>6, <1>7, <1>8, <1>9 DEF ToolNext, ToolStep

(* While a command works, the others wait. *)
LEMMA TurnTool ==
  ASSUME OwnEntries, InTurn, TypeInv, StoreInv, TurnInv, NEW t \in Tools, ToolNext(t)
  PROVE  TurnInv'
<1>1. IdsGiven /\ AuthClosed /\ Climbs(t) /\ Checked(t)
  BY DEF StoreInv, TurnInv
<1>2. AuthsKept
  BY <1>1, TurnKept
<1>3. FindAuth(t) => \A r \in Find(Prefix(t), NS) : r # NoRow => HasNs(Prefix(t), "AUTH")
  BY TurnFinds
<1>4. AuthClosed' /\ Climbs(t)' /\ \A u \in Tools \ {t} : tool'[u] = tool[u]
  BY <1>1, <1>2, <1>3, CommandClimbs
<1>5. Checked(t)'
  BY <1>1, ToolChecked
<1>6. \A u \in Tools \ {t} : tool[u].pc = "idle"
  <2>1. CASE Idle(t)
    <3>1. \A u \in Tools : Idle(u)
      BY <2>1 DEF InTurn, ToolNext, ToolStep, StartAdd, StartAddFromFile, StartRemove,
         StartCommand, CheckAuth, CheckLink, CheckOverride, FindAuth, InsertAuth,
         CheckRrsetVersion, RemoveOld, InsertRrset, FindForRemoval, RemoveRow,
         DoeClear, DoeRead, DoeInsert, DoeGuard, ToolConflict, ToolAbort, Idle
    <3> QED BY <3>1 DEF Idle
  <2>2. CASE ~Idle(t)
    BY <2>2 DEF StoreInv, Exclusive, Idle
  <2> QED BY <2>1, <2>2
<1>7. \A u \in Tools : Climbs(u)' /\ Checked(u)'
  <2> TAKE u \in Tools
  <2>1. CASE u = t
    BY <1>4, <1>5, <2>1
  <2>2. CASE u # t
    <3>1. tool'[u].pc = "idle"
      BY <1>4, <1>6, <2>2
    <3> QED BY <3>1, ClimbsOff, CheckedOff
  <2> QED BY <2>1, <2>2
<1>8. ASSUME NEW r \in Records', Above(r.label, r.type) PROVE r.ct \in {"LINK", "AUTH"}
  <2>1. CASE r \in Records
    BY <1>8, <2>1 DEF TurnInv
  <2>2. CASE r \notin Records
    <3>1. \/ r.ct = "AUTH"
          \/ tool[t].pc = "insert" /\ SameKey(r, tool[t].req) /\ r.ct = tool[t].req.ct
      BY <1>1, <2>2, NewRecords
    <3> QED BY <1>1, <1>8, <3>1 DEF Checked, SameKey
  <2> QED BY <2>1, <2>2
<1> QED BY <1>4, <1>7, <1>8 DEF TurnInv, Above

(* The daemon takes its turn. *)
LEMMA TurnServer ==
  ASSUME OwnEntries, InTurn, TypeInv, StoreInv, TurnInv, ServerNext
  PROVE  TurnInv'
<1>1. IdsGiven /\ AuthClosed /\ ServerSees
  BY DEF StoreInv, TurnInv
<1>2. UpdateSees
  <2>1. srv.pc = "update" => srv.old \in Records /\ SameKey(srv.old, srv.req)
    BY <1>1, ConstantsAssumption DEF ServerSees, GivesWay, Records, SameKey
  <2> QED BY <1>1, <2>1 DEF ServerSees, UpdateSees
<1>3. AuthsKept /\ AuthClosed'
  BY <1>1, <1>2, UpdateClosed
<1>4. \A r \in Records' : r \in Records \/ (srv.req \in UpdReqs /\ SameKey(r, srv.req))
  BY <1>1, <1>2, UpdateRecords
<1>5. UNCHANGED tool
  BY <1>1, <1>2, UpdateRecords
<1>6. \A r \in Records' : Above(r.label, r.type) => r.ct \in {"LINK", "AUTH"}
  BY <1>4 DEF TurnInv, OwnEntries, SameKey
<1>7. \A t \in Tools : Climbs(t)' /\ Checked(t)'
  <2>1. CASE DoUpdateReplace \/ DoUpdateInsert
    <3>1. \A t \in Tools : tool'[t].pc = "idle"
      BY <1>5, <2>1 DEF DoUpdateReplace, DoUpdateInsert, StoreInv, Exclusive, Idle
    <3> QED BY <3>1, ClimbsOff, CheckedOff
  <2>2. CASE UNCHANGED rows
    <3>1. Records' = Records
      BY <2>2 DEF Records
    <3> QED BY <1>5, <3>1 DEF TurnInv, Climbs, Checked, Backed, AuthsUpTo, HasNs, Added, Above
  <2> QED BY <2>1, <2>2 DEF ServerNext, ServerStep, HandleQuery, HandleUpdate, RejectUpdate,
        DoUpdate, DenyQuery, ServerKill, ServerRestart
<1> QED BY <1>3, <1>6, <1>7 DEF TurnInv, Above

(***************************************************************************)
(* The AUTH records that ndns-add-rr writes above a label, or finds there, *)
(* stay as long as the label's records do, through any sequence of         *)
(* additions, removals, updates and kills that do not overlap.             *)
(***************************************************************************)
THEOREM AuthsAboveInTurn ==
  ASSUME OwnEntries, InTurn
  PROVE  Spec => []AuthClosed
<1>1. OneWriter
  BY DEF InTurn, OneWriter
<1>2. Init => TurnInv
  BY ClimbsInit DEF TurnInv, Checked
<1>3. TypeInv /\ StoreInv /\ TurnInv /\ [Next]_vars => TurnInv'
  <2> SUFFICES ASSUME TypeInv, StoreInv, TurnInv, [Next]_vars PROVE TurnInv'
    OBVIOUS
  <2>1. CASE UNCHANGED vars
    <3>1. UNCHANGED tool /\ Records' = Records
      BY <2>1 DEF vars, Records
    <3> QED BY <3>1 DEF TurnInv, AuthClosed, Climbs, Checked, Backed, AuthsUpTo, HasNs, Added, Above
  <2> QED BY <2>1, TurnTool, TurnServer DEF Next
<1>4. TurnInv => AuthClosed
  BY DEF TurnInv
<1> QED BY <1>1, <1>2, <1>3, <1>4, AlwaysStoreInv, PTL DEF Spec

-----------------------------------------------------------------------------
(* All at once. *)

(* Row ids stay unique whatever happens. *)
LEMMA IdsStep ==
  ASSUME TypeOK, IdsGiven, [Next]_vars
  PROVE  IdsGiven'
<1>1. CASE \A r \in rows' : r \in rows
  BY <1>1 DEF IdsGiven, IdsUnique
<1>2. CASE \E label, type, ver, ct, lo, hi : Insert(label, type, ver, ct, lo, hi)
  BY <1>2, InsertRow
<1>3. ASSUME NEW id, NEW ver, NEW ct, rows' = {Updated(r, id, ver, ct) : r \in rows}
      PROVE  IdsGiven'
  <2> DEFINE Up(r) == Updated(r, id, ver, ct)
  <2>1. \A r \in rows : Up(r).id = r.id
    BY DEF Updated, TypeOK, Row
  <2>2. rows' = {Up(r) : r \in rows}
    BY <1>3
  <2> HIDE DEF Up
  <2> QED BY <2>1, <2>2 DEF IdsGiven, IdsUnique
<1> QED BY <1>1, <1>2, <1>3, RowsChange

(* No command comes to remove a record. *)
LEMMA AddsOnly ==
  ASSUME AllAtOnce, TypeInv, RaceInv, NEW t \in Tools, ToolNext(t)
  PROVE  OnlyAdds(t)'
<1>1. PICK l : l = tool[t]
  OBVIOUS
<1>2. /\ l \in ToolState /\ tool \in [Tools -> ToolState] /\ TypeOK /\ OnlyAdds(t) /\ IdsGiven
  BY <1>1 DEF TypeInv, TypeOK, RaceInv
<1>3. ASSUME tool'[t].pc \notin {"rmOld", "rmFind", "rmRow"},
             \/ tool'[t].req \in AddReqs \cup FileReqs
             \/ tool'[t].pc \in {"idle", "doeClear", "doeRead", "doeInsert", "doeGuard"}
      PROVE  OnlyAdds(t)'
  BY <1>3 DEF OnlyAdds
<1>4. CASE Done(t)
  BY <1>2, <1>3, <1>4, DoneType
<1>5. ASSUME NEW pc \in ToolPcs \ {"rmOld", "rmFind", "rmRow"}, Goto(t, pc),
             l.pc \in {"auth", "override", "authFind", "ver", "insert"}
      PROVE  OnlyAdds(t)'
  <2>1. tool'[t].pc = pc /\ tool'[t].req = l.req
    BY <1>1, <1>2, <1>5 DEF Goto, ToolState
  <2>2. l.req \in AddReqs \cup FileReqs
    BY <1>1, <1>2, <1>5 DEF OnlyAdds
  <2> QED BY <1>3, <1>5, <2>1, <2>2
<1>6. CASE StartAdd(t) \/ StartAddFromFile(t) \/ StartRemove(t)
  <2>1. ~StartRemove(t)
    BY DEF AllAtOnce, StartRemove
  <2>2. PICK pc \in {"link", "auth", "ver"}, req \in AddReqs \cup FileReqs : StartCommand(t, pc, req)
    BY <1>6, <2>1 DEF StartAdd, StartAddFromFile
  <2>3. tool'[t].pc = pc /\ tool'[t].req = req
    BY <1>2, <2>2 DEF StartCommand, IdleTool
  <2> QED BY <1>3, <2>3
<1>7. CASE CheckAuth(t) \/ CheckOverride(t)
  BY <1>1, <1>4, <1>5, <1>7 DEF CheckAuth, CheckOverride, ToolPcs
<1>8. CASE CheckLink(t)
  <2>1. CASE tool' = [tool EXCEPT ![t].pc = IF LastPrefix(t) THEN "override" ELSE "link",
                                  ![t].i = IF LastPrefix(t) THEN 1 ELSE @ + 1]
    <3>1. tool'[t].pc \in {"override", "link"} /\ tool'[t].req = l.req
      BY <1>1, <1>2, <2>1 DEF ToolState
    <3>2. l.req \in AddReqs \cup FileReqs
      BY <1>1, <1>2, <1>8 DEF CheckLink, OnlyAdds
    <3> QED BY <1>3, <3>1, <3>2
  <2> QED BY <1>4, <1>8, <2>1 DEF CheckLink
<1>9. CASE FindAuth(t) \/ InsertAuth(t)
  <2>1. CASE NextPrefix(t)
    <3>1. tool'[t].pc \in {"ver", "authFind"} /\ tool'[t].req = l.req
      BY <1>1, <1>2, <2>1 DEF NextPrefix, ToolState
    <3>2. l.req \in AddReqs \cup FileReqs
      BY <1>1, <1>2, <1>9 DEF FindAuth, InsertAuth, OnlyAdds
    <3> QED BY <1>3, <3>1, <3>2
  <2> QED BY <1>1, <1>5, <1>9, <2>1 DEF FindAuth, InsertAuth, ToolPcs
<1>10. CASE CheckRrsetVersion(t)
  <2>1. PICK r \in Find(l.req.label, l.req.type) :
          IF r = NoRow THEN Goto(t, "insert")
          ELSE IF r.ver >= l.req.ver THEN Done(t)
          ELSE tool' = [tool EXCEPT ![t].pc = "rmOld", ![t].old = r]
    BY <1>1, <1>10 DEF CheckRrsetVersion
  <2>2. l.pc = "ver" /\ l.req \in AddReqs \cup FileReqs
    BY <1>1, <1>2, <1>10 DEF CheckRrsetVersion, OnlyAdds
  <2>3. CASE r # NoRow
    <3>1. r \in rows /\ SameKey(r, l.req)
      BY <2>1, <2>3 DEF Find, SameKey
    <3>2. r \in Records /\ r.ver \in Nat /\ l.req.ver \in Nat
      BY <2>2, <3>1, ConstantsAssumption, <1>2 DEF Records, SameKey, TypeOK, Row, Req
    <3>3. l.req.ver =< r.ver
      BY <2>2, <3>1, <3>2 DEF RaceInv
    <3> QED BY <1>4, <2>1, <2>3, <3>2, <3>3
  <2> QED BY <1>5, <2>1, <2>2, <2>3 DEF ToolPcs
<1>11. CASE InsertRrset(t)
  BY <1>1, <1>5, <1>11 DEF InsertRrset, ToolPcs
<1>12. ~RemoveOld(t) /\ ~RemoveRow(t) /\ ~FindForRemoval(t)
  BY <1>2 DEF OnlyAdds, RemoveOld, RemoveRow, FindForRemoval
<1>13. CASE DoeClear(t) \/ DoeRead(t) \/ DoeInsert(t) \/ DoeGuard(t)
  <2>1. tool'[t].pc \in {"idle", "doeRead", "doeInsert", "doeGuard"}
    BY <1>2, <1>13, GenerateKeeps
  <2> QED BY <1>3, <2>1
<1> QED BY <1>4, <1>6, <1>7, <1>8, <1>9, <1>10, <1>11, <1>12, <1>13
        DEF ToolNext, ToolStep, ToolConflict, ToolAbort

(* A step of one of several commands. *)
LEMMA RaceTool ==
  ASSUME OwnEntries, AllAtOnce, TypeInv, RaceInv, NEW t \in Tools, ToolNext(t)
  PROVE  RaceInv'
<1>1. IdsGiven /\ AuthClosed /\ Climbs(t) /\ OnlyAdds(t) /\ UpdateSees /\ TypeOK
  BY DEF RaceInv, TypeInv
<1>2. ~RemoveOld(t) /\ ~RemoveRow(t)
  BY <1>1 DEF OnlyAdds, RemoveOld, RemoveRow
<1>3. \A r \in Records : r \in Records'
  BY <1>1, <1>2, CommandKeeps
<1>4. AuthsKept
  BY <1>3, MoreKept
<1>5. tool[t].pc \in {"authFind", "authInsert"} => Above(Prefix(t), NS)
  BY <1>1 DEF Climbs, TypeInv, LoopIndex, Above, Prefix
<1>6. ASSUME FindAuth(t), NEW r \in Find(Prefix(t), NS), r # NoRow PROVE HasNs(Prefix(t), "AUTH")
  <2>1. r \in Records /\ r.label = Prefix(t) /\ r.type = NS
    BY <1>6, ConstantsAssumption DEF Find, Records
  <2>2. tool[t].pc = "authFind"
    BY <1>6 DEF FindAuth
  <2> QED BY <1>5, <2>1, <2>2 DEF RaceInv, HasNs
<1>7. AuthClosed' /\ Climbs(t)' /\ \A u \in Tools \ {t} : tool'[u] = tool[u]
  BY <1>1, <1>4, <1>6, CommandClimbs
<1>8. \A u \in Tools : Climbs(u)' /\ OnlyAdds(u)'
  <2> TAKE u \in Tools
  <2>1. CASE u = t
    BY <1>7, <2>1, AddsOnly
  <2>2. CASE u # t
    <3>1. tool'[u] = tool[u] /\ Climbs(u) /\ OnlyAdds(u)
      BY <1>7, <2>2 DEF RaceInv
    <3> QED BY <1>4, <3>1, ClimbsStay DEF OnlyAdds
  <2> QED BY <2>1, <2>2
<1>9. ASSUME NEW r \in Records', r \notin Records
      PROVE  /\ Above(r.label, r.type) => r.ct = "AUTH"
             /\ \A a \in AddReqs \cup FileReqs : SameKey(r, a) => a.ver =< r.ver
  <2>1. CASE tool[t].pc = "authInsert" /\ r.label = Prefix(t) /\ r.type = NS /\ r.ct = "AUTH"
    BY <1>5, <2>1 DEF AllAtOnce, SameKey
  <2>2. CASE tool[t].pc = "insert" /\ SameKey(r, tool[t].req) /\ r.ver = tool[t].req.ver
    <3>1. tool[t].req \in AddReqs \cup FileReqs
      BY <1>1, <2>2 DEF OnlyAdds
    <3> QED BY <2>2, <3>1 DEF AllAtOnce, SameKey
  <2> QED BY <1>1, <1>9, <2>1, <2>2, NewRecords
<1>10. IdsGiven'
  BY <1>1, IdsStep DEF Next
<1>11. UNCHANGED srv
  BY DEF ToolNext, ToolStep, StartAdd, StartAddFromFile, StartRemove, StartCommand,
     CheckAuth, CheckLink, CheckOverride, FindAuth, InsertAuth, CheckRrsetVersion, RemoveOld,
     InsertRrset, FindForRemoval, RemoveRow, DoeClear, DoeRead, DoeInsert, DoeGuard,
     ToolConflict, ToolAbort
<1>12. UpdateSees'
  BY <1>1, <1>3, <1>11 DEF UpdateSees
<1> QED BY <1>7, <1>8, <1>9, <1>10, <1>12 DEF RaceInv, Above

(* A step of the daemon, between the statements of commands. *)
LEMMA RaceServer ==
  ASSUME OwnEntries, AllAtOnce, TypeInv, RaceInv, ServerNext
  PROVE  RaceInv'
<1>1. IdsGiven /\ AuthClosed /\ UpdateSees /\ TypeOK
  BY DEF RaceInv, TypeInv
<1>2. AuthsKept /\ AuthClosed'
  BY <1>1, UpdateClosed
<1>3. UNCHANGED tool
  BY <1>1, UpdateRecords
<1>4. \A t \in Tools : Climbs(t)' /\ OnlyAdds(t)'
  <2> TAKE t \in Tools
  <2>1. Climbs(t) /\ OnlyAdds(t) /\ tool'[t] = tool[t]
    BY <1>3 DEF RaceInv
  <2> QED BY <1>2, <2>1, ClimbsStay DEF OnlyAdds
<1>5. ASSUME NEW r \in Records', r \notin Records
      PROVE  /\ ~Above(r.label, r.type)
             /\ \A a \in AddReqs \cup FileReqs : SameKey(r, a) => a.ver =< r.ver
  <2>1. srv.req \in UpdReqs /\ SameKey(r, srv.req) /\ r.ver = srv.req.ver
    BY <1>1, <1>5, UpdateRecords
  <2> QED BY <2>1 DEF OwnEntries, AllAtOnce, SameKey
<1>6. IdsGiven'
  BY <1>1, IdsStep DEF Next
<1>7. UpdateSees'
  <2>1. CASE DoUpdate
    <3>1. PICK u \in pending : \E r \in Find(u.label, u.type) :
            \/ srv' = srv
            \/ srv' = [IdleServer EXCEPT !.pc = "insert", !.req = u]
            \/ r # NoRow /\ srv' = [pc |-> "update", req |-> u, old |-> r]
      BY <2>1 DEF DoUpdate
    <3>2. PICK r \in Find(u.label, u.type) :
            \/ srv' = srv
            \/ srv' = [IdleServer EXCEPT !.pc = "insert", !.req = u]
            \/ r # NoRow /\ srv' = [pc |-> "update", req |-> u, old |-> r]
      BY <3>1
    <3>3. u \in UpdReqs /\ u.type # DOE /\ srv.pc = "idle" /\ Records' = Records
      BY <1>1, <2>1, ConstantsAssumption DEF TypeOK, DoUpdate, Records
    <3>4. CASE srv' = srv
      BY <3>3, <3>4 DEF UpdateSees
    <3>5. CASE srv' = [IdleServer EXCEPT !.pc = "insert", !.req = u]
      <4>1. srv'.pc = "insert" /\ srv'.req = u
        BY <3>5 DEF IdleServer
      <4> QED BY <3>3, <4>1 DEF UpdateSees
    <3>6. CASE r # NoRow /\ srv' = [pc |-> "update", req |-> u, old |-> r]
      <4>1. srv'.pc = "update" /\ srv'.req = u /\ srv'.old = r
        BY <3>6
      <4>2. r \in rows /\ SameKey(r, u)
        BY <3>2, <3>6 DEF Find, SameKey
      <4>3. r \in Records'
        BY <3>3, <4>2 DEF Records, SameKey
      <4> QED BY <3>3, <4>1, <4>2, <4>3 DEF UpdateSees
    <3> QED BY <3>2, <3>4, <3>5, <3>6
  <2>2. CASE HandleQuery
    <3>1. PICK q : srv' = srv \/ srv' = [IdleServer EXCEPT !.pc = "doe", !.req = AsReq(q)]
      BY <2>2 DEF HandleQuery
    <3>2. srv.pc = "idle" /\ [IdleServer EXCEPT !.pc = "doe", !.req = AsReq(q)].pc = "doe"
      BY <2>2 DEF HandleQuery, IdleServer
    <3>3. srv'.pc \in {"idle", "doe"}
      BY <3>1, <3>2
    <3> QED BY <3>3 DEF UpdateSees
  <2>3. CASE HandleUpdate \/ RejectUpdate
    <3>1. srv'.pc = "idle"
      BY <2>3 DEF HandleUpdate, RejectUpdate
    <3> QED BY <3>1 DEF UpdateSees
  <2>4. CASE DenyQuery \/ DoUpdateReplace \/ DoUpdateInsert \/ ServerKill \/ ServerRestart
    <3>1. srv'.pc \in {"idle", "down"}
      BY <2>4 DEF DenyQuery, DoUpdateReplace, DoUpdateInsert, ServerKill, ServerRestart, IdleServer
    <3> QED BY <3>1 DEF UpdateSees
  <2> QED BY <2>1, <2>2, <2>3, <2>4 DEF ServerNext, ServerStep
<1> QED BY <1>2, <1>4, <1>5, <1>6, <1>7 DEF RaceInv, Above

(* createZone has left two certificates, and the daemon is not up. *)
LEMMA RaceInit ==
  ASSUME OwnEntries, AllAtOnce, Init
  PROVE  RaceInv
<1>1. /\ AuthClosed /\ \A r \in Records : ~Above(r.label, r.type)
      /\ \A t \in Tools : Climbs(t) /\ tool[t].pc \in {"idle", "doeClear"}
      /\ \A r \in Records : r \in {CertRow(1), CertRow(2)}
  BY ClimbsInit DEF Records
<1>2. IdsGiven
  BY StoreInit DEF StoreInv
<1>3. ASSUME NEW i \in 1 .. 2, NEW a \in AddReqs \cup FileReqs, SameKey(CertRow(i), a)
      PROVE  a.ver =< CertRow(i).ver
  <2>1. CertRow(i).label = CertKeys[i].label /\ CertRow(i).type = CertKeys[i].type
        /\ CertRow(i).ver = 1
    BY DEF CertRow
  <2>2. SameKey(a, CertKeys[i])
    BY <1>3, <2>1 DEF SameKey
  <2> QED BY <2>1, <2>2 DEF AllAtOnce
<1>4. \A r \in Records, a \in AddReqs \cup FileReqs : SameKey(r, a) => a.ver =< r.ver
  BY <1>1, <1>3
<1>5. UpdateSees
  BY DEF Init, UpdateSees, IdleServer
<1>6. \A t \in Tools : OnlyAdds(t)
  BY <1>1 DEF OnlyAdds
<1> QED BY <1>1, <1>2, <1>4, <1>5, <1>6 DEF RaceInv

(***************************************************************************)
(* Whichever of several commands wins the race for an entry, whatever is   *)
(* killed and whenever the file is locked, a label that ndns-add-rr stores *)
(* has its AUTH records, as long as no command takes a record away.        *)
(***************************************************************************)
THEOREM AuthsAboveAtOnce ==
  ASSUME OwnEntries, AllAtOnce
  PROVE  Spec => []AuthClosed
<1>1. Init => TypeInv /\ RaceInv
  <2> SUFFICES ASSUME Init PROVE TypeInv /\ RaceInv
    OBVIOUS
  <2>1. \A t \in Tools : tool[t].pc \in {"idle", "doeClear"}
    BY DEF Init, IdleTool
  <2> QED BY <2>1, InitType, RaceInit DEF TypeInv, LoopIndex, OverrideIndex
<1>2. TypeInv /\ RaceInv /\ [Next]_vars => TypeInv' /\ RaceInv'
  <2> SUFFICES ASSUME TypeInv, RaceInv, [Next]_vars PROVE TypeInv' /\ RaceInv'
    OBVIOUS
  <2>1. TypeInv'
    BY TypeStep
  <2>2. CASE UNCHANGED vars
    <3>1. UNCHANGED <<tool, srv, rows>> /\ Records' = Records
      BY <2>2 DEF vars, Records
    <3>2. \A t \in Tools : Climbs(t)' /\ OnlyAdds(t)'
      BY <3>1 DEF RaceInv, Climbs, OnlyAdds, Backed, AuthsUpTo, HasNs, Added
    <3>3. IdsGiven' /\ UpdateSees' /\ AuthClosed'
      BY <3>1 DEF RaceInv, IdsGiven, IdsUnique, UpdateSees, AuthClosed
    <3> QED BY <2>1, <3>1, <3>2, <3>3 DEF RaceInv, Above
  <2> QED BY <2>1, <2>2, RaceTool, RaceServer DEF Next
<1>3. RaceInv => AuthClosed
  BY DEF RaceInv
<1> QED BY <1>1, <1>2, <1>3, PTL DEF Spec

=============================================================================
