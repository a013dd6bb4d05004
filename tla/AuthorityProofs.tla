-------------------------- MODULE AuthorityProofs --------------------------
(***************************************************************************)
(* Proofs about Authority, for every value of its constants.  First its    *)
(* types.  Then the denial chain: DoeSound is an invariant, for every      *)
(* number of tools and whatever overlaps, is killed or fails, as long as   *)
(* the labels of the zone satisfy OrdersAgree.                             *)
(***************************************************************************)
EXTENDS Authority, NdnsNameProofs

(* The empty label is a name. *)
LEMMA EmptyName == <<>> \in Name
BY DEF Name

(* "No row found" has the shape of a row. *)
LEMMA NoRowType == NoRow \in Row
BY EmptyName DEF NoRow, Row, ContentType

(* "No request" has the shape of a request. *)
LEMMA NoReqType == NoReq \in Req
BY EmptyName DEF NoReq, Req, ContentType

(* A step that puts nothing on the face. *)
LEMMA SilentType == Silent \in Output
BY EmptyName, NoReqType DEF Silent, Output

(* A tool between commands is well typed. *)
LEMMA IdleToolType == IdleTool \in ToolState
BY NoReqType, NoRowType DEF IdleTool, ToolState, ToolPcs

(* So is the server between events. *)
LEMMA IdleServerType == IdleServer \in ServerState
BY NoReqType, NoRowType DEF IdleServer, ServerState, ServerPcs

(* What SELECT returns is a row of the table or NoRow. *)
LEMMA FindType ==
  ASSUME TypeOK, NEW label, NEW type, NEW r \in Find(label, type)
  PROVE  r \in Row /\ (r \in rows \/ r = NoRow)
<1>1. r \in rows \/ r = NoRow
  BY DEF Find
<1> QED BY <1>1, NoRowType DEF TypeOK

(* The same for the SELECT of the DoE row below a name. *)
LEMMA FindLowerBoundType ==
  ASSUME TypeOK, NEW name, NEW d \in FindLowerBound(name)
  PROVE  d \in Row /\ (d \in rows \/ d = NoRow)
<1>1. d \in rows \/ d = NoRow
  BY DEF FindLowerBound
<1> QED BY <1>1, NoRowType DEF TypeOK

(* A label followed by its type is a name. *)
LEMMA KeyNameType ==
  ASSUME NEW r, r.label \in Name, r.type \in Nat
  PROVE  KeyName(r) \in Name
BY DEF KeyName, Name

(* INSERT of a well-typed row keeps the table well typed. *)
LEMMA InsertType ==
  ASSUME TypeOK, NEW label \in Name, NEW type \in Nat, NEW ver \in Nat,
         NEW ct \in ContentType, NEW lo \in Name, NEW hi \in Name,
         Insert(label, type, ver, ct, lo, hi)
  PROVE  rows' \subseteq Row
<1>1. PICK m \in {r.id : r \in rows} \cup {0} :
        rows' = rows \cup {[id |-> m + 1, label |-> label, type |-> type,
                            ver |-> ver, ct |-> ct, lo |-> lo, hi |-> hi]}
  BY DEF Insert
<1>2. m \in Nat
  BY DEF TypeOK, Row
<1>3. [id |-> m + 1, label |-> label, type |-> type,
       ver |-> ver, ct |-> ct, lo |-> lo, hi |-> hi] \in Row
  BY <1>2 DEF Row
<1> QED BY <1>1, <1>3 DEF TypeOK

(* The state createZone leaves is well typed. *)
LEMMA InitType == Init => TypeOK
<1> SUFFICES ASSUME Init PROVE TypeOK
  OBVIOUS
<1>1. \A i \in 1 .. 2 : CertKeys[i] \in Key
  BY ConstantsAssumption
<1>2. CertRow(1) \in Row /\ CertRow(2) \in Row
  BY <1>1, EmptyName DEF CertRow, Row, Key, ContentType
<1>3. tool \in [Tools -> ToolState]
  BY IdleToolType DEF Init, ToolState, ToolPcs
<1>4. srv \in ServerState
  BY IdleServerType DEF Init, ServerState, ServerPcs
<1>5. ops \in 0 .. MaxOps
  BY ConstantsAssumption DEF Init
<1>6. rows \subseteq Row /\ pending \subseteq UpdReqs /\ alone \subseteq Tools
  BY <1>2 DEF Init
<1>7. sound \in BOOLEAN /\ out \in Output
  BY SilentType DEF Init
<1> QED
  BY <1>3, <1>4, <1>5, <1>6, <1>7 DEF TypeOK

(* Starting a command keeps the types. *)
LEMMA StartType ==
  ASSUME TypeOK, NEW t \in Tools, NEW pc \in ToolPcs, NEW req \in Req,
         StartCommand(t, pc, req)
  PROVE  TypeOK'
<1>1. [IdleTool EXCEPT !.pc = pc, !.req = req, !.i = 1] \in ToolState
  BY IdleToolType DEF ToolState
<1>2. tool' \in [Tools -> ToolState]
  BY <1>1 DEF TypeOK, StartCommand
<1>3. ops' \in 0 .. MaxOps
  BY ConstantsAssumption DEF TypeOK, StartCommand
<1> QED
  BY <1>2, <1>3, SilentType DEF TypeOK, StartCommand

(* So do the two ways in which a step moves a tool on. *)
LEMMA GotoType ==
  ASSUME TypeOK, NEW t \in Tools, NEW pc \in ToolPcs, Goto(t, pc)
  PROVE  /\ tool' \in [Tools -> ToolState]
         /\ \A u \in Tools \ {t} : tool'[u] = tool[u]
         /\ tool'[t] = [tool[t] EXCEPT !.pc = pc]
         /\ tool'[t].pc = pc
BY DEF TypeOK, Goto, ToolState

(* The other one ends the command. *)
LEMMA DoneType ==
  ASSUME TypeOK, NEW t \in Tools, Done(t)
  PROVE  /\ tool' \in [Tools -> ToolState]
         /\ \A u \in Tools \ {t} : tool'[u] = tool[u]
         /\ tool'[t] = IdleTool
         /\ tool'[t].pc = "idle"
BY IdleToolType DEF TypeOK, Done, IdleTool

(* In the loops over the prefixes of a label the index stays inside it. *)
LoopIndex ==
  \A t \in Tools :
    tool[t].pc \in {"link", "authFind", "authInsert"} =>
      tool[t].i \in 1 .. Len(tool[t].req.label) - 1

(* Between the loops a command that checks for an override has a prefix. *)
OverrideIndex ==
  \A t \in Tools :
    tool[t].pc = "override" => tool[t].i = 1 /\ Len(tool[t].req.label) > 1

TypeInv == TypeOK /\ LoopIndex /\ OverrideIndex

(* Inside the loops the prefix asked for is a name. *)
LEMMA PrefixType ==
  ASSUME TypeInv, NEW t \in Tools, tool[t].pc \in {"link", "authFind", "authInsert"}
  PROVE  Prefix(t) \in Name
BY DEF TypeInv, TypeOK, LoopIndex, ToolState, Req, Prefix, Name

(* A tool step outside the loops keeps TypeInv as soon as it keeps TypeOK. *)
LEMMA OutsideLoops ==
  ASSUME TypeInv, TypeOK', NEW t \in Tools,
         \A u \in Tools \ {t} : tool'[u] = tool[u],
         tool'[t].pc \notin {"link", "authFind", "authInsert", "override"}
  PROVE  TypeInv'
BY DEF TypeInv, TypeOK, LoopIndex, OverrideIndex

(* A step that leaves the tools alone keeps TypeInv as soon as it keeps TypeOK. *)
LEMMA ServerOnly ==
  ASSUME TypeInv, TypeOK', UNCHANGED tool
  PROVE  TypeInv'
BY DEF TypeInv, TypeOK, LoopIndex, OverrideIndex

(* ndns-add-rr enters the first loop at index 1, below the end of the label. *)
LEMMA AddType ==
  ASSUME TypeInv, NEW t \in Tools, StartAdd(t)
  PROVE  TypeInv'
<1>1. PICK req \in AddReqs :
        StartCommand(t, IF Len(req.label) > 1 THEN "link" ELSE "auth", req)
  BY DEF StartAdd
<1>2. req \in Req
  BY ConstantsAssumption
<1>3. TypeOK'
  BY <1>1, <1>2, StartType DEF TypeInv, ToolPcs
<1>4. tool'[t].i = 1 /\ tool'[t].req = req
      /\ tool'[t].pc = IF Len(req.label) > 1 THEN "link" ELSE "auth"
  BY <1>1 DEF StartCommand, TypeInv, TypeOK, IdleTool
<1>5. \A u \in Tools \ {t} : tool'[u] = tool[u]
  BY <1>1 DEF StartCommand, TypeInv, TypeOK
<1>6. Len(req.label) \in Nat
  BY <1>2 DEF Req, Name
<1> QED BY <1>3, <1>4, <1>5, <1>6 DEF TypeInv, LoopIndex, OverrideIndex

(* The other commands start outside the loops. *)
LEMMA StartOtherType ==
  ASSUME TypeInv, NEW t \in Tools, StartAddFromFile(t) \/ StartRemove(t)
  PROVE  TypeInv'
<1>1. PICK req \in Req, pc \in {"ver", "rmFind"} : StartCommand(t, pc, req)
  <2>1. CASE StartAddFromFile(t)
    BY <2>1, ConstantsAssumption DEF StartAddFromFile
  <2>2. CASE StartRemove(t)
    <3>1. PICK k \in RmKeys : StartCommand(t, "rmFind", RmReq(k))
      BY <2>2 DEF StartRemove
    <3>2. RmReq(k) \in Req
      BY ConstantsAssumption DEF RmReq, Req, Key, ContentType
    <3> QED BY <3>1, <3>2
  <2> QED BY <2>1, <2>2
<1>2. TypeOK'
  BY <1>1, StartType DEF TypeInv, ToolPcs
<1>3. tool'[t].pc \in {"ver", "rmFind"} /\ \A u \in Tools \ {t} : tool'[u] = tool[u]
  BY <1>1 DEF StartCommand, TypeInv, TypeOK, IdleTool
<1> QED BY <1>2, <1>3, OutsideLoops

(* A tool step that only reads the table, or one that also writes it. *)
LEMMA ToolTypeOK ==
  ASSUME TypeOK, tool' \in [Tools -> ToolState], rows' \subseteq Row,
         out' = Silent, UNCHANGED <<srv, pending, ops>>,
         alone' \subseteq Tools, sound' \in BOOLEAN
  PROVE  TypeOK'
BY SilentType DEF TypeOK

(* The history variables keep their types. *)
LEMMA DisturbType ==
  ASSUME TypeOK, NEW self, Disturb(self)
  PROVE  alone' \subseteq Tools /\ sound' \in BOOLEAN
BY DEF TypeOK, Disturb

(* DELETE keeps the table well typed. *)
LEMMA RemoveIdType ==
  ASSUME TypeOK, NEW id, RemoveId(id)
  PROVE  rows' \subseteq Row
BY DEF TypeOK, RemoveId

(* addRrset, the AUTH check. *)
LEMMA CheckAuthType ==
  ASSUME TypeInv, NEW t \in Tools, CheckAuth(t)
  PROVE  TypeInv'
<1>1. tool' \in [Tools -> ToolState] /\ tool'[t].pc \in {"idle", "ver"}
      /\ \A u \in Tools \ {t} : tool'[u] = tool[u]
  BY GotoType, DoneType DEF CheckAuth, TypeInv, TypeOK, Goto, Done, IdleTool, ToolPcs, ToolState
<1>2. TypeOK'
  BY <1>1, ToolTypeOK DEF CheckAuth, TypeInv, TypeOK
<1> QED BY <1>1, <1>2, OutsideLoops

(* First loop: the index stays below the end of the label. *)
LEMMA CheckLinkType ==
  ASSUME TypeInv, NEW t \in Tools, CheckLink(t)
  PROVE  TypeInv'
<1>1. CASE Done(t)
  <2>1. tool' \in [Tools -> ToolState] /\ tool'[t].pc = "idle"
        /\ \A u \in Tools \ {t} : tool'[u] = tool[u]
    BY <1>1, DoneType DEF TypeInv, TypeOK, Done, IdleTool
  <2>2. TypeOK'
    BY <2>1, ToolTypeOK DEF CheckLink, TypeInv, TypeOK
  <2> QED BY <2>1, <2>2, OutsideLoops
<1>2. CASE tool' = [tool EXCEPT
                      ![t].pc = IF LastPrefix(t) THEN "override" ELSE "link",
                      ![t].i = IF LastPrefix(t) THEN 1 ELSE @ + 1]
  <2>1. tool[t] \in ToolState /\ tool[t].i \in 1 .. Len(tool[t].req.label) - 1
        /\ Len(tool[t].req.label) \in Nat
    BY DEF CheckLink, TypeInv, TypeOK, LoopIndex, ToolState, Req, Name
  <2>2. tool' \in [Tools -> ToolState]
    <3>1. CASE LastPrefix(t)
      BY <1>2, <2>1, <3>1 DEF TypeInv, TypeOK, ToolState, ToolPcs
    <3>2. CASE ~LastPrefix(t)
      BY <1>2, <2>1, <3>2 DEF TypeInv, TypeOK, ToolState, ToolPcs
    <3> QED BY <3>1, <3>2
  <2>3. TypeOK'
    BY <2>2, ToolTypeOK DEF CheckLink, TypeInv, TypeOK
  <2>4. \A u \in Tools \ {t} : tool'[u] = tool[u]
    BY <1>2 DEF TypeInv, TypeOK
  <2>5. tool'[t].req = tool[t].req
        /\ tool'[t].pc = (IF LastPrefix(t) THEN "override" ELSE "link")
        /\ tool'[t].i = (IF LastPrefix(t) THEN 1 ELSE tool[t].i + 1)
    BY <1>2, <2>1 DEF TypeInv, TypeOK, ToolState
  <2>6. LastPrefix(t) => Len(tool[t].req.label) > 1
    BY <2>1 DEF LastPrefix
  <2>7. ~LastPrefix(t) => tool[t].i + 1 \in 1 .. Len(tool[t].req.label) - 1
    BY <2>1 DEF LastPrefix
  <2> QED BY <2>3, <2>4, <2>5, <2>6, <2>7 DEF TypeInv, LoopIndex, OverrideIndex
<1> QED BY <1>1, <1>2 DEF CheckLink

(* The override check hands index 1 to the second loop. *)
LEMMA CheckOverrideType ==
  ASSUME TypeInv, NEW t \in Tools, CheckOverride(t)
  PROVE  TypeInv'
<1>1. tool' \in [Tools -> ToolState] /\ \A u \in Tools \ {t} : tool'[u] = tool[u]
  BY GotoType, DoneType DEF CheckOverride, TypeInv, TypeOK, Goto, Done, ToolPcs
<1>2. TypeOK'
  BY <1>1, ToolTypeOK DEF CheckOverride, TypeInv, TypeOK
<1>3. CASE Done(t)
  BY <1>1, <1>2, <1>3, OutsideLoops DEF Done, IdleTool, TypeInv, TypeOK
<1>4. CASE Goto(t, "authFind")
  <2>1. tool'[t].pc = "authFind" /\ tool'[t].i = 1 /\ tool'[t].req = tool[t].req
    BY <1>4 DEF CheckOverride, Goto, TypeInv, TypeOK, OverrideIndex, ToolState
  <2>2. Len(tool[t].req.label) \in Nat /\ Len(tool[t].req.label) > 1
    BY DEF CheckOverride, TypeInv, TypeOK, OverrideIndex, ToolState, Req, Name
  <2> QED BY <1>1, <1>2, <2>1, <2>2 DEF TypeInv, LoopIndex, OverrideIndex
<1> QED BY <1>3, <1>4 DEF CheckOverride

(* Moving to the next prefix of the second loop. *)
LEMMA NextPrefixType ==
  ASSUME TypeInv, NEW t \in Tools, tool[t].pc \in {"authFind", "authInsert"},
         NextPrefix(t)
  PROVE  /\ tool' \in [Tools -> ToolState]
         /\ TypeOK' => TypeInv'
<1>1. tool[t] \in ToolState /\ tool[t].i \in 1 .. Len(tool[t].req.label) - 1
      /\ Len(tool[t].req.label) \in Nat
  BY DEF TypeInv, TypeOK, LoopIndex, ToolState, Req, Name
<1>2. tool' \in [Tools -> ToolState]
  BY <1>1 DEF NextPrefix, TypeInv, TypeOK, ToolState, ToolPcs
<1>3. \A u \in Tools \ {t} : tool'[u] = tool[u]
  BY DEF NextPrefix, TypeInv, TypeOK
<1>4. tool'[t].req = tool[t].req
      /\ tool'[t].pc = (IF LastPrefix(t) THEN "ver" ELSE "authFind")
      /\ tool'[t].i = tool[t].i + 1
  BY <1>1 DEF NextPrefix, TypeInv, TypeOK, ToolState
<1>5. ~LastPrefix(t) => tool[t].i + 1 \in 1 .. Len(tool[t].req.label) - 1
  BY <1>1 DEF LastPrefix
<1> QED BY <1>2, <1>3, <1>4, <1>5 DEF TypeInv, LoopIndex, OverrideIndex

(* Second loop, the SELECT. *)
LEMMA FindAuthType ==
  ASSUME TypeInv, NEW t \in Tools, FindAuth(t)
  PROVE  TypeInv'
<1>1. CASE NextPrefix(t)
  <2>1. TypeOK'
    BY <1>1, NextPrefixType, ToolTypeOK DEF FindAuth, TypeInv, TypeOK
  <2> QED BY <1>1, <2>1, NextPrefixType DEF FindAuth
<1>2. CASE Goto(t, "authInsert")
  <2>1. tool' \in [Tools -> ToolState] /\ \A u \in Tools \ {t} : tool'[u] = tool[u]
    BY <1>2, GotoType DEF TypeInv, TypeOK, Goto, ToolPcs
  <2>2. TypeOK'
    BY <2>1, ToolTypeOK DEF FindAuth, TypeInv, TypeOK
  <2>3. tool'[t].pc = "authInsert" /\ tool'[t].i = tool[t].i /\ tool'[t].req = tool[t].req
    BY <1>2 DEF Goto, TypeInv, TypeOK, ToolState
  <2> QED BY <2>1, <2>2, <2>3 DEF FindAuth, TypeInv, LoopIndex, OverrideIndex
<1> QED BY <1>1, <1>2 DEF FindAuth

(* Second loop, the INSERT. *)
LEMMA InsertAuthType ==
  ASSUME TypeInv, NEW t \in Tools, InsertAuth(t)
  PROVE  TypeInv'
<1>1. PICK v \in AuthVersions : Insert(Prefix(t), NS, v, "AUTH", <<>>, <<>>)
  BY DEF InsertAuth
<1>2. rows' \subseteq Row
  BY <1>1, InsertType, PrefixType, EmptyName, ConstantsAssumption
  DEF InsertAuth, TypeInv, ContentType
<1>3. tool' \in [Tools -> ToolState]
  BY NextPrefixType DEF InsertAuth
<1>4. alone' \subseteq Tools /\ sound' \in BOOLEAN
  BY DisturbType DEF InsertAuth, TypeInv
<1>5. TypeOK'
  BY <1>2, <1>3, <1>4, ToolTypeOK DEF InsertAuth, TypeInv
<1> QED BY <1>5, NextPrefixType DEF InsertAuth

(* checkRrsetVersion. *)
LEMMA CheckVersionType ==
  ASSUME TypeInv, NEW t \in Tools, CheckRrsetVersion(t) \/ FindForRemoval(t)
  PROVE  TypeInv'
<1>1. PICK r \in Find(tool[t].req.label, tool[t].req.type),
           pc \in {"insert", "rmOld", "rmRow"} :
        \/ Goto(t, pc)
        \/ Done(t)
        \/ tool' = [tool EXCEPT ![t].pc = pc, ![t].old = r]
  BY DEF CheckRrsetVersion, FindForRemoval
<1>2. r \in Row
  BY FindType DEF TypeInv
<1>3. /\ tool' \in [Tools -> ToolState]
      /\ \A u \in Tools \ {t} : tool'[u] = tool[u]
      /\ tool'[t].pc \in {"insert", "rmOld", "rmRow", "idle"}
  <2>1. CASE Goto(t, pc)
    BY <2>1, GotoType DEF TypeInv, ToolPcs
  <2>2. CASE Done(t)
    BY <2>2, DoneType DEF TypeInv
  <2>3. CASE tool' = [tool EXCEPT ![t].pc = pc, ![t].old = r]
    BY <2>3, <1>2 DEF TypeInv, TypeOK, ToolPcs, ToolState
  <2> QED BY <1>1, <2>1, <2>2, <2>3
<1>4. TypeOK'
  BY <1>3, ToolTypeOK DEF CheckRrsetVersion, FindForRemoval, TypeInv, TypeOK
<1> QED BY <1>3, <1>4, OutsideLoops

(* The two DELETEs of a record. *)
LEMMA RemoveType ==
  ASSUME TypeInv, NEW t \in Tools, RemoveOld(t) \/ RemoveRow(t)
  PROVE  TypeInv'
<1>1. PICK pc \in {"insert", "doeClear"} : Goto(t, pc)
  BY DEF RemoveOld, RemoveRow
<1>2. /\ tool' \in [Tools -> ToolState]
      /\ \A u \in Tools \ {t} : tool'[u] = tool[u]
      /\ tool'[t].pc \in {"insert", "doeClear"}
  BY <1>1, GotoType DEF TypeInv, ToolPcs
<1>3. rows' \subseteq Row /\ alone' \subseteq Tools /\ sound' \in BOOLEAN
  BY RemoveIdType, DisturbType DEF RemoveOld, RemoveRow, TypeInv
<1>4. TypeOK'
  BY <1>2, <1>3, ToolTypeOK DEF RemoveOld, RemoveRow, TypeInv
<1> QED BY <1>2, <1>4, OutsideLoops

(* The INSERT of the record. *)
LEMMA InsertRrsetType ==
  ASSUME TypeInv, NEW t \in Tools, InsertRrset(t)
  PROVE  TypeInv'
<1>1. tool[t].req \in Req
  BY DEF TypeInv, TypeOK, ToolState
<1>2. rows' \subseteq Row
  BY <1>1, InsertType, EmptyName DEF InsertRrset, TypeInv, Req
<1>3. /\ tool' \in [Tools -> ToolState]
      /\ \A u \in Tools \ {t} : tool'[u] = tool[u]
      /\ tool'[t].pc = "doeClear"
  BY GotoType DEF InsertRrset, TypeInv, ToolPcs
<1>4. alone' \subseteq Tools /\ sound' \in BOOLEAN
  BY DisturbType DEF InsertRrset, TypeInv
<1>5. TypeOK'
  BY <1>2, <1>3, <1>4, ToolTypeOK DEF InsertRrset, TypeInv
<1> QED BY <1>3, <1>5, OutsideLoops

(* generateDoe, the DELETE. *)
LEMMA DoeClearType ==
  ASSUME TypeInv, NEW t \in Tools, DoeClear(t)
  PROVE  TypeInv'
<1>1. /\ tool' \in [Tools -> ToolState]
      /\ \A u \in Tools \ {t} : tool'[u] = tool[u]
      /\ tool'[t].pc = "doeRead"
  BY GotoType DEF DoeClear, TypeInv, ToolPcs
<1>2. rows' \subseteq Row /\ alone' \subseteq Tools /\ sound' \in BOOLEAN
  BY DEF DoeClear, Records, TypeInv, TypeOK
<1>3. TypeOK'
  BY <1>1, <1>2, ToolTypeOK DEF DoeClear, TypeInv
<1> QED BY <1>1, <1>3, OutsideLoops

(* generateDoe, the SELECT. *)
LEMMA DoeReadType ==
  ASSUME TypeInv, NEW t \in Tools, DoeRead(t)
  PROVE  TypeInv'
<1>1. PICK recs \in SUBSET rows :
        \/ Done(t)
        \/ tool' = [tool EXCEPT ![t].pc = "doeInsert", ![t].recs = recs, ![t].left = recs]
  BY DEF DoeRead
<1>2. /\ tool' \in [Tools -> ToolState]
      /\ \A u \in Tools \ {t} : tool'[u] = tool[u]
      /\ tool'[t].pc \in {"idle", "doeInsert"}
  <2>1. CASE Done(t)
    BY <2>1, DoneType DEF TypeInv
  <2>2. CASE tool' = [tool EXCEPT ![t].pc = "doeInsert", ![t].recs = recs, ![t].left = recs]
    <3>1. tool[t] \in ToolState /\ recs \in SUBSET Row
      BY DEF TypeInv, TypeOK
    <3>2. [tool[t] EXCEPT !.pc = "doeInsert", !.recs = recs, !.left = recs] \in ToolState
      BY <3>1 DEF ToolState, ToolPcs
    <3>3. tool'[t] = [tool[t] EXCEPT !.pc = "doeInsert", !.recs = recs, !.left = recs]
      BY <2>2 DEF TypeInv, TypeOK
    <3>4. tool'[t].pc = "doeInsert"
      BY <3>1, <3>3 DEF ToolState
    <3> QED BY <2>2, <3>2, <3>3, <3>4 DEF TypeInv, TypeOK
  <2> QED BY <1>1, <2>1, <2>2
<1>3. TypeOK'
  BY <1>2, ToolTypeOK DEF DoeRead, TypeInv, TypeOK
<1> QED BY <1>2, <1>3, OutsideLoops

(* Storing a range between two rows. *)
LEMMA DoeRowType ==
  ASSUME TypeOK, NEW label \in Name, NEW r \in Row, NEW s \in Row,
         Insert(label, DOE, 0, "DOE", KeyName(r), KeyName(s))
  PROVE  rows' \subseteq Row
BY InsertType, KeyNameType, ConstantsAssumption DEF Row, ContentType

(* generateDoe, one range. *)
LEMMA DoeInsertType ==
  ASSUME TypeInv, NEW t \in Tools, DoeInsert(t)
  PROVE  TypeInv'
<1>1. PICK r \in tool[t].left, s \in tool[t].recs :
        /\ Insert(KeyName(r), DOE, 0, "DOE", KeyName(r), KeyName(s))
        /\ tool' = [tool EXCEPT ![t].left = tool[t].left \ {r},
                                ![t].pc = IF tool[t].left = {r} THEN "doeGuard" ELSE @]
  BY DEF DoeInsert
<1>2. tool[t] \in ToolState /\ r \in Row /\ s \in Row
  BY DEF TypeInv, TypeOK, ToolState
<1>3. rows' \subseteq Row
  BY <1>1, <1>2, DoeRowType, KeyNameType DEF TypeInv, Row
<1>4. tool' \in [Tools -> ToolState]
  BY <1>1, <1>2 DEF TypeInv, TypeOK, ToolState, ToolPcs
<1>5. /\ \A u \in Tools \ {t} : tool'[u] = tool[u]
      /\ tool'[t].pc \in {"doeInsert", "doeGuard"}
  BY <1>1, <1>2 DEF DoeInsert, TypeInv, TypeOK, ToolState
<1>6. alone' \subseteq Tools /\ sound' \in BOOLEAN
  BY DisturbType DEF DoeInsert, TypeInv
<1>7. TypeOK'
  BY <1>3, <1>4, <1>6, ToolTypeOK DEF DoeInsert, TypeInv
<1> QED BY <1>5, <1>7, OutsideLoops

(* generateDoe, the guard. *)
LEMMA DoeGuardType ==
  ASSUME TypeInv, NEW t \in Tools, DoeGuard(t)
  PROVE  TypeInv'
<1>1. PICK r \in tool[t].recs, s \in tool[t].recs :
        Insert(<<>>, DOE, 0, "DOE", KeyName(r), KeyName(s))
  BY DEF DoeGuard
<1>2. r \in Row /\ s \in Row
  BY DEF TypeInv, TypeOK, ToolState
<1>3. rows' \subseteq Row
  BY <1>1, <1>2, DoeRowType, EmptyName DEF TypeInv
<1>4. /\ tool' \in [Tools -> ToolState]
      /\ \A u \in Tools \ {t} : tool'[u] = tool[u]
      /\ tool'[t].pc = "idle"
  BY DoneType DEF DoeGuard, TypeInv
<1>5. alone' \subseteq Tools /\ sound' \in BOOLEAN
  BY DEF DoeGuard
<1>6. TypeOK'
  BY <1>3, <1>4, <1>5, ToolTypeOK DEF DoeGuard, TypeInv
<1> QED BY <1>4, <1>6, OutsideLoops

(* A command that ends early. *)
LEMMA AbortType ==
  ASSUME TypeInv, NEW t \in Tools, ToolConflict(t) \/ ToolAbort(t)
  PROVE  TypeInv'
<1>1. Done(t) /\ out' = Silent /\ UNCHANGED <<rows, srv, pending, ops, alone, sound>>
  BY DEF ToolConflict, ToolAbort
<1>2. /\ tool' \in [Tools -> ToolState]
      /\ \A u \in Tools \ {t} : tool'[u] = tool[u]
      /\ tool'[t].pc = "idle"
  BY <1>1, DoneType DEF TypeInv
<1>3. TypeOK'
  BY <1>1, <1>2, ToolTypeOK DEF TypeInv, TypeOK
<1> QED BY <1>2, <1>3, OutsideLoops

(* An answer carries a request and a range. *)
LEMMA ReplyType ==
  ASSUME NEW kind \in {"none", "data", "nack", "ok", "fail"}, NEW req \in Req,
         NEW lo \in Name, NEW hi \in Name, Reply(kind, req, lo, hi)
  PROVE  out' \in Output
BY DEF Reply, Output

(* A query, seen as a request. *)
LEMMA AsReqType ==
  ASSUME NEW q \in Queries
  PROVE  AsReq(q) \in Req
BY ConstantsAssumption DEF AsReq, Req, Query, ContentType

(* handleQuery, the SELECT of the record. *)
LEMMA HandleQueryType ==
  ASSUME TypeOK, HandleQuery
  PROVE  TypeOK'
<1>0. PICK q \in Queries : \E r \in Find(q.label, q.type) :
        \/ /\ Reply("data", [AsReq(q) EXCEPT !.ver = r.ver, !.ct = r.ct], r.lo, r.hi)
           /\ UNCHANGED srv
        \/ /\ srv' = [IdleServer EXCEPT !.pc = "doe", !.req = AsReq(q)]
           /\ out' = Silent
  BY DEF HandleQuery
<1>1. PICK r \in Find(q.label, q.type) :
        \/ /\ Reply("data", [AsReq(q) EXCEPT !.ver = r.ver, !.ct = r.ct], r.lo, r.hi)
           /\ UNCHANGED srv
        \/ /\ srv' = [IdleServer EXCEPT !.pc = "doe", !.req = AsReq(q)]
           /\ out' = Silent
  BY <1>0
<1>2. r \in Row /\ AsReq(q) \in Req
  BY FindType, AsReqType
<1>3. CASE Reply("data", [AsReq(q) EXCEPT !.ver = r.ver, !.ct = r.ct], r.lo, r.hi)
           /\ UNCHANGED srv
  <2>1. [AsReq(q) EXCEPT !.ver = r.ver, !.ct = r.ct] \in Req
    BY <1>2 DEF Req, Row
  <2>2. out' \in Output
    BY <1>2, <1>3, <2>1, ReplyType DEF Row
  <2> QED BY <1>3, <2>2 DEF HandleQuery, TypeOK
<1>4. CASE srv' = [IdleServer EXCEPT !.pc = "doe", !.req = AsReq(q)] /\ out' = Silent
  <2>1. srv' \in ServerState
    BY <1>2, <1>4, IdleServerType DEF ServerState, ServerPcs
  <2> QED BY <1>4, <2>1, SilentType DEF HandleQuery, TypeOK
<1> QED BY <1>1, <1>3, <1>4

(* The server after its exit is well typed. *)
LEMMA DownType == [IdleServer EXCEPT !.pc = "down"] \in ServerState
BY IdleServerType DEF ServerState, ServerPcs

(* handleQuery, the denial. *)
LEMMA DenyQueryType ==
  ASSUME TypeOK, DenyQuery
  PROVE  TypeOK'
<1>1. PICK d \in FindLowerBound(KeyName(srv.req)) :
        \/ /\ srv' = [IdleServer EXCEPT !.pc = "down"]
           /\ pending' = {} /\ out' = Silent
        \/ /\ srv' = IdleServer /\ UNCHANGED pending
           /\ Reply("nack", srv.req, d.lo, d.hi)
  BY DEF DenyQuery
<1>2. d \in Row /\ srv.req \in Req
  BY FindLowerBoundType DEF TypeOK, ServerState
<1>3. CASE srv' = [IdleServer EXCEPT !.pc = "down"] /\ pending' = {} /\ out' = Silent
  BY <1>3, DownType, SilentType DEF DenyQuery, TypeOK
<1>4. CASE srv' = IdleServer /\ UNCHANGED pending /\ Reply("nack", srv.req, d.lo, d.hi)
  <2>1. out' \in Output
    BY <1>2, <1>4, ReplyType DEF Row
  <2> QED BY <1>4, <2>1, IdleServerType DEF DenyQuery, TypeOK
<1> QED BY <1>1, <1>3, <1>4

(* doUpdate, the SELECT. *)
LEMMA DoUpdateType ==
  ASSUME TypeOK, DoUpdate
  PROVE  TypeOK'
<1>1. PICK u \in pending : pending' = pending \ {u} /\
        \E r \in Find(u.label, u.type) :
          \/ srv' = [IdleServer EXCEPT !.pc = "insert", !.req = u] /\ out' = Silent
          \/ srv' = [pc |-> "update", req |-> u, old |-> r] /\ out' = Silent
          \/ UNCHANGED srv /\ Reply("fail", u, <<>>, <<>>)
  BY DEF DoUpdate
<1>2. u \in Req
  BY ConstantsAssumption DEF TypeOK
<1>3. PICK r \in Find(u.label, u.type) :
        \/ srv' = [IdleServer EXCEPT !.pc = "insert", !.req = u] /\ out' = Silent
        \/ srv' = [pc |-> "update", req |-> u, old |-> r] /\ out' = Silent
        \/ UNCHANGED srv /\ Reply("fail", u, <<>>, <<>>)
  BY <1>1
<1>4. r \in Row
  BY FindType
<1>5. srv' \in ServerState
  <2>1. [IdleServer EXCEPT !.pc = "insert", !.req = u] \in ServerState
    BY <1>2, IdleServerType DEF ServerState, ServerPcs
  <2>2. [pc |-> "update", req |-> u, old |-> r] \in ServerState
    BY <1>2, <1>4 DEF ServerState, ServerPcs
  <2> QED BY <1>3, <2>1, <2>2 DEF TypeOK
<1>6. out' \in Output
  BY <1>2, <1>3, SilentType, EmptyName, ReplyType
<1>7. pending' \subseteq UpdReqs
  BY <1>1 DEF TypeOK
<1> QED BY <1>5, <1>6, <1>7 DEF DoUpdate, TypeOK

(* An UPDATE keeps the table or maps every row to itself, version aside. *)
LEMMA UpdatedType ==
  ASSUME NEW r \in Row, NEW id, NEW ver \in Nat, NEW ct \in ContentType
  PROVE  /\ Updated(r, id, ver, ct) \in Row
         /\ Updated(r, id, ver, ct).id = r.id
         /\ SameKey(Updated(r, id, ver, ct), r)
         /\ Updated(r, id, ver, ct).lo = r.lo
         /\ Updated(r, id, ver, ct).hi = r.hi
BY DEF Updated, Row, SameKey

(* The table after an UPDATE. *)
LEMMA UpdateIdRows ==
  ASSUME NEW id, NEW ver, NEW ct, UpdateId(id, ver, ct)
  PROVE  UNCHANGED rows \/ rows' = {Updated(r, id, ver, ct) : r \in rows}
BY DEF UpdateId

(* doUpdate, the UPDATE or the INSERT. *)
LEMMA UpdateWriteType ==
  ASSUME TypeOK, DoUpdateReplace \/ DoUpdateInsert
  PROVE  TypeOK'
<1>1. srv.req \in Req
  BY DEF TypeOK, ServerState
<1>2. out' \in Output
  BY <1>1, ReplyType, EmptyName DEF DoUpdateReplace, DoUpdateInsert
<1>3. rows' \subseteq Row
  <2>1. CASE UNCHANGED rows
    BY <2>1 DEF TypeOK
  <2>2. CASE UpdateId(srv.old.id, srv.req.ver, srv.req.ct)
    BY <1>1, <2>1, <2>2, UpdateIdRows, UpdatedType DEF TypeOK, Req
  <2>3. CASE Insert(srv.req.label, srv.req.type, srv.req.ver, srv.req.ct, <<>>, <<>>)
    BY <1>1, <2>3, InsertType, EmptyName DEF Req
  <2> QED BY <2>1, <2>2, <2>3 DEF DoUpdateReplace, DoUpdateInsert
<1>4. alone' \subseteq Tools /\ sound' \in BOOLEAN
  <2>1. CASE UNCHANGED <<alone, sound>>
    BY <2>1 DEF TypeOK
  <2>2. CASE Disturb({})
    BY <2>2, DisturbType
  <2> QED BY <2>1, <2>2 DEF DoUpdateReplace, DoUpdateInsert
<1>5. srv' \in ServerState /\ tool' = tool /\ pending' = pending /\ ops' = ops
  BY IdleServerType DEF DoUpdateReplace, DoUpdateInsert
<1> QED BY <1>2, <1>3, <1>4, <1>5 DEF TypeOK

(* Validation, kill and restart. *)
LEMMA OtherServerType ==
  ASSUME TypeOK, HandleUpdate \/ RejectUpdate \/ ServerKill \/ ServerRestart
  PROVE  TypeOK'
<1>1. CASE HandleUpdate
  <2>1. ops' \in 0 .. MaxOps
    BY <1>1, ConstantsAssumption DEF HandleUpdate, TypeOK
  <2>2. pending' \subseteq UpdReqs
    BY <1>1 DEF HandleUpdate, TypeOK
  <2> QED BY <1>1, <2>1, <2>2, SilentType DEF HandleUpdate, TypeOK
<1>2. CASE RejectUpdate
  BY <1>2, SilentType DEF RejectUpdate, TypeOK
<1>3. CASE ServerKill
  BY <1>3, SilentType, DownType DEF ServerKill, TypeOK
<1>4. CASE ServerRestart
  BY <1>4, SilentType, IdleServerType DEF ServerRestart, TypeOK
<1> QED BY <1>1, <1>2, <1>3, <1>4

(* Every tool step keeps the types. *)
LEMMA ToolNextType ==
  ASSUME TypeInv, NEW t \in Tools, ToolNext(t)
  PROVE  TypeInv'
BY AddType, StartOtherType, CheckAuthType, CheckLinkType, CheckOverrideType,
   FindAuthType, InsertAuthType, CheckVersionType, RemoveType, InsertRrsetType,
   DoeClearType, DoeReadType, DoeInsertType, DoeGuardType, AbortType
DEF ToolNext, ToolStep

(* Every server step keeps the types. *)
LEMMA ServerNextType ==
  ASSUME TypeInv, ServerNext
  PROVE  TypeInv'
<1>1. TypeOK'
  BY HandleQueryType, DenyQueryType, DoUpdateType, UpdateWriteType, OtherServerType
  DEF ServerNext, ServerStep, TypeInv
<1>2. UNCHANGED tool
  BY DEF ServerNext, ServerStep, HandleQuery, HandleUpdate, RejectUpdate, DoUpdate,
         DenyQuery, DoUpdateReplace, DoUpdateInsert, ServerKill, ServerRestart
<1> QED BY <1>1, <1>2, ServerOnly

(* TypeInv is inductive. *)
LEMMA TypeStep ==
  ASSUME TypeInv, [Next]_vars
  PROVE  TypeInv'
<1>1. CASE Next
  BY <1>1, ToolNextType, ServerNextType DEF Next
<1>2. CASE UNCHANGED vars
  BY <1>2 DEF vars, TypeInv, TypeOK, LoopIndex, OverrideIndex
<1> QED BY <1>1, <1>2

(***************************************************************************)
(* Type correctness: whatever the tools, the daemon, kills and locked      *)
(* files do, every row, every local variable of a command and every answer *)
(* keeps its shape; in particular the loops of addMultiLevelLabelRrset     *)
(* never ask for a prefix longer than the label.                           *)
(***************************************************************************)
THEOREM TypeCorrect == Spec => [](TypeOK /\ LoopIndex)
<1>1. Init => TypeInv
  <2> SUFFICES ASSUME Init PROVE TypeInv
    OBVIOUS
  <2>1. \A t \in Tools : tool[t].pc \in {"idle", "doeClear"}
    BY DEF Init, IdleTool
  <2> QED BY <2>1, InitType DEF TypeInv, LoopIndex, OverrideIndex
<1>2. TypeInv /\ [Next]_vars => TypeInv'
  BY TypeStep
<1> QED BY <1>1, <1>2, PTL DEF Spec, TypeInv

-----------------------------------------------------------------------------
(* The denial chain. *)

(* The labels and types of the records a behaviour can store. *)
KnownKey(label, type) ==
  \/ \E i \in 1 .. 2 : CertKeys[i].label = label /\ CertKeys[i].type = type
  \/ \E r \in AddReqs \cup FileReqs \cup UpdReqs : r.label = label /\ r.type = type
  \/ \E r \in AddReqs : \E i \in 1 .. Len(r.label) - 1 :
       label = SubSeq(r.label, 1, i) /\ type = NS

(* Sorting by label gives the order of the names label/type. *)
OrdersAgree ==
  \A j, k \in Key :
    KnownKey(j.label, j.type) /\ KnownKey(k.label, k.type) /\ NameLess(j.label, k.label)
      => NameLess(KeyName(j), KeyName(k))

-----------------------------------------------------------------------------
(* The inductive invariant. *)

(* A row is addressed by its id. *)
IdsUnique == \A r, s \in rows : r.id = s.id => r = s

KeysKnown == \A r \in Records : KnownKey(r.label, r.type)

(* Where the records of the commands and updates under way come from. *)
ReqsKnown ==
  /\ \A t \in Tools :
       /\ tool[t].pc \in {"link", "override", "authFind", "authInsert"} =>
            tool[t].req \in AddReqs
       /\ tool[t].pc \in {"auth", "ver", "rmOld", "insert"} =>
            tool[t].req \in AddReqs \cup FileReqs
  /\ srv.pc \in {"update", "insert"} => srv.req \in UpdReqs

(* No stored range covers a stored record. *)
DoeFree ==
  \A d \in rows, r \in Records : d.type = DOE => ~InRange(d.lo, d.hi, KeyName(r))

(* An undisturbed generateDoe works on the records of the table, ... *)
RecsMatch(t) ==
  /\ \A x \in Records : \E y \in tool[t].recs : y.id = x.id /\ SameKey(y, x)
  /\ \A y \in tool[t].recs : \E x \in Records : y.id = x.id /\ SameKey(y, x)
  /\ \A y, z \in tool[t].recs : y.id = z.id => y = z

(* ... has done the smaller ones, and the ranges written so far are sound. *)
LoopInv(t) ==
  /\ RecsMatch(t)
  /\ tool[t].left \subseteq tool[t].recs
  /\ \A x \in tool[t].recs \ tool[t].left, y \in tool[t].left : RrsetLess(x, y)
  /\ UniqueRecord => DoeFree

Regeneration ==
  \A t \in alone :
    /\ tool[t].pc = "doeRead" => \A d \in rows : d.type # DOE
    /\ tool[t].pc \in {"doeInsert", "doeGuard"} => LoopInv(t)

DoeInv == IdsUnique /\ KeysKnown /\ ReqsKnown /\ Regeneration /\ DoeSound

-----------------------------------------------------------------------------
(* Ranges between neighbours. *)

(* Rows of an undisturbed generateDoe sort as the names that deny them. *)
LEMMA RecsOrdered ==
  ASSUME OrdersAgree, TypeInv, KeysKnown, UniqueRecord,
         NEW t \in Tools, RecsMatch(t),
         NEW x \in tool[t].recs, NEW y \in tool[t].recs, x # y, RrsetLess(x, y)
  PROVE  NameLess(KeyName(x), KeyName(y))
<1>1. x \in Row /\ y \in Row
  BY DEF TypeInv, TypeOK, ToolState
<1>2. PICK a \in Records : x.id = a.id /\ SameKey(x, a)
  BY DEF RecsMatch
<1>3. PICK b \in Records : y.id = b.id /\ SameKey(y, b)
  BY DEF RecsMatch
<1>4. ~SameKey(x, y)
  <2> SUFFICES ASSUME SameKey(x, y) PROVE FALSE
    OBVIOUS
  <2>1. SameKey(a, b)
    BY <1>2, <1>3 DEF SameKey
  <2>2. a = b
    BY <2>1 DEF UniqueRecord
  <2> QED BY <1>2, <1>3, <2>2 DEF RecsMatch
<1>5. KnownKey(x.label, x.type) /\ KnownKey(y.label, y.type)
  BY <1>2, <1>3 DEF KeysKnown, SameKey
<1>6. CASE NameLess(x.label, y.label)
  <2> DEFINE j == [label |-> x.label, type |-> x.type]
             k == [label |-> y.label, type |-> y.type]
  <2>1. j \in Key /\ k \in Key
    BY <1>1 DEF Row, Key
  <2>2. NameLess(KeyName(j), KeyName(k))
    BY <1>5, <1>6, <2>1 DEF OrdersAgree
  <2> QED BY <2>2 DEF KeyName
<1>7. CASE x.label = y.label /\ x.type < y.type
  BY <1>1, <1>7, KeyOrderSameLabel DEF Row
<1> QED BY <1>4, <1>6, <1>7 DEF RrsetLess, SameKey

(* The name that denies a row of generateDoe is a name. *)
LEMMA RecKeyName ==
  ASSUME TypeInv, NEW t \in Tools, NEW x \in tool[t].recs
  PROVE  KeyName(x) \in Name
BY KeyNameType DEF TypeInv, TypeOK, ToolState, Row

(* The range between a record and its successor covers no record. *)
LEMMA InnerRangeFree ==
  ASSUME OrdersAgree, TypeInv, KeysKnown, UniqueRecord,
         NEW t \in Tools, RecsMatch(t),
         NEW left \in SUBSET tool[t].recs,
         \A u \in tool[t].recs \ left, v \in left : RrsetLess(u, v),
         NEW r, NEW s, IsFirst(r, left), IsFirst(s, left \ {r}),
         NEW x \in tool[t].recs
  PROVE  ~InRange(KeyName(r), KeyName(s), KeyName(x))
<1>1. r \in tool[t].recs /\ s \in tool[t].recs /\ r # s /\ RrsetLess(r, s)
  BY DEF IsFirst
<1>2. NameLess(KeyName(r), KeyName(s))
  BY <1>1, RecsOrdered
<1>3. /\ KeyName(r) \in Name /\ KeyName(s) \in Name /\ KeyName(x) \in Name
      /\ ~NameLess(KeyName(x), KeyName(x))
  BY <1>1, RecKeyName, NameLessIrreflexive
<1>4. ~NameLess(KeyName(r), KeyName(x)) \/ ~NameLess(KeyName(x), KeyName(s))
  <2>1. CASE x = r \/ x = s
    BY <1>3, <2>1
  <2>2. CASE x \notin left
    <3>1. RrsetLess(x, r) /\ x # r
      BY <2>2 DEF IsFirst
    <3>2. NameLess(KeyName(x), KeyName(r))
      BY <1>1, <3>1, RecsOrdered
    <3> QED BY <1>3, <3>2, NameLessAsymmetric
  <2>3. CASE x \in left \ {r, s}
    <3>1. RrsetLess(s, x) /\ x # s
      BY <2>3 DEF IsFirst
    <3>2. NameLess(KeyName(s), KeyName(x))
      BY <1>1, <3>1, RecsOrdered
    <3> QED BY <1>3, <3>2, NameLessAsymmetric
  <2> QED BY <2>1, <2>2, <2>3
<1> QED BY <1>2, <1>4 DEF InRange

(* Neither does the range from the last record round to the first. *)
LEMMA ClosingRangeFree ==
  ASSUME OrdersAgree, TypeInv, KeysKnown, UniqueRecord,
         NEW t \in Tools, RecsMatch(t),
         NEW r, NEW s, IsLast(r, tool[t].recs), IsFirst(s, tool[t].recs),
         NEW x \in tool[t].recs
  PROVE  ~InRange(KeyName(r), KeyName(s), KeyName(x))
<1>1. r \in tool[t].recs /\ s \in tool[t].recs
  BY DEF IsFirst, IsLast
<1>2. \A y \in tool[t].recs : KeyName(y) \in Name /\ ~NameLess(KeyName(y), KeyName(y))
  BY RecKeyName, NameLessIrreflexive
<1>3. ~NameLess(KeyName(r), KeyName(s))
  <2>1. CASE r = s
    BY <1>1, <1>2, <2>1
  <2>2. CASE r # s
    <3>1. RrsetLess(s, r)
      BY <1>1, <2>2 DEF IsFirst
    <3>2. NameLess(KeyName(s), KeyName(r))
      BY <1>1, <2>2, <3>1, RecsOrdered
    <3> QED BY <1>1, <1>2, <3>2, NameLessAsymmetric
  <2> QED BY <2>1, <2>2
<1>4. ~NameLess(KeyName(r), KeyName(x))
  <2>1. CASE x = r
    BY <1>1, <1>2, <2>1
  <2>2. CASE x # r
    <3>1. RrsetLess(x, r)
      BY <2>2 DEF IsLast
    <3>2. NameLess(KeyName(x), KeyName(r))
      BY <1>1, <2>2, <3>1, RecsOrdered
    <3> QED BY <1>1, <1>2, <3>2, NameLessAsymmetric
  <2> QED BY <2>1, <2>2
<1>5. ~NameLess(KeyName(x), KeyName(s))
  <2>1. CASE x = s
    BY <1>1, <1>2, <2>1
  <2>2. CASE x # s
    <3>1. RrsetLess(s, x)
      BY <2>2 DEF IsFirst
    <3>2. NameLess(KeyName(s), KeyName(x))
      BY <1>1, <2>2, <3>1, RecsOrdered
    <3> QED BY <1>1, <1>2, <3>2, NameLessAsymmetric
  <2> QED BY <2>1, <2>2
<1> QED BY <1>3, <1>4, <1>5 DEF InRange

-----------------------------------------------------------------------------
(* What the statements do to the invariant's parts. *)

(* INSERT adds one row under a fresh id and keeps the others. *)
LEMMA InsertAdds ==
  ASSUME TypeOK, IdsUnique, NEW label, NEW type, NEW ver, NEW ct, NEW lo, NEW hi,
         Insert(label, type, ver, ct, lo, hi)
  PROVE  /\ IdsUnique'
         /\ \E n : /\ rows' = rows \cup {n}
                  /\ n.label = label /\ n.type = type /\ n.lo = lo /\ n.hi = hi
<1>1. PICK m \in {r.id : r \in rows} \cup {0} :
        /\ \A r \in rows : r.id =< m
        /\ rows' = rows \cup {[id |-> m + 1, label |-> label, type |-> type,
                               ver |-> ver, ct |-> ct, lo |-> lo, hi |-> hi]}
  BY DEF Insert
<1> DEFINE n == [id |-> m + 1, label |-> label, type |-> type,
                 ver |-> ver, ct |-> ct, lo |-> lo, hi |-> hi]
<1>2. m \in Nat /\ \A r \in rows : r.id \in Nat
  BY DEF TypeOK, Row
<1>3. n.id = m + 1 /\ \A r \in rows : r.id # n.id
  BY <1>1, <1>2
<1>4. n.label = label /\ n.type = type /\ n.lo = lo /\ n.hi = hi
  OBVIOUS
<1>5. rows' = rows \cup {n}
  BY <1>1
<1> HIDE DEF n
<1>6. IdsUnique'
  BY <1>3, <1>5 DEF IdsUnique
<1> QED BY <1>4, <1>5, <1>6

(* A new record with a known key. *)
LEMMA InsertKnown ==
  ASSUME TypeOK, IdsUnique, KeysKnown,
         NEW label, NEW type, NEW ver, NEW ct, NEW lo, NEW hi,
         Insert(label, type, ver, ct, lo, hi), KnownKey(label, type)
  PROVE  IdsUnique' /\ KeysKnown'
BY InsertAdds DEF KeysKnown, Records

(* DELETE by id only takes rows away. *)
LEMMA RemoveKeeps ==
  ASSUME IdsUnique, KeysKnown, NEW id, RemoveId(id)
  PROVE  IdsUnique' /\ KeysKnown'
BY DEF RemoveId, IdsUnique, KeysKnown, Records

(* A step that leaves the table and the history alone. *)
LEMMA QuietStep ==
  ASSUME TypeInv, DoeInv, UNCHANGED <<rows, alone, sound>>, NEW t \in Tools,
         \A u \in Tools \ {t} : tool'[u] = tool[u],
         tool'[t] = tool[t] \/ tool'[t].pc \notin {"doeRead", "doeInsert", "doeGuard"}
  PROVE  IdsUnique' /\ KeysKnown' /\ Regeneration' /\ DoeSound'
<1>1. Records' = Records
  BY DEF Records
<1>2. IdsUnique' /\ KeysKnown'
  BY <1>1 DEF DoeInv, IdsUnique, KeysKnown
<1>3. (UniqueRecord' <=> UniqueRecord) /\ (DoeFree' <=> DoeFree)
  BY <1>1 DEF UniqueRecord, DoeFree
<1>4. DoeSound'
  BY <1>3 DEF DoeInv, DoeSound, DoeFree
<1>5. ASSUME NEW u \in alone', tool'[u].pc \in {"doeRead", "doeInsert", "doeGuard"}
      PROVE  u \in alone /\ tool'[u] = tool[u]
  BY <1>5 DEF TypeInv, TypeOK
<1>6. Regeneration'
  <2> SUFFICES ASSUME NEW u \in alone'
               PROVE  /\ tool'[u].pc = "doeRead" => \A d \in rows' : d.type # DOE
                      /\ tool'[u].pc \in {"doeInsert", "doeGuard"} => LoopInv(u)'
    BY DEF Regeneration
  <2>1. CASE tool'[u].pc = "doeRead"
    BY <1>5, <2>1 DEF DoeInv, Regeneration
  <2>2. CASE tool'[u].pc \in {"doeInsert", "doeGuard"}
    <3>1. LoopInv(u) /\ tool'[u] = tool[u]
      BY <1>5, <2>2 DEF DoeInv, Regeneration
    <3> QED BY <1>1, <1>3, <2>2, <3>1 DEF LoopInv, RecsMatch
  <2> QED BY <2>1, <2>2
<1> QED BY <1>2, <1>4, <1>6

(* A step that changes the records and leaves generateDoe aside. *)
LEMMA WriteStep ==
  ASSUME NEW self, Disturb(self), self \subseteq Tools,
         \A t \in self : tool'[t].pc \notin {"doeRead", "doeInsert", "doeGuard"}
  PROVE  Regeneration' /\ DoeSound'
<1>1. sound' = FALSE /\ alone' \subseteq self
  BY DEF Disturb
<1>2. DoeSound'
  BY <1>1 DEF DoeSound
<1>3. Regeneration'
  BY <1>1 DEF Regeneration
<1> QED BY <1>2, <1>3

-----------------------------------------------------------------------------
(* generateDoe. *)

(* The DELETE leaves no range. *)
LEMMA ClearStep ==
  ASSUME TypeInv, DoeInv, NEW t \in Tools, DoeClear(t)
  PROVE  IdsUnique' /\ KeysKnown' /\ Regeneration' /\ DoeSound'
<1>1. rows' = Records /\ alone' = {t} /\ sound' = FALSE
  BY DEF DoeClear
<1>2. IdsUnique' /\ KeysKnown'
  BY <1>1 DEF DoeInv, IdsUnique, KeysKnown, Records
<1>3. tool'[t].pc = "doeRead"
  BY GotoType DEF DoeClear, TypeInv, ToolPcs
<1>4. \A d \in rows' : d.type # DOE
  BY <1>1 DEF Records
<1> QED BY <1>1, <1>2, <1>3, <1>4 DEF Regeneration, DoeSound

(* The SELECT reads exactly the records of the table. *)
LEMMA ReadStep ==
  ASSUME TypeInv, DoeInv, NEW t \in Tools, DoeRead(t)
  PROVE  IdsUnique' /\ KeysKnown' /\ Regeneration' /\ DoeSound'
<1>1. UNCHANGED <<rows, alone, sound>> /\ tool[t].pc = "doeRead"
  BY DEF DoeRead
<1>2. CASE Done(t)
  BY <1>1, <1>2, DoneType, QuietStep DEF TypeInv
<1>3. CASE tool' = [tool EXCEPT ![t].pc = "doeInsert", ![t].recs = rows, ![t].left = rows]
  <2>1. \A u \in Tools \ {t} : tool'[u] = tool[u]
    BY <1>3 DEF TypeInv, TypeOK
  <2>2. tool'[t].pc = "doeInsert" /\ tool'[t].recs = rows /\ tool'[t].left = rows
    BY <1>3 DEF TypeInv, TypeOK, ToolState
  <2>3. Records' = Records
    BY <1>1 DEF Records
  <2>4. IdsUnique' /\ KeysKnown' /\ DoeSound'
    BY <1>1, <2>3 DEF DoeInv, IdsUnique, KeysKnown, DoeSound, UniqueRecord
  <2>5. ASSUME t \in alone PROVE LoopInv(t)'
    <3>1. \A d \in rows : d.type # DOE
      BY <1>1, <2>5 DEF DoeInv, Regeneration
    <3>2. Records = rows
      BY <3>1 DEF Records
    <3>3. RecsMatch(t)'
      BY <2>2, <2>3, <3>2 DEF RecsMatch, SameKey, DoeInv, IdsUnique
    <3>4. DoeFree'
      BY <1>1, <3>1 DEF DoeFree
    <3> QED BY <2>2, <3>3, <3>4 DEF LoopInv
  <2>6. ASSUME NEW u \in alone \ {t}, tool[u].pc \in {"doeInsert", "doeGuard"}
        PROVE  LoopInv(u)'
    <3>1. u \in Tools /\ tool'[u] = tool[u] /\ LoopInv(u)
      BY <2>1, <2>6 DEF TypeInv, TypeOK, DoeInv, Regeneration
    <3> QED BY <1>1, <2>3, <3>1 DEF LoopInv, RecsMatch, UniqueRecord, DoeFree
  <2>7. Regeneration'
    BY <1>1, <2>1, <2>2, <2>5, <2>6 DEF Regeneration, TypeInv, TypeOK, DoeInv
  <2> QED BY <2>4, <2>7
<1> QED BY <1>2, <1>3 DEF DoeRead

(* A range that covers no record of generateDoe covers none of the table. *)
LEMMA NewRangeFree ==
  ASSUME TypeInv, NEW t \in Tools, RecsMatch(t), UniqueRecord => DoeFree,
         NEW n, rows' = rows \cup {n}, n.type = DOE,
         UniqueRecord => \A x \in tool[t].recs : ~InRange(n.lo, n.hi, KeyName(x))
  PROVE  /\ Records' = Records
         /\ UniqueRecord' <=> UniqueRecord
         /\ UniqueRecord' => DoeFree'
<1>1. Records' = Records
  BY DEF Records
<1>2. UniqueRecord' <=> UniqueRecord
  BY <1>1 DEF UniqueRecord
<1>3. ASSUME UniqueRecord PROVE DoeFree'
  <2> SUFFICES ASSUME NEW d \in rows', NEW r \in Records, d.type = DOE
               PROVE  ~InRange(d.lo, d.hi, KeyName(r))
    BY <1>1 DEF DoeFree
  <2>1. CASE d \in rows
    BY <1>3, <2>1 DEF DoeFree
  <2>2. CASE d = n
    <3>1. PICK y \in tool[t].recs : SameKey(y, r)
      BY DEF RecsMatch
    <3>2. KeyName(y) = KeyName(r)
      BY <3>1 DEF SameKey, KeyName
    <3> QED BY <1>3, <2>2, <3>1, <3>2
  <2> QED BY <2>1, <2>2
<1> QED BY <1>1, <1>2, <1>3

(* The range of the next record keeps the loop invariant. *)
LEMMA InsertRangeStep ==
  ASSUME OrdersAgree, TypeInv, DoeInv, NEW t \in Tools, DoeInsert(t)
  PROVE  IdsUnique' /\ KeysKnown' /\ Regeneration' /\ DoeSound'
<1> DEFINE left == tool[t].left
           recs == tool[t].recs
<1>1. PICK r \in left, s \in recs :
        /\ IsFirst(r, left)
        /\ IsFirst(s, IF left = {r} THEN recs ELSE left \ {r})
        /\ Insert(KeyName(r), DOE, 0, "DOE", KeyName(r), KeyName(s))
        /\ tool' = [tool EXCEPT ![t].left = left \ {r},
                                ![t].pc = IF left = {r} THEN "doeGuard" ELSE @]
  BY DEF DoeInsert
<1>2. IdsUnique'
  BY <1>1, InsertAdds DEF TypeInv, DoeInv
<1>3. PICK n : rows' = rows \cup {n} /\ n.type = DOE
               /\ n.lo = KeyName(r) /\ n.hi = KeyName(s)
  BY <1>1, InsertAdds DEF TypeInv, DoeInv
<1>4. Records' = Records
  BY <1>3 DEF Records
<1>5. KeysKnown'
  BY <1>4 DEF DoeInv, KeysKnown
<1>6. sound' = FALSE /\ alone' = alone \cap {t}
  BY DEF DoeInsert, Disturb
<1>7. DoeSound'
  BY <1>6 DEF DoeSound
<1>8. /\ tool'[t].recs = recs /\ tool'[t].left = left \ {r}
      /\ tool'[t].pc \in {"doeInsert", "doeGuard"}
  BY <1>1 DEF DoeInsert, TypeInv, TypeOK, ToolState
<1>9. ASSUME t \in alone PROVE LoopInv(t)'
  <2>1. LoopInv(t)
    BY <1>9 DEF DoeInsert, DoeInv, Regeneration
  <2>2. RecsMatch(t)'
    BY <1>4, <1>8, <2>1 DEF LoopInv, RecsMatch
  <2>3. ASSUME UniqueRecord, NEW x \in recs
        PROVE  ~InRange(KeyName(r), KeyName(s), KeyName(x))
    <3>1. CASE left = {r}
      <4>1. IsLast(r, recs)
        BY <2>1, <3>1 DEF LoopInv, IsLast
      <4>2. IsFirst(s, recs)
        BY <1>1, <3>1
      <4> QED BY <2>1, <2>3, <4>1, <4>2, ClosingRangeFree DEF LoopInv, DoeInv
    <3>2. CASE left # {r}
      <4>1. IsFirst(s, left \ {r}) /\ IsFirst(r, left)
        BY <1>1, <3>2
      <4>2. left \in SUBSET recs /\ \A u \in recs \ left, v \in left : RrsetLess(u, v)
        BY <2>1 DEF LoopInv
      <4> QED BY <2>1, <2>3, <4>1, <4>2, InnerRangeFree DEF LoopInv, DoeInv
    <3> QED BY <3>1, <3>2
  <2>4. UniqueRecord' => DoeFree'
    BY <1>3, <2>1, <2>3, NewRangeFree DEF LoopInv
  <2>5. \A x \in recs \ (left \ {r}), y \in left \ {r} : RrsetLess(x, y)
    BY <1>1, <2>1 DEF LoopInv, IsFirst
  <2>6. left \ {r} \subseteq recs
    BY <2>1 DEF LoopInv
  <2> QED BY <1>8, <2>2, <2>4, <2>5, <2>6 DEF LoopInv
<1>10. Regeneration'
  BY <1>6, <1>8, <1>9 DEF Regeneration
<1> QED BY <1>2, <1>5, <1>7, <1>10

(* The guard completes a sound chain. *)
LEMMA GuardStep ==
  ASSUME OrdersAgree, TypeInv, DoeInv, NEW t \in Tools, DoeGuard(t)
  PROVE  IdsUnique' /\ KeysKnown' /\ Regeneration' /\ DoeSound'
<1> DEFINE recs == tool[t].recs
<1>1. PICK r \in recs, s \in recs :
        /\ IsLast(r, recs) /\ IsFirst(s, recs)
        /\ Insert(<<>>, DOE, 0, "DOE", KeyName(r), KeyName(s))
  BY DEF DoeGuard
<1>2. IdsUnique'
  BY <1>1, InsertAdds DEF TypeInv, DoeInv
<1>3. PICK n : rows' = rows \cup {n} /\ n.type = DOE
               /\ n.lo = KeyName(r) /\ n.hi = KeyName(s)
  BY <1>1, InsertAdds DEF TypeInv, DoeInv
<1>4. Records' = Records
  BY <1>3 DEF Records
<1>5. KeysKnown'
  BY <1>4 DEF DoeInv, KeysKnown
<1>6. alone' = {} /\ (sound' => t \in alone)
  BY DEF DoeGuard
<1>7. Regeneration'
  BY <1>6 DEF Regeneration
<1>8. ASSUME t \in alone PROVE UniqueRecord' => DoeFree'
  <2>1. LoopInv(t)
    BY <1>8 DEF DoeGuard, DoeInv, Regeneration
  <2>2. ASSUME UniqueRecord, NEW x \in recs
        PROVE  ~InRange(KeyName(r), KeyName(s), KeyName(x))
    BY <1>1, <2>1, <2>2, ClosingRangeFree DEF LoopInv, DoeInv
  <2> QED BY <1>3, <2>1, <2>2, NewRangeFree DEF LoopInv
<1>9. DoeSound'
  BY <1>6, <1>8 DEF DoeSound, DoeFree
<1> QED BY <1>2, <1>5, <1>7, <1>9

-----------------------------------------------------------------------------
(* An update in place changes versions only, so it spoils nothing. *)

(* DoUpdateReplace keeps the invariant. *)
LEMMA ReplaceStep ==
  ASSUME TypeInv, DoeInv, DoUpdateReplace
  PROVE  IdsUnique' /\ KeysKnown' /\ Regeneration' /\ DoeSound'
<1>1. UNCHANGED <<tool, alone, sound>> /\ srv.req \in Req
  BY DEF DoUpdateReplace, TypeInv, TypeOK, ServerState
<1>2. CASE UNCHANGED rows
  <2>1. CASE Tools = {}
    BY <1>1, <1>2, <2>1 DEF DoeInv, IdsUnique, KeysKnown, Regeneration, DoeSound,
          UniqueRecord, Records, TypeInv, TypeOK
  <2>2. CASE Tools # {}
    BY <1>1, <1>2, <2>2, QuietStep
  <2> QED BY <2>1, <2>2
<1>3. CASE rows' = {Updated(r, srv.old.id, srv.req.ver, srv.req.ct) : r \in rows}
  <2> DEFINE Up(r) == Updated(r, srv.old.id, srv.req.ver, srv.req.ct)
  <2>1. ASSUME NEW r \in rows
        PROVE  /\ Up(r) \in rows' /\ Up(r).id = r.id /\ SameKey(Up(r), r)
               /\ Up(r).lo = r.lo /\ Up(r).hi = r.hi
    BY <1>1, <1>3, UpdatedType DEF TypeInv, TypeOK, Req
  <2>2. \A x \in rows' : \E r \in rows : x = Up(r)
    BY <1>3
  <2> HIDE DEF Up
  <2>3. \A r \in Records : Up(r) \in Records'
    BY <2>1 DEF Records, SameKey
  <2>4. \A x \in Records' : \E r \in Records : x = Up(r)
    BY <2>1, <2>2 DEF Records, SameKey
  <2>5. IdsUnique'
    BY <2>1, <2>2 DEF DoeInv, IdsUnique
  <2>6. KeysKnown'
    BY <2>1, <2>4 DEF DoeInv, KeysKnown, SameKey, Records
  <2>7. ASSUME UniqueRecord' PROVE UniqueRecord
    <3> SUFFICES ASSUME NEW a \in Records, NEW b \in Records, SameKey(a, b)
                 PROVE  a = b
      BY DEF UniqueRecord
    <3>1. a \in rows /\ b \in rows
      BY DEF Records
    <3>2. SameKey(Up(a), Up(b))
      BY <2>1, <3>1 DEF SameKey
    <3>3. Up(a) = Up(b)
      BY <2>3, <2>7, <3>2 DEF UniqueRecord
    <3> QED BY <2>1, <3>1, <3>3 DEF DoeInv, IdsUnique
  <2>8. ASSUME DoeFree PROVE DoeFree'
    <3> SUFFICES ASSUME NEW d \in rows', NEW x \in Records', d.type = DOE
                 PROVE  ~InRange(d.lo, d.hi, KeyName(x))
      BY DEF DoeFree
    <3>1. PICK e \in rows : d = Up(e)
      BY <2>2
    <3>2. PICK r \in Records : x = Up(r)
      BY <2>4
    <3>3. e.type = DOE /\ d.lo = e.lo /\ d.hi = e.hi
      BY <2>1, <3>1 DEF SameKey
    <3>4. KeyName(x) = KeyName(r)
      BY <2>1, <3>2 DEF SameKey, KeyName, Records
    <3> QED BY <2>8, <3>3, <3>4 DEF DoeFree
  <2>9. DoeSound'
    BY <1>1, <2>7, <2>8 DEF DoeInv, DoeSound, DoeFree
  <2>10. ASSUME NEW t \in alone, tool[t].pc = "doeRead"
         PROVE  \A d \in rows' : d.type # DOE
    BY <2>1, <2>2, <2>10 DEF DoeInv, Regeneration, SameKey
  <2>11. ASSUME NEW t \in alone, tool[t].pc \in {"doeInsert", "doeGuard"}
         PROVE  LoopInv(t)'
    <3>1. LoopInv(t)
      BY <2>11 DEF DoeInv, Regeneration
    <3>2. \A x \in Records' : \E y \in tool[t].recs : y.id = x.id /\ SameKey(y, x)
      <4> TAKE x \in Records'
      <4>1. PICK r \in Records : x = Up(r)
        BY <2>4
      <4>2. PICK y \in tool[t].recs : y.id = r.id /\ SameKey(y, r)
        BY <3>1 DEF LoopInv, RecsMatch
      <4> QED BY <2>1, <4>1, <4>2 DEF SameKey, Records
    <3>3. \A y \in tool[t].recs : \E x \in Records' : y.id = x.id /\ SameKey(y, x)
      <4> TAKE y \in tool[t].recs
      <4>1. PICK r \in Records : y.id = r.id /\ SameKey(y, r)
        BY <3>1 DEF LoopInv, RecsMatch
      <4>2. Up(r) \in Records' /\ y.id = Up(r).id /\ SameKey(y, Up(r))
        BY <2>1, <2>3, <4>1 DEF SameKey, Records
      <4> QED BY <4>2
    <3>4. RecsMatch(t)'
      BY <1>1, <3>1, <3>2, <3>3 DEF LoopInv, RecsMatch
    <3> QED BY <1>1, <2>7, <2>8, <3>1, <3>4 DEF LoopInv
  <2>12. Regeneration'
    BY <1>1, <2>10, <2>11 DEF Regeneration
  <2> QED BY <2>5, <2>6, <2>9, <2>12
<1> QED BY <1>2, <1>3, UpdateIdRows DEF DoUpdateReplace

-----------------------------------------------------------------------------
(* Where requests come from. *)

(* A step that starts nothing keeps the requests known. *)
LEMMA ReqStep ==
  ASSUME ReqsKnown, UNCHANGED srv, NEW t \in Tools,
         \A u \in Tools \ {t} : tool'[u] = tool[u],
         \/ tool'[t].pc \notin {"link", "override", "authFind", "authInsert",
                                "auth", "ver", "rmOld", "insert"}
         \/ /\ tool'[t].req = tool[t].req
            /\ tool[t].pc \in {"link", "override", "authFind", "authInsert"}
            /\ tool'[t].pc \in {"link", "override", "authFind", "authInsert", "ver"}
         \/ /\ tool'[t].req = tool[t].req
            /\ tool[t].pc \in {"auth", "ver", "rmOld"}
            /\ tool'[t].pc \in {"ver", "rmOld", "insert"}
  PROVE  ReqsKnown'
BY DEF ReqsKnown

(* A command starts with a request of its own set. *)
LEMMA StartReqs ==
  ASSUME TypeInv, ReqsKnown, NEW t \in Tools,
         StartAdd(t) \/ StartAddFromFile(t) \/ StartRemove(t)
  PROVE  /\ ReqsKnown'
         /\ \A u \in Tools \ {t} : tool'[u] = tool[u]
         /\ tool'[t].pc \notin {"doeRead", "doeInsert", "doeGuard"}
         /\ UNCHANGED <<rows, alone, sound>>
<1>1. PICK pc, req :
        /\ StartCommand(t, pc, req)
        /\ \/ pc \in {"link", "auth"} /\ req \in AddReqs
           \/ pc = "ver" /\ req \in FileReqs
           \/ pc = "rmFind"
  <2>1. CASE StartAdd(t)
    BY <2>1 DEF StartAdd
  <2>2. CASE StartAddFromFile(t)
    BY <2>2 DEF StartAddFromFile
  <2>3. CASE StartRemove(t)
    BY <2>3 DEF StartRemove
  <2> QED BY <2>1, <2>2, <2>3
<1>2. /\ \A u \in Tools \ {t} : tool'[u] = tool[u]
      /\ tool'[t].pc = pc /\ tool'[t].req = req
      /\ UNCHANGED <<rows, srv, alone, sound>>
  BY <1>1 DEF StartCommand, TypeInv, TypeOK, IdleTool
<1>3. ReqsKnown'
  BY <1>1, <1>2 DEF ReqsKnown
<1> QED BY <1>1, <1>2, <1>3

(* The statements of a command that only read. *)
LEMMA ReadingStep ==
  ASSUME TypeInv, DoeInv, NEW t \in Tools,
         \/ CheckAuth(t) \/ CheckLink(t) \/ CheckOverride(t) \/ FindAuth(t)
         \/ CheckRrsetVersion(t) \/ FindForRemoval(t)
         \/ ToolConflict(t) \/ ToolAbort(t)
  PROVE  DoeInv'
<1>1. UNCHANGED <<rows, srv, alone, sound>>
  BY DEF CheckAuth, CheckLink, CheckOverride, FindAuth, CheckRrsetVersion,
         FindForRemoval, ToolConflict, ToolAbort
<1>2. tool[t] \in ToolState
  BY DEF TypeInv, TypeOK
<1> DEFINE Moved(from, to) == /\ \A u \in Tools \ {t} : tool'[u] = tool[u]
                              /\ \/ tool'[t].pc = "idle"
                                 \/ /\ tool[t].pc = from /\ tool'[t].pc \in to
                                    /\ tool'[t].req = tool[t].req
<1>3. ASSUME Done(t), NEW from, NEW to PROVE Moved(from, to)
  BY <1>3, DoneType DEF TypeInv
<1>4. ASSUME NEW from, NEW to \in SUBSET ToolPcs, NEW pc \in to, Goto(t, pc), tool[t].pc = from
      PROVE  Moved(from, to)
  <2>1. tool'[t] = [tool[t] EXCEPT !.pc = pc] /\ tool'[t].pc = pc
        /\ \A u \in Tools \ {t} : tool'[u] = tool[u]
    BY <1>4, GotoType DEF TypeInv
  <2>2. tool'[t].req = tool[t].req
    BY <1>2, <2>1 DEF ToolState
  <2> QED BY <1>4, <2>1, <2>2
<1>5. CASE CheckAuth(t)
  <2>1. Moved("auth", {"ver"})
    BY <1>3, <1>4, <1>5 DEF CheckAuth, ToolPcs
  <2> QED BY <1>1, <2>1, ReqStep, QuietStep DEF DoeInv
<1>6. CASE CheckLink(t)
  <2>1. Moved("link", {"link", "override"})
    <3>1. CASE Done(t)
      BY <1>3, <3>1
    <3>2. CASE tool' = [tool EXCEPT
                          ![t].pc = IF LastPrefix(t) THEN "override" ELSE "link",
                          ![t].i = IF LastPrefix(t) THEN 1 ELSE @ + 1]
      BY <1>2, <1>6, <3>2 DEF CheckLink, TypeInv, TypeOK, ToolState
    <3> QED BY <1>6, <3>1, <3>2 DEF CheckLink
  <2> QED BY <1>1, <2>1, ReqStep, QuietStep DEF DoeInv
<1>7. CASE CheckOverride(t)
  <2>1. Moved("override", {"authFind"})
    BY <1>3, <1>4, <1>7 DEF CheckOverride, ToolPcs
  <2> QED BY <1>1, <2>1, ReqStep, QuietStep DEF DoeInv
<1>8. CASE FindAuth(t)
  <2>1. Moved("authFind", {"authFind", "authInsert", "ver"})
    <3>1. CASE NextPrefix(t)
      BY <1>2, <1>8, <3>1 DEF FindAuth, NextPrefix, TypeInv, TypeOK, ToolState
    <3>2. CASE Goto(t, "authInsert")
      BY <1>4, <1>8, <3>2 DEF FindAuth, ToolPcs
    <3> QED BY <1>8, <3>1, <3>2 DEF FindAuth
  <2> QED BY <1>1, <2>1, ReqStep, QuietStep DEF DoeInv
<1>9. CASE CheckRrsetVersion(t) \/ FindForRemoval(t)
  <2>1. Moved("ver", {"insert", "rmOld"}) \/ Moved("rmFind", {"rmRow"})
    <3>1. CASE Done(t)
      BY <1>3, <3>1
    <3>2. CASE tool[t].pc = "ver" /\ Goto(t, "insert")
      BY <1>4, <3>2 DEF ToolPcs
    <3>3. CASE \E r : \/ /\ tool[t].pc = "ver"
                         /\ tool' = [tool EXCEPT ![t].pc = "rmOld", ![t].old = r]
                      \/ /\ tool[t].pc = "rmFind"
                         /\ tool' = [tool EXCEPT ![t].pc = "rmRow", ![t].old = r]
      BY <1>2, <3>3 DEF TypeInv, TypeOK, ToolState
    <3> QED BY <1>9, <3>1, <3>2, <3>3 DEF CheckRrsetVersion, FindForRemoval
  <2> QED BY <1>1, <2>1, ReqStep, QuietStep DEF DoeInv
<1>10. CASE ToolConflict(t) \/ ToolAbort(t)
  <2>1. Moved("idle", {})
    BY <1>3, <1>10 DEF ToolConflict, ToolAbort
  <2> QED BY <1>1, <2>1, ReqStep, QuietStep DEF DoeInv
<1> QED BY <1>5, <1>6, <1>7, <1>8, <1>9, <1>10

(* The statements of a command that store or delete a record. *)
LEMMA WritingStep ==
  ASSUME TypeInv, DoeInv, NEW t \in Tools,
         InsertAuth(t) \/ RemoveOld(t) \/ InsertRrset(t) \/ RemoveRow(t)
  PROVE  DoeInv'
<1>1. tool[t] \in ToolState /\ UNCHANGED srv /\ Disturb({t})
  BY DEF InsertAuth, RemoveOld, InsertRrset, RemoveRow, TypeInv, TypeOK
<1>2. CASE InsertAuth(t)
  <2>1. /\ \A u \in Tools \ {t} : tool'[u] = tool[u]
        /\ tool'[t].req = tool[t].req /\ tool'[t].pc \in {"authFind", "ver"}
    BY <1>1, <1>2 DEF InsertAuth, NextPrefix, TypeInv, TypeOK, ToolState
  <2>2. tool[t].pc = "authInsert"
    BY <1>2 DEF InsertAuth
  <2>3. ReqsKnown'
    BY <1>1, <2>1, <2>2, ReqStep DEF DoeInv
  <2>4. tool[t].req \in AddReqs /\ tool[t].i \in 1 .. Len(tool[t].req.label) - 1
    BY <2>2 DEF DoeInv, ReqsKnown, TypeInv, LoopIndex
  <2>5. KnownKey(Prefix(t), NS)
    BY <2>4 DEF KnownKey, Prefix
  <2>6. PICK v \in AuthVersions : Insert(Prefix(t), NS, v, "AUTH", <<>>, <<>>)
    BY <1>2 DEF InsertAuth
  <2>7. IdsUnique' /\ KeysKnown'
    BY <2>5, <2>6, InsertKnown DEF TypeInv, DoeInv
  <2> QED BY <1>1, <2>1, <2>3, <2>7, WriteStep DEF DoeInv
<1>3. CASE InsertRrset(t)
  <2>1. /\ \A u \in Tools \ {t} : tool'[u] = tool[u]
        /\ tool'[t].pc = "doeClear"
    BY <1>3, GotoType DEF InsertRrset, TypeInv, ToolPcs
  <2>2. ReqsKnown'
    BY <1>1, <2>1, ReqStep DEF DoeInv
  <2>3. tool[t].req \in AddReqs \cup FileReqs
    BY <1>3 DEF InsertRrset, DoeInv, ReqsKnown
  <2>4. KnownKey(tool[t].req.label, tool[t].req.type)
    BY <2>3 DEF KnownKey
  <2>5. IdsUnique' /\ KeysKnown'
    BY <1>3, <2>4, InsertKnown DEF InsertRrset, TypeInv, DoeInv
  <2> QED BY <1>1, <2>1, <2>2, <2>5, WriteStep DEF DoeInv
<1>4. CASE RemoveOld(t) \/ RemoveRow(t)
  <2>1. PICK pc \in {"insert", "doeClear"} :
          Goto(t, pc) /\ (pc = "insert" => tool[t].pc = "rmOld")
    BY <1>4 DEF RemoveOld, RemoveRow
  <2>2. /\ \A u \in Tools \ {t} : tool'[u] = tool[u]
        /\ tool'[t] = [tool[t] EXCEPT !.pc = pc]
        /\ tool'[t].pc = pc
    BY <2>1, GotoType DEF TypeInv, ToolPcs
  <2>3. tool'[t].req = tool[t].req
    BY <1>1, <2>2 DEF ToolState
  <2>4. ReqsKnown'
    BY <1>1, <2>1, <2>2, <2>3, ReqStep DEF DoeInv
  <2>5. IdsUnique' /\ KeysKnown'
    BY <1>4, RemoveKeeps DEF RemoveOld, RemoveRow, DoeInv
  <2> QED BY <1>1, <2>2, <2>4, <2>5, WriteStep DEF DoeInv
<1> QED BY <1>2, <1>3, <1>4

(* The statements of generateDoe. *)
LEMMA GenerateStep ==
  ASSUME OrdersAgree, TypeInv, DoeInv, NEW t \in Tools,
         DoeClear(t) \/ DoeRead(t) \/ DoeInsert(t) \/ DoeGuard(t)
  PROVE  DoeInv'
<1>1. IdsUnique' /\ KeysKnown' /\ Regeneration' /\ DoeSound'
  BY ClearStep, ReadStep, InsertRangeStep, GuardStep
<1>2. tool[t] \in ToolState /\ UNCHANGED srv
  BY DEF DoeClear, DoeRead, DoeInsert, DoeGuard, TypeInv, TypeOK
<1>3. /\ \A u \in Tools \ {t} : tool'[u] = tool[u]
      /\ tool'[t].pc \in {"idle", "doeRead", "doeInsert", "doeGuard"}
  <2>1. CASE DoeClear(t)
    BY <2>1, GotoType DEF DoeClear, TypeInv, ToolPcs
  <2>2. CASE DoeRead(t)
    <3>1. CASE Done(t)
      BY <3>1, DoneType DEF TypeInv
    <3>2. CASE \E recs : tool' = [tool EXCEPT ![t].pc = "doeInsert",
                                             ![t].recs = recs, ![t].left = recs]
      BY <1>2, <3>2 DEF TypeInv, TypeOK, ToolState
    <3> QED BY <2>2, <3>1, <3>2 DEF DoeRead
  <2>3. CASE DoeInsert(t)
    <3>1. PICK r : tool' = [tool EXCEPT ![t].left = tool[t].left \ {r},
                             ![t].pc = IF tool[t].left = {r} THEN "doeGuard" ELSE @]
      BY <2>3 DEF DoeInsert
    <3> QED BY <1>2, <2>3, <3>1 DEF DoeInsert, TypeInv, TypeOK, ToolState
  <2>4. CASE DoeGuard(t)
    BY <2>4, DoneType DEF DoeGuard, TypeInv
  <2> QED BY <2>1, <2>2, <2>3, <2>4
<1>4. ReqsKnown'
  BY <1>2, <1>3, ReqStep DEF DoeInv
<1> QED BY <1>1, <1>4 DEF DoeInv

(* The name server. *)
LEMMA ServerDoeStep ==
  ASSUME TypeInv, DoeInv, ServerNext
  PROVE  DoeInv'
<1>1. UNCHANGED tool
  BY DEF ServerNext, ServerStep, HandleQuery, HandleUpdate, RejectUpdate, DoUpdate,
         DenyQuery, DoUpdateReplace, DoUpdateInsert, ServerKill, ServerRestart
<1>2. ASSUME UNCHANGED <<rows, alone, sound>>
      PROVE  IdsUnique' /\ KeysKnown' /\ Regeneration' /\ DoeSound'
  <2>1. CASE Tools = {}
    BY <1>1, <1>2, <2>1 DEF DoeInv, IdsUnique, KeysKnown, Regeneration, DoeSound,
          UniqueRecord, Records, TypeInv, TypeOK
  <2>2. CASE Tools # {}
    BY <1>1, <1>2, <2>2, QuietStep
  <2> QED BY <2>1, <2>2
<1>3. ASSUME srv' = srv \/ srv'.pc \notin {"update", "insert"} \/ srv'.req \in UpdReqs
      PROVE  ReqsKnown'
  BY <1>1, <1>3 DEF DoeInv, ReqsKnown
<1>4. CASE HandleQuery \/ DenyQuery \/ HandleUpdate \/ RejectUpdate \/ ServerKill \/ ServerRestart
  <2>1. UNCHANGED <<rows, alone, sound>>
    BY <1>4 DEF HandleQuery, DenyQuery, HandleUpdate, RejectUpdate, ServerKill, ServerRestart
  <2>2. srv' = srv \/ srv'.pc \notin {"update", "insert"}
    <3>1. CASE HandleQuery
      <4>1. srv' = srv \/ \E q : srv' = [IdleServer EXCEPT !.pc = "doe", !.req = AsReq(q)]
        BY <3>1 DEF HandleQuery
      <4> QED BY <4>1 DEF IdleServer
    <3>2. CASE DenyQuery
      <4>1. srv' = IdleServer \/ srv' = [IdleServer EXCEPT !.pc = "down"]
        BY <3>2 DEF DenyQuery
      <4> QED BY <4>1 DEF IdleServer
    <3>3. CASE HandleUpdate \/ RejectUpdate
      BY <3>3 DEF HandleUpdate, RejectUpdate
    <3>4. CASE ServerKill \/ ServerRestart
      BY <3>4 DEF ServerKill, ServerRestart, IdleServer
    <3> QED BY <1>4, <3>1, <3>2, <3>3, <3>4
  <2> QED BY <1>2, <1>3, <2>1, <2>2 DEF DoeInv
<1>5. CASE DoUpdate
  <2>1. UNCHANGED <<rows, alone, sound>>
    BY <1>5 DEF DoUpdate
  <2>2. srv' = srv \/ srv'.req \in UpdReqs
    <3>1. PICK u \in pending :
            \/ srv' = srv
            \/ srv' = [IdleServer EXCEPT !.pc = "insert", !.req = u]
            \/ \E r : srv' = [pc |-> "update", req |-> u, old |-> r]
      BY <1>5 DEF DoUpdate
    <3>2. u \in UpdReqs
      BY DEF TypeInv, TypeOK
    <3>3. [IdleServer EXCEPT !.pc = "insert", !.req = u].req = u
      BY DEF IdleServer
    <3>4. \A r : [pc |-> "update", req |-> u, old |-> r].req = u
      OBVIOUS
    <3> QED BY <3>1, <3>2, <3>3, <3>4
  <2> QED BY <1>2, <1>3, <2>1, <2>2 DEF DoeInv
<1>6. CASE DoUpdateReplace
  <2>1. srv'.pc = "idle"
    BY <1>6 DEF DoUpdateReplace, IdleServer
  <2> QED BY <1>3, <1>6, <2>1, ReplaceStep DEF DoeInv
<1>7. CASE DoUpdateInsert
  <2>1. ReqsKnown'
    BY <1>3, <1>7 DEF DoUpdateInsert, IdleServer
  <2>2. CASE UNCHANGED <<rows, sound, alone>>
    BY <1>2, <2>1, <2>2 DEF DoeInv
  <2>3. CASE /\ Insert(srv.req.label, srv.req.type, srv.req.ver, srv.req.ct, <<>>, <<>>)
             /\ Disturb({})
    <3>1. srv.req \in UpdReqs
      BY <1>7 DEF DoUpdateInsert, DoeInv, ReqsKnown
    <3>2. KnownKey(srv.req.label, srv.req.type)
      BY <3>1 DEF KnownKey
    <3>3. IdsUnique' /\ KeysKnown'
      BY <2>3, <3>2, InsertKnown DEF TypeInv, DoeInv
    <3> QED BY <2>1, <2>3, <3>3, WriteStep DEF DoeInv
  <2> QED BY <1>7, <2>2, <2>3 DEF DoUpdateInsert
<1> QED BY <1>4, <1>5, <1>6, <1>7 DEF ServerNext, ServerStep

(* The invariant holds initially: no chain, no generateDoe at work. *)
LEMMA DoeInit ==
  ASSUME Init
  PROVE  DoeInv
<1>1. \A t \in Tools : tool[t].pc \in {"idle", "doeClear"}
  BY DEF Init, IdleTool
<1>2. IdsUnique
  BY DEF Init, IdsUnique, CertRow
<1>3. KeysKnown
  BY DEF Init, KeysKnown, Records, CertRow, KnownKey
<1>4. ReqsKnown
  BY <1>1 DEF Init, ReqsKnown, IdleServer
<1>5. Regeneration /\ DoeSound
  BY DEF Init, Regeneration, DoeSound
<1> QED BY <1>2, <1>3, <1>4, <1>5 DEF DoeInv

(* Every step keeps the invariant. *)
LEMMA DoeStep ==
  ASSUME OrdersAgree, TypeInv, DoeInv, [Next]_vars
  PROVE  DoeInv'
<1>1. CASE ServerNext
  BY <1>1, ServerDoeStep
<1>2. ASSUME NEW t \in Tools, ToolNext(t) PROVE DoeInv'
  <2>1. CASE StartAdd(t) \/ StartAddFromFile(t) \/ StartRemove(t)
    BY <2>1, StartReqs, QuietStep DEF DoeInv
  <2> QED BY <1>2, <2>1, ReadingStep, WritingStep, GenerateStep DEF ToolNext, ToolStep
<1>3. CASE UNCHANGED vars
  BY <1>3 DEF vars, DoeInv, IdsUnique, KeysKnown, ReqsKnown, Regeneration, DoeSound,
              UniqueRecord, Records, LoopInv, RecsMatch, DoeFree
<1> QED BY <1>1, <1>2, <1>3 DEF Next

(***************************************************************************)
(* DoeSound holds in every behaviour: with any number of tools, requests   *)
(* of any kind, overlapping, killed or refused by a locked file.  What it  *)
(* takes is that the labels of the zone sort like the names label/type.    *)
(***************************************************************************)
THEOREM DenialSound ==
  ASSUME OrdersAgree
  PROVE  Spec => []DoeSound
<1>1. Init => TypeInv /\ DoeInv
  <2> SUFFICES ASSUME Init PROVE TypeInv /\ DoeInv
    OBVIOUS
  <2>1. \A t \in Tools : tool[t].pc \in {"idle", "doeClear"}
    BY DEF Init, IdleTool
  <2> QED BY <2>1, InitType, DoeInit DEF TypeInv, LoopIndex, OverrideIndex
<1>2. TypeInv /\ DoeInv /\ [Next]_vars => TypeInv' /\ DoeInv'
  <2> SUFFICES ASSUME TypeInv, DoeInv, [Next]_vars PROVE TypeInv' /\ DoeInv'
    OBVIOUS
  <2>1. TypeInv'
    BY TypeStep
  <2> QED BY <2>1, DoeStep
<1>3. DoeInv => DoeSound
  BY DEF DoeInv
<1> QED BY <1>1, <1>2, <1>3, PTL DEF Spec

(* One way to have it: no label is a proper prefix of another with a type   *)
(* ranking above the component that follows.                                *)
THEOREM PrefixesDecide ==
  ASSUME \A j, k \in Key :
           KnownKey(j.label, j.type) /\ KnownKey(k.label, k.type)
             /\ IsProperPrefix(j.label, k.label)
           => j.type < k.label[Len(j.label) + 1]
  PROVE  OrdersAgree
<1> SUFFICES ASSUME NEW j \in Key, NEW k \in Key,
                    KnownKey(j.label, j.type), KnownKey(k.label, k.type),
                    NameLess(j.label, k.label)
             PROVE  NameLess(KeyName(j), KeyName(k))
  BY DEF OrdersAgree
<1> QED BY LabelOrderIsKeyOrder DEF Key

-----------------------------------------------------------------------------
(* The chain is complete: a second invariant on top of DoeInv. *)

(* The table is finite, and no row has the id of NoRow. *)
TableInv == IsFiniteSet(rows) /\ \A r \in rows : r.id > 0

(* Every range runs between records and stands under the name of the first, *)
(* but for the guard, which closes the cycle; every record has a range, and *)
(* the guard is there.                                                      *)
Chain ==
  /\ \A d \in rows : d.type = DOE =>
       /\ d.label = d.lo \/ (d.label = <<>> /\ (UniqueRecord => ~NameLess(d.lo, d.hi)))
       /\ \E r, s \in Records : d.lo = KeyName(r) /\ d.hi = KeyName(s)
  /\ \A r \in Records : \E d \in rows : d.type = DOE /\ d.label = KeyName(r)
  /\ \E d \in rows : d.type = DOE /\ d.label = <<>>

(* What an undisturbed generateDoe has written of it so far. *)
Written(t) ==
  /\ \A d \in rows : d.type = DOE =>
       /\ d.label = d.lo
       /\ \E r, s \in tool[t].recs : d.lo = KeyName(r) /\ d.hi = KeyName(s)
  /\ \A x \in tool[t].recs \ tool[t].left :
       \E d \in rows : d.type = DOE /\ d.label = KeyName(x)
  /\ tool[t].pc = "doeGuard" => tool[t].left = {}

ChainInv ==
  /\ sound => Chain
  /\ \A t \in alone : tool[t].pc \in {"doeInsert", "doeGuard"} => Written(t)

(* What a step can do to the table. *)
LEMMA RowsChange ==
  ASSUME [Next]_vars
  PROVE  \/ \A r \in rows' : r \in rows
         \/ \E label, type, ver, ct, lo, hi : Insert(label, type, ver, ct, lo, hi)
         \/ \E id, ver, ct : rows' = {Updated(r, id, ver, ct) : r \in rows}
<1>1. CASE UNCHANGED rows
  BY <1>1
<1>2. CASE ServerNext
  <2>1. CASE DoUpdateReplace
    BY <1>1, <2>1, UpdateIdRows DEF DoUpdateReplace
  <2>2. CASE DoUpdateInsert
    BY <1>1, <2>2 DEF DoUpdateInsert
  <2> QED BY <1>1, <1>2, <2>1, <2>2 DEF ServerNext, ServerStep, HandleQuery, HandleUpdate,
        RejectUpdate, DoUpdate, DenyQuery, ServerKill, ServerRestart
<1>3. ASSUME NEW t \in Tools, ToolNext(t)
      PROVE  \/ UNCHANGED rows \/ \A r \in rows' : r \in rows
             \/ \E label, type, ver, ct, lo, hi : Insert(label, type, ver, ct, lo, hi)
  <2>1. CASE InsertAuth(t) \/ InsertRrset(t) \/ DoeInsert(t) \/ DoeGuard(t)
    BY <2>1 DEF InsertAuth, InsertRrset, DoeInsert, DoeGuard
  <2>2. CASE RemoveOld(t) \/ RemoveRow(t) \/ DoeClear(t)
    BY <2>2 DEF RemoveOld, RemoveRow, DoeClear, RemoveId, Records
  <2>3. CASE StartAdd(t) \/ StartAddFromFile(t) \/ StartRemove(t)
    BY <2>3 DEF StartAdd, StartAddFromFile, StartRemove, StartCommand
  <2> QED BY <1>3, <2>1, <2>2, <2>3 DEF ToolNext, ToolStep, CheckAuth, CheckLink,
        CheckOverride, FindAuth, CheckRrsetVersion, FindForRemoval, DoeRead,
        ToolConflict, ToolAbort
<1> QED BY <1>1, <1>2, <1>3 DEF Next, vars

(* createZone stores two rows. *)
LEMMA TableInit ==
  ASSUME Init
  PROVE  TableInv
<1>1. rows = {CertRow(1), CertRow(2)}
  BY DEF Init
<1>2. IsFiniteSet({CertRow(1)})
  BY FS_Singleton
<1>3. {CertRow(1), CertRow(2)} = {CertRow(1)} \cup {CertRow(2)}
  OBVIOUS
<1>4. IsFiniteSet({CertRow(1), CertRow(2)})
  BY <1>2, <1>3, FS_AddElement
<1>5. \A r \in rows : r.id > 0
  BY <1>1 DEF CertRow
<1> QED BY <1>1, <1>4, <1>5 DEF TableInv

(* The table stays finite. *)
LEMMA TableStep ==
  ASSUME TypeOK, TableInv, [Next]_vars
  PROVE  TableInv'
<1>1. CASE \A r \in rows' : r \in rows
  <2>1. rows' \in SUBSET rows
    BY <1>1
  <2>2. IsFiniteSet(rows')
    BY <2>1, FS_Subset DEF TableInv
  <2> QED BY <1>1, <2>2 DEF TableInv
<1>2. ASSUME NEW label, NEW type, NEW ver, NEW ct, NEW lo, NEW hi,
             Insert(label, type, ver, ct, lo, hi)
      PROVE  TableInv'
  <2>1. PICK m \in {r.id : r \in rows} \cup {0} :
          rows' = rows \cup {[id |-> m + 1, label |-> label, type |-> type,
                              ver |-> ver, ct |-> ct, lo |-> lo, hi |-> hi]}
    BY <1>2 DEF Insert
  <2>2. PICK n : n = [id |-> m + 1, label |-> label, type |-> type,
                      ver |-> ver, ct |-> ct, lo |-> lo, hi |-> hi]
    OBVIOUS
  <2>3. m \in Nat /\ n.id = m + 1
    BY <2>2 DEF TypeOK, Row
  <2>4. rows' = rows \cup {n} /\ n.id > 0
    BY <2>1, <2>2, <2>3
  <2>5. IsFiniteSet(rows')
    BY <2>4, FS_AddElement DEF TableInv
  <2> QED BY <2>4, <2>5 DEF TableInv
<1>3. ASSUME NEW id, NEW ver, NEW ct, rows' = {Updated(r, id, ver, ct) : r \in rows}
      PROVE  TableInv'
  <2> DEFINE Up(r) == Updated(r, id, ver, ct)
  <2>1. \A r \in rows : Up(r).id = r.id
    BY DEF Updated, TypeOK, Row
  <2>2. IsFiniteSet({Up(r) : r \in rows})
    <3> HIDE DEF Up
    <3> DEFINE f == [r \in rows |-> Up(r)]
               T == {Up(r) : r \in rows}
    <3>1. f \in Surjection(rows, T)
      BY DEF Surjection
    <3> HIDE DEF f, T
    <3>2. IsFiniteSet(T)
      BY <3>1, FS_Surjection DEF TableInv
    <3> QED BY <3>2 DEF T
  <2>3. \A x \in rows' : x.id > 0
    BY <1>3, <2>1 DEF TableInv
  <2> QED BY <1>3, <2>2, <2>3 DEF TableInv
<1> QED BY <1>1, <1>2, <1>3, RowsChange

(* The SELECT of the row below a name finds one if there is one. *)
LEMMA LowerBoundFound ==
  ASSUME TypeOK, TableInv, NEW name, NEW g \in rows, g.type = DOE, NameLess(g.label, name)
  PROVE  FindLowerBound(name) \ {NoRow} # {}
<1> DEFINE below == {d \in rows : d.type = DOE /\ NameLess(d.label, name)}
<1>1. IsFiniteSet(below) /\ below # {}
  BY FS_Subset DEF TableInv
<1>2. \A d \in below : d.label \in Name
  BY DEF TypeOK, Row
<1>3. PICK d \in below : \A e \in below : ~NameLess(d.label, e.label)
  <2> HIDE DEF below
  <2> QED BY <1>1, <1>2, TopLabel
<1>4. d \in FindLowerBound(name)
  BY <1>3 DEF FindLowerBound
<1>5. d # NoRow
  BY <1>3 DEF TableInv, NoRow
<1> QED BY <1>4, <1>5

(* What it finds is the greatest. *)
LEMMA LowerBoundGreatest ==
  ASSUME NEW name, NEW d \in FindLowerBound(name) \ {NoRow}
  PROVE  /\ d \in rows /\ d.type = DOE /\ NameLess(d.label, name)
         /\ \A e \in rows : e.type = DOE /\ NameLess(e.label, name) => ~NameLess(d.label, e.label)
BY DEF FindLowerBound

(* A step that leaves the table and the history alone, outside the loop. *)
LEMMA QuietChain ==
  ASSUME TypeInv, ChainInv, UNCHANGED <<rows, alone, sound>>,
         \A u \in Tools : tool'[u] = tool[u] \/ tool'[u].pc \notin {"doeInsert", "doeGuard"}
  PROVE  ChainInv'
<1>1. Records' = Records /\ (UniqueRecord' <=> UniqueRecord)
  BY DEF Records, UniqueRecord
<1>2. (sound => Chain)'
  BY <1>1 DEF ChainInv, Chain
<1>3. ASSUME NEW u \in alone', tool'[u].pc \in {"doeInsert", "doeGuard"} PROVE Written(u)'
  <2>1. u \in alone /\ tool'[u] = tool[u]
    BY <1>3 DEF TypeInv, TypeOK
  <2>2. Written(u)
    BY <1>3, <2>1 DEF ChainInv
  <2> QED BY <2>1, <2>2 DEF Written
<1> QED BY <1>2, <1>3 DEF ChainInv

(* A step that spoils every generateDoe but one that is not in the loop. *)
LEMMA SpoilChain ==
  ASSUME sound' = FALSE, \A t \in alone' : tool'[t].pc \notin {"doeInsert", "doeGuard"}
  PROVE  ChainInv'
BY DEF ChainInv

(* The SELECT of generateDoe: nothing is written yet. *)
LEMMA ReadChain ==
  ASSUME TypeInv, DoeInv, ChainInv, NEW t \in Tools, DoeRead(t)
  PROVE  ChainInv'
<1>1. UNCHANGED <<rows, alone, sound>> /\ tool[t].pc = "doeRead" /\ tool[t] \in ToolState
  BY DEF DoeRead, TypeInv, TypeOK
<1>2. CASE Done(t)
  BY <1>1, <1>2, DoneType, QuietChain DEF TypeInv
<1>3. CASE tool' = [tool EXCEPT ![t].pc = "doeInsert", ![t].recs = rows, ![t].left = rows]
  <2>1. \A u \in Tools \ {t} : tool'[u] = tool[u]
    BY <1>3 DEF TypeInv, TypeOK
  <2>2. tool'[t].pc = "doeInsert" /\ tool'[t].recs = rows /\ tool'[t].left = rows
    BY <1>1, <1>3 DEF TypeInv, TypeOK, ToolState
  <2>3. (sound => Chain)'
    BY <1>1 DEF ChainInv, Chain, UniqueRecord, Records
  <2>4. ASSUME t \in alone PROVE Written(t)'
    <3>1. \A d \in rows' : d.type # DOE
      BY <1>1, <2>4 DEF DoeInv, Regeneration
    <3> QED BY <2>2, <3>1 DEF Written
  <2>5. ASSUME NEW u \in alone', u # t, tool'[u].pc \in {"doeInsert", "doeGuard"}
        PROVE  Written(u)'
    <3>1. u \in alone /\ tool'[u] = tool[u]
      BY <1>1, <2>1, <2>5 DEF TypeInv, TypeOK
    <3>2. Written(u)
      BY <2>5, <3>1 DEF ChainInv
    <3> QED BY <1>1, <3>1, <3>2 DEF Written
  <2> QED BY <1>1, <2>3, <2>4, <2>5 DEF ChainInv
<1> QED BY <1>2, <1>3 DEF DoeRead

(* The loop writes the range of the next record. *)
LEMMA InsertChain ==
  ASSUME TypeInv, DoeInv, ChainInv, NEW t \in Tools, DoeInsert(t)
  PROVE  ChainInv'
<1> DEFINE left == tool[t].left
           recs == tool[t].recs
<1>1. PICK r \in left, s \in recs :
        /\ Insert(KeyName(r), DOE, 0, "DOE", KeyName(r), KeyName(s))
        /\ tool' = [tool EXCEPT ![t].left = left \ {r},
                                ![t].pc = IF left = {r} THEN "doeGuard" ELSE @]
  BY DEF DoeInsert
<1>2. PICK n : rows' = rows \cup {n} /\ n.type = DOE /\ n.label = KeyName(r)
               /\ n.lo = KeyName(r) /\ n.hi = KeyName(s)
  BY <1>1, InsertAdds DEF TypeInv, DoeInv
<1>3. sound' = FALSE /\ alone' = alone \cap {t}
  BY DEF DoeInsert, Disturb
<1>4. /\ tool'[t].recs = recs /\ tool'[t].left = left \ {r}
      /\ tool'[t].pc = "doeGuard" => left = {r}
      /\ tool[t].pc = "doeInsert"
  BY <1>1 DEF DoeInsert, TypeInv, TypeOK, ToolState
<1>5. ASSUME t \in alone PROVE Written(t)'
  <2>1. Written(t) /\ r \in recs
    BY <1>1, <1>4, <1>5 DEF ChainInv, DoeInv, Regeneration, LoopInv
  <2>2. \A d \in rows' : d.type = DOE =>
          /\ d.label = d.lo
          /\ \E x, y \in recs : d.lo = KeyName(x) /\ d.hi = KeyName(y)
    BY <1>2, <2>1 DEF Written
  <2>3. \A x \in recs \ (left \ {r}) : \E d \in rows' : d.type = DOE /\ d.label = KeyName(x)
    <3> TAKE x \in recs \ (left \ {r})
    <3>1. CASE x = r
      BY <1>2, <3>1
    <3>2. CASE x \in recs \ left
      BY <1>2, <2>1, <3>2 DEF Written
    <3> QED BY <3>1, <3>2
  <2> QED BY <1>4, <2>2, <2>3 DEF Written
<1> QED BY <1>3, <1>5 DEF ChainInv

(* The guard completes the chain. *)
LEMMA GuardChain ==
  ASSUME OrdersAgree, TypeInv, DoeInv, ChainInv, NEW t \in Tools, DoeGuard(t)
  PROVE  ChainInv'
<1> DEFINE recs == tool[t].recs
<1>1. PICK r \in recs, s \in recs :
        /\ IsLast(r, recs) /\ IsFirst(s, recs)
        /\ Insert(<<>>, DOE, 0, "DOE", KeyName(r), KeyName(s))
  BY DEF DoeGuard
<1>2. PICK n : rows' = rows \cup {n} /\ n.type = DOE /\ n.label = <<>>
               /\ n.lo = KeyName(r) /\ n.hi = KeyName(s)
  BY <1>1, InsertAdds DEF TypeInv, DoeInv
<1>3. Records' = Records
  BY <1>2 DEF Records
<1>4. alone' = {} /\ (sound' => t \in alone) /\ tool[t].pc = "doeGuard"
  BY DEF DoeGuard
<1>5. ASSUME t \in alone PROVE Chain'
  <2>1. LoopInv(t) /\ Written(t) /\ tool[t].left = {}
    BY <1>4, <1>5 DEF ChainInv, DoeInv, Regeneration, Written
  <2>2. \A x \in recs : \E y \in Records' : KeyName(x) = KeyName(y)
    BY <1>3, <2>1 DEF LoopInv, RecsMatch, SameKey, KeyName
  <2>3. \A y \in Records' : \E x \in recs : KeyName(x) = KeyName(y)
    BY <1>3, <2>1 DEF LoopInv, RecsMatch, SameKey, KeyName
  <2>4. UniqueRecord' => ~NameLess(KeyName(r), KeyName(s))
    <3> SUFFICES ASSUME UniqueRecord PROVE ~NameLess(KeyName(r), KeyName(s))
      BY <1>3 DEF UniqueRecord
    <3>1. KeyName(r) \in Name /\ KeyName(s) \in Name
      BY <1>1, RecKeyName
    <3>2. CASE r = s
      BY <3>1, <3>2, NameLessIrreflexive
    <3>3. CASE r # s
      <4>1. RrsetLess(s, r)
        BY <1>1, <3>3 DEF IsFirst
      <4>2. NameLess(KeyName(s), KeyName(r))
        BY <1>1, <2>1, <3>3, <4>1, RecsOrdered DEF DoeInv, LoopInv
      <4> QED BY <3>1, <4>2, NameLessAsymmetric
    <3> QED BY <3>2, <3>3
  <2>5. ASSUME NEW d \in rows', d.type = DOE
        PROVE  /\ d.label = d.lo \/ (d.label = <<>> /\ (UniqueRecord' => ~NameLess(d.lo, d.hi)))
               /\ \E x, y \in Records' : d.lo = KeyName(x) /\ d.hi = KeyName(y)
    <3>1. CASE d \in rows
      <4>1. d.label = d.lo /\ \E x, y \in recs : d.lo = KeyName(x) /\ d.hi = KeyName(y)
        BY <2>1, <2>5, <3>1 DEF Written
      <4> QED BY <2>2, <4>1
    <3>2. CASE d = n
      BY <1>1, <1>2, <2>2, <2>4, <3>2
    <3> QED BY <1>2, <2>5, <3>1, <3>2
  <2>6. \A y \in Records' : \E d \in rows' : d.type = DOE /\ d.label = KeyName(y)
    <3> TAKE y \in Records'
    <3>1. PICK x \in recs : KeyName(x) = KeyName(y)
      BY <2>3
    <3>2. PICK d \in rows : d.type = DOE /\ d.label = KeyName(x)
      BY <2>1 DEF Written
    <3> QED BY <1>2, <3>1, <3>2
  <2>7. \E d \in rows' : d.type = DOE /\ d.label = <<>>
    BY <1>2
  <2> QED BY <2>5, <2>6, <2>7 DEF Chain
<1> QED BY <1>4, <1>5 DEF ChainInv

(* An update in place keeps labels, types and ranges. *)
LEMMA ReplaceChain ==
  ASSUME TypeInv, DoeInv, ChainInv, DoUpdateReplace
  PROVE  ChainInv'
<1>1. UNCHANGED <<tool, alone, sound>> /\ srv.req \in Req
  BY DEF DoUpdateReplace, TypeInv, TypeOK, ServerState
<1>2. CASE UNCHANGED rows
  BY <1>1, <1>2, QuietChain
<1>3. CASE rows' = {Updated(r, srv.old.id, srv.req.ver, srv.req.ct) : r \in rows}
  <2> DEFINE Up(r) == Updated(r, srv.old.id, srv.req.ver, srv.req.ct)
  <2>1. ASSUME NEW r \in rows
        PROVE  /\ Up(r) \in rows' /\ Up(r).id = r.id
               /\ Up(r).label = r.label /\ Up(r).type = r.type
               /\ Up(r).lo = r.lo /\ Up(r).hi = r.hi
    BY <1>1, <1>3, UpdatedType DEF TypeInv, TypeOK, Req, SameKey
  <2>2. \A x \in rows' : \E r \in rows : x = Up(r)
    BY <1>3
  <2> HIDE DEF Up
  <2>3. \A x \in rows' : \E r \in rows : x.label = r.label /\ x.type = r.type
                                        /\ x.lo = r.lo /\ x.hi = r.hi
    BY <2>1, <2>2
  <2>4. \A r \in rows : \E x \in rows' : x.label = r.label /\ x.type = r.type
                                        /\ x.lo = r.lo /\ x.hi = r.hi
    BY <2>1
  <2>5. \A r \in Records : \E x \in Records' : KeyName(x) = KeyName(r)
    BY <2>4 DEF Records, KeyName
  <2>6. \A x \in Records' : \E r \in Records : KeyName(x) = KeyName(r)
    BY <2>3 DEF Records, KeyName
  <2>7. ASSUME UniqueRecord' PROVE UniqueRecord
    <3> SUFFICES ASSUME NEW a \in Records, NEW b \in Records, SameKey(a, b)
                 PROVE  a = b
      BY DEF UniqueRecord
    <3>1. a \in rows /\ b \in rows /\ a.type # DOE /\ b.type # DOE
      BY DEF Records
    <3>2. SameKey(Up(a), Up(b)) /\ Up(a) \in Records' /\ Up(b) \in Records'
      BY <2>1, <3>1 DEF SameKey, Records
    <3>3. Up(a) = Up(b)
      BY <2>7, <3>2 DEF UniqueRecord
    <3> QED BY <2>1, <3>1, <3>3 DEF DoeInv, IdsUnique
  <2>8. ASSUME Chain PROVE Chain'
    <3>1. ASSUME NEW x \in rows', x.type = DOE
          PROVE  /\ x.label = x.lo \/ (x.label = <<>> /\ (UniqueRecord' => ~NameLess(x.lo, x.hi)))
                 /\ \E y, z \in Records' : x.lo = KeyName(y) /\ x.hi = KeyName(z)
      <4>1. PICK d \in rows : x.label = d.label /\ x.type = d.type /\ x.lo = d.lo /\ x.hi = d.hi
        BY <2>3
      <4>2. /\ d.label = d.lo \/ (d.label = <<>> /\ (UniqueRecord => ~NameLess(d.lo, d.hi)))
            /\ \E y, z \in Records : d.lo = KeyName(y) /\ d.hi = KeyName(z)
        BY <2>8, <3>1, <4>1 DEF Chain
      <4> QED BY <2>5, <2>7, <4>1, <4>2
    <3>2. \A y \in Records' : \E x \in rows' : x.type = DOE /\ x.label = KeyName(y)
      <4> TAKE y \in Records'
      <4>1. PICK r \in Records : KeyName(y) = KeyName(r)
        BY <2>6
      <4>2. PICK d \in rows : d.type = DOE /\ d.label = KeyName(r)
        BY <2>8 DEF Chain
      <4> QED BY <2>4, <4>1, <4>2
    <3>3. \E x \in rows' : x.type = DOE /\ x.label = <<>>
      BY <2>4, <2>8 DEF Chain
    <3> QED BY <3>1, <3>2, <3>3 DEF Chain
  <2>9. ASSUME NEW t \in alone, tool[t].pc \in {"doeInsert", "doeGuard"} PROVE Written(t)'
    <3>1. Written(t)
      BY <2>9 DEF ChainInv
    <3>2. \A x \in rows' : x.type = DOE =>
            /\ x.label = x.lo
            /\ \E r, s \in tool[t].recs : x.lo = KeyName(r) /\ x.hi = KeyName(s)
      BY <2>3, <3>1 DEF Written
    <3>3. \A y \in tool[t].recs \ tool[t].left :
            \E x \in rows' : x.type = DOE /\ x.label = KeyName(y)
      BY <2>4, <3>1 DEF Written
    <3> QED BY <1>1, <3>1, <3>2, <3>3 DEF Written
  <2> QED BY <1>1, <2>8, <2>9 DEF ChainInv
<1> QED BY <1>2, <1>3, UpdateIdRows DEF DoUpdateReplace

(* Only generateDoe enters its loop. *)
LEMMA OutsideGenerate ==
  ASSUME TypeInv, NEW t \in Tools,
         \/ StartAdd(t) \/ StartAddFromFile(t) \/ StartRemove(t)
         \/ CheckAuth(t) \/ CheckLink(t) \/ CheckOverride(t) \/ FindAuth(t) \/ InsertAuth(t)
         \/ CheckRrsetVersion(t) \/ RemoveOld(t) \/ InsertRrset(t)
         \/ FindForRemoval(t) \/ RemoveRow(t) \/ DoeClear(t)
         \/ ToolConflict(t) \/ ToolAbort(t)
  PROVE  /\ \A u \in Tools \ {t} : tool'[u] = tool[u]
         /\ tool'[t].pc \notin {"doeInsert", "doeGuard"}
<1>1. tool[t] \in ToolState /\ tool \in [Tools -> ToolState] /\ TypeOK
  BY DEF TypeInv, TypeOK
<1>2. CASE Done(t)
  BY <1>1, <1>2, DoneType
<1>3. ASSUME NEW pc \in ToolPcs \ {"doeInsert", "doeGuard"}, Goto(t, pc)
      PROVE  /\ \A u \in Tools \ {t} : tool'[u] = tool[u]
             /\ tool'[t].pc \notin {"doeInsert", "doeGuard"}
  BY <1>1, <1>3, GotoType
<1>4. CASE NextPrefix(t)
  BY <1>1, <1>4 DEF NextPrefix, ToolState
<1>5. CASE StartAdd(t) \/ StartAddFromFile(t) \/ StartRemove(t)
  <2>1. PICK pc, req : StartCommand(t, pc, req) /\ pc \in {"link", "auth", "ver", "rmFind"}
    BY <1>5 DEF StartAdd, StartAddFromFile, StartRemove
  <2> QED BY <1>1, <2>1 DEF StartCommand, IdleTool
<1>6. CASE CheckAuth(t) \/ CheckOverride(t) \/ FindAuth(t)
  BY <1>2, <1>3, <1>4, <1>6 DEF CheckAuth, CheckOverride, FindAuth, ToolPcs
<1>7. CASE CheckLink(t)
  <2>1. CASE tool' = [tool EXCEPT ![t].pc = IF LastPrefix(t) THEN "override" ELSE "link",
                                  ![t].i = IF LastPrefix(t) THEN 1 ELSE @ + 1]
    BY <1>1, <2>1 DEF ToolState
  <2> QED BY <1>2, <1>7, <2>1 DEF CheckLink
<1>8. CASE InsertAuth(t) \/ RemoveOld(t) \/ InsertRrset(t) \/ RemoveRow(t) \/ DoeClear(t)
  BY <1>3, <1>4, <1>8 DEF InsertAuth, RemoveOld, InsertRrset, RemoveRow, DoeClear, ToolPcs
<1>9. CASE CheckRrsetVersion(t) \/ FindForRemoval(t)
  <2>1. ASSUME NEW pc \in {"rmOld", "rmRow"}, NEW r,
               tool' = [tool EXCEPT ![t].pc = pc, ![t].old = r]
        PROVE  /\ \A u \in Tools \ {t} : tool'[u] = tool[u]
               /\ tool'[t].pc \notin {"doeInsert", "doeGuard"}
    BY <1>1, <2>1 DEF ToolState
  <2> QED BY <1>2, <1>3, <1>9, <2>1 DEF CheckRrsetVersion, FindForRemoval, ToolPcs
<1>10. CASE ToolConflict(t) \/ ToolAbort(t)
  BY <1>2, <1>10 DEF ToolConflict, ToolAbort
<1> QED BY <1>5, <1>6, <1>7, <1>8, <1>9, <1>10

(* Every step keeps the chain complete. *)
LEMMA ChainStep ==
  ASSUME OrdersAgree, TypeInv, DoeInv, ChainInv, [Next]_vars
  PROVE  ChainInv'
<1>1. CASE UNCHANGED vars
  BY <1>1, QuietChain DEF vars
<1>2. CASE ServerNext
  <2>1. UNCHANGED tool
    BY <1>2 DEF ServerNext, ServerStep, HandleQuery, HandleUpdate, RejectUpdate, DoUpdate,
           DenyQuery, DoUpdateReplace, DoUpdateInsert, ServerKill, ServerRestart
  <2>2. CASE UNCHANGED <<rows, alone, sound>>
    BY <2>1, <2>2, QuietChain
  <2>3. CASE Disturb({})
    BY <2>1, <2>3, SpoilChain DEF Disturb
  <2>4. CASE DoUpdateReplace
    BY <2>4, ReplaceChain
  <2> QED BY <1>2, <2>2, <2>3, <2>4 DEF ServerNext, ServerStep, HandleQuery, HandleUpdate,
        RejectUpdate, DoUpdate, DenyQuery, DoUpdateInsert, ServerKill, ServerRestart
<1>3. ASSUME NEW t \in Tools, ToolNext(t) PROVE ChainInv'
  <2>1. CASE \/ StartAdd(t) \/ StartAddFromFile(t) \/ StartRemove(t)
             \/ CheckAuth(t) \/ CheckLink(t) \/ CheckOverride(t) \/ FindAuth(t)
             \/ CheckRrsetVersion(t) \/ FindForRemoval(t)
             \/ ToolConflict(t) \/ ToolAbort(t)
    <3>1. UNCHANGED <<rows, alone, sound>>
      BY <2>1 DEF StartAdd, StartAddFromFile, StartRemove, StartCommand, CheckAuth, CheckLink,
         CheckOverride, FindAuth, CheckRrsetVersion, FindForRemoval, ToolConflict, ToolAbort
    <3>2. \A u \in Tools : tool'[u] = tool[u] \/ tool'[u].pc \notin {"doeInsert", "doeGuard"}
      BY <2>1, OutsideGenerate
    <3> QED BY <3>1, <3>2, QuietChain
  <2>2. CASE InsertAuth(t) \/ RemoveOld(t) \/ InsertRrset(t) \/ RemoveRow(t) \/ DoeClear(t)
    <3>1. sound' = FALSE /\ alone' \subseteq {t}
      BY <2>2 DEF InsertAuth, RemoveOld, InsertRrset, RemoveRow, DoeClear, Disturb
    <3>2. tool'[t].pc \notin {"doeInsert", "doeGuard"}
      BY <2>2, OutsideGenerate
    <3> QED BY <3>1, <3>2, SpoilChain
  <2> QED BY <1>3, <2>1, <2>2, ReadChain, InsertChain, GuardChain DEF ToolNext, ToolStep
<1> QED BY <1>1, <1>2, <1>3 DEF Next

(* A complete and sound chain convinces the client. *)
LEMMA ChainConvinces ==
  ASSUME TypeInv, TableInv, DoeSound, Chain, sound, UniqueRecord,
         Cardinality(Records) > 1, NEW q \in Queries, \A r \in Records : ~SameKey(r, q)
  PROVE  LET ds == FindLowerBound(KeyName(q)) \ {NoRow}
         IN  ds # {} /\ \A d \in ds : isAbsentByDoe(d.lo, d.hi, KeyName(q))
<1> DEFINE k == KeyName(q)
<1>1. q.label \in Name /\ q.type \in Nat
  BY ConstantsAssumption DEF Query
<1>2. \A r \in Records : r.label \in Name /\ r.type \in Nat
  BY DEF Records, TypeInv, TypeOK, Row
<1>3. k \in Name /\ \A r \in Records : KeyName(r) \in Name
  BY <1>1, <1>2, KeyNameProperties
<1>4. \A r \in Records : KeyName(r) # k
  BY <1>1, <1>2, KeyNameInjective DEF SameKey
<1>5. \A r, s \in Records : KeyName(r) = KeyName(s) => r = s
  BY <1>2, KeyNameInjective DEF SameKey, UniqueRecord
<1>6. FindLowerBound(k) \ {NoRow} # {}
  <2>1. PICK g \in rows : g.type = DOE /\ g.label = <<>>
    BY DEF Chain
  <2>2. NameLess(g.label, k)
    BY <1>1, <2>1, EmptyBeforeKey
  <2> QED BY <2>1, <2>2, LowerBoundFound DEF TypeInv
<1>7. ASSUME NEW d \in FindLowerBound(k) \ {NoRow} PROVE isAbsentByDoe(d.lo, d.hi, k)
  <2>1. /\ d \in rows /\ d.type = DOE /\ NameLess(d.label, k)
        /\ \A e \in rows : e.type = DOE /\ NameLess(e.label, k) => ~NameLess(d.label, e.label)
    BY <1>7, LowerBoundGreatest
  <2>2. PICK r \in Records, s \in Records : d.lo = KeyName(r) /\ d.hi = KeyName(s)
    BY <2>1 DEF Chain
  <2>3. d.lo \in Name /\ d.hi \in Name
    BY <1>3, <2>2
  <2>4. \A x \in Records : NameLess(KeyName(x), k) => ~NameLess(d.label, KeyName(x))
    <3> TAKE x \in Records
    <3>1. PICK e \in rows : e.type = DOE /\ e.label = KeyName(x)
      BY DEF Chain
    <3> QED BY <2>1, <3>1
  <2>5. \A x \in Records : ~InRange(d.lo, d.hi, KeyName(x))
    BY <2>1 DEF DoeSound
  <2>6. d.lo # d.hi
    <3>1. SUFFICES ASSUME d.lo = d.hi PROVE FALSE
      OBVIOUS
    <3>2. r = s
      BY <1>5, <2>2, <3>1
    <3>3. PICK x \in Records : x # r
      <4>1. SUFFICES ASSUME Records = {r} PROVE FALSE
        OBVIOUS
      <4>2. Cardinality(Records) = 1
        BY <4>1, FS_Singleton
      <4> QED BY <4>2
    <3>4. KeyName(x) # d.lo /\ KeyName(x) \in Name
      BY <1>3, <1>5, <2>2, <3>3
    <3>5. NameLess(d.lo, KeyName(x)) \/ NameLess(KeyName(x), d.lo)
      BY <2>3, <3>4, NameLessTotal
    <3>6. ~NameLess(d.lo, d.hi)
      BY <2>3, <3>1, NameLessIrreflexive
    <3> QED BY <2>5, <3>1, <3>5, <3>6 DEF InRange
  <2>7. NameLess(d.lo, d.hi) \/ NameLess(d.hi, d.lo)
    BY <2>3, <2>6, NameLessTotal
  <2>8. CASE d.label = d.lo
    <3>1. CASE NameLess(d.lo, d.hi)
      <4>1. ~NameLess(d.hi, k)
        BY <2>2, <2>4, <2>8, <3>1
      <4>2. d.hi # k
        BY <1>4, <2>2
      <4>3. NameLess(k, d.hi)
        BY <1>3, <2>3, <4>1, <4>2, NameLessTotal
      <4> QED BY <2>1, <2>8, <4>3 DEF isAbsentByDoe
    <3>2. CASE NameLess(d.hi, d.lo)
      <4>1. NameLess(d.hi, k)
        BY <1>3, <2>1, <2>3, <2>8, <3>2, NameLessTransitive
      <4> QED BY <3>2, <4>1 DEF isAbsentByDoe
    <3> QED BY <2>7, <3>1, <3>2
  <2>9. CASE d.label = <<>> /\ ~NameLess(d.lo, d.hi)
    <3>1. NameLess(<<>>, d.lo)
      BY <1>2, <2>2, EmptyBeforeKey
    <3>2. ~NameLess(d.lo, k)
      BY <2>2, <2>4, <2>9, <3>1
    <3>3. d.lo # k
      BY <1>4, <2>2
    <3>4. NameLess(k, d.lo)
      BY <1>3, <2>3, <3>2, <3>3, NameLessTotal
    <3> QED BY <2>7, <2>9, <3>4 DEF isAbsentByDoe
  <2> QED BY <2>1, <2>8, <2>9 DEF Chain
<1> QED BY <1>6, <1>7

(***************************************************************************)
(* DenialAccepted holds in every behaviour, under the same condition on    *)
(* the labels as DenialSound: a client that gets the range of an           *)
(* undisturbed generateDoe for an absent record is always convinced.       *)
(***************************************************************************)
THEOREM DenialsConvince ==
  ASSUME OrdersAgree
  PROVE  Spec => []DenialAccepted
<1>1. Init => TypeInv /\ DoeInv /\ TableInv /\ ChainInv
  <2> SUFFICES ASSUME Init PROVE TypeInv /\ DoeInv /\ TableInv /\ ChainInv
    OBVIOUS
  <2>1. \A t \in Tools : tool[t].pc \in {"idle", "doeClear"}
    BY DEF Init, IdleTool
  <2>2. TypeInv /\ DoeInv
    BY <2>1, InitType, DoeInit DEF TypeInv, LoopIndex, OverrideIndex
  <2>3. ChainInv
    BY DEF Init, ChainInv
  <2> QED BY <2>2, <2>3, TableInit
<1>2. TypeInv /\ DoeInv /\ TableInv /\ ChainInv /\ [Next]_vars =>
        TypeInv' /\ DoeInv' /\ TableInv' /\ ChainInv'
  <2> SUFFICES ASSUME TypeInv, DoeInv, TableInv, ChainInv, [Next]_vars
               PROVE  TypeInv' /\ DoeInv' /\ TableInv' /\ ChainInv'
    OBVIOUS
  <2> QED BY TypeStep, DoeStep, TableStep, ChainStep DEF TypeInv
<1>3. TypeInv /\ DoeInv /\ TableInv /\ ChainInv => DenialAccepted
  BY ChainConvinces DEF DenialAccepted, ChainInv, DoeInv
<1> QED BY <1>1, <1>2, <1>3, PTL DEF Spec
=============================================================================
