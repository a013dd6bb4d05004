----------------------------- MODULE ZoneProofs -----------------------------
(***************************************************************************)
(* Proofs about ZoneLifecycle and ZoneDaemon, for any number of tools,     *)
(* zones, creation requests and configurations: the types without further  *)
(* assumption, the ownership properties where a zone is deleted while      *)
(* nobody else works on it.                                                *)
(***************************************************************************)
EXTENDS ZoneDaemon, Maximum

USE LifecycleAssumption

(* What a tool may be doing. *)
ZoneRows == [id : Nat \ {0}, name : Names, inc : Nat]
ThreeCerts == [ksk : Certs, dsk : Certs, dkey : Certs]

Making == {"keys", "ksk", "dsk", "add"}
Filling == {"certs", "info", "doe"}
Removing == {"read", "rows", "gone"}

ToolStates ==
  {Idle}
  \cup [pc : {"keys"}, zone : Names, req : CreateReqs]
  \cup [pc : {"ksk"}, zone : Names, req : CreateReqs, dkey : Certs]
  \cup [pc : {"dsk"}, zone : Names, req : CreateReqs, dkey : Certs, ksk : Certs]
  \cup [pc : {"add"}, zone : Names, cert : ThreeCerts]
  \cup [pc : {"certs"}, zone : Names, cert : ThreeCerts, at : ZoneRows, i : 1 .. 2]
  \cup [pc : {"info", "doe"}, zone : Names, cert : ThreeCerts, at : ZoneRows, i : 1 .. 3]
  \cup [pc : {"read", "gone"}, zone : Names, at : ZoneRows]
  \cup [pc : {"rows"}, zone : Names, at : ZoneRows, left : SUBSET Nat]

(* Row ids and key numbers have a bound, or there would be no next one. *)
Bounded ==
  /\ \E N \in Nat : \A r \in rows : r.id =< N
  /\ \E N \in Nat : \A c \in keys : c.no =< N
  /\ \A z \in zones : z.id =< born /\ z.inc =< born

(* Every tool that has still to add its zone was counted when it started. *)
Makers == {t \in Tools : tool[t].pc \in Making}
Counted == IsFiniteSet(Makers) /\ born + Cardinality(Makers) =< ops

Typed == TypeOK /\ tool \in [Tools -> ToolStates] /\ Bounded

TypeInv == Typed /\ Counted

(* The shape of a tool at each of its steps. *)
LEMMA ToolShape ==
  ASSUME NEW r \in ToolStates
  PROVE  /\ r.pc = "keys" => r \in [pc : {"keys"}, zone : Names, req : CreateReqs]
         /\ r.pc = "ksk" => r \in [pc : {"ksk"}, zone : Names, req : CreateReqs, dkey : Certs]
         /\ r.pc = "dsk" => r \in [pc : {"dsk"}, zone : Names, req : CreateReqs, dkey : Certs, ksk : Certs]
         /\ r.pc = "add" => r \in [pc : {"add"}, zone : Names, cert : ThreeCerts]
         /\ r.pc = "certs" =>
              r \in [pc : {"certs"}, zone : Names, cert : ThreeCerts, at : ZoneRows, i : 1 .. 2]
         /\ r.pc \in {"info", "doe"} =>
              r \in [pc : {"info", "doe"}, zone : Names, cert : ThreeCerts, at : ZoneRows, i : 1 .. 3]
         /\ r.pc \in {"read", "gone"} => r \in [pc : {"read", "gone"}, zone : Names, at : ZoneRows]
         /\ r.pc = "rows" => r \in [pc : {"rows"}, zone : Names, at : ZoneRows, left : SUBSET Nat]
         /\ r.pc \in {"idle"} \cup Making \cup Filling \cup Removing
         /\ r.pc # "idle" => r.zone \in Names
BY DEF ToolStates, Idle, Making, Filling, Removing

LEMMA RequestShape ==
  ASSUME NEW req \in CreateReqs
  PROVE  /\ req.zone \in Names /\ req.parent \in Names
         /\ req.ksk \in Certs \cup {NoCert} /\ req.dsk \in Certs \cup {NoCert}
         /\ req.dkey \in Certs \cup {NoCert}
OBVIOUS

(* The id a new row gets: the table has a bound, and it is no row's. *)
LEMMA NextIdIs ==
  ASSUME NEW S, NEW N \in Nat, \A r \in S : r.id \in 0 .. N
  PROVE  NextId(S) \in 1 .. N + 1 /\ \A r \in S : r.id < NextId(S)
<1>1. {r.id : r \in S} \in SUBSET (0 .. N)
  OBVIOUS
<1> QED BY <1>1, NextNumber DEF NextId

LEMMA NextRowId ==
  ASSUME Typed
  PROVE  /\ NextId(rows) \in Nat \ {0} /\ \A r \in rows : r.id < NextId(rows)
<1>1. PICK N \in Nat : \A r \in rows : r.id =< N
  BY DEF Typed, Bounded
<1>2. \A r \in rows : r.id \in 0 .. N
  BY <1>1 DEF Typed, TypeOK
<1>3. NextId(rows) \in 1 .. N + 1 /\ \A r \in rows : r.id < NextId(rows)
  BY <1>2, NextIdIs
<1> QED BY <1>3

(* The row inserted. *)
LEMMA RowIs ==
  ASSUME Typed, NEW zid \in Nat \ {0}, NEW inc \in Nat, NEW rec \in Certs \cup {DoeRec}
  PROVE  /\ Row(zid, inc, rec) \in
              [id : Nat \ {0}, zid : Nat \ {0}, rec : Certs \cup {DoeRec}, inc : Nat]
         /\ Row(zid, inc, rec).id = NextId(rows) /\ Row(zid, inc, rec).zid = zid
         /\ Row(zid, inc, rec).rec = rec /\ Row(zid, inc, rec).inc = inc
<1>1. NextId(rows) \in Nat \ {0}
  BY NextRowId
<1> QED BY <1>1 DEF Row

LEMMA NextZoneId ==
  ASSUME Typed
  PROVE  NextId(zones) \in 1 .. born + 1 /\ \A z \in zones : z.id < NextId(zones)
<1>1. born \in Nat /\ \A z \in zones : z.id \in 0 .. born
  BY DEF Typed, TypeOK, Bounded
<1> QED BY <1>1, NextIdIs

(* createKey: a certificate no key has. *)
LEMMA FreshKeyIs ==
  ASSUME Typed, NEW use \in {"zone", "dkey"}, NEW n \in Names
  PROVE  FreshKey(use, n) \in Certs /\ FirstKey(use, n) \in Certs
<1>1. PICK N \in Nat : \A c \in keys : c.no =< N
  BY DEF Typed, Bounded
<1>2. {c.no : c \in KeysOf(use, n)} \in SUBSET (0 .. N)
  <2>1. \A c \in keys : c.no \in Nat
    BY DEF Certs, Typed, TypeOK
  <2>2. \A c \in KeysOf(use, n) : c.no \in 0 .. N
    BY <1>1, <2>1 DEF KeysOf
  <2> QED BY <2>2
<1>3. PICK S : S = {c.no : c \in KeysOf(use, n)}
  OBVIOUS
<1>4. S \in SUBSET (0 .. N)
  BY <1>2, <1>3
<1>5. 1 + Max({0} \cup S) \in 1 .. N + 1
  BY <1>4, NextNumber
<1>6. 1 + Max({0} \cup S) \in Nat
  BY <1>5
<1> QED BY <1>3, <1>6 DEF FreshKey, FirstKey, Certs

(* A finite number of keys keeps the key numbers bounded. *)
LEMMA KeysStayBounded ==
  ASSUME NEW K \in SUBSET Certs, \E N \in Nat : \A c \in K : c.no =< N,
         NEW x \in Certs, NEW y \in Certs, NEW z \in Certs, NEW L \in SUBSET (K \cup {x, y, z})
  PROVE  \E N \in Nat : \A c \in L : c.no =< N
<1>1. PICK N \in Nat : \A c \in K : c.no =< N
  OBVIOUS
<1>2. x.no \in Nat /\ y.no \in Nat /\ z.no \in Nat /\ \A c \in K : c.no \in Nat
  BY DEF Certs
<1>3. PICK M \in Nat : M = N + x.no + y.no + z.no
  BY <1>2
<1>4. x.no =< M /\ y.no =< M /\ z.no =< M /\ N =< M
  BY <1>2, <1>3
<1>5. \A c \in K : c.no =< M
  BY <1>1, <1>2, <1>4
<1>6. \A c \in L : c.no =< M
  BY <1>4, <1>5
<1> QED BY <1>6

LEMMA KeysStayBounded1 ==
  ASSUME NEW K \in SUBSET Certs, \E N \in Nat : \A c \in K : c.no =< N,
         NEW a \in Certs, NEW L, \A c \in L : c \in K \/ c = a
  PROVE  \E N \in Nat : \A c \in L : c.no =< N
<1>1. PICK N \in Nat : \A c \in K : c.no =< N
  OBVIOUS
<1>2. a.no \in Nat /\ \A c \in K : c.no \in Nat
  BY DEF Certs
<1>3. N + a.no \in Nat /\ N =< N + a.no /\ a.no =< N + a.no
  BY <1>2
<1>4. \A c \in K : c.no =< N + a.no
  BY <1>1, <1>2, <1>3
<1>5. \A c \in L : c.no =< N + a.no
  BY <1>3, <1>4
<1> QED BY <1>3, <1>5

LEMMA RowsStayBounded ==
  ASSUME Typed, NEW R, \A q \in R : q \in rows \/ q.id = NextId(rows)
  PROVE  \E N \in Nat : \A q \in R : q.id =< N
<1>1. NextId(rows) \in Nat /\ \A q \in R : q.id =< NextId(rows)
  BY NextRowId DEF Typed, TypeOK
<1> QED BY <1>1

LEMMA TypesInit == Init => TypeInv
<1>1. SUFFICES ASSUME Init PROVE TypeInv
  OBVIOUS
<1>2. TypeOK
  BY <1>1 DEF Init, TypeOK
<1>3. tool \in [Tools -> ToolStates]
  BY <1>1 DEF Init, ToolStates
<1>4. Bounded
  <2>1. {c.no : c \in GivenCerts} \in SUBSET Nat /\ IsFiniteSet({c.no : c \in GivenCerts})
    <3>1. GivenCerts \subseteq Certs
      OBVIOUS
    <3>2. {c.no : c \in GivenCerts} \in SUBSET Nat
      BY <3>1 DEF Certs
    <3> DEFINE f == [c \in GivenCerts |-> c.no]
    <3>3. f \in Surjection(GivenCerts, {c.no : c \in GivenCerts})
      BY DEF Surjection
    <3>4. IsFiniteSet(GivenCerts)
      OBVIOUS
    <3> QED BY <3>2, <3>3, <3>4, FS_Surjection
  <2>2. PICK N \in Nat : \A x \in {c.no : c \in GivenCerts} : x =< N
    BY <2>1, FiniteBounded
  <2> QED BY <1>1, <2>2 DEF Init, Bounded
<1>5. Counted
  <2>1. Makers = {}
    BY <1>1 DEF Init, Makers, Making, Idle
  <2> QED BY <1>1, <2>1, FS_EmptySet DEF Init, Counted
<1> QED BY <1>2, <1>3, <1>4, <1>5 DEF TypeInv, Typed

(* How the count follows a tool. *)
LEMMA MakersChange ==
  ASSUME Typed, Counted, NEW t \in Tools, NEW r, tool' = [tool EXCEPT ![t] = r]
  PROVE  /\ IsFiniteSet(Makers') /\ Cardinality(Makers) \in Nat /\ Cardinality(Makers') \in Nat
         /\ r.pc \notin Making /\ tool[t].pc \notin Making => Cardinality(Makers') = Cardinality(Makers)
         /\ r.pc \notin Making /\ tool[t].pc \in Making => Cardinality(Makers') = Cardinality(Makers) - 1
         /\ r.pc \in Making /\ tool[t].pc \notin Making => Cardinality(Makers') = Cardinality(Makers) + 1
         /\ r.pc \in Making /\ tool[t].pc \in Making => Cardinality(Makers') = Cardinality(Makers)
<1>1. tool'[t] = r /\ \A u \in Tools : u # t => tool'[u] = tool[u]
  BY DEF Typed
<1>2. IsFiniteSet(Makers) /\ Cardinality(Makers) \in Nat
  BY FS_CardinalityType DEF Counted
<1>3. CASE r.pc \in Making
  <2>1. Makers' = Makers \cup {t}
    BY <1>1, <1>3 DEF Makers
  <2>2. IsFiniteSet(Makers')
        /\ Cardinality(Makers') = IF t \in Makers THEN Cardinality(Makers) ELSE Cardinality(Makers) + 1
    BY <1>2, <2>1, FS_AddElement
  <2> QED BY <1>2, <1>3, <2>2 DEF Makers
<1>4. CASE r.pc \notin Making
  <2>1. Makers' = Makers \ {t}
    BY <1>1, <1>4 DEF Makers
  <2>2. IsFiniteSet(Makers')
        /\ Cardinality(Makers') = IF t \in Makers THEN Cardinality(Makers) - 1 ELSE Cardinality(Makers)
    BY <1>2, <2>1, FS_RemoveElement
  <2>3. Cardinality(Makers') \in Nat
    BY <2>2, FS_CardinalityType
  <2> QED BY <1>2, <1>4, <2>2, <2>3 DEF Makers
<1> QED BY <1>3, <1>4

(* A new state of one tool, with all else of the right shape. *)
LEMMA TypesStep ==
  ASSUME TypeInv, NEW t \in Tools, NEW r \in ToolStates, tool' = [tool EXCEPT ![t] = r],
         zones' \subseteq [id : Nat \ {0}, name : Names, inc : Nat],
         info' \subseteq [zid : Nat \ {0}, key : Range(InfoKeys), cert : Certs, inc : Nat],
         rows' \subseteq [id : Nat \ {0}, zid : Nat \ {0}, rec : Certs \cup {DoeRec}, inc : Nat],
         keys' \subseteq Certs, dflt' \in [Names -> Certs \cup {NoCert}],
         ops' \in 0 .. MaxOps, complete' \subseteq Nat, contested' \subseteq Names,
         Bounded',
         \/ r.pc \notin Making /\ born' = born /\ ops' \in {ops, ops + 1}
         \/ r.pc \notin Making /\ tool[t].pc \in Making /\ born' = born + 1 /\ ops' = ops
         \/ r.pc \in Making /\ tool[t].pc \in Making /\ born' = born /\ ops' = ops
         \/ r.pc \in Making /\ tool[t].pc \notin Making /\ born' = born /\ ops' = ops + 1
  PROVE  TypeInv'
<1>1. tool' \in [Tools -> ToolStates] /\ DOMAIN tool' = Tools
  BY DEF TypeInv, Typed
<1>2. Typed /\ Counted /\ born \in Nat /\ ops \in Nat
  BY DEF TypeInv, Typed, TypeOK
<1>3. Counted' /\ born' \in 0 .. MaxOps
  <2>1. IsFiniteSet(Makers') /\ Cardinality(Makers) \in Nat /\ Cardinality(Makers') \in Nat
    BY <1>2, MakersChange
  <2>2. born + Cardinality(Makers) =< ops
    BY <1>2 DEF Counted
  <2>m. /\ r.pc \notin Making /\ tool[t].pc \notin Making => Cardinality(Makers') = Cardinality(Makers)
        /\ r.pc \notin Making /\ tool[t].pc \in Making => Cardinality(Makers') = Cardinality(Makers) - 1
        /\ r.pc \in Making /\ tool[t].pc \notin Making => Cardinality(Makers') = Cardinality(Makers) + 1
        /\ r.pc \in Making /\ tool[t].pc \in Making => Cardinality(Makers') = Cardinality(Makers)
    BY <1>2, MakersChange
  <2>3. born' + Cardinality(Makers') =< ops'
    BY <1>2, <2>1, <2>2, <2>m
  <2>4. born' \in Nat
    BY <1>2
  <2> QED BY <2>1, <2>3, <2>4 DEF Counted
<1>4. TypeOK'
  BY <1>1, <1>3 DEF TypeOK
<1> QED BY <1>1, <1>3, <1>4 DEF TypeInv, Typed

(* The tables and the key chain as they were. *)
SameTables == UNCHANGED <<zones, info, rows, born>>
SameStore == SameTables /\ UNCHANGED <<keys, dflt>>

LEMMA SameBounded == Bounded /\ SameTables /\ UNCHANGED keys => Bounded'
BY DEF Bounded, SameTables

LEMMA StartCreateTypes ==
  ASSUME TypeInv, NEW t \in Tools, NEW req \in CreateReqs, StartCreate(t, req)
  PROVE  TypeInv'
<1>1. PICK r : r = [pc |-> "keys", zone |-> req.zone, req |-> req]
  OBVIOUS
<1>2. r \in ToolStates /\ r.pc \in Making
  BY <1>1, RequestShape DEF ToolStates, Making
<1>3. /\ tool' = [tool EXCEPT ![t] = r] /\ tool[t].pc \notin Making
      /\ SameStore /\ UNCHANGED complete /\ ops' = ops + 1 /\ ops < MaxOps
      /\ contested' \in {contested, contested \cup {req.zone}}
  BY <1>1 DEF StartCreate, BeginCreate, Goto, SameStore, SameTables, Idle, Making
<1>4. Bounded'
  BY <1>3, SameBounded DEF TypeInv, Typed, SameStore
<1>5. contested' \subseteq Names /\ ops' \in 0 .. MaxOps
  BY <1>3, RequestShape DEF TypeInv, Typed, TypeOK
<1>6. TypeOK
  BY DEF TypeInv, Typed
<1> QED BY <1>2, <1>3, <1>4, <1>5, <1>6, TypesStep DEF TypeOK, SameStore, SameTables

LEMMA MakeDkeyTypes ==
  ASSUME TypeInv, NEW t \in Tools, MakeDkey(t)
  PROVE  TypeInv'
<1>1. /\ TypeOK /\ Typed /\ tool[t] \in [pc : {"keys"}, zone : Names, req : CreateReqs]
      /\ tool[t].pc \in Making
  BY ToolShape DEF TypeInv, Typed, MakeDkey, Making
<1>2. PICK n, given, owner, first, dkey :
        /\ n = tool[t].zone /\ given = tool[t].req.dkey
        /\ owner = (IF given = NoCert THEN n ELSE given.zone)
        /\ first = {FirstKey("zone", x) : x \in {y \in {n} : KeysOf("zone", y) = {}}}
                     \cup {FirstKey("dkey", x) : x \in {y \in {owner} : KeysOf("dkey", y) = {}}}
        /\ dkey = (IF given = NoCert THEN FreshKey("dkey", n) ELSE given)
        /\ keys' = keys \cup first \cup (IF given = NoCert THEN {dkey} ELSE {})
        /\ dflt' = (IF KeysOf("zone", n) # {} THEN dflt
                    ELSE [dflt EXCEPT ![n] = FirstKey("zone", n)])
        /\ IF given = NoCert \/ given \in keys
           THEN Goto(t, [pc |-> "ksk", zone |-> n, req |-> tool[t].req, dkey |-> dkey])
           ELSE Stop(t)
        /\ UNCHANGED <<zones, info, rows, ops, born, complete, contested>>
  BY DEF MakeDkey
<1>3. /\ n \in Names /\ given \in Certs \cup {NoCert} /\ tool[t].req \in CreateReqs
      /\ owner \in Names
  BY <1>1, <1>2, RequestShape DEF Certs
<1>4. /\ FreshKey("dkey", n) \in Certs /\ FirstKey("zone", n) \in Certs /\ FirstKey("dkey", owner) \in Certs
  BY <1>1, <1>3, FreshKeyIs
<1>5. dkey \in Certs
  BY <1>2, <1>3, <1>4
<1>6. keys' \subseteq keys \cup {FirstKey("zone", n), FirstKey("dkey", owner), dkey}
  BY <1>2
<1>7. keys' \subseteq Certs /\ dflt' \in [Names -> Certs \cup {NoCert}]
  <2>1. keys' \subseteq Certs
    BY <1>1, <1>4, <1>5, <1>6 DEF TypeOK
  <2> QED BY <1>1, <1>2, <1>3, <1>4, <2>1 DEF TypeOK
<1>8. Bounded'
  <2>b. keys \in SUBSET Certs /\ (\E N \in Nat : \A c \in keys : c.no =< N)
    BY <1>1 DEF Typed, TypeOK, Bounded
  <2>1. \E N \in Nat : \A c \in keys' : c.no =< N
    BY <1>4, <1>5, <1>6, <2>b, KeysStayBounded
  <2> QED BY <1>1, <1>2, <2>1 DEF Typed, Bounded
<1>9. PICK r : r \in {Idle, [pc |-> "ksk", zone |-> n, req |-> tool[t].req, dkey |-> dkey]}
               /\ tool' = [tool EXCEPT ![t] = r]
  BY <1>2 DEF Goto, Stop
<1>10. r \in ToolStates
  BY <1>3, <1>5, <1>9 DEF ToolStates
<1> QED BY <1>1, <1>2, <1>7, <1>8, <1>9, <1>10, TypesStep DEF TypeOK

LEMMA MakeKskTypes ==
  ASSUME TypeInv, NEW t \in Tools, MakeKsk(t)
  PROVE  TypeInv'
<1>1. /\ TypeOK /\ Typed /\ tool[t].pc \in Making
      /\ tool[t] \in [pc : {"ksk"}, zone : Names, req : CreateReqs, dkey : Certs]
  BY ToolShape DEF TypeInv, Typed, MakeKsk, Making
<1>2. PICK n, given, ksk :
        /\ n = tool[t].zone /\ given = tool[t].req.ksk
        /\ ksk = (IF given = NoCert THEN FreshKey("zone", n) ELSE given)
        /\ keys' = (IF given = NoCert THEN keys \cup {ksk} ELSE keys)
        /\ IF given = NoCert \/ given \in KeysOf("zone", n)
           THEN Goto(t, [pc |-> "dsk", zone |-> n, req |-> tool[t].req,
                         dkey |-> tool[t].dkey, ksk |-> ksk])
           ELSE Stop(t)
        /\ UNCHANGED <<zones, info, rows, dflt, ops, born, complete, contested>>
  BY DEF MakeKsk
<1>3. n \in Names /\ given \in Certs \cup {NoCert} /\ tool[t].req \in CreateReqs /\ tool[t].dkey \in Certs
  BY <1>1, <1>2, RequestShape
<1>4. ksk \in Certs
  BY <1>1, <1>2, <1>3, FreshKeyIs
<1>5. (\A c \in keys' : c \in keys \/ c = ksk) /\ keys' \subseteq Certs
  BY <1>1, <1>2, <1>4 DEF TypeOK
<1>6. Bounded'
  <2>1. keys \in SUBSET Certs /\ (\E N \in Nat : \A c \in keys : c.no =< N)
    BY <1>1 DEF Typed, TypeOK, Bounded
  <2>2. \E N \in Nat : \A c \in keys' : c.no =< N
    <3>1. \A c \in keys' : c \in keys \/ c = ksk
      BY <1>5
    <3> QED BY <1>4, <2>1, <3>1, KeysStayBounded1
  <2> QED BY <1>1, <1>2, <2>2 DEF Typed, Bounded
<1>7. PICK r : /\ r \in {Idle, [pc |-> "dsk", zone |-> n, req |-> tool[t].req,
                                 dkey |-> tool[t].dkey, ksk |-> ksk]}
               /\ tool' = [tool EXCEPT ![t] = r]
  BY <1>2 DEF Goto, Stop
<1>8. r \in ToolStates
  BY <1>3, <1>4, <1>7 DEF ToolStates
<1> QED BY <1>1, <1>2, <1>5, <1>6, <1>7, <1>8, TypesStep DEF TypeOK

LEMMA MakeDskTypes ==
  ASSUME TypeInv, NEW t \in Tools, MakeDsk(t)
  PROVE  TypeInv'
<1>1. /\ TypeOK /\ Typed /\ tool[t].pc \in Making
      /\ tool[t] \in [pc : {"dsk"}, zone : Names, req : CreateReqs, dkey : Certs, ksk : Certs]
  BY ToolShape DEF TypeInv, Typed, MakeDsk, Making
<1>2. PICK n, given, dsk :
        /\ n = tool[t].zone /\ given = tool[t].req.dsk
        /\ dsk = (IF given = NoCert THEN FreshKey("zone", n) ELSE given)
        /\ keys' = keys \cup {dsk}
        /\ dflt' = [dflt EXCEPT ![n] = dsk]
        /\ Goto(t, [pc |-> "add", zone |-> n, cert |->
                      [ksk |-> tool[t].ksk, dsk |-> dsk, dkey |-> tool[t].dkey]])
        /\ UNCHANGED <<zones, info, rows, ops, born, complete, contested>>
  BY DEF MakeDsk
<1>3. n \in Names /\ given \in Certs \cup {NoCert} /\ tool[t].dkey \in Certs /\ tool[t].ksk \in Certs
  BY <1>1, <1>2, RequestShape
<1>4. dsk \in Certs
  BY <1>1, <1>2, <1>3, FreshKeyIs
<1>5. (\A c \in keys' : c \in keys \/ c = dsk) /\ keys' \subseteq Certs
      /\ dflt' \in [Names -> Certs \cup {NoCert}]
  BY <1>1, <1>2, <1>3, <1>4 DEF TypeOK
<1>6. Bounded'
  <2>1. keys \in SUBSET Certs /\ (\E N \in Nat : \A c \in keys : c.no =< N)
    BY <1>1 DEF Typed, TypeOK, Bounded
  <2>2. \E N \in Nat : \A c \in keys' : c.no =< N
    <3>1. \A c \in keys' : c \in keys \/ c = dsk
      BY <1>5
    <3> QED BY <1>4, <2>1, <3>1, KeysStayBounded1
  <2> QED BY <1>1, <1>2, <2>2 DEF Typed, Bounded
<1>7. PICK r : /\ r = [pc |-> "add", zone |-> n, cert |->
                         [ksk |-> tool[t].ksk, dsk |-> dsk, dkey |-> tool[t].dkey]]
               /\ tool' = [tool EXCEPT ![t] = r]
  BY <1>2 DEF Goto
<1>8. r \in ToolStates /\ r.pc \in Making
  BY <1>3, <1>4, <1>7 DEF ToolStates, ThreeCerts, Making
<1> QED BY <1>1, <1>2, <1>5, <1>6, <1>7, <1>8, TypesStep DEF TypeOK

LEMMA AddZoneTypes ==
  ASSUME TypeInv, NEW t \in Tools, AddZone(t)
  PROVE  TypeInv'
<1>1. /\ TypeOK /\ Typed /\ tool[t].pc \in Making
      /\ tool[t] \in [pc : {"add"}, zone : Names, cert : ThreeCerts]
  BY ToolShape DEF TypeInv, Typed, AddZone, Making
<1>2. /\ UNCHANGED <<info, rows, keys, dflt, ops, complete, contested>>
  BY DEF AddZone
<1>3. PICK z : z = [id |-> NextId(zones), name |-> tool[t].zone, inc |-> born + 1]
  OBVIOUS
<1>4. CASE FindZone(tool[t].zone) # {}
  <2>1. tool' = [tool EXCEPT ![t] = Idle] /\ zones' = zones /\ born' = born
    BY <1>4 DEF AddZone, Stop, Goto
  <2>2. Idle \in ToolStates /\ Idle.pc \notin Making
    BY DEF ToolStates, Idle, Making
  <2>3. Bounded'
    BY <1>1, <1>2, <2>1 DEF Typed, Bounded
  <2> QED BY <1>1, <1>2, <2>1, <2>2, <2>3, TypesStep DEF TypeOK
<1>5. CASE FindZone(tool[t].zone) = {}
  <2>1. /\ zones' = zones \cup {z} /\ born' = born + 1
        /\ tool' = [tool EXCEPT ![t] =
                      [pc |-> "certs", zone |-> tool[t].zone, cert |-> tool[t].cert, at |-> z, i |-> 1]]
    BY <1>3, <1>5 DEF AddZone, Goto
  <2>2. NextId(zones) \in 1 .. born + 1 /\ born \in Nat
    BY <1>1, NextZoneId DEF TypeOK
  <2>3. z \in ZoneRows
    BY <1>1, <1>3, <2>2 DEF ZoneRows
  <2>4. PICK r : r = [pc |-> "certs", zone |-> tool[t].zone, cert |-> tool[t].cert, at |-> z, i |-> 1]
    OBVIOUS
  <2>5. r \in ToolStates /\ r.pc \notin Making
    BY <1>1, <2>3, <2>4 DEF ToolStates, Making
  <2>6. zones' \subseteq [id : Nat \ {0}, name : Names, inc : Nat]
    BY <1>1, <2>1, <2>3 DEF TypeOK, ZoneRows
  <2>7. Bounded'
    <3>1. \A y \in zones' : y.id =< born' /\ y.inc =< born'
      BY <1>1, <1>3, <2>1, <2>2 DEF Typed, TypeOK, Bounded
    <3> QED BY <1>1, <1>2, <3>1 DEF Typed, Bounded
  <2> QED BY <1>1, <1>2, <2>1, <2>4, <2>5, <2>6, <2>7, TypesStep DEF TypeOK
<1> QED BY <1>4, <1>5

LEMMA AddIdCertTypes ==
  ASSUME TypeInv, NEW t \in Tools, AddIdCert(t)
  PROVE  TypeInv'
<1>1. /\ TypeOK /\ Typed
      /\ tool[t] \in [pc : {"certs"}, zone : Names, cert : ThreeCerts, at : ZoneRows, i : 1 .. 2]
  BY ToolShape DEF TypeInv, Typed, AddIdCert
<1>2. UNCHANGED <<zones, info, keys, dflt, ops, born, complete, contested>>
  BY DEF AddIdCert
<1>3. PICK cert : cert = tool[t].cert[InfoKeys[tool[t].i]]
  OBVIOUS
<1>4. cert \in Certs
  BY <1>1, <1>3 DEF InfoKeys, ThreeCerts
<1>5. PICK z : z = tool[t].at
  OBVIOUS
<1>6. \/ rows' = rows /\ tool' = [tool EXCEPT ![t] = Idle]
      \/ /\ rows' = rows \cup {Row(z.id, z.inc, cert)}
         /\ tool' = [tool EXCEPT ![t] = IF tool[t].i = 1 THEN [tool[t] EXCEPT !.i = 2]
                                       ELSE [tool[t] EXCEPT !.pc = "info", !.i = 1]]
  BY <1>3, <1>5 DEF AddIdCert, Stop, Goto
<1>7. PICK r : /\ r \in {Idle, [tool[t] EXCEPT !.i = 2], [tool[t] EXCEPT !.pc = "info", !.i = 1]}
               /\ tool' = [tool EXCEPT ![t] = r]
  BY <1>6
<1>8. r \in ToolStates /\ r.pc \notin Making
  <2>1. Idle \in ToolStates /\ Idle.pc \notin Making
    BY DEF ToolStates, Idle, Making
  <2>2. [tool[t] EXCEPT !.i = 2] \in
          [pc : {"certs"}, zone : Names, cert : ThreeCerts, at : ZoneRows, i : 1 .. 2]
    BY <1>1
  <2>3. PICK q : q = [tool[t] EXCEPT !.pc = "info"]
    OBVIOUS
  <2>4. q \in [pc : {"info", "doe"}, zone : Names, cert : ThreeCerts, at : ZoneRows, i : 1 .. 2]
    BY <1>1, <2>3
  <2>5. [q EXCEPT !.i = 1] \in
          [pc : {"info", "doe"}, zone : Names, cert : ThreeCerts, at : ZoneRows, i : 1 .. 3]
    BY <2>4
  <2>6. [tool[t] EXCEPT !.pc = "info", !.i = 1] = [q EXCEPT !.i = 1]
    BY <2>3
  <2> QED BY <1>7, <2>1, <2>2, <2>5, <2>6 DEF ToolStates, Making
<1>9. rows' \subseteq [id : Nat \ {0}, zid : Nat \ {0}, rec : Certs \cup {DoeRec}, inc : Nat]
  BY <1>1, <1>4, <1>5, <1>6, NextRowId DEF Row, TypeOK, ZoneRows
<1>10. Bounded'
  <2>r. Row(z.id, z.inc, cert).id = NextId(rows)
    BY <1>1, <1>4, <1>5, RowIs DEF ZoneRows
  <2>1. \E N \in Nat : \A x \in rows \cup {Row(z.id, z.inc, cert)} : x.id =< N
    <3>1. \A x \in rows \cup {Row(z.id, z.inc, cert)} : x \in rows \/ x.id = NextId(rows)
      BY <2>r
    <3> QED BY <1>1, <3>1, RowsStayBounded
  <2> QED BY <1>1, <1>2, <1>6, <2>1 DEF Typed, Bounded
<1> QED BY <1>1, <1>2, <1>7, <1>8, <1>9, <1>10, TypesStep DEF TypeOK

LEMMA SetZoneInfoTypes ==
  ASSUME TypeInv, NEW t \in Tools, SetZoneInfo(t)
  PROVE  TypeInv'
<1>1. /\ TypeOK /\ Typed /\ tool[t].pc = "info"
      /\ tool[t] \in [pc : {"info", "doe"}, zone : Names, cert : ThreeCerts, at : ZoneRows, i : 1 .. 3]
  BY ToolShape DEF TypeInv, Typed, SetZoneInfo
<1>2. UNCHANGED <<zones, rows, keys, dflt, ops, born, complete, contested>>
  BY DEF SetZoneInfo
<1>3. PICK k : k = InfoKeys[tool[t].i]
  OBVIOUS
<1>4. k \in Range(InfoKeys) /\ tool[t].cert[k] \in Certs
  BY <1>1, <1>3 DEF InfoKeys, ThreeCerts, Range
<1>5. info' = WithInfo(tool[t].at.id, tool[t].at.inc, k, tool[t].cert[k])
  BY <1>3 DEF SetZoneInfo
<1>6. info' \subseteq [zid : Nat \ {0}, key : Range(InfoKeys), cert : Certs, inc : Nat]
  BY <1>1, <1>4, <1>5 DEF WithInfo, TypeOK, ZoneRows
<1>7. PICK r : /\ r = IF tool[t].i < Len(InfoKeys) THEN [tool[t] EXCEPT !.i = @ + 1]
                      ELSE [tool[t] EXCEPT !.pc = "doe"]
               /\ tool' = [tool EXCEPT ![t] = r]
  BY DEF SetZoneInfo, Goto
<1>8. r \in ToolStates /\ r.pc \notin Making
  <2>1. Len(InfoKeys) = 3
    BY DEF InfoKeys
  <2>2. r \in [pc : {"info", "doe"}, zone : Names, cert : ThreeCerts, at : ZoneRows, i : 1 .. 3]
    BY <1>1, <1>7, <2>1
  <2> QED BY <2>2 DEF ToolStates, Making
<1>9. Bounded'
  BY <1>1, <1>2 DEF Typed, Bounded
<1> QED BY <1>1, <1>2, <1>6, <1>7, <1>8, <1>9, TypesStep DEF TypeOK

LEMMA GenerateDoeTypes ==
  ASSUME TypeInv, NEW t \in Tools, GenerateDoe(t)
  PROVE  TypeInv'
<1>1. TypeOK /\ Typed
  BY DEF TypeInv, Typed
<1>2. UNCHANGED <<zones, info, keys, dflt, ops, born, contested>>
      /\ tool' = [tool EXCEPT ![t] = Idle]
  BY DEF GenerateDoe, Stop, Goto
<1>3. Idle \in ToolStates /\ Idle.pc \notin Making
  BY DEF ToolStates, Idle, Making
<1>4. CASE rows' = rows /\ complete' = complete
  <2>1. Bounded'
    BY <1>1, <1>2, <1>4 DEF Typed, Bounded
  <2> QED BY <1>1, <1>2, <1>3, <1>4, <2>1, TypesStep DEF TypeOK
<1>5. CASE \E z \in zones :
             /\ rows' = {r \in rows : r.zid # z.id \/ r.rec # DoeRec} \cup {Row(z.id, z.inc, DoeRec)}
             /\ complete' = complete \cup {z.inc}
  <2>1. PICK z \in zones :
             /\ rows' = {r \in rows : r.zid # z.id \/ r.rec # DoeRec} \cup {Row(z.id, z.inc, DoeRec)}
             /\ complete' = complete \cup {z.inc}
    BY <1>5
  <2>z. z.id \in Nat \ {0} /\ z.inc \in Nat
    BY <1>1 DEF TypeOK
  <2>q. PICK q : /\ q = Row(z.id, z.inc, DoeRec) /\ q.id = NextId(rows)
                 /\ q \in [id : Nat \ {0}, zid : Nat \ {0}, rec : Certs \cup {DoeRec}, inc : Nat]
    BY <1>1, <2>z, RowIs
  <2>2. rows' \subseteq [id : Nat \ {0}, zid : Nat \ {0}, rec : Certs \cup {DoeRec}, inc : Nat]
    <3>1. rows' \subseteq rows \cup {q}
      BY <2>1, <2>q
    <3> QED BY <1>1, <2>q, <3>1 DEF TypeOK
  <2>c. complete' \subseteq Nat
    BY <1>1, <2>1 DEF TypeOK
  <2>3. Bounded'
    <3>1. \E N \in Nat : \A x \in rows' : x.id =< N
      <4>1. \A x \in rows' : x \in rows \/ x.id = NextId(rows)
        BY <2>1, <2>q
      <4> QED BY <1>1, <4>1, RowsStayBounded
    <3> QED BY <1>1, <1>2, <3>1 DEF Typed, Bounded
  <2> QED BY <1>1, <1>2, <1>3, <2>2, <2>c, <2>3, TypesStep DEF TypeOK
<1> QED BY <1>4, <1>5 DEF GenerateDoe, FindZone

LEMMA StartDeleteTypes ==
  ASSUME TypeInv, NEW t \in Tools, NEW z \in zones, StartDelete(t, z)
  PROVE  TypeInv'
<1>1. TypeOK /\ Typed
  BY DEF TypeInv, Typed
<1>2. PICK r : r = [pc |-> "read", zone |-> z.name, at |-> z]
  OBVIOUS
<1>3. /\ UNCHANGED <<zones, info, rows, keys, dflt, born>> /\ ops' = ops + 1 /\ ops < MaxOps
      /\ complete' \subseteq complete /\ contested' \subseteq contested
      /\ tool' = [tool EXCEPT ![t] = r]
  BY <1>2 DEF StartDelete, Goto
<1>4. r \in ToolStates /\ r.pc \notin Making
  BY <1>1, <1>2 DEF ToolStates, TypeOK, ZoneRows, Making
<1>5. ops' \in 0 .. MaxOps
  BY <1>1, <1>3 DEF TypeOK
<1>6. Bounded'
  BY <1>1, <1>3 DEF Typed, Bounded
<1> QED BY <1>1, <1>3, <1>4, <1>5, <1>6, TypesStep DEF TypeOK

(* Steps that leave all but the tool, and rows or zones removed. *)
LEMMA RemoveTypes ==
  ASSUME TypeInv, NEW t \in Tools,
         ReadRrsets(t) \/ RemoveRrset(t) \/ FindForRemoval(t) \/ RemoveZone(t) \/ Kill(t)
  PROVE  TypeInv'
<1>1. TypeOK /\ Typed /\ tool[t] \in ToolStates
  BY DEF TypeInv, Typed
<1>2. /\ UNCHANGED <<info, keys, dflt, ops, born, complete, contested>>
      /\ rows' \subseteq rows /\ zones' \subseteq zones
  BY DEF ReadRrsets, RemoveRrset, FindForRemoval, RemoveZone, Kill
<1>3. Bounded'
  BY <1>1, <1>2 DEF Typed, Bounded
<1>4. \E r \in ToolStates : r.pc \notin Making /\ tool' = [tool EXCEPT ![t] = r]
  <2>1. Idle \in ToolStates /\ Idle.pc \notin Making
    BY DEF ToolStates, Idle, Making
  <2>2. CASE RemoveZone(t) \/ Kill(t)
    BY <2>1, <2>2 DEF RemoveZone, Kill, Stop, Goto
  <2>3. CASE ReadRrsets(t)
    <3>1. tool[t] \in [pc : {"read", "gone"}, zone : Names, at : ZoneRows]
      BY <1>1, <2>3, ToolShape DEF ReadRrsets
    <3>2. FindRrsets(tool[t].at.id) \subseteq Nat
      BY <1>1 DEF FindRrsets, TypeOK
    <3>3. [pc |-> "rows", zone |-> tool[t].zone, at |-> tool[t].at, left |-> FindRrsets(tool[t].at.id)]
            \in [pc : {"rows"}, zone : Names, at : ZoneRows, left : SUBSET Nat]
      BY <3>1, <3>2
    <3> QED BY <2>3, <3>3 DEF ReadRrsets, Goto, ToolStates, Making
  <2>4. CASE RemoveRrset(t)
    <3>1. tool[t] \in [pc : {"rows"}, zone : Names, at : ZoneRows, left : SUBSET Nat]
      BY <1>1, <2>4, ToolShape DEF RemoveRrset
    <3>2. PICK id : tool' = [tool EXCEPT ![t] = [tool[t] EXCEPT !.left = @ \ {id}]]
      BY <2>4 DEF RemoveRrset, Goto
    <3>3. [tool[t] EXCEPT !.left = @ \ {id}]
            \in [pc : {"rows"}, zone : Names, at : ZoneRows, left : SUBSET Nat]
      BY <3>1
    <3> QED BY <3>2, <3>3 DEF ToolStates, Making
  <2>5. CASE FindForRemoval(t)
    <3>1. tool[t] \in [pc : {"rows"}, zone : Names, at : ZoneRows, left : SUBSET Nat]
      BY <1>1, <2>5, ToolShape DEF FindForRemoval
    <3>2. \/ tool' = [tool EXCEPT ![t] = Idle]
          \/ \E z \in zones : tool' = [tool EXCEPT ![t] = [pc |-> "gone", zone |-> tool[t].zone, at |-> z]]
      BY <2>5 DEF FindForRemoval, FindZone, Goto, Stop
    <3>3. \A z \in zones : [pc |-> "gone", zone |-> tool[t].zone, at |-> z]
                             \in [pc : {"read", "gone"}, zone : Names, at : ZoneRows]
      BY <1>1, <3>1 DEF TypeOK, ZoneRows
    <3> QED BY <2>1, <3>2, <3>3 DEF ToolStates, Making
  <2> QED BY <2>2, <2>3, <2>4, <2>5
<1>5. PICK r \in ToolStates : r.pc \notin Making /\ tool' = [tool EXCEPT ![t] = r]
  BY <1>4
<1> QED BY <1>1, <1>2, <1>3, <1>5, TypesStep DEF TypeOK

LEMMA TypesPreserved == TypeInv /\ [Next]_vars => TypeInv'
<1>1. ASSUME TypeInv, UNCHANGED vars PROVE TypeInv'
  BY <1>1 DEF TypeInv, Typed, TypeOK, Bounded, Counted, Makers, vars
<1>2. ASSUME TypeInv, Next PROVE TypeInv'
  BY <1>2, StartCreateTypes, MakeDkeyTypes, MakeKskTypes, MakeDskTypes, AddZoneTypes, AddIdCertTypes,
     SetZoneInfoTypes, GenerateDoeTypes, StartDeleteTypes, RemoveTypes DEF Next, ToolStep
<1> QED BY <1>1, <1>2

-----------------------------------------------------------------------------
(* A certificate of the zone's own, and no other, is filed under a key. *)
InfoIs(z, k) ==
  /\ \E e \in info : e.zid = z.id /\ e.key = k
  /\ \A e \in info : e.zid = z.id /\ e.key = k => e.inc = z.inc

(* Nothing in the tables is there twice, and no incarnation is yet to come. *)
Distinct ==
  /\ \A y, z \in zones : y.id = z.id \/ y.name = z.name \/ y.inc = z.inc => y = z
  /\ \A q, r \in rows : q.id = r.id => q = r
  /\ \A k \in complete : k =< born

(* Who deletes a zone is alone with it; so is who creates one that is not   *)
(* contested.                                                               *)
Alone ==
  \A t, u \in Tools :
    /\ tool[t].pc # "idle" /\ tool[u].pc # "idle" /\ tool[t].zone = tool[u].zone
    /\ tool[t].pc \in Removing \/ tool[t].zone \notin contested
    => t = u

(* What a tool has established so far: the zone it works in is there, or   *)
(* still missing; the default key is the one it will publish, or has; the   *)
(* keys it has filed in zone_info; the rows it has read and not removed;    *)
(* the zone it deletes is not complete.                                     *)
InZone(r) == r.pc \in Filling \cup Removing => r.at \in zones /\ r.at.name = r.zone
NotThere(r) == r.pc \in Making /\ r.zone \notin contested => FindZone(r.zone) = {}
Signs(r) == r.pc \in {"add"} \cup Filling /\ r.zone \notin contested => dflt[r.zone] = r.cert.dsk
Publishes(r) ==
  r.pc \in {"info", "doe"} => \E q \in rows : q.zid = r.at.id /\ q.rec = r.cert.dsk
Informed(r) ==
  \A j \in 1 .. 3 : r.pc = "doe" \/ (r.pc = "info" /\ j < r.i) => InfoIs(r.at, InfoKeys[j])
Reads(r) ==
  /\ r.pc = "rows" => r.left = FindRrsets(r.at.id)
  /\ r.pc = "gone" => FindRrsets(r.at.id) = {}
Unfinished(r) == r.pc \in Removing => r.at.inc \notin complete

ToolInv(r) ==
  /\ InZone(r) /\ NotThere(r) /\ Signs(r) /\ Publishes(r)
  /\ Informed(r) /\ Reads(r) /\ Unfinished(r)

InfoComplete ==
  \A z \in zones : z.inc \in complete => \A j \in 1 .. 3 : InfoIs(z, InfoKeys[j])

OwnInv ==
  /\ Distinct /\ Alone /\ \A t \in Tools : ToolInv(tool[t])
  /\ RowsOwn /\ InfoComplete /\ SignerPublished

LEMMA OwnInit == Init => OwnInv
<1>1. SUFFICES ASSUME Init PROVE OwnInv
  OBVIOUS
<1>2. \A t \in Tools : tool[t].pc = "idle"
  BY <1>1 DEF Init, Idle
<1>3. Alone /\ \A t \in Tools : ToolInv(tool[t])
  BY <1>2
     DEF Alone, ToolInv, InZone, NotThere, Signs, Publishes, Informed, Reads, Unfinished, Making, Filling, Removing
<1>4. Distinct /\ RowsOwn /\ InfoComplete /\ SignerPublished
  BY <1>1 DEF Init, Distinct, RowsOwn, InfoComplete, SignerPublished
<1> QED BY <1>3, <1>4 DEF OwnInv

(* The one tool that moves. *)
LEMMA OneMoves ==
  ASSUME Typed, NEW t \in Tools, NEW r, tool' = [tool EXCEPT ![t] = r]
  PROVE  tool'[t] = r /\ \A u \in Tools : u # t => tool'[u] = tool[u]
BY DEF Typed

(* What a tool that does not move has established stays, with the tables   *)
(* it is about.                                                             *)
LEMMA ToolStays ==
  ASSUME NEW u \in Tools, tool'[u] = tool[u], ToolInv(tool[u])
  PROVE  /\ rows' = rows => Publishes(tool[u])' /\ Reads(tool[u])'
         /\ info' = info => Informed(tool[u])'
         /\ complete' = complete => Unfinished(tool[u])'
         /\ UNCHANGED <<zones, dflt, contested>> =>
              InZone(tool[u])' /\ NotThere(tool[u])' /\ Signs(tool[u])'
<1>1. rows' = rows => Publishes(tool[u])'
  BY DEF ToolInv, Publishes
<1>2. rows' = rows => Reads(tool[u])'
  BY DEF ToolInv, Reads, FindRrsets
<1>3. info' = info => Informed(tool[u])'
  BY DEF ToolInv, Informed, InfoIs
<1>4. complete' = complete => Unfinished(tool[u])'
  BY DEF ToolInv, Unfinished
<1>5. UNCHANGED <<zones, dflt, contested>> =>
        InZone(tool[u])' /\ NotThere(tool[u])' /\ Signs(tool[u])'
  BY DEF ToolInv, InZone, NotThere, Signs, FindZone
<1> QED BY <1>1, <1>2, <1>3, <1>4, <1>5

(* A tool that ends, throws or is killed. *)
LEMMA StopOwn ==
  ASSUME Typed, OwnInv, NEW t \in Tools, Stop(t),
         UNCHANGED <<zones, info, rows, dflt, born, complete, contested>>
  PROVE  OwnInv'
<1>1. tool'[t] = Idle /\ \A u \in Tools : u # t => tool'[u] = tool[u]
  BY OneMoves DEF Stop, Goto
<1>2. Idle.pc = "idle"
  BY DEF Idle
<1>3. Distinct' /\ RowsOwn' /\ InfoComplete' /\ SignerPublished'
  BY DEF OwnInv, Distinct, RowsOwn, InfoComplete, InfoIs, SignerPublished
<1>4. Alone'
  BY <1>1, <1>2 DEF OwnInv, Alone
<1>5. ASSUME NEW u \in Tools PROVE ToolInv(tool[u])'
  <2>1. CASE u = t
    BY <1>1, <1>2, <2>1
       DEF ToolInv, InZone, NotThere, Signs, Publishes, Informed, Reads, Unfinished, Making, Filling, Removing
  <2>2. CASE u # t
    <3>1. tool'[u] = tool[u] /\ ToolInv(tool[u])
      BY <1>1, <2>2 DEF OwnInv
    <3> QED BY <3>1, ToolStays DEF ToolInv
  <2> QED BY <2>1, <2>2
<1> QED BY <1>3, <1>4, <1>5 DEF OwnInv

LEMMA StartCreateOwn ==
  ASSUME DeleteAlone, Typed, OwnInv, NEW t \in Tools, NEW req \in CreateReqs, StartCreate(t, req)
  PROVE  OwnInv'
<1>1. PICK r : r = [pc |-> "keys", zone |-> req.zone, req |-> req]
  OBVIOUS
<1>2. /\ tool' = [tool EXCEPT ![t] = r] /\ FindZone(req.zone) = {}
      /\ UNCHANGED <<zones, info, rows, keys, dflt, born, complete>>
      /\ contested' = IF \E u \in Tools : Working(u, req.zone)
                      THEN contested \cup {req.zone} ELSE contested
      /\ \A u \in Tools : ~Deleting(u, req.zone)
  BY <1>1 DEF StartCreate, BeginCreate, Goto
<1>3. tool'[t] = r /\ \A u \in Tools : u # t => tool'[u] = tool[u]
  BY <1>2, OneMoves
<1>4. r.pc = "keys" /\ r.zone = req.zone
  BY <1>1
<1>5. contested \subseteq contested'
  BY <1>2
<1>6. Distinct' /\ RowsOwn' /\ InfoComplete'
  BY <1>2 DEF OwnInv, Distinct, RowsOwn, InfoComplete, InfoIs
<1>7. SignerPublished'
  BY <1>2, <1>5 DEF OwnInv, SignerPublished
<1>8. Alone'
  <2>1. ASSUME NEW u \in Tools, u # t, tool[u].pc # "idle", tool[u].zone = req.zone
        PROVE  tool[u].pc \notin Removing /\ req.zone \in contested'
    BY <1>2, <2>1 DEF Working, Deleting, Removing
  <2>2. r.pc \notin Removing
    BY <1>4 DEF Removing
  <2>3. SUFFICES ASSUME NEW u \in Tools, NEW v \in Tools, u # v,
                        tool'[u].pc # "idle", tool'[v].pc # "idle", tool'[u].zone = tool'[v].zone
                 PROVE  ~(tool'[u].pc \in Removing \/ tool'[u].zone \notin contested')
    BY DEF Alone
  <2>4. CASE u = t \/ v = t
    BY <1>3, <1>4, <2>1, <2>2, <2>3, <2>4
  <2>5. CASE u # t /\ v # t
    BY <1>3, <1>5, <2>3, <2>5 DEF OwnInv, Alone
  <2> QED BY <2>4, <2>5
<1>9. ASSUME NEW u \in Tools PROVE ToolInv(tool[u])'
  <2>1. CASE u = t
    BY <1>2, <1>3, <1>4, <2>1
       DEF ToolInv, InZone, NotThere, Signs, Publishes, Informed, Reads, Unfinished, Making, Filling, Removing, FindZone
  <2>2. CASE u # t
    <3>1. tool'[u] = tool[u] /\ ToolInv(tool[u])
      BY <1>3, <2>2 DEF OwnInv
    <3>2. InZone(tool[u])' /\ NotThere(tool[u])' /\ Signs(tool[u])'
      BY <1>2, <1>5, <3>1 DEF ToolInv, InZone, NotThere, Signs, FindZone
    <3>3. Publishes(tool[u])' /\ Informed(tool[u])' /\ Reads(tool[u])' /\ Unfinished(tool[u])'
      BY <1>2, <3>1, ToolStays
    <3> QED BY <3>2, <3>3 DEF ToolInv
  <2> QED BY <2>1, <2>2
<1> QED BY <1>6, <1>7, <1>8, <1>9 DEF OwnInv

(* The key chain steps of createZone: the default key of the zone may       *)
(* change, and nothing in the tables does.                                  *)
LEMMA MakeOwn ==
  ASSUME Typed, OwnInv, NEW t \in Tools, NEW r, tool' = [tool EXCEPT ![t] = r],
         tool[t].pc \in Making,
         UNCHANGED <<zones, info, rows, born, complete, contested>>,
         \A m \in Names : m # tool[t].zone => dflt'[m] = dflt[m],
         r.pc \in {"idle", "ksk", "dsk", "add"}, r.pc # "idle" => r.zone = tool[t].zone,
         r.pc = "add" => dflt'[r.zone] = r.cert.dsk
  PROVE  OwnInv'
<1>1. tool'[t] = r /\ \A u \in Tools : u # t => tool'[u] = tool[u]
  BY OneMoves
<1>2. tool[t].pc # "idle" /\ r.pc \in {"idle"} \cup Making /\ r.pc \notin Filling /\ r.pc \notin Removing
  BY DEF Making, Filling, Removing
<1>3. Distinct' /\ RowsOwn' /\ InfoComplete'
  BY DEF OwnInv, Distinct, RowsOwn, InfoComplete, InfoIs
<1>4. Alone'
  BY <1>1, <1>2 DEF OwnInv, Alone
<1>5. tool[t].zone \notin contested => FindZone(tool[t].zone) = {}
  BY DEF OwnInv, ToolInv, InZone, NotThere, Signs, Publishes, Informed, Reads, Unfinished
<1>6. SignerPublished'
  <2>1. ASSUME NEW z \in zones, z.inc \in complete, z.name \notin contested
        PROVE  dflt'[z.name] = dflt[z.name]
    <3>1. z.name \in Names
      BY DEF Typed, TypeOK
    <3> QED BY <1>5, <2>1, <3>1 DEF FindZone
  <2> QED BY <2>1 DEF OwnInv, SignerPublished
<1>7. ASSUME NEW u \in Tools PROVE ToolInv(tool[u])'
  <2>1. CASE u = t
    BY <1>1, <1>2, <1>5, <2>1
       DEF ToolInv, InZone, NotThere, Signs, Publishes, Informed, Reads, Unfinished, Making, Filling, Removing, FindZone
  <2>2. CASE u # t
    <3>1. tool'[u] = tool[u] /\ ToolInv(tool[u])
      BY <1>1, <2>2 DEF OwnInv
    <3>2. tool[u] \in ToolStates
      BY DEF Typed
    <3>3. tool[u].pc # "idle" /\ tool[u].zone \notin contested => dflt'[tool[u].zone] = dflt[tool[u].zone]
      BY <1>2, <2>2, <3>2, ToolShape DEF OwnInv, Alone
    <3>4. tool[u].pc \in {"add"} \cup Filling => tool[u].pc # "idle"
      BY DEF Filling
    <3>5. InZone(tool[u])' /\ NotThere(tool[u])'
      BY <3>1 DEF ToolInv, InZone, NotThere, FindZone
    <3>6. Signs(tool[u])'
      BY <3>1, <3>3, <3>4 DEF ToolInv, Signs
    <3>7. Publishes(tool[u])' /\ Informed(tool[u])' /\ Reads(tool[u])' /\ Unfinished(tool[u])'
      BY <3>1, ToolStays
    <3> QED BY <3>5, <3>6, <3>7 DEF ToolInv
  <2> QED BY <2>1, <2>2
<1> QED BY <1>3, <1>4, <1>6, <1>7 DEF OwnInv

LEMMA MakeStepsOwn ==
  ASSUME Typed, OwnInv, NEW t \in Tools, MakeDkey(t) \/ MakeKsk(t) \/ MakeDsk(t)
  PROVE  OwnInv'
<1>1. /\ UNCHANGED <<zones, info, rows, born, complete, contested>>
      /\ tool[t].pc \in {"keys", "ksk", "dsk"} /\ tool[t].pc \in Making
  BY DEF MakeDkey, MakeKsk, MakeDsk, Making
<1>2. tool[t].zone \in Names /\ dflt \in [Names -> Certs \cup {NoCert}]
  BY <1>1, ToolShape DEF Typed, TypeOK
<1>3. \A m \in Names : m # tool[t].zone => dflt'[m] = dflt[m]
  <2>1. \E x : dflt' \in {dflt, [dflt EXCEPT ![tool[t].zone] = x]}
    BY DEF MakeDkey, MakeKsk, MakeDsk
  <2> QED BY <1>2, <2>1
<1>4. PICK r : /\ tool' = [tool EXCEPT ![t] = r]
               /\ r.pc \in {"idle", "ksk", "dsk", "add"} /\ (r.pc # "idle" => r.zone = tool[t].zone)
               /\ (r.pc = "add" => dflt'[r.zone] = r.cert.dsk)
  <2>1. CASE MakeDkey(t)
    <3>1. PICK x : tool' = [tool EXCEPT ![t] = x]
                 /\ (x = Idle \/ \E d : x = [pc |-> "ksk", zone |-> tool[t].zone, req |-> tool[t].req, dkey |-> d])
      BY <2>1 DEF MakeDkey, Goto, Stop
    <3>2. x.pc \in {"idle", "ksk"} /\ (x.pc # "idle" => x.zone = tool[t].zone)
      BY <3>1 DEF Idle
    <3> QED BY <3>1, <3>2
  <2>2. CASE MakeKsk(t)
    <3>1. PICK x : tool' = [tool EXCEPT ![t] = x]
                 /\ (x = Idle \/ \E k : x = [pc |-> "dsk", zone |-> tool[t].zone, req |-> tool[t].req,
                                             dkey |-> tool[t].dkey, ksk |-> k])
      BY <2>2 DEF MakeKsk, Goto, Stop
    <3>2. x.pc \in {"idle", "dsk"} /\ (x.pc # "idle" => x.zone = tool[t].zone)
      BY <3>1 DEF Idle
    <3> QED BY <3>1, <3>2
  <2>3. CASE MakeDsk(t)
    <3>1. PICK d : /\ dflt' = [dflt EXCEPT ![tool[t].zone] = d]
                   /\ tool' = [tool EXCEPT ![t] = [pc |-> "add", zone |-> tool[t].zone, cert |->
                                [ksk |-> tool[t].ksk, dsk |-> d, dkey |-> tool[t].dkey]]]
      BY <2>3 DEF MakeDsk, Goto
    <3>2. dflt'[tool[t].zone] = d
      BY <1>2, <3>1
    <3>3. PICK x : x = [pc |-> "add", zone |-> tool[t].zone, cert |->
                          [ksk |-> tool[t].ksk, dsk |-> d, dkey |-> tool[t].dkey]]
      OBVIOUS
    <3>4. x.pc = "add" /\ x.zone = tool[t].zone /\ x.cert.dsk = d
      BY <3>3
    <3>5. tool' = [tool EXCEPT ![t] = x]
      BY <3>1, <3>3
    <3> QED BY <3>2, <3>4, <3>5
  <2> QED BY <2>1, <2>2, <2>3
<1> QED BY <1>1, <1>3, <1>4, MakeOwn

LEMMA AddZoneOwn ==
  ASSUME Typed, OwnInv, NEW t \in Tools, AddZone(t)
  PROVE  OwnInv'
<1>1. UNCHANGED <<info, rows, keys, dflt, ops, complete, contested>> /\ tool[t].pc = "add"
  BY DEF AddZone
<1>2. CASE FindZone(tool[t].zone) # {}
  BY <1>1, <1>2, StopOwn DEF AddZone
<1>3. CASE FindZone(tool[t].zone) = {}
  <2>1. PICK z : z = [id |-> NextId(zones), name |-> tool[t].zone, inc |-> born + 1]
    OBVIOUS
  <2>2. PICK r : r = [pc |-> "certs", zone |-> tool[t].zone, cert |-> tool[t].cert, at |-> z, i |-> 1]
    OBVIOUS
  <2>3. /\ zones' = zones \cup {z} /\ born' = born + 1 /\ tool' = [tool EXCEPT ![t] = r]
    BY <1>3, <2>1, <2>2 DEF AddZone, Goto
  <2>4. tool'[t] = r /\ \A u \in Tools : u # t => tool'[u] = tool[u]
    BY <2>3, OneMoves
  <2>5. /\ r.pc = "certs" /\ r.zone = tool[t].zone /\ r.cert = tool[t].cert /\ r.at = z
        /\ z.id = NextId(zones) /\ z.name = tool[t].zone /\ z.inc = born + 1
    BY <2>1, <2>2
  <2>n. NextId(zones) \in 1 .. born + 1 /\ \A y \in zones : y.id < NextId(zones)
    BY NextZoneId
  <2>6. /\ born \in Nat /\ \A y \in zones : y.id < z.id /\ y.id \in Nat /\ y.inc =< born /\ y.inc \in Nat
        /\ z.id \in Nat
    BY <2>5, <2>n DEF Typed, TypeOK, Bounded
  <2>7. \A y \in zones : y.id # z.id /\ y.name # z.name /\ y.inc # z.inc
    BY <1>3, <2>5, <2>6 DEF FindZone
  <2>8. complete \subseteq Nat /\ \A k \in complete : k =< born
    BY DEF OwnInv, Distinct, Typed, TypeOK
  <2>9. Distinct'
    <3>1. \A k \in complete' : k =< born'
      BY <1>1, <2>3, <2>6, <2>8
    <3> QED BY <1>1, <2>3, <2>7, <3>1 DEF OwnInv, Distinct
  <2>10. Alone'
    BY <1>1, <2>4, <2>5 DEF OwnInv, Alone, Removing
  <2>11. z.inc \notin complete
    BY <2>5, <2>6, <2>8
  <2>12. RowsOwn' /\ InfoComplete' /\ SignerPublished'
    BY <1>1, <2>3, <2>11 DEF OwnInv, RowsOwn, InfoComplete, InfoIs, SignerPublished
  <2>13. ASSUME NEW u \in Tools PROVE ToolInv(tool[u])'
    <3>1. CASE u = t
      <4>1. tool[t].zone \notin contested => dflt[tool[t].zone] = tool[t].cert.dsk
        BY <1>1 DEF OwnInv, ToolInv, InZone, NotThere, Signs, Publishes, Informed, Reads, Unfinished
      <4>2. tool'[u] = r
        BY <2>4, <3>1
      <4>3. z \in zones'
        BY <2>3
      <4> QED BY <1>1, <2>5, <4>1, <4>2, <4>3
         DEF ToolInv, InZone, NotThere, Signs, Publishes, Informed, Reads, Unfinished, Making, Filling, Removing
    <3>2. CASE u # t
      <4>1. tool'[u] = tool[u] /\ ToolInv(tool[u])
        BY <2>4, <3>2 DEF OwnInv
      <4>2. tool[u].pc \in Making /\ tool[u].zone \notin contested => tool[u].zone # z.name
        BY <1>1, <2>5, <3>2 DEF OwnInv, Alone, Making
      <4>3. InZone(tool[u])' /\ NotThere(tool[u])' /\ Signs(tool[u])'
        BY <1>1, <2>3, <4>1, <4>2 DEF ToolInv, InZone, NotThere, Signs, FindZone
      <4>4. Publishes(tool[u])' /\ Informed(tool[u])' /\ Reads(tool[u])' /\ Unfinished(tool[u])'
        BY <1>1, <4>1, ToolStays
      <4> QED BY <4>3, <4>4 DEF ToolInv
    <3> QED BY <3>1, <3>2
  <2> QED BY <2>9, <2>10, <2>12, <2>13 DEF OwnInv
<1> QED BY <1>2, <1>3

(* The zone of a tool that deletes is no other tool's. *)
LEMMA OtherZone ==
  ASSUME OwnInv, NEW t \in Tools, NEW u \in Tools, t # u,
         tool[t].pc \in Filling \cup Removing, tool[u].pc \in Filling \cup Removing,
         tool[t].pc \in Removing \/ tool[u].pc \in Removing
  PROVE  tool[t].at.id # tool[u].at.id /\ tool[t].at.inc # tool[u].at.inc /\ tool[t].at # tool[u].at
<1>1. /\ tool[t].at \in zones /\ tool[t].at.name = tool[t].zone
      /\ tool[u].at \in zones /\ tool[u].at.name = tool[u].zone
  BY DEF OwnInv, ToolInv, InZone, NotThere, Signs, Publishes, Informed, Reads, Unfinished
<1>2. tool[t].zone # tool[u].zone
  BY DEF OwnInv, Alone, Filling, Removing
<1> QED BY <1>1, <1>2 DEF OwnInv, Distinct

LEMMA AddIdCertOwn ==
  ASSUME Typed, OwnInv, NEW t \in Tools, AddIdCert(t)
  PROVE  OwnInv'
<1>1. /\ UNCHANGED <<zones, info, keys, dflt, ops, born, complete, contested>> /\ tool[t].pc = "certs"
      /\ tool[t] \in [pc : {"certs"}, zone : Names, cert : ThreeCerts, at : ZoneRows, i : 1 .. 2]
  BY ToolShape DEF AddIdCert, Typed
<1>2. PICK z, cert : z = tool[t].at /\ cert = tool[t].cert[InfoKeys[tool[t].i]]
  OBVIOUS
<1>3. CASE \E r \in rows : r.zid = z.id /\ r.rec = cert
  <2>1. Stop(t) /\ UNCHANGED rows
    BY <1>2, <1>3 DEF AddIdCert
  <2> QED BY <1>1, <2>1, StopOwn
<1>4. CASE ~\E r \in rows : r.zid = z.id /\ r.rec = cert
  <2>1. PICK q, r :
          /\ q = Row(z.id, z.inc, cert) /\ rows' = rows \cup {q}
          /\ r = (IF tool[t].i = 1 THEN [tool[t] EXCEPT !.i = 2]
                  ELSE [tool[t] EXCEPT !.pc = "info", !.i = 1])
          /\ tool' = [tool EXCEPT ![t] = r]
    BY <1>2, <1>4 DEF AddIdCert, Goto
  <2>2. cert \in Certs /\ (tool[t].i = 2 => cert = tool[t].cert.dsk) /\ z.id \in Nat \ {0} /\ z.inc \in Nat
    BY <1>1, <1>2 DEF InfoKeys, ThreeCerts, ZoneRows
  <2>3. q.id = NextId(rows) /\ q.zid = z.id /\ q.inc = z.inc /\ q.rec = cert
    BY <2>1, <2>2, RowIs
  <2>m. tool' = [tool EXCEPT ![t] = r]
    BY <2>1
  <2>4. tool'[t] = r /\ \A u \in Tools : u # t => tool'[u] = tool[u]
    BY <2>m, OneMoves
  <2>5. /\ r.zone = tool[t].zone /\ r.at = z /\ r.cert = tool[t].cert /\ r.pc \in {"certs", "info"}
        /\ r.pc = "info" => r.i = 1 /\ tool[t].i = 2
    BY <1>1, <1>2, <2>1
  <2>6. z \in zones /\ z.name = tool[t].zone
    BY <1>1, <1>2
       DEF OwnInv, ToolInv, InZone, NotThere, Signs, Publishes, Informed, Reads, Unfinished, Filling
  <2>7. Distinct'
    <3>1. \A x \in rows : x.id # q.id
      BY <2>3, NextRowId DEF Typed, TypeOK
    <3> QED BY <1>1, <2>1, <3>1 DEF OwnInv, Distinct
  <2>8. Alone'
    BY <1>1, <2>4, <2>5 DEF OwnInv, Alone, Removing
  <2>9. RowsOwn'
    BY <1>1, <2>1, <2>3, <2>6 DEF OwnInv, RowsOwn
  <2>10. InfoComplete' /\ SignerPublished'
    BY <1>1, <2>1 DEF OwnInv, InfoComplete, InfoIs, SignerPublished
  <2>11. ASSUME NEW u \in Tools PROVE ToolInv(tool[u])'
    <3>1. CASE u = t
      <4>1. tool[t].zone \notin contested => dflt[tool[t].zone] = tool[t].cert.dsk
        BY <1>1
           DEF OwnInv, ToolInv, InZone, NotThere, Signs, Publishes, Informed, Reads, Unfinished, Filling
      <4>2. tool'[u] = r
        BY <2>4, <3>1
      <4>3. r.pc = "info" => \E x \in rows' : x.zid = r.at.id /\ x.rec = r.cert.dsk
        BY <2>1, <2>2, <2>3, <2>5
      <4>4. \A j \in 1 .. 3 : ~(r.pc = "doe" \/ (r.pc = "info" /\ j < r.i))
        BY <2>5
      <4>5. r.pc \in Filling /\ r.pc \notin Making /\ r.pc \notin Removing
        BY <2>5 DEF Filling, Making, Removing
      <4> QED BY <1>1, <2>5, <2>6, <4>1, <4>2, <4>3, <4>4, <4>5
         DEF ToolInv, InZone, NotThere, Signs, Publishes, Informed, Reads, Unfinished, Removing
    <3>2. CASE u # t
      <4>1. tool'[u] = tool[u] /\ ToolInv(tool[u])
        BY <2>4, <3>2 DEF OwnInv
      <4>2. tool[u].pc \in Removing => tool[u].at.id # z.id
        BY <1>1, <1>2, <3>2, OtherZone DEF Filling
      <4>3. tool[u].pc \in Removing => FindRrsets(tool[u].at.id)' = FindRrsets(tool[u].at.id)
        BY <2>1, <2>3, <4>1, <4>2 DEF FindRrsets
      <4>4. tool[u].pc \in {"rows", "gone"} => tool[u].pc \in Removing
        BY DEF Removing
      <4>5. Publishes(tool[u])' /\ Reads(tool[u])'
        BY <2>1, <4>1, <4>3, <4>4 DEF ToolInv, Publishes, Reads
      <4>6. InZone(tool[u])' /\ NotThere(tool[u])' /\ Signs(tool[u])' /\ Informed(tool[u])' /\ Unfinished(tool[u])'
        BY <1>1, <4>1 DEF ToolInv, InZone, NotThere, Signs, Informed, Unfinished, InfoIs, FindZone
      <4> QED BY <4>5, <4>6 DEF ToolInv
    <3> QED BY <3>1, <3>2
  <2> QED BY <2>7, <2>8, <2>9, <2>10, <2>11 DEF OwnInv
<1> QED BY <1>3, <1>4

LEMMA SetZoneInfoOwn ==
  ASSUME Typed, OwnInv, NEW t \in Tools, SetZoneInfo(t)
  PROVE  OwnInv'
<1>1. /\ UNCHANGED <<zones, rows, keys, dflt, ops, born, complete, contested>> /\ tool[t].pc = "info"
      /\ tool[t] \in [pc : {"info", "doe"}, zone : Names, cert : ThreeCerts, at : ZoneRows, i : 1 .. 3]
  BY ToolShape DEF SetZoneInfo, Typed
<1>2. PICK z, k : z = tool[t].at /\ k = InfoKeys[tool[t].i]
  OBVIOUS
<1>3. /\ info' = WithInfo(z.id, z.inc, k, tool[t].cert[k])
      /\ tool' = [tool EXCEPT ![t] = IF tool[t].i < Len(InfoKeys) THEN [tool[t] EXCEPT !.i = @ + 1]
                                     ELSE [tool[t] EXCEPT !.pc = "doe"]]
  BY <1>2 DEF SetZoneInfo, Goto
<1>4. PICK r : r = IF tool[t].i < Len(InfoKeys) THEN [tool[t] EXCEPT !.i = @ + 1]
                   ELSE [tool[t] EXCEPT !.pc = "doe"]
  OBVIOUS
<1>5. tool'[t] = r /\ \A u \in Tools : u # t => tool'[u] = tool[u]
  BY <1>3, <1>4, OneMoves
<1>6. /\ r.zone = tool[t].zone /\ r.at = z /\ r.cert = tool[t].cert /\ r.pc \in {"info", "doe"}
      /\ r.pc = "info" => r.i = tool[t].i + 1
      /\ r.pc = "doe" => tool[t].i = 3
  <2>1. Len(InfoKeys) = 3
    BY DEF InfoKeys
  <2> QED BY <1>1, <1>2, <1>4, <2>1
<1>7. z \in zones /\ z.name = tool[t].zone
  BY <1>1, <1>2 DEF OwnInv, ToolInv, InZone, Filling
<1>8. InfoIs(z, k)'
  <2>1. PICK e : e = [zid |-> z.id, key |-> k, cert |-> tool[t].cert[k], inc |-> z.inc]
    OBVIOUS
  <2>2. e.zid = z.id /\ e.key = k /\ e.inc = z.inc
    BY <2>1
  <2>3. info' = {x \in info : x.zid # z.id \/ x.key # k} \cup {e}
    BY <1>3, <2>1 DEF WithInfo
  <2> QED BY <2>2, <2>3 DEF InfoIs
<1>9. ASSUME NEW y \in zones, NEW m, InfoIs(y, m) PROVE InfoIs(y, m)'
  <2>1. CASE y.id = z.id
    <3>1. y = z
      BY <1>7, <2>1 DEF OwnInv, Distinct
    <3> QED BY <1>3, <1>8, <1>9, <3>1 DEF InfoIs, WithInfo
  <2>2. CASE y.id # z.id
    <3>1. \A e : e.zid = y.id => (e \in info' <=> e \in info)
      BY <1>3, <2>2 DEF WithInfo
    <3> QED BY <1>9, <3>1 DEF InfoIs
  <2> QED BY <2>1, <2>2
<1>10. Distinct' /\ RowsOwn' /\ SignerPublished'
  BY <1>1 DEF OwnInv, Distinct, RowsOwn, SignerPublished
<1>11. InfoComplete'
  BY <1>1, <1>9 DEF OwnInv, InfoComplete
<1>12. Alone'
  BY <1>1, <1>5, <1>6 DEF OwnInv, Alone, Removing
<1>13. ASSUME NEW u \in Tools PROVE ToolInv(tool[u])'
  <2>1. CASE u = t
    <3>1. tool'[u] = r /\ ToolInv(tool[t])
      BY <1>5, <2>1 DEF OwnInv
    <3>2. Informed(tool[u])'
      <4>1. SUFFICES ASSUME NEW j \in 1 .. 3, r.pc = "doe" \/ (r.pc = "info" /\ j < r.i)
                     PROVE  InfoIs(z, InfoKeys[j])'
        BY <1>6, <3>1 DEF Informed
      <4>2. j < tool[t].i \/ j = tool[t].i
        BY <1>1, <1>6, <4>1
      <4>3. j < tool[t].i => InfoIs(z, InfoKeys[j])
        BY <1>1, <1>2, <3>1 DEF ToolInv, Informed
      <4>4. PICK m : m = InfoKeys[j]
        OBVIOUS
      <4>5. InfoIs(z, m)'
        BY <1>2, <1>7, <1>8, <1>9, <4>2, <4>3, <4>4
      <4>6. InfoKeys' = InfoKeys
        BY DEF InfoKeys
      <4> QED BY <4>4, <4>5, <4>6 DEF InfoIs
    <3>3. Publishes(tool[u])'
      BY <1>1, <1>2, <1>6, <3>1 DEF ToolInv, Publishes
    <3>4. InZone(tool[u])' /\ NotThere(tool[u])' /\ Signs(tool[u])'
      BY <1>1, <1>2, <1>6, <1>7, <3>1 DEF ToolInv, InZone, NotThere, Signs, Making, Filling
    <3>5. Reads(tool[u])' /\ Unfinished(tool[u])'
      BY <1>6, <3>1 DEF Reads, Unfinished, Removing
    <3> QED BY <3>2, <3>3, <3>4, <3>5 DEF ToolInv
  <2>2. CASE u # t
    <3>1. tool'[u] = tool[u] /\ ToolInv(tool[u])
      BY <1>5, <2>2 DEF OwnInv
    <3>2. tool[u].pc \in {"info", "doe"} => tool[u].at \in zones
      BY <3>1 DEF ToolInv, InZone, Filling
    <3>3. Informed(tool[u])'
      BY <1>9, <3>1, <3>2 DEF ToolInv, Informed, InfoKeys
    <3>4. /\ Publishes(tool[u])' /\ Reads(tool[u])' /\ Unfinished(tool[u])'
          /\ InZone(tool[u])' /\ NotThere(tool[u])' /\ Signs(tool[u])'
      BY <1>1, <3>1, ToolStays
    <3> QED BY <3>3, <3>4 DEF ToolInv
  <2> QED BY <2>1, <2>2
<1> QED BY <1>10, <1>11, <1>12, <1>13 DEF OwnInv

LEMMA GenerateDoeOwn ==
  ASSUME Typed, OwnInv, NEW t \in Tools, GenerateDoe(t)
  PROVE  OwnInv'
<1>1. /\ UNCHANGED <<zones, info, keys, dflt, ops, born, contested>> /\ tool[t].pc = "doe" /\ Stop(t)
      /\ tool[t] \in [pc : {"info", "doe"}, zone : Names, cert : ThreeCerts, at : ZoneRows, i : 1 .. 3]
  BY ToolShape DEF GenerateDoe, Typed
<1>2. PICK z : z = tool[t].at
  OBVIOUS
<1>3. z \in zones /\ z.name = tool[t].zone /\ z.id \in Nat \ {0} /\ z.inc \in Nat /\ z.inc =< born
  BY <1>1, <1>2 DEF OwnInv, ToolInv, InZone, Filling, Typed, TypeOK, Bounded
<1>4. \A y \in FindZone(tool[t].zone) : y = z
  BY <1>3 DEF FindZone, OwnInv, Distinct
<1>5. PICK q : /\ q = Row(z.id, z.inc, DoeRec)
               /\ rows' = {r \in rows : r.zid # z.id \/ r.rec # DoeRec} \cup {q}
               /\ complete' = complete \cup {z.inc}
  <2>1. z \in FindZone(tool[t].zone)
    BY <1>3 DEF FindZone
  <2>2. \E y \in FindZone(tool[t].zone) :
            /\ rows' = {r \in rows : r.zid # y.id \/ r.rec # DoeRec} \cup {Row(y.id, y.inc, DoeRec)}
            /\ complete' = complete \cup {y.inc}
    BY <2>1 DEF GenerateDoe
  <2> QED BY <1>4, <2>2
<1>6. q.id = NextId(rows) /\ q.zid = z.id /\ q.inc = z.inc /\ q.rec = DoeRec
  BY <1>3, <1>5, RowIs
<1>7. tool'[t] = Idle /\ Idle.pc = "idle" /\ \A u \in Tools : u # t => tool'[u] = tool[u]
  BY <1>1, OneMoves DEF Stop, Goto, Idle
<1>8. \A c \in Certs : c # DoeRec
  BY DEF Certs, DoeRec
<1>9. Distinct'
  <2>1. \A x \in rows : x.id # q.id
    BY <1>6, NextRowId DEF Typed, TypeOK
  <2>2. \A x, y \in rows' : x.id = y.id => x = y
    BY <1>5, <2>1 DEF OwnInv, Distinct
  <2>3. \A m \in complete' : m =< born'
    BY <1>1, <1>3, <1>5 DEF OwnInv, Distinct
  <2> QED BY <1>1, <2>2, <2>3 DEF OwnInv, Distinct
<1>10. Alone'
  BY <1>1, <1>7 DEF OwnInv, Alone
<1>11. RowsOwn'
  BY <1>1, <1>3, <1>5, <1>6 DEF OwnInv, RowsOwn
<1>12. InfoComplete'
  <2>1. \A j \in 1 .. 3 : InfoIs(z, InfoKeys[j])
    BY <1>1, <1>2 DEF OwnInv, ToolInv, Informed
  <2>2. \A y \in zones : y.inc \in complete' => y.inc \in complete \/ y = z
    BY <1>3, <1>5 DEF OwnInv, Distinct
  <2>3. \A y \in zones : y.inc \in complete' => \A j \in 1 .. 3 : InfoIs(y, InfoKeys[j])
    BY <2>1, <2>2 DEF OwnInv, InfoComplete
  <2> QED BY <1>1, <2>3 DEF InfoComplete, InfoIs
<1>13. SignerPublished'
  <2>1. ASSUME NEW y \in zones, y.inc \in complete', y.name \notin contested
        PROVE  \E r \in rows' : r.zid = y.id /\ r.rec = dflt[y.name]
    <3>1. CASE y = z
      <4>1. PICK r \in rows : r.zid = z.id /\ r.rec = tool[t].cert.dsk
        BY <1>1, <1>2 DEF OwnInv, ToolInv, Publishes
      <4>2. dflt[z.name] = tool[t].cert.dsk
        BY <1>1, <1>3, <2>1, <3>1 DEF OwnInv, ToolInv, Signs, Filling
      <4>3. tool[t].cert.dsk # DoeRec
        BY <1>1, <1>8 DEF ThreeCerts
      <4> QED BY <1>5, <3>1, <4>1, <4>2, <4>3
    <3>2. CASE y # z
      <4>1. y.inc \in complete /\ y.id # z.id
        BY <1>3, <1>5, <2>1, <3>2 DEF OwnInv, Distinct
      <4>2. PICK r \in rows : r.zid = y.id /\ r.rec = dflt[y.name]
        BY <2>1, <4>1 DEF OwnInv, SignerPublished
      <4> QED BY <1>5, <4>1, <4>2
    <3> QED BY <3>1, <3>2
  <2> QED BY <1>1, <2>1 DEF SignerPublished
<1>14. ASSUME NEW u \in Tools PROVE ToolInv(tool[u])'
  <2>1. CASE u = t
    BY <1>7, <2>1 DEF ToolInv, InZone, NotThere, Signs, Publishes, Informed, Reads, Unfinished,
       Making, Filling, Removing
  <2>2. CASE u # t
    <3>1. tool'[u] = tool[u] /\ ToolInv(tool[u]) /\ tool[u] \in ToolStates
      BY <1>7, <2>2 DEF OwnInv, Typed
    <3>2. tool[u].pc \in Removing => tool[u].at.id # z.id /\ tool[u].at.inc # z.inc
      BY <1>1, <1>2, <2>2, OtherZone DEF Filling
    <3>3. tool[u].pc \in Removing => FindRrsets(tool[u].at.id)' = FindRrsets(tool[u].at.id)
      BY <1>5, <1>6, <3>1, <3>2 DEF FindRrsets
    <3>4. Reads(tool[u])'
      BY <3>1, <3>3 DEF ToolInv, Reads, Removing
    <3>5. Publishes(tool[u])'
      <4>1. tool[u].pc \in {"info", "doe"} => tool[u].cert.dsk # DoeRec
        BY <1>8, <3>1, ToolShape DEF ThreeCerts
      <4> QED BY <1>5, <3>1, <4>1 DEF ToolInv, Publishes
    <3>6. Unfinished(tool[u])'
      BY <1>5, <3>1, <3>2 DEF ToolInv, Unfinished
    <3>7. Informed(tool[u])' /\ InZone(tool[u])' /\ NotThere(tool[u])' /\ Signs(tool[u])'
      BY <1>1, <3>1, ToolStays
    <3> QED BY <3>4, <3>5, <3>6, <3>7 DEF ToolInv
  <2> QED BY <2>1, <2>2
<1> QED BY <1>9, <1>10, <1>11, <1>12, <1>13, <1>14 DEF OwnInv

LEMMA StartDeleteOwn ==
  ASSUME DeleteAlone, Typed, OwnInv, NEW t \in Tools, NEW z \in zones, StartDelete(t, z)
  PROVE  OwnInv'
<1>1. PICK r : r = [pc |-> "read", zone |-> z.name, at |-> z]
  OBVIOUS
<1>2. /\ UNCHANGED <<zones, info, rows, keys, dflt, born>>
      /\ complete' = complete \ {z.inc} /\ contested' = contested \ {z.name}
      /\ tool' = [tool EXCEPT ![t] = r]
      /\ \A u \in Tools : ~Working(u, z.name)
  BY <1>1 DEF StartDelete, Goto
<1>3. tool'[t] = r /\ \A u \in Tools : u # t => tool'[u] = tool[u]
  BY <1>2, OneMoves
<1>4. r.pc = "read" /\ r.zone = z.name /\ r.at = z
  BY <1>1
<1>5. \A u \in Tools : tool[u].pc # "idle" => tool[u].zone # z.name
  BY <1>2 DEF Working
<1>6. Distinct' /\ RowsOwn' /\ InfoComplete'
  BY <1>2 DEF OwnInv, Distinct, RowsOwn, InfoComplete, InfoIs
<1>7. SignerPublished'
  <2>1. ASSUME NEW y \in zones, y.inc \in complete', y.name \notin contested'
        PROVE  y.inc \in complete /\ y.name \notin contested
    <3>1. y # z
      BY <1>2, <2>1
    <3>2. y.name # z.name
      BY <3>1 DEF OwnInv, Distinct
    <3> QED BY <1>2, <2>1, <3>2
  <2> QED BY <1>2, <2>1 DEF OwnInv, SignerPublished
<1>8. Alone'
  <2>1. SUFFICES ASSUME NEW u \in Tools, NEW v \in Tools, u # v,
                        tool'[u].pc # "idle", tool'[v].pc # "idle", tool'[u].zone = tool'[v].zone
                 PROVE  ~(tool'[u].pc \in Removing \/ tool'[u].zone \notin contested')
    BY DEF Alone
  <2>2. CASE u = t \/ v = t
    BY <1>3, <1>4, <1>5, <2>1, <2>2
  <2>3. CASE u # t /\ v # t
    <3>1. tool'[u] = tool[u] /\ tool'[v] = tool[v]
      BY <1>3, <2>3
    <3>2. ~(tool[u].pc \in Removing \/ tool[u].zone \notin contested)
      BY <2>1, <3>1 DEF OwnInv, Alone
    <3> QED BY <1>2, <1>5, <2>1, <3>1, <3>2
  <2> QED BY <2>2, <2>3
<1>9. ASSUME NEW u \in Tools PROVE ToolInv(tool[u])'
  <2>1. CASE u = t
    BY <1>2, <1>3, <1>4, <2>1
       DEF ToolInv, InZone, NotThere, Signs, Publishes, Informed, Reads, Unfinished, Making, Filling, Removing
  <2>2. CASE u # t
    <3>1. tool'[u] = tool[u] /\ ToolInv(tool[u])
      BY <1>3, <2>2 DEF OwnInv
    <3>2. tool[u].pc \in Making \cup Filling => tool[u].pc # "idle"
      BY DEF Making, Filling
    <3>3. NotThere(tool[u])'
      BY <1>2, <1>5, <3>1, <3>2 DEF ToolInv, NotThere, FindZone
    <3>4. Signs(tool[u])'
      BY <1>2, <1>5, <3>1, <3>2 DEF ToolInv, Signs, Making
    <3>5. InZone(tool[u])' /\ Unfinished(tool[u])'
      BY <1>2, <3>1 DEF ToolInv, InZone, Unfinished
    <3>6. Publishes(tool[u])' /\ Reads(tool[u])' /\ Informed(tool[u])'
      BY <1>2, <3>1, ToolStays
    <3> QED BY <3>3, <3>4, <3>5, <3>6 DEF ToolInv
  <2> QED BY <2>1, <2>2
<1> QED BY <1>6, <1>7, <1>8, <1>9 DEF OwnInv

(* deleteZone finds the records and, these removed, the zone. *)
LEMMA FindOwn ==
  ASSUME Typed, OwnInv, NEW t \in Tools, ReadRrsets(t) \/ FindForRemoval(t)
  PROVE  OwnInv'
<1>1. /\ UNCHANGED <<zones, info, rows, keys, dflt, ops, born, complete, contested>>
      /\ tool[t].pc \in {"read", "rows"} /\ tool[t].pc \in Removing /\ tool[t].pc # "idle"
  BY DEF ReadRrsets, FindForRemoval, Removing
<1>2. ToolInv(tool[t]) /\ tool[t].at \in zones /\ tool[t].at.name = tool[t].zone
      /\ tool[t].at.inc \notin complete
  BY <1>1 DEF OwnInv, ToolInv, InZone, Unfinished
<1>3. CASE Stop(t)
  BY <1>1, <1>3, StopOwn
<1>4. CASE \E r : /\ tool' = [tool EXCEPT ![t] = r] /\ r.zone = tool[t].zone /\ r.at = tool[t].at
                  /\ r.pc \in {"rows", "gone"}
                  /\ r.pc = "rows" => r.left = FindRrsets(r.at.id)
                  /\ r.pc = "gone" => FindRrsets(r.at.id) = {}
  <2>1. PICK r : /\ tool' = [tool EXCEPT ![t] = r] /\ r.zone = tool[t].zone /\ r.at = tool[t].at
                 /\ r.pc \in {"rows", "gone"}
                 /\ r.pc = "rows" => r.left = FindRrsets(r.at.id)
                 /\ r.pc = "gone" => FindRrsets(r.at.id) = {}
    BY <1>4
  <2>2. tool'[t] = r /\ \A u \in Tools : u # t => tool'[u] = tool[u]
    BY <2>1, OneMoves
  <2>3. Distinct' /\ RowsOwn' /\ InfoComplete' /\ SignerPublished'
    BY <1>1 DEF OwnInv, Distinct, RowsOwn, InfoComplete, InfoIs, SignerPublished
  <2>4. Alone'
    BY <1>1, <2>1, <2>2 DEF OwnInv, Alone
  <2>5. ASSUME NEW u \in Tools PROVE ToolInv(tool[u])'
    <3>1. CASE u = t
      <4>1. Reads(tool[u])'
        <5>1. FindRrsets(r.at.id)' = FindRrsets(r.at.id)
          BY <1>1 DEF FindRrsets
        <5>2. tool'[u] = r
          BY <2>2, <3>1
        <5> QED BY <2>1, <5>1, <5>2 DEF Reads, FindRrsets
      <4>2. InZone(tool[u])' /\ Unfinished(tool[u])'
        BY <1>1, <1>2, <2>1, <2>2, <3>1 DEF InZone, Unfinished
      <4>3. NotThere(tool[u])' /\ Signs(tool[u])' /\ Publishes(tool[u])' /\ Informed(tool[u])'
        BY <2>1, <2>2, <3>1 DEF NotThere, Signs, Publishes, Informed, Making, Filling
      <4> QED BY <4>1, <4>2, <4>3 DEF ToolInv
    <3>2. CASE u # t
      <4>1. tool'[u] = tool[u] /\ ToolInv(tool[u])
        BY <2>2, <3>2 DEF OwnInv
      <4> QED BY <1>1, <4>1, ToolStays DEF ToolInv
    <3> QED BY <3>1, <3>2
  <2> QED BY <2>3, <2>4, <2>5 DEF OwnInv
<1>5. CASE ReadRrsets(t)
  <2>1. PICK r : r = [pc |-> "rows", zone |-> tool[t].zone, at |-> tool[t].at,
                      left |-> FindRrsets(tool[t].at.id)]
    OBVIOUS
  <2>2. tool' = [tool EXCEPT ![t] = r]
    BY <1>5, <2>1 DEF ReadRrsets, Goto
  <2>3. r.pc = "rows" /\ r.zone = tool[t].zone /\ r.at = tool[t].at /\ r.left = FindRrsets(r.at.id)
    BY <2>1
  <2> QED BY <1>4, <2>2, <2>3
<1>6. CASE FindForRemoval(t) /\ ~Stop(t)
  <2>1. PICK z \in FindZone(tool[t].zone) :
          tool' = [tool EXCEPT ![t] = [pc |-> "gone", zone |-> tool[t].zone, at |-> z]]
    BY <1>6 DEF FindForRemoval, Goto
  <2>2. z = tool[t].at
    BY <1>2, <2>1 DEF FindZone, OwnInv, Distinct
  <2>3. FindRrsets(tool[t].at.id) = {}
    BY <1>2, <1>6 DEF FindForRemoval, ToolInv, Reads
  <2>4. PICK r : r = [pc |-> "gone", zone |-> tool[t].zone, at |-> z]
    OBVIOUS
  <2>5. tool' = [tool EXCEPT ![t] = r] /\ r.pc = "gone" /\ r.zone = tool[t].zone /\ r.at = tool[t].at
    BY <2>1, <2>2, <2>4
  <2> QED BY <1>4, <2>3, <2>5
<1> QED BY <1>3, <1>5, <1>6

LEMMA RemoveRrsetOwn ==
  ASSUME Typed, OwnInv, NEW t \in Tools, RemoveRrset(t)
  PROVE  /\ OwnInv'
         /\ \A x \in rows \ rows' : tool[t].pc = "rows" /\ tool[t].at.inc = x.inc
<1>1. /\ UNCHANGED <<zones, info, keys, dflt, ops, born, complete, contested>> /\ tool[t].pc = "rows"
      /\ tool[t] \in [pc : {"rows"}, zone : Names, at : ZoneRows, left : SUBSET Nat]
  BY ToolShape DEF RemoveRrset, Typed
<1>2. PICK id \in tool[t].left : /\ rows' = {x \in rows : x.id # id}
                                 /\ tool' = [tool EXCEPT ![t] = [tool[t] EXCEPT !.left = @ \ {id}]]
  BY DEF RemoveRrset, Goto
<1>3. PICK r : r = [tool[t] EXCEPT !.left = @ \ {id}]
  OBVIOUS
<1>4. tool'[t] = r /\ \A u \in Tools : u # t => tool'[u] = tool[u]
  BY <1>2, <1>3, OneMoves
<1>5. r.pc = "rows" /\ r.zone = tool[t].zone /\ r.at = tool[t].at /\ r.left = tool[t].left \ {id}
  BY <1>1, <1>3
<1>6. PICK z : z = tool[t].at
  OBVIOUS
<1>7. /\ z \in zones /\ z.name = tool[t].zone /\ z.inc \notin complete
      /\ tool[t].left = {x.id : x \in {y \in rows : y.zid = z.id}}
  BY <1>1, <1>6 DEF OwnInv, ToolInv, InZone, Unfinished, Reads, Removing, FindRrsets
<1>8. \A x \in rows \ rows' : x.zid = z.id
  <2>1. PICK y \in rows : y.zid = z.id /\ y.id = id
    BY <1>2, <1>7
  <2> QED BY <1>2, <2>1 DEF OwnInv, Distinct
<1>9. \A x \in rows : x.zid # z.id => x \in rows'
  BY <1>8
<1>10. rows' \subseteq rows
  BY <1>2
<1>11. Distinct' /\ RowsOwn' /\ InfoComplete'
  BY <1>1, <1>10 DEF OwnInv, Distinct, RowsOwn, InfoComplete, InfoIs
<1>12. Alone'
  BY <1>1, <1>4, <1>5 DEF OwnInv, Alone
<1>13. SignerPublished'
  <2>1. ASSUME NEW y \in zones, y.inc \in complete PROVE y.id # z.id
    BY <1>7, <2>1 DEF OwnInv, Distinct
  <2> QED BY <1>1, <1>9, <2>1 DEF OwnInv, SignerPublished
<1>14. ASSUME NEW u \in Tools PROVE ToolInv(tool[u])'
  <2>1. CASE u = t
    <3>1. Reads(tool[u])'
      <4>1. r.left = {x.id : x \in {y \in rows' : y.zid = z.id}}
        BY <1>2, <1>5, <1>7
      <4> QED BY <1>4, <1>5, <1>6, <2>1, <4>1 DEF Reads, FindRrsets
    <3>2. InZone(tool[u])' /\ Unfinished(tool[u])'
      BY <1>1, <1>4, <1>5, <1>6, <1>7, <2>1 DEF InZone, Unfinished
    <3>3. NotThere(tool[u])' /\ Signs(tool[u])' /\ Publishes(tool[u])' /\ Informed(tool[u])'
      BY <1>4, <1>5, <2>1 DEF NotThere, Signs, Publishes, Informed, Making, Filling
    <3> QED BY <3>1, <3>2, <3>3 DEF ToolInv
  <2>2. CASE u # t
    <3>1. tool'[u] = tool[u] /\ ToolInv(tool[u])
      BY <1>4, <2>2 DEF OwnInv
    <3>2. tool[u].pc \in Filling \cup Removing => tool[u].at.id # z.id
      BY <1>1, <1>6, <2>2, OtherZone DEF Removing
    <3>3. tool[u].pc \in Removing => FindRrsets(tool[u].at.id)' = FindRrsets(tool[u].at.id)
      BY <1>9, <1>10, <3>1, <3>2 DEF FindRrsets
    <3>4. Reads(tool[u])'
      BY <3>1, <3>3 DEF ToolInv, Reads, Removing
    <3>5. Publishes(tool[u])'
      BY <1>9, <3>1, <3>2 DEF ToolInv, Publishes, Filling
    <3>6. /\ Unfinished(tool[u])' /\ Informed(tool[u])'
          /\ InZone(tool[u])' /\ NotThere(tool[u])' /\ Signs(tool[u])'
      BY <1>1, <3>1, ToolStays
    <3> QED BY <3>4, <3>5, <3>6 DEF ToolInv
  <2> QED BY <2>1, <2>2
<1>15. \A x \in rows \ rows' : tool[t].at.inc = x.inc
  BY <1>6, <1>7, <1>8 DEF OwnInv, RowsOwn, Distinct
<1> QED BY <1>1, <1>11, <1>12, <1>13, <1>14, <1>15 DEF OwnInv

LEMMA RemoveZoneOwn ==
  ASSUME Typed, OwnInv, NEW t \in Tools, RemoveZone(t)
  PROVE  OwnInv'
<1>1. /\ UNCHANGED <<info, rows, keys, dflt, ops, born, complete, contested>> /\ tool[t].pc = "gone"
      /\ zones' = {y \in zones : y.id # tool[t].at.id} /\ Stop(t)
  BY DEF RemoveZone
<1>2. PICK z : z = tool[t].at
  OBVIOUS
<1>3. z \in zones /\ z.name = tool[t].zone /\ \A x \in rows : x.zid # z.id
  <2>1. z \in zones /\ z.name = tool[t].zone
    BY <1>1, <1>2 DEF OwnInv, ToolInv, InZone, Removing
  <2>2. FindRrsets(z.id) = {}
    BY <1>1, <1>2 DEF OwnInv, ToolInv, Reads
  <2>3. \A x \in rows : x.zid = z.id => x.id \in FindRrsets(z.id)
    BY DEF FindRrsets
  <2> QED BY <2>1, <2>2, <2>3
<1>4. tool'[t] = Idle /\ Idle.pc = "idle" /\ \A u \in Tools : u # t => tool'[u] = tool[u]
  BY <1>1, OneMoves DEF Stop, Goto, Idle
<1>5. zones' \subseteq zones /\ \A y \in zones : y.id # z.id => y \in zones'
  BY <1>1, <1>2
<1>6. Distinct' /\ InfoComplete' /\ SignerPublished'
  BY <1>1, <1>5 DEF OwnInv, Distinct, InfoComplete, InfoIs, SignerPublished
<1>7. RowsOwn'
  BY <1>1, <1>3, <1>5 DEF OwnInv, RowsOwn
<1>8. Alone'
  BY <1>1, <1>4 DEF OwnInv, Alone
<1>9. ASSUME NEW u \in Tools PROVE ToolInv(tool[u])'
  <2>1. CASE u = t
    BY <1>4, <2>1 DEF ToolInv, InZone, NotThere, Signs, Publishes, Informed, Reads, Unfinished,
       Making, Filling, Removing
  <2>2. CASE u # t
    <3>1. tool'[u] = tool[u] /\ ToolInv(tool[u])
      BY <1>4, <2>2 DEF OwnInv
    <3>2. tool[u].pc \in Filling \cup Removing => tool[u].at.id # z.id
      BY <1>1, <1>2, <2>2, OtherZone DEF Removing
    <3>3. InZone(tool[u])' /\ NotThere(tool[u])' /\ Signs(tool[u])'
      BY <1>1, <1>5, <3>1, <3>2 DEF ToolInv, InZone, NotThere, Signs, FindZone
    <3>4. Publishes(tool[u])' /\ Informed(tool[u])' /\ Reads(tool[u])' /\ Unfinished(tool[u])'
      BY <1>1, <3>1, ToolStays
    <3> QED BY <3>3, <3>4 DEF ToolInv
  <2> QED BY <2>1, <2>2
<1> QED BY <1>6, <1>7, <1>8, <1>9 DEF OwnInv

LEMMA OwnStep == DeleteAlone /\ TypeInv /\ OwnInv /\ [Next]_vars => OwnInv'
<1>1. SUFFICES ASSUME DeleteAlone, TypeInv, OwnInv, [Next]_vars PROVE OwnInv'
  OBVIOUS
<1>2. Typed
  BY <1>1 DEF TypeInv
<1>3. CASE UNCHANGED vars
  <2>1. Distinct' /\ RowsOwn' /\ InfoComplete' /\ SignerPublished'
    BY <1>1, <1>3 DEF vars, OwnInv, Distinct, RowsOwn, InfoComplete, InfoIs, SignerPublished
  <2>2. Alone'
    BY <1>1, <1>3 DEF vars, OwnInv, Alone
  <2>3. ASSUME NEW u \in Tools PROVE ToolInv(tool[u])'
    <3>1. tool'[u] = tool[u] /\ ToolInv(tool[u])
      BY <1>1, <1>3 DEF vars, OwnInv
    <3> QED BY <1>3, <3>1, ToolStays DEF vars, ToolInv
  <2> QED BY <2>1, <2>2, <2>3 DEF OwnInv
<1>4. CASE Next
  <2>1. \A t \in Tools : Kill(t) => OwnInv'
    BY <1>1, <1>2, StopOwn DEF Kill
  <2>2. \A t \in Tools : ToolStep(t) => OwnInv'
    BY <1>1, <1>2, MakeStepsOwn, AddZoneOwn, AddIdCertOwn, SetZoneInfoOwn, GenerateDoeOwn,
       FindOwn, RemoveRrsetOwn, RemoveZoneOwn DEF ToolStep
  <2>3. \A t \in Tools, req \in CreateReqs : StartCreate(t, req) => OwnInv'
    BY <1>1, <1>2, StartCreateOwn
  <2>4. \A t \in Tools, z \in zones : StartDelete(t, z) => OwnInv'
    BY <1>1, <1>2, StartDeleteOwn
  <2> QED BY <1>4, <2>1, <2>2, <2>3, <2>4 DEF Next
<1> QED BY <1>1, <1>3, <1>4

(* Only deleteZone, in its loop, and generateDoe remove a row. *)
LEMMA RemovesStep ==
  ASSUME TypeInv, OwnInv, [Next]_vars
  PROVE  \A r \in rows \ rows' :
           r.rec # DoeRec => \E t \in Tools : tool[t].pc = "rows" /\ tool[t].at.inc = r.inc
<1>1. Typed
  BY DEF TypeInv
<1>2. CASE \E t \in Tools : RemoveRrset(t)
  BY <1>1, <1>2, RemoveRrsetOwn
<1>3. CASE \E t \in Tools : GenerateDoe(t)
  BY <1>3 DEF GenerateDoe
<1>4. CASE ~(\E t \in Tools : RemoveRrset(t) \/ GenerateDoe(t))
  <2>1. rows \subseteq rows'
    BY <1>4 DEF Next, ToolStep, vars, StartCreate, BeginCreate, StartDelete, MakeDkey, MakeKsk, MakeDsk,
       AddZone, AddIdCert, SetZoneInfo, ReadRrsets, FindForRemoval, RemoveZone, Kill
  <2> QED BY <2>1
<1> QED BY <1>2, <1>3, <1>4

LEMMA OwnImplies == TypeInv /\ OwnInv => RowsOwn /\ InfoOwn /\ SignerPublished
<1>1. SUFFICES ASSUME TypeInv, OwnInv PROVE InfoOwn
  BY DEF OwnInv
<1>2. SUFFICES ASSUME NEW z \in zones, z.inc \in complete
               PROVE  LET own == {e \in info : e.zid = z.id}
                      IN {e.key : e \in own} = Range(InfoKeys) /\ \A e \in own : e.inc = z.inc
  BY DEF InfoOwn
<1>3. InfoIs(z, "ksk") /\ InfoIs(z, "dsk") /\ InfoIs(z, "dkey")
  BY <1>1, <1>2 DEF OwnInv, InfoComplete, InfoKeys
<1>4. Range(InfoKeys) = {"ksk", "dsk", "dkey"}
  BY DEF Range, InfoKeys
<1>5. \A e \in info : e.key \in {"ksk", "dsk", "dkey"}
  BY <1>1, <1>4 DEF TypeInv, Typed, TypeOK
<1> QED BY <1>3, <1>4, <1>5 DEF InfoIs

-----------------------------------------------------------------------------
(* The daemon beside the tools. *)
(* What the daemon keeps stays right: a tool still filling the zone will    *)
(* publish the certificate the daemon signs with, or has.                   *)
ServerOk(s) ==
  s.at \in zones /\ s.cert.use = "zone" /\ s.at.name \notin contested =>
    /\ \A t \in Tools : tool[t].pc \in Filling /\ tool[t].at = s.at => tool[t].cert.dsk = s.cert
    /\ s.at.inc \in complete => \E r \in rows : r.zid = s.at.id /\ r.rec = s.cert

ServerInv == \A s \in Served : s.at.inc \in Nat /\ s.at.inc =< born /\ ServerOk(s)

(* A tool that fills a zone did so before, or has just added the zone. *)
LEMMA FillingStep ==
  ASSUME Typed, Next, NEW u \in Tools, tool'[u].pc \in Filling
  PROVE  \/ /\ tool[u].pc \in Filling /\ tool'[u].at = tool[u].at
            /\ tool'[u].cert.dsk = tool[u].cert.dsk
         \/ tool'[u].at.inc = born + 1
<1>1. PICK t \in Tools : (\E req \in CreateReqs : StartCreate(t, req))
                          \/ (\E z \in zones : StartDelete(t, z)) \/ ToolStep(t) \/ Kill(t)
  <2> USE DEF Next
  <2> QED OBVIOUS
<1>2. CASE u # t
  <2>1. tool'[u] = tool[u]
    <3>1. \E r : tool' = [tool EXCEPT ![t] = r]
      BY <1>1 DEF ToolStep, StartCreate, BeginCreate, StartDelete, MakeDkey, MakeKsk, MakeDsk, AddZone,
         AddIdCert, SetZoneInfo, GenerateDoe, ReadRrsets, RemoveRrset, FindForRemoval, RemoveZone, Kill,
         Goto, Stop
    <3> QED BY <1>2, <3>1, OneMoves
  <2> QED BY <2>1
<1>3. CASE u = t
  <2>1. tool[t] \in ToolStates
    BY DEF Typed
  <2>2. CASE Kill(t) \/ RemoveZone(t) \/ GenerateDoe(t)
    <3>1. tool'[t] = Idle
      BY <2>2, OneMoves DEF Kill, RemoveZone, GenerateDoe, Stop, Goto
    <3> QED BY <1>3, <3>1 DEF Idle, Filling
  <2>3. CASE ReadRrsets(t) \/ RemoveRrset(t) \/ FindForRemoval(t)
    <3>1. \E r : tool' = [tool EXCEPT ![t] = r] /\ r.pc \notin Filling
      <4>1. CASE ReadRrsets(t)
        <5>1. PICK r : r = [pc |-> "rows", zone |-> tool[t].zone, at |-> tool[t].at,
                            left |-> FindRrsets(tool[t].at.id)]
          OBVIOUS
        <5>2. r.pc = "rows" /\ tool' = [tool EXCEPT ![t] = r]
          BY <4>1, <5>1 DEF ReadRrsets, Goto
        <5> QED BY <5>2 DEF Filling
      <4>2. CASE RemoveRrset(t)
        <5>1. tool[t] \in [pc : {"rows"}, zone : Names, at : ZoneRows, left : SUBSET Nat]
          BY <2>1, <4>2, ToolShape DEF RemoveRrset
        <5>2. PICK id : tool' = [tool EXCEPT ![t] = [tool[t] EXCEPT !.left = @ \ {id}]]
          BY <4>2 DEF RemoveRrset, Goto
        <5>3. [tool[t] EXCEPT !.left = @ \ {id}].pc = "rows"
          BY <5>1
        <5> QED BY <5>2, <5>3 DEF Filling
      <4>3. CASE FindForRemoval(t)
        <5>1. \A z : [pc |-> "gone", zone |-> tool[t].zone, at |-> z].pc \notin Filling
          BY DEF Filling
        <5>2. Idle.pc \notin Filling
          BY DEF Idle, Filling
        <5> QED BY <4>3, <5>1, <5>2 DEF FindForRemoval, Goto, Stop
      <4> QED BY <2>3, <4>1, <4>2, <4>3
    <3> QED BY <1>3, <3>1, OneMoves
  <2>4. CASE (\E req \in CreateReqs : StartCreate(t, req)) \/ (\E z \in zones : StartDelete(t, z))
    <3>1. \E r : tool' = [tool EXCEPT ![t] = r] /\ r.pc \in {"keys", "read"}
      <4>1. \A req : [pc |-> "keys", zone |-> req.zone, req |-> req].pc = "keys"
        OBVIOUS
      <4>2. \A z : [pc |-> "read", zone |-> z.name, at |-> z].pc = "read"
        OBVIOUS
      <4> QED BY <2>4, <4>1, <4>2 DEF StartCreate, BeginCreate, StartDelete, Goto
    <3> QED BY <1>3, <3>1, OneMoves DEF Filling
  <2>5. CASE MakeDkey(t) \/ MakeKsk(t) \/ MakeDsk(t)
    <3>1. \E r : tool' = [tool EXCEPT ![t] = r] /\ r.pc \in {"idle", "ksk", "dsk", "add"}
      <4>1. Idle.pc = "idle"
        BY DEF Idle
      <4>2. CASE MakeDkey(t)
        BY <4>1, <4>2 DEF MakeDkey, Goto, Stop
      <4>3. CASE MakeKsk(t)
        BY <4>1, <4>3 DEF MakeKsk, Goto, Stop
      <4>4. CASE MakeDsk(t)
        <5>1. PICK d : tool' = [tool EXCEPT ![t] = [pc |-> "add", zone |-> tool[t].zone, cert |->
                                 [ksk |-> tool[t].ksk, dsk |-> d, dkey |-> tool[t].dkey]]]
          BY <4>4 DEF MakeDsk, Goto
        <5>2. PICK r : r = [pc |-> "add", zone |-> tool[t].zone, cert |->
                             [ksk |-> tool[t].ksk, dsk |-> d, dkey |-> tool[t].dkey]]
          OBVIOUS
        <5>3. r.pc = "add" /\ tool' = [tool EXCEPT ![t] = r]
          BY <5>1, <5>2
        <5> QED BY <5>3
      <4> QED BY <2>5, <4>2, <4>3, <4>4
    <3> QED BY <1>3, <3>1, OneMoves DEF Filling
  <2>6. CASE AddZone(t)
    <3>1. PICK z : z = [id |-> NextId(zones), name |-> tool[t].zone, inc |-> born + 1]
      OBVIOUS
    <3>2. PICK r : r = [pc |-> "certs", zone |-> tool[t].zone, cert |-> tool[t].cert, at |-> z, i |-> 1]
      OBVIOUS
    <3>3. tool' = [tool EXCEPT ![t] = Idle] \/ tool' = [tool EXCEPT ![t] = r]
      BY <2>6, <3>1, <3>2 DEF AddZone, Goto, Stop
    <3>4. tool'[t] = Idle \/ tool'[t] = r
      BY <3>3, OneMoves
    <3>5. r.at.inc = born + 1
      BY <3>1, <3>2
    <3> QED BY <1>3, <3>4, <3>5 DEF Idle, Filling
  <2>7. CASE AddIdCert(t)
    <3>1. /\ tool[t].pc = "certs"
          /\ tool[t] \in [pc : {"certs"}, zone : Names, cert : ThreeCerts, at : ZoneRows, i : 1 .. 2]
      BY <2>1, <2>7, ToolShape DEF AddIdCert
    <3>2. \E r : /\ tool' = [tool EXCEPT ![t] = r]
                 /\ r \in {Idle, [tool[t] EXCEPT !.i = 2], [tool[t] EXCEPT !.pc = "info", !.i = 1]}
      BY <2>7 DEF AddIdCert, Goto, Stop
    <3>3. tool'[t] \in {Idle, [tool[t] EXCEPT !.i = 2], [tool[t] EXCEPT !.pc = "info", !.i = 1]}
      BY <3>2, OneMoves
    <3>4. tool'[t] # Idle
      BY <1>3 DEF Idle, Filling
    <3>5. tool'[t].at = tool[t].at /\ tool'[t].cert = tool[t].cert
      BY <3>1, <3>3, <3>4
    <3> QED BY <1>3, <3>1, <3>5 DEF Filling
  <2>8. CASE SetZoneInfo(t)
    <3>1. /\ tool[t].pc = "info"
          /\ tool[t] \in [pc : {"info", "doe"}, zone : Names, cert : ThreeCerts, at : ZoneRows, i : 1 .. 3]
      BY <2>1, <2>8, ToolShape DEF SetZoneInfo
    <3>2. \E r : /\ tool' = [tool EXCEPT ![t] = r]
                 /\ r \in {[tool[t] EXCEPT !.i = @ + 1], [tool[t] EXCEPT !.pc = "doe"]}
      BY <2>8 DEF SetZoneInfo, Goto
    <3>3. tool'[t] \in {[tool[t] EXCEPT !.i = @ + 1], [tool[t] EXCEPT !.pc = "doe"]}
      BY <3>2, OneMoves
    <3>4. tool'[t].at = tool[t].at /\ tool'[t].cert = tool[t].cert
      BY <3>1, <3>3
    <3> QED BY <1>3, <3>1, <3>4 DEF Filling
  <2> QED BY <1>1, <2>2, <2>3, <2>4, <2>5, <2>6, <2>7, <2>8 DEF ToolStep
<1> QED BY <1>2, <1>3

(* How the zones grow, and which zones come to be complete or lose rows. *)
LEMMA TablesStep ==
  ASSUME DeleteAlone, TypeInv, OwnInv, Next
  PROVE  /\ born' >= born
         /\ \A z \in zones' : z \in zones \/ z.inc = born + 1
         /\ \/ contested \subseteq contested'
            \/ \E z \in zones : /\ contested' = contested \ {z.name} /\ z.inc \notin complete'
                                /\ UNCHANGED <<zones, rows>> /\ complete' \subseteq complete
                                /\ \A u \in Tools : tool[u].pc # "idle" => tool[u].zone # z.name
         /\ \/ complete' \subseteq complete
            \/ \E t \in Tools : /\ tool[t].pc = "doe" /\ complete' = complete \cup {tool[t].at.inc}
                                /\ \A r \in rows \ rows' : r.rec = DoeRec
         /\ \A r \in rows \ rows' : r.rec = DoeRec \/ r.inc \notin complete
<1>1. Typed /\ born \in Nat
  BY DEF TypeInv, Typed, TypeOK
<1>2. PICK t \in Tools : (\E req \in CreateReqs : StartCreate(t, req))
                          \/ (\E z \in zones : StartDelete(t, z)) \/ ToolStep(t) \/ Kill(t)
  <2> USE DEF Next
  <2> QED OBVIOUS
<1>3. CASE \E z \in zones : StartDelete(t, z)
  BY <1>1, <1>3 DEF StartDelete, Working
<1>4. CASE AddZone(t)
  <2>1. /\ UNCHANGED <<rows, complete, contested>>
        /\ \/ UNCHANGED <<zones, born>>
           \/ /\ born' = born + 1
              /\ zones' = zones \cup {[id |-> NextId(zones), name |-> tool[t].zone, inc |-> born + 1]}
    BY <1>4 DEF AddZone
  <2> QED BY <1>1, <2>1
<1>5. CASE GenerateDoe(t)
  <2>1. UNCHANGED <<zones, born, contested>> /\ tool[t].pc = "doe"
    BY <1>5 DEF GenerateDoe
  <2>2. tool[t].at \in zones /\ tool[t].at.name = tool[t].zone
    BY <2>1 DEF OwnInv, ToolInv, InZone, Filling
  <2>3. \A y \in FindZone(tool[t].zone) : y = tool[t].at
    BY <2>2 DEF FindZone, OwnInv, Distinct
  <2>4. \A r \in rows \ rows' : r.rec = DoeRec
    BY <1>5 DEF GenerateDoe
  <2>5. complete' = complete \/ complete' = complete \cup {tool[t].at.inc}
    BY <1>5, <2>3 DEF GenerateDoe
  <2> QED BY <1>1, <2>1, <2>4, <2>5
<1>6. CASE RemoveRrset(t)
  <2>1. UNCHANGED <<zones, born, complete, contested>> /\ tool[t].pc = "rows"
    BY <1>6 DEF RemoveRrset
  <2>2. tool[t].at.inc \notin complete
    BY <2>1 DEF OwnInv, ToolInv, Unfinished, Removing
  <2>3. \A r \in rows \ rows' : r.inc \notin complete
    BY <1>1, <1>6, <2>2, RemoveRrsetOwn
  <2> QED BY <1>1, <2>1, <2>3
<1>7. CASE ~(\E z \in zones : StartDelete(t, z)) /\ ~AddZone(t) /\ ~GenerateDoe(t) /\ ~RemoveRrset(t)
  <2>1. /\ zones' \subseteq zones /\ rows \subseteq rows' /\ complete' = complete /\ born' = born
        /\ contested \subseteq contested'
    BY <1>2, <1>7 DEF ToolStep, StartCreate, BeginCreate, MakeDkey, MakeKsk, MakeDsk, AddIdCert,
       SetZoneInfo, ReadRrsets, FindForRemoval, RemoveZone, Kill
  <2> QED BY <1>1, <2>1
<1> QED BY <1>3, <1>4, <1>5, <1>6, <1>7

(* The servers there are keep what they know, whatever the tools do. *)
LEMMA ServersKeep ==
  ASSUME DeleteAlone, TypeInv, OwnInv, ServerInv, Next, UNCHANGED servers
  PROVE  ServerInv'
<1>1. Typed /\ born \in Nat
  BY DEF TypeInv, Typed, TypeOK
<1>t. /\ born' >= born
      /\ \A z \in zones' : z \in zones \/ z.inc = born + 1
      /\ \/ contested \subseteq contested'
         \/ \E z \in zones : /\ contested' = contested \ {z.name} /\ z.inc \notin complete'
                             /\ UNCHANGED <<zones, rows>> /\ complete' \subseteq complete
                             /\ \A u \in Tools : tool[u].pc # "idle" => tool[u].zone # z.name
      /\ \/ complete' \subseteq complete
         \/ \E t \in Tools : /\ tool[t].pc = "doe" /\ complete' = complete \cup {tool[t].at.inc}
                             /\ \A r \in rows \ rows' : r.rec = DoeRec
      /\ \A r \in rows \ rows' : r.rec = DoeRec \/ r.inc \notin complete
  BY TablesStep
<1>2. SUFFICES ASSUME NEW s \in Served
               PROVE  s.at.inc \in Nat /\ s.at.inc =< born' /\ ServerOk(s)'
  BY DEF ServerInv, Served, Range
<1>3. s.at.inc \in Nat /\ s.at.inc =< born /\ ServerOk(s)
  BY <1>2 DEF ServerInv
<1>4. s.at.inc =< born'
  <2>1. born' \in Nat
    BY TypesPreserved DEF TypeInv, Typed, TypeOK
  <2> QED BY <1>1, <1>3, <1>t, <2>1
<1>5. SUFFICES ASSUME s.at \in zones', s.cert.use = "zone", s.at.name \notin contested'
               PROVE  /\ \A u \in Tools : tool'[u].pc \in Filling /\ tool'[u].at = s.at =>
                                            tool'[u].cert.dsk = s.cert
                      /\ s.at.inc \in complete' => \E r \in rows' : r.zid = s.at.id /\ r.rec = s.cert
  BY <1>3, <1>4 DEF ServerOk
<1>6. s.at.inc # born + 1 /\ s.at \in zones
  BY <1>1, <1>3, <1>5, <1>t
<1>7. \A u \in Tools : tool'[u].pc \in Filling /\ tool'[u].at = s.at =>
                          tool[u].pc \in Filling /\ tool[u].at = s.at /\ tool'[u].cert.dsk = tool[u].cert.dsk
  BY <1>1, <1>6, FillingStep
<1>8. CASE s.at.name \notin contested
  <2>1. /\ \A u \in Tools : tool[u].pc \in Filling /\ tool[u].at = s.at => tool[u].cert.dsk = s.cert
        /\ s.at.inc \in complete => \E r \in rows : r.zid = s.at.id /\ r.rec = s.cert
    BY <1>3, <1>5, <1>6, <1>8 DEF ServerOk
  <2>2. s.cert # DoeRec
    BY <1>5 DEF DoeRec
  <2>3. CASE s.at.inc \in complete
    <3>1. PICK r \in rows : r.zid = s.at.id /\ r.rec = s.cert
      BY <2>1, <2>3
    <3>2. r.inc = s.at.inc
      BY <1>6, <3>1 DEF OwnInv, RowsOwn, Distinct
    <3>3. r \in rows'
      BY <1>t, <2>2, <2>3, <3>1, <3>2
    <3> QED BY <1>7, <2>1, <3>1, <3>3
  <2>4. CASE s.at.inc \notin complete /\ s.at.inc \in complete'
    <3>1. PICK t \in Tools : /\ tool[t].pc = "doe" /\ complete' = complete \cup {tool[t].at.inc}
                             /\ \A r \in rows \ rows' : r.rec = DoeRec
      BY <1>t, <2>4
    <3>2. s.at.inc = tool[t].at.inc /\ tool[t].pc \in Filling
      BY <2>4, <3>1 DEF Filling
    <3>3. tool[t].at \in zones /\ \E r \in rows : r.zid = tool[t].at.id /\ r.rec = tool[t].cert.dsk
      BY <3>1, <3>2 DEF OwnInv, ToolInv, InZone, Publishes
    <3>4. tool[t].at = s.at
      BY <1>6, <3>2, <3>3 DEF OwnInv, Distinct
    <3>5. tool[t].cert.dsk = s.cert
      BY <2>1, <3>2, <3>4
    <3>6. PICK r \in rows : r.zid = s.at.id /\ r.rec = s.cert
      BY <3>3, <3>4, <3>5
    <3>7. r \in rows'
      BY <2>2, <3>1, <3>6
    <3> QED BY <1>7, <2>1, <3>6, <3>7
  <2>5. CASE s.at.inc \notin complete'
    BY <1>7, <2>1, <2>5
  <2> QED BY <2>3, <2>4, <2>5
<1>9. CASE s.at.name \in contested
  <2>1. PICK z \in zones : /\ contested' = contested \ {z.name} /\ z.inc \notin complete'
                           /\ \A u \in Tools : tool[u].pc # "idle" => tool[u].zone # z.name
    BY <1>5, <1>9, <1>t
  <2>2. s.at.name = z.name
    BY <1>5, <1>9, <2>1
  <2>3. s.at = z
    BY <1>6, <2>2 DEF OwnInv, Distinct
  <2>4. \A u \in Tools : ~(tool[u].pc \in Filling /\ tool[u].at = s.at)
    BY <2>1, <2>2 DEF OwnInv, ToolInv, InZone, Filling
  <2> QED BY <1>7, <2>1, <2>3, <2>4
<1> QED BY <1>8, <1>9

(* processZonesSection: each server is given the zone as it is in the table *)
(* and the default certificate there is at that moment.                     *)
LEMMA DaemonStartOk ==
  ASSUME TypeInv, OwnInv, NEW conf \in Configs, DaemonStart(conf)
  PROVE  ServerInv'
<1>1. UNCHANGED vars /\ TypeOK
  BY DEF DaemonStart, TypeInv, Typed
<1>2. SUFFICES ASSUME NEW s \in Served'
               PROVE  s.at.inc \in Nat /\ s.at.inc =< born /\ ServerOk(s)
  BY <1>1 DEF ServerInv, ServerOk, vars
<1>3. CASE servers' = Down
  BY <1>2, <1>3 DEF Served, Range, Down
<1>4. CASE \A i \in DOMAIN conf : Signer(conf[i]) # {} /\ FindZone(conf[i].zone) # {}
  <2>1. servers' = [i \in DOMAIN conf |-> [at |-> CHOOSE z \in FindZone(conf[i].zone) : TRUE,
                                           cert |-> CHOOSE c \in Signer(conf[i]) : TRUE]]
    BY <1>4 DEF DaemonStart
  <2>2. PICK i \in DOMAIN conf : s = [at |-> CHOOSE z \in FindZone(conf[i].zone) : TRUE,
                                      cert |-> CHOOSE c \in Signer(conf[i]) : TRUE]
    BY <1>2, <2>1 DEF Served, Range
  <2>3. s.at \in FindZone(conf[i].zone) /\ s.cert \in Signer(conf[i])
    BY <1>4, <2>2
  <2>4. s.at \in zones /\ s.at.name = conf[i].zone
    BY <2>3 DEF FindZone
  <2>5. s.cert.use = "zone" => s.cert = dflt[s.at.name]
    BY <2>3, <2>4 DEF Signer, IdentityOf
  <2>6. s.at.inc \in Nat /\ s.at.inc =< born
    BY <2>4 DEF TypeInv, Typed, TypeOK, Bounded
  <2>7. ServerOk(s)
    <3>1. SUFFICES ASSUME s.cert.use = "zone", s.at.name \notin contested
                   PROVE  /\ \A t \in Tools : tool[t].pc \in Filling /\ tool[t].at = s.at =>
                                                tool[t].cert.dsk = s.cert
                          /\ s.at.inc \in complete => \E r \in rows : r.zid = s.at.id /\ r.rec = s.cert
      BY DEF ServerOk
    <3>2. ASSUME NEW t \in Tools, tool[t].pc \in Filling, tool[t].at = s.at
          PROVE  tool[t].cert.dsk = s.cert
      BY <2>5, <3>1, <3>2 DEF OwnInv, ToolInv, InZone, Signs
    <3>3. s.at.inc \in complete => \E r \in rows : r.zid = s.at.id /\ r.rec = s.cert
      BY <2>4, <2>5, <3>1 DEF OwnInv, SignerPublished
    <3> QED BY <3>2, <3>3
  <2> QED BY <2>6, <2>7
<1> QED BY <1>3, <1>4 DEF DaemonStart

DaemonInv == TypeInv /\ (DeleteAlone => OwnInv /\ ServerInv)

LEMMA DaemonInvInit == DaemonInit => DaemonInv
<1>1. DaemonInit => ServerInv
  BY DEF DaemonInit, Down, ServerInv, Served, Range
<1> QED BY <1>1, TypesInit, OwnInit DEF DaemonInit, DaemonInv

LEMMA DaemonInvStep == DaemonInv /\ [DaemonNext]_daemonVars => DaemonInv'
<1>1. SUFFICES ASSUME DaemonInv, [DaemonNext]_daemonVars PROVE DaemonInv'
  OBVIOUS
<1>2. [Next]_vars
  BY <1>1 DEF DaemonNext, DaemonStart, DaemonExit, daemonVars
<1>3. TypeInv /\ TypeInv'
  BY <1>1, <1>2, TypesPreserved DEF DaemonInv
<1>4. SUFFICES ASSUME DeleteAlone PROVE OwnInv' /\ ServerInv'
  BY <1>3 DEF DaemonInv
<1>5. OwnInv /\ ServerInv /\ OwnInv'
  BY <1>1, <1>2, <1>3, <1>4, OwnStep DEF DaemonInv
<1>6. CASE Next /\ UNCHANGED servers
  BY <1>3, <1>4, <1>5, <1>6, ServersKeep
<1>7. CASE \E conf \in Configs : DaemonStart(conf)
  BY <1>3, <1>5, <1>7, DaemonStartOk
<1>8. CASE DaemonExit
  <2>1. servers' = <<>>
    BY <1>8 DEF DaemonExit, Down
  <2>2. \A x : x \notin Range(servers')
    BY <2>1 DEF Range
  <2> QED BY <1>5, <2>2 DEF ServerInv, Served
<1>9. CASE UNCHANGED daemonVars
  BY <1>5, <1>9 DEF daemonVars, vars, ServerInv, ServerOk, Served, Range
<1> QED BY <1>1, <1>6, <1>7, <1>8, <1>9 DEF DaemonNext

LEMMA DaemonAlways == DaemonSpec => []DaemonInv
BY DaemonInvInit, DaemonInvStep, PTL DEF DaemonSpec

LEMMA ServesImplied == TypeInv /\ OwnInv /\ ServerInv => ServesOwn
BY DEF OwnInv, RowsOwn, Distinct, ServerInv, ServerOk, ServesOwn

-----------------------------------------------------------------------------
(* The tables, the key chain and the tools keep their types, and no id is 0, *)
(* the id that find and the tools read as "not in the database".             *)
THEOREM ZoneTypes == DaemonSpec => []TypeOK
<1>1. DaemonInv => TypeOK
  BY DEF DaemonInv, TypeInv, Typed
<1> QED BY <1>1, DaemonAlways, PTL

(* No record outlives its zone or passes to another, whatever a kill leaves *)
(* behind and although SQLite gives ids again: deleteZone removes the rows  *)
(* before the zone.                                                         *)
THEOREM RowsAlwaysOwn ==
  ASSUME DeleteAlone
  PROVE  DaemonSpec => []RowsOwn
<1>1. DaemonInv => RowsOwn
  BY OwnImplies DEF DaemonInv
<1> QED BY <1>1, DaemonAlways, PTL

(* setZoneInfo replaces whatever an earlier zone with the same id left in   *)
(* zone_info, so a zone created to the end has its own three certificates   *)
(* there and no other.                                                      *)
THEOREM InfoAlwaysOwn ==
  ASSUME DeleteAlone
  PROVE  DaemonSpec => []InfoOwn
<1>1. DaemonInv => InfoOwn
  BY OwnImplies DEF DaemonInv
<1> QED BY <1>1, DaemonAlways, PTL

(* The default key of a zone created to the end is one whose certificate    *)
(* the zone publishes, unless two tools were creating the zone at once.     *)
THEOREM SignerAlwaysPublished ==
  ASSUME DeleteAlone
  PROVE  DaemonSpec => []SignerPublished
<1>1. DaemonInv => SignerPublished
  BY OwnImplies DEF DaemonInv
<1> QED BY <1>1, DaemonAlways, PTL

(* The id and the certificate a NameServer reads once stay the zone's as    *)
(* long as the zone is there.                                               *)
THEOREM AlwaysServesOwn ==
  ASSUME DeleteAlone
  PROVE  DaemonSpec => []ServesOwn
<1>1. DaemonInv => ServesOwn
  BY ServesImplied DEF DaemonInv
<1> QED BY <1>1, DaemonAlways, PTL

(* The row ids deleteZone read before its loop have not been given to       *)
(* another zone's records when it comes to remove them.                     *)
THEOREM AlwaysRemovesOwn ==
  ASSUME DeleteAlone
  PROVE  DaemonSpec => RemovesOwn
<1>1. DaemonInv /\ [DaemonNext]_daemonVars =>
        [\A r \in rows \ rows' :
           r.rec # DoeRec => \E t \in Tools : tool[t].pc = "rows" /\ tool[t].at.inc = r.inc]_vars
  <2>1. SUFFICES ASSUME DaemonInv, [DaemonNext]_daemonVars
                 PROVE  \A r \in rows \ rows' :
                          r.rec # DoeRec => \E t \in Tools : tool[t].pc = "rows" /\ tool[t].at.inc = r.inc
    OBVIOUS
  <2>2. [Next]_vars
    BY <2>1 DEF DaemonNext, DaemonStart, DaemonExit, daemonVars
  <2> QED BY <2>1, <2>2, RemovesStep DEF DaemonInv
<1> QED BY <1>1, DaemonAlways, PTL DEF DaemonSpec, RemovesOwn
=============================================================================
