--------------------------- MODULE ZoneLifecycle ---------------------------
(***************************************************************************)
(* createZone and deleteZone of ManagementTool: the tables zones,          *)
(* zone_info and rrsets of one database file, shared by several zones, and *)
(* the key chain the zones' certificates come from.                        *)
(*                                                                         *)
(* One step is one SQL statement or one group of key chain calls of one    *)
(* tool.  A zone has an incarnation, a number that no statement reads: it  *)
(* tells a zone from an earlier one of the same name or the same id.       *)
(* A key and its one certificate are the same thing here; DoE rows are one *)
(* row per zone (module Authority has the chain itself).                   *)
(***************************************************************************)
EXTENDS Integers, Sequences, FiniteSets, FiniteSetsExt, SequencesExt

CONSTANTS
  Tools,        \* processes running ndns-create-zone or ndns-delete-zone
  Names,        \* names of zones: sequences of components, <<>> is ROOT_ZONE
  CreateReqs,   \* arguments given to createZone: [zone, parent, ksk, dsk, dkey]
  GivenCerts,   \* certificates in the key chain at the start: [use, zone, no]
  NoCert,       \* DEFAULT_CERT: the argument was not given
  MaxOps,       \* bound: commands started
  DeleteAlone,  \* nobody else works on a zone while it is deleted
  Kills         \* a tool may be killed between two statements

(* The identity of a zone's keys, of its D-keys, or with its bare name. *)
Certs == [use : {"zone", "dkey", "plain"}, zone : Names, no : Nat]

ASSUME LifecycleAssumption ==
  /\ Names \subseteq Seq(Nat)
  /\ GivenCerts \subseteq Certs /\ IsFiniteSet(GivenCerts) /\ NoCert \notin Certs
  /\ CreateReqs \subseteq [zone : Names, parent : Names, ksk : Certs \cup {NoCert},
                           dsk : Certs \cup {NoCert}, dkey : Certs \cup {NoCert}]
  /\ \A req \in CreateReqs : req.dkey = NoCert \/ req.dkey.use = "dkey"
  /\ MaxOps \in Nat /\ DeleteAlone \in BOOLEAN /\ Kills \in BOOLEAN

VARIABLES
  zones,      \* table zones: [id, name, inc]
  info,       \* table zone_info: [zid, key, cert, inc]
  rows,       \* table rrsets: [id, zid, rec, inc]
  keys,       \* certificates in the key chain
  dflt,       \* the default key of each zone's identity
  tool,       \* what each tool is doing
  ops,        \* commands started so far
  born,       \* history: zones inserted so far
  complete,   \* history: incarnations created to the end, not being deleted
  contested   \* history: zones two tools have been creating at once

vars == <<zones, info, rows, keys, dflt, tool, ops, born, complete, contested>>

InfoKeys == <<"ksk", "dsk", "dkey">>
DoeRec == [use |-> "DOE"]
Idle == [pc |-> "idle"]

Init ==
  /\ zones = {} /\ info = {} /\ rows = {}
  /\ keys = GivenCerts
  /\ dflt \in [Names -> GivenCerts \cup {NoCert}]
  /\ \A n \in Names : IF \E c \in GivenCerts : c.use = "zone" /\ c.zone = n
                      THEN dflt[n] \in GivenCerts /\ dflt[n].use = "zone" /\ dflt[n].zone = n
                      ELSE dflt[n] = NoCert
  /\ tool = [t \in Tools |-> Idle]
  /\ ops = 0 /\ born = 0 /\ complete = {} /\ contested = {}

-----------------------------------------------------------------------------
(* The tables. *)

(* DbMgr::find(Zone) *)
FindZone(n) == {z \in zones : z.name = n}

(* The row id SQLite gives: one more than the largest in the table. *)
NextIdFromZero(S) == 1 + Max({-1} \cup {r.id : r \in S})
NextId(S) == 1 + Max({0} \cup {r.id : r \in S})

(* DbMgr::insert(Rrset) *)
Row(zid, inc, rec) == [id |-> NextId(rows), zid |-> zid, rec |-> rec, inc |-> inc]

(* DbMgr::setZoneInfo: INSERT OR REPLACE. *)
WithInfoIgnore(zid, inc, key, cert) ==
  IF \E e \in info : e.zid = zid /\ e.key = key
  THEN info
  ELSE info \cup {[zid |-> zid, key |-> key, cert |-> cert, inc |-> inc]}

WithInfo(zid, inc, key, cert) ==
  {e \in info : e.zid # zid \/ e.key # key}
    \cup {[zid |-> zid, key |-> key, cert |-> cert, inc |-> inc]}

(* DbMgr::findRrsets, as the ids of the rows found. *)
FindRrsetsAnywhere(zid) == {r.id : r \in rows}
FindRrsets(zid) == {r.id : r \in {x \in rows : x.zid = zid}}

-----------------------------------------------------------------------------
(* The key chain. *)

KeysOf(use, n) == {c \in keys : c.use = use /\ c.zone = n}

(* createKey in an identity: a key of its own, not the default one. *)
FreshKey(use, n) ==
  [use |-> use, zone |-> n, no |-> 1 + Max({0} \cup {c.no : c \in KeysOf(use, n)})]

(* createIdentity: an identity that has no key gets one, its default. *)
FirstKey(use, n) == [use |-> use, zone |-> n, no |-> 0]

-----------------------------------------------------------------------------
(* createZone *)

Working(t, n) == tool[t].pc # "idle" /\ tool[t].zone = n
Deleting(t, n) == Working(t, n) /\ tool[t].pc \in {"read", "rows", "gone"}

Goto(t, r) == tool' = [tool EXCEPT ![t] = r]
Stop(t) == Goto(t, Idle)

(* The preconditions on names and certificates; a call that fails one of    *)
(* them, or finds the zone in the table, throws and changes nothing.        *)
Admissible(req) ==
  /\ req.zone # <<>> => IsStrictPrefix(req.parent, req.zone)
  /\ req.dsk # NoCert => req.dsk \in KeysOf("zone", req.zone)
  /\ req.dsk = NoCert /\ req.ksk # NoCert => req.ksk \in KeysOf("zone", req.zone)
  /\ ~(req.dkey = NoCert /\ req.zone = <<>>)

BeginCreate(t, req) ==
  /\ tool[t] = Idle /\ ops < MaxOps
  /\ DeleteAlone => \A u \in Tools : ~Deleting(u, req.zone)
  /\ Admissible(req)
  /\ ops' = ops + 1
  /\ Goto(t, [pc |-> "keys", zone |-> req.zone, req |-> req])
  /\ contested' = IF \E u \in Tools : Working(u, req.zone)
                  THEN contested \cup {req.zone} ELSE contested
  /\ UNCHANGED <<zones, info, rows, keys, dflt, born, complete>>

StartCreate(t, req) == FindZone(req.zone) = {} /\ BeginCreate(t, req)

(* createIdentity twice, then the D-key: made, or looked up and used. *)
MakeDkey(t) ==
  /\ tool[t].pc = "keys"
  /\ LET n == tool[t].zone
         given == tool[t].req.dkey
         owner == IF given = NoCert THEN n ELSE given.zone
         first == {FirstKey("zone", x) : x \in {y \in {n} : KeysOf("zone", y) = {}}}
                    \cup {FirstKey("dkey", x) : x \in {y \in {owner} : KeysOf("dkey", y) = {}}}
         dkey == IF given = NoCert THEN FreshKey("dkey", n) ELSE given
     IN /\ keys' = keys \cup first \cup (IF given = NoCert THEN {dkey} ELSE {})
        /\ dflt' = IF KeysOf("zone", n) # {} THEN dflt
                   ELSE [dflt EXCEPT ![n] = FirstKey("zone", n)]
        /\ IF given = NoCert \/ given \in keys
           THEN Goto(t, [pc |-> "ksk", zone |-> n, req |-> tool[t].req, dkey |-> dkey])
           ELSE Stop(t)
  /\ UNCHANGED <<zones, info, rows, ops, born, complete, contested>>

(* The KSK.  One given beside a DSK has not been checked until now. *)
MakeKsk(t) ==
  /\ tool[t].pc = "ksk"
  /\ LET n == tool[t].zone
         given == tool[t].req.ksk
         ksk == IF given = NoCert THEN FreshKey("zone", n) ELSE given
     IN /\ keys' = IF given = NoCert THEN keys \cup {ksk} ELSE keys
        /\ IF given = NoCert \/ given \in KeysOf("zone", n)
           THEN Goto(t, [pc |-> "dsk", zone |-> n, req |-> tool[t].req,
                         dkey |-> tool[t].dkey, ksk |-> ksk])
           ELSE Stop(t)
  /\ UNCHANGED <<zones, info, rows, dflt, ops, born, complete, contested>>

(* The DSK, which becomes the default key of the identity either way. *)
MakeDsk(t) ==
  /\ tool[t].pc = "dsk"
  /\ LET n == tool[t].zone
         given == tool[t].req.dsk
         dsk == IF given = NoCert THEN FreshKey("zone", n) ELSE given
     IN /\ keys' = keys \cup {dsk}
        /\ dflt' = [dflt EXCEPT ![n] = dsk]
        /\ Goto(t, [pc |-> "add", zone |-> n, cert |->
                      [ksk |-> tool[t].ksk, dsk |-> dsk, dkey |-> tool[t].dkey]])
  /\ UNCHANGED <<zones, info, rows, ops, born, complete, contested>>

(* addZone: throws when the name has come into the table meanwhile. *)
AddZone(t) ==
  /\ tool[t].pc = "add"
  /\ LET n == tool[t].zone
         z == [id |-> NextId(zones), name |-> n, inc |-> born + 1]
     IN IF FindZone(n) = {}
        THEN /\ zones' = zones \cup {z} /\ born' = born + 1
             /\ Goto(t, [pc |-> "certs", zone |-> n, cert |-> tool[t].cert, at |-> z, i |-> 1])
        ELSE Stop(t) /\ UNCHANGED <<zones, born>>
  /\ UNCHANGED <<info, rows, keys, dflt, ops, complete, contested>>

(* addIdCert for the KSK and then the DSK: throws on a label already there. *)
AddIdCert(t) ==
  /\ tool[t].pc = "certs"
  /\ LET z == tool[t].at
         cert == tool[t].cert[InfoKeys[tool[t].i]]
     IN IF \E r \in rows : r.zid = z.id /\ r.rec = cert
        THEN Stop(t) /\ UNCHANGED rows
        ELSE /\ rows' = rows \cup {Row(z.id, z.inc, cert)}
             /\ Goto(t, IF tool[t].i = 1 THEN [tool[t] EXCEPT !.i = 2]
                        ELSE [tool[t] EXCEPT !.pc = "info", !.i = 1])
  /\ UNCHANGED <<zones, info, keys, dflt, ops, born, complete, contested>>

(* setZoneInfo of "ksk", "dsk" and "dkey". *)
SetZoneInfo(t) ==
  /\ tool[t].pc = "info"
  /\ LET z == tool[t].at
         k == InfoKeys[tool[t].i]
     IN info' = WithInfo(z.id, z.inc, k, tool[t].cert[k])
  /\ Goto(t, IF tool[t].i < Len(InfoKeys) THEN [tool[t] EXCEPT !.i = @ + 1]
             ELSE [tool[t] EXCEPT !.pc = "doe"])
  /\ UNCHANGED <<zones, rows, keys, dflt, ops, born, complete, contested>>

(* generateDoe: finds the zone again, deletes its chain, writes a new one. *)
GenerateDoe(t) ==
  /\ tool[t].pc = "doe"
  /\ Stop(t)
  /\ IF FindZone(tool[t].zone) = {} THEN UNCHANGED <<rows, complete>>
     ELSE \E z \in FindZone(tool[t].zone) :
            /\ rows' = {r \in rows : r.zid # z.id \/ r.rec # DoeRec}
                         \cup {Row(z.id, z.inc, DoeRec)}
            /\ complete' = complete \cup {z.inc}
  /\ UNCHANGED <<zones, info, keys, dflt, ops, born, contested>>

-----------------------------------------------------------------------------
(* deleteZone *)

StartDelete(t, z) ==
  /\ tool[t] = Idle /\ ops < MaxOps
  /\ DeleteAlone => \A u \in Tools : ~Working(u, z.name)
  /\ ops' = ops + 1
  /\ complete' = complete \ {z.inc} /\ contested' = contested \ {z.name}
  /\ Goto(t, [pc |-> "read", zone |-> z.name, at |-> z])
  /\ UNCHANGED <<zones, info, rows, keys, dflt, born>>

ReadRrsets(t) ==
  /\ tool[t].pc = "read"
  /\ Goto(t, [pc |-> "rows", zone |-> tool[t].zone, at |-> tool[t].at,
              left |-> FindRrsets(tool[t].at.id)])
  /\ UNCHANGED <<zones, info, rows, keys, dflt, ops, born, complete, contested>>

(* The loop over the rows read, in any order; each is removed by its id. *)
RemoveRrset(t) ==
  /\ tool[t].pc = "rows"
  /\ \E id \in tool[t].left :
       /\ rows' = {r \in rows : r.id # id}
       /\ Goto(t, [tool[t] EXCEPT !.left = @ \ {id}])
  /\ UNCHANGED <<zones, info, keys, dflt, ops, born, complete, contested>>

(* removeZone finds the zone again and removes it by its id. *)
FindForRemovalEarly(t) ==
  /\ tool[t].pc = "read"
  /\ \E z \in FindZone(tool[t].zone) :
       Goto(t, [pc |-> "gone", zone |-> tool[t].zone, at |-> z])
  /\ UNCHANGED <<zones, info, rows, keys, dflt, ops, born, complete, contested>>

FindForRemoval(t) ==
  /\ tool[t].pc = "rows" /\ tool[t].left = {}
  /\ IF FindZone(tool[t].zone) = {} THEN Stop(t)
     ELSE \E z \in FindZone(tool[t].zone) :
            Goto(t, [pc |-> "gone", zone |-> tool[t].zone, at |-> z])
  /\ UNCHANGED <<zones, info, rows, keys, dflt, ops, born, complete, contested>>

RemoveZone(t) ==
  /\ tool[t].pc = "gone"
  /\ zones' = {z \in zones : z.id # tool[t].at.id}
  /\ Stop(t)
  /\ UNCHANGED <<info, rows, keys, dflt, ops, born, complete, contested>>

-----------------------------------------------------------------------------
Kill(t) ==
  /\ Kills /\ tool[t] # Idle /\ Stop(t)
  /\ UNCHANGED <<zones, info, rows, keys, dflt, ops, born, complete, contested>>

ToolStep(t) ==
  \/ MakeDkey(t) \/ MakeKsk(t) \/ MakeDsk(t)
  \/ AddZone(t) \/ AddIdCert(t) \/ SetZoneInfo(t) \/ GenerateDoe(t)
  \/ ReadRrsets(t) \/ RemoveRrset(t) \/ FindForRemoval(t) \/ RemoveZone(t)

Next ==
  \E t \in Tools :
    \/ \E req \in CreateReqs : StartCreate(t, req)
    \/ \E z \in zones : StartDelete(t, z)
    \/ ToolStep(t)
    \/ Kill(t)

Spec == Init /\ [][Next]_vars

-----------------------------------------------------------------------------
(* Every variable has its type.  Ids start at 1: find and the tools read an *)
(* id of 0 as "not in the database".                                        *)
TypeOK ==
  /\ zones \subseteq [id : Nat \ {0}, name : Names, inc : Nat]
  /\ info \subseteq [zid : Nat \ {0}, key : Range(InfoKeys), cert : Certs, inc : Nat]
  /\ rows \subseteq [id : Nat \ {0}, zid : Nat \ {0}, rec : Certs \cup {DoeRec}, inc : Nat]
  /\ keys \subseteq Certs /\ dflt \in [Names -> Certs \cup {NoCert}]
  /\ DOMAIN tool = Tools /\ ops \in 0 .. MaxOps /\ born \in 0 .. MaxOps
  /\ complete \subseteq Nat /\ contested \subseteq Names

(* No record outlives its zone or passes to another one: whatever a kill    *)
(* leaves behind, every row belongs to a zone that is in the table and was  *)
(* inserted for that very zone, although ids are given again after a        *)
(* deletion and no foreign key is enforced.  deleteZone relies on the order *)
(* of its two halves for this (management-tool.cpp:199-206).                *)
RowsOwn == \A r \in rows : \E z \in zones : z.id = r.zid /\ z.inc = r.inc

(* A zone created to the end has its own three certificates in zone_info,   *)
(* and no other: deleteZone leaves the rows of an earlier zone, whose id    *)
(* the new one may have been given, and setZoneInfo must replace them all   *)
(* (management-tool.cpp:180-184, db-mgr.cpp:208); getZoneDkey reads them.   *)
InfoOwn ==
  \A z \in zones : z.inc \in complete =>
    LET own == {e \in info : e.zid = z.id}
    IN {e.key : e \in own} = Range(InfoKeys) /\ \A e \in own : e.inc = z.inc

(* What the default key of a zone's identity signs can be verified: the     *)
(* default key of every zone created to the end is one whose certificate    *)
(* the zone publishes (management-tool.cpp:152-168 and 176-177), through    *)
(* refused, killed and repeated creations and keys left by earlier zones,   *)
(* unless two tools were creating the zone at once.                         *)
SignerPublished ==
  \A z \in zones : z.inc \in complete /\ z.name \notin contested =>
    \E r \in rows : r.zid = z.id /\ r.rec = dflt[z.name]

(* A step that removes a record other than a DoE is a deleteZone's, and the *)
(* record is of the zone being deleted: the row ids it read before its loop *)
(* have not been given to another zone's records (management-tool.cpp:201). *)
RemovesOwn ==
  [][\A r \in rows \ rows' :
       r.rec # DoeRec => \E t \in Tools : tool[t].pc = "rows" /\ tool[t].at.inc = r.inc]_vars
=============================================================================
