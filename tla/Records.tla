------------------------------ MODULE Records ------------------------------
(***************************************************************************)
(* A record from the command that makes it to the client that reads it:    *)
(* ndns-add-rr and ndns-update put it in a packet, the daemon files the    *)
(* packet under the label, type and version its name decodes to, and       *)
(* queries, listings and exports find it by that key and hand out the      *)
(* packet.                                                                 *)
(*                                                                         *)
(* One step is one command or one query from end to end; Authority has     *)
(* their statements interleaved, and abstracts from the packets.  A call   *)
(* that is refused changes nothing, but for an add of several levels that  *)
(* has stored AUTH records when its version is refused.                    *)
(***************************************************************************)
EXTENDS Packet, FiniteSets, FiniteSetsExt

CONSTANTS
  Zone,        \* the name of the zone
  ZoneCerts,   \* certificates createZone published: packets
  AddReqs,     \* ndns-add-rr: [zone, dsk, label, type, contents]
  AppCerts,    \* application certificates given to the factory: [label, cert]
  UpdReqs,     \* ndns-update -o: [label, type, contentType, contents]
  Files,       \* packets given to ndns-update -f and ndns-add-rr -f
  Interests,   \* names of queries
  MaxOps       \* bound: commands

ASSUME RecordsAssumption ==
  /\ Zone \in Name /\ MaxOps \in Nat
  /\ \A req \in AddReqs \cup UpdReqs :
       IsName(req.label) /\ req.type \in Nat \ {EmptyComponent} /\ req.contents \in Seq(Nat)
  /\ \A req \in AppCerts : IsName(req.label) /\ req.cert \in PlainPacket
  /\ \A q \in Interests : IsName(q) /\ InZone(q, Zone) /\ Len(q) > calculateSkip(Zone)
  /\ \A d \in ZoneCerts \cup Files : d \in SomePacket /\ IsName(d.name) /\ InZone(d.name, Zone)
  /\ \A c \in ZoneCerts : c.ct = "KEY" /\ Len(c.name) >= calculateSkip(Zone) + 2

VARIABLES
  rows,    \* table rrsets, one zone
  out,     \* what the last step handed out, and to which question
  ops      \* commands so far: the time

vars == <<rows, out, ops>>

Silent == [kind |-> "none"]
Now == VersionBase + ops

-----------------------------------------------------------------------------
(* The table and the chain. *)

Find(label, type) == {r \in rows : r.label = label /\ r.type = type}

RecordsIn(S) == {r \in S : r.type # DOE}

(* generateDoe *)
Chain(S) ==
  LET recs == RecordsIn(S)
      first == CHOOSE r \in recs : \A s \in recs : ~RrsetLess(s, r)
      last == CHOOSE r \in recs : \A s \in recs : ~RrsetLess(r, s)
      After(r) == {s \in recs : RrsetLess(r, s)}
      Upper(r) == IF r = last THEN first
                  ELSE CHOOSE s \in After(r) : \A t \in After(r) : ~RrsetLess(t, s)
      Doe(label, lo, hi) == generateDoeRrset(Zone, label, Now, KeyName(lo), KeyName(hi))
  IN  recs \cup {Doe(KeyName(r), r, Upper(r)) : r \in recs} \cup {Doe(<<>>, last, first)}

FindLowerBound(name) ==
  LET below == {d \in rows : d.type = DOE /\ NameLess(d.label, name)}
  IN  {d \in below : \A e \in below : ~NameLess(d.label, e.label)}

(* addIdCert: the label lies between the zone and the last two components. *)
IdCert(cert) ==
  Rrset(getSubName(cert.name, Len(Zone) + 1, SizeT(Len(cert.name) - Len(Zone) - 3)), CERT,
        get(cert.name, 1), cert, <<>>, "cert")

Init ==
  /\ ops = 0 /\ out = Silent
  /\ rows = Chain({IdCert(c) : c \in ZoneCerts})

-----------------------------------------------------------------------------
(* Commands on the database file. *)

(* RrsetFactory: the zone is in the table, the certificate of the zone. *)
checkZoneKey(req) == req.zone = Zone /\ req.dsk # "unknown"

Above(label) == {SubSeq(label, 1, i) : i \in 1 .. Len(label) - 1}
HasAt(label, ct) == \E r \in Find(label, NS) : r.data.ct = ct

(* addMultiLevelLabelRrset, or addRrset for a label of one component. *)
Allowed(label, type) ==
  IF Len(label) > 1
  THEN (\A p \in Above(label) : ~HasAt(p, "LINK")) /\ ~(type = NS /\ HasAt(label, "AUTH"))
  ELSE ~HasAt(label, "AUTH")

Auths(label) ==
  {generateAuthRrset(Zone, p, Now) : p \in {x \in Above(label) : Find(x, NS) = {}}}

(* checkRrsetVersion, insert, generateDoe *)
Newer(rr) == \A r \in Find(rr.label, rr.type) : r.ver < rr.ver
Store(rr, auths) == rows' = Chain((rows \ Find(rr.label, rr.type)) \cup auths \cup {rr})

(* ndns-add-rr: a type other than NS and TXT leaves a record without a zone *)
(* and is refused; the version is always the time.  The AUTH records are    *)
(* stored before checkRrsetVersion can refuse the record, and then stay,    *)
(* with the chain as it was.                                                *)
AddRr(req) ==
  /\ ops < MaxOps /\ checkZoneKey(req) /\ Allowed(req.label, req.type)
  /\ ops' = ops + 1 /\ out' = Silent
  /\ \E rr \in (IF req.type = NS THEN {generateNsRrset(Zone, req.label, Now, req.contents)}
                ELSE IF req.type = TXT
                THEN {generateTxtRrset(Zone, req.label, Now, req.contents)} ELSE {}) :
       \/ Newer(rr) /\ Store(rr, Auths(req.label))
       \/ ~Newer(rr) /\ rows' = rows \cup Auths(req.label)

(* The factory's APPCERT record, added with addRrset. *)
AddAppCert(req) ==
  /\ ops < MaxOps /\ Allowed(req.label, APPCERT)
  /\ ops' = ops + 1 /\ out' = Silent
  /\ LET rr == generateCertRrset(Zone, req.label, Now, req.cert)
     IN  Newer(rr) /\ Store(rr, {})

(* addRrsetFromFile *)
AddFile(data) ==
  /\ ops < MaxOps /\ ops' = ops + 1 /\ out' = Silent
  /\ LET re == fromData(EmptyResponse, Zone, data)
         rr == Rrset(re.rrLabel, re.rrType, re.version, data, <<>>, "file")
     IN  Newer(rr) /\ Store(rr, {})

(* removeRrSet *)
RemoveRr(r) ==
  /\ ops < MaxOps /\ r.type # DOE /\ Cardinality(RecordsIn(rows)) > 1
  /\ ops' = ops + 1 /\ out' = Silent
  /\ rows' = Chain(rows \ {r})

-----------------------------------------------------------------------------
(* Updates. *)

(* Mutant: a name that is not known is taken as it is. *)
toNdnsContentTypeAny(str) ==
  CASE str = "resp" -> "RESP" [] str = "auth" -> "AUTH" [] str = "blob" -> "BLOB" [] OTHER -> str

toNdnsContentType(str) ==
  CASE str = "resp" -> "RESP" [] str = "nack" -> "NACK" [] str = "auth" -> "AUTH"
    [] str = "blob" -> "BLOB" [] str = "link" -> "LINK" [] str = "key" -> "KEY"
    [] OTHER -> "UNKNOWN"

(* ndns-update -o: the Response made of the options, as a packet. *)
UpdateData(req) ==
  LET re == [EmptyResponse EXCEPT !.zone = Zone, !.rrLabel = req.label, !.queryType = NDNS,
               !.rrType = req.type, !.ct = toNdnsContentType(req.contentType)]
  IN  toData(addRrs(re, [i \in DOMAIN req.contents |-> RrData(req.contents[i])]), Now)

(* makeUpdateInterest: the packet is the one component of the label. *)
UpdateInterest == toInterest(Query(Zone, <<EmptyComponent>>, UPDATE))

UpdateOk == 0
UpdateFailure == 1

(* doUpdate, at the daemon: the packet is filed as its name says, if it is  *)
(* newer, and no chain is made.  The answer is named after the Interest and *)
(* holds a return code.                                                     *)
Filed(data, given, via) ==
  LET m == matchData(data.name, Zone)
  IN  Rrset(m.rrLabel, m.rrType, m.version, data, given, via)

Update(rr) ==
  /\ ops < MaxOps /\ ops' = ops + 1
  /\ matchInterest(UpdateInterest, Zone).rrType = UPDATE
  /\ Len(matchInterest(UpdateInterest, Zone).rrLabel) = 1
  /\ rows' = IF Newer(rr) THEN (rows \ Find(rr.label, rr.type)) \cup {rr} ELSE rows
  /\ out' = [kind |-> "update", ask |-> UpdateInterest, data |->
               Data(Append(UpdateInterest, Now), "RESP",
                    <<ReturnCode(IF Newer(rr) THEN UpdateOk ELSE UpdateFailure)>>)]

UpdateRr(req) ==
  /\ toNdnsContentType(req.contentType) # "UNKNOWN"
  /\ Update(Filed(UpdateData(req), req.contents, "update"))

(* ndns-update -f: the name must be a record's. *)
UpdateFile(data) == matchData(data.name, Zone).ok /\ Update(Filed(data, <<>>, "file"))

-----------------------------------------------------------------------------
(* Readers. *)

(* Mutant: any version answers. *)
AnswersAnyVersion(q) ==
  LET m == matchInterest(q, Zone)
      hits == Find(m.rrLabel, m.rrType)
  IN  IF hits # {} THEN {r.data : r \in hits}
      ELSE {Wrap(Append(q, Now), "NACK", d.data) :
              d \in FindLowerBound(Append(m.rrLabel, m.rrType))}

(* handleQuery: the record of that key and, if asked for, that version; or  *)
(* a NACK named after the Interest, around the DoE below the name.          *)
Answers(q) ==
  LET m == matchInterest(q, Zone)
      hits == {r \in Find(m.rrLabel, m.rrType) : m.version \in {EmptyComponent, r.ver}}
      does == FindLowerBound(Append(m.rrLabel, m.rrType))
  IN  IF hits # {} THEN {r.data : r \in hits}
      ELSE {Wrap(Append(q, Now), "NACK", d.data) : d \in does}

(* Mutant: the NACK itself is taken for the answer. *)
ReceivedOuter(data) == data

(* onData of the controller, in QUERY_RR: the DoE is taken out of a NACK;   *)
(* whatever comes is reported, decoded by parseFinalResponse.  A NACK that  *)
(* holds no packet throws.                                                  *)
Received(data) == IF data.ct = "NACK" THEN data.inner[1] ELSE data

(* NdnsDig::onSucceed *)
IsFinal(re, q) ==
  LET asked == fromInterest(q, Zone)
  IN  re.zone \o re.rrLabel = Zone \o asked.rrLabel /\ re.rrType = asked.rrType

Ask(q) ==
  /\ matchInterest(q, Zone).ok /\ matchInterest(q, Zone).rrType # UPDATE
  /\ \E a \in Answers(q) :
       /\ a.ct = "NACK" => a.inner # <<>>
       /\ out' = [kind |-> "query", ask |-> q, data |-> a,
                  final |-> IsFinal(fromData(EmptyResponse, Zone, Received(a)), q)]
  /\ UNCHANGED <<rows, ops>>

(* getRrSet, and exportCertificate, which finds the certificate by its      *)
(* label whatever version is asked for.                                     *)
Get(q) ==
  /\ \E r \in Find(q.rrLabel, q.rrType) :
       out' = [kind |-> "get", ask |-> toInterest(q), data |-> r.data]
  /\ UNCHANGED <<rows, ops>>

Export(cert) ==
  /\ get(cert.name, 2) = CERT
  /\ \E r \in Find(IdCert(cert).label, CERT) :
       out' = [kind |-> "get", ask |-> Front(cert.name), data |-> r.data]
  /\ UNCHANGED <<rows, ops>>

(* listZone: how often the loop over the blocks of a record runs.  Nothing  *)
(* makes it once for an NS record, as the assertion inside the loop has it: *)
(* a LINK has one block for each delegation.                                *)
Iterations(re) == IF re.ct \in {"BLOB", "KEY", "AUTH"} THEN 1 ELSE Len(re.rrs) + Len(re.inner)

List ==
  /\ out' = [kind |-> "list", lines |->
               {LET re == fromData(EmptyResponse, Zone, r.data)
                IN [type |-> r.type, ct |-> re.ct, times |-> Iterations(re)] : r \in rows}]
  /\ UNCHANGED <<rows, ops>>

Next ==
  \/ \E req \in AddReqs : AddRr(req)
  \/ \E req \in AppCerts : AddAppCert(req)
  \/ \E d \in Files : AddFile(d)
  \/ \E r \in rows : RemoveRr(r)
  \/ \E req \in UpdReqs : UpdateRr(req)
  \/ \E d \in Files : UpdateFile(d)
  \/ \E q \in Interests : Ask(q)
  \/ \E q \in Interests : Get(fromInterest(q, Zone))
  \/ \E c \in ZoneCerts : Export(c)
  \/ List

Spec == Init /\ [][Next]_vars
-----------------------------------------------------------------------------
(* Every variable has its type. *)
TypeOK ==
  /\ \A r \in rows : r.label \in Name /\ r.type \in Nat /\ r.ver \in Nat /\ r.data.ct \in ContentTypes
  /\ out.kind \in {"none", "query", "update", "get", "list"}
  /\ ops \in 0 .. MaxOps

(* Every record is filed under the label, type and version that its own     *)
(* packet's name decodes to, whichever of the factory, addIdCert, a file or *)
(* an update brought it: the daemon finds by the key and sends the packet.  *)
(* addRrsetFromFile does not look at what fromData returns, and files a     *)
(* packet whose name has no type under an empty key.                        *)
FiledByName ==
  \A r \in rows :
    LET m == matchData(r.data.name, Zone)
    IN  m.ok => r.label = m.rrLabel /\ r.type = m.rrType /\ r.ver = m.version

(* Decoding a stored packet loses nothing: a Response filled by fromData    *)
(* gives the same packet again, raw or structured, with or without blocks.  *)
Lossless ==
  \A r \in rows :
    matchData(r.data.name, Zone).ok =>
      toData(fromData(EmptyResponse, Zone, r.data), Now) = r.data

(* What is handed out bears the name that was asked for: a face delivers    *)
(* nothing else.  For a query the name may end in a version, or be a        *)
(* version and nothing else, where the subtraction in matchName wraps.      *)
AnswersName == out.kind \in {"query", "update", "get"} => IsPrefix(out.ask, out.data.name)

(* The controller hands a DoE to its owner as a success without looking at  *)
(* it; the owner can tell, since what it decodes to is the question exactly *)
(* when the record is there (NdnsDig::onSucceed).                           *)
DenialNotMistaken ==
  out.kind = "query" =>
    LET m == matchInterest(out.ask, Zone)
        there == \E r \in Find(m.rrLabel, m.rrType) : matchData(r.data.name, Zone).ok
    IN  /\ out.final => there
        /\ there /\ m.version = EmptyComponent => out.final

(* What a reader of a stored packet finds in it: ndns-dig, listZone. *)
Read(r) == fromData(EmptyResponse, Zone, r.data).rrs

(* The texts given to ndns-add-rr, and to ndns-update for a structured      *)
(* record, come out of fromData at a reader as they were given and in that  *)
(* order, although the encoders work from the back; and the range of a DoE  *)
(* begins with the name it is filed under, which is where findLowerBound    *)
(* looks and what isAbsentByDoe takes for its lower end.                    *)
ContentsKept ==
  \A r \in rows :
    /\ (r.via = "factory" /\ r.type = TXT) \/ (r.via = "update" /\ ~IsRaw(r.data.ct)) =>
         wireDecodeTxt(Read(r)) = r.given
    /\ r.via = "factory" /\ r.type = DOE /\ r.label # <<>> =>
         wireDecodeDoe(r.data.content)[1] = r.label
=============================================================================
