------------------------------- MODULE Packet -------------------------------
(***************************************************************************)
(* What travels and what is stored: the names of queries and answers, the  *)
(* classes Query and Response that build and read them, and the records    *)
(* RrsetFactory makes.                                                     *)
(*                                                                         *)
(* A name is a sequence of components, as in NdnsName; a component from    *)
(* VersionBase on is a version.  A Data packet is its name, its content    *)
(* type and its content, a sequence of blocks.  A block is its TLV type    *)
(* with what it holds; a packet inside another one is kept in inner.       *)
(***************************************************************************)
EXTENDS NdnsName, SequencesExt

CONSTANTS
  NDNS, UPDATE,              \* NDNS_ITERATIVE_QUERY and NDNS_UPDATE_LABEL
  NS, TXT, CERT, APPCERT, DOE,  \* record types
  VersionBase                \* components from here on are versions

ASSUME ComponentAssumption ==
  /\ {NDNS, UPDATE, NS, TXT, CERT, APPCERT, DOE} \subseteq 1 .. VersionBase - 1
  /\ VersionBase \in Nat
  /\ NS \notin {TXT, CERT, APPCERT, DOE} /\ TXT \notin {CERT, APPCERT, DOE}
  /\ DOE \notin {CERT, APPCERT}

ContentTypes == {"BLOB", "LINK", "KEY", "NACK", "DOE", "AUTH", "RESP", "UNKNOWN"}

isVersion(c) == c >= VersionBase

EmptyComponent == 0

Data(name, ct, content) == [name |-> name, ct |-> ct, content |-> content, inner |-> <<>>]
Wrap(name, ct, packet) == [name |-> name, ct |-> ct, content |-> <<>>, inner |-> <<packet>>]

Block == [tlv : STRING, value : Seq(Nat)]
RrData(v) == [tlv |-> "RrData", value |-> <<v>>]
NameBlock(n) == [tlv |-> "Name", value |-> n]
ReturnCode(c) == [tlv |-> "UpdateReturnCode", value |-> <<c>>]

(* Packets, with at most plain ones inside. *)
PlainPacket == [name : Name, ct : ContentTypes, content : Seq(Block), inner : {<<>>}]
SomePacket == [name : Name, ct : ContentTypes, content : Seq(Block), inner : Seq(PlainPacket)]

-----------------------------------------------------------------------------
(* ndns-label.cpp.  A name is read from both ends: past the zone and the    *)
(* NDNS component, and back from the last component.                        *)

SizeBits == 16   \* bound: size_t is this wide here, more than any name is long
SizeLimit == 2 ^ SizeBits
SizeT(n) == n % SizeLimit

(* A name or a label as it is given: no component is empty. *)
IsName(n) == n \in Name /\ Len(n) < SizeLimit - 1 /\ EmptyComponent \notin Range(n)

calculateSkip(zone) == Len(zone) + 1

(* The assertions of calculateSkip. *)
InZone(name, zone) == IsPrefix(Append(zone, NDNS), name)

get(name, offset) == name[Len(name) + 1 - offset]

getSubName(name, from, count) == SubSeq(name, from + 1, Min({Len(name), from + count}))

(* matchName(Interest): the version is optional. *)
matchInterest(name, zone) ==
  LET skip == calculateSkip(zone)
      offset == IF isVersion(get(name, 1)) THEN 2 ELSE 1
  IN [ok |-> Len(name) - skip >= 1,
      version |-> IF offset = 2 THEN get(name, 1) ELSE EmptyComponent,
      rrType |-> get(name, offset),
      rrLabel |-> getSubName(name, skip, SizeT(Len(name) - skip - offset))]

(* Mutant: a label one component short. *)
matchDataShort(name, zone) ==
  LET skip == calculateSkip(zone)
  IN [ok |-> Len(name) - skip >= 2, version |-> get(name, 1), rrType |-> get(name, 2),
      rrLabel |-> getSubName(name, skip, SizeT(Len(name) - skip - 3))]

(* matchName(Data): the last component is the version, whatever it is. *)
matchData(name, zone) ==
  LET skip == calculateSkip(zone)
  IN [ok |-> Len(name) - skip >= 2, version |-> get(name, 1), rrType |-> get(name, 2),
      rrLabel |-> getSubName(name, skip, SizeT(Len(name) - skip - 2))]

-----------------------------------------------------------------------------
(* Query *)

Query(zone, label, type) ==
  [zone |-> zone, queryType |-> NDNS, rrLabel |-> label, rrType |-> type]

toInterest(q) == q.zone \o <<q.queryType>> \o q.rrLabel \o <<q.rrType>>

fromInterest(name, zone) ==
  [zone |-> zone, queryType |-> name[Len(zone) + 1],
   rrLabel |-> matchInterest(name, zone).rrLabel, rrType |-> matchInterest(name, zone).rrType]

-----------------------------------------------------------------------------
(* Response *)

EmptyResponse ==
  [zone |-> <<>>, queryType |-> EmptyComponent, rrLabel |-> <<>>, rrType |-> EmptyComponent,
   version |-> EmptyComponent, ct |-> "BLOB", app |-> [content |-> <<>>, inner |-> <<>>],
   rrs |-> <<>>, inner |-> <<>>]

IsRaw(ct) == ct \in {"BLOB", "KEY"}

(* addRr, once for each of the blocks. *)
addRrs(re, blocks) == [re EXCEPT !.rrs = @ \o blocks]

(* EncodingBuffer: every block taken is put in front of those before it. *)
prependBlocks(taken) == Reverse(taken)

(* Mutant: the loop over the blocks runs from begin() to end(). *)
encodeForward(rrs) == prependBlocks(rrs)

(* RrsetFactory::wireEncode, and the loop of Response::wireEncode: the      *)
(* blocks are taken from rbegin() to rend().                                *)
encodeBlocks(rrs) == prependBlocks(Reverse(rrs))

(* Mutant: the content of every Response is its list of records. *)
wireEncodeRrs(re) == [content |-> encodeBlocks(re.rrs), inner |-> encodeBlocks(re.inner)]

(* wireEncode: raw application content, or the records one after another. *)
wireEncode(re) ==
  IF IsRaw(re.ct) THEN re.app
  ELSE [content |-> encodeBlocks(re.rrs), inner |-> encodeBlocks(re.inner)]

(* wireDecode: the blocks decoded are put after those already there. *)
wireDecode(re, c) ==
  IF IsRaw(re.ct) THEN [re EXCEPT !.app = c]
  ELSE [re EXCEPT !.rrs = @ \o c.content, !.inner = @ \o c.inner]

(* fromData: a name of another shape leaves the Response as it was. *)
fromData(re, zone, data) ==
  LET m == matchData(data.name, zone)
      named == [re EXCEPT !.rrLabel = m.rrLabel, !.rrType = m.rrType, !.version = m.version,
                          !.zone = zone, !.queryType = data.name[Len(zone) + 1], !.ct = data.ct]
  IN  IF m.ok THEN wireDecode(named, [content |-> data.content, inner |-> data.inner]) ELSE re

(* toData: a Response without a version is given the time, and keeps it. *)
Versioned(re, now) == IF re.version = EmptyComponent THEN [re EXCEPT !.version = now] ELSE re

toData(re, now) ==
  LET r == Versioned(re, now)
      c == wireEncode(r)
  IN [name |-> r.zone \o <<r.queryType>> \o r.rrLabel \o <<r.rrType, r.version>>,
      ct |-> r.ct, content |-> c.content, inner |-> c.inner]

-----------------------------------------------------------------------------
(* RrsetFactory, once checkZoneKey has accepted the zone and the key.       *)

(* A stored record.  given is the content asked for, via the way it came:   *)
(* no code reads either.                                                    *)
Rrset(label, type, ver, data, given, via) ==
  [label |-> label, type |-> type, ver |-> ver, data |-> data, given |-> given, via |-> via]

(* generateBaseRrset *)
BaseName(zone, label, type, ver) == zone \o <<NDNS>> \o label \o <<type, ver>>

generateNsRrset(zone, label, ver, delegations) ==
  Rrset(label, NS, ver,
        Data(BaseName(zone, label, NS, ver), "LINK",
             [i \in DOMAIN delegations |-> NameBlock(<<delegations[i]>>)]),
        delegations, "factory")

generateTxtRrset(zone, label, ver, strings) ==
  Rrset(label, TXT, ver,
        Data(BaseName(zone, label, TXT, ver), "RESP",
             encodeBlocks([i \in DOMAIN strings |-> RrData(strings[i])])),
        strings, "factory")

generateCertRrset(zone, label, ver, cert) ==
  Rrset(label, APPCERT, ver, Wrap(BaseName(zone, label, APPCERT, ver), "KEY", cert), <<>>, "factory")

generateAuthRrset(zone, label, ver) ==
  Rrset(label, NS, ver, Data(BaseName(zone, label, NS, ver), "AUTH", <<>>), <<>>, "factory")

generateDoeRrset(zone, label, ver, lower, upper) ==
  Rrset(label, DOE, ver,
        Data(BaseName(zone, label, DOE, ver), "DOE",
             encodeBlocks(<<NameBlock(lower), NameBlock(upper)>>)),
        <<>>, "factory")

(* The readers of the two kinds of lists. *)
wireDecodeDoe(content) == <<content[1].value, content[2].value>>

wireDecodeTxt(content) == [i \in DOMAIN content |-> content[i].value[1]]
=============================================================================
