--------------------------- MODULE RecordsProofs ---------------------------
(***************************************************************************)
(* The name of a packet and the key it is filed under say the same,        *)
(* whatever way the packet came, and what follows from this for those who  *)
(* read it.                                                                *)
(***************************************************************************)
EXTENDS Records, TLAPS, SequenceTheorems

(* The components the code names. *)
LEMMA Components ==
  /\ NDNS \in Nat /\ UPDATE \in Nat /\ NS \in Nat /\ TXT \in Nat /\ CERT \in Nat
  /\ APPCERT \in Nat /\ DOE \in Nat
  /\ 0 \notin {NDNS, UPDATE, NS, TXT, CERT, APPCERT, DOE} /\ VersionBase \in Nat \ {0}
BY ComponentAssumption

LEMMA ZoneIs == Zone \in Name /\ Len(Zone) \in Nat
BY RecordsAssumption DEF Name


-----------------------------------------------------------------------------
(* Names. *)

LEMMA SizeIs == SizeLimit \in Nat /\ SizeLimit > 1
BY DEF SizeLimit, SizeBits

LEMMA SizeTIs ==
  ASSUME NEW n \in Nat, n < SizeLimit
  PROVE  SizeT(n) = n
BY SizeIs DEF SizeT

LEMMA MinIs ==
  ASSUME NEW a \in Int, NEW b \in Int
  PROVE  Min({a, b}) = IF a =< b THEN a ELSE b
BY DEF Min

(* Names that agree in every place are the same. *)
LEMMA SameName ==
  ASSUME NEW a \in Name, NEW b \in Name, Len(a) = Len(b), \A i \in 1 .. Len(a) : a[i] = b[i]
  PROVE  a = b
BY DEF Name

LEMMA ConcatPlaces ==
  ASSUME NEW a \in Name, NEW b \in Name
  PROVE  /\ a \o b \in Name /\ Len(a \o b) = Len(a) + Len(b)
         /\ \A i \in 1 .. Len(a) : (a \o b)[i] = a[i]
         /\ \A i \in 1 .. Len(b) : (a \o b)[Len(a) + i] = b[i]
<1>1. Len(a) \in Nat /\ Len(b) \in Nat
  BY DEF Name
<1> DEFINE c == a \o b
<1>2. c \in Name /\ Len(c) = Len(a) + Len(b)
        /\ \A i \in 1 .. Len(a) + Len(b) : c[i] = IF i =< Len(a) THEN a[i] ELSE b[i - Len(a)]
  BY ConcatProperties DEF Name
<1> HIDE DEF c
<1>3. \A i \in 1 .. Len(a) : c[i] = a[i]
  BY <1>1, <1>2
<1>4. ASSUME NEW i \in 1 .. Len(b) PROVE c[Len(a) + i] = b[i]
  <2>1. Len(a) + i \in 1 .. Len(a) + Len(b) /\ ~(Len(a) + i =< Len(a)) /\ (Len(a) + i) - Len(a) = i
    BY <1>1
  <2> QED BY <1>2, <2>1
<1> QED BY <1>2, <1>3, <1>4 DEF c

(* The places of a record's name. *)
Places(n, zone, label, type, ver) ==
  /\ n \in Name /\ Len(n) = Len(zone) + Len(label) + 3
  /\ \A i \in 1 .. Len(zone) : n[i] = zone[i]
  /\ n[Len(zone) + 1] = NDNS
  /\ \A i \in 1 .. Len(label) : n[Len(zone) + 1 + i] = label[i]
  /\ n[Len(zone) + Len(label) + 2] = type /\ n[Len(zone) + Len(label) + 3] = ver

LEMMA BasePlaces ==
  ASSUME NEW zone \in Name, NEW label \in Name, NEW type \in Nat, NEW ver \in Nat
  PROVE  Places(BaseName(zone, label, type, ver), zone, label, type, ver)
<1>0. PICK n : n = BaseName(zone, label, type, ver)
  OBVIOUS
<1>1. NDNS \in Nat
  BY Components
<1> DEFINE a == zone \o <<NDNS>>
           b == a \o label
<1>2. a \in Name /\ Len(a) = Len(zone) + 1 /\ (\A i \in 1 .. Len(zone) : a[i] = zone[i])
        /\ a[Len(zone) + 1] = NDNS
  BY <1>1 DEF Name
<1>3. b \in Name /\ Len(b) = Len(a) + Len(label) /\ (\A i \in 1 .. Len(a) : b[i] = a[i])
        /\ \A i \in 1 .. Len(label) : b[Len(a) + i] = label[i]
  <2> HIDE DEF a
  <2> QED BY <1>2, ConcatPlaces
<1>4. n = b \o <<type, ver>>
  BY <1>0 DEF BaseName
<1> HIDE DEF a, b
<1>5. n \in Name /\ Len(n) = Len(b) + 2 /\ (\A i \in 1 .. Len(b) : n[i] = b[i])
        /\ n[Len(b) + 1] = type /\ n[Len(b) + 2] = ver
  BY <1>3, <1>4 DEF Name
<1>6. Len(zone) \in Nat /\ Len(label) \in Nat
  BY DEF Name
<1>7. \A i \in 1 .. Len(label) : n[Len(zone) + 1 + i] = label[i]
  BY <1>2, <1>3, <1>5, <1>6
<1> QED BY <1>0, <1>2, <1>3, <1>5, <1>6, <1>7 DEF Places

(* The places a prefix fixes. *)
LEMMA PrefixPlaces ==
  ASSUME NEW p \in Name, NEW n \in Name
  PROVE  IsPrefix(p, n) <=> Len(p) =< Len(n) /\ \A i \in 1 .. Len(p) : p[i] = n[i]
<1>1. Len(p) \in Nat /\ Len(n) \in Nat
  BY DEF Name
<1>2. CASE Len(p) =< Len(n)
  <2>1. SubSeq(p, 1, Len(p)) = [i \in 1 .. Len(p) |-> p[i]]
    BY <1>1 DEF Name
  <2>2. SubSeq(n, 1, Len(p)) = [i \in 1 .. Len(p) |-> n[i]]
    BY <1>1, <1>2 DEF Name
  <2> QED BY <1>2, <2>1, <2>2 DEF IsPrefix
<1> QED BY <1>1, <1>2 DEF IsPrefix

LEMMA ZonePlaces ==
  ASSUME NEW n \in Name
  PROVE  InZone(n, Zone) <=> /\ Len(n) > Len(Zone) /\ n[Len(Zone) + 1] = NDNS
                             /\ \A i \in 1 .. Len(Zone) : n[i] = Zone[i]
<1> DEFINE z == Append(Zone, NDNS)
<1>1. z \in Name /\ Len(z) = Len(Zone) + 1 /\ z[Len(Zone) + 1] = NDNS
        /\ \A i \in 1 .. Len(Zone) : z[i] = Zone[i]
  BY ZoneIs, Components DEF Name
<1>2. Len(Zone) \in Nat /\ Len(n) \in Nat
  BY ZoneIs DEF Name
<1>3. InZone(n, Zone) <=> IsPrefix(z, n)
  BY DEF InZone
<1> HIDE DEF z
<1>4. IsPrefix(z, n) <=> Len(z) =< Len(n) /\ \A i \in 1 .. Len(z) : z[i] = n[i]
  BY <1>1, PrefixPlaces
<1> QED BY <1>1, <1>2, <1>3, <1>4

(* A part of a name. *)
Part(s, n, from, count) ==
  /\ s \in Name
  /\ Len(s) = IF from + count =< Len(n) THEN count ELSE Len(n) - from
  /\ \A i \in 1 .. Len(s) : s[i] = n[from + i]

LEMMA SubNamePlaces ==
  ASSUME NEW n \in Name, NEW from \in Nat, NEW count \in Nat, from =< Len(n)
  PROVE  Part(getSubName(n, from, count), n, from, count)
<1>0. PICK s : s = getSubName(n, from, count)
  OBVIOUS
<1> DEFINE to == IF Len(n) =< from + count THEN Len(n) ELSE from + count
<1>1. Len(n) \in Nat /\ to \in Nat /\ to =< Len(n) /\ from =< to
  BY DEF Name
<1>2. s = SubSeq(n, from + 1, to)
  <2>1. Min({Len(n), from + count}) = to
    BY <1>1, MinIs
  <2> QED BY <1>0, <2>1 DEF getSubName
<1> HIDE DEF to
<1>3. s \in Name /\ Len(s) = to - from /\ \A i \in 1 .. to - from : s[i] = n[from + i]
  BY <1>1, <1>2 DEF Name
<1> QED BY <1>0, <1>1, <1>3 DEF to, Part

(***************************************************************************)
(* matchName of a Data packet reads back the label, type and version that  *)
(* generateBaseRrset has put into the name.                                *)
(***************************************************************************)
THEOREM MatchInvertsName ==
  ASSUME NEW label \in Name, NEW type \in Nat, NEW ver \in Nat, Len(label) < SizeLimit
  PROVE  matchData(BaseName(Zone, label, type, ver), Zone)
           = [ok |-> TRUE, version |-> ver, rrType |-> type, rrLabel |-> label]
<1>1. Len(Zone) \in Nat /\ Len(label) \in Nat
  BY ZoneIs DEF Name
<1>2. PICK n : n = BaseName(Zone, label, type, ver)
  OBVIOUS
<1>3. /\ n \in Name /\ Len(n) = Len(Zone) + Len(label) + 3
      /\ \A i \in 1 .. Len(label) : n[Len(Zone) + 1 + i] = label[i]
      /\ n[Len(Zone) + Len(label) + 2] = type /\ n[Len(Zone) + Len(label) + 3] = ver
  <2>1. Places(n, Zone, label, type, ver)
    BY <1>2, ZoneIs, BasePlaces
  <2> QED BY <2>1 DEF Places
<1>4. SizeT(Len(n) - (Len(Zone) + 1) - 2) = Len(label)
  <2>1. Len(n) - (Len(Zone) + 1) - 2 = Len(label)
    BY <1>1, <1>3
  <2> QED BY <1>1, <2>1, SizeTIs
<1>5. PICK s : s = getSubName(n, Len(Zone) + 1, Len(label))
  OBVIOUS
<1>6. s = label
  <2>1. Len(Zone) + 1 \in Nat /\ Len(Zone) + 1 =< Len(n) /\ Len(Zone) + 1 + Len(label) =< Len(n)
    BY <1>1, <1>3
  <2>2. s \in Name /\ Len(s) = Len(label) /\ \A i \in 1 .. Len(s) : s[i] = n[Len(Zone) + 1 + i]
    <3>1. Part(s, n, Len(Zone) + 1, Len(label))
      BY <1>1, <1>3, <1>5, <2>1, SubNamePlaces
    <3> QED BY <2>1, <3>1 DEF Part
  <2> QED BY <1>3, <2>2, SameName
<1>7. get(n, 1) = ver /\ get(n, 2) = type
  <2>1. Len(n) + 1 - 1 = Len(Zone) + Len(label) + 3 /\ Len(n) + 1 - 2 = Len(Zone) + Len(label) + 2
    BY <1>1, <1>3
  <2> QED BY <1>3, <2>1 DEF get
<1>8. Len(n) - (Len(Zone) + 1) >= 2
  BY <1>1, <1>3
<1> QED BY <1>2, <1>4, <1>5, <1>6, <1>7, <1>8 DEF matchData, calculateSkip

(* A name and its parts. *)
MadeOf(n, m) ==
  /\ m.rrLabel \in Name /\ Len(m.rrLabel) = Len(n) - Len(Zone) - 3
  /\ m.rrType \in Nat /\ m.version \in Nat
  /\ m.rrType = n[Len(n) - 1] /\ m.version = n[Len(n)]
  /\ n = BaseName(Zone, m.rrLabel, m.rrType, m.version)

(***************************************************************************)
(* The other way round: a name that matchName accepts is the one           *)
(* generateBaseRrset makes of what it has read.                            *)
(***************************************************************************)
THEOREM NameInvertsMatch ==
  ASSUME NEW n \in Name, InZone(n, Zone), Len(n) < Len(Zone) + 3 + SizeLimit,
         matchData(n, Zone).ok
  PROVE  MadeOf(n, matchData(n, Zone))
<1>0. PICK m : m = matchData(n, Zone)
  OBVIOUS
<1>1. Len(Zone) \in Nat /\ Len(n) \in Nat
  BY ZoneIs DEF Name
<1>2. PICK c : c = Len(n) - Len(Zone) - 3
  OBVIOUS
<1>3. c \in Nat /\ c < SizeLimit /\ Len(Zone) + 1 + c =< Len(n) /\ Len(Zone) + 1 =< Len(n)
  <2>1. Len(n) - (Len(Zone) + 1) >= 2
    BY DEF matchData, calculateSkip
  <2> QED BY <1>1, <1>2, <2>1, SizeIs
<1>4. SizeT(Len(n) - (Len(Zone) + 1) - 2) = c
  <2>1. Len(n) - (Len(Zone) + 1) - 2 = c
    BY <1>1, <1>2
  <2> QED BY <1>3, <2>1, SizeTIs
<1>5. PICK label : label = m.rrLabel
  OBVIOUS
<1>6. PICK type, ver : type = m.rrType /\ ver = m.version
  OBVIOUS
<1>7. type = n[Len(n) - 1] /\ ver = n[Len(n)]
  <2>1. Len(n) + 1 - 1 = Len(n) /\ Len(n) + 1 - 2 = Len(n) - 1
    BY <1>1
  <2>2. type = get(n, 2) /\ ver = get(n, 1)
    BY <1>0, <1>6 DEF matchData
  <2> QED BY <2>1, <2>2 DEF get
<1>8. type \in Nat /\ ver \in Nat
  <2>1. Len(n) \in 1 .. Len(n) /\ Len(n) - 1 \in 1 .. Len(n)
    BY <1>1, <1>2, <1>3
  <2> QED BY <1>7, <2>1 DEF Name
<1>9. label \in Name /\ Len(label) = c /\ \A i \in 1 .. c : label[i] = n[Len(Zone) + 1 + i]
  <2>1. label = getSubName(n, Len(Zone) + 1, c)
    BY <1>0, <1>4, <1>5 DEF matchData, calculateSkip
  <2>2. Len(Zone) + 1 \in Nat
    BY <1>1
  <2>3. Part(label, n, Len(Zone) + 1, c)
    BY <1>3, <2>1, <2>2, SubNamePlaces
  <2> QED BY <1>3, <2>3 DEF Part
<1>10. n = BaseName(Zone, label, type, ver)
  <2>1. PICK b : b = BaseName(Zone, label, type, ver)
    OBVIOUS
  <2>2. /\ b \in Name /\ Len(b) = Len(Zone) + c + 3
        /\ \A i \in 1 .. Len(Zone) : b[i] = Zone[i]
        /\ b[Len(Zone) + 1] = NDNS
        /\ \A i \in 1 .. c : b[Len(Zone) + 1 + i] = label[i]
        /\ b[Len(Zone) + c + 2] = type /\ b[Len(Zone) + c + 3] = ver
    <3>1. Places(b, Zone, label, type, ver)
      BY <1>8, <1>9, <2>1, ZoneIs, BasePlaces
    <3> QED BY <1>9, <3>1 DEF Places
  <2>3. n[Len(Zone) + 1] = NDNS /\ \A i \in 1 .. Len(Zone) : n[i] = Zone[i]
    BY ZonePlaces
  <2>4. Len(b) = Len(n) /\ Len(Zone) + c + 2 = Len(n) - 1 /\ Len(Zone) + c + 3 = Len(n)
    BY <1>1, <1>2, <2>2
  <2>5. ASSUME NEW i \in 1 .. Len(n) PROVE n[i] = b[i]
    <3>1. CASE i =< Len(Zone) + 1
      BY <1>1, <2>2, <2>3, <3>1
    <3>2. CASE i > Len(Zone) + 1 /\ i < Len(n) - 1
      <4>1. i - (Len(Zone) + 1) \in 1 .. c /\ i = Len(Zone) + 1 + (i - (Len(Zone) + 1))
        BY <1>1, <1>2, <3>2
      <4> QED BY <1>9, <2>2, <4>1
    <3>3. CASE i = Len(n) - 1
      BY <1>7, <2>2, <2>4, <3>3
    <3>4. CASE i = Len(n)
      BY <1>7, <2>2, <2>4, <3>4
    <3> QED BY <1>1, <3>1, <3>2, <3>3, <3>4
  <2> QED BY <2>1, <2>2, <2>4, <2>5, SameName
<1> QED BY <1>0, <1>2, <1>5, <1>6, <1>7, <1>8, <1>9, <1>10 DEF MadeOf

-----------------------------------------------------------------------------
(* Packets. *)

IsSeq(s) == Len(s) \in Nat /\ s = [i \in 1 .. Len(s) |-> s[i]]

LEMMA SeqIs == ASSUME NEW S, NEW s \in Seq(S) PROVE IsSeq(s)
BY DEF IsSeq

LEMMA AfterNothing ==
  ASSUME NEW s, IsSeq(s)
  PROVE  <<>> \o s = s
<1> DEFINE S == {s[i] : i \in 1 .. Len(s)}
<1>1. s \in [1 .. Len(s) -> S]
  BY DEF IsSeq
<1>2. s \in Seq(S)
  <2> HIDE DEF S
  <2> QED BY <1>1, SeqDef DEF IsSeq
<1> HIDE DEF S
<1> QED BY <1>2, ConcatEmptySeq

(* Blocks taken from the last to the first, each put in front of those      *)
(* before it, come out in their order.                                      *)
LEMMA EncodeKeepsOrder ==
  ASSUME NEW s, IsSeq(s)
  PROVE  encodeBlocks(s) = s
<1>1. PICK n : n = Len(s)
  OBVIOUS
<1>2. PICK t : t = Reverse(s)
  OBVIOUS
<1>3. n \in Nat /\ s = [i \in 1 .. n |-> s[i]]
  BY <1>1 DEF IsSeq
<1>4. t = [i \in 1 .. n |-> s[(n - i) + 1]]
  BY <1>1, <1>2 DEF Reverse
<1>5. Len(t) = n
  BY <1>3, <1>4
<1>6. Reverse(t) = [i \in 1 .. n |-> t[(n - i) + 1]]
  BY <1>5 DEF Reverse
<1>7. \A i \in 1 .. n : t[(n - i) + 1] = s[i]
  <2> SUFFICES ASSUME NEW i \in 1 .. n PROVE t[(n - i) + 1] = s[i]
    OBVIOUS
  <2>1. (n - i) + 1 \in 1 .. n /\ (n - ((n - i) + 1)) + 1 = i
    BY <1>3
  <2> QED BY <1>4, <2>1
<1>8. Reverse(t) = s
  BY <1>3, <1>6, <1>7
<1> QED BY <1>2, <1>8 DEF encodeBlocks, prependBlocks

(* A packet has its four parts. *)
Framed(d) ==
  /\ d \in [name : Name, ct : ContentTypes, content : {d.content}, inner : {d.inner}]
  /\ IsSeq(d.content) /\ IsSeq(d.inner)

(* Its name is one of the zone and ends in something. *)
Placed(n) ==
  /\ n \in Name /\ InZone(n, Zone)
  /\ Len(n) < Len(Zone) + 3 + SizeLimit /\ n[Len(n)] # EmptyComponent

(* What fromData makes of a packet. *)
Decoded(d) ==
  LET m == matchData(d.name, Zone)
      c == [content |-> d.content, inner |-> d.inner]
      raw == IsRaw(d.ct)
  IN  [zone |-> Zone, queryType |-> NDNS, rrLabel |-> m.rrLabel, rrType |-> m.rrType,
       version |-> m.version, ct |-> d.ct,
       app |-> IF raw THEN c ELSE EmptyResponse.app,
       rrs |-> IF raw THEN <<>> ELSE d.content, inner |-> IF raw THEN <<>> ELSE d.inner]

LEMMA FromDataIs ==
  ASSUME NEW d, Framed(d), Placed(d.name), matchData(d.name, Zone).ok
  PROVE  fromData(EmptyResponse, Zone, d) = Decoded(d)
<1>1. PICK m : m = matchData(d.name, Zone)
  OBVIOUS
<1>2. d.name[Len(Zone) + 1] = NDNS
  BY ZonePlaces DEF Placed
<1>3. <<>> \o d.content = d.content /\ <<>> \o d.inner = d.inner
  BY AfterNothing DEF Framed
<1>4. CASE IsRaw(d.ct)
  BY <1>1, <1>2, <1>4 DEF fromData, wireDecode, Decoded, EmptyResponse
<1>5. CASE ~IsRaw(d.ct)
  BY <1>1, <1>2, <1>3, <1>5 DEF fromData, wireDecode, Decoded, EmptyResponse
<1> QED BY <1>4, <1>5

(* A name that is too short is left alone. *)
LEMMA FromDataShort ==
  ASSUME NEW d, ~matchData(d.name, Zone).ok
  PROVE  fromData(EmptyResponse, Zone, d) = EmptyResponse
BY DEF fromData

(* Decoding loses nothing. *)
LEMMA EncodeDecoded ==
  ASSUME NEW d, Framed(d), Placed(d.name), matchData(d.name, Zone).ok, NEW now
  PROVE  toData(fromData(EmptyResponse, Zone, d), now) = d
<1>1. PICK m : m = matchData(d.name, Zone)
  OBVIOUS
<1>2. d.name = BaseName(Zone, m.rrLabel, m.rrType, m.version) /\ m.version # EmptyComponent
  <2>1. m.version = d.name[Len(d.name)] /\ d.name = BaseName(Zone, m.rrLabel, m.rrType, m.version)
    <3>1. MadeOf(d.name, m)
      <4>1. PICK n : n = d.name
        OBVIOUS
      <4>2. n \in Name /\ InZone(n, Zone) /\ Len(n) < Len(Zone) + 3 + SizeLimit
        BY <4>1 DEF Placed
      <4> QED BY <1>1, <4>1, <4>2, NameInvertsMatch
    <3> QED BY <3>1 DEF MadeOf
  <2> QED BY <2>1 DEF Placed
<1>3. PICK re : re = Decoded(d)
  OBVIOUS
<1>4. fromData(EmptyResponse, Zone, d) = re
  BY <1>3, FromDataIs
<1>5. /\ re.zone = Zone /\ re.queryType = NDNS /\ re.rrLabel = m.rrLabel /\ re.rrType = m.rrType
      /\ re.version = m.version /\ re.ct = d.ct
      /\ IsRaw(d.ct) => re.app = [content |-> d.content, inner |-> d.inner]
      /\ ~IsRaw(d.ct) => re.rrs = d.content /\ re.inner = d.inner
  BY <1>1, <1>3 DEF Decoded
<1>6. Versioned(re, now) = re
  BY <1>2, <1>5 DEF Versioned
<1>7. wireEncode(re) = [content |-> d.content, inner |-> d.inner]
  <2>1. encodeBlocks(d.content) = d.content /\ encodeBlocks(d.inner) = d.inner
    BY EncodeKeepsOrder DEF Framed
  <2> QED BY <1>5, <2>1 DEF wireEncode
<1>8. toData(re, now) = [name |-> d.name, ct |-> d.ct, content |-> d.content, inner |-> d.inner]
  <2>1. PICK n : n = re.zone \o <<re.queryType>> \o re.rrLabel \o <<re.rrType, re.version>>
    OBVIOUS
  <2>2. n = d.name
    BY <1>2, <1>5, <2>1 DEF BaseName
  <2>3. toData(re, now) = [name |-> n, ct |-> re.ct, content |-> d.content, inner |-> d.inner]
    BY <1>6, <1>7, <2>1 DEF toData
  <2> QED BY <1>5, <2>2, <2>3
<1>9. d = [name |-> d.name, ct |-> d.ct, content |-> d.content, inner |-> d.inner]
  BY DEF Framed
<1> QED BY <1>4, <1>8, <1>9

-----------------------------------------------------------------------------
(* Rows. *)

(* The certificates of the zone are issued as createZone issues them. *)
Issued == \A c \in ZoneCerts : get(c.name, 2) = CERT

(* No file holds a NACK with a packet inside. *)
Unwrapped == \A d \in Files : d.ct = "NACK" => d.inner = <<>>

Keyed(r) == r.data.name = BaseName(Zone, r.label, r.type, r.ver)

(* What addRrsetFromFile makes of a name without a type. *)
Keyless(r) ==
  /\ r.label = <<>> /\ r.type = EmptyComponent /\ r.ver = EmptyComponent
  /\ ~matchData(r.data.name, Zone).ok

(* What is known of the contents from the way a packet came. *)
Told(r) ==
  /\ r.via \in {"cert", "factory", "file", "update"}
  /\ r.via = "factory" /\ r.type = TXT => r.data.ct = "RESP"
  /\ (r.via = "factory" /\ r.type = TXT) \/ (r.via = "update" /\ ~IsRaw(r.data.ct)) =>
       wireDecodeTxt(r.data.content) = r.given
  /\ r.via = "factory" /\ r.type = DOE /\ r.label # <<>> =>
       wireDecodeDoe(r.data.content)[1] = r.label
  /\ Unwrapped /\ r.data.ct = "NACK" => r.data.inner = <<>>

RowOk(r) ==
  /\ r.label \in Name /\ r.type \in Nat /\ r.ver \in Nat
  /\ Len(r.label) < SizeLimit /\ (r.type # DOE => Len(r.label) + 1 < SizeLimit)
  /\ Framed(r.data) /\ Placed(r.data.name)
  /\ Issued => Keyed(r) \/ Keyless(r)
  /\ r.via \in {"factory", "update"} => matchData(r.data.name, Zone).ok
  /\ Told(r)

LEMMA BasePlaced ==
  ASSUME NEW label \in Name, Len(label) < SizeLimit, NEW type \in Nat, NEW ver \in Nat \ {0}
  PROVE  Placed(BaseName(Zone, label, type, ver)) /\ BaseName(Zone, label, type, ver) \in Name
<1>1. PICK n : n = BaseName(Zone, label, type, ver)
  OBVIOUS
<1>2. Places(n, Zone, label, type, ver)
  BY <1>1, ZoneIs, BasePlaces
<1>3. Len(Zone) \in Nat /\ Len(label) \in Nat
  BY ZoneIs DEF Name
<1>4. n \in Name /\ Len(n) = Len(Zone) + Len(label) + 3 /\ n[Len(n)] = ver
  BY <1>2 DEF Places
<1>5. InZone(n, Zone)
  <2>1. Len(n) > Len(Zone)
    BY <1>3, <1>4
  <2> QED BY <1>2, <1>4, <2>1, ZonePlaces DEF Places
<1>6. Len(n) < Len(Zone) + 3 + SizeLimit
  BY <1>3, <1>4, SizeIs
<1> QED BY <1>1, <1>4, <1>5, <1>6 DEF Placed, EmptyComponent

LEMMA DataFramed ==
  ASSUME NEW n \in Name, NEW ct \in ContentTypes, NEW content, IsSeq(content)
  PROVE  Framed(Data(n, ct, content))
BY DEF Framed, Data, IsSeq

LEMMA WrapFramed ==
  ASSUME NEW n \in Name, NEW ct \in ContentTypes, NEW packet
  PROVE  Framed(Wrap(n, ct, packet))
BY DEF Framed, Wrap, IsSeq

(* A packet named after its key. *)
LEMMA KeyedRow ==
  ASSUME NEW label \in Name, Len(label) < SizeLimit, NEW type \in Nat,
         type # DOE => Len(label) + 1 < SizeLimit, NEW ver \in Nat \ {0},
         NEW d, Framed(d), d.name = BaseName(Zone, label, type, ver),
         NEW given, NEW via, Told(Rrset(label, type, ver, d, given, via))
  PROVE  RowOk(Rrset(label, type, ver, d, given, via))
<1>1. PICK r : r = Rrset(label, type, ver, d, given, via)
  OBVIOUS
<1>2. r.label = label /\ r.type = type /\ r.ver = ver /\ r.data = d
  BY <1>1 DEF Rrset
<1>3. Placed(d.name)
  BY BasePlaced
<1>4. Keyed(r)
  BY <1>2 DEF Keyed
<1>5. matchData(d.name, Zone).ok
  <2>1. matchData(BaseName(Zone, label, type, ver), Zone)
          = [ok |-> TRUE, version |-> ver, rrType |-> type, rrLabel |-> label]
    BY MatchInvertsName
  <2> QED BY <2>1
<1> QED BY <1>1, <1>2, <1>3, <1>4, <1>5 DEF RowOk

(* The records of the factory. *)
LEMMA NsRow ==
  ASSUME NEW label \in Name, Len(label) + 1 < SizeLimit, NEW ver \in Nat \ {0},
         NEW delegations \in Seq(Nat)
  PROVE  RowOk(generateNsRrset(Zone, label, ver, delegations))
<1>1. PICK content : content = [i \in DOMAIN delegations |-> NameBlock(<<delegations[i]>>)]
  OBVIOUS
<1>2. IsSeq(content) /\ Len(content) = Len(delegations)
  BY <1>1 DEF IsSeq
<1>3. PICK n : n = BaseName(Zone, label, NS, ver)
  OBVIOUS
<1>4. Len(label) < SizeLimit /\ NS \in Nat
  BY SizeIs, Components DEF Name
<1>5. PICK d : d = Data(n, "LINK", content)
  OBVIOUS
<1>6. Framed(d) /\ d.name = n /\ d.ct = "LINK" /\ d.content = content /\ d.inner = <<>>
  <2>1. n \in Name /\ "LINK" \in ContentTypes
    BY <1>3, <1>4, BasePlaced DEF ContentTypes
  <2> QED BY <1>2, <1>5, <2>1, DataFramed DEF Data
<1>7. Told(Rrset(label, NS, ver, d, delegations, "factory"))
  BY <1>2, <1>6, ComponentAssumption DEF Told, Rrset
<1> QED BY <1>1, <1>3, <1>4, <1>5, <1>6, <1>7, KeyedRow DEF generateNsRrset

LEMMA TxtRow ==
  ASSUME NEW label \in Name, Len(label) + 1 < SizeLimit, NEW ver \in Nat \ {0},
         NEW strings \in Seq(Nat)
  PROVE  RowOk(generateTxtRrset(Zone, label, ver, strings))
<1>1. PICK content : content = [i \in DOMAIN strings |-> RrData(strings[i])]
  OBVIOUS
<1>2. IsSeq(content) /\ wireDecodeTxt(content) = strings
  BY <1>1 DEF IsSeq, wireDecodeTxt, RrData
<1>0. encodeBlocks(content) = content
  BY <1>2, EncodeKeepsOrder
<1>3. PICK n : n = BaseName(Zone, label, TXT, ver)
  OBVIOUS
<1>4. Len(label) < SizeLimit /\ TXT \in Nat
  BY SizeIs, Components DEF Name
<1>5. PICK d : d = Data(n, "RESP", content)
  OBVIOUS
<1>6. Framed(d) /\ d.name = n /\ d.ct = "RESP" /\ d.content = content
  <2>1. n \in Name /\ "RESP" \in ContentTypes
    BY <1>3, <1>4, BasePlaced DEF ContentTypes
  <2> QED BY <1>2, <1>5, <2>1, DataFramed DEF Data
<1>7. Told(Rrset(label, TXT, ver, d, strings, "factory"))
  BY <1>2, <1>6, ComponentAssumption DEF Told, Rrset
<1> QED BY <1>0, <1>1, <1>3, <1>4, <1>5, <1>6, <1>7, KeyedRow DEF generateTxtRrset

LEMMA CertRow ==
  ASSUME NEW label \in Name, Len(label) + 1 < SizeLimit, NEW ver \in Nat \ {0}, NEW cert
  PROVE  RowOk(generateCertRrset(Zone, label, ver, cert))
<1>1. PICK n : n = BaseName(Zone, label, APPCERT, ver)
  OBVIOUS
<1>2. Len(label) < SizeLimit /\ APPCERT \in Nat
  BY SizeIs, Components DEF Name
<1>3. PICK d : d = Wrap(n, "KEY", cert)
  OBVIOUS
<1>4. Framed(d) /\ d.name = n /\ d.ct = "KEY"
  <2>1. n \in Name /\ "KEY" \in ContentTypes
    BY <1>1, <1>2, BasePlaced DEF ContentTypes
  <2> QED BY <1>3, <2>1, WrapFramed DEF Wrap
<1>5. Told(Rrset(label, APPCERT, ver, d, <<>>, "factory"))
  BY <1>4, ComponentAssumption DEF Told, Rrset
<1> QED BY <1>1, <1>2, <1>3, <1>4, <1>5, KeyedRow DEF generateCertRrset

LEMMA AuthRow ==
  ASSUME NEW label \in Name, Len(label) + 1 < SizeLimit, NEW ver \in Nat \ {0}
  PROVE  RowOk(generateAuthRrset(Zone, label, ver))
<1>1. PICK n : n = BaseName(Zone, label, NS, ver)
  OBVIOUS
<1>2. Len(label) < SizeLimit /\ NS \in Nat
  BY SizeIs, Components DEF Name
<1>3. PICK d : d = Data(n, "AUTH", <<>>)
  OBVIOUS
<1>4. Framed(d) /\ d.name = n /\ d.ct = "AUTH"
  <2>1. n \in Name /\ "AUTH" \in ContentTypes /\ IsSeq(<<>>)
    BY <1>1, <1>2, BasePlaced DEF ContentTypes, IsSeq
  <2> QED BY <1>3, <2>1, DataFramed DEF Data
<1>5. Told(Rrset(label, NS, ver, d, <<>>, "factory"))
  BY <1>4, ComponentAssumption DEF Told, Rrset
<1> QED BY <1>1, <1>2, <1>3, <1>4, <1>5, KeyedRow DEF generateAuthRrset

LEMMA DoeRow ==
  ASSUME NEW label \in Name, Len(label) < SizeLimit, NEW ver \in Nat \ {0}, NEW lower, NEW upper,
         label \in {<<>>, lower}
  PROVE  RowOk(generateDoeRrset(Zone, label, ver, lower, upper))
<1>1. PICK n : n = BaseName(Zone, label, DOE, ver)
  OBVIOUS
<1>2. DOE \in Nat
  BY Components
<1>3. PICK content : content = <<NameBlock(lower), NameBlock(upper)>>
  OBVIOUS
<1>4. PICK d : d = Data(n, "DOE", content)
  OBVIOUS
<1>5. IsSeq(content) /\ encodeBlocks(content) = content
  <2>1. IsSeq(content)
    BY <1>3 DEF IsSeq
  <2> QED BY <2>1, EncodeKeepsOrder
<1>6. Framed(d) /\ d.name = n /\ d.ct = "DOE" /\ d.content = content
  <2>1. n \in Name /\ "DOE" \in ContentTypes
    BY <1>1, <1>2, BasePlaced DEF ContentTypes
  <2> QED BY <1>4, <1>5, <2>1, DataFramed DEF Data
<1>7. wireDecodeDoe(content)[1] = lower
  BY <1>3 DEF wireDecodeDoe, NameBlock
<1>8. Told(Rrset(label, DOE, ver, d, <<>>, "factory"))
  BY <1>6, <1>7, ComponentAssumption DEF Told, Rrset
<1> QED BY <1>1, <1>2, <1>3, <1>4, <1>5, <1>6, <1>8, KeyedRow DEF generateDoeRrset

-----------------------------------------------------------------------------
(* Packets that were given. *)

LEMMA GivenPacket ==
  ASSUME NEW d \in ZoneCerts \cup Files
  PROVE  Framed(d) /\ Placed(d.name) /\ Len(d.name) < SizeLimit - 1 /\ 0 \notin Range(d.name)
<1>1. d \in SomePacket /\ IsName(d.name) /\ InZone(d.name, Zone)
  BY RecordsAssumption
<1>2. Framed(d)
  <2>1. /\ d.name \in Name /\ d.ct \in ContentTypes
        /\ d = [name |-> d.name, ct |-> d.ct, content |-> d.content, inner |-> d.inner]
    BY <1>1 DEF SomePacket
  <2>2. d.content \in Seq(Block) /\ d.inner \in Seq(PlainPacket)
    BY <1>1 DEF SomePacket
  <2>3. IsSeq(d.content) /\ IsSeq(d.inner)
    BY <2>2, SeqIs
  <2> QED BY <2>1, <2>3 DEF Framed
<1>3. PICK n : n = d.name
  OBVIOUS
<1>4. n \in Name /\ Len(n) \in Nat /\ Len(n) < SizeLimit - 1 /\ 0 \notin Range(n)
  BY <1>1, <1>3 DEF IsName, Name, EmptyComponent
<1>5. n[Len(n)] # EmptyComponent
  <2>1. Len(n) > Len(Zone)
    BY <1>1, <1>3, <1>4, ZonePlaces
  <2>2. Len(n) \in DOMAIN n
    BY <1>4, <2>1, ZoneIs DEF Name
  <2> QED BY <1>4, <2>2 DEF Range, EmptyComponent
<1>6. Len(n) < Len(Zone) + 3 + SizeLimit
  BY <1>4, ZoneIs, SizeIs
<1> QED BY <1>1, <1>2, <1>3, <1>4, <1>5, <1>6 DEF Placed

(* Its parts, if it has them. *)
LEMMA GivenParts ==
  ASSUME NEW d \in ZoneCerts \cup Files, matchData(d.name, Zone).ok
  PROVE  MadeOf(d.name, matchData(d.name, Zone)) /\ Len(matchData(d.name, Zone).rrLabel) + 1 < SizeLimit
<1>1. PICK n : n = d.name
  OBVIOUS
<1>2. n \in Name /\ InZone(n, Zone) /\ Len(n) < Len(Zone) + 3 + SizeLimit /\ Len(n) < SizeLimit - 1
  BY <1>1, GivenPacket DEF Placed
<1>3. PICK m : m = matchData(n, Zone)
  OBVIOUS
<1>4. MadeOf(n, m)
  BY <1>1, <1>2, <1>3, NameInvertsMatch
<1>5. Len(m.rrLabel) + 1 < SizeLimit
  <2>1. Len(m.rrLabel) = Len(n) - Len(Zone) - 3 /\ Len(n) \in Nat
    BY <1>2, <1>4 DEF MadeOf, Name
  <2> QED BY <1>2, <2>1, ZoneIs, SizeIs
<1> QED BY <1>1, <1>3, <1>4, <1>5

LEMMA IdCertRow ==
  ASSUME NEW c \in ZoneCerts
  PROVE  RowOk(IdCert(c))
<1>1. PICK n : n = c.name
  OBVIOUS
<1>2. c.ct = "KEY" /\ Len(n) >= Len(Zone) + 3
  BY <1>1, RecordsAssumption, ZoneIs DEF calculateSkip
<1>3. Framed(c) /\ Placed(n) /\ n \in Name /\ Len(n) \in Nat
  BY <1>1, GivenPacket DEF Placed, Name
<1>4. PICK m : m = matchData(n, Zone)
  OBVIOUS
<1>5. m.ok
  <2>1. Len(n) - (Len(Zone) + 1) >= 2
    BY <1>2, <1>3, ZoneIs
  <2> QED BY <1>4, <2>1 DEF matchData, calculateSkip
<1>6. MadeOf(n, m) /\ Len(m.rrLabel) + 1 < SizeLimit
  BY <1>1, <1>4, <1>5, GivenParts
<1>7. /\ m.rrLabel = getSubName(n, Len(Zone) + 1, SizeT(Len(n) - Len(Zone) - 3))
      /\ m.version = get(n, 1) /\ m.rrType = get(n, 2)
  <2>1. Len(n) - (Len(Zone) + 1) - 2 = Len(n) - Len(Zone) - 3
    BY <1>3, ZoneIs
  <2> QED BY <1>4, <2>1 DEF matchData, calculateSkip
<1>8. PICK r : r = IdCert(c)
  OBVIOUS
<1>9. /\ r.label = m.rrLabel /\ r.type = CERT /\ r.ver = m.version /\ r.data = c
      /\ r.via = "cert"
  BY <1>1, <1>7, <1>8 DEF IdCert, Rrset
<1>10. Issued => Keyed(r)
  BY <1>1, <1>6, <1>7, <1>9 DEF Issued, Keyed, MadeOf
<1>11. Told(r)
  BY <1>2, <1>9, ComponentAssumption DEF Told
<1>12. r.label \in Name /\ r.ver \in Nat /\ r.type \in Nat /\ Len(r.label) \in Nat
  <2>1. r.label \in Name /\ r.ver \in Nat /\ r.type \in Nat
    BY <1>6, <1>9, Components DEF MadeOf
  <2> QED BY <2>1 DEF Name
<1>13. Len(r.label) < SizeLimit
  BY <1>6, <1>9, <1>12, SizeIs
<1> QED BY <1>1, <1>3, <1>6, <1>8, <1>9, <1>10, <1>11, <1>12, <1>13 DEF RowOk

(* A packet that has its parts, filed by them. *)
LEMMA FiledRow ==
  ASSUME NEW d \in Files, matchData(d.name, Zone).ok
  PROVE  RowOk(Filed(d, <<>>, "file"))
<1>1. PICK m : m = matchData(d.name, Zone)
  OBVIOUS
<1>2. MadeOf(d.name, m) /\ Len(m.rrLabel) + 1 < SizeLimit
  BY <1>1, GivenParts
<1>3. Framed(d) /\ Placed(d.name)
  BY GivenPacket
<1>4. PICK r : r = Filed(d, <<>>, "file")
  OBVIOUS
<1>5. /\ r.label = m.rrLabel /\ r.type = m.rrType /\ r.ver = m.version /\ r.data = d
      /\ r.via = "file"
  BY <1>1, <1>4 DEF Filed, Rrset
<1>6. Keyed(r)
  BY <1>2, <1>5 DEF Keyed, MadeOf
<1>7. Told(r)
  BY <1>5 DEF Told, Unwrapped
<1>8. r.label \in Name /\ r.ver \in Nat /\ r.type \in Nat /\ Len(r.label) \in Nat
  <2>1. r.label \in Name /\ r.ver \in Nat /\ r.type \in Nat
    BY <1>2, <1>5 DEF MadeOf
  <2> QED BY <2>1 DEF Name
<1>9. Len(r.label) < SizeLimit
  BY <1>2, <1>5, <1>8, SizeIs
<1> QED BY <1>2, <1>3, <1>4, <1>5, <1>6, <1>7, <1>8, <1>9 DEF RowOk

(* addRrsetFromFile: by them, or under the empty key. *)
LEMMA FileRow ==
  ASSUME NEW d \in Files, NEW re, re = fromData(EmptyResponse, Zone, d)
  PROVE  RowOk(Rrset(re.rrLabel, re.rrType, re.version, d, <<>>, "file"))
<1>1. Framed(d) /\ Placed(d.name)
  BY GivenPacket
<1>2. CASE matchData(d.name, Zone).ok
  <2>1. re = Decoded(d)
    BY <1>1, <1>2, FromDataIs
  <2>2. Rrset(re.rrLabel, re.rrType, re.version, d, <<>>, "file") = Filed(d, <<>>, "file")
    BY <2>1 DEF Filed, Decoded
  <2> QED BY <1>2, <2>2, FiledRow
<1>3. CASE ~matchData(d.name, Zone).ok
  <2>1. re.rrLabel = <<>> /\ re.rrType = 0 /\ re.version = 0
    BY <1>3, FromDataShort DEF EmptyResponse, EmptyComponent
  <2>2. PICK r : r = Rrset(<<>>, 0, 0, d, <<>>, "file")
    OBVIOUS
  <2>3. r.label = <<>> /\ r.type = 0 /\ r.ver = 0 /\ r.data = d /\ r.via = "file"
    BY <2>2 DEF Rrset
  <2>4. Keyless(r)
    BY <1>3, <2>3 DEF Keyless, EmptyComponent
  <2>5. Told(r)
    BY <2>3 DEF Told, Unwrapped
  <2>6. r.label \in Name /\ Len(r.label) < SizeLimit /\ Len(r.label) + 1 < SizeLimit
    BY <2>3, SizeIs DEF Name
  <2> QED BY <1>1, <2>1, <2>2, <2>3, <2>4, <2>5, <2>6 DEF RowOk
<1> QED BY <1>2, <1>3

(* What toNdnsContentType knows. *)
LEMMA ContentTypeIs ==
  ASSUME NEW str
  PROVE  toNdnsContentType(str) \in ContentTypes
BY DEF toNdnsContentType, ContentTypes

LEMMA UpdateDataIs ==
  ASSUME NEW req \in UpdReqs
  PROVE  UpdateData(req) =
           [name |-> BaseName(Zone, req.label, req.type, Now),
            ct |-> toNdnsContentType(req.contentType),
            content |-> IF IsRaw(toNdnsContentType(req.contentType)) THEN <<>>
                        ELSE [i \in DOMAIN req.contents |-> RrData(req.contents[i])],
            inner |-> <<>>]
<1>1. PICK ct : ct = toNdnsContentType(req.contentType)
  OBVIOUS
<1>2. PICK blocks : blocks = [i \in DOMAIN req.contents |-> RrData(req.contents[i])]
  OBVIOUS
<1>3. <<>> \o blocks = blocks
  <2>1. req.contents \in Seq(Nat)
    BY RecordsAssumption
  <2>2. IsSeq(blocks)
    BY <1>2, <2>1 DEF IsSeq
  <2> QED BY <2>2, AfterNothing
<1>4. PICK re : re = [EmptyResponse EXCEPT !.zone = Zone, !.rrLabel = req.label, !.queryType = NDNS,
                        !.rrType = req.type, !.ct = ct]
  OBVIOUS
<1>5. re = [zone |-> Zone, queryType |-> NDNS, rrLabel |-> req.label, rrType |-> req.type,
            version |-> EmptyComponent, ct |-> ct, app |-> [content |-> <<>>, inner |-> <<>>],
            rrs |-> <<>>, inner |-> <<>>]
  BY <1>4 DEF EmptyResponse
<1>6. PICK full : full = addRrs(re, blocks)
  OBVIOUS
<1>7. PICK r : r = Versioned(full, Now)
  OBVIOUS
<1>8. r = [zone |-> Zone, queryType |-> NDNS, rrLabel |-> req.label, rrType |-> req.type,
           version |-> Now, ct |-> ct, app |-> [content |-> <<>>, inner |-> <<>>],
           rrs |-> blocks, inner |-> <<>>]
  BY <1>3, <1>5, <1>6, <1>7 DEF addRrs, Versioned
<1>9. wireEncode(r) = [content |-> IF IsRaw(ct) THEN <<>> ELSE blocks, inner |-> <<>>]
  <2>1. IsSeq(blocks) /\ IsSeq(<<>>)
    <3>1. req.contents \in Seq(Nat)
      BY RecordsAssumption
    <3> QED BY <1>2, <3>1 DEF IsSeq
  <2>2. encodeBlocks(blocks) = blocks /\ encodeBlocks(<<>>) = <<>>
    BY <2>1, EncodeKeepsOrder
  <2> QED BY <1>8, <2>2 DEF wireEncode
<1>10. UpdateData(req) = toData(full, Now)
  BY <1>1, <1>2, <1>4, <1>6 DEF UpdateData
<1>11. toData(full, Now) = [name |-> BaseName(Zone, req.label, req.type, Now), ct |-> ct,
                            content |-> IF IsRaw(ct) THEN <<>> ELSE blocks, inner |-> <<>>]
  <2>1. PICK n : n = r.zone \o <<r.queryType>> \o r.rrLabel \o <<r.rrType, r.version>>
    OBVIOUS
  <2>2. n = BaseName(Zone, req.label, req.type, Now)
    <3>1. r.zone = Zone /\ r.queryType = NDNS /\ r.rrLabel = req.label /\ r.rrType = req.type
            /\ r.version = Now
      BY <1>8
    <3> QED BY <2>1, <3>1 DEF BaseName
  <2>3. PICK c : c = wireEncode(r)
    OBVIOUS
  <2>4. toData(full, Now) = [name |-> n, ct |-> r.ct, content |-> c.content, inner |-> c.inner]
    BY <1>7, <2>1, <2>3 DEF toData
  <2>5. r.ct = ct /\ c.content = (IF IsRaw(ct) THEN <<>> ELSE blocks) /\ c.inner = <<>>
    BY <1>8, <1>9, <2>3
  <2> QED BY <2>2, <2>4, <2>5
<1> QED BY <1>1, <1>2, <1>10, <1>11

LEMMA UpdateRow ==
  ASSUME NEW req \in UpdReqs, Now \in Nat \ {0}
  PROVE  RowOk(Filed(UpdateData(req), req.contents, "update"))
<1>1. PICK d : d = UpdateData(req)
  OBVIOUS
<1>2. PICK label, type, ct : label = req.label /\ type = req.type
                             /\ ct = toNdnsContentType(req.contentType)
  OBVIOUS
<1>3. label \in Name /\ Len(label) < SizeLimit - 1 /\ type \in Nat /\ req.contents \in Seq(Nat)
  BY <1>2, RecordsAssumption DEF IsName
<1>4. Len(label) + 1 < SizeLimit /\ Len(label) < SizeLimit
  BY <1>3, SizeIs DEF Name
<1>5. PICK n : n = BaseName(Zone, label, type, Now)
  OBVIOUS
<1>6. PICK blocks : blocks = [i \in DOMAIN req.contents |-> RrData(req.contents[i])]
  OBVIOUS
<1>7. d = [name |-> n, ct |-> ct, content |-> IF IsRaw(ct) THEN <<>> ELSE blocks, inner |-> <<>>]
  BY <1>1, <1>2, <1>5, <1>6, UpdateDataIs
<1>8. IsSeq(blocks) /\ wireDecodeTxt(blocks) = req.contents
  <2>1. PICK given : given = req.contents
    OBVIOUS
  <2>2. given \in Seq(Nat) /\ blocks = [i \in DOMAIN given |-> RrData(given[i])]
    BY <1>3, <1>6, <2>1
  <2>3. IsSeq(blocks) /\ wireDecodeTxt(blocks) = given
    BY <2>2 DEF IsSeq, wireDecodeTxt, RrData
  <2> QED BY <2>1, <2>3
<1>9. Framed(d)
  <2>1. n \in Name /\ ct \in ContentTypes
    BY <1>2, <1>3, <1>4, <1>5, BasePlaced, ContentTypeIs
  <2>2. IsSeq(<<>>)
    BY DEF IsSeq
  <2> QED BY <1>7, <1>8, <2>1, <2>2 DEF Framed
<1>10. PICK r : r = Rrset(label, type, Now, d, req.contents, "update")
  OBVIOUS
<1>11. Filed(d, req.contents, "update") = r
  <2>1. matchData(n, Zone) = [ok |-> TRUE, version |-> Now, rrType |-> type, rrLabel |-> label]
    BY <1>3, <1>4, <1>5, MatchInvertsName
  <2> QED BY <1>7, <1>10, <2>1 DEF Filed
<1>12. Told(r)
  BY <1>7, <1>8, <1>10 DEF Told, Rrset
<1>13. d.name = BaseName(Zone, label, type, Now)
  BY <1>5, <1>7
<1> QED BY <1>1, <1>3, <1>4, <1>9, <1>10, <1>11, <1>12, <1>13, KeyedRow

(***************************************************************************)
(* The chain, whatever its order.                                          *)
(***************************************************************************)
LEMMA ChainRows ==
  ASSUME NEW S, \A r \in S : RowOk(r), Now \in Nat \ {0}
  PROVE  \A r \in Chain(S) : RowOk(r)
<1>1. ASSUME NEW r \in RecordsIn(S)
      PROVE  RowOk(r) /\ KeyName(r) \in Name /\ Len(KeyName(r)) < SizeLimit
  <2>1. RowOk(r) /\ r.type # DOE
    BY <1>1 DEF RecordsIn
  <2>2. r.label \in Name /\ r.type \in Nat /\ Len(r.label) + 1 < SizeLimit
    BY <2>1 DEF RowOk
  <2>3. KeyName(r) = Append(r.label, r.type)
    BY DEF KeyName
  <2> QED BY <2>1, <2>2, <2>3 DEF Name
<1>2. <<>> \in Name /\ Len(<<>>) < SizeLimit
  BY SizeIs DEF Name
<1>3. SUFFICES ASSUME NEW r \in Chain(S)
               PROVE  RowOk(r)
  OBVIOUS
<1>4. CASE r \in RecordsIn(S)
  BY <1>1, <1>4
<1>5. CASE \E x \in RecordsIn(S) : \E hi : r = generateDoeRrset(Zone, KeyName(x), Now, KeyName(x), hi)
  BY <1>1, <1>5, DoeRow
<1>6. CASE \E lo, hi : r = generateDoeRrset(Zone, <<>>, Now, lo, hi)
  BY <1>2, <1>6, DoeRow
<1>7. (\E x \in RecordsIn(S) : \E hi : r = generateDoeRrset(Zone, KeyName(x), Now, KeyName(x), hi))
        \/ (\E lo, hi : r = generateDoeRrset(Zone, <<>>, Now, lo, hi)) \/ r \in RecordsIn(S)
  BY Zenon DEF Chain
<1> QED BY <1>4, <1>5, <1>6, <1>7

-----------------------------------------------------------------------------
(* The inductive invariant. *)

Rows == \A r \in rows : RowOk(r)
Inv ==
  /\ Rows
  /\ out.kind \in {"none", "query", "update", "get", "list"}
  /\ ops \in 0 .. MaxOps

LEMMA NowIs == ASSUME ops \in 0 .. MaxOps PROVE Now \in Nat \ {0}
BY Components, RecordsAssumption DEF Now

LEMMA InvInit == Init => Inv
<1> SUFFICES ASSUME Init PROVE Inv
  OBVIOUS
<1>1. ops = 0 /\ out = Silent
  BY DEF Init
<1>2. ops \in 0 .. MaxOps
  BY <1>1, RecordsAssumption
<1>3. PICK S : S = {IdCert(c) : c \in ZoneCerts}
  OBVIOUS
<1>4. \A r \in S : RowOk(r)
  BY <1>3, IdCertRow
<1>5. rows = Chain(S)
  BY <1>3 DEF Init
<1>6. \A r \in Chain(S) : RowOk(r)
  BY <1>2, <1>4, NowIs, ChainRows
<1> QED BY <1>1, <1>2, <1>5, <1>6 DEF Inv, Rows, Silent

(* The labels above a label. *)
LEMMA AboveIs ==
  ASSUME NEW label \in Name, Len(label) + 1 < SizeLimit, NEW p \in Above(label)
  PROVE  p \in Name /\ Len(p) + 1 < SizeLimit
<1>1. PICK i \in 1 .. Len(label) - 1 : p = SubSeq(label, 1, i)
  BY DEF Above
<1>2. p \in Name /\ Len(p) = i /\ Len(label) \in Nat
  BY <1>1 DEF Name
<1> QED BY <1>1, <1>2, SizeIs

LEMMA AuthsRows ==
  ASSUME NEW label \in Name, Len(label) + 1 < SizeLimit, Now \in Nat \ {0}
  PROVE  \A r \in Auths(label) : RowOk(r)
BY AboveIs, AuthRow DEF Auths

LEMMA StoreRows ==
  ASSUME Rows, Now \in Nat \ {0}, NEW rr, RowOk(rr), NEW auths, \A r \in auths : RowOk(r),
         Store(rr, auths)
  PROVE  Rows'
<1>1. PICK S : S = (rows \ Find(rr.label, rr.type)) \cup auths \cup {rr}
  OBVIOUS
<1>2. \A r \in S : RowOk(r)
  BY <1>1 DEF Rows
<1>3. rows' = Chain(S)
  BY <1>1 DEF Store
<1>4. \A r \in Chain(S) : RowOk(r)
  BY <1>2, ChainRows
<1> QED BY <1>3, <1>4 DEF Rows

(* The labels of requests. *)
LEMMA RequestLabel ==
  ASSUME NEW label, IsName(label)
  PROVE  label \in Name /\ Len(label) + 1 < SizeLimit
BY SizeIs DEF IsName, Name

LEMMA UpdateRows ==
  ASSUME Inv, NEW rr, RowOk(rr), Update(rr)
  PROVE  Inv'
<1>1. Rows'
  BY DEF Inv, Rows, Update
<1>2. ops' \in 0 .. MaxOps
  BY RecordsAssumption DEF Inv, Update
<1>3. out'.kind = "update"
  BY DEF Update
<1> QED BY <1>1, <1>2, <1>3 DEF Inv

LEMMA InvNext == Inv /\ [Next]_vars => Inv'
<1> SUFFICES ASSUME Inv, [Next]_vars PROVE Inv'
  OBVIOUS
<1>0. Now \in Nat \ {0} /\ ops \in 0 .. MaxOps /\ Rows /\ MaxOps \in Nat
  BY NowIs, RecordsAssumption DEF Inv
<1>1. ASSUME NEW req \in AddReqs, AddRr(req) PROVE Inv'
  <2>1. req.label \in Name /\ Len(req.label) + 1 < SizeLimit /\ req.contents \in Seq(Nat)
    BY RecordsAssumption, RequestLabel
  <2>2. PICK rr \in (IF req.type = NS THEN {generateNsRrset(Zone, req.label, Now, req.contents)}
                     ELSE IF req.type = TXT
                     THEN {generateTxtRrset(Zone, req.label, Now, req.contents)} ELSE {}) :
          Store(rr, Auths(req.label)) \/ rows' = rows \cup Auths(req.label)
    BY <1>1 DEF AddRr
  <2>3. RowOk(rr)
    BY <1>0, <2>1, <2>2, NsRow, TxtRow
  <2>4. \A r \in Auths(req.label) : RowOk(r)
    BY <1>0, <2>1, AuthsRows
  <2>5. Rows'
    <3>1. CASE Store(rr, Auths(req.label))
      BY <1>0, <2>3, <2>4, <3>1, StoreRows
    <3>2. CASE rows' = rows \cup Auths(req.label)
      BY <1>0, <2>4, <3>2 DEF Rows
    <3> QED BY <2>2, <3>1, <3>2
  <2>6. ops < MaxOps /\ ops' = ops + 1 /\ out' = Silent
    BY <1>1 DEF AddRr
  <2> QED BY <1>0, <2>5, <2>6 DEF Inv, Silent
<1>2. ASSUME NEW req \in AppCerts, AddAppCert(req) PROVE Inv'
  <2>1. req.label \in Name /\ Len(req.label) + 1 < SizeLimit
    BY RecordsAssumption, RequestLabel
  <2>2. PICK rr : rr = generateCertRrset(Zone, req.label, Now, req.cert)
    OBVIOUS
  <2>3. RowOk(rr)
    BY <1>0, <2>1, <2>2, CertRow
  <2>4. Store(rr, {})
    BY <1>2, <2>2 DEF AddAppCert
  <2>5. Rows'
    BY <1>0, <2>3, <2>4, StoreRows
  <2>6. ops < MaxOps /\ ops' = ops + 1 /\ out' = Silent
    BY <1>2 DEF AddAppCert
  <2> QED BY <1>0, <2>5, <2>6 DEF Inv, Silent
<1>3. ASSUME NEW d \in Files, AddFile(d) PROVE Inv'
  <2>1. PICK re : re = fromData(EmptyResponse, Zone, d)
    OBVIOUS
  <2>2. PICK rr : rr = Rrset(re.rrLabel, re.rrType, re.version, d, <<>>, "file")
    OBVIOUS
  <2>3. RowOk(rr)
    BY <2>1, <2>2, FileRow
  <2>4. Store(rr, {})
    BY <1>3, <2>1, <2>2 DEF AddFile
  <2>5. Rows'
    BY <1>0, <2>3, <2>4, StoreRows
  <2>6. ops < MaxOps /\ ops' = ops + 1 /\ out' = Silent
    BY <1>3 DEF AddFile
  <2> QED BY <1>0, <2>5, <2>6 DEF Inv, Silent
<1>4. ASSUME NEW r \in rows, RemoveRr(r) PROVE Inv'
  <2>1. PICK S : S = rows \ {r}
    OBVIOUS
  <2>2. \A x \in S : RowOk(x)
    BY <1>0, <2>1 DEF Rows
  <2>3. \A x \in Chain(S) : RowOk(x)
    BY <1>0, <2>2, ChainRows
  <2>4. rows' = Chain(S) /\ ops < MaxOps /\ ops' = ops + 1 /\ out' = Silent
    BY <1>4, <2>1 DEF RemoveRr
  <2>5. Rows'
    BY <2>3, <2>4 DEF Rows
  <2> QED BY <1>0, <2>4, <2>5 DEF Inv, Silent
<1>5. ASSUME NEW req \in UpdReqs, UpdateRr(req) PROVE Inv'
  BY <1>0, <1>5, UpdateRow, UpdateRows DEF UpdateRr
<1>6. ASSUME NEW d \in Files, UpdateFile(d) PROVE Inv'
  BY <1>6, FiledRow, UpdateRows DEF UpdateFile
<1>7. ASSUME NEW q \in Interests, Ask(q) PROVE Inv'
  <2>1. rows' = rows /\ ops' = ops /\ out'.kind = "query"
    BY <1>7 DEF Ask
  <2> QED BY <1>0, <2>1 DEF Inv, Rows
<1>8. ASSUME NEW q, Get(q) PROVE Inv'
  <2>1. rows' = rows /\ ops' = ops /\ out'.kind = "get"
    BY <1>8 DEF Get
  <2> QED BY <1>0, <2>1 DEF Inv, Rows
<1>9. ASSUME NEW c \in ZoneCerts, Export(c) PROVE Inv'
  <2>1. rows' = rows /\ ops' = ops /\ out'.kind = "get"
    BY <1>9 DEF Export
  <2> QED BY <1>0, <2>1 DEF Inv, Rows
<1>10. CASE List
  <2>1. rows' = rows /\ ops' = ops /\ out'.kind = "list"
    BY <1>10 DEF List
  <2> QED BY <1>0, <2>1 DEF Inv, Rows
<1>11. CASE UNCHANGED vars
  BY <1>11 DEF Inv, Rows, vars
<1> QED BY <1>1, <1>2, <1>3, <1>4, <1>5, <1>6, <1>7, <1>8, <1>9, <1>10, <1>11 DEF Next

LEMMA AlwaysInv == Spec => []Inv
BY InvInit, InvNext, PTL DEF Spec

(* Every variable of the records has its type. *)
THEOREM RecordsTypes == Spec => []TypeOK
<1>1. Inv => TypeOK
  BY DEF Inv, Rows, RowOk, Framed, TypeOK
<1> QED BY <1>1, AlwaysInv, PTL

(***************************************************************************)
(* Decoding a stored packet loses nothing, in every zone and for every     *)
(* request, packet and certificate.                                        *)
(***************************************************************************)
THEOREM AlwaysLossless == Spec => []Lossless
<1>1. Inv => Lossless
  <2> SUFFICES ASSUME Inv, NEW r \in rows, matchData(r.data.name, Zone).ok
               PROVE  toData(fromData(EmptyResponse, Zone, r.data), Now) = r.data
    BY DEF Lossless
  <2>1. Framed(r.data) /\ Placed(r.data.name)
    BY DEF Inv, Rows, RowOk
  <2> QED BY <2>1, EncodeDecoded
<1> QED BY <1>1, AlwaysInv, PTL

(***************************************************************************)
(* The texts given on a command line come out at a reader in their order,  *)
(* and a range begins where it is filed: in every zone and for any number  *)
(* of texts.                                                               *)
(***************************************************************************)
THEOREM AlwaysContentsKept == Spec => []ContentsKept
<1>1. Inv => ContentsKept
  <2> SUFFICES ASSUME Inv, NEW r \in rows
               PROVE  /\ \/ r.via = "factory" /\ r.type = TXT
                         \/ r.via = "update" /\ ~IsRaw(r.data.ct)
                         => wireDecodeTxt(Read(r)) = r.given
                      /\ r.via = "factory" /\ r.type = DOE /\ r.label # <<>> =>
                           wireDecodeDoe(r.data.content)[1] = r.label
    BY DEF ContentsKept
  <2>1. /\ Framed(r.data) /\ Placed(r.data.name) /\ Told(r)
        /\ r.via \in {"factory", "update"} => matchData(r.data.name, Zone).ok
    BY DEF Inv, Rows, RowOk
  <2>2. ASSUME (r.via = "factory" /\ r.type = TXT) \/ (r.via = "update" /\ ~IsRaw(r.data.ct))
        PROVE  wireDecodeTxt(Read(r)) = r.given
    <3>1. ~IsRaw(r.data.ct) /\ wireDecodeTxt(r.data.content) = r.given
      BY <2>1, <2>2 DEF Told, IsRaw
    <3>2. fromData(EmptyResponse, Zone, r.data) = Decoded(r.data)
      BY <2>1, <2>2, FromDataIs
    <3>3. Read(r) = r.data.content
      BY <3>1, <3>2 DEF Read, Decoded
    <3> QED BY <3>1, <3>3
  <2>3. r.via = "factory" /\ r.type = DOE /\ r.label # <<>> =>
          wireDecodeDoe(r.data.content)[1] = r.label
    BY <2>1 DEF Told
  <2> QED BY <2>2, <2>3
<1> QED BY <1>1, AlwaysInv, PTL

(***************************************************************************)
(* Every record is filed under what its own name decodes to, if the zone's *)
(* certificates are issued under CERT.                                     *)
(***************************************************************************)
THEOREM AlwaysFiledByName == ASSUME Issued PROVE Spec => []FiledByName
<1>1. Inv => FiledByName
  <2> SUFFICES ASSUME Inv, NEW r \in rows, matchData(r.data.name, Zone).ok
               PROVE  LET m == matchData(r.data.name, Zone)
                      IN  r.label = m.rrLabel /\ r.type = m.rrType /\ r.ver = m.version
    BY DEF FiledByName
  <2>1. /\ r.label \in Name /\ r.type \in Nat /\ r.ver \in Nat /\ Len(r.label) < SizeLimit
        /\ Keyed(r) \/ Keyless(r)
    BY DEF Inv, Rows, RowOk
  <2>2. r.data.name = BaseName(Zone, r.label, r.type, r.ver)
    BY <2>1 DEF Keyed, Keyless
  <2>3. matchData(BaseName(Zone, r.label, r.type, r.ver), Zone)
          = [ok |-> TRUE, version |-> r.ver, rrType |-> r.type, rrLabel |-> r.label]
    BY <2>1, MatchInvertsName
  <2> QED BY <2>2, <2>3
<1> QED BY <1>1, AlwaysInv, PTL

-----------------------------------------------------------------------------
(* What steps say. *)

(* A step of a command says nothing, or whether the update was made. *)
LEMMA CommandSays ==
  ASSUME NEW x
  PROVE  /\ AddRr(x) \/ AddAppCert(x) \/ AddFile(x) \/ RemoveRr(x) => out' = Silent
         /\ Update(x) => out'.kind = "update"
<1>1. AddRr(x) => out' = Silent
  BY DEF AddRr
<1>2. AddAppCert(x) => out' = Silent
  BY DEF AddAppCert
<1>3. AddFile(x) => out' = Silent
  BY DEF AddFile
<1>4. RemoveRr(x) => out' = Silent
  BY DEF RemoveRr
<1>5. Update(x) => out'.kind = "update"
  BY DEF Update
<1> QED BY <1>1, <1>2, <1>3, <1>4, <1>5

(* Only Ask answers a query. *)
LEMMA StepSays ==
  ASSUME Next
  PROVE  out'.kind = "query" => \E q \in Interests : Ask(q)
<1>1. \A x : AddRr(x) \/ AddAppCert(x) \/ AddFile(x) \/ RemoveRr(x) \/ Update(x) =>
               out'.kind \in {"none", "update"}
  BY CommandSays DEF Silent
<1>2. \A q : Get(q) => out'.kind = "get"
  BY DEF Get
<1>3. \A c : Export(c) => out'.kind = "get"
  BY DEF Export
<1>4. List => out'.kind = "list"
  BY DEF List
<1>5. \A q : Ask(q) => out'.kind = "query"
  BY DEF Ask
<1> QED BY <1>1, <1>2, <1>3, <1>4, <1>5 DEF Next, UpdateRr, UpdateFile

-----------------------------------------------------------------------------
(* Questions and answers. *)

(* What the daemon reads of the name of a query, and what it asks for. *)
AskedFor(q, m) ==
  /\ m.rrLabel \in Name /\ m.rrType \in Nat \ {0}
  /\ \A ver \in Nat : m.version \in {0, ver} => IsPrefix(q, BaseName(Zone, m.rrLabel, m.rrType, ver))

LEMMA InterestIs ==
  ASSUME NEW q \in Interests
  PROVE  /\ q \in Name /\ Len(q) \in Nat /\ Len(q) < SizeLimit - 1 /\ Len(q) >= Len(Zone) + 2
         /\ \A i \in 1 .. Len(q) : q[i] \in Nat \ {0}
         /\ q[Len(Zone) + 1] = NDNS /\ \A i \in 1 .. Len(Zone) : q[i] = Zone[i]
<1>1. IsName(q) /\ InZone(q, Zone) /\ Len(q) > Len(Zone) + 1
  BY RecordsAssumption DEF calculateSkip
<1>2. q \in Name /\ Len(q) \in Nat /\ Len(q) < SizeLimit - 1 /\ 0 \notin Range(q)
  BY <1>1 DEF IsName, Name, EmptyComponent
<1>3. \A i \in 1 .. Len(q) : q[i] \in Nat \ {0}
  BY <1>2 DEF Range, Name
<1>4. q[Len(Zone) + 1] = NDNS /\ \A i \in 1 .. Len(Zone) : q[i] = Zone[i]
  BY <1>1, <1>2, ZonePlaces
<1> QED BY <1>1, <1>2, <1>3, <1>4, ZoneIs

LEMMA InterestAsks ==
  ASSUME NEW q \in Interests
  PROVE  AskedFor(q, matchInterest(q, Zone))
<1>1. PICK m : m = matchInterest(q, Zone)
  OBVIOUS
<1>2. /\ q \in Name /\ Len(q) \in Nat /\ Len(q) < SizeLimit - 1 /\ Len(q) >= Len(Zone) + 2
      /\ \A i \in 1 .. Len(q) : q[i] \in Nat \ {0}
      /\ q[Len(Zone) + 1] = NDNS /\ \A i \in 1 .. Len(Zone) : q[i] = Zone[i]
  BY InterestIs
<1>3. PICK z : z = Len(Zone)
  OBVIOUS
<1>4. z \in Nat /\ Zone \in Name
  BY <1>3, ZoneIs
<1>5. get(q, 1) = q[Len(q)] /\ get(q, 2) = q[Len(q) - 1]
  <2>1. Len(q) + 1 - 1 = Len(q) /\ Len(q) + 1 - 2 = Len(q) - 1
    BY <1>2
  <2> QED BY <2>1 DEF get
<1>6. PICK label, type : label = m.rrLabel /\ type = m.rrType
  OBVIOUS
(* It is enough that the name goes on where the question ends. *)
<1>7. ASSUME label \in Name, type \in Nat \ {0}, NEW ver \in Nat, Len(q) =< z + Len(label) + 3,
             \A i \in z + 2 .. Len(q) :
               q[i] = IF i =< z + 1 + Len(label) THEN label[i - (z + 1)]
                      ELSE IF i = z + 2 + Len(label) THEN type ELSE ver
      PROVE  IsPrefix(q, BaseName(Zone, label, type, ver))
  <2>1. PICK n : n = BaseName(Zone, label, type, ver)
    OBVIOUS
  <2>2. Places(n, Zone, label, type, ver)
    BY <1>4, <1>7, <2>1, BasePlaces
  <2>3. /\ n \in Name /\ Len(n) = z + Len(label) + 3
        /\ \A i \in 1 .. z : n[i] = Zone[i]
        /\ n[z + 1] = NDNS
        /\ \A i \in 1 .. Len(label) : n[z + 1 + i] = label[i]
        /\ n[z + Len(label) + 2] = type /\ n[z + Len(label) + 3] = ver
    BY <1>3, <2>2 DEF Places
  <2>4. Len(label) \in Nat
    BY <1>7 DEF Name
  <2>5. ASSUME NEW i \in 1 .. Len(q) PROVE q[i] = n[i]
    <3>1. CASE i =< z + 1
      BY <1>2, <1>3, <1>4, <2>3, <3>1
    <3>2. CASE i > z + 1 /\ i =< z + 1 + Len(label)
      <4>1. i - (z + 1) \in 1 .. Len(label) /\ i = z + 1 + (i - (z + 1)) /\ i \in z + 2 .. Len(q)
        BY <1>2, <1>4, <2>4, <3>2
      <4>2. q[i] = label[i - (z + 1)]
        BY <1>7, <3>2, <4>1
      <4> QED BY <2>3, <4>1, <4>2
    <3>3. CASE i = z + 2 + Len(label)
      <4>1. i \in z + 2 .. Len(q) /\ ~(i =< z + 1 + Len(label)) /\ i = z + Len(label) + 2
        BY <1>2, <1>4, <2>4, <3>3
      <4> QED BY <1>7, <2>3, <3>3, <4>1
    <3>4. CASE i > z + 2 + Len(label)
      <4>1. /\ i \in z + 2 .. Len(q) /\ ~(i =< z + 1 + Len(label)) /\ i # z + 2 + Len(label)
            /\ i = z + Len(label) + 3
        <5>1. Len(q) =< z + Len(label) + 3
          BY <1>7
        <5> QED BY <1>2, <1>4, <2>4, <3>4, <5>1
      <4> QED BY <1>7, <2>3, <4>1
    <3> QED BY <1>2, <1>4, <2>4, <3>1, <3>2, <3>3, <3>4
  <2>6. Len(q) =< Len(n)
    BY <1>7, <2>3
  <2> QED BY <1>2, <2>1, <2>3, <2>5, <2>6, PrefixPlaces
<1>8. CASE ~isVersion(q[Len(q)])
  <2>1. PICK c : c = Len(q) - z - 2
    OBVIOUS
  <2>2. c \in Nat /\ c < SizeLimit /\ z + 1 + c =< Len(q) /\ z + 1 =< Len(q) /\ z + 1 \in Nat
        /\ Len(q) - (z + 1) - 1 = c /\ Len(q) = z + 2 + c
    BY <1>2, <1>3, <1>4, <2>1, SizeIs
  <2>3. SizeT(c) = c
    BY <2>2, SizeTIs
  <2>4. m.version = 0 /\ type = q[Len(q)] /\ label = getSubName(q, z + 1, c)
    BY <1>1, <1>3, <1>5, <1>6, <1>8, <2>2, <2>3 DEF matchInterest, calculateSkip, EmptyComponent
  <2>5. Part(label, q, z + 1, c)
    BY <1>2, <2>2, <2>4, SubNamePlaces
  <2>6. label \in Name /\ Len(label) = c /\ \A i \in 1 .. c : label[i] = q[z + 1 + i]
    BY <2>2, <2>5 DEF Part
  <2>7. type \in Nat \ {0}
    BY <1>2, <1>4, <2>2, <2>4
  <2>8. ASSUME NEW ver \in Nat PROVE IsPrefix(q, BaseName(Zone, label, type, ver))
    <3>1. ASSUME NEW i \in z + 2 .. Len(q)
          PROVE  q[i] = IF i =< z + 1 + Len(label) THEN label[i - (z + 1)]
                        ELSE IF i = z + 2 + Len(label) THEN type ELSE ver
      <4>1. CASE i =< z + 1 + c
        <5>1. i - (z + 1) \in 1 .. c /\ i = z + 1 + (i - (z + 1))
          BY <1>4, <2>2, <4>1
        <5> QED BY <2>6, <4>1, <5>1
      <4>2. CASE i > z + 1 + c
        <5>1. i = Len(q) /\ i = z + 2 + c /\ ~(i =< z + 1 + c)
          BY <1>4, <2>2, <4>2
        <5> QED BY <2>4, <2>6, <5>1
      <4> QED BY <1>4, <2>2, <4>1, <4>2
    <3>2. Len(q) =< z + Len(label) + 3
      BY <1>4, <2>2, <2>6
    <3> QED BY <1>7, <2>6, <2>7, <3>1, <3>2
  <2> QED BY <1>1, <1>6, <2>6, <2>7, <2>8 DEF AskedFor
<1>9. CASE isVersion(q[Len(q)]) /\ Len(q) >= z + 3
  <2>1. PICK c : c = Len(q) - z - 3
    OBVIOUS
  <2>2. c \in Nat /\ c < SizeLimit /\ z + 1 + c =< Len(q) /\ z + 1 =< Len(q) /\ z + 1 \in Nat
        /\ Len(q) - (z + 1) - 2 = c /\ Len(q) = z + 3 + c
    BY <1>2, <1>4, <1>9, <2>1, SizeIs
  <2>3. SizeT(c) = c
    BY <2>2, SizeTIs
  <2>4. m.version = q[Len(q)] /\ type = q[Len(q) - 1] /\ label = getSubName(q, z + 1, c)
    BY <1>1, <1>3, <1>5, <1>6, <1>9, <2>2, <2>3 DEF matchInterest, calculateSkip
  <2>5. Part(label, q, z + 1, c)
    BY <1>2, <2>2, <2>4, SubNamePlaces
  <2>6. label \in Name /\ Len(label) = c /\ \A i \in 1 .. c : label[i] = q[z + 1 + i]
    BY <2>2, <2>5 DEF Part
  <2>7. type \in Nat \ {0} /\ q[Len(q)] # 0
    <3>1. Len(q) - 1 \in 1 .. Len(q) /\ Len(q) \in 1 .. Len(q)
      BY <1>2, <1>4, <1>9
    <3> QED BY <1>2, <2>4, <3>1
  <2>8. ASSUME NEW ver \in Nat, ver = q[Len(q)] PROVE IsPrefix(q, BaseName(Zone, label, type, ver))
    <3>1. ASSUME NEW i \in z + 2 .. Len(q)
          PROVE  q[i] = IF i =< z + 1 + Len(label) THEN label[i - (z + 1)]
                        ELSE IF i = z + 2 + Len(label) THEN type ELSE ver
      <4>1. CASE i =< z + 1 + c
        <5>1. i - (z + 1) \in 1 .. c /\ i = z + 1 + (i - (z + 1))
          BY <1>4, <2>2, <4>1
        <5> QED BY <2>6, <4>1, <5>1
      <4>2. CASE i = z + 2 + c
        <5>1. i = Len(q) - 1 /\ ~(i =< z + 1 + c)
          BY <1>4, <2>2, <4>2
        <5> QED BY <2>4, <2>6, <4>2, <5>1
      <4>3. CASE i > z + 2 + c
        <5>1. i = Len(q) /\ i # z + 2 + c /\ ~(i =< z + 1 + c)
          BY <1>4, <2>2, <4>3
        <5> QED BY <2>6, <2>8, <5>1
      <4> QED BY <1>4, <2>2, <4>1, <4>2, <4>3
    <3>2. Len(q) =< z + Len(label) + 3
      BY <1>4, <2>2, <2>6
    <3> QED BY <1>7, <2>6, <2>7, <3>1, <3>2
  <2> QED BY <1>1, <1>6, <2>4, <2>6, <2>7, <2>8 DEF AskedFor
(* The length of a label of minus one component wraps: the label is the     *)
(* version and the type the NDNS component.                                 *)
<1>10. CASE isVersion(q[Len(q)]) /\ Len(q) = z + 2
  <2>1. Len(q) - (z + 1) - 2 = -1 /\ z + 1 \in Nat /\ z + 1 =< Len(q) /\ Len(q) - 1 = z + 1
    BY <1>2, <1>4, <1>10
  <2>2. PICK c : c = SizeT(-1)
    OBVIOUS
  <2>3. c \in Nat /\ c >= 1
    BY <2>2, SizeIs DEF SizeT
  <2>4. m.version = q[Len(q)] /\ type = q[Len(q) - 1] /\ label = getSubName(q, z + 1, c)
    BY <1>1, <1>3, <1>5, <1>6, <1>10, <2>1, <2>2 DEF matchInterest, calculateSkip
  <2>5. Part(label, q, z + 1, c)
    BY <1>2, <2>1, <2>3, <2>4, SubNamePlaces
  <2>6. label \in Name /\ Len(label) = 1 /\ label[1] = q[z + 2]
    <3>1. (IF z + 1 + c =< Len(q) THEN c ELSE Len(q) - (z + 1)) = 1
      BY <1>2, <1>4, <1>10, <2>3
    <3>2. label \in Name /\ Len(label) = 1 /\ \A i \in 1 .. 1 : label[i] = q[z + 1 + i]
      BY <2>5, <3>1 DEF Part
    <3>3. z + 1 + 1 = z + 2
      BY <1>4
    <3> QED BY <3>2, <3>3
  <2>7. type = NDNS /\ type \in Nat \ {0} /\ q[Len(q)] # 0
    <3>1. Len(q) \in 1 .. Len(q)
      BY <1>2, <1>4, <1>10
    <3> QED BY <1>2, <1>3, <2>1, <2>4, <3>1, Components
  <2>8. ASSUME NEW ver \in Nat PROVE IsPrefix(q, BaseName(Zone, label, type, ver))
    <3>1. ASSUME NEW i \in z + 2 .. Len(q)
          PROVE  q[i] = IF i =< z + 1 + Len(label) THEN label[i - (z + 1)]
                        ELSE IF i = z + 2 + Len(label) THEN type ELSE ver
      <4>1. i = z + 2 /\ i =< z + 1 + 1 /\ i - (z + 1) = 1
        BY <1>4, <1>10
      <4> QED BY <2>6, <4>1
    <3>2. Len(q) =< z + Len(label) + 3
      BY <1>4, <1>10, <2>6
    <3> QED BY <1>7, <2>6, <2>7, <3>1, <3>2
  <2> QED BY <1>1, <1>6, <2>6, <2>7, <2>8 DEF AskedFor
<1> QED BY <1>2, <1>3, <1>4, <1>8, <1>9, <1>10

(* A NACK, or the answer to an update: the question and the time. *)
LEMMA PrefixOfAppend ==
  ASSUME NEW q \in Name, NEW c \in Nat
  PROVE  IsPrefix(q, Append(q, c))
<1>1. PICK n : n = Append(q, c)
  OBVIOUS
<1>2. n \in Name /\ Len(q) =< Len(n) /\ \A i \in 1 .. Len(q) : q[i] = n[i]
  BY <1>1 DEF Name
<1> QED BY <1>1, <1>2, PrefixPlaces

(* A query without a version. *)
LEMMA QueryIsPrefix ==
  ASSUME NEW label \in Name, NEW type \in Nat, NEW ver \in Nat
  PROVE  IsPrefix(Zone \o <<NDNS>> \o label \o <<type>>, BaseName(Zone, label, type, ver))
<1>1. PICK b : b = Zone \o <<NDNS>> \o label
  OBVIOUS
<1>2. b \in Name
  <2>1. <<NDNS>> \in Name
    BY Components DEF Name
  <2>2. Zone \o <<NDNS>> \in Name
    BY <2>1, ZoneIs, ConcatPlaces
  <2> QED BY <1>1, <2>2, ConcatPlaces
<1>3. PICK p, n : p = b \o <<type>> /\ n = b \o <<type, ver>>
  OBVIOUS
<1>4. /\ p \in Name /\ n \in Name /\ Len(p) = Len(b) + 1 /\ Len(n) = Len(b) + 2
      /\ \A i \in 1 .. Len(b) : p[i] = b[i] /\ n[i] = b[i]
      /\ p[Len(b) + 1] = type /\ n[Len(b) + 1] = type /\ Len(b) \in Nat
  BY <1>2, <1>3 DEF Name
<1>5. IsPrefix(p, n)
  <2>1. \A i \in 1 .. Len(p) : p[i] = n[i]
    BY <1>4
  <2>2. Len(p) =< Len(n)
    BY <1>4
  <2> QED BY <1>4, <2>1, <2>2, PrefixPlaces
<1> QED BY <1>1, <1>3, <1>5 DEF BaseName

(* A record found under a type bears the name of its key. *)
LEMMA FoundKeyed ==
  ASSUME Issued, Inv, NEW r \in rows, r.type # 0
  PROVE  /\ r.label \in Name /\ Len(r.label) < SizeLimit /\ r.type \in Nat /\ r.ver \in Nat
         /\ Framed(r.data) /\ Placed(r.data.name) /\ Told(r)
         /\ r.data.name = BaseName(Zone, r.label, r.type, r.ver)
BY DEF Inv, Rows, RowOk, Keyed, Keyless, EmptyComponent

LEMMA AskNames ==
  ASSUME Issued, Inv, NEW q \in Interests, NEW a \in Answers(q)
  PROVE  IsPrefix(q, a.name)
<1>1. PICK m : m = matchInterest(q, Zone)
  OBVIOUS
<1>2. AskedFor(q, m)
  BY <1>1, InterestAsks
<1>3. CASE \E r \in Find(m.rrLabel, m.rrType) : m.version \in {EmptyComponent, r.ver} /\ a = r.data
  <2>1. PICK r \in rows : /\ r.label = m.rrLabel /\ r.type = m.rrType
                          /\ m.version \in {0, r.ver} /\ a = r.data
    BY <1>3 DEF Find, EmptyComponent
  <2>2. a.name = BaseName(Zone, m.rrLabel, m.rrType, r.ver) /\ r.ver \in Nat
    BY <1>2, <2>1, FoundKeyed DEF AskedFor
  <2> QED BY <1>2, <2>1, <2>2 DEF AskedFor
<1>4. CASE \E d : a = Wrap(Append(q, Now), "NACK", d)
  <2>1. a.name = Append(q, Now)
    BY <1>4 DEF Wrap
  <2>2. q \in Name /\ Now \in Nat
    BY InterestIs, NowIs DEF Inv
  <2> QED BY <2>1, <2>2, PrefixOfAppend
<1>5. \/ \E r \in Find(m.rrLabel, m.rrType) : m.version \in {EmptyComponent, r.ver} /\ a = r.data
      \/ \E d : a = Wrap(Append(q, Now), "NACK", d)
  BY <1>1 DEF Answers
<1> QED BY <1>3, <1>4, <1>5

(* What an Interest asks, read by Query and by matchName. *)
LEMMA FromInterestIs ==
  ASSUME NEW q \in Interests
  PROVE  fromInterest(q, Zone) = [zone |-> Zone, queryType |-> NDNS,
           rrLabel |-> matchInterest(q, Zone).rrLabel, rrType |-> matchInterest(q, Zone).rrType]
BY InterestIs DEF fromInterest

LEMMA GetNames ==
  ASSUME Issued, Inv, NEW q \in Interests, NEW r \in rows,
         r.label = matchInterest(q, Zone).rrLabel, r.type = matchInterest(q, Zone).rrType
  PROVE  IsPrefix(toInterest(fromInterest(q, Zone)), r.data.name)
<1>1. r.type # 0
  BY InterestAsks DEF AskedFor
<1>2. PICK f : f = fromInterest(q, Zone)
  OBVIOUS
<1>3. f.zone = Zone /\ f.queryType = NDNS /\ f.rrLabel = r.label /\ f.rrType = r.type
  BY <1>2, FromInterestIs
<1>4. toInterest(f) = Zone \o <<NDNS>> \o r.label \o <<r.type>>
  BY <1>3 DEF toInterest
<1>5. /\ r.label \in Name /\ r.type \in Nat /\ r.ver \in Nat
      /\ r.data.name = BaseName(Zone, r.label, r.type, r.ver)
  BY <1>1, FoundKeyed
<1> QED BY <1>2, <1>4, <1>5, QueryIsPrefix

LEMMA ExportNames ==
  ASSUME Issued, Inv, NEW c \in ZoneCerts, NEW r \in rows,
         r.label = IdCert(c).label, r.type = CERT, get(c.name, 2) = CERT
  PROVE  IsPrefix(Front(c.name), r.data.name)
<1>1. PICK n : n = c.name
  OBVIOUS
<1>2. n \in Name /\ Len(n) \in Nat /\ Len(n) >= Len(Zone) + 3
  BY <1>1, GivenPacket, RecordsAssumption, ZoneIs DEF Placed, Name, calculateSkip
<1>3. PICK m : m = matchData(n, Zone)
  OBVIOUS
<1>4. m.ok
  <2>1. Len(n) - (Len(Zone) + 1) >= 2
    BY <1>2, ZoneIs
  <2> QED BY <1>3, <2>1 DEF matchData, calculateSkip
<1>5. MadeOf(n, m)
  BY <1>1, <1>3, <1>4, GivenParts
<1>6. m.rrLabel = r.label /\ m.rrType = CERT
  <2>1. Len(n) - (Len(Zone) + 1) - 2 = Len(n) - Len(Zone) - 3
    BY <1>2, ZoneIs
  <2>2. m.rrLabel = getSubName(n, Len(Zone) + 1, SizeT(Len(n) - Len(Zone) - 3))
          /\ m.rrType = get(n, 2)
    BY <1>3, <2>1 DEF matchData, calculateSkip
  <2> QED BY <1>1, <2>2 DEF IdCert, Rrset
<1>7. Front(n) = Zone \o <<NDNS>> \o r.label \o <<CERT>>
  <2>1. PICK b : b = Zone \o <<NDNS>> \o r.label
    OBVIOUS
  <2>2. r.label \in Name /\ m.version \in Nat
    BY <1>5, <1>6 DEF MadeOf
  <2>3. b \in Name
    <3>1. <<NDNS>> \in Name
      BY Components DEF Name
    <3>2. Zone \o <<NDNS>> \in Name
      BY <3>1, ZoneIs, ConcatPlaces
    <3> QED BY <2>1, <2>2, <3>2, ConcatPlaces
  <2>4. n = b \o <<CERT, m.version>>
    BY <1>5, <1>6, <2>1 DEF MadeOf, BaseName
  <2>5. CERT \in Nat
    BY Components
  <2>6. PICK p : p = b \o <<CERT>>
    OBVIOUS
  <2>7. p \in Name /\ Len(p) = Len(b) + 1 /\ Len(n) = Len(b) + 2 /\ Len(b) \in Nat
          /\ \A i \in 1 .. Len(b) + 1 : p[i] = n[i]
    BY <2>2, <2>3, <2>4, <2>5, <2>6 DEF Name
  <2>8. Front(n) \in Name /\ Len(Front(n)) = Len(n) - 1
          /\ \A i \in 1 .. Len(n) - 1 : Front(n)[i] = n[i]
    BY <1>2, ZoneIs DEF Front, Name
  <2>9. Front(n) = p
    <3>1. PICK f : f = Front(n)
      OBVIOUS
    <3>2. Len(f) = Len(p) /\ f \in Name /\ \A i \in 1 .. Len(f) : f[i] = p[i]
      BY <2>7, <2>8, <3>1
    <3> QED BY <2>7, <3>1, <3>2, SameName
  <2> QED BY <2>1, <2>6, <2>9
<1>8. /\ r.label \in Name /\ r.ver \in Nat
      /\ r.data.name = BaseName(Zone, r.label, CERT, r.ver)
  BY FoundKeyed, Components
<1> QED BY <1>1, <1>7, <1>8, QueryIsPrefix, Components

(* The name of an update. *)
LEMMA UpdateInterestIs == UpdateInterest \in Name
<1>1. <<NDNS>> \in Name /\ <<0>> \in Name /\ <<UPDATE>> \in Name
  BY Components DEF Name
<1>2. Zone \o <<NDNS>> \in Name
  BY <1>1, ZoneIs, ConcatPlaces
<1>3. Zone \o <<NDNS>> \o <<0>> \in Name
  BY <1>1, <1>2, ConcatPlaces
<1>4. Zone \o <<NDNS>> \o <<0>> \o <<UPDATE>> \in Name
  BY <1>1, <1>3, ConcatPlaces
<1> QED BY <1>4 DEF UpdateInterest, toInterest, Query, EmptyComponent

(***************************************************************************)
(* What is handed out bears the name that was asked for.                   *)
(***************************************************************************)
THEOREM AlwaysAnswersName == ASSUME Issued PROVE Spec => []AnswersName
<1>1. Init => AnswersName
  BY DEF Init, AnswersName, Silent
<1>2. Inv /\ AnswersName /\ [Next]_vars => AnswersName'
  <2> SUFFICES ASSUME Inv, AnswersName, [Next]_vars PROVE AnswersName'
    OBVIOUS
  <2>1. ASSUME out' = Silent PROVE AnswersName'
    BY <2>1 DEF AnswersName, Silent
  <2>2. ASSUME NEW rr, Update(rr) PROVE AnswersName'
    <3>1. out'.ask = UpdateInterest /\ out'.data.name = Append(UpdateInterest, Now)
      BY <2>2 DEF Update, Data
    <3>2. Now \in Nat
      BY NowIs DEF Inv
    <3>3. IsPrefix(UpdateInterest, Append(UpdateInterest, Now))
      BY <3>2, UpdateInterestIs, PrefixOfAppend
    <3> QED BY <3>1, <3>3 DEF AnswersName
  <2>3. ASSUME NEW q \in Interests, Ask(q) PROVE AnswersName'
    <3>1. PICK a \in Answers(q) : out'.ask = q /\ out'.data = a
      BY <2>3 DEF Ask
    <3>2. IsPrefix(q, a.name)
      BY AskNames
    <3> QED BY <3>1, <3>2 DEF AnswersName
  <2>4. ASSUME NEW q \in Interests, Get(fromInterest(q, Zone)) PROVE AnswersName'
    <3>1. PICK f : f = fromInterest(q, Zone)
      OBVIOUS
    <3>2. PICK r \in Find(f.rrLabel, f.rrType) : out'.ask = toInterest(f) /\ out'.data = r.data
      BY <2>4, <3>1 DEF Get
    <3>3. r \in rows /\ r.label = matchInterest(q, Zone).rrLabel
            /\ r.type = matchInterest(q, Zone).rrType
      BY <3>1, <3>2, FromInterestIs DEF Find
    <3>4. IsPrefix(toInterest(f), r.data.name)
      BY <3>1, <3>3, GetNames
    <3> QED BY <3>2, <3>4 DEF AnswersName
  <2>5. ASSUME NEW c \in ZoneCerts, Export(c) PROVE AnswersName'
    <3>1. PICK r \in Find(IdCert(c).label, CERT) : out'.ask = Front(c.name) /\ out'.data = r.data
      BY <2>5 DEF Export
    <3>2. r \in rows /\ r.label = IdCert(c).label /\ r.type = CERT /\ get(c.name, 2) = CERT
      BY <2>5, <3>1 DEF Find, Export
    <3>3. IsPrefix(Front(c.name), r.data.name)
      BY <3>2, ExportNames
    <3> QED BY <3>1, <3>3 DEF AnswersName
  <2>6. CASE List
    <3>1. out'.kind = "list"
      BY <2>6 DEF List
    <3> QED BY <3>1 DEF AnswersName
  <2>7. CASE UNCHANGED vars
    BY <2>7 DEF AnswersName, vars
  <2>8. ASSUME NEW x, AddRr(x) \/ AddAppCert(x) \/ AddFile(x) \/ RemoveRr(x) PROVE AnswersName'
    BY <2>1, <2>8, CommandSays
  <2> QED BY <2>2, <2>3, <2>4, <2>5, <2>6, <2>7, <2>8
          DEF Next, UpdateRr, UpdateFile
<1> QED BY <1>1, <1>2, AlwaysInv, PTL DEF Spec

-----------------------------------------------------------------------------
(* What the owner of a query makes of the answer. *)

LEMMA KeyedDecodes ==
  ASSUME Issued, Inv, NEW r \in rows, r.type # 0, NEW re, re = fromData(EmptyResponse, Zone, r.data)
  PROVE  /\ matchData(r.data.name, Zone).ok
         /\ re.zone = Zone /\ re.rrLabel = r.label /\ re.rrType = r.type
<1>1. /\ r.label \in Name /\ Len(r.label) < SizeLimit /\ r.type \in Nat /\ r.ver \in Nat
      /\ Framed(r.data) /\ Placed(r.data.name)
      /\ r.data.name = BaseName(Zone, r.label, r.type, r.ver)
  BY FoundKeyed
<1>2. matchData(r.data.name, Zone)
        = [ok |-> TRUE, version |-> r.ver, rrType |-> r.type, rrLabel |-> r.label]
  BY <1>1, MatchInvertsName
<1>3. re = Decoded(r.data)
  BY <1>1, <1>2, FromDataIs
<1> QED BY <1>2, <1>3 DEF Decoded

(* Labels after the same zone. *)
LEMMA SameLabel ==
  ASSUME NEW a \in Name, NEW b \in Name, Zone \o a = Zone \o b
  PROVE  a = b
<1>1. PICK x, y : x = Zone \o a /\ y = Zone \o b
  OBVIOUS
<1>2. Len(x) = Len(Zone) + Len(a) /\ \A i \in 1 .. Len(a) : x[Len(Zone) + i] = a[i]
  BY <1>1, ZoneIs, ConcatPlaces
<1>3. Len(y) = Len(Zone) + Len(b) /\ \A i \in 1 .. Len(b) : y[Len(Zone) + i] = b[i]
  BY <1>1, ZoneIs, ConcatPlaces
<1>4. x = y /\ Len(a) \in Nat /\ Len(b) \in Nat
  BY <1>1 DEF Name
<1>5. Len(a) = Len(b)
  BY <1>2, <1>3, <1>4, ZoneIs
<1>6. \A i \in 1 .. Len(a) : a[i] = b[i]
  BY <1>2, <1>3, <1>4, <1>5
<1> QED BY <1>5, <1>6, SameName

(* An answer is taken for what it is. *)
Taken(q, final) ==
  LET m == matchInterest(q, Zone)
      there == \E r \in Find(m.rrLabel, m.rrType) : matchData(r.data.name, Zone).ok
  IN  /\ final => there
      /\ there /\ m.version = EmptyComponent => final

LEMMA AskTaken ==
  ASSUME Issued, Unwrapped, Inv, NEW q \in Interests, NEW a \in Answers(q),
         a.ct = "NACK" => a.inner # <<>>
  PROVE  Taken(q, IsFinal(fromData(EmptyResponse, Zone, Received(a)), q))
<1>1. PICK m : m = matchInterest(q, Zone)
  OBVIOUS
<1>2. m.rrLabel \in Name /\ m.rrType \in Nat \ {0}
  BY <1>1, InterestAsks DEF AskedFor
<1>3. PICK re : re = fromData(EmptyResponse, Zone, Received(a))
  OBVIOUS
<1>4. ASSUME re.zone = Zone, re.rrLabel \in Name
      PROVE  IsFinal(re, q) <=> re.rrLabel = m.rrLabel /\ re.rrType = m.rrType
  <2>1. IsFinal(re, q) <=> Zone \o re.rrLabel = Zone \o m.rrLabel /\ re.rrType = m.rrType
    <3>1. PICK asked : asked = fromInterest(q, Zone)
      OBVIOUS
    <3>2. asked.rrLabel = m.rrLabel /\ asked.rrType = m.rrType
      BY <1>1, <3>1, FromInterestIs
    <3>3. IsFinal(re, q) <=> /\ re.zone \o re.rrLabel = Zone \o asked.rrLabel
                            /\ re.rrType = asked.rrType
      BY <3>1, Zenon DEF IsFinal
    <3> QED BY <1>4, <3>2, <3>3, Zenon
  <2>2. Zone \o re.rrLabel = Zone \o m.rrLabel <=> re.rrLabel = m.rrLabel
    BY <1>2, <1>4, SameLabel
  <2> QED BY <2>1, <2>2
<1>5. PICK hits : hits = {r \in Find(m.rrLabel, m.rrType) : m.version \in {EmptyComponent, r.ver}}
  OBVIOUS
<1>6. CASE hits # {}
  <2>1. PICK r \in hits : a = r.data
    BY <1>1, <1>5, <1>6 DEF Answers
  <2>2. r \in rows /\ r.label = m.rrLabel /\ r.type = m.rrType /\ r.type # 0
    BY <1>2, <1>5, <2>1 DEF Find
  <2>3. a.ct # "NACK"
    <3>1. Told(r)
      BY <2>2, FoundKeyed
    <3> QED BY <2>1, <3>1 DEF Told
  <2>4. re = fromData(EmptyResponse, Zone, r.data)
    BY <1>3, <2>1, <2>3 DEF Received
  <2>5. /\ matchData(r.data.name, Zone).ok
        /\ re.zone = Zone /\ re.rrLabel = r.label /\ re.rrType = r.type
    BY <2>2, <2>4, KeyedDecodes
  <2>6. IsFinal(re, q)
    BY <1>2, <1>4, <2>2, <2>5
  <2>7. \E x \in Find(m.rrLabel, m.rrType) : matchData(x.data.name, Zone).ok
    BY <2>2, <2>5 DEF Find
  <2> QED BY <1>1, <1>3, <2>6, <2>7 DEF Taken
<1>7. CASE hits = {}
  <2>1. PICK d \in FindLowerBound(Append(m.rrLabel, m.rrType)) :
          a = Wrap(Append(q, Now), "NACK", d.data)
    BY <1>1, <1>5, <1>7 DEF Answers
  <2>2. d \in rows /\ d.type = DOE /\ DOE # 0
    BY <2>1, Components DEF FindLowerBound
  <2>3. Received(a) = d.data
    BY <2>1 DEF Received, Wrap
  <2>4. /\ matchData(d.data.name, Zone).ok
        /\ re.zone = Zone /\ re.rrLabel = d.label /\ re.rrType = d.type
    BY <1>3, <2>2, <2>3, KeyedDecodes
  <2>5. d.label \in Name
    BY <2>2, FoundKeyed
  <2>6. IsFinal(re, q) => \E x \in Find(m.rrLabel, m.rrType) : matchData(x.data.name, Zone).ok
    <3>1. SUFFICES ASSUME IsFinal(re, q)
                   PROVE  d \in Find(m.rrLabel, m.rrType)
      BY <2>4
    <3>2. d.label = m.rrLabel /\ d.type = m.rrType
      BY <1>4, <2>4, <2>5, <3>1
    <3> QED BY <2>2, <3>2 DEF Find
  <2>7. m.version = EmptyComponent => Find(m.rrLabel, m.rrType) = {}
    BY <1>5, <1>7
  <2> QED BY <1>1, <1>3, <2>6, <2>7 DEF Taken
<1> QED BY <1>6, <1>7

(***************************************************************************)
(* The owner of a query tells a denial from an answer by the name it       *)
(* decodes to.                                                             *)
(***************************************************************************)
THEOREM AlwaysDenialNotMistaken ==
  ASSUME Issued, Unwrapped PROVE Spec => []DenialNotMistaken
<1>1. Init => DenialNotMistaken
  BY DEF Init, DenialNotMistaken, Silent
<1>2. Inv /\ DenialNotMistaken /\ [Next]_vars => DenialNotMistaken'
  <2> SUFFICES ASSUME Inv, DenialNotMistaken, [Next]_vars, out'.kind = "query"
               PROVE  DenialNotMistaken'
    BY DEF DenialNotMistaken
  <2>1. CASE UNCHANGED vars
    BY <2>1 DEF DenialNotMistaken, Find, vars
  <2>2. CASE Next
    <3>1. PICK q \in Interests : Ask(q)
      BY <2>2, StepSays
    <3>2. PICK a \in Answers(q) :
            /\ a.ct = "NACK" => a.inner # <<>>
            /\ out' = [kind |-> "query", ask |-> q, data |-> a,
                       final |-> IsFinal(fromData(EmptyResponse, Zone, Received(a)), q)]
      BY <3>1 DEF Ask
    <3>3. PICK final : final = IsFinal(fromData(EmptyResponse, Zone, Received(a)), q)
      OBVIOUS
    <3>4. Taken(q, final)
      BY <3>2, <3>3, AskTaken
    <3>5. out'.ask = q /\ out'.final = final
      BY <3>2, <3>3
    <3>6. rows' = rows
      BY <3>1 DEF Ask
    <3> QED BY <3>4, <3>5, <3>6 DEF DenialNotMistaken, Taken, Find
  <2> QED BY <2>1, <2>2
<1> QED BY <1>1, <1>2, AlwaysInv, PTL DEF Spec

=============================================================================
