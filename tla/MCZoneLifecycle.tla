-------------------------- MODULE MCZoneLifecycle --------------------------
(***************************************************************************)
(* An instance of ZoneDaemon for TLC: the root zone, which needs a D-key   *)
(* certificate made beforehand, a zone below it, and one further down      *)
(* whose creation always fails.                                            *)
(***************************************************************************)
EXTENDS ZoneDaemon, TLC

Root == <<>>
Net == <<1>>
NetA == <<1, 2>>
ZoneNames == {Root, Net, NetA}

RootDkey == [use |-> "dkey", zone |-> Root, no |-> 1]
LostDkey == [use |-> "dkey", zone |-> NetA, no |-> 7]
NetKey == [use |-> "zone", zone |-> Net, no |-> 1]
NetKey2 == [use |-> "zone", zone |-> Net, no |-> 2]
LostKey == [use |-> "zone", zone |-> Net, no |-> 7]
NetPlain == [use |-> "plain", zone |-> Net, no |-> 1]
Given == {RootDkey, NetKey, NetKey2, NetPlain}

Req(zone, parent, ksk, dsk, dkey) ==
  [zone |-> zone, parent |-> parent, ksk |-> ksk, dsk |-> dsk, dkey |-> dkey]

(* Everything generated; certificates given, the same one twice, a KSK or a *)
(* D-key that does not exist; the root zone; and one refused for its parent *)
Requests ==
  {Req(Net, Root, NoCert, NoCert, NoCert), Req(Net, Root, NetKey, NetKey2, NoCert),
   Req(Net, Root, NetKey, NetKey, NoCert), Req(Net, Root, LostKey, NetKey, NoCert),
   Req(NetA, Net, NoCert, NoCert, LostDkey), Req(NetA, NetA, NoCert, NoCert, NoCert),
   Req(Root, Root, NoCert, NoCert, RootDkey)}

(* One zone, no zone, a certificate the daemon does not find, and two zones *)
(* with one of the certificates given.                                      *)
Configurations == {<<[zone |-> Net, cert |-> NoCert]>>, <<>>, <<[zone |-> Net, cert |-> NetKey]>>,
                   <<[zone |-> Root, cert |-> NoCert], [zone |-> Net, cert |-> NetPlain]>>}

ToolSymmetry == Permutations(Tools)
=============================================================================
