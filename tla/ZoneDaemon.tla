----------------------------- MODULE ZoneDaemon -----------------------------
(***************************************************************************)
(* ndns-daemon beside the tools of ZoneLifecycle.  Its configuration names *)
(* zones; for each one the daemon picks the certificate it will sign with  *)
(* and a NameServer looks the zone up, once, and keeps the zone's id and   *)
(* that certificate until the daemon ends.                                 *)
(***************************************************************************)
EXTENDS ZoneLifecycle

CONSTANT Configs     \* zones sections: sequences of [zone, cert]

ASSUME DaemonAssumption ==
  Configs \subseteq Seq([zone : Names, cert : Certs \cup {NoCert}])

VARIABLE servers     \* the NameServers of the running daemon: [at, cert]

daemonVars == <<vars, servers>>

Down == <<>>

DaemonInit == Init /\ servers = Down

(* The identity a configured certificate is looked for in has the zone's    *)
(* name, the zone's keys are in one with the component NDNS after it.       *)
IdentityOf(n) == {c \in keys : c.use = "plain" /\ c.zone = n}

(* Mutant: any key of the identity. *)
SignerAny(z) ==
  IF z.cert = NoCert THEN KeysOf("zone", z.zone) ELSE IdentityOf(z.zone) \cap {z.cert}

(* The default certificate of the identity, or the one configured. *)
Signer(z) ==
  IF z.cert = NoCert THEN {dflt[z.zone]} \ {NoCert}
  ELSE IdentityOf(z.zone) \cap {z.cert}

(* main with processZonesSection, which goes through the zones and makes a  *)
(* NameServer of each: with no zone configured, no certificate or no such   *)
(* zone in the table the daemon exits.  It runs between two statements of   *)
(* the tools; the service manager starts it again after a failure.          *)
DaemonStart(conf) ==
  /\ servers = Down
  /\ servers' =
       IF \A i \in DOMAIN conf : Signer(conf[i]) # {} /\ FindZone(conf[i].zone) # {}
       THEN [i \in DOMAIN conf |-> [at |-> CHOOSE z \in FindZone(conf[i].zone) : TRUE,
                                   cert |-> CHOOSE c \in Signer(conf[i]) : TRUE]]
       ELSE Down
  /\ UNCHANGED vars

Served == Range(servers)

(* A query for a name that has no DoE below it ends the daemon: its zone is *)
(* gone, or half made.                                                      *)
DaemonExit ==
  /\ \E s \in Served : ~\E r \in rows : r.zid = s.at.id /\ r.rec = DoeRec
  /\ servers' = Down
  /\ UNCHANGED vars

DaemonNext ==
  \/ Next /\ UNCHANGED servers
  \/ \E conf \in Configs : DaemonStart(conf)
  \/ DaemonExit

DaemonSpec == DaemonInit /\ [][DaemonNext]_daemonVars

-----------------------------------------------------------------------------
(* What the daemon keeps from its start stays right as long as the zone it  *)
(* was started for is there: the id it read is no other zone's, so that all *)
(* it answers with is the zone's own, and the certificate it signs with is  *)
(* one the zone publishes, whatever is created and deleted around it or     *)
(* fails to be (name-server.cpp:44, ndns-daemon.cpp:102).  A configured     *)
(* certificate comes from the identity with the zone's bare name, which no  *)
(* zone publishes.                                                          *)
ServesOwn ==
  \A s \in Served : s.at \in zones =>
    /\ \A r \in rows : r.zid = s.at.id => r.inc = s.at.inc
    /\ s.at.inc \in complete /\ s.at.name \notin contested /\ s.cert.use = "zone" =>
         \E r \in rows : r.zid = s.at.id /\ r.rec = s.cert
=============================================================================
