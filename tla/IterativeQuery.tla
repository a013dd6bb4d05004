--------------------------- MODULE IterativeQuery ---------------------------
(***************************************************************************)
(* IterativeQueryController: a client walks down a name, asking each zone  *)
(* on the way for NS records of longer and longer prefixes, until it knows *)
(* the zone to ask for the record itself.                                  *)
(*                                                                         *)
(* Only lengths matter: the destination label has dst.len components, a    *)
(* prefix is its length, and a zone is the length of its name.  The world  *)
(* the client asks about is fixed in dst: at which prefixes zones begin    *)
(* (cuts), where the zone above holds an NDNS_AUTH record (auths), where   *)
(* it holds an NS record of any other content type (odd), and whether the  *)
(* network and the zones are faulty: Interests time out, signatures are    *)
(* refused, a NACK carries a range that does not cover the name.           *)
(***************************************************************************)
EXTENDS Integers, Sequences, FiniteSets, FiniteSetsExt, SequencesExt

CONSTANT MaxLen     \* bound: components of the destination label

ASSUME BoundAssumption == MaxLen \in Nat

VARIABLES
  dst,          \* what is asked for, and the world it is asked of
  m_step,       \* QUERY_NS, QUERY_RR, ANSWER_STUB or ABORT
  m_nFinished,  \* components resolved so far: the zone to ask
  m_nTry,       \* components asked for beyond them
  m_nsCache,    \* LINK records known: [zone, upto]
  phase,        \* "new", "sent", "validating" or "over"
  data,         \* the Data being validated
  calls,        \* callbacks made so far, in order
  threw         \* onDataValidated ended in an exception

vars == <<dst, m_step, m_nFinished, m_nTry, m_nsCache, phase, data, calls, threw>>

Steps == {"QUERY_NS", "QUERY_RR", "ANSWER_STUB", "ABORT"}
Contents == {"LINK", "AUTH", "RESP", "DOE"}
NoData == [ct |-> "RESP", absent |-> FALSE]

(* Every prefix above a zone cut that is not a cut itself has an AUTH       *)
(* record: addMultiLevelLabelRrset puts it there.                           *)
WellFormed(d) ==
  /\ d.start =< d.len
  /\ \A c \in d.cuts, p \in 1 .. d.len : p < c /\ p \notin d.cuts => p \in d.auths
  /\ d.auths \cap d.cuts = {} /\ d.odd \cap (d.auths \cup d.cuts) = {}

Destinations ==
  {d \in [len : 0 .. MaxLen, start : 0 .. MaxLen, type : {"NS", "TXT"},
          cuts : SUBSET (1 .. MaxLen), auths : SUBSET (1 .. MaxLen),
          odd : SUBSET (1 .. MaxLen), faulty : BOOLEAN] :
     d.cuts \cup d.auths \cup d.odd \subseteq 1 .. d.len /\ WellFormed(d)}

(* The zone a delegation of prefix p is asked of. *)
Above(d, p) == Max({0, d.start} \cup {c \in d.cuts : c < p})

Init ==
  /\ dst \in Destinations
  /\ m_step = "QUERY_NS" /\ m_nFinished = dst.start /\ m_nTry = 1
  /\ m_nsCache \in SUBSET {[zone |-> Above(dst, c), upto |-> c] :
                           c \in {x \in dst.cuts : x > dst.start}}
  /\ phase = "new" /\ data = NoData /\ calls = <<>> /\ threw = FALSE

hasEnded(step) == step \notin {"QUERY_NS", "QUERY_RR"}

(* makeLatestInterest: the zone asked, the prefix asked for and the type. *)
Asked(step, finished, try) ==
  [zone |-> finished,
   upto |-> IF step = "QUERY_NS" THEN finished + try ELSE dst.len,
   type |-> IF step = "QUERY_NS" THEN "NS" ELSE dst.type]

(* express: a cached LINK is handed to onData at once. *)
express(q, cache) ==
  IF q.type = "NS" /\ [zone |-> q.zone, upto |-> q.upto] \in cache
  THEN phase' = "validating" /\ data' = [ct |-> "LINK", absent |-> FALSE]
  ELSE phase' = "sent" /\ data' = NoData

abort == phase' = "over" /\ data' = NoData /\ calls' = Append(calls, "fail")

Start ==
  /\ phase = "new"
  /\ m_step' = IF dst.len = m_nFinished THEN "QUERY_RR" ELSE m_step
  /\ express(Asked(m_step', m_nFinished, m_nTry), m_nsCache)
  /\ UNCHANGED <<dst, m_nFinished, m_nTry, m_nsCache, calls, threw>>

(* External: what the zones answer. *)
NsContent(q) ==
  IF q.upto = q.zone THEN "DOE"
  ELSE CASE q.upto \in dst.cuts -> "LINK"
         [] q.upto \in dst.auths -> "AUTH"
         [] q.upto \in dst.odd -> "RESP"
         [] OTHER -> "DOE"

Answers(q) ==
  LET cts == IF q.type = "NS" THEN {NsContent(q)} ELSE {"RESP", "DOE"}
  IN  {[ct |-> ct, absent |-> a] : ct \in cts, a \in BOOLEAN}

(* onData: a NACK is opened and its DoE taken out; validation begins. *)
onData ==
  /\ phase = "sent"
  /\ \E a \in Answers(Asked(m_step, m_nFinished, m_nTry)) :
       /\ a.absent = (a.ct = "DOE") \/ (dst.faulty /\ a.ct = "DOE")
       /\ data' = a
  /\ phase' = "validating"
  /\ UNCHANGED <<dst, m_step, m_nFinished, m_nTry, m_nsCache, calls, threw>>

(* Mutant: the failure is reported and the query goes on. *)
onTimeoutGoesOn ==
  /\ dst.faulty /\ phase = "sent" /\ Len(calls) < 2
  /\ calls' = Append(calls, "fail")
  /\ UNCHANGED <<dst, m_step, m_nFinished, m_nTry, m_nsCache, phase, data, threw>>

onTimeout ==
  /\ dst.faulty /\ phase = "sent"
  /\ abort
  /\ UNCHANGED <<dst, m_step, m_nFinished, m_nTry, m_nsCache, threw>>

onValidationFailed ==
  /\ dst.faulty /\ phase = "validating"
  /\ abort
  /\ UNCHANGED <<dst, m_step, m_nFinished, m_nTry, m_nsCache, threw>>

(* onDataValidated, the switch: where the controller goes from QUERY_NS. *)
AtDelegatedName == m_nFinished + m_nTry = dst.len /\ dst.type = "NS"

(* Mutants: the number of components to try keeps its value, or restarts    *)
(* from zero, below a new zone.                                             *)
AfterLinkNoReset ==
  IF AtDelegatedName THEN <<"ANSWER_STUB", m_nFinished, m_nTry>>
  ELSE <<m_step, m_nFinished + m_nTry, m_nTry>>

AfterLinkZero ==
  IF AtDelegatedName THEN <<"ANSWER_STUB", m_nFinished, m_nTry>>
  ELSE <<m_step, m_nFinished + m_nTry, 0>>

AfterLink ==
  IF AtDelegatedName THEN <<"ANSWER_STUB", m_nFinished, m_nTry>>
  ELSE <<m_step, m_nFinished + m_nTry, 1>>

(* Mutant: an AUTH record leaves the controller where it was. *)
AfterAuthStuck == <<m_step, m_nFinished, m_nTry>>

AfterAuth == <<m_step, m_nFinished, m_nTry + 1>>

AfterNs ==
  CASE data.ct = "DOE" -> <<"QUERY_RR", m_nFinished, m_nTry>>
    [] data.ct = "LINK" -> AfterLink
    [] data.ct = "AUTH" -> AfterAuth
    [] OTHER -> <<m_step, m_nFinished, m_nTry>>

(* Mutant: the end of the label is not looked at. *)
PastEndIgnored(s) == s

(* ... and past the end of the label it stops asking for NS records. *)
PastEnd(s) ==
  IF s[2] + s[3] > dst.len
  THEN <<IF dst.type = "NS" THEN "ANSWER_STUB" ELSE "QUERY_RR", s[2], s[3]>>
  ELSE s

(* Mutant: a record that does not exist aborts the query. *)
AfterSwitchAborts ==
  CASE m_step = "QUERY_NS" -> PastEnd(AfterNs)
    [] OTHER -> <<IF data.ct = "DOE" THEN "ABORT" ELSE "ANSWER_STUB", m_nFinished, m_nTry>>

AfterSwitch ==
  CASE m_step = "QUERY_NS" -> PastEnd(AfterNs)
    [] m_step = "QUERY_RR" -> <<"ANSWER_STUB", m_nFinished, m_nTry>>
    [] OTHER -> <<"ABORT", m_nFinished, m_nTry>>

(* Mutant: every Data is cached, not only a LINK. *)
CacheEverything ==
  LET q == Asked(m_step, m_nFinished, m_nTry)
  IN  m_nsCache \cup {[zone |-> q.zone, upto |-> q.upto]}

CacheInsert ==
  LET q == Asked(m_step, m_nFinished, m_nTry)
  IN  IF data.ct = "LINK" THEN m_nsCache \cup {[zone |-> q.zone, upto |-> q.upto]}
      ELSE m_nsCache

(* A DoE that does not deny the prefix is answered with an exception. *)
NotAbsent == m_step = "QUERY_NS" /\ data.ct = "DOE" /\ ~data.absent

onDataValidated ==
  /\ phase = "validating" /\ ~NotAbsent
  /\ m_nsCache' = CacheInsert
  /\ m_step' = AfterSwitch[1] /\ m_nFinished' = AfterSwitch[2] /\ m_nTry' = AfterSwitch[3]
  /\ IF ~hasEnded(m_step')
     THEN express(Asked(m_step', m_nFinished', m_nTry'), m_nsCache') /\ UNCHANGED calls
     ELSE IF m_step' = "ANSWER_STUB"
     THEN phase' = "over" /\ UNCHANGED data /\ calls' = Append(calls, "succeed")
     ELSE abort
  /\ UNCHANGED <<dst, threw>>

onDataValidatedThrows ==
  /\ phase = "validating" /\ NotAbsent
  /\ threw' = TRUE /\ phase' = "over"
  /\ UNCHANGED <<dst, m_step, m_nFinished, m_nTry, m_nsCache, data, calls>>

Next ==
  \/ Start \/ onData \/ onTimeout \/ onValidationFailed
  \/ onDataValidated \/ onDataValidatedThrows

Spec == Init /\ [][Next]_vars

(* The face answers every Interest or times it out, and the validator calls *)
(* back: each is an obligation of the library the controller hands it to.   *)
FairSpec ==
  /\ Spec
  /\ WF_vars(Start)
  /\ WF_vars(onData \/ onTimeout)
  /\ WF_vars(onDataValidated \/ onDataValidatedThrows \/ onValidationFailed)

-----------------------------------------------------------------------------
(* Correctness properties. *)

(* Every variable keeps the shape the code gives it. *)
TypeOK ==
  /\ dst \in Destinations
  /\ m_step \in Steps
  /\ m_nFinished \in 0 .. dst.len
  /\ m_nTry \in 1 .. dst.len + 1
  /\ m_nsCache \subseteq [zone : 0 .. MaxLen, upto : 0 .. MaxLen]
  /\ phase \in {"new", "sent", "validating", "over"}
  /\ data \in [ct : Contents, absent : BOOLEAN]
  /\ calls \in Seq({"succeed", "fail"})
  /\ threw \in BOOLEAN

(* The zone the record is to be asked of: the deepest one that contains it. *)
(* The NS record of a zone is kept by the zone above.                       *)
RefZone ==
  Max({dst.start} \cup
      {c \in dst.cuts : c > dst.start /\ (dst.type = "NS" => c < dst.len)})

(* When the controller reports success, the zone it attributes the answer   *)
(* to (parseFinalResponse) is the zone that is responsible for the record,  *)
(* wherever the zone cuts and AUTH records are and whatever was cached.     *)
ZoneCorrect == calls = <<"succeed">> => m_nFinished = RefZone

(* An NS query never asks beyond the destination label. *)
InsideLabel ==
  phase \in {"sent", "validating"} /\ m_step = "QUERY_NS" =>
    m_nFinished + m_nTry =< dst.len

(* The controller calls back once, and only when it has nothing under way;  *)
(* it ends without a callback only by an exception.                         *)
OneCallback ==
  /\ Len(calls) = (IF phase = "over" /\ ~threw THEN 1 ELSE 0)
  /\ threw => phase = "over"

(* Whatever a query leaves in the shared cache is a true delegation, filed  *)
(* under the zone that made it.                                             *)
CacheTrue == \A e \in m_nsCache : e.upto \in dst.cuts /\ e.zone = Above(dst, e.upto)

(* With every Interest answered and every signature accepted, the query     *)
(* succeeds, unless an NS entry of an unexpected content type lies on the   *)
(* way: the controller then asks for it again without end.                  *)
Succeeds == ~dst.faulty /\ dst.odd = {} => <>(calls = <<"succeed">>)

(* The controller implements the query service its owners rely on: whatever *)
(* it asks and caches on the way is a stutter, and the one step that ends   *)
(* it reports the zone responsible for the record, or a failure that a      *)
(* fault explains.                                                          *)
Outcome ==
  CASE phase = "new" -> "new"
    [] phase \in {"sent", "validating"} -> "running"
    [] threw -> "threw"
    [] OTHER -> IF Last(calls) = "succeed" THEN "succeeded" ELSE "failed"

QS == INSTANCE QueryService
        WITH faulty <- dst.faulty, right <- RefZone, outcome <- Outcome,
             answer <- IF Outcome = "succeeded" THEN m_nFinished ELSE RefZone

Implements == QS!Spec

(* ... and every query started comes to an end, with the same exception. *)
Terminates == dst.odd = {} => QS!EndsOnce
=============================================================================
