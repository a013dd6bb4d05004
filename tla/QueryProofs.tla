---------------------------- MODULE QueryProofs ----------------------------
(***************************************************************************)
(* Proofs about IterativeQuery, for labels of every length, every layout   *)
(* of zones and AUTH records and every content of the shared cache; and    *)
(* that the controller implements QueryService.                            *)
(***************************************************************************)
EXTENDS IterativeQuery, Maximum

USE BoundAssumption

(* What a destination is. *)
LEMMA DestinationFacts ==
  ASSUME NEW d \in Destinations
  PROVE  /\ d.len \in 0 .. MaxLen /\ d.start \in 0 .. d.len /\ d.type \in {"NS", "TXT"}
         /\ d.cuts \subseteq 1 .. d.len /\ d.auths \subseteq 1 .. d.len /\ d.odd \subseteq 1 .. d.len
         /\ d.faulty \in BOOLEAN
         /\ \A c \in d.cuts, p \in 1 .. d.len : p < c /\ p \notin d.cuts => p \in d.auths
         /\ \A p \in d.auths : p \notin d.cuts
         /\ \A p \in d.odd : p \notin d.cuts /\ p \notin d.auths
BY DEF Destinations, WellFormed

(* The zone above a prefix is a shorter one, if the walk begins above it. *)
LEMMA AboveShorter ==
  ASSUME NEW d \in Destinations, NEW p \in 1 .. d.len
  PROVE  Above(d, p) \in 0 .. d.len /\ (d.start < p => Above(d, p) < p)
<1> DEFINE S == {0, d.start} \cup {c \in d.cuts : c < p}
<1>1. S \in SUBSET (0 .. d.len) /\ S # {} /\ d.len \in Nat
  BY DestinationFacts
<1>2. Max(S) \in S
  BY <1>1, MaxExists
<1>3. Above(d, p) = Max(S)
  BY DEF Above
<1> QED BY <1>1, <1>2, <1>3, DestinationFacts

(* A zone is the one above a prefix when no cut lies between. *)
LEMMA AboveIs ==
  ASSUME NEW d \in Destinations, NEW f \in 0 .. d.len, NEW p \in 1 .. d.len,
         d.start =< f, f # d.start => f \in d.cuts, f < p,
         \A c \in d.cuts : ~(f < c /\ c < p)
  PROVE  Above(d, p) = f
<1> DEFINE S == {0, d.start} \cup {c \in d.cuts : c < p}
<1>1. S \in SUBSET Int /\ f \in S /\ \A y \in S : f >= y
  BY DestinationFacts
<1> QED BY <1>1, MaxIs DEF Above

-----------------------------------------------------------------------------
(* Where the walk down the label is: at the start or at a zone cut below    *)
(* it, with every prefix up to the one asked for known to be no cut; once   *)
(* the record itself is asked for, or the query has succeeded, there is no  *)
(* cut left that the record could be below.                                 *)
Skipped == \A c \in dst.cuts : ~(m_nFinished < c /\ c < m_nFinished + m_nTry)
Arrived == \A c \in dst.cuts : m_nFinished < c => dst.type = "NS" /\ c = dst.len
Active == phase \in {"sent", "validating"}

AtZone ==
  /\ dst.start =< m_nFinished
  /\ m_nFinished # dst.start =>
       m_nFinished \in dst.cuts /\ (dst.type = "NS" => m_nFinished < dst.len)

Walk ==
  /\ AtZone
  /\ phase = "new" => m_step = "QUERY_NS" /\ m_nFinished = dst.start /\ m_nTry = 1
  /\ Active => m_step \in {"QUERY_NS", "QUERY_RR"}
  /\ Active /\ m_step = "QUERY_NS" => m_nFinished + m_nTry =< dst.len /\ Skipped
  /\ m_step \in {"QUERY_RR", "ANSWER_STUB"} => Arrived

(* The Data under validation answers the question asked last. *)
Question == Asked(m_step, m_nFinished, m_nTry)
TrueAnswer(q, d) ==
  /\ q.type = "NS" => d.ct = NsContent(q)
  /\ q.type # "NS" => d.ct \in {"RESP", "DOE"}
  /\ d.ct = "DOE" /\ ~d.absent => dst.faulty
DataTrue == phase = "validating" => TrueAnswer(Question, data)

(* CacheTrue, and every delegation is below the start. *)
CacheInv ==
  \A e \in m_nsCache : e.upto \in dst.cuts /\ dst.start < e.upto /\ e.zone = Above(dst, e.upto)

(* One callback, at the end. *)
CallsInv ==
  /\ phase # "over" => calls = <<>> /\ ~threw
  /\ phase = "over" =>
       \/ threw /\ calls = <<>>
       \/ ~threw /\ calls = <<"fail">>
       \/ ~threw /\ calls = <<"succeed">> /\ m_step = "ANSWER_STUB"

QueryInv == TypeOK /\ Walk /\ DataTrue /\ CacheInv /\ CallsInv

(* A controller that has arrived is at the zone responsible. *)
LEMMA ArrivedIsRight ==
  ASSUME dst \in Destinations, m_nFinished \in 0 .. dst.len, AtZone, Arrived
  PROVE  m_nFinished = RefZone
<1> DEFINE S == {dst.start} \cup
                {c \in dst.cuts : c > dst.start /\ (dst.type = "NS" => c < dst.len)}
<1>1. S \in SUBSET Int
  BY DestinationFacts
<1>2. m_nFinished \in S
  BY DestinationFacts DEF AtZone
<1>3. \A y \in S : m_nFinished >= y
  BY DestinationFacts DEF AtZone, Arrived
<1> QED BY <1>1, <1>2, <1>3, MaxIs DEF RefZone

(* What a query that begins satisfies. *)
LEMMA QueryInit == Init => QueryInv
<1>1. SUFFICES ASSUME Init PROVE QueryInv
  OBVIOUS
<1>2. dst \in Destinations
  BY <1>1 DEF Init
<1>3. CacheInv /\ m_nsCache \subseteq [zone : 0 .. MaxLen, upto : 0 .. MaxLen]
  <2>1. SUFFICES ASSUME NEW e \in m_nsCache
                 PROVE  /\ e.upto \in dst.cuts /\ dst.start < e.upto /\ e.zone = Above(dst, e.upto)
                        /\ e \in [zone : 0 .. MaxLen, upto : 0 .. MaxLen]
    BY DEF CacheInv
  <2>2. PICK c \in dst.cuts : c > dst.start /\ e = [zone |-> Above(dst, c), upto |-> c]
    BY <1>1 DEF Init
  <2>3. c \in 1 .. dst.len /\ dst.len \in 0 .. MaxLen /\ Above(dst, c) \in 0 .. dst.len
    BY <1>2, DestinationFacts, AboveShorter
  <2> QED BY <1>2, <2>2, <2>3, DestinationFacts
<1>4. m_nFinished \in 0 .. dst.len /\ m_nTry \in 1 .. dst.len + 1
  BY <1>1, <1>2, DestinationFacts DEF Init
<1>5. calls \in Seq({"succeed", "fail"}) /\ data \in [ct : Contents, absent : BOOLEAN]
  BY <1>1 DEF Init, NoData, Contents
<1>6. TypeOK
  BY <1>1, <1>2, <1>3, <1>4, <1>5 DEF Init, TypeOK, Steps
<1>7. Walk
  BY <1>1, <1>2, <1>4, DestinationFacts DEF Init, Walk, AtZone, Active
<1>8. DataTrue /\ CallsInv
  BY <1>1 DEF Init, DataTrue, CallsInv
<1> QED BY <1>3, <1>6, <1>7, <1>8 DEF QueryInv

(* What a zone answers about a delegation, and about a prefix of its own. *)
LEMMA NsContentIs ==
  ASSUME dst \in Destinations, NEW q, q.upto # q.zone
  PROVE  /\ q.upto \in dst.cuts <=> NsContent(q) = "LINK"
         /\ NsContent(q) = "AUTH" => q.upto \in dst.auths
         /\ NsContent(q) = "DOE" => q.upto \notin dst.cuts \cup dst.auths
         /\ NsContent(q) \in Contents
<1>1. /\ \A p \in dst.auths : p \notin dst.cuts
      /\ \A p \in dst.odd : p \notin dst.cuts /\ p \notin dst.auths
  BY DestinationFacts
<1>2. CASE q.upto \in dst.cuts
  <2>1. NsContent(q) = "LINK"
    BY <1>1, <1>2 DEF NsContent
  <2> QED BY <1>2, <2>1 DEF Contents
<1>3. CASE q.upto \notin dst.cuts /\ q.upto \in dst.auths
  <2>1. NsContent(q) = "AUTH"
    BY <1>1, <1>3 DEF NsContent
  <2> QED BY <1>3, <2>1 DEF Contents
<1>4. CASE q.upto \notin dst.cuts /\ q.upto \notin dst.auths
  <2>1. NsContent(q) \in {"RESP", "DOE"}
    BY <1>1, <1>4 DEF NsContent
  <2> QED BY <1>4, <2>1 DEF Contents
<1> QED BY <1>2, <1>3, <1>4

(* Whatever is asked, express leaves a true answer or none. *)
LEMMA ExpressTrue ==
  ASSUME dst \in Destinations, CacheInv',
         m_step' \in {"QUERY_NS", "QUERY_RR"}, m_nFinished' \in 0 .. dst.len, m_nTry' \in Nat,
         express(Asked(m_step', m_nFinished', m_nTry'), m_nsCache'), dst' = dst
  PROVE  /\ phase' \in {"sent", "validating"} /\ data' \in [ct : Contents, absent : BOOLEAN]
         /\ DataTrue'
<1>q. PICK q : q = Asked(m_step', m_nFinished', m_nTry')
  OBVIOUS
<1>e. express(q, m_nsCache')
  BY <1>q
<1>1. CASE q.type = "NS" /\ [zone |-> q.zone, upto |-> q.upto] \in m_nsCache'
  <2>1. phase' = "validating" /\ data' = [ct |-> "LINK", absent |-> FALSE]
    BY <1>e, <1>1 DEF express
  <2>2. q.upto \in dst.cuts /\ dst.start < q.upto /\ q.zone = Above(dst, q.upto)
    BY <1>1 DEF CacheInv
  <2>3. q.zone < q.upto /\ q.zone \in Int /\ q.upto \in Int
    BY <2>2, DestinationFacts, AboveShorter
  <2>4. NsContent(q) = "LINK"
    BY <2>2, <2>3, NsContentIs
  <2>5. Question' = q /\ NsContent(q)' = NsContent(q)
    BY <1>q DEF Question, Asked, NsContent
  <2>6. TrueAnswer(Question, data)'
    BY <1>1, <2>1, <2>4, <2>5 DEF TrueAnswer, NsContent
  <2> QED BY <2>1, <2>6 DEF DataTrue, Contents
<1>2. CASE ~(q.type = "NS" /\ [zone |-> q.zone, upto |-> q.upto] \in m_nsCache')
  <2>1. phase' = "sent" /\ data' = NoData
    BY <1>e, <1>2 DEF express
  <2> QED BY <2>1 DEF DataTrue, NoData, Contents
<1> QED BY <1>1, <1>2

(* start() *)
LEMMA StartInv == QueryInv /\ Start => QueryInv'
<1>1. SUFFICES ASSUME QueryInv, Start PROVE QueryInv'
  OBVIOUS
<1>2. /\ phase = "new" /\ UNCHANGED <<dst, m_nFinished, m_nTry, m_nsCache, calls, threw>>
      /\ m_step = "QUERY_NS" /\ m_nFinished = dst.start /\ m_nTry = 1
      /\ m_step' = IF dst.len = m_nFinished THEN "QUERY_RR" ELSE m_step
      /\ express(Asked(m_step', m_nFinished', m_nTry'), m_nsCache')
      /\ TypeOK /\ AtZone /\ CacheInv /\ CallsInv /\ dst \in Destinations
  BY <1>1 DEF QueryInv, Walk, Start, TypeOK
<1>3. CacheInv'
  BY <1>2 DEF CacheInv, Above
<1>4. m_step' \in {"QUERY_NS", "QUERY_RR"} /\ m_nFinished' \in 0 .. dst.len /\ m_nTry' \in Nat
  BY <1>2 DEF TypeOK
<1>5. /\ phase' \in {"sent", "validating"} /\ data' \in [ct : Contents, absent : BOOLEAN]
      /\ DataTrue'
  BY <1>2, <1>3, <1>4, ExpressTrue
<1>6. TypeOK'
  BY <1>2, <1>4, <1>5 DEF TypeOK, Steps
<1>7. Walk'
  <2>1. AtZone'
    BY <1>2 DEF AtZone
  <2>2. m_step' = "QUERY_NS" => m_nFinished' + m_nTry' =< dst'.len /\ Skipped'
    BY <1>2, DestinationFacts DEF Skipped
  <2>3. m_step' = "QUERY_RR" => Arrived'
    BY <1>2, DestinationFacts DEF Arrived
  <2> QED BY <1>4, <1>5, <2>1, <2>2, <2>3 DEF Walk
<1>8. CallsInv'
  BY <1>2, <1>5 DEF CallsInv
<1> QED BY <1>3, <1>5, <1>6, <1>7, <1>8 DEF QueryInv

(* The walk stays where it is when the question does. *)
LEMMA WalkStays ==
  ASSUME Walk, UNCHANGED <<dst, m_step, m_nFinished, m_nTry>>, phase # "new",
         phase' \in {phase, "validating", "over"}, phase' = "validating" => Active
  PROVE  Walk'
BY DEF Walk, AtZone, Active, Skipped, Arrived

(* The Data asked for arrives. *)
LEMMA OnDataInv == QueryInv /\ onData => QueryInv'
<1>1. SUFFICES ASSUME QueryInv, onData PROVE QueryInv'
  OBVIOUS
<1>2. /\ phase = "sent" /\ phase' = "validating"
      /\ UNCHANGED <<dst, m_step, m_nFinished, m_nTry, m_nsCache, calls, threw>>
      /\ TypeOK /\ Walk /\ CacheInv /\ CallsInv /\ dst \in Destinations
  BY <1>1 DEF QueryInv, onData, TypeOK
<1>3. PICK q : q = Question
  OBVIOUS
<1>4. q.type = "NS" => NsContent(q) \in Contents
  BY DEF NsContent, Contents
<1>5. /\ data' \in Answers(q)
      /\ data'.absent = (data'.ct = "DOE") \/ (dst.faulty /\ data'.ct = "DOE")
  BY <1>1, <1>3 DEF onData, Question
<1>6. /\ data' \in [ct : Contents, absent : BOOLEAN]
      /\ q.type = "NS" => data'.ct = NsContent(q)
      /\ q.type # "NS" => data'.ct \in {"RESP", "DOE"}
  BY <1>4, <1>5 DEF Answers, Contents
<1>7. data'.ct = "DOE" /\ ~data'.absent => dst.faulty
  BY <1>5
<1>8. Question' = q /\ NsContent(q)' = NsContent(q)
  BY <1>2, <1>3 DEF Question, Asked, NsContent
<1>9. DataTrue'
  BY <1>2, <1>6, <1>7, <1>8 DEF DataTrue, TrueAnswer, NsContent
<1>10. TypeOK'
  BY <1>2, <1>6 DEF TypeOK
<1>11. Walk'
  BY <1>2, WalkStays DEF Active
<1>12. CacheInv' /\ CallsInv'
  BY <1>2 DEF CacheInv, Above, CallsInv
<1> QED BY <1>9, <1>10, <1>11, <1>12 DEF QueryInv

(* A timeout, a refused signature and an exception end the query. *)
LEMMA EndInv ==
  QueryInv /\ (onTimeout \/ onValidationFailed \/ onDataValidatedThrows) => QueryInv'
<1>1. SUFFICES ASSUME QueryInv, onTimeout \/ onValidationFailed \/ onDataValidatedThrows
               PROVE  QueryInv'
  OBVIOUS
<1>2. /\ Active /\ phase \in {"sent", "validating"} /\ phase' = "over"
      /\ UNCHANGED <<dst, m_step, m_nFinished, m_nTry, m_nsCache>>
      /\ TypeOK /\ Walk /\ CacheInv /\ calls = <<>> /\ ~threw
      /\ data' \in {data, NoData}
  BY <1>1 DEF QueryInv, CallsInv, onTimeout, onValidationFailed, onDataValidatedThrows, abort, Active
<1>3. \/ threw' = TRUE /\ calls' = <<>>
      \/ threw' = FALSE /\ calls' = <<"fail">>
  <2>1. CASE onTimeout \/ onValidationFailed
    BY <1>2, <2>1 DEF onTimeout, onValidationFailed, abort, TypeOK
  <2>2. CASE onDataValidatedThrows
    BY <1>2, <2>2 DEF onDataValidatedThrows
  <2> QED BY <1>1, <2>1, <2>2
<1>4. calls' \in Seq({"succeed", "fail"}) /\ data' \in [ct : Contents, absent : BOOLEAN]
  <2>1. <<>> \in Seq({"succeed", "fail"}) /\ <<"fail">> \in Seq({"succeed", "fail"})
    OBVIOUS
  <2>2. NoData \in [ct : Contents, absent : BOOLEAN]
    BY DEF NoData, Contents
  <2>3. data \in [ct : Contents, absent : BOOLEAN]
    BY <1>2 DEF TypeOK
  <2> QED BY <1>2, <1>3, <2>1, <2>2, <2>3
<1>5. TypeOK'
  BY <1>2, <1>3, <1>4 DEF TypeOK
<1>6. Walk'
  BY <1>2, WalkStays
<1>7. CacheInv' /\ CallsInv' /\ DataTrue'
  BY <1>2, <1>3 DEF CacheInv, Above, CallsInv, DataTrue
<1> QED BY <1>5, <1>6, <1>7 DEF QueryInv

(* Where the switch takes the controller: the record is asked for, the      *)
(* query ends in success, or the walk goes on, one prefix further or from a *)
(* zone below.                                                              *)
LEMMA SwitchGoes ==
  ASSUME TypeOK, Walk, DataTrue, phase = "validating",
         m_step' = AfterSwitch[1], m_nFinished' = AfterSwitch[2], m_nTry' = AfterSwitch[3],
         dst' = dst
  PROVE  /\ m_step' \in {"QUERY_NS", "QUERY_RR", "ANSWER_STUB"}
         /\ m_nFinished' \in 0 .. dst.len /\ m_nTry' \in 1 .. dst.len + 1
         /\ AtZone'
         /\ m_step' = "QUERY_NS" => m_nFinished' + m_nTry' =< dst.len /\ Skipped'
         /\ m_step' \in {"QUERY_RR", "ANSWER_STUB"} => Arrived'
<1>1. /\ dst \in Destinations /\ m_nFinished \in 0 .. dst.len /\ m_nTry \in 1 .. dst.len + 1
      /\ m_step \in {"QUERY_NS", "QUERY_RR"} /\ AtZone
      /\ m_step = "QUERY_RR" => Arrived
      /\ m_step = "QUERY_NS" => m_nFinished + m_nTry =< dst.len /\ Skipped
  BY DEF TypeOK, Walk, Active
<1>d. /\ dst.len \in Nat /\ dst.start \in 0 .. dst.len /\ dst.cuts \subseteq 1 .. dst.len
      /\ dst.type \in {"NS", "TXT"}
      /\ \A c \in dst.cuts, p \in 1 .. dst.len : p < c /\ p \notin dst.cuts => p \in dst.auths
      /\ \A p \in dst.auths : p \notin dst.cuts
  BY <1>1, DestinationFacts
<1>2. CASE m_step = "QUERY_RR"
  <2>1. AfterSwitch = <<"ANSWER_STUB", m_nFinished, m_nTry>>
    BY <1>2 DEF AfterSwitch
  <2>2. m_step' = "ANSWER_STUB" /\ m_nFinished' = m_nFinished /\ m_nTry' = m_nTry
    BY <2>1
  <2> QED BY <1>1, <1>2, <2>2 DEF AtZone, Arrived
<1>3. CASE m_step = "QUERY_NS"
  <2>1. AfterSwitch = PastEnd(AfterNs)
    BY <1>3 DEF AfterSwitch
  <2>2. PICK upto : upto = m_nFinished + m_nTry
    OBVIOUS
  <2>3. upto \in 1 .. dst.len /\ m_nFinished < upto /\ \A c \in dst.cuts : m_nFinished < c => upto =< c
    BY <1>1, <1>3, <1>d, <2>2 DEF Skipped
  <2>4. /\ Question.upto = upto /\ Question.zone = m_nFinished /\ Question.type = "NS"
        /\ data.ct = NsContent(Question)
    BY <1>3, <2>2 DEF Question, Asked, DataTrue, TrueAnswer
  <2>5. /\ upto \in dst.cuts <=> data.ct = "LINK"
        /\ data.ct = "AUTH" => upto \in dst.auths
        /\ data.ct = "DOE" => upto \notin dst.cuts \cup dst.auths
        /\ data.ct \in Contents
    BY <1>1, <2>3, <2>4, NsContentIs
  <2>6. CASE data.ct = "DOE"
    <3>1. AfterNs = <<"QUERY_RR", m_nFinished, m_nTry>>
      BY <2>6 DEF AfterNs
    <3>2. PastEnd(AfterNs) = <<"QUERY_RR", m_nFinished, m_nTry>>
      BY <1>1, <1>3, <1>d, <3>1 DEF PastEnd
    <3>3. m_step' = "QUERY_RR" /\ m_nFinished' = m_nFinished /\ m_nTry' = m_nTry
      BY <2>1, <3>2
    <3>4. Arrived'
      BY <1>d, <2>3, <2>5, <2>6, <3>3 DEF Arrived
    <3> QED BY <1>1, <3>3, <3>4 DEF AtZone
  <2>7. CASE data.ct = "LINK" /\ AtDelegatedName
    <3>1. AfterNs = <<"ANSWER_STUB", m_nFinished, m_nTry>>
      BY <2>7 DEF AfterNs, AfterLink
    <3>2. PastEnd(AfterNs) = <<"ANSWER_STUB", m_nFinished, m_nTry>>
      BY <1>1, <1>3, <1>d, <3>1 DEF PastEnd
    <3>3. m_step' = "ANSWER_STUB" /\ m_nFinished' = m_nFinished /\ m_nTry' = m_nTry
      BY <2>1, <3>2
    <3>4. Arrived'
      BY <1>d, <2>2, <2>3, <2>7, <3>3 DEF Arrived, AtDelegatedName
    <3> QED BY <1>1, <3>3, <3>4 DEF AtZone
  <2>8. CASE data.ct = "LINK" /\ ~AtDelegatedName
    <3>1. AfterNs = <<"QUERY_NS", upto, 1>>
      BY <1>3, <2>2, <2>8 DEF AfterNs, AfterLink
    <3>2. /\ m_nFinished' = upto /\ m_nTry' = 1
          /\ m_step' = IF upto + 1 > dst.len
                       THEN IF dst.type = "NS" THEN "ANSWER_STUB" ELSE "QUERY_RR"
                       ELSE "QUERY_NS"
      BY <2>1, <3>1 DEF PastEnd
    <3>3. upto \in dst.cuts /\ (dst.type = "NS" => upto < dst.len)
      BY <1>d, <2>2, <2>3, <2>5, <2>8 DEF AtDelegatedName
    <3>4. AtZone'
      BY <1>1, <1>d, <2>3, <3>2, <3>3 DEF AtZone
    <3>5. upto + 1 > dst.len => Arrived'
      BY <1>d, <2>3, <3>2 DEF Arrived
    <3>6. Skipped'
      BY <1>d, <2>3, <3>2 DEF Skipped
    <3> QED BY <1>d, <2>3, <3>2, <3>4, <3>5, <3>6
  <2>9. CASE data.ct = "AUTH"
    <3>1. AfterNs = <<"QUERY_NS", m_nFinished, m_nTry + 1>>
      BY <1>3, <2>9 DEF AfterNs, AfterAuth
    <3>2. /\ m_nFinished' = m_nFinished /\ m_nTry' = m_nTry + 1
          /\ m_step' = IF upto + 1 > dst.len
                       THEN IF dst.type = "NS" THEN "ANSWER_STUB" ELSE "QUERY_RR"
                       ELSE "QUERY_NS"
      BY <1>1, <2>1, <2>2, <3>1 DEF PastEnd
    <3>3. upto \notin dst.cuts
      BY <2>5, <2>9
    <3>4. upto + 1 > dst.len => Arrived'
      BY <1>d, <2>3, <3>2, <3>3 DEF Arrived
    <3>5. Skipped'
      BY <1>1, <1>d, <2>2, <2>3, <3>2, <3>3 DEF Skipped
    <3>6. AtZone'
      BY <1>1, <3>2 DEF AtZone
    <3> QED BY <1>1, <1>d, <2>2, <2>3, <3>2, <3>4, <3>5, <3>6
  <2>10. CASE data.ct = "RESP"
    <3>1. AfterNs = <<"QUERY_NS", m_nFinished, m_nTry>>
      BY <1>3, <2>10 DEF AfterNs
    <3>2. PastEnd(AfterNs) = <<"QUERY_NS", m_nFinished, m_nTry>>
      BY <1>1, <1>3, <1>d, <3>1 DEF PastEnd
    <3>3. m_step' = "QUERY_NS" /\ m_nFinished' = m_nFinished /\ m_nTry' = m_nTry
      BY <2>1, <3>2
    <3> QED BY <1>1, <1>3, <3>3 DEF AtZone, Skipped
  <2> QED BY <2>5, <2>6, <2>7, <2>8, <2>9, <2>10 DEF Contents
<1> QED BY <1>1, <1>2, <1>3


(* What the controller puts into the shared cache is a true delegation. *)
LEMMA CacheStaysTrue ==
  ASSUME TypeOK, Walk, DataTrue, CacheInv, phase = "validating",
         m_nsCache' = CacheInsert, dst' = dst
  PROVE  CacheInv' /\ m_nsCache' \subseteq [zone : 0 .. MaxLen, upto : 0 .. MaxLen]
<1>1. /\ dst \in Destinations /\ m_nFinished \in 0 .. dst.len /\ m_nTry \in 1 .. dst.len + 1
      /\ m_step \in {"QUERY_NS", "QUERY_RR"} /\ AtZone
      /\ m_step = "QUERY_RR" => Arrived
      /\ m_step = "QUERY_NS" => m_nFinished + m_nTry =< dst.len /\ Skipped
      /\ m_nsCache \subseteq [zone : 0 .. MaxLen, upto : 0 .. MaxLen]
  BY DEF TypeOK, Walk, Active
<1>d. /\ dst.len \in 0 .. MaxLen /\ dst.start \in 0 .. dst.len /\ dst.cuts \subseteq 1 .. dst.len
  BY <1>1, DestinationFacts
<1>2. CASE data.ct # "LINK"
  <2>1. m_nsCache' = m_nsCache
    BY <1>2 DEF CacheInsert
  <2> QED BY <1>1, <2>1 DEF CacheInv, Above
<1>3. CASE data.ct = "LINK"
  <2>q. PICK q : q = Question
    OBVIOUS
  <2>1. m_nsCache' = m_nsCache \cup {[zone |-> q.zone, upto |-> q.upto]}
    BY <1>3, <2>q DEF CacheInsert, Question
  <2>2. /\ q.zone = m_nFinished
        /\ q.upto = IF m_step = "QUERY_NS" THEN m_nFinished + m_nTry ELSE dst.len
        /\ NsContent(q) = "LINK"
        /\ m_step = "QUERY_RR" => dst.type = "NS"
    BY <1>1, <1>3, <2>q DEF Question, Asked, DataTrue, TrueAnswer
  <2>3. q.upto # q.zone
    BY <2>2 DEF NsContent
  <2>4. q.upto \in dst.cuts
    BY <1>1, <2>2, <2>3, NsContentIs
  <2>5. q.zone < q.upto /\ q.upto \in 1 .. dst.len /\ q.zone \in 0 .. dst.len
    BY <1>1, <1>d, <2>2, <2>3, <2>4
  <2>6. \A c \in dst.cuts : ~(q.zone < c /\ c < q.upto)
    BY <1>1, <1>d, <2>2 DEF Skipped, Arrived
  <2>7. dst.start =< q.zone /\ (q.zone # dst.start => q.zone \in dst.cuts)
    BY <1>1, <2>2 DEF AtZone
  <2>8. q.zone = Above(dst, q.upto)
    BY <1>1, <2>5, <2>6, <2>7, AboveIs
  <2>9. dst.start < q.upto
    BY <1>d, <2>5, <2>7
  <2>10. CacheInv'
    BY <2>1, <2>4, <2>8, <2>9 DEF CacheInv, Above
  <2> QED BY <1>1, <1>d, <2>1, <2>5, <2>10
<1> QED BY <1>2, <1>3

(* The validator accepts the Data. *)
LEMMA OnDataValidatedInv == QueryInv /\ onDataValidated => QueryInv'
<1>1. SUFFICES ASSUME QueryInv, onDataValidated PROVE QueryInv'
  OBVIOUS
<1>2. /\ TypeOK /\ Walk /\ DataTrue /\ CacheInv /\ CallsInv /\ phase = "validating"
      /\ dst' = dst /\ threw' = threw /\ m_nsCache' = CacheInsert
      /\ m_step' = AfterSwitch[1] /\ m_nFinished' = AfterSwitch[2] /\ m_nTry' = AfterSwitch[3]
      /\ dst \in Destinations /\ threw = FALSE /\ calls = <<>>
  BY <1>1 DEF QueryInv, onDataValidated, CallsInv, TypeOK
<1>3. CacheInv' /\ m_nsCache' \subseteq [zone : 0 .. MaxLen, upto : 0 .. MaxLen]
  BY <1>2, CacheStaysTrue
<1>4. /\ m_step' \in {"QUERY_NS", "QUERY_RR", "ANSWER_STUB"}
      /\ m_nFinished' \in 0 .. dst.len /\ m_nTry' \in 1 .. dst.len + 1
      /\ AtZone'
      /\ m_step' = "QUERY_NS" => m_nFinished' + m_nTry' =< dst.len /\ Skipped'
      /\ m_step' \in {"QUERY_RR", "ANSWER_STUB"} => Arrived'
  BY <1>2, SwitchGoes
<1>5. CASE m_step' \in {"QUERY_NS", "QUERY_RR"}
  <2>1. /\ express(Asked(m_step', m_nFinished', m_nTry'), m_nsCache')
        /\ calls' = calls
    BY <1>1, <1>5 DEF onDataValidated, hasEnded
  <2>2. m_nTry' \in Nat
    BY <1>2, <1>4, DestinationFacts
  <2>3. /\ phase' \in {"sent", "validating"} /\ data' \in [ct : Contents, absent : BOOLEAN]
        /\ DataTrue'
    BY <1>2, <1>3, <1>4, <1>5, <2>1, <2>2, ExpressTrue
  <2>4. TypeOK'
    BY <1>2, <1>3, <1>4, <2>1, <2>3 DEF TypeOK, Steps
  <2>5. Walk'
    BY <1>2, <1>4, <1>5, <2>3 DEF Walk
  <2>6. CallsInv'
    BY <1>2, <2>1, <2>3 DEF CallsInv
  <2> QED BY <1>3, <2>3, <2>4, <2>5, <2>6 DEF QueryInv
<1>6. CASE m_step' = "ANSWER_STUB"
  <2>1. phase' = "over" /\ data' = data /\ calls' = <<"succeed">>
    BY <1>1, <1>2, <1>6 DEF onDataValidated, hasEnded
  <2>2. calls' \in Seq({"succeed", "fail"})
    <3>1. <<"succeed">> \in Seq({"succeed", "fail"})
      OBVIOUS
    <3> QED BY <2>1, <3>1
  <2>3. TypeOK'
    BY <1>2, <1>3, <1>4, <2>1, <2>2 DEF TypeOK, Steps
  <2>4. Walk'
    BY <1>2, <1>4, <1>6, <2>1 DEF Walk, Active
  <2>5. CallsInv' /\ DataTrue'
    BY <1>2, <1>6, <2>1 DEF CallsInv, DataTrue
  <2> QED BY <1>3, <2>3, <2>4, <2>5 DEF QueryInv
<1> QED BY <1>4, <1>5, <1>6

LEMMA QueryStep == QueryInv /\ [Next]_vars => QueryInv'
<1>1. QueryInv /\ UNCHANGED vars => QueryInv'
  <2>1. SUFFICES ASSUME QueryInv, UNCHANGED vars PROVE QueryInv'
    OBVIOUS
  <2>2. TypeOK' /\ Walk'
    BY <2>1 DEF QueryInv, vars, TypeOK, Walk, AtZone, Active, Skipped, Arrived
  <2>3. CacheInv' /\ CallsInv'
    BY <2>1 DEF QueryInv, vars, CacheInv, Above, CallsInv
  <2>4. DataTrue'
    <3>q. PICK q : q = Question
      OBVIOUS
    <3>1. Question' = q /\ NsContent(q)' = NsContent(q) /\ data' = data /\ phase' = phase /\ dst' = dst
      BY <2>1, <3>q DEF vars, Question, Asked, NsContent
    <3>2. phase = "validating" => TrueAnswer(q, data)
      BY <2>1, <3>q DEF QueryInv, DataTrue
    <3> QED BY <3>1, <3>2 DEF DataTrue, TrueAnswer, NsContent
  <2> QED BY <2>2, <2>3, <2>4 DEF QueryInv
<1>2. QueryInv /\ Next => QueryInv'
  BY StartInv, OnDataInv, EndInv, OnDataValidatedInv DEF Next
<1> QED BY <1>1, <1>2

LEMMA QueryAlways == Spec => []QueryInv
BY QueryInit, QueryStep, PTL DEF Spec

(* What the invariant says of the properties the runs check. *)
LEMMA QueryInvImplies ==
  QueryInv => ZoneCorrect /\ InsideLabel /\ OneCallback /\ CacheTrue
<1>1. SUFFICES ASSUME QueryInv PROVE ZoneCorrect /\ InsideLabel /\ OneCallback /\ CacheTrue
  OBVIOUS
<1>2. /\ TypeOK /\ Walk /\ CacheInv /\ CallsInv
      /\ dst \in Destinations /\ m_nFinished \in 0 .. dst.len
  BY <1>1 DEF QueryInv, TypeOK
<1>3. ZoneCorrect
  <2>1. SUFFICES ASSUME calls = <<"succeed">> PROVE m_nFinished = RefZone
    BY DEF ZoneCorrect
  <2>2. m_step = "ANSWER_STUB"
    <3>1. <<"succeed">> # <<>> /\ <<"succeed">> # <<"fail">>
      OBVIOUS
    <3> QED BY <1>2, <2>1, <3>1 DEF CallsInv
  <2> QED BY <1>2, <2>2, ArrivedIsRight DEF Walk
<1>4. InsideLabel
  BY <1>2 DEF InsideLabel, Walk, Active
<1>5. OneCallback
  BY <1>2 DEF OneCallback, CallsInv
<1>6. CacheTrue
  BY <1>2 DEF CacheTrue, CacheInv
<1> QED BY <1>3, <1>4, <1>5, <1>6

-----------------------------------------------------------------------------
(* Every variable of the controller keeps the shape the code gives it; the  *)
(* components tried never leave the label.                                  *)
THEOREM QueryTypes == Spec => []TypeOK
<1>1. QueryInv => TypeOK
  BY DEF QueryInv
<1> QED BY <1>1, QueryAlways, PTL

(* parseFinalResponse attributes the answer to the zone that is responsible *)
(* for the record, for labels of any length, wherever zone cuts and AUTH    *)
(* records lie and whatever other queries left in the cache.                *)
THEOREM ZoneAlwaysCorrect == Spec => []ZoneCorrect
BY QueryAlways, QueryInvImplies, PTL

(* makeLatestInterest never takes a prefix longer than the label itself.    *)
THEOREM AlwaysInsideLabel == Spec => []InsideLabel
BY QueryAlways, QueryInvImplies, PTL

(* The controller calls its owner back once, and nothing is under way then; *)
(* only the exception of onDataValidated ends it without a callback.        *)
THEOREM AlwaysOneCallback == Spec => []OneCallback
BY QueryAlways, QueryInvImplies, PTL

(* What onDataValidated inserts into the NS cache is a delegation that      *)
(* exists, filed under the zone that made it.                               *)
THEOREM CacheAlwaysTrue == Spec => []CacheTrue
BY QueryAlways, QueryInvImplies, PTL

-----------------------------------------------------------------------------
(* What the owner sees of the controller. *)
OutcomeFacts ==
  /\ phase = "new" => Outcome = "new"
  /\ phase \in {"sent", "validating"} => Outcome = "running"
  /\ phase = "over" /\ threw => Outcome = "threw"
  /\ phase = "over" /\ calls = <<"fail">> => Outcome = "failed"
  /\ phase = "over" /\ calls = <<"succeed">> => Outcome = "succeeded"

LEMMA OutcomeIs == QueryInv => OutcomeFacts
<1> SUFFICES ASSUME QueryInv PROVE OutcomeFacts
  OBVIOUS
<1>1. phase # "over" => ~threw
  BY DEF QueryInv, CallsInv
<1>2. calls # <<>> => ~threw
  <2>1. <<>> # <<"fail">> /\ <<>> # <<"succeed">>
    OBVIOUS
  <2> QED BY <2>1 DEF QueryInv, CallsInv
<1>3. phase = "new" => Outcome = "new"
  BY <1>1 DEF Outcome
<1>4. phase \in {"sent", "validating"} => Outcome = "running"
  BY <1>1 DEF Outcome
<1>5. phase = "over" /\ threw => Outcome = "threw"
  BY DEF Outcome
<1>6. phase = "over" /\ ~threw => Outcome = IF Last(calls) = "succeed" THEN "succeeded" ELSE "failed"
  BY DEF Outcome
<1>7. Last(<<"fail">>) = "fail" /\ Last(<<"succeed">>) = "succeed"
  BY DEF Last
<1>8. <<"fail">> # <<>> /\ <<"succeed">> # <<>>
  OBVIOUS
<1> QED BY <1>2, <1>3, <1>4, <1>5, <1>6, <1>7, <1>8 DEF OutcomeFacts

(* A query that begins is a new one to its owner. *)
LEMMA ServiceInit == Init => QS!Init
<1>1. Init => Outcome = "new"
  BY QueryInit, OutcomeIs DEF Init, OutcomeFacts
<1> QED BY <1>1 DEF QS!Init

(* Every step of the controller is a step of the service or none. *)
LEMMA ServiceStep == QueryInv /\ QueryInv' /\ [Next]_vars => [QS!Next]_(QS!vars)
<1>1. SUFFICES ASSUME QueryInv, QueryInv', [Next]_vars PROVE [QS!Next]_(QS!vars)
  OBVIOUS
<1>o. OutcomeFacts /\ OutcomeFacts'
  BY <1>1, OutcomeIs, PTL
<1>2. dst' = dst /\ RefZone' = RefZone
  BY <1>1 DEF Next, vars, Start, onData, onTimeout, onValidationFailed, onDataValidated,
              onDataValidatedThrows, RefZone
<1>3. CASE UNCHANGED vars
  <2>1. Outcome' = Outcome /\ m_nFinished' = m_nFinished
    BY <1>3 DEF vars, Outcome
  <2> QED BY <1>2, <2>1 DEF QS!vars
<1>4. CASE Start
  <2>1. Outcome = "new" /\ Outcome' = "running"
    <3>1. phase = "new" /\ phase' \in {"sent", "validating"}
      BY <1>4 DEF Start, express
    <3> QED BY <1>1, <1>o, <3>1 DEF OutcomeFacts, Active
  <2> QED BY <1>2, <2>1 DEF QS!Next, QS!Start
<1>5. CASE onData
  <2>1. Outcome = "running" /\ Outcome' = "running"
    BY <1>1, <1>5, <1>o DEF OutcomeFacts, onData, Active
  <2> QED BY <1>2, <2>1 DEF QS!vars
<1>6. CASE onTimeout \/ onValidationFailed
  <2>1. Outcome = "running" /\ Outcome' = "failed" /\ dst.faulty
    <3>1. Active /\ phase # "over" /\ phase' = "over" /\ dst.faulty /\ calls' = Append(calls, "fail")
      BY <1>6 DEF onTimeout, onValidationFailed, abort, Active
    <3>2. calls' = <<"fail">>
      BY <1>1, <3>1 DEF QueryInv, CallsInv
    <3> QED BY <1>1, <1>o, <3>1, <3>2 DEF OutcomeFacts, Active
  <2> QED BY <1>2, <2>1 DEF QS!Next, QS!Fail
<1>7. CASE onDataValidatedThrows
  <2>1. Outcome = "running" /\ Outcome' = "threw"
    BY <1>1, <1>7, <1>o DEF OutcomeFacts, onDataValidatedThrows, Active
  <2>2. dst.faulty
    BY <1>1, <1>7 DEF onDataValidatedThrows, NotAbsent, QueryInv, DataTrue, TrueAnswer
  <2> QED BY <1>2, <2>1, <2>2 DEF QS!Next, QS!Throw
<1>8. CASE onDataValidated
  <2>1. Outcome = "running" /\ calls = <<>>
    BY <1>1, <1>8, <1>o DEF OutcomeFacts, onDataValidated, Active, QueryInv, CallsInv
  <2>2. m_step' \in {"QUERY_NS", "QUERY_RR", "ANSWER_STUB"}
    BY <1>1, <1>2, <1>8, SwitchGoes DEF onDataValidated, QueryInv
  <2>3. CASE m_step' \in {"QUERY_NS", "QUERY_RR"}
    <3>1. phase' \in {"sent", "validating"}
      BY <1>8, <2>3 DEF onDataValidated, hasEnded, express
    <3>2. Outcome' = "running"
      BY <1>1, <1>o, <3>1 DEF OutcomeFacts
    <3> QED BY <1>2, <2>1, <3>2 DEF QS!vars
  <2>4. CASE m_step' = "ANSWER_STUB"
    <3>1. phase' = "over" /\ calls' = <<"succeed">>
      BY <1>8, <2>1, <2>4 DEF onDataValidated, hasEnded
    <3>2. Outcome' = "succeeded"
      BY <1>1, <1>o, <3>1 DEF OutcomeFacts
    <3>3. ZoneCorrect'
      BY <1>1, QueryInvImplies, PTL
    <3>4. m_nFinished' = RefZone
      BY <1>2, <3>1, <3>3 DEF ZoneCorrect
    <3> QED BY <1>2, <2>1, <3>2, <3>4 DEF QS!Next, QS!Succeed
  <2> QED BY <2>2, <2>3, <2>4
<1> QED BY <1>1, <1>3, <1>4, <1>5, <1>6, <1>7, <1>8 DEF Next

(* IterativeQueryController implements the query service: the walk is       *)
(* invisible, a success names the zone responsible for the record, and a    *)
(* failure or an exception has a fault of the network or a zone behind it.  *)
THEOREM ControllerImplementsService == Spec => Implements
<1>1. Init /\ [][Next]_vars => QS!Init /\ [][QS!Next]_(QS!vars)
  BY QueryAlways, ServiceInit, ServiceStep, PTL DEF Spec
<1> QED BY <1>1 DEF Spec, Implements, QS!Spec
=============================================================================
