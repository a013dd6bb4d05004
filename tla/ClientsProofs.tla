--------------------------- MODULE ClientsProofs ---------------------------
(***************************************************************************)
(* Proofs about CertFetch and Clients, for every number of retries,        *)
(* certificates and runs, and every set of options.                        *)
(***************************************************************************)
EXTENDS Clients, TLAPS

(* Where a fetch is under way, what it is waiting for and how many tries    *)
(* it has made.                                                             *)
FetchState ==
  /\ nsq = "running" => vpc \in {"starting", "waiting"} /\ ~sent
  /\ sent => vpc \in {"starting", "waiting"}
  /\ vpc \in {"starting", "waiting"} => sent \/ nsq = "running"
  /\ vpc \in {"fetch", "starting", "waiting"} =>
       /\ nRetriesLeft >= 0
       /\ tries = Retries - nRetriesLeft + (IF sent THEN 1 ELSE 0)
  /\ tries =< Retries + 1
  /\ verdicts = <<"unreachable">> => tries = Retries + 1

(* Who holds a query. *)
FetchHolds ==
  /\ nsq = "running" /\ vpc = "waiting" => tag = query
  /\ vpc \in {"checking", "over"} /\ ~late => tag = 0

(* What the validation has said: nothing, or at its end one verdict, and    *)
(* never that forged Data is good.                                          *)
FetchSaid ==
  /\ vpc # "over" => verdicts = <<>>
  /\ vpc = "over" => \E v \in Verdicts : verdicts = <<v>>
  /\ verdicts = <<"ok">> => ~chain.forged

FetchInv == FetchTypeOK /\ FetchState /\ FetchHolds /\ FetchSaid

USE FetchAssumption

(* The certificates of a chain are bounded. *)
LEMMA ChainBound == ASSUME chain \in Chains PROVE chain.certs \in 0 .. MaxCerts
BY DEF Chains

(* A chain's facts about forgery are Boolean. *)
LEMMA ChainFaults ==
  ASSUME chain \in Chains
  PROVE  /\ chain.forged \in BOOLEAN /\ chain.faulty \in BOOLEAN
         /\ chain.forged => chain.faulty
BY DEF Chains

(* No verdict yet. *)
LEMMA NoVerdict ==
  /\ <<>> \in Seq(Verdicts)
  /\ \A v : <<>> # <<v>>
<1>1. <<>> \in Seq(Verdicts)
  OBVIOUS
<1>2. \A v : Len(<<v>>) = 1 /\ Len(<<>>) = 0
  OBVIOUS
<1> QED BY <1>1, <1>2

(* A ValidationState of its own. *)
Fresh ==
  /\ chain \in Chains /\ vpc \in {"idle", "checking"}
  /\ level = 0 /\ nRetriesLeft = Retries /\ query = 0 /\ nsq = "new"
  /\ tag = 0 /\ sent = FALSE /\ verdicts = <<>> /\ tries = 0 /\ late = FALSE

(* Nothing has happened to it yet. *)
LEMMA FreshInv == Fresh => FetchInv
<1>1. SUFFICES ASSUME Fresh PROVE FetchInv
  OBVIOUS
<1>2. FetchTypeOK
  <2>1. chain \in Chains /\ vpc \in {"idle", "checking"}
    BY <1>1 DEF Fresh
  <2>2. level \in 0 .. MaxCerts /\ nRetriesLeft \in -1 .. Retries
    BY <1>1 DEF Fresh
  <2>3. query \in Nat /\ tag \in 0 .. query /\ tries \in Nat
    BY <1>1 DEF Fresh
  <2>4. verdicts \in Seq(Verdicts)
    BY <1>1, NoVerdict DEF Fresh
  <2>5. sent \in BOOLEAN /\ late \in BOOLEAN /\ nsq \in {"new"}
    BY <1>1 DEF Fresh
  <2> QED BY <2>1, <2>2, <2>3, <2>4, <2>5 DEF FetchTypeOK
<1>3. FetchState /\ FetchHolds /\ FetchSaid
  BY <1>1, NoVerdict DEF Fresh, FetchState, FetchHolds, FetchSaid
<1> QED BY <1>2, <1>3 DEF FetchInv

(* The first validation satisfies the invariant. *)
LEMMA FetchInitInv == FetchInit => FetchInv
<1>1. FetchInit => Fresh
  BY DEF FetchInit, Fresh
<1> QED BY <1>1, FreshInv

(* Validator::validate and a new process start over. *)
LEMMA FreshStep == FetchInv /\ (validate \/ RunAgain) => FetchInv'
<1>1. FetchInv /\ (validate \/ RunAgain) => Fresh'
  BY DEF FetchInv, FetchTypeOK, validate, RunAgain, Fresh
<1>2. Fresh' => FetchInv'
  BY FreshInv, PTL
<1> QED BY <1>1, <1>2

(* A validation that ends has one verdict. *)
LEMMA EndsWithOne ==
  ASSUME NEW v \in Verdicts, vpc # "over", FetchSaid, End(v)
  PROVE  vpc' = "over" /\ verdicts' = <<v>> /\ verdicts' \in Seq(Verdicts)
<1>1. verdicts = <<>>
  BY DEF FetchSaid
<1>2. verdicts' = <<v>>
  BY <1>1 DEF End
<1>3. <<v>> \in Seq(Verdicts)
  OBVIOUS
<1> QED BY <1>2, <1>3 DEF End

(* One verdict is what FetchSaid asks of the end. *)
LEMMA OneIsSaid ==
  ASSUME NEW v \in Verdicts, vpc' = "over", verdicts' = <<v>>, v = "ok" => ~chain'.forged
  PROVE  FetchSaid' /\ (v # "unreachable" => verdicts' # <<"unreachable">>)
<1>1. \A w : verdicts' = <<w>> => w = v
  OBVIOUS
<1> QED BY <1>1 DEF FetchSaid

(* The library's validator keeps the invariant. *)
LEMMA ContinueInv == FetchInv /\ continueValidation => FetchInv'
<1>1. SUFFICES ASSUME FetchInv, continueValidation PROVE FetchInv'
  OBVIOUS
<1>2. vpc = "checking" /\ FetchSaid /\ FetchTypeOK
  BY <1>1 DEF FetchInv, continueValidation
<1>3. CASE vpc' = "fetch"
  <2>1. /\ level' = level + 1 /\ level < chain.certs /\ nRetriesLeft' = Retries /\ tries' = 0
        /\ UNCHANGED <<chain, query, nsq, tag, sent, late, verdicts>>
    BY <1>1, <1>3 DEF continueValidation, End
  <2>2. FetchTypeOK'
    BY <1>2, <1>3, <2>1, ChainBound DEF FetchTypeOK, NsQuery!Ended
  <2>3. FetchState' /\ FetchHolds' /\ FetchSaid'
    BY <1>1, <1>2, <1>3, <2>1 DEF FetchInv, FetchState, FetchHolds, FetchSaid
  <2> QED BY <2>2, <2>3 DEF FetchInv
<1>4. CASE vpc' # "fetch"
  <2>1. /\ UNCHANGED <<chain, level, nRetriesLeft, tries, query, nsq, tag, sent, late>>
        /\ \E v \in {"ok", "refused", "too deep"} : End(v) /\ (v = "ok" => ~chain.forged)
    BY <1>1, <1>4 DEF continueValidation
  <2>2. PICK v \in {"ok", "refused", "too deep"} : End(v) /\ (v = "ok" => ~chain.forged)
    BY <2>1
  <2>3. v \in Verdicts
    BY DEF Verdicts
  <2>4. vpc' = "over" /\ verdicts' = <<v>> /\ verdicts' \in Seq(Verdicts)
    BY <1>2, <2>2, <2>3, EndsWithOne
  <2>5. FetchSaid' /\ verdicts' # <<"unreachable">>
    BY <2>1, <2>2, <2>3, <2>4, OneIsSaid
  <2>6. FetchTypeOK'
    BY <1>2, <2>1, <2>4 DEF FetchTypeOK, NsQuery!Ended
  <2>7. FetchState' /\ FetchHolds'
    BY <1>1, <1>2, <2>1, <2>4, <2>5 DEF FetchInv, FetchState, FetchHolds
  <2> QED BY <2>5, <2>6, <2>7 DEF FetchInv
<1> QED BY <1>3, <1>4

(* So does a look into the store. *)
LEMMA FindInv == FetchInv /\ FindUnverified => FetchInv'
<1>1. SUFFICES ASSUME FetchInv, FindUnverified PROVE FetchInv'
  OBVIOUS
<1>2. FetchTypeOK'
  BY <1>1 DEF FetchInv, FindUnverified, FetchTypeOK, NsQuery!Ended
<1>3. FetchState' /\ FetchHolds' /\ FetchSaid'
  BY <1>1 DEF FetchInv, FindUnverified, FetchTypeOK, FetchState, FetchHolds, FetchSaid
<1> QED BY <1>2, <1>3 DEF FetchInv

(* doFetch makes a query of a new number, with no Interest under way. *)
LEMMA DoFetchInv == FetchInv /\ doFetch => FetchInv'
<1>1. SUFFICES ASSUME FetchInv, doFetch PROVE FetchInv'
  OBVIOUS
<1>2. FetchTypeOK'
  <2>1. /\ vpc' \in {"threw", "waiting", "starting"} /\ UNCHANGED <<chain, level, nRetriesLeft, tag, verdicts, late>>
        /\ query' \in {query, query + 1} /\ nsq' \in {nsq, "running"}
        /\ sent' \in {sent, TRUE} /\ tries' \in {tries, tries + 1}
    BY <1>1 DEF doFetch, Express
  <2>2. query' \in Nat /\ tag' \in 0 .. query' /\ tries' \in Nat
    BY <1>1, <2>1 DEF FetchInv, FetchTypeOK
  <2> QED BY <1>1, <2>1, <2>2 DEF FetchInv, FetchTypeOK, NsQuery!Ended
<1>3. FetchState'
  BY <1>1 DEF FetchInv, doFetch, Express, FetchTypeOK, FetchState
<1>4. FetchHolds' /\ FetchSaid'
  BY <1>1 DEF FetchInv, doFetch, Express, FetchState, FetchHolds, FetchSaid
<1> QED BY <1>2, <1>3, <1>4 DEF FetchInv

(* setTag holds that query. *)
LEMMA SetTagInv == FetchInv /\ setTag => FetchInv'
<1>1. SUFFICES ASSUME FetchInv, setTag PROVE FetchInv'
  OBVIOUS
<1>2. FetchTypeOK'
  BY <1>1 DEF FetchInv, setTag, FetchTypeOK, NsQuery!Ended
<1>3. FetchState' /\ FetchHolds' /\ FetchSaid'
  BY <1>1 DEF FetchInv, setTag, FetchTypeOK, FetchState, FetchHolds, FetchSaid
<1> QED BY <1>2, <1>3 DEF FetchInv

(* Whichever way the query ends, the Interest follows it. *)
LEMMA NsInv == FetchInv /\ (nsSuccessCallback \/ nsFailCallback \/ NsThrows) => FetchInv'
<1>1. SUFFICES ASSUME FetchInv, nsSuccessCallback \/ nsFailCallback \/ NsThrows PROVE FetchInv'
  OBVIOUS
<1>2. CASE nsSuccessCallback
  <2>1. FetchTypeOK'
    BY <1>1, <1>2 DEF FetchInv, nsSuccessCallback, Express, FetchTypeOK, NsQuery!Ended, NsQuery!Succeed
  <2>2. FetchState' /\ FetchHolds' /\ FetchSaid'
    BY <1>1, <1>2 DEF FetchInv, nsSuccessCallback, Express, FetchTypeOK, FetchState, FetchHolds, FetchSaid, NsQuery!Succeed
  <2> QED BY <2>1, <2>2 DEF FetchInv
<1>3. CASE nsFailCallback
  <2>1. FetchTypeOK'
    BY <1>1, <1>3 DEF FetchInv, nsFailCallback, Express, FetchTypeOK, NsQuery!Ended, NsQuery!Fail
  <2>2. FetchState' /\ FetchHolds' /\ FetchSaid'
    BY <1>1, <1>3 DEF FetchInv, nsFailCallback, Express, FetchTypeOK, FetchState, FetchHolds, FetchSaid, NsQuery!Fail
  <2> QED BY <2>1, <2>2 DEF FetchInv
<1>4. CASE NsThrows
  <2>1. FetchTypeOK'
    BY <1>1, <1>4 DEF FetchInv, NsThrows, FetchTypeOK, NsQuery!Ended, NsQuery!Throw
  <2>2. FetchState' /\ FetchHolds' /\ FetchSaid'
    BY <1>1, <1>4 DEF FetchInv, NsThrows, FetchTypeOK, FetchState, FetchHolds, FetchSaid, NsQuery!Throw
  <2> QED BY <2>1, <2>2 DEF FetchInv
<1> QED BY <1>1, <1>2, <1>3, <1>4

(* The certificate comes, or what is not one. *)
LEMMA DataInv == FetchInv /\ dataCallback => FetchInv'
<1>1. SUFFICES ASSUME FetchInv, dataCallback PROVE FetchInv'
  OBVIOUS
<1>2. /\ vpc = "waiting" /\ sent /\ sent' = FALSE /\ tag' = 0
      /\ UNCHANGED <<chain, level, nRetriesLeft, query, nsq, tries, late>>
      /\ FetchTypeOK /\ FetchState /\ FetchSaid
  BY <1>1 DEF FetchInv, dataCallback
<1>q. query' \in Nat /\ tag' \in 0 .. query'
  BY <1>2 DEF FetchTypeOK
<1>3. CASE End("malformed")
  <2>1. "malformed" \in Verdicts
    BY DEF Verdicts
  <2>2. vpc' = "over" /\ verdicts' = <<"malformed">> /\ verdicts' \in Seq(Verdicts)
    BY <1>2, <1>3, <2>1, EndsWithOne
  <2>3. FetchSaid' /\ verdicts' # <<"unreachable">>
    BY <2>1, <2>2, OneIsSaid
  <2>4. FetchTypeOK'
    BY <1>2, <1>q, <2>2 DEF FetchTypeOK, NsQuery!Ended
  <2>5. FetchState' /\ FetchHolds'
    BY <1>2, <2>2, <2>3 DEF FetchState, FetchHolds
  <2> QED BY <2>3, <2>4, <2>5 DEF FetchInv
<1>4. CASE vpc' = "checking" /\ UNCHANGED verdicts
  <2>1. FetchTypeOK'
    BY <1>2, <1>q, <1>4 DEF FetchTypeOK, NsQuery!Ended
  <2>2. FetchState' /\ FetchHolds' /\ FetchSaid'
    BY <1>2, <1>4 DEF FetchState, FetchHolds, FetchSaid
  <2> QED BY <2>1, <2>2 DEF FetchInv
<1> QED BY <1>1, <1>3, <1>4 DEF dataCallback

(* A NACK or a timeout is followed by another try, or is the last. *)
LEMMA UnansweredInv == FetchInv /\ Unanswered => FetchInv'
<1>1. SUFFICES ASSUME FetchInv, Unanswered PROVE FetchInv'
  OBVIOUS
<1>2. /\ vpc = "waiting" /\ sent /\ sent' = FALSE /\ nRetriesLeft' = nRetriesLeft - 1
      /\ UNCHANGED <<chain, level, query, nsq, tries, late>>
      /\ FetchTypeOK /\ FetchState /\ FetchSaid
  BY <1>1 DEF FetchInv, Unanswered
<1>3. /\ nRetriesLeft \in Int /\ nRetriesLeft >= 0 /\ nRetriesLeft =< Retries
      /\ tries = Retries - nRetriesLeft + 1 /\ nsq # "running"
  BY <1>2 DEF FetchTypeOK, FetchState
<1>q. query \in Nat /\ 0 \in 0 .. query /\ nRetriesLeft' \in -1 .. Retries
  BY <1>2, <1>3 DEF FetchTypeOK
<1>4. CASE nRetriesLeft' >= 0
  <2>1. vpc' = "fetch" /\ UNCHANGED <<tag, verdicts>>
    BY <1>1, <1>4 DEF Unanswered
  <2>2. FetchTypeOK'
    BY <1>2, <1>q, <1>4, <2>1 DEF FetchTypeOK, NsQuery!Ended
  <2>3. FetchState' /\ FetchHolds' /\ FetchSaid'
    BY <1>2, <1>3, <1>4, <2>1 DEF FetchState, FetchHolds, FetchSaid
  <2> QED BY <2>2, <2>3 DEF FetchInv
<1>5. CASE ~(nRetriesLeft' >= 0)
  <2>1. tag' = 0 /\ End("unreachable") /\ "unreachable" \in Verdicts
    BY <1>1, <1>5 DEF Unanswered, Verdicts
  <2>2. vpc' = "over" /\ verdicts' = <<"unreachable">> /\ verdicts' \in Seq(Verdicts)
    BY <1>2, <2>1, EndsWithOne
  <2>3. FetchSaid'
    BY <2>1, <2>2, OneIsSaid
  <2>4. tries' = Retries + 1
    BY <1>2, <1>3, <1>5
  <2>5. FetchTypeOK'
    BY <1>2, <1>q, <2>1, <2>2 DEF FetchTypeOK, NsQuery!Ended
  <2>6. FetchState' /\ FetchHolds'
    BY <1>2, <1>3, <2>1, <2>2, <2>4 DEF FetchState, FetchHolds
  <2> QED BY <2>3, <2>5, <2>6 DEF FetchInv
<1> QED BY <1>4, <1>5

(* Every step of a validation keeps the invariant. *)
LEMMA FetchStepInv == FetchInv /\ FetchStep => FetchInv'
BY ContinueInv, FindInv, DoFetchInv, SetTagInv, NsInv, DataInv, UnansweredInv DEF FetchStep

(* What changes no variable of the validation keeps it too. *)
LEMMA FetchStutter == FetchInv /\ UNCHANGED fetchVars => FetchInv'
<1>1. SUFFICES ASSUME FetchInv, UNCHANGED fetchVars PROVE FetchInv'
  OBVIOUS
<1>2. UNCHANGED <<chain, vpc, level, nRetriesLeft, query, nsq, tag, sent, verdicts, tries, late>>
  BY <1>1 DEF fetchVars
<1> QED BY <1>1, <1>2 DEF FetchInv, FetchTypeOK, FetchState, FetchHolds, FetchSaid, NsQuery!Ended

(* The application takes the verdict and may validate again. *)
LEMMA TakenInv == FetchInv /\ onValidationSuccessCallback => FetchInv'
<1>1. SUFFICES ASSUME FetchInv, onValidationSuccessCallback PROVE FetchInv'
  OBVIOUS
<1>2. /\ vpc = "over" /\ vpc' = "idle" /\ verdicts' = <<>>
      /\ UNCHANGED <<chain, level, nRetriesLeft, query, nsq, tag, sent, tries, late>>
      /\ FetchTypeOK /\ FetchState
  BY <1>1 DEF FetchInv, onValidationSuccessCallback
<1>3. FetchTypeOK'
  BY <1>2, NoVerdict DEF FetchTypeOK, NsQuery!Ended
<1>4. FetchState' /\ FetchHolds' /\ FetchSaid'
  BY <1>2, NoVerdict DEF FetchState, FetchHolds, FetchSaid
<1> QED BY <1>3, <1>4 DEF FetchInv

(* The programs keep the invariant of the validation they own. *)
LEMMA ClientInv == FetchInv /\ [Next]_vars => FetchInv'
<1>1. SUFFICES ASSUME FetchInv, [Next]_vars PROVE FetchInv'
  OBVIOUS
<1>2. CASE Validation
  BY <1>1, <1>2, FetchStepInv DEF Validation
<1>3. CASE DigOnSucceed \/ UpdateOnData \/ onQuerySuccessCallback \/ RunAgain
  BY <1>1, <1>3, FreshStep DEF DigOnSucceed, UpdateOnData, onQuerySuccessCallback
<1>4. CASE onValidationSuccessCallback
  BY <1>1, <1>4, TakenInv
<1>5. CASE onVerdict \/ onException \/ Return \/ DigOnFail \/ DigThrows \/ UpdateThrows
           \/ UpdateOnTimeout
  BY <1>1, <1>5, FetchStutter
     DEF onVerdict, onException, Return, DigOnFail, DigThrows, UpdateThrows, UpdateOnTimeout
<1>6. CASE AppStart \/ AppFetch \/ AppSetTag \/ onQueryFailCallback \/ AppThrows
           \/ onValidationFailCallback
  BY <1>1, <1>6, FetchStutter
     DEF AppStart, AppFetch, AppSetTag, onQueryFailCallback, AppThrows, onValidationFailCallback
<1>7. CASE \E o \in DigArgs : DigOptions(o)
  BY <1>1, <1>7, FetchStutter DEF DigOptions, Refuse
<1>8. CASE \E o \in UpdArgs : UpdateOptions(o)
  BY <1>1, <1>8, FetchStutter DEF UpdateOptions, Refuse
<1>9. CASE \E v \in toServer : ServerUpdate(v)
  BY <1>1, <1>9, FetchStutter DEF ServerUpdate
<1>10. CASE UNCHANGED vars
  BY <1>1, <1>10, FetchStutter DEF vars
<1> QED BY <1>1, <1>2, <1>3, <1>4, <1>5, <1>6, <1>7, <1>8, <1>9, <1>10 DEF Next, LoopStep

(* What the invariant says of queries, retries and verdicts. *)
LEMMA FetchInvImplies == FetchInv => HeldWhileRunning /\ TagReleased /\ AllTries /\ OneVerdict
<1>1. SUFFICES ASSUME FetchInv PROVE HeldWhileRunning /\ TagReleased /\ AllTries /\ OneVerdict
  OBVIOUS
<1>2. HeldWhileRunning /\ TagReleased
  BY <1>1 DEF FetchInv, FetchState, FetchHolds, HeldWhileRunning, TagReleased
<1>3. \A v : Len(<<v>>) = 1 /\ Last(<<v>>) = v
  BY DEF Last
<1>4. AllTries
  BY <1>1, <1>3 DEF FetchInv, FetchState, FetchSaid, AllTries
<1>5. Len(verdicts) = (IF vpc = "over" THEN 1 ELSE 0)
  BY <1>1, <1>3 DEF FetchInv, FetchSaid
<1>6. OneVerdict
  BY <1>1, <1>5 DEF FetchInv, FetchState, OneVerdict
<1> QED BY <1>2, <1>4, <1>6

(* FetchInv holds throughout. *)
LEMMA FetchAlways == Spec => []FetchInv
<1>1. Init => FetchInv
  BY FetchInitInv DEF Init
<1> QED BY <1>1, ClientInv, PTL DEF Spec

(* Whatever the program, the chain, the number of retries and the faults:   *)
(* the query under way is the one the ValidationState holds, so that the    *)
(* plain pointer in its callbacks is good.                                  *)
THEOREM QueryHeld == Spec => []HeldWhileRunning
BY FetchAlways, FetchInvImplies, PTL

(* A validation that has ended holds no query, a hit in the store during a  *)
(* retry apart: dataCallback and the last failure both remove the tag.      *)
THEOREM QueryReleased == Spec => []TagReleased
BY FetchAlways, FetchInvImplies, PTL

(* A certificate is asked for Retries + 1 times at most, and is given up    *)
(* after that many and no fewer.                                            *)
THEOREM TriesUsed == Spec => []AllTries
BY FetchAlways, FetchInvImplies, PTL

(* A validation calls back once, at its end, and waits for one thing at a   *)
(* time until then.                                                         *)
THEOREM VerdictOnce == Spec => []OneVerdict
BY FetchAlways, FetchInvImplies, PTL

-----------------------------------------------------------------------------
(* The types of a program's own variables. *)
ClientTypeOK ==
  /\ me \in Users /\ pc \in {"main", "fetch", "starting", "loop", "exited"}
  /\ cq \in {"new", "running", "succeeded", "failed", "threw"}
  /\ atag \in BOOLEAN /\ denied \in BOOLEAN /\ m_hasError \in BOOLEAN
  /\ stopped \in BOOLEAN /\ asked \in BOOLEAN
  /\ apps \in 0 .. MaxApps /\ exit \in {NoExit, 0, 1, Crash}
  /\ runs \in 0 .. MaxRuns /\ ver \in 0 .. runs

ServerTypeOK ==
  /\ stored \in 0 .. runs /\ toServer \subseteq 1 .. runs
  /\ replies \subseteq [ver : 1 .. runs, ret : {"OK", "FAILURE"}]

(* What has happened by the time a program is somewhere. *)
Where ==
  /\ pc # "exited" => exit = NoExit
  /\ pc = "main" => ~asked /\ cq = "new" /\ vpc = "idle" /\ ~stopped /\ runs < MaxRuns
  /\ pc \in {"fetch", "starting"} => me = "app"
  /\ me = "app" /\ pc \in {"fetch", "starting", "loop"} => apps > 0

(* In the loop of ndns-dig and ndns-update, whatever has ended without      *)
(* success has set m_hasError.                                              *)
Reported ==
  me # "app" /\ pc = "loop" =>
    /\ vpc # "idle" => cq = "succeeded"
    /\ stopped => cq # "running"
    /\ ~m_hasError => vpc # "idle" \/ cq = "running"
    /\ stopped /\ ~m_hasError => Accepted
    /\ me = "update" /\ ~m_hasError /\ cq = "succeeded" => chain.forged \/ stored >= ver

(* The server has what it has confirmed. *)
Served == \A r \in replies : r.ret = "OK" => r.ver =< stored

ProgramInv ==
  ClientTypeOK /\ ServerTypeOK /\ Where /\ Reported /\ Served /\ ZeroMeansDone /\ AppTagReleased

USE ClientsAssumption

(* TypeOK in its parts. *)
LEMMA TypeParts == FetchTypeOK /\ ClientTypeOK /\ ServerTypeOK => TypeOK
BY DEF TypeOK, ClientTypeOK, ServerTypeOK, Question!Ended

(* The programs begin with the invariant. *)
LEMMA ProgramInitInv == Init => ProgramInv
<1>1. SUFFICES ASSUME Init PROVE ProgramInv
  OBVIOUS
<1>2. ClientTypeOK
  <2>1. apps \in 0 .. MaxApps /\ runs \in 0 .. MaxRuns /\ ver \in 0 .. runs
    BY <1>1 DEF Init
  <2>2. exit \in {NoExit, 0, 1, Crash}
    BY <1>1 DEF Init
  <2> QED BY <1>1, <2>1, <2>2 DEF Init, ClientTypeOK
<1>5. ServerTypeOK
  BY <1>1 DEF Init, ServerTypeOK
<1>3. Where /\ Reported /\ Served
  BY <1>1 DEF Init, FetchInit, Where, Reported, Served
<1>4. ZeroMeansDone /\ AppTagReleased
  BY <1>1 DEF Init, ZeroMeansDone, AppTagReleased, NoExit
<1> QED BY <1>2, <1>3, <1>4, <1>5 DEF ProgramInv

(* A validation that has begun goes on, about the same Data. *)
LEMMA FetchGoesOn == FetchStep => vpc # "idle" /\ vpc' # "idle" /\ chain' = chain
BY DEF FetchStep, continueValidation, FindUnverified, doFetch, setTag, nsSuccessCallback,
       nsFailCallback, NsThrows, dataCallback, Unanswered, End

(* While the program runs its validation nothing else changes. *)
LEMMA ValidationKeeps == ProgramInv /\ Validation => ProgramInv'
<1>1. SUFFICES ASSUME ProgramInv, Validation PROVE ProgramInv'
  OBVIOUS
<1>2. /\ vpc # "idle" /\ vpc' # "idle" /\ chain' = chain /\ pc = "loop" /\ ~stopped
      /\ UNCHANGED <<me, pc, cq, atag, apps, denied, m_hasError, stopped, exit, runs, ver,
                     toServer, stored, replies, asked>>
  BY <1>1, FetchGoesOn DEF Validation, clientVars
<1>3. ClientTypeOK' /\ ServerTypeOK' /\ Served'
  BY <1>1, <1>2 DEF ProgramInv, ClientTypeOK, ServerTypeOK, Served
<1>4. Where' /\ Reported'
  BY <1>1, <1>2 DEF ProgramInv, Where, Reported
<1>5. ZeroMeansDone' /\ AppTagReleased'
  BY <1>1, <1>2 DEF ProgramInv, Where, ZeroMeansDone, AppTagReleased, NoExit
<1> QED BY <1>3, <1>4, <1>5 DEF ProgramInv
(* A step that leaves the server and the network alone keeps what is known  *)
(* of them.                                                                 *)
LEMMA ServerKeeps ==
  ProgramInv /\ UNCHANGED <<netVars, runs>> => ServerTypeOK' /\ Served'
BY DEF ProgramInv, netVars, ServerTypeOK, Served

(* A program that exits with an error is not bound by ZeroMeansDone. *)
LEMMA ErrorExits ==
  ASSUME ProgramInv, \/ onException \/ DigThrows \/ UpdateThrows
  PROVE  ProgramInv'
<1>1. /\ me # "app" /\ pc = "loop" /\ pc' = "exited" /\ exit' = 1 /\ cq' \in {cq, "threw"}
      /\ m_hasError' \in {m_hasError, TRUE, m_hasError \/ me = "dig"}
      /\ UNCHANGED <<me, atag, apps, denied, stopped, runs, ver, netVars, asked, fetchVars>>
  BY DEF onException, DigThrows, UpdateThrows, Exit, Question!Throw
<1>2. ServerTypeOK' /\ Served'
  BY <1>1, ServerKeeps
<1>3. ClientTypeOK'
  BY <1>1 DEF ProgramInv, ClientTypeOK
<1>4. Where' /\ Reported' /\ ZeroMeansDone' /\ AppTagReleased'
  BY <1>1 DEF Where, Reported, ZeroMeansDone, AppTagReleased
<1> QED BY <1>2, <1>3, <1>4 DEF ProgramInv

(* Options that are refused end a program that has asked nothing. *)
LEMMA RefuseKeeps ==
  ASSUME ProgramInv, pc = "main", me # "app", NEW c \in {0, 1}, Refuse(c)
  PROVE  ProgramInv'
<1>1. /\ pc' = "exited" /\ exit' = c
      /\ UNCHANGED <<me, cq, atag, apps, denied, m_hasError, stopped, runs, ver, netVars, asked, fetchVars>>
  BY DEF Refuse, Exit
<1>2. ServerTypeOK' /\ Served'
  BY <1>1, ServerKeeps
<1>3. ClientTypeOK'
  BY <1>1 DEF ProgramInv, ClientTypeOK
<1>4. ~asked'
  BY <1>1 DEF ProgramInv, Where
<1>5. Where' /\ Reported' /\ ZeroMeansDone' /\ AppTagReleased'
  BY <1>1, <1>4 DEF Where, Reported, ZeroMeansDone, AppTagReleased
<1> QED BY <1>2, <1>3, <1>5 DEF ProgramInv

(* ndns-dig begins to wait for its answer. *)
LEMMA DigOptionsKeeps ==
  ASSUME ProgramInv, NEW o \in DigArgs, DigOptions(o)
  PROVE  ProgramInv'
<1>1. me = "dig" /\ pc = "main"
  BY DEF DigOptions
<1>2. CASE Refuse(0) \/ Refuse(1)
  BY <1>1, <1>2, RefuseKeeps
<1>3. CASE Question!Start /\ pc' = "loop" /\ asked' = TRUE
           /\ UNCHANGED <<atag, apps, denied, m_hasError, stopped, exit, runs, ver, netVars, fetchVars>>
  <2>1. cq' = "running" /\ me' = me
    BY <1>3 DEF Question!Start
  <2>2. ServerTypeOK' /\ Served'
    BY <1>3, ServerKeeps
  <2>3. ClientTypeOK'
    BY <1>3, <2>1 DEF ProgramInv, ClientTypeOK
  <2>4. exit' = NoExit /\ vpc' = "idle" /\ ~stopped'
    BY <1>1, <1>3 DEF ProgramInv, Where, fetchVars
  <2>5. Where' /\ Reported' /\ ZeroMeansDone' /\ AppTagReleased'
    BY <1>1, <1>3, <2>1, <2>4 DEF Where, Reported, ZeroMeansDone, AppTagReleased, NoExit
  <2> QED BY <2>2, <2>3, <2>5 DEF ProgramInv
<1> QED BY <1>2, <1>3 DEF DigOptions

(* ndns-update sends its Data. *)
LEMMA UpdateOptionsKeeps ==
  ASSUME ProgramInv, NEW o \in UpdArgs, UpdateOptions(o)
  PROVE  ProgramInv'
<1>1. me = "update" /\ pc = "main"
  BY DEF UpdateOptions
<1>2. CASE Refuse(0) \/ Refuse(1)
  BY <1>1, <1>2, RefuseKeeps
<1>3. CASE /\ pc' = "loop" /\ asked' = TRUE /\ runs' = runs + 1
           /\ ver' = (IF o.file THEN 1 ELSE runs + 1)
           /\ start(ver')
           /\ UNCHANGED <<me, atag, apps, denied, m_hasError, stopped, exit, stored, replies, fetchVars>>
  <2>1. cq' = "running" /\ toServer' = toServer \cup {ver'}
    BY <1>3 DEF start
  <2>2. runs \in Nat /\ runs < MaxRuns /\ runs' \in 0 .. MaxRuns /\ ver' \in 1 .. runs'
    BY <1>1, <1>3 DEF ProgramInv, Where, ClientTypeOK
  <2>3. ServerTypeOK' /\ Served'
    BY <1>3, <2>1, <2>2 DEF ProgramInv, ServerTypeOK, Served
  <2>4. ClientTypeOK'
    BY <1>3, <2>1, <2>2 DEF ProgramInv, ClientTypeOK
  <2>5. exit' = NoExit /\ vpc' = "idle" /\ ~stopped'
    BY <1>1, <1>3 DEF ProgramInv, Where, fetchVars
  <2>6. Where' /\ Reported' /\ ZeroMeansDone' /\ AppTagReleased'
    BY <1>1, <1>3, <2>1, <2>5 DEF Where, Reported, ZeroMeansDone, AppTagReleased, NoExit
  <2> QED BY <2>3, <2>4, <2>6 DEF ProgramInv
<1> QED BY <1>2, <1>3 DEF UpdateOptions

(* The answer to a query or an update is validated. *)
LEMMA AnswerKeeps ==
  ASSUME FetchInv, ProgramInv, DigOnSucceed \/ UpdateOnData \/ onQuerySuccessCallback
  PROVE  ProgramInv'
<1>1. /\ pc = "loop" /\ cq = "running" /\ cq' = "succeeded" /\ vpc' = "checking" /\ chain' = chain
      /\ UNCHANGED <<me, pc, atag, apps, denied, stopped, exit, runs, ver, netVars, asked>>
  BY DEF DigOnSucceed, UpdateOnData, onQuerySuccessCallback, Question!Succeed, validate
<1>2. m_hasError' \in BOOLEAN
  BY DEF DigOnSucceed, UpdateOnData, onQuerySuccessCallback, ProgramInv, ClientTypeOK
<1>3. ServerTypeOK' /\ Served'
  BY <1>1, ServerKeeps
<1>4. ClientTypeOK'
  BY <1>1, <1>2 DEF ProgramInv, ClientTypeOK
<1>5. Where' /\ ZeroMeansDone' /\ AppTagReleased'
  BY <1>1 DEF ProgramInv, Where, ZeroMeansDone, AppTagReleased, NoExit
<1>6. me = "update" /\ ~m_hasError' => chain.forged \/ stored >= ver
  <2>1. SUFFICES ASSUME me = "update", ~m_hasError', ~chain.forged PROVE stored >= ver
    OBVIOUS
  <2>2. UpdateOnData
    BY <2>1 DEF DigOnSucceed, onQuerySuccessCallback
  <2>3. "OK" \in Answers
    BY <2>1, <2>2 DEF UpdateOnData, Received
  <2>4. PICK r \in replies : r.ver = ver /\ r.ret = "OK"
    BY <2>3 DEF Answers
  <2> QED BY <2>4 DEF ProgramInv, Served, ServerTypeOK, ClientTypeOK
<1>7. Reported'
  <2>1. me # "app" => ~stopped
    BY <1>1 DEF ProgramInv, Reported, ClientTypeOK
  <2>2. UNCHANGED <<stored, ver, stopped, me, pc, chain>>
    BY <1>1 DEF netVars
  <2> QED BY <1>1, <1>6, <2>1, <2>2 DEF Reported
<1> QED BY <1>3, <1>4, <1>5, <1>7 DEF ProgramInv
(* A question that fails is an error. *)
LEMMA FailKeeps ==
  ASSUME ProgramInv, DigOnFail \/ UpdateOnTimeout
  PROVE  ProgramInv'
<1>1. /\ me # "app" /\ pc = "loop" /\ cq = "running" /\ cq' = "failed"
      /\ m_hasError' = TRUE /\ stopped' = TRUE
      /\ UNCHANGED <<me, pc, atag, apps, denied, exit, runs, ver, netVars, asked, fetchVars>>
  BY DEF DigOnFail, UpdateOnTimeout, Question!Fail
<1>2. ServerTypeOK' /\ Served'
  BY <1>1, ServerKeeps
<1>3. ClientTypeOK'
  BY <1>1 DEF ProgramInv, ClientTypeOK
<1>4. Where' /\ ZeroMeansDone' /\ AppTagReleased'
  BY <1>1 DEF ProgramInv, Where, ZeroMeansDone, AppTagReleased, NoExit
<1>5. Reported'
  BY <1>1 DEF ProgramInv, Reported, fetchVars
<1> QED BY <1>2, <1>3, <1>4, <1>5 DEF ProgramInv

(* The verdict is kept in m_hasError. *)
LEMMA VerdictKeeps ==
  ASSUME ProgramInv, onVerdict
  PROVE  ProgramInv'
<1>1. /\ me # "app" /\ pc = "loop" /\ vpc = "over" /\ stopped' = TRUE
      /\ m_hasError' = (m_hasError \/ ~Accepted)
      /\ UNCHANGED <<me, pc, cq, atag, apps, denied, exit, runs, ver, netVars, asked, fetchVars>>
  BY DEF onVerdict
<1>2. ServerTypeOK' /\ Served'
  BY <1>1, ServerKeeps
<1>3. m_hasError' \in BOOLEAN /\ (~m_hasError' => ~m_hasError /\ Accepted)
  BY <1>1
<1>4. ClientTypeOK'
  BY <1>1, <1>3 DEF ProgramInv, ClientTypeOK
<1>5. Where' /\ ZeroMeansDone' /\ AppTagReleased'
  BY <1>1 DEF ProgramInv, Where, ZeroMeansDone, AppTagReleased, NoExit
<1>6. UNCHANGED <<vpc, verdicts, chain, stored, ver>>
  BY <1>1 DEF fetchVars, netVars
<1>7. Reported'
  BY <1>1, <1>3, <1>6 DEF ProgramInv, Reported, Accepted
<1> QED BY <1>2, <1>4, <1>5, <1>7 DEF ProgramInv

(* A loop that returns without m_hasError has seen the answer accepted. *)
LEMMA ReturnKeeps ==
  ASSUME FetchInv, ProgramInv, Return
  PROVE  ProgramInv'
<1>1. /\ me # "app" /\ pc = "loop" /\ (Pending => stopped)
      /\ pc' = "exited" /\ exit' = (IF m_hasError THEN 1 ELSE 0)
      /\ UNCHANGED <<me, cq, atag, apps, denied, m_hasError, stopped, runs, ver, netVars, asked, fetchVars>>
  BY DEF Return, Exit
<1>2. ServerTypeOK' /\ Served'
  BY <1>1, ServerKeeps
<1>3. ClientTypeOK'
  BY <1>1 DEF ProgramInv, ClientTypeOK
<1>4. Where' /\ Reported' /\ AppTagReleased'
  BY <1>1 DEF Where, Reported, AppTagReleased
<1>5. ASSUME ~m_hasError
      PROVE  Accepted /\ ~chain.forged /\ (me = "update" => stored >= ver)
  <2>1. vpc # "idle" \/ cq = "running"
    BY <1>1, <1>5 DEF ProgramInv, Reported
  <2>2. Pending
    BY <2>1, NoVerdict DEF Pending, FetchInv, FetchSaid
  <2>3. Accepted
    BY <1>1, <1>5, <2>2 DEF ProgramInv, Reported
  <2>4. vpc = "over" /\ ~chain.forged
    BY <2>3, NoVerdict DEF Accepted, FetchInv, FetchSaid
  <2> QED BY <1>1, <1>5, <2>3, <2>4 DEF ProgramInv, Reported
<1>6. UNCHANGED <<verdicts, chain, stored, ver, me>>
  BY <1>1 DEF fetchVars, netVars
<1>7. ZeroMeansDone'
  BY <1>1, <1>5, <1>6 DEF ZeroMeansDone, Accepted
<1> QED BY <1>2, <1>3, <1>4, <1>7 DEF ProgramInv

(* The newer of two versions. *)
LEMMA MaxOfTwo ==
  ASSUME NEW a \in Nat, NEW b \in Nat
  PROVE  Max({a, b}) \in {a, b} /\ Max({a, b}) >= a /\ Max({a, b}) >= b
<1>1. \E x \in {a, b} : \A y \in {a, b} : x >= y
  OBVIOUS
<1> QED BY <1>1 DEF Max

(* The server confirms what it stores, and its version only grows. *)
LEMMA ServerKeepsAll ==
  ASSUME ProgramInv, NEW v \in toServer, ServerUpdate(v)
  PROVE  ProgramInv'
<1>1. /\ toServer' = toServer \ {v} /\ stored' = Max({stored, v})
      /\ replies' = replies \cup {[ver |-> v, ret |-> IF v > stored THEN "OK" ELSE "FAILURE"]}
      /\ UNCHANGED <<me, pc, cq, atag, apps, denied, m_hasError, stopped, exit, runs, ver, asked, fetchVars>>
  BY DEF ServerUpdate
<1>2. v \in 1 .. runs /\ stored \in 0 .. runs /\ runs \in Nat /\ ver \in Nat
  BY DEF ProgramInv, ServerTypeOK, ClientTypeOK
<1>3. stored' \in {stored, v} /\ stored' >= stored /\ stored' >= v
  BY <1>1, <1>2, MaxOfTwo
<1>4. ClientTypeOK' /\ Where' /\ AppTagReleased'
  BY <1>1 DEF ProgramInv, ClientTypeOK, Where, AppTagReleased, fetchVars
<1>5. ServerTypeOK'
  BY <1>1, <1>2, <1>3 DEF ProgramInv, ServerTypeOK
<1>6. Served'
  <2>1. SUFFICES ASSUME NEW r \in replies', r.ret = "OK" PROVE r.ver =< stored'
    BY DEF Served
  <2>2. CASE r \in replies
    BY <1>2, <1>3, <2>1, <2>2 DEF ProgramInv, Served, ServerTypeOK
  <2>3. CASE r \notin replies
    BY <1>1, <1>2, <1>3, <2>1, <2>3
  <2> QED BY <2>2, <2>3
<1>7. Reported' /\ ZeroMeansDone'
  <2>1. stored >= ver => stored' >= ver
    BY <1>2, <1>3
  <2>2. UNCHANGED <<vpc, verdicts, chain>>
    BY <1>1 DEF fetchVars
  <2> QED BY <1>1, <2>1, <2>2 DEF ProgramInv, Reported, ZeroMeansDone, Accepted
<1> QED BY <1>4, <1>5, <1>6, <1>7 DEF ProgramInv

(* A new process of ndns-update. *)
LEMMA RunAgainKeeps ==
  ASSUME ProgramInv, RunAgain
  PROVE  ProgramInv'
<1>1. /\ me = "update" /\ pc' = "main" /\ exit' = NoExit /\ cq' = "new" /\ m_hasError' = FALSE
      /\ stopped' = FALSE /\ vpc' = "idle" /\ asked' = FALSE /\ runs < MaxRuns
      /\ UNCHANGED <<me, atag, apps, denied, runs, ver, netVars, chain>>
  BY DEF RunAgain
<1>2. ServerTypeOK' /\ Served'
  BY <1>1, ServerKeeps
<1>3. ClientTypeOK'
  BY <1>1 DEF ProgramInv, ClientTypeOK
<1>4. Where' /\ Reported' /\ ZeroMeansDone' /\ AppTagReleased'
  BY <1>1 DEF Where, Reported, ZeroMeansDone, AppTagReleased, NoExit
<1> QED BY <1>2, <1>3, <1>4 DEF ProgramInv

(* The steps of an application before its answer. *)
LEMMA AppGoesOn ==
  ASSUME ProgramInv, AppStart \/ AppFetch \/ AppSetTag
  PROVE  ProgramInv'
<1>1. /\ me = "app" /\ pc # "exited" /\ pc' \in {"fetch", "starting", "loop"}
      /\ cq' \in {cq, "running"} /\ atag' \in {atag, TRUE} /\ asked' \in {asked, TRUE}
      /\ UNCHANGED <<me, denied, m_hasError, stopped, exit, runs, ver, netVars, fetchVars>>
  BY DEF AppStart, AppFetch, AppSetTag
<1>2. apps' \in 0 .. MaxApps /\ apps' > 0
  BY DEF AppStart, AppFetch, AppSetTag, ProgramInv, ClientTypeOK, Where
<1>3. ServerTypeOK' /\ Served'
  BY <1>1, ServerKeeps
<1>4. ClientTypeOK'
  <2>1. atag' \in BOOLEAN /\ asked' \in BOOLEAN
    BY DEF AppStart, AppFetch, AppSetTag, ProgramInv, ClientTypeOK
  <2>2. cq' \in {"new", "running", "succeeded", "failed", "threw"}
    BY <1>1 DEF ProgramInv, ClientTypeOK
  <2> QED BY <1>1, <1>2, <2>1, <2>2 DEF ProgramInv, ClientTypeOK
<1>5. exit' = NoExit
  BY <1>1 DEF ProgramInv, Where
<1>6. Where' /\ Reported' /\ ZeroMeansDone' /\ AppTagReleased'
  BY <1>1, <1>2, <1>5 DEF Where, Reported, ZeroMeansDone, AppTagReleased, NoExit
<1> QED BY <1>3, <1>4, <1>6 DEF ProgramInv

(* An application that fails lets its query go, unless an exception ends it. *)
LEMMA AppFails ==
  ASSUME ProgramInv, onQueryFailCallback \/ AppThrows \/ onValidationFailCallback
  PROVE  ProgramInv'
<1>1. /\ me = "app" /\ pc' = "exited" /\ exit' \in {1, Crash}
      /\ cq' \in {cq, "failed", "threw"} /\ atag' \in {atag, FALSE}
      /\ "threw" \notin {vpc', cq'} => atag' = FALSE
      /\ UNCHANGED <<me, apps, denied, m_hasError, stopped, runs, ver, netVars, asked, fetchVars>>
  BY DEF onQueryFailCallback, AppThrows, onValidationFailCallback, Exit, Question!Fail,
         Question!Throw, fetchVars
<1>2. ServerTypeOK' /\ Served'
  BY <1>1, ServerKeeps
<1>3. ClientTypeOK'
  BY <1>1 DEF ProgramInv, ClientTypeOK
<1>4. Where' /\ Reported' /\ ZeroMeansDone' /\ AppTagReleased'
  BY <1>1 DEF Where, Reported, ZeroMeansDone, AppTagReleased, Crash
<1> QED BY <1>2, <1>3, <1>4 DEF ProgramInv

(* An application certificate that is good is used, or the next is fetched. *)
LEMMA AppTakes ==
  ASSUME FetchInv, ProgramInv, onValidationSuccessCallback
  PROVE  ProgramInv'
<1>1. /\ me = "app" /\ pc = "loop" /\ vpc = "over" /\ Accepted /\ atag' = FALSE /\ apps' = apps - 1
      /\ vpc' = "idle" /\ chain' = chain /\ cq' \in {cq, "new"}
      /\ \/ pc' = "exited" /\ exit' = 1
         \/ pc' = "exited" /\ exit' = 0 /\ ~denied
         \/ pc' = "fetch" /\ apps' > 0 /\ exit' = exit
      /\ UNCHANGED <<me, denied, m_hasError, stopped, runs, ver, netVars, asked>>
  BY DEF onValidationSuccessCallback, Exit
<1>2. ServerTypeOK' /\ Served'
  BY <1>1, ServerKeeps
<1>3. apps' \in 0 .. MaxApps /\ exit = NoExit
  BY <1>1 DEF ProgramInv, ClientTypeOK, Where
<1>4. ClientTypeOK'
  BY <1>1, <1>3 DEF ProgramInv, ClientTypeOK
<1>5. ~chain.forged
  BY <1>1 DEF Accepted, FetchInv, FetchSaid
<1>6. Where' /\ Reported' /\ AppTagReleased'
  BY <1>1, <1>3 DEF Where, Reported, AppTagReleased
<1>7. ZeroMeansDone'
  BY <1>1, <1>3, <1>5 DEF ZeroMeansDone, NoExit
<1> QED BY <1>2, <1>4, <1>6, <1>7 DEF ProgramInv

(* Every step keeps the invariant of the programs. *)
LEMMA ProgramStep == FetchInv /\ ProgramInv /\ [Next]_vars => ProgramInv'
<1>1. SUFFICES ASSUME FetchInv, ProgramInv, [Next]_vars PROVE ProgramInv'
  OBVIOUS
<1>2. CASE Validation
  BY <1>1, <1>2, ValidationKeeps
<1>3. CASE \/ onVerdict \/ onException \/ Return \/ DigOnSucceed \/ DigOnFail \/ DigThrows
           \/ UpdateOnData \/ UpdateThrows \/ UpdateOnTimeout
  BY <1>1, <1>3, VerdictKeeps, ErrorExits, ReturnKeeps, AnswerKeeps, FailKeeps
<1>4. CASE \/ AppStart \/ AppFetch \/ AppSetTag \/ onQuerySuccessCallback \/ onQueryFailCallback
           \/ AppThrows \/ onValidationSuccessCallback \/ onValidationFailCallback
  BY <1>1, <1>4, AppGoesOn, AnswerKeeps, AppFails, AppTakes
<1>5. CASE \E o \in DigArgs : DigOptions(o)
  BY <1>1, <1>5, DigOptionsKeeps
<1>6. CASE \E o \in UpdArgs : UpdateOptions(o)
  BY <1>1, <1>6, UpdateOptionsKeeps
<1>7. CASE \E v \in toServer : ServerUpdate(v)
  BY <1>1, <1>7, ServerKeepsAll
<1>8. CASE RunAgain
  BY <1>1, <1>8, RunAgainKeeps
<1>9. CASE UNCHANGED vars
  BY <1>1, <1>9 DEF vars, clientVars, fetchVars, ProgramInv, ClientTypeOK, ServerTypeOK, Where,
     Reported, Served, ZeroMeansDone, AppTagReleased, Accepted
<1> QED BY <1>1, <1>2, <1>3, <1>4, <1>5, <1>6, <1>7, <1>8, <1>9 DEF Next, LoopStep

(* ProgramInv holds throughout. *)
LEMMA ProgramAlways == Spec => [](FetchInv /\ ProgramInv)
<1>1. Init => FetchInv /\ ProgramInv
  BY FetchInitInv, ProgramInitInv DEF Init
<1>2. FetchInv /\ ProgramInv /\ [Next]_vars => (FetchInv /\ ProgramInv)'
  BY ClientInv, ProgramStep
<1> QED BY <1>1, <1>2, PTL DEF Spec

(* Every variable of the validation and of the programs has its type,       *)
(* whatever the options and however often ndns-update is run.               *)
THEOREM ClientsTypeCorrect == Spec => []TypeOK
<1>1. FetchInv /\ ProgramInv => TypeOK
  BY TypeParts DEF FetchInv, ProgramInv
<1> QED BY <1>1, ProgramAlways, PTL

(* An exit code of 0 after a question means that the answer is validated    *)
(* and the zone's, that an update is stored, and that an application        *)
(* certificate exists: every other end of ndns-dig and ndns-update has set  *)
(* m_hasError or thrown.                                                    *)
THEOREM ZeroExit == Spec => []ZeroMeansDone
<1>1. FetchInv /\ ProgramInv => ZeroMeansDone
  BY DEF ProgramInv
<1> QED BY <1>1, ProgramAlways, PTL

(* An application that ends without an exception holds no query, whichever  *)
(* of the callbacks of CertificateFetcherAppCert ended it.                  *)
THEOREM AppQueryReleased == Spec => []AppTagReleased
<1>1. FetchInv /\ ProgramInv => AppTagReleased
  BY DEF ProgramInv
<1> QED BY <1>1, ProgramAlways, PTL
=============================================================================
