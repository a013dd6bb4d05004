------------------------------ MODULE Clients ------------------------------
(***************************************************************************)
(* The programs that ask: ndns-dig resolves a name, ndns-update sends a    *)
(* record to a zone's server, and an application validates Data with       *)
(* CertificateFetcherAppCert.  Each has an event loop, one question out,   *)
(* and a validation (CertFetch) of the answer, and ends with an exit code. *)
(*                                                                         *)
(* A question of ndns-dig and of the application is a QueryService.  The   *)
(* server of an update and the network around it are here as far as        *)
(* ndns-update can tell: requests and answers are lost, late or repeated.  *)
(***************************************************************************)
EXTENDS CertFetch, FiniteSets, FiniteSetsExt

CONSTANTS
  Users,      \* the programs: of "dig", "update" and "app"
  DigArgs,    \* [help, name, prefix, ttl]
  UpdArgs,    \* [help, content, file, named, cert, identities, defaults, legal]
  MaxApps,    \* bound: application certificates in a chain
  MaxRuns     \* bound: times the user runs ndns-update

ASSUME ClientsAssumption ==
  /\ Users \subseteq {"dig", "update", "app"}
  /\ MaxApps \in Nat /\ MaxRuns \in Nat \ {0}

VARIABLES
  me,          \* the program
  pc,          \* "main", "loop", "starting" or "exited"
  cq,          \* the question: as in QueryService, or "running" for an update
  atag,        \* the application's ValidationState holds the query
  apps,        \* application certificates still to be fetched
  denied,      \* the application certificate asked for does not exist
  m_hasError,
  stopped,     \* stop() has been called
  exit,        \* the exit code, -1 before; 2 is a crash
  runs,        \* times ndns-update has been run
  ver,         \* the version of the Data it sends
  toServer,    \* versions on their way to the server
  stored,      \* the version the server has, 0 for none
  replies,     \* answers of the server on their way: [ver, ret]
  asked        \* history: the program went on past its options

clientVars == <<me, pc, cq, atag, apps, denied, m_hasError, stopped, exit, runs, ver,
                toServer, stored, replies, asked>>
netVars == <<toServer, stored, replies>>
vars == <<fetchVars, clientVars>>

NoExit == -1
Crash == 2

Question ==
  INSTANCE QueryService
    WITH faulty <- chain.faulty, right <- me, outcome <- cq, answer <- me

Init ==
  /\ FetchInit
  /\ me \in Users
  /\ pc = "main" /\ cq = "new" /\ atag = FALSE /\ apps = 0 /\ denied \in BOOLEAN
  /\ m_hasError = FALSE /\ stopped = FALSE /\ exit = NoExit /\ asked = FALSE
  /\ runs = 0 /\ ver = 0 /\ toServer = {} /\ stored = 0 /\ replies = {}
  /\ denied => me = "app"

(* The query under way met an NS entry of an unexpected type: it asks for   *)
(* that entry again and again, until an Interest is lost or refused.        *)
Endless ==
  /\ pc = "loop"
  /\ \/ me # "update" /\ cq = "running" /\ chain.odd = 0
     \/ vpc = "waiting" /\ nsq = "running" /\ level = chain.odd

Exit(code) == pc' = "exited" /\ exit' = code

-----------------------------------------------------------------------------
(* What ndns-dig and ndns-update share. *)

Refuse(code) ==
  /\ Exit(code)
  /\ UNCHANGED <<me, cq, atag, apps, denied, m_hasError, stopped, runs, ver, netVars, asked, fetchVars>>

(* onDataValidated, onDataValidationFailed *)
Accepted == verdicts = <<"ok">>

onVerdict ==
  /\ me # "app" /\ pc = "loop" /\ ~stopped /\ vpc = "over" /\ verdicts # <<>>
  /\ stopped' = TRUE /\ m_hasError' = (m_hasError \/ ~Accepted)
  /\ UNCHANGED <<me, pc, cq, atag, apps, denied, exit, runs, ver, netVars, asked, fetchVars>>

(* An exception that leaves the event loop, from the query or the fetcher:  *)
(* ndns-dig catches it in run(), ndns-update in main.                       *)
onException ==
  /\ me # "app" /\ pc = "loop" /\ ~stopped /\ vpc = "threw"
  /\ Exit(1)
  /\ m_hasError' = (m_hasError \/ me = "dig")
  /\ UNCHANGED <<me, cq, atag, apps, denied, stopped, runs, ver, netVars, asked, fetchVars>>

(* processEvents returns when it was stopped, or has nothing to wait for. *)
Pending == cq = "running" \/ vpc \notin {"idle", "over"} \/ (vpc = "over" /\ verdicts # <<>>)

Return ==
  /\ me # "app" /\ pc = "loop" /\ (Pending => stopped)
  /\ Exit(IF m_hasError THEN 1 ELSE 0)
  /\ UNCHANGED <<me, cq, atag, apps, denied, m_hasError, stopped, runs, ver, netVars, asked, fetchVars>>

-----------------------------------------------------------------------------
(* ndns-dig *)

DigOptions(o) ==
  /\ me = "dig" /\ pc = "main"
  /\ \/ o.help /\ Refuse(0)
     \/ ~o.help /\ ~(o.name /\ o.prefix /\ o.ttl >= 0) /\ Refuse(1)
     \/ /\ ~o.help /\ o.name /\ o.prefix /\ o.ttl >= 0
        /\ Question!Start /\ pc' = "loop" /\ asked' = TRUE
        /\ UNCHANGED <<atag, apps, denied, m_hasError, stopped, exit, runs, ver, netVars, fetchVars>>

(* Mutant: the answer is reported and the program stops. *)
DigOnSucceedUnverified ==
  /\ me = "dig" /\ pc = "loop" /\ chain.odd # 0 /\ Question!Succeed
  /\ stopped' = TRUE
  /\ UNCHANGED <<pc, atag, apps, denied, m_hasError, exit, runs, ver, netVars, asked, fetchVars>>

(* onSucceed: whatever came is printed, and then verified. *)
DigOnSucceed ==
  /\ me = "dig" /\ pc = "loop" /\ chain.odd # 0 /\ Question!Succeed /\ validate
  /\ UNCHANGED <<pc, atag, apps, denied, m_hasError, stopped, exit, runs, ver, netVars, asked>>

DigOnFail ==
  /\ me = "dig" /\ pc = "loop" /\ Question!Fail
  /\ m_hasError' = TRUE /\ stopped' = TRUE
  /\ UNCHANGED <<pc, atag, apps, denied, exit, runs, ver, netVars, asked, fetchVars>>

DigThrows ==
  /\ me = "dig" /\ pc = "loop" /\ Question!Throw
  /\ m_hasError' = TRUE /\ Exit(1)
  /\ UNCHANGED <<atag, apps, denied, stopped, runs, ver, netVars, asked, fetchVars>>

-----------------------------------------------------------------------------
(* ndns-update *)

(* The longest prefix that is an identity with a default certificate. *)
FigureOut(o) ==
  LET able == o.identities \cap o.defaults
  IN  {i \in able : \A j \in able : j =< i}

(* The checks of main, with content from the command line or from a file;   *)
(* legal is a content type that is known, or Data whose name fits the other *)
(* options.                                                                 *)
UpdateAccepted(o) ==
  /\ o.legal /\ ~(o.content /\ o.file)
  /\ o.file \/ (o.named /\ (o.cert \/ FigureOut(o) # {}))

(* NdnsUpdate::start sends the Interest with the Data in its name. *)
start(v) == cq' = "running" /\ toServer' = toServer \cup {v}

(* The Data keeps its version from run to run only when it comes from a     *)
(* file.                                                                    *)
UpdateOptions(o) ==
  /\ me = "update" /\ pc = "main"
  /\ \/ o.help /\ Refuse(0)
     \/ ~o.help /\ ~UpdateAccepted(o) /\ Refuse(1)
     \/ /\ ~o.help /\ UpdateAccepted(o)
        /\ pc' = "loop" /\ asked' = TRUE /\ runs' = runs + 1
        /\ ver' = (IF o.file THEN 1 ELSE runs + 1)
        /\ start(ver')
        /\ UNCHANGED <<me, atag, apps, denied, m_hasError, stopped, exit, stored, replies, fetchVars>>

(* The server: doUpdate, as Authority has it when no tool is at work. *)
ServerUpdate(v) ==
  /\ v \in toServer /\ toServer' = toServer \ {v}
  /\ stored' = Max({stored, v})
  /\ replies' = replies \cup {[ver |-> v, ret |-> IF v > stored THEN "OK" ELSE "FAILURE"]}
  /\ UNCHANGED <<me, pc, cq, atag, apps, denied, m_hasError, stopped, exit, runs, ver, asked, fetchVars>>

(* What comes back: an answer of the server to this Data, of this run or of *)
(* an earlier one; or, forged, anything.                                    *)
Answers == {r.ret : r \in {x \in replies : x.ver = ver}}
Received == IF chain.forged THEN {"OK", "FAILURE"} ELSE Answers

(* onData: the return code is read before the answer is verified. *)
UpdateOnData ==
  /\ me = "update" /\ pc = "loop" /\ cq = "running"
  /\ \E ret \in Received : m_hasError' = (m_hasError \/ ret # "OK")
  /\ cq' = "succeeded" /\ validate
  /\ UNCHANGED <<me, pc, atag, apps, denied, stopped, exit, runs, ver, netVars, asked>>

(* parseResponse throws on what is not an answer to an update. *)
UpdateThrows ==
  /\ me = "update" /\ pc = "loop" /\ cq = "running" /\ chain.forged
  /\ cq' = "threw" /\ Exit(1)
  /\ UNCHANGED <<me, atag, apps, denied, m_hasError, stopped, runs, ver, netVars, asked, fetchVars>>

UpdateOnTimeout ==
  /\ me = "update" /\ pc = "loop" /\ cq = "running" /\ chain.faulty
  /\ cq' = "failed" /\ m_hasError' = TRUE /\ stopped' = TRUE
  /\ UNCHANGED <<me, pc, atag, apps, denied, exit, runs, ver, netVars, asked, fetchVars>>

(* The user runs a command that failed again: a new process. *)
RunAgain ==
  /\ me = "update" /\ pc = "exited" /\ exit = 1 /\ 0 < runs /\ runs < MaxRuns
  /\ pc' = "main" /\ exit' = NoExit /\ cq' = "new" /\ m_hasError' = FALSE /\ stopped' = FALSE
  /\ vpc' = "idle" /\ verdicts' = <<>> /\ tag' = 0 /\ sent' = FALSE /\ nsq' = "new"
  /\ query' = 0 /\ tries' = 0 /\ level' = 0 /\ nRetriesLeft' = Retries /\ late' = FALSE
  /\ asked' = FALSE
  /\ UNCHANGED <<me, atag, apps, denied, runs, ver, netVars, chain>>

-----------------------------------------------------------------------------
(* An application with CertificateFetcherAppCert.  Its own validator and    *)
(* policy are the library's; the fetcher's inner one is CertFetch.          *)

AppStart ==
  /\ me = "app" /\ pc = "main"
  /\ apps' \in 1 .. MaxApps /\ pc' = "fetch" /\ asked' = TRUE
  /\ UNCHANGED <<me, cq, atag, denied, m_hasError, stopped, exit, runs, ver, netVars, fetchVars>>

(* doFetch, in two steps as in CertFetch. *)
AppFetch ==
  /\ me = "app" /\ pc = "fetch"
  /\ pc' = "starting" /\ cq' = "running"
  /\ UNCHANGED <<me, atag, apps, denied, m_hasError, stopped, exit, runs, ver, netVars, asked, fetchVars>>

AppSetTag ==
  /\ me = "app" /\ pc = "starting"
  /\ pc' = "loop" /\ atag' = TRUE
  /\ UNCHANGED <<me, cq, apps, denied, m_hasError, stopped, exit, runs, ver, netVars, asked, fetchVars>>

onQuerySuccessCallback ==
  /\ me = "app" /\ pc = "loop" /\ chain.odd # 0 /\ Question!Succeed /\ validate
  /\ UNCHANGED <<pc, atag, apps, denied, m_hasError, stopped, exit, runs, ver, netVars, asked>>

(* Mutant: the failure is not handed on. *)
onQueryFailSilent ==
  /\ me = "app" /\ pc = "loop" /\ Question!Fail
  /\ atag' = FALSE
  /\ UNCHANGED <<pc, apps, denied, m_hasError, stopped, exit, runs, ver, netVars, asked, fetchVars>>

(* removeTag frees the query whose callback is running, and with it the     *)
(* callback and the arguments that the next statement reads: undefined, so  *)
(* the failure is reported or the program crashes.                          *)
onQueryFailCallback ==
  /\ me = "app" /\ pc = "loop" /\ Question!Fail
  /\ atag' = FALSE /\ (Exit(1) \/ Exit(Crash))
  /\ UNCHANGED <<apps, denied, m_hasError, stopped, runs, ver, netVars, asked, fetchVars>>

AppThrows ==
  /\ me = "app" /\ pc = "loop"
  /\ \/ Question!Throw /\ UNCHANGED fetchVars
     \/ vpc = "threw" /\ UNCHANGED <<me, cq, fetchVars>>
  /\ Exit(1)
  /\ UNCHANGED <<atag, apps, denied, m_hasError, stopped, runs, ver, netVars, asked>>

(* A denial arrives as the DoE, not as the NACK that is tested for, and is  *)
(* refused as a malformed certificate.                                      *)
onValidationSuccessCallback ==
  /\ me = "app" /\ pc = "loop" /\ vpc = "over" /\ Accepted
  /\ atag' = FALSE /\ apps' = apps - 1
  /\ \/ (denied \/ chain.faulty) /\ Exit(1) /\ UNCHANGED cq
     \/ ~denied /\ apps' = 0 /\ Exit(0) /\ UNCHANGED cq
     \/ ~denied /\ apps' > 0 /\ pc' = "fetch" /\ cq' = "new" /\ UNCHANGED exit
  /\ vpc' = "idle" /\ verdicts' = <<>>
  /\ UNCHANGED <<me, denied, m_hasError, stopped, runs, ver, netVars, asked>>
  /\ UNCHANGED <<chain, level, nRetriesLeft, query, nsq, tag, sent, tries, late>>

(* Mutant: the query is not let go. *)
onValidationFailKeeps ==
  /\ me = "app" /\ pc = "loop" /\ vpc = "over" /\ verdicts # <<>> /\ ~Accepted
  /\ Exit(1)
  /\ UNCHANGED <<me, cq, atag, apps, denied, m_hasError, stopped, runs, ver, netVars, asked, fetchVars>>

onValidationFailCallback ==
  /\ me = "app" /\ pc = "loop" /\ vpc = "over" /\ verdicts # <<>> /\ ~Accepted
  /\ atag' = FALSE /\ Exit(1)
  /\ UNCHANGED <<me, cq, apps, denied, m_hasError, stopped, runs, ver, netVars, asked, fetchVars>>

-----------------------------------------------------------------------------
(* The loop of a running program gives the validation its callbacks. *)
Validation == pc = "loop" /\ ~stopped /\ FetchStep /\ UNCHANGED clientVars

LoopStep ==
  \/ Validation \/ onVerdict \/ onException \/ Return
  \/ DigOnSucceed \/ DigOnFail \/ DigThrows
  \/ UpdateOnData \/ UpdateThrows \/ UpdateOnTimeout
  \/ AppFetch \/ AppSetTag \/ onQuerySuccessCallback \/ onQueryFailCallback
  \/ AppThrows \/ onValidationSuccessCallback \/ onValidationFailCallback

Next ==
  \/ \E o \in DigArgs : DigOptions(o)
  \/ \E o \in UpdArgs : UpdateOptions(o)
  \/ AppStart
  \/ LoopStep
  \/ \E v \in toServer : ServerUpdate(v)
  \/ RunAgain

(* The event loop runs what is ready: every Interest is answered or timed   *)
(* out, the server works, and a query ends (Terminates of IterativeQuery)   *)
(* unless it has met an NS entry of an unexpected type: of such a query     *)
(* nothing is assumed.  A user may never start a program.                   *)
Spec ==
  /\ Init /\ [][Next]_vars
  /\ WF_vars(~Endless /\ LoopStep)
  /\ WF_vars(\E v \in toServer : ServerUpdate(v))

-----------------------------------------------------------------------------
(* Every variable has its type. *)
TypeOK ==
  /\ FetchTypeOK
  /\ me \in Users /\ pc \in {"main", "fetch", "starting", "loop", "exited"}
  /\ cq \in {"new", "running"} \cup Question!Ended
  /\ {atag, denied, m_hasError, stopped, asked} \subseteq BOOLEAN
  /\ apps \in 0 .. MaxApps /\ exit \in {NoExit, 0, 1, Crash}
  /\ runs \in 0 .. MaxRuns /\ ver \in 0 .. runs /\ stored \in 0 .. runs
  /\ toServer \subseteq 1 .. runs
  /\ replies \subseteq [ver : 1 .. runs, ret : {"OK", "FAILURE"}]

(* An exit code of 0 can be relied on: the answer was validated, and it is  *)
(* the zone's; an update is stored; the application certificate exists.     *)
(* m_hasError starts as FALSE and the loop also returns when nothing is     *)
(* left to wait for, so that every way a query, a fetch or a validation can *)
(* end has to be reported (ndns-dig.cpp:315, ndns-update.cpp:400).          *)
ZeroMeansDone ==
  exit = 0 /\ asked =>
    /\ ~chain.forged
    /\ me # "app" => Accepted
    /\ me = "app" => ~denied
    /\ me = "update" => stored >= ver

(* An application's validation that has ended holds no query, whichever of  *)
(* the four callbacks ended it; exceptions apart.                           *)
AppTagReleased ==
  me = "app" /\ exit \in {0, 1} /\ "threw" \notin {vpc, cq} => ~atag

(* Every program that has asked its question exits, through retries, losses *)
(* and refusals, or comes to wait for a query that asks for an NS entry of  *)
(* an unexpected type again and again (iterative-query-controller.cpp:142). *)
Exits == pc = "loop" ~> (pc = "exited" \/ Endless)
=============================================================================
