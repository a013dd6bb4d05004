----------------------------- MODULE CertFetch -----------------------------
(***************************************************************************)
(* A validation by NdnsValidatorBuilder's validator, with                  *)
(* CertificateFetcherNdnsCert fetching the certificates it asks for: for   *)
(* each one a query for the delegation of its zone, then an Interest for   *)
(* the certificate, sent again while retries are left.                     *)
(*                                                                         *)
(* All of it runs in the owner's event loop.  The callbacks of a query     *)
(* hold a plain pointer to it, and what keeps it alive is a tag on the     *)
(* ValidationState, set when start() has returned; the query's callbacks   *)
(* hold the state, so that only removing the tag frees the two.            *)
(***************************************************************************)
EXTENDS Integers, Sequences, SequencesExt

CONSTANTS
  Retries,    \* CertificateRequest::nRetriesLeft of a new request
  MaxDepth,   \* certificates the validator looks at in one chain
  MaxCerts    \* bound: certificates from the Data to a trusted one

ASSUME FetchAssumption == Retries \in Nat /\ MaxDepth \in Nat /\ MaxCerts \in Nat

VARIABLES
  chain,         \* what is to be validated, and the world around it
  vpc,           \* where the validation is
  level,         \* the certificate being fetched; 0 is the Data itself
  nRetriesLeft,  \* of the request for it
  query,         \* the number of the query made last
  nsq,           \* what has become of that query
  tag,           \* the query the ValidationState holds, 0 for none
  sent,          \* the Interest for the certificate is under way
  verdicts,      \* callbacks made by this validation
  tries,         \* history: Interests sent for this certificate
  late           \* history: a retry found the certificate in the store

fetchVars == <<chain, vpc, level, nRetriesLeft, query, nsq, tag, sent, verdicts, tries, late>>

(* routable: certificates of zones with as many components as the start     *)
(* index; illegal: the certificate whose name holds no NDNS component, 0    *)
(* for none; shared: other validations fill the store of certificates not   *)
(* verified yet; forged: the Data is not the zone's; odd: the certificate   *)
(* whose query meets an NS entry of an unexpected type, 0 for the program's *)
(* own question, NoOdd for none.                                            *)
NoOdd == -1

Chains ==
  {c \in [certs : 0 .. MaxCerts, routable : SUBSET (1 .. MaxCerts), illegal : 0 .. MaxCerts,
          shared : BOOLEAN, faulty : BOOLEAN, forged : BOOLEAN, odd : NoOdd .. MaxCerts] :
     /\ c.routable \subseteq {c.certs} /\ c.illegal =< c.certs
     /\ c.odd =< c.certs /\ c.odd \notin c.routable
     /\ c.forged => c.faulty}

(* The query for the delegation keeps the promises of QueryService. *)
NsQuery ==
  INSTANCE QueryService
    WITH faulty <- chain.faulty, right <- level, outcome <- nsq, answer <- level

FetchInit ==
  /\ chain \in Chains
  /\ vpc = "idle" /\ level = 0 /\ nRetriesLeft = Retries /\ query = 0 /\ nsq = "new"
  /\ tag = 0 /\ sent = FALSE /\ verdicts = <<>> /\ tries = 0 /\ late = FALSE

End(v) == vpc' = "over" /\ verdicts' = Append(verdicts, v)

(* Mutant: the ValidationState of the validation before is used again. *)
validateAgain ==
  /\ vpc' = "checking" /\ level' = 0 /\ nRetriesLeft' = Retries /\ query' = 0 /\ nsq' = "new"
  /\ sent' = FALSE /\ verdicts' = <<>> /\ tries' = 0 /\ late' = FALSE
  /\ UNCHANGED <<chain, tag>>

(* Validator::validate: a ValidationState of its own. *)
validate ==
  /\ vpc' = "checking" /\ level' = 0 /\ nRetriesLeft' = Retries /\ query' = 0 /\ nsq' = "new"
  /\ tag' = 0 /\ sent' = FALSE /\ verdicts' = <<>> /\ tries' = 0 /\ late' = FALSE
  /\ UNCHANGED chain

-----------------------------------------------------------------------------
(* External: the validator.  It checks the policy, gives up at a depth,     *)
(* ends at a trusted certificate with the signatures, or asks for the next  *)
(* certificate.  It refuses what is forged.                                 *)
continueValidation ==
  /\ vpc = "checking"
  /\ \/ chain.faulty /\ End("refused") /\ UNCHANGED <<level, nRetriesLeft, tries>>
     \/ /\ level >= MaxDepth
        /\ End("too deep") /\ UNCHANGED <<level, nRetriesLeft, tries>>
     \/ /\ level < MaxDepth /\ level = chain.certs /\ ~chain.forged
        /\ End("ok") /\ UNCHANGED <<level, nRetriesLeft, tries>>
     \/ /\ level < MaxDepth /\ level < chain.certs
        /\ vpc' = "fetch" /\ level' = level + 1 /\ nRetriesLeft' = Retries /\ tries' = 0
        /\ UNCHANGED verdicts
  /\ UNCHANGED <<chain, query, nsq, tag, sent, late>>

(* External: CertificateFetcher::fetch looks in the store first. *)
FindUnverified ==
  /\ vpc = "fetch" /\ chain.shared
  /\ vpc' = "checking" /\ late' = (late \/ tag # 0)
  /\ UNCHANGED <<chain, level, nRetriesLeft, query, nsq, tag, sent, verdicts, tries>>

-----------------------------------------------------------------------------
(* CertificateFetcherNdnsCert *)

Express == sent' = TRUE /\ tries' = tries + 1

(* doFetch, up to the return of query->start(). *)
doFetch ==
  /\ vpc = "fetch"
  /\ \/ /\ level = chain.illegal            \* calculateDomain throws
        /\ vpc' = "threw" /\ UNCHANGED <<query, nsq, sent, tries>>
     \/ /\ level # chain.illegal /\ level \in chain.routable
        /\ vpc' = "waiting" /\ Express /\ UNCHANGED <<query, nsq>>
     \/ /\ level # chain.illegal /\ level \notin chain.routable
        /\ vpc' = "starting" /\ query' = query + 1 /\ nsq' = "running"
        /\ UNCHANGED <<sent, tries>>
  /\ UNCHANGED <<chain, level, nRetriesLeft, tag, verdicts, late>>

(* Mutant: a tag that is there already is kept. *)
setTagOnce ==
  /\ vpc = "starting" /\ vpc' = "waiting"
  /\ tag' = IF tag = 0 THEN query ELSE tag
  /\ UNCHANGED <<chain, level, nRetriesLeft, query, nsq, sent, verdicts, tries, late>>

(* ... and its last statement. *)
setTag ==
  /\ vpc = "starting" /\ vpc' = "waiting"
  /\ tag' = query
  /\ UNCHANGED <<chain, level, nRetriesLeft, query, nsq, sent, verdicts, tries, late>>

(* The query may succeed inside start(), when the cache holds every         *)
(* delegation on the way.  It never succeeds past an NS entry of an         *)
(* unexpected type, which the controller asks for again and again.          *)
nsSuccessCallback ==
  /\ vpc \in {"starting", "waiting"} /\ level # chain.odd
  /\ NsQuery!Succeed /\ Express
  /\ UNCHANGED <<chain, vpc, nRetriesLeft, query, tag, verdicts, late>>

nsFailCallback ==
  /\ vpc = "waiting"
  /\ NsQuery!Fail /\ Express
  /\ UNCHANGED <<chain, vpc, nRetriesLeft, query, tag, verdicts, late>>

(* An exception of the query goes through the event loop to its owner. *)
NsThrows ==
  /\ vpc = "waiting"
  /\ NsQuery!Throw /\ vpc' = "threw"
  /\ UNCHANGED <<chain, nRetriesLeft, query, tag, sent, verdicts, tries, late>>

(* Mutant: the tag outlives the certificate it was set for. *)
dataCallbackKeeps ==
  /\ vpc = "waiting" /\ sent
  /\ sent' = FALSE /\ vpc' = "checking"
  /\ UNCHANGED <<chain, level, nRetriesLeft, query, nsq, tag, verdicts, tries, late>>

dataCallback ==
  /\ vpc = "waiting" /\ sent
  /\ sent' = FALSE /\ tag' = 0
  /\ \/ chain.faulty /\ End("malformed")
     \/ vpc' = "checking" /\ UNCHANGED verdicts
  /\ UNCHANGED <<chain, level, nRetriesLeft, query, nsq, tries, late>>

(* Mutants: the last retry is not used; the failure is not reported. *)
UnansweredEarly ==
  /\ vpc = "waiting" /\ sent /\ chain.faulty
  /\ sent' = FALSE /\ nRetriesLeft' = nRetriesLeft - 1
  /\ IF nRetriesLeft' > 0
     THEN vpc' = "fetch" /\ UNCHANGED <<tag, verdicts>>
     ELSE tag' = 0 /\ End("unreachable")
  /\ UNCHANGED <<chain, level, query, nsq, tries, late>>

UnansweredSilent ==
  /\ vpc = "waiting" /\ sent /\ chain.faulty
  /\ sent' = FALSE /\ nRetriesLeft' = nRetriesLeft - 1
  /\ vpc' = (IF nRetriesLeft' >= 0 THEN "fetch" ELSE "over")
  /\ tag' = (IF nRetriesLeft' >= 0 THEN tag ELSE 0)
  /\ UNCHANGED <<chain, level, query, nsq, verdicts, tries, late>>

(* nackCallback and timeoutCallback *)
Unanswered ==
  /\ vpc = "waiting" /\ sent /\ chain.faulty
  /\ sent' = FALSE /\ nRetriesLeft' = nRetriesLeft - 1
  /\ IF nRetriesLeft' >= 0
     THEN vpc' = "fetch" /\ UNCHANGED <<tag, verdicts>>
     ELSE tag' = 0 /\ End("unreachable")
  /\ UNCHANGED <<chain, level, query, nsq, tries, late>>

FetchStep ==
  \/ continueValidation \/ FindUnverified \/ doFetch \/ setTag
  \/ nsSuccessCallback \/ nsFailCallback \/ NsThrows
  \/ dataCallback \/ Unanswered

-----------------------------------------------------------------------------
(* Properties. *)

Verdicts == {"ok", "refused", "too deep", "malformed", "unreachable"}

FetchTypeOK ==
  /\ chain \in Chains
  /\ vpc \in {"idle", "checking", "fetch", "starting", "waiting", "over", "threw"}
  /\ level \in 0 .. MaxCerts /\ nRetriesLeft \in -1 .. Retries
  /\ query \in Nat /\ tag \in 0 .. query /\ nsq \in {"new", "running"} \cup NsQuery!Ended
  /\ sent \in BOOLEAN /\ late \in BOOLEAN /\ tries \in Nat
  /\ verdicts \in Seq(Verdicts)

(* The query under way is the one the ValidationState holds, through        *)
(* retries and from one certificate to the next: outside doFetch nothing    *)
(* else keeps it alive (certificate-fetcher-ndns-cert.cpp:72 and 157).      *)
HeldWhileRunning == nsq = "running" /\ vpc # "starting" => tag = query

(* A validation that has ended holds no query: the query's callbacks hold   *)
(* the state, so that nothing would ever free the two.  A retry that finds  *)
(* the certificate in the store is the one way round dataCallback.          *)
TagReleased == vpc = "over" /\ ~late => tag = 0

(* A certificate is asked for Retries + 1 times and no more, and given up   *)
(* only after the last: the counter is decremented before it is tested.     *)
AllTries ==
  /\ tries =< Retries + 1
  /\ vpc = "over" /\ verdicts # <<>> /\ Last(verdicts) = "unreachable" => tries = Retries + 1

(* A validation calls back once, at its end, and its certificate Interest   *)
(* and its query are never under way together.                              *)
OneVerdict ==
  /\ Len(verdicts) = (IF vpc = "over" THEN 1 ELSE 0)
  /\ ~(sent /\ nsq = "running")
  /\ vpc = "waiting" => sent \/ nsq = "running"
=============================================================================
