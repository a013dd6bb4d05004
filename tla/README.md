# A TLA+ model of NDNS

NDNS is a name service for Named Data Networking.  A zone's records live in one SQLite file;
command-line tools edit them, a daemon answers queries and dynamic updates from them, and
clients walk down a name from zone to zone until they reach the record.  This directory holds
TLA+ modules translated from the source, TLC configurations that check them on small instances,
and TLAPS proofs.  Paths below are relative to the repository.

## 1. Inventory

| component | state | operations | interacts with |
|---|---|---|---|
| Record table, `src/daemon/db-mgr.cpp` | `rrsets`: id, zone, label, type, version, data; unique on zone, label, type, version | one SQL statement per call: find, findLowerBound, findRrsets, insert, update, remove, removeRrsetsOfZoneByType. No transaction anywhere | shared by every tool and the daemon through the file |
| Record commands, `src/mgmt/management-tool.cpp` | locals of the running command | addRrset, addMultiLevelLabelRrset, addRrsetFromFile, removeRrSet; all end in generateDoe | the table |
| DoE chain, `generateDoe` | rows of type DOE, one range per record, and a guard | delete all, read all, sort, insert one by one | read by the daemon for every denial |
| Name server, `src/daemon/name-server.cpp` | the zone id, updates under validation | handleQuery, handleUpdate, doUpdate | the table; the validator's callbacks; clients |
| Iterative query, `src/clients/iterative-query-controller.cpp` | m_step, m_nFinishedComps, m_nTryComps, last link, shared NS cache | start, express, onData, onTimeout, onDataValidated, abort | the face, the validator, its owner's two callbacks |
| Certificate fetchers, `src/validator/` | retries left, a tag that keeps the query alive | doFetch and its callbacks | iterative queries, the validator that called them |
| Programs that ask: `tools/ndns-dig.cpp`, `tools/ndns-update.cpp`, an application's validator | an error flag, one question out | options, callbacks, exit code | a query or the daemon; a validation of the answer |
| Zone lifecycle, createZone and deleteZone | `zones`, `zone_info`, the key chain | several statements each | the table, the daemon's zone id |
| Daemon configuration, `tools/ndns-daemon.cpp` | the name servers it made | processZonesSection at the start | key chain, `zones` |
| Codec, `src/clients/query.cpp`, `response.cpp`, `src/ndns-label.cpp` | none | name layouts of queries, responses, certificates | everyone |
| Factory, `src/daemon/rrset-factory.cpp` | the zone and its key | the packets of records | tools |
| Helpers, listing, export, logging | none of their own | | |

**What is hard here.**  A command is five to a dozen SQL statements and the daemon runs between
any two of them; a process may be killed, or find the file locked, at each.  Rows are addressed by
an id read earlier.  The chain is built by the tools in one order and read by the daemon and the
client in another.  Updates are answered after an asynchronous validation.  The client's progress
hangs on two counters and on what other queries left in the cache.  A query is owned by nothing but a
tag on the validation it serves, and its own callbacks set and remove the tag.  A record's key is
computed in five places from the two ends of a name.  PROJECT.json lists each hazard
at its line with the properties that watch it.

**What makes each part correct.**
Table: one record per label and type; nothing newer replaced by something older; an
acknowledged update is stored.  Chain: no range covers an existing record, an absent record is
denied by a range the client accepts, every change leads to a new chain.  Multi-level labels: an
AUTH record above each.  Daemon: no query brings it down.  Client: one callback, in the end, from
the zone responsible for the record; no false delegation in the cache.  Codec and factory: a
packet is filed under what its name says, decodes without loss, and is an answer to what was asked;
a denial is not taken for a record.  Fetchers: the query lives as long as it runs and no longer, every
retry is used, one verdict.  Programs: exit code 0 can be relied on, and they end.  Daemon: what it
keeps from its start stays right while its zone is there.

## 2. Modules

| module | models | kind |
|---|---|---|
| `NdnsName` | order of names, `Rrset::operator<`, label/type names, `isAbsentByDoe` | operators |
| `Authority` | table, tools, chain, daemon | state machine |
| `RecordStore` | what a zone promises those who use it one operation at a time | abstract specification |
| `AuthorityStore` | the mapping of Authority to RecordStore | refinement |
| `MCAuthority` | names, records and requests of the instances | TLC |
| `IterativeQuery` | the client's controller | state machine, checked directly |
| `QueryService` | what a query promises its owner | abstract specification, implemented by IterativeQuery, used by CertFetch and Clients |
| `Packet` | names, Query, Response, the packets of the factory | operators |
| `Records`, `MCRecords` | a record from the command to the client that reads it | state machine on Packet, TLC |
| `CertFetch` | a validation with CertificateFetcherNdnsCert | part of a state machine |
| `Clients`, `MCClients` | ndns-dig, ndns-update, an application with CertificateFetcherAppCert | state machine on CertFetch, TLC |
| `ZoneLifecycle` | createZone and deleteZone, tables zones, zone_info and rrsets of several zones, key chain | state machine |
| `ZoneDaemon`, `MCZoneLifecycle` | ndns-daemon beside those tools | composition, TLC |
| `Maximum` | least and greatest elements of sets of numbers, the greatest name of a finite set | lemmas |
| `NdnsNameProofs`, `AuthorityProofs`, `StoreProofs` | the order of names; Authority with its denial chain; its refinement | proofs |
| `QueryProofs`, `ClientsProofs`, `ZoneProofs`, `RecordsProofs` | IterativeQuery and its refinement; CertFetch and Clients; ZoneLifecycle and ZoneDaemon; Packet and Records | proofs |

### Authority
One step is one SQL statement of one process.  `tool[t].pc` names the statement tool `t` executes
next and the rest of the record holds the locals of the C++ function (`req` the record given, `i`
the loop index, `old` the row found, `recs` and `left` the sorted vector and what remains of it).
`srv` does the same for the daemon's single thread; `pending` are the updates its validator works
on; `out` is the Data the last step put on the face.  `alone` and `sound` are history
variables: a chain is `sound` from the end of a generateDoe during which no other process touched
the rows until a record comes or goes.

| code | actions |
|---|---|
| ndns-add-rr, label of one component: addRrset | StartAdd, CheckAuth, then the common tail |
| ndns-add-rr, longer label: addMultiLevelLabelRrset | StartAdd, CheckLink (loop), CheckOverride, FindAuth and InsertAuth (loop), common tail |
| ndns-add-rr from a file: addRrsetFromFile | StartAddFromFile, common tail |
| common tail: checkRrsetVersion, insert, generateDoe | CheckRrsetVersion, RemoveOld, InsertRrset, DoeClear, DoeRead, DoeInsert (loop), DoeGuard |
| removeRrSet | StartRemove, FindForRemoval, RemoveRow, DoeClear ... |
| an exception from the unique index; a kill; SQLITE_BUSY | ToolConflict, ToolAbort |
| handleQuery | HandleQuery, DenyQuery |
| handleUpdate, doUpdate | HandleUpdate, RejectUpdate, DoUpdate, DoUpdateReplace, DoUpdateInsert |
| daemon exit, kill and start | DenyQuery without a row, ServerKill, ServerRestart |

Abstractions.  A component is its rank in NDN's canonical order; versions are numbers; a record's
content is its content type, a DoE row also keeps its two ends.  TTLs and signatures are left out.
The version of a DoE row is a timestamp in milliseconds, so the model leaves open whether two rows
of one label collide in the index.  A SELECT on a locked file returns no row, as its callers read
it; a write on a locked file throws, except the UPDATE, whose result nobody reads.  SQLite gives
a new row the largest id plus one.  The three switches Overlap, Kills and Busy say which of these
an instance allows.

*Refinement.*  AuthorityStore maps the table to RecordStore: `Contents` are the rows that are not DoE,
and a row that checkRrsetVersion has removed counts as stored until the INSERT that follows, so that a
replacement is one step; `Answer` is the Data last sent.  `ImplementsStore` then says that a record
gives way only to a newer version, whichever of addRrset, addRrsetFromFile and doUpdate stores it, that a
refused command leaves every record alone that is there (it may have added AUTH records), and that every
answer, denial, confirmation and refusal is true when it is given.  It holds when operations do not overlap
(authority_serial); update_ack_race and update_lost show two ways in which overlap breaks it.

### IterativeQuery
Only lengths matter: the label asked for has `dst.len` components and a zone is the length of its
name.  `dst` also fixes the world: where zones begin, where AUTH records are, where an NS entry
has an unexpected content type.  The initial states range over all of it, and over every content
of the shared cache that earlier queries can have left.  `phase` is where control is: nothing sent,
an Interest outstanding, a Data being validated, over.

*Refinement.*  `QS == INSTANCE QueryService WITH faulty <- dst.faulty, right <- ..., outcome <- Outcome,
answer <- ...`: Outcome is "new" before start(), "running" until a callback or the exception, and the
reported zone is the prefix of m_nFinishedComps components that parseFinalResponse takes.  `Implements`
is QueryService's specification as a property of the controller: all steps between start and the
callback are stutters, failure and exception need a fault, and success names the right zone.  CertFetch
and Clients then use QueryService where the code uses a controller, so that they need not walk
down names.

### Packet and Records
A name is a sequence of ranks, a version is a rank from VersionBase on, a packet is its name, content
type and blocks.  Packet has `matchName` in its two forms (with the size_t subtraction that wraps),
`toInterest`, `fromInterest`, `wireEncode`, `wireDecode`, `fromData`, `toData`, and the factory's five
generators.  Both encoders take the blocks from the last to the first and put each in front of the ones
before (`encodeBlocks` over the library's `prependBlocks`).  Records runs whole commands and queries on a table of such packets: AddRr, AddAppCert,
AddFile, RemoveRr, UpdateRr and UpdateFile, Ask (the daemon's answer, as the controller hands it on and
ndns-dig classifies it), Get, Export, List.  Each of the five ways a key is made (factory, addIdCert,
addRrsetFromFile, ndns-update's file, doUpdate) is translated on its own, and FiledByName says that they
agree.  `given` and `via` in a row are history.  The names and labels given have no empty component, which
would be taken for a missing version.  Interleaving is Authority's subject and is left out here.

### CertFetch and Clients
`vpc` is where the validation is: checking a packet, about to fetch, inside start(), waiting, over.
`tag` is the number of the query the ValidationState holds, `query` the one made last, `nsq` what has
become of it.  Setting the tag is a step of its own after start(), since a query whose delegations are
all cached calls back inside start().  `chain` fixes how many certificates there are, which are routable
without a delegation, whether a name is illegal, whether other validations fill the store of
unverified certificates, whether the network loses or forges, and whether an NS entry on the way of one of
the queries is of an unexpected type (`odd`): such a query does not succeed, and while it runs without a
loss the program is `Endless`.  ServerUpdate is doUpdate with no tool at work, since its races are
Authority's subject (update_ack_race).

| code | actions |
|---|---|
| CertificateFetcherNdnsCert | doFetch, setTag, nsSuccessCallback, nsFailCallback, dataCallback, Unanswered (timeout and NACK) |
| the library's validator and store | validate, continueValidation, FindUnverified (external) |
| ndns-dig | DigOptions, DigOnSucceed, DigOnFail, DigThrows, onVerdict, onException, Return |
| ndns-update | UpdateOptions, UpdateOnData, UpdateThrows, UpdateOnTimeout, and the same three |
| CertificateFetcherAppCert | AppFetch, AppSetTag, onQuerySuccessCallback, onQueryFailCallback, onValidationSuccessCallback, onValidationFailCallback |
| the daemon, as ndns-update sees it; the user | ServerUpdate, RunAgain |

onQueryFailCallback removes the tag, which destroys the query whose callback is running, with the
closure that holds the arguments the next statement reads.  The build decides what happens; the model
allows a reported failure and a crash.

### ZoneLifecycle
One step is one SQL statement, or one group of key chain calls, of one tool; `tool[t].pc` says which
comes next and `tool[t].at` is the zone object with the id it holds.  `inc` numbers the zones
inserted so far; no guard reads it, and it tells a zone from an earlier one with the same name or
id.

| code | actions |
|---|---|
| createZone: preconditions | StartCreate (a refused call changes nothing) |
| the keys: createIdentity, D-key, KSK, DSK with the default key | MakeDkey, MakeKsk, MakeDsk |
| addZone, addIdCert twice, setZoneInfo three times, generateDoe | AddZone, AddIdCert, SetZoneInfo, GenerateDoe |
| deleteZone: find, findRrsets, the loop, removeZone | StartDelete, ReadRrsets, RemoveRrset, FindForRemoval, RemoveZone |
| a kill | Kill |

Abstractions.  A key and its certificate are one; certificates are [use, zone, number].  The DoE
rows of a zone are one row, written in one step, since Authority has them in full.  A step that
finds and then inserts is one step where the unique index makes a second insert throw just as the
find would.  DeleteAlone says that nobody else works on a zone while deleteZone does: without it, a
record inserted after findRrsets outlives the zone and passes to whichever zone is given its id
next (RowsOwn fails).  Two tools may create the same zone at once; the one that loses in addZone
has by then changed the identity's default key, which is why SignerPublished leaves such zones out.

ZoneDaemon adds `servers`, what the daemon's name servers hold: the zone object found at the start and
the certificate chosen.  DaemonStart is processZonesSection with the NameServer constructors,
DaemonExit the exception of a query that finds no DoE row.  ServesOwn is about a zone as long as it is
there: after its deletion the daemon goes on with the old id, and nothing in the code corrects it.

## 3. Runs

| run | instance | shows |
|---|---|---|
| authority_serial | every command, three operations, one at a time; fair | RecordStore is implemented when operations do not overlap; the chain is sound and its denials accepted, the daemon never exits, and every change by a command ends in a sound chain |
| authority_readers | one tool, kills, emptying the zone, queries at any moment | one record of a label and type, AUTH records above every label, and a chain that is sound whenever it is finished, whatever is killed |
| authority_contention | from a zone in use: two tools adding the same two-component label, AUTH timestamps that collide or not, updates, locked file | an undisturbed chain stays sound; AUTH records above, whoever wins |
| query | labels up to four components, with and without faults; fair | right zone, inside the label, true cache, one callback, an end, success without faults; QueryService is implemented |
| zone_lifecycle | two tools, two zones and one that is never made, seven argument lists, three commands, kills, a daemon | no record outlives its zone, zone_info and the signing key are the zone's own, a deletion touches only its zone, a running daemon serves its own zone |
| records | two zone certificates, nine kinds of commands, up to three of them, queries with and without versions | key, name and content of a packet agree from end to end; a denial is told from a record |
| clients | three programs, chains of up to three certificates, one retry, ndns-update run twice, an NS entry of an unexpected type; fair | queries are held while they run and released, all tries used, one verdict, 0 means done, every program exits or waits for a query that met such an entry |

Five more runs are expected to end in a violation.  Each exhibits one disagreement between the
code and a statement in the repository; `findings` in PROJECT.json quotes the line.

| run | what happens |
|---|---|
| doe_order | `std::sort` compares labels before types, the readers compare label/type names; with a label that extends another a range covers a record |
| doe_after_update | a record inserted by an update stays denied by the chain |
| query_during_regeneration | in a zone in use, a query after generateDoe's DELETE finds no DoE row and the daemon exits |
| update_ack_race | UPDATE_OK for an UPDATE that changed no row |
| update_lost | checkRrsetVersion removes a newer version, stored by an update after the comparison |

More disagreements show on other instances of the same modules and are not kept as runs:
deleteZone never touches the key chain, although management-tool.hpp says that it deletes the
identity with its keys and certificates; the rows of zone_info stay behind although the schema says
ON DELETE CASCADE, as foreign keys are never switched on (a zone created to the end replaces them,
one that is not keeps the old ones);
a multi-level add that is refused as a duplicate has already stored AUTH records, which the chain keeps
denying (QuiescentDoeSound fails); when the last record of a zone is removed, generateDoe deletes the chain
and dies at `allRecords.size() - 1`, and the next query ends the daemon (NeverExits fails); and a
controller that has reported a timeout still answers false to hasEnded().

Others met while modelling the codec, the tools and the clients:

- an NS answer that is neither DoE, LINK nor AUTH is logged and changes nothing, so that the same
  Interest is sent again, without end, where iterative-query-controller.hpp:49 has QUERY_STEP_ABORT "to
  abort the resolver process, if unexpected behavior happens" (QS!EndsOnce fails without the exception
  that Terminates makes);
- `ndns-update -n blob -o x` (or key) stores a record without its content, although -o is to "set the content
  of the RR" (ndns-update.cpp:228; ContentsKept is about the other content types);
- listZone asserts one iteration for NS records (management-tool.cpp:467), and a LINK of two delegations
  has two (`times` in List);
- for an AUTH record of a type other than NS, which a file or an update can bring, listZone reads a block
  that is not there;
- the test of `isAbsentByDoe` for a range that wraps around holds of every name, its two ends included; the
  controller asks it only about names the zone has denied, so that nothing comes of it;
- addRrsetFromFile files a packet whose name has no type under an empty label and type (FiledByName);
- addIdCert files a KSK or DSK certificate under the type CERT whatever issuer its name has, so that one
  given to createZone that was issued as, say, "self" is found by a question it does not answer by name
  (hypothesis Issued of AlwaysAnswersName);
- a file may be a NACK around a packet, which the daemon serves as a record and the controller unpacks
  as a denial (hypothesis Unwrapped of AlwaysDenialNotMistaken);
- ndns-add-rr reads its version option into the variable of the TTL, and exportCertificate ignores the
  version of the certificate it is asked for (AddRr, Export);
- ndns-dig sets the timeout after the controller has been built with the old one;
- the daemon looks a configured certificate up in the identity of the zone's name, the default one in
  that name with NDNS appended, which is the identity ndns.conf.sample.in names (IdentityOf, Signer);
- CertificateFetcherAppCert tests for a NACK which the controller has already replaced by the DoE inside
  it; the denial is reported as a malformed certificate;
- iterative-query-controller.hpp:168 says that a query lives as long as the ValidationState; a retry
  that finds the certificate in the store leaves the tag, and with it a cycle of owners (`late` in
  TagReleased), and onQueryFailCallback ends it early (above).

**Bounds.**  MaxOps (two or three commands or updates) is enough for one operation to build what
a second disturbs and a third observes; two tools are enough for every pairwise race, and the
symmetric instances use them as a symmetry set.  Labels have one or two components, so the
multi-level loops run; the zone's certificates give a chain of two ranges to start from.  InUse is the
state with that chain finished and the daemon up, which a behaviour of Spec reaches; authority_contention
and the runs about a zone in use begin there, so that their operations are spent on the race itself.  In the
passing runs the labels are chosen so that the two orders of the chain agree (doe_order shows what
happens otherwise, and the theorem DenialSound has that as its only assumption).  MaxLen = 4 gives
an AUTH record, a cut, an AUTH record and a cut in one label.  Three commands of the
zone lifecycle are a creation, a deletion and a creation that is given the id again.  Three commands of
records are one that stores, one that replaces and one that removes, and the requests have labels of
zero, one and two components, every content type and a name too short for a record.  Chains of
three certificates are one longer than MaxDepth; Retries = 1 lets a first try, a retry and the giving up
happen; two application certificates let a second query follow a first in one ValidationState; two runs
of ndns-update let the answer to the first meet the second.  Deadlock is
checked in authority_serial, authority_readers and records; the other runs switch it off, since
queries and programs end and the commands allowed run out (authority_contention asks no queries, whose
answers would only multiply its states).

**Fairness.**  A running tool executes its next statement, the daemon finishes the event it
is in, and the service manager starts it again (`Restart=on-failure`): weak fairness of
ToolStep, ServerStep and ServerRestart.  Nothing is assumed of users, clients or the validator.
For the client: every Interest is answered or timed out by the face and every validation calls
back, which is what the library promises of both calls.  For the programs (Clients): the event loop
runs what is ready, and a query started ends, as the run query shows, unless it has met an NS entry of an
unexpected type (see above): weak fairness of LoopStep while not Endless; and the server takes the
Interests that reach it.  Of an Endless query nothing is assumed, so that Exits has it as its other
outcome, and nothing is assumed of the user.

## 4. Proofs

Every theorem is about a specification without its fairness, so that it holds of the fair one too.

| theorem | statement |
|---|---|
| **NdnsNameProofs** `LabelOrderIsKeyOrder` | labels in order give label/type names in order, if below a proper prefix the type ranks lower than the next component |
| **AuthorityProofs** `TypeCorrect` | `Spec => [](TypeOK /\ LoopIndex)` |
| `DenialSound`, `DenialsConvince` | `ASSUME OrdersAgree PROVE Spec => []P` for P = DoeSound, DenialAccepted |
| `PrefixesDecide` | a condition on the labels of a zone that implies OrdersAgree |
| **StoreProofs** `RecordsUnique` | `ASSUME OneWriter PROVE Spec => []UniqueRecord` |
| `AuthorityImplementsStore` | `ASSUME Serial PROVE Spec => ImplementsStore`: RecordStore is implemented |
| `DaemonStays` | `ASSUME Undisturbed PROVE Spec => NeverExits` |
| `AuthsAboveInTurn`, `AuthsAboveAtOnce` | `Spec => []AuthClosed`, assuming OwnEntries and one of InTurn, AllAtOnce |
| **QueryProofs** `QueryTypes`, `ZoneAlwaysCorrect`, `AlwaysInsideLabel`, `AlwaysOneCallback`, `CacheAlwaysTrue` | `Spec => []P` of IterativeQuery for P = TypeOK, ZoneCorrect, InsideLabel, OneCallback, CacheTrue |
| `ControllerImplementsService` | `Spec => Implements`: QueryService is implemented |
| **ClientsProofs** `QueryHeld`, `QueryReleased`, `TriesUsed`, `VerdictOnce` | `Spec => []P` of Clients for P = HeldWhileRunning, TagReleased, AllTries, OneVerdict |
| `ClientsTypeCorrect`, `ZeroExit`, `AppQueryReleased` | `Spec => []P` of Clients for P = TypeOK, ZeroMeansDone, AppTagReleased |
| **ZoneProofs** `ZoneTypes` | `DaemonSpec => []TypeOK` |
| `RowsAlwaysOwn`, `InfoAlwaysOwn`, `SignerAlwaysPublished`, `AlwaysServesOwn` | `ASSUME DeleteAlone PROVE DaemonSpec => []P` for P = RowsOwn, InfoOwn, SignerPublished, ServesOwn |
| `AlwaysRemovesOwn` | `ASSUME DeleteAlone PROVE DaemonSpec => RemovesOwn` |
| **RecordsProofs** `MatchInvertsName`, `NameInvertsMatch` | matchName reads from a record's name what generateBaseRrset put into it, and nothing else makes that name |
| `RecordsTypes`, `AlwaysLossless`, `AlwaysContentsKept` | `Spec => []P` of Records for P = TypeOK, Lossless, ContentsKept |
| `AlwaysFiledByName`, `AlwaysAnswersName` | `ASSUME Issued PROVE Spec => []P` for P = FiledByName, AnswersName |
| `AlwaysDenialNotMistaken` | `ASSUME Issued, Unwrapped PROVE Spec => []DenialNotMistaken` |

**Assumptions.**  Those of the constants (ConstantsAssumption, LifecycleAssumption, FetchAssumption,
ClientsAssumption, DaemonAssumption, BoundAssumption, ComponentAssumption, RecordsAssumption) say that requests,
packets and names have the right shape, that the components the code names differ, that names are shorter than
size_t can count, that bounds are numbers, that none of the records given is of type DOE, and that the certificates known at the start are
finitely many; TLC evaluates them in the runs.  Beyond these the proofs hold for every set of tools,
requests, versions, zones and options, for labels of every length, and for every number of retries,
commands and runs.  Some theorems have a further hypothesis, stated with ASSUME, because without it
the property is false of the code:

| hypothesis | says | without it | met by |
|---|---|---|---|
| OrdersAgree | the order of generateDoe's sort is that of the readers on the records that can occur | doe_order | the passing runs of Authority |
| OneWriter | one tool and no update, or no overlap; no locked file | two tools store two versions of one record | authority_readers, authority_serial |
| Serial | no overlap, no locked file, no query for a DOE row; kills are allowed | update_ack_race | authority_serial |
| Undisturbed | no overlap, lock or kill; one certificate of the zone stays | query_during_regeneration; a zone that is emptied | authority_serial |
| OwnEntries | only ndns-add-rr writes the NS entries above its labels, and only it stores those labels in the versions given | a removal or an update takes an AUTH record away | authority_serial, authority_contention |
| InTurn | no overlap or lock; what ndns-add-rr puts at such an entry is a LINK or an AUTH record | a plain record there is taken for neither | authority_serial |
| AllAtOnce | no command removes a record or replaces one by a newer version | a row id given again (below) | authority_contention |
| DeleteAlone | nobody else works on a zone while deleteZone does | a record outlives its zone | zone_lifecycle |
| Issued | the certificates of the zone have CERT before the version, as createZone makes them | a certificate is filed under another key than its name | records |
| Unwrapped | no file is a NACK with a packet inside | the controller unpacks the record | records |

Each inductive invariant was checked by TLC on an instance that meets the hypothesis before it was
proved.

*Maximum.*  Induction over data is out of the prover's reach, so facts that would need it are proved
from the least element of a set of numbers: a counterexample has a least one, and its predecessor is
none.  The greatest of a finite set, the totality of the order of names and the last record of a chain
come from there.

*TypeCorrect.*  TypeOK is not inductive: that `Prefix(t)` is a name needs the loop index to stay
inside the label, and at the hand-over between the two loops it needs to be 1.  TypeInv adds
LoopIndex and OverrideIndex.  One lemma per action, combined in TypeStep.

*DenialSound.*  DoeSound speaks of finished chains only, so DoeInv follows a generateDoe that
nobody has disturbed: after the DELETE there is no range; after the SELECT its rows are those of
the table, up to versions, which an update in place may change (RecsMatch); while it inserts, the
records done precede those left, and the ranges written cover no record (LoopInv).  Row ids are
unique, and every record's key comes from a request, a certificate or a prefix of a request, which
is where OrdersAgree applies.  The two facts about ranges are InnerRangeFree (a record and its
successor) and ClosingRangeFree (the last record round to the first); both rest on the strict
order of names proved in NdnsNameProofs.

*DenialsConvince* is the converse: an absent record has a range, and it is the one findLowerBound
returns.  TableInv says that the table is finite, so that there is a greatest label below the name asked
for, and ChainInv that the chain so far is complete: every record done has a range under its own name, every
range runs between records, and in a finished chain the guard is there and closes the cycle
(Written, Chain).  The range found then reaches
past the name, and isAbsentByDoe accepts it.

*RecordsUnique and AuthorityImplementsStore.*  StoreInv says that ids are given once, that at most one
process is between two statements of a change (Exclusive), and that what a process has read is still so
when it acts on it: the row found is there, older than the request, and the only one of its key
(ToolSees, ServerSees).  Every step of Next then maps to a step of RecordStore or a stutter; the removal
in checkRrsetVersion is a stutter because the row counts as stored until the INSERT, and a kill between
the two is where the abstract store loses the record.

*DaemonStays.*  ExitInv(key), for the certificate that stays, says that a record of this key is there or
about to be again, and that the table has a range at every moment at which the daemon may ask for one.

*AuthsAbove.*  AuthClosed holds of stored records only, so Climbs says for a running command up to which
prefix AUTH records exist: those before the loop index in the second loop, all from
checkRrsetVersion on.  When operations do not overlap, a record may later be put over an AUTH record,
and Checked has what the two loops have found out to exclude it: no LINK at any prefix, no AUTH record at
the NS entry given.  When they do overlap, what was found out may be stale, and
RaceInv needs that nothing is removed at all.  The reason is in the source: a row is removed or updated
by the id read earlier, and SQLite gives a free largest id again, so that a late removal may hit another
row, an AUTH record among them.  Under AllAtOnce an update changes a row in place and keeps its key, and
every AUTH record once written stays.

*The controller.*  QueryInv is the types, Walk (m_nFinishedComps is a zone on the way to the label, and
m_nTryComps has passed AUTH records only), DataTrue (a Data being validated is what the zone asked
has at the name asked), CacheInv and CallsInv.  The refinement needs Walk at the callback, where the
answer is the zone, and at every failure the fault behind it.

*The fetcher.*  FetchInv adds to the types what the four properties leave open: a query runs only while
vpc is "starting" or "waiting", and exactly one of query and Interest is out then (FetchState); while
the certificate is asked for, `tries` is Retries minus what is left, plus one when the Interest is out,
which is what makes AllTries inductive; from dataCallback on the tag is gone (FetchHolds); there is no
verdict before the end, one after it, and "ok" is never said of forged Data (FetchSaid).

*The programs.*  ZeroMeansDone is not inductive, because m_hasError starts as FALSE: Reported says that
in the loop of ndns-dig and ndns-update every end without success has set it, so that a loop that
returns without it has seen the answer accepted; Served says that the server has what it has confirmed,
which carries an OK of an earlier run over to this one; Where says what has happened by the time a
program is somewhere.  The validation of the answer enters only through FetchInv.

*The zones.*  That the number of a zone stays within its bound is a counting argument (Counted): the
zones inserted and the tools about to insert one are no more than the commands started.  OwnInv says
that a row and a line of zone_info carry the number of the zone whose id they have, that a tool between two
statements of createZone holds the zone it has inserted, and that one in deleteZone holds rows of its
zone only; DeleteAlone keeps others from the zone in between.  ServerInv and DaemonInv carry this over to what
the daemon has read: a zone that is still there is the one it found.

*The records.*  Names are compared place by place: Places lists the components of a record's name, Part those
of a getSubName, and MatchInvertsName and NameInvertsMatch follow, in which SizeT is the identity because a label
is shorter than SizeLimit.  Where the subtraction does wrap, for a query that is a version and nothing else, the
label is all that is left of the name (InterestAsks), and what is found under it still begins with the
question.  RowOk is the inductive invariant of a row: its packet is Framed and its name Placed in the zone,
it is Keyed (its name is the one of its key) or Keyless (addRrsetFromFile's empty key), and Told says what the
way it came tells of its content.  There is one lemma for each way a row is made, and ChainRows for the ranges
generateDoe writes, whatever their order.  EncodeKeepsOrder says that blocks taken from the back and put in front
one by one come out as they were, which ContentsKept and Lossless rest on.  FiledByName and Lossless are then facts about one row;
AnswersName and DenialNotMistaken speak of the step that hands something out, and need that the key found
is the key asked for (AskedFor) and that Keyless rows are never asked for, a type being no empty component.

*Only model-checked.*  Liveness (ChainRegenerated, Succeeds, Terminates, Exits), which the prover does
not do.  Every safety property of the passing runs is a theorem.

## 5. Not modelled

TTLs and freshness; signatures and trust rules, of which only the verdict appears; forwarding hints;
the bytes of TLV; file formats, column layout and log output; listAllZones and getZoneDkey, which
print one SELECT; removeRr and setAppContent of Response, which no program calls.  A record of type DOE
is never given by a user.  A daemon that outlives its zone is modelled up to the deletion only.
The controller is not composed with the authority: Records has the answers, IterativeQuery the walk, and
DenialNotMistaken joins them at the last step of a query.

## 6. Plan

1. *Done:* NdnsName, Authority with RecordStore, IterativeQuery with QueryService, ZoneLifecycle with ZoneDaemon, Packet
   and Records, CertFetch and Clients; every safety property a passing run checks is proved, and both
   refinements.
2. `Resolution`: the controller composed with the authority, so that NACKs come from real chains.
