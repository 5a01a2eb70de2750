# A TLA+ model of ssp

ssp is a SIP load balancer and back-to-back user agent in front of a farm of FreeSWITCH
servers. This directory models its logic in TLA+, checks small instances with TLC and proves
with TLAPS, for every instance, all of the checked safety properties: every invariant, every
action property and both refinements (section 5). Only liveness is left to TLC.
Source lines refer to the files of the repository; `PROJECT.json` maps each definition to
the lines it stands for.

## 1. The system

| Part | State | Operations | Threads and partners |
|---|---|---|---|
| Stateful call control, `ssp-controller.cpp` | `m_transactions` (server/client transaction pairs), `m_dialogs` (leg pairs), `m_mapTerminationAttempts`, `m_mapDialogInfo`, iteration count, retries | INVITEs from carriers (originations) and from FreeSWITCH (terminations), responses, crankback, redirect, CANCEL, BYE, requests in a dialog, session timer, watchdog | all on the sofia-sip event loop; far ends act in any order |
| Stateless proxy, `ssp-controller.cpp`, `sip-inbound-call.h` | `m_mapInvitesInProgress`, `m_deqCompletedCallIds` | forward requests and responses, complete a call, watchdog | same loop |
| Server choice, `fs-monitor.cpp` | `m_nLastServer`, `m_nLastRR` | `getAvailableServers` | called by the controller's thread while the monitor's thread changes the servers |
| Event-socket client, `fs-instance.cpp` | `m_state`, session counts, pending reads and timer, `m_bReloadingXml` | resolve, connect, log in, poll, notices, reconnect, `reloadxml` | monitor's thread, and the statistics thread for `reloadxml` |
| Message framing, `fs-message.cpp` | a partly read message | `append`, `parse`, `reset`, status and profile parsers | called by the event-socket client with whatever TCP delivers |
| Termination routing, `ssp-config.cpp` | current carrier, current trunk and use count of each trunk | next route, route of a carrier, alternative carrier | called by the controller for new calls and crankbacks |
| Call detail records, `cdr-writer.cpp` | queue, shared `CdrInfo` objects, connection, prepared statements, two tables | post, dispatch, five kinds of writes, connection test | one worker thread per writer |
| Configuration file, `ssp-config.cpp` | the maps of one file, filled once | constructor, look-ups | built in the signal handler, read by all threads |
| Reload, `ssp-controller.cpp` | `m_Config`, `m_ConfigNew`, and what is derived from them: retries, statistics port, CDR writer | SIGHUP, validation, installation | signal handler (main or another thread) and watchdog |
| Statistics connector, `nagios-connector.cpp` | none of its own | counters, `reloadxml` | its own thread |

The controller asks the server choice for a server (originations) or the routing for a
trunk (terminations), keeps the two legs of the call paired, and posts CDRs. The monitor
keeps an event-socket client for each server, whose reported state the server choice
reads. The hard behaviour is: far ends that hang up, cancel, answer and re-invite at the
same time; handles (addresses) that are freed and reused while four maps refer to them;
retries and redirects; threads that share the state of a server; messages that TCP cuts and
joins; one CDR object that two threads read and change; database connections that are lost
between two statements; and a signal handler that leaves a configuration to a timer.

`PROJECT.json` lists these hazards with their lines and the properties aimed at them.

## 2. Modules

| Module | Models | Checked by (pass) |
|---|---|---|
| `StatefulController` | the stateful mode | `StatefulSafety`, `StatefulLedger` |
| `SessionEvents` | what is accounted of a call, between controller and CDR writer (abstract) | `StatefulLedger`, by refinement |
| `StatefulControllerProofs` | its inductive invariants: types, maps, look-ups; on top of them CDRs, attempts and sessions; the refinement | TLAPS |
| `StatelessProxy` | the stateless mode | `StatelessCalls` |
| `CallTable` | what the stateless mode promises (abstract) | `StatelessCalls`, by refinement |
| `StatelessProxyProofs` | its inductive invariants and the refinement | TLAPS |
| `FsMonitor` | the choice of a server | `ServerChoice` |
| `FsMonitorProofs` | the scan's invariant | TLAPS |
| `FsInstance` | one event-socket client and the reload thread | `EventSocket` |
| `FsInstanceProofs` | its three inductive invariants | TLAPS |
| `FsMessage` | the framing and parsing of its messages | `MessageFraming` |
| `FsMessageProofs` | what the parser makes of every cut, and the stream's invariant | TLAPS |
| `TerminationRouting` | carriers, trunks and crankback routes | `RoutingTurns` |
| `TerminationRoutingProofs` | its inductive invariant and the trunks' shares | TLAPS |
| `SspConfig` | what is made of a configuration file (operators only) | `ConfigReload`, `RoutingTurns` |
| `ConfigReload` | signal handler, watchdog and installation | `ConfigReload` |
| `ConfigReloadProofs` | its inductive invariants | TLAPS |
| `CdrWriter` | queue, worker, statements and tables | `CdrRecords` |
| `CdrWriterProofs` | losses, inserts and what the tables tell; that it takes every behaviour of `SessionEvents` | TLAPS |

`MCStatefulController`, `MCTerminationRouting` and `MCConfigReload` hold the values of
constants that a configuration file cannot write down (a negative number, records and
sequences). The modules meet in this way: `TerminationRouting` is checked with the turns and
quantities that `SspConfig` computes from a file (`ParsedAssumption` of
`MCTerminationRouting`, which TLC evaluates), and `ConfigReload` extends `SspConfig` and shows
that every installed file satisfies what the routing assumes (`RoutesExist`);
`StatefulController` posts what `SessionEvents` allows and `CdrWriter` takes all that it allows;
`FsInstance` takes from `FsMessage` that a message either is understood or spoils all that
follow; `FsMonitor` sees the servers' states as `FsInstance` may change them. Each module has
its mutants next to the definitions they vary: a property is kept only if a plausible bug
breaks it.

### StatefulController

Handlers run to completion on one event loop, so a handler is one action. Variables with
the prefix `m_` are the controller's members. `legs`, `irqState`, `irqLeg`, `orqMethod` and
`orqLeg` are the part of the transaction layer (sofia-sip's nta, external) that the
controller can observe: which handles exist, what a transaction is for and which leg
`nta_leg_by_dialog` finds. Handles are drawn from finite sets and reused after they are
freed, as addresses are. `cdrs` is the sequence of CDRs posted for a call.

`established` and `forgotten` are about the far ends. `established` says that the far end of a
leg is in a session: a callee from the moment it sends its 200 (`CalleeAnswers`, external),
while that is still under way; a caller when the 200 is sent on to it. If the INVITE ends in
between, by a CANCEL or by the 408 of nta's timers, its leg and its client transaction are
destroyed (`LoseCallee`), and `forgotten` keeps for the call that a 200 is under way which nobody
waits for. nta gives it to the default transaction, where `processRetransmittedResponse` finds no
leg of its Call-ID and sends neither ACK nor BYE: the callee is left in a session. A redirect
and a crankback are answers of the callee itself, so it has sent no 200 (`CalleeRefuses`).

| Action | Code |
|---|---|
| `RejectInvite`, `FailOrigination`, `processOriginationRequest` | 942-1165 |
| `FailTermination`, `processTerminationRequest` | 1166-1249 |
| `InviteResponseUnexpected`, `InviteAnswered`, `InviteRedirected`, `InviteCrankedBack`, `InviteCrankbackFails`, `InviteRejected` | `processInviteResponseInsideDialog`, 1322-1545, by status |
| `Cancel`, `CancelTooLate`, `TimerH` | `processAckOrCancel`, 1546-1597 |
| `Bye`, `ForwardRequest`, `ForwardRequestFails` | `processRequestInsideDialog`, 1598-1674 |
| `ResponseInsideDialog` | 1675-1721 |
| `SessionRefreshTimer` | 1722-1745 |
| `processRetransmittedResponse` | 1746-1767 |
| `ShutDown`, `InstallConfig` | 682-701, 199-222 |

A failing assertion or an unchecked null pointer sets `process` to its line. `TypeOK` types
the state. `Consistent` is the conjunction of seven named parts (no dangling handle, no
lost handle, one-to-one maps, INVITEs paired with INVITEs, a bridge matches its dialog, one
owner of the dialog info, an attempt matches its dialog). `LookupsSucceed` says which
assertions can fail at all. `AttemptsWithinRetries` and `CdrPerAttempt` are about
crankbacks; `CdrLedger`, `NoOrphanSession` and `StoppedClean` about what is left of a call;
`EveryInviteAnswered` about its end. `NoOrphanSession` has two parts: a far end in a session has
a leg, so that a BYE can reach it (`SessionHasLeg`); and where one has been forgotten all the
same, its call was given up, so that nobody talks to it and no CDR says "answered"
(`StraysGivenUp`, for originations: the CDRs of a termination are one for each attempt).

`SessionEvents` is the interface to the CDR writer: per origination the events posted, in which
order they may come, and that the process stops with none owed. `SessionEventsOf` maps the CDRs
of a call to its events; `ImplementsSessionEvents` is the abstract specification under this
mapping. A repeated event would not show there; `CdrLedger` excludes it.

### StatelessProxy

The map, the queue, the iteration counter and the global countdown, with a clock: an
entry's `m_expireTime` is the time that is left of `MAX_RETRANSMISSION_WAIT`. `Inherited`
are calls that an earlier process forwarded before a restart. A request of a known call
takes the forwarding branch whatever its method is, as in the code.

`CallTable` says what this is for: a call is unknown, open, done or expired, it is forgotten
only when it has expired, a straggler makes it wait again, and the process stops only when
all calls are unknown. `TableState` maps an entry of the map to its state;
`ImplementsCallTable` is the abstract specification under this mapping.

### FsMonitor

`getAvailableServers` reads the servers without a lock that would hold off status changes,
so each iteration of its loop is an action and `StatusUpdate` may come between any two.
`chosen` and `steady` are history variables for the properties. What `std::sort` makes of counts that change meanwhile is a free choice of a best element.

### FsInstance

`wire` is what the server has sent and the client not read, `reads` the number of reads
posted. The reload thread's write and its setting of the flag are two actions, since the
monitor's thread can run between them. `Faults` selects what the outside does: shutdown
with a notice, crash without one, split or joined messages, failing resolve, connect,
greeting, authentication and profile query. `UIntMax` is the largest unsigned number, so
that `m_nMaxSessions - 2` wraps. `Dormant` is the state in which no handler will ever run
again; `LeftAloneOnlyAfterFailure` says how it can be reached. `LogsInAgain` starts from a server
that no longer goes down, whatever state it has left the connection in, and names with `GivenUp`
the ways in which it is not logged in to all the same.

### FsMessage

Text is a sequence of atoms: the pieces of a header that the parser tells apart (half of a
type's name is one of them, and each digit of a length) and single characters of a body. A
read takes any number of atoms, so a cut falls between any two. The parser is the code's:
until a length is known every read parses the whole text again in the state that the last
parse has left, which is why most cuts inside a header are fatal. `WellCut` describes the
cuts that do no harm: before or right after the category, after the header, after a line of
the body, at the end, and anywhere from the second cut on. The two properties say that these
are understood as they were sent, and that a message cut in two elsewhere never completes or
(a reply cut after its status) spoils the next one.

### TerminationRouting

`Quantities`, `Rotation` and `NameOrder` are the parsed configuration: trunk quantities per
carrier, the weighted carrier vector, and the order of the carriers' map, which is that of
their names. The first two come from `SspConfig`. New calls and crankbacks of several calls
share the pointers.

### SspConfig and ConfigReload

`SspConfig` has a file as a record of its elements in document order, and one operator for
each thing the constructor or a getter makes of it. `ConfigReload` has eight versions of the
file in its run: two full ones that differ in everything a reload takes over, one without
statistics and database whose carriers include a repeated name, a quantity of 0 and inactive
trunks, and five that are invalid in different ways.

`handler` is where each thread is in `handleSigHup`, `pc` where the main thread is in
`processWatchdogTimer`. The handler interrupts the main thread between any two of its steps;
if the main thread is in it already, the kernel runs it in another one. `accepted` and
`modeChanged` are history variables. Of the calls only the number is kept, and the tables of
one mode are not seen by the watchdog of the other, as in the code.

| Action | Code (`ssp-controller.cpp`) |
|---|---|
| `Signal`, `ReadFile`, `Validate`, `Discard` | `handleSigHup`, 233-246 |
| `Tick` (`StatelessPass` or `StatefulPass`) | 646-701 |
| `TestNew`, `TestInstall`, `Copy`, `Reset`, `Rest` | 703-707, `installConfig` 199-222 |
| `OpenStats`, `BindFails` | 715-721, `nagios-connector.cpp` 175-186 |
| `NewCall`, `EndCall` | the guards of 764-815 and 978-1005, `clearDialog` |

### CdrWriter

The controller posts either the shared object of an origination or a copy. A worker first
reads the type (`Dispatch`), then executes the statements (`Write`, `ConnectionLost`,
`OtherError`), so that the controller's change of the object can come between. `prepared`
are the statements of the present connection, `stale` those of an earlier one. The client
library (vendored under `deps/`) marks the statements of a lost or closed connection with
error 2013, so each of them fails once. The old writer lives on after a reload because its
timer holds a reference. `OtherError` may happen at every statement and so also covers a
connection whose `setSchema` has failed. `streak` and `lost` are history variables: the CDRs
lost in a row, and the sessions that lost one.

## 3. Runs

### Passing

| Run | Question | Bounds |
|---|---|---|
| `StatefulSafety` | `TypeOK`, `Consistent`, `LookupsSucceed`, `AttemptsWithinRetries`, `CdrPerAttempt`: do the maps stay consistent, which assertions can fail, are attempts bounded and recorded? | 2 calls, 5 legs, 2 server and 3 client transactions, retries 1 or 2, session timers |
| `StatefulLedger` | `NoOrphanSession`, `StoppedClean`, `CdrLedger`, `ImplementsSessionEvents`, `EveryInviteAnswered`: what is left and what is told of a call, and does it come to its end? | the same, retries 2, option -i 2, no session timers |
| `StatelessCalls` | `TypeOK`, `QueueMatchesMap`, `RouteKept`, `ImplementsCallTable`, `AnsweredForgotten`, `StopsAfterIterations` | 3 calls, one of them inherited from before a restart, option -i 2 |
| `ServerChoice` | `SteadyServersOffered`, `NoServerStarved` | 0, 1, 3 and 4 servers, with and without the least-loaded turn |
| `EventSocket` | `AvailableIsConnected`, `EveryReplyAwaited`, `PollingContinues`, `LogsInAgain`, `OfflineNoticed`, `MonitorSurvivesShutdowns`, `LeftAloneOnlyAfterFailure` | all faults, 2 reloads |
| `MessageFraming` | `WellCutUnderstood`, `BadlyCutSpoils`: which cuts can the parser cope with? | 2 messages of 6 kinds, 4 reads |
| `RoutingTurns` | `OtherCarrierNext`, `TrunkShares`, `NoTrunkStarved` | 2 calls, 3 carriers, 6 trunks |
| `CdrRecords` | `OneLossPerType`, `TablesTellEvents`, `InsertedOnce` | 1 session, all database faults, a second writer by a reload |
| `ConfigReload` | `TypeOK`, `NoChangesIfInvalid`, `AcceptedInstalled`, `OneConfiguration`, `StopsOnlyEmpty`, `RoutesExist`, `PendingInstalled` | 8 files, 1 call, option -i 1, the main thread takes the signals, any number of them |

Why the bounds are enough: two calls of the stateful mode interact only through reused
handles, and the handle sets are small enough that a freed handle is taken by the other
call; two attempts reach the limit of the retries. Three servers give a scan with a
beginning, a middle and an end, the fourth server makes the list of results overflow
(`MAX_SERVERS_TO_TRY`). Three attempts are the fewest that show a prepared statement, its
loss and a repeated loss. Sessions share nothing in the CDR writer but the order of the
queue, so one session with several events has the interesting orders. A message affects the
next one only through what is left of it, so two messages suffice, and four reads cut the
first in three and still join or cut the second. One call tells "no calls" from "some"; the
files differ pairwise in each value that a reload takes over.

`FsMonitor`, `FsInstance`, `TerminationRouting` and `CdrWriter` state a `TypeOK`, too. It is
proved (section 5) and not among the properties of their runs. `WatchdogFindsCalls` is implied by `ImplementsCallTable` and proved.

Deadlock is not checked where a process may stop (option -i, an assertion, an ended thread)
or where the far ends may simply have no more calls or messages; it is checked in the runs of
`FsMonitor`, `TerminationRouting` and `ConfigReload`.

### Disagreements

Three runs each check one statement of an assertion or a document and have a
counterexample; `PROJECT.json` quotes the statement.

| Run | Statement refuted | Course of events |
|---|---|---|
| `LateResponse` | assertion 1344: the B leg of a response exists | BYE on the early dialog, then the INVITE's response |
| `InvalidInstalled` | "no changes will be made" for an invalid file (239) | two signals, handled by two threads: the second stores an invalid file that the watchdog installs before it is validated |
| `CallNotRecorded` | rows of `cdr_session` are the calls received (`special_programs.sql`) | CANCEL before the INSERT is dispatched |

Other limits of the code show up as the premises, constants or exceptions without which a
property of a passing run has a counterexample:

| Property | Limit | Reason |
|---|---|---|
| `LookupsSucceed` | names three assertions that can fail | besides 1344: a 200 to a re-INVITE after a BYE (1705), timer H after the dialog was cleared (1549) |
| `NoOrphanSession` | excepts a callee whose 200 crosses a CANCEL or a timeout | the INVITE and its leg are destroyed at once (1585-1588), so `processRetransmittedResponse` finds no leg for the 200 and sends neither ACK nor BYE (1746-1765) |
| `NoOrphanSession` | takes a BYE to end the session | the BYE to a callee whose 200 is under way lacks its tag; when the 200 comes the process ends at 1344 |
| `NoOrphanSession` | no session timers | `terminateLeg` is a TODO: the timer forgets both legs and sends nothing (1733, 1768) |
| `AttemptsWithinRetries` | `Retries` without 0 | `m_nTerminationRetries - 1` wraps around (1452) |
| `EveryInviteAnswered` | no endless redirects | a 3xx is followed without a count (1421-1445) |
| `AnsweredForgotten` | answered calls only | the ACK of a failed call takes the forwarding branch, so the call is kept for ever (758, 820) |
| `StopsAfterIterations` | or the process ends at 821 | an ACK of an unknown call dereferences the end iterator |
| `NoServerStarved` | round robin only | the least-loaded turns move the pointer too |
| `PollingContinues`, `OfflineNoticed` | no reload cut off by a shutdown | `m_bReloadingXml` survives the reconnection and swallows the first status |
| `OfflineNoticed` | the server sends a notice (`Announced`) | a read error is only logged: the state stays, no read and no timer is left, and a dead server stays available ("'available' means on-line", `ssp.conf.xml`) |
| `LogsInAgain` | or the connection broke without a notice | a read error is only logged (`fs-instance.cpp`, 205): nobody connects again, although the server may have come back at once |
| `LogsInAgain` | or a step of the log-in failed | the timer does nothing after a failed resolve, greeting, authentication or profile |
| `LogsInAgain` | or the monitor's thread ends | a write that throws ends the thread of all servers |
| `LogsInAgain` | no reload cut off by a shutdown | as for `PollingContinues` |
| `PollingContinues`, `LogsInAgain`, `OfflineNoticed` | whole messages (`Intact`) | one badly cut message spoils all later ones, the notice included |
| `MonitorSurvivesShutdowns` | no reloads, announced shutdowns | a second write to a connection that is lost throws and ends the thread of all servers |
| `WellCutUnderstood` | good cuts only | see `BadlyCutSpoils`; a message in three or more pieces with bad cuts may even complete with wrong content |
| `NoChangesIfInvalid`, `AcceptedInstalled` | only the main thread takes the signal | see `InvalidInstalled` |
| `AcceptedInstalled` | says nothing of a file saved while another waits | the signal is ignored then, and nothing reads the file again |
| `OneConfiguration` | a file without a database leaves the CDR writer | `installConfig` only ever replaces it (214) |
| `StopsOnlyEmpty` | or the mode was changed | the watchdog looks at the mode of the new file, the calls are in the tables of the agent that was created at the start |
| `PendingInstalled` | or the process ends | the acceptor throws when the new statistics port is in use (720) |
| `OfflineNoticed` | or the monitor's thread ends | with answers to polls and reloads mixed up, a second write to a server that has gone can come before its notice is read; it throws |
| `AvailableIsConnected` | says nothing about capacity | `m_nMaxSessions - 2` wraps around before the first status (`fs-instance.h`, 49) |
| `OtherCarrierNext` | consecutive attempts only | only the carrier that failed last is left out, so the routes may be A, B, A |
| `TablesTellEvents` | one writer, a row, no lost CDR | after a reload the new writer may overtake the old one; see `CallNotRecorded` for the row |

A carrier named twice loses the trunks of its second entry without an error (the map keeps the
first), while its turns are counted twice; `RoutesExist` holds all the same. A reload changes
neither the servers nor the agent's mode, contact or `max-round-robins`, which are read at
the start only. The comments of `ssp.conf.xml` differ from `ssp-config.cpp` in some defaults:
they call all but one `appserver` optional, where the code also wants an `inbound` element and
a termination carrier, and give the default mode as stateless, where it is stateful.

Three more are modelled and have no property, since what one would say is false: the 486 for
a call without a server is never sent in stateless mode (`InviteNoServer`), an inactive
server accepts terminations (`processTerminationRequest` does not look at `active`), and the
process exits with CDRs in the queue (`ShutDown` of `CdrWriter`).

## 4. Fairness

* `StatefulController`: every INVITE sent has a final response, because nta's timers B and C
  make up a 408 if the far end does not answer. `FairSpec` adds that carriers do not
  redirect one call for ever, which the code does not guarantee: it is an assumption on the
  carriers.
* `StatelessProxy`: the watchdog timer fires, time passes, servers answer and callers
  acknowledge failures, as SIP requires of them.
* `FsMonitor`: the controller's thread finishes a call of `getAvailableServers`; calls keep
  coming.
* `FsInstance`: both threads run; a timer that is set fires; a connection that is possible
  again and again is made in the end (strong fairness, since each attempt may fail).
* `TerminationRouting`: calls that are not anonymous keep coming and calls end.
* `ConfigReload`: a handler that has begun goes on (weak fairness); the main thread gets on
  with the watchdog's pass although signals interrupt it again and again (strong fairness:
  the pass is not enabled while the handler runs).

## 5. Proofs

A theorem holds for every value of the constants that satisfies the module's assumptions, and
so for any number of calls, handles, servers, carriers, sessions and writers, where a run has
two or three. The bounds that keep a run finite (`MaxReloads`, `MaxAttempts` and the like) are
constants, too: what is proved holds for each of them. The inductive invariants were checked
with TLC on the module's instance before they were proved, but for that of `FsMessage`: it
quantifies over all texts, so TLC saw only the two properties that follow from it.

### Call control

`StatefulControllerProofs` proves, for any sets of calls, legs and transactions, any
configured retries and either setting of the session timers,

* `TypeCorrect`: `Spec => []TypeOK`,
* `MapsConsistent`: `Spec => []Consistent`,
* `AssertionsHold`: `Spec => []LookupsSucceed`.

They rest on the assumptions of the module: `NULL` is none of the handles or records,
retries are unsigned numbers, the iteration count is a natural number or -1. The inductive
invariant is the conjunction of the three. None is inductive alone: a look-up succeeds
because the maps agree, the maps agree after a crankback because the A leg was found, and
both need the types. The argument: look-ups in a one-to-one map return the partner
(`IrqLookup`, `OrqLookup`, `DialogLookup`); all changes to the maps are of three kinds, each
with a lemma that it preserves `Consistent`: a pair or a dialog is dropped with all that
belongs to it (`DropPreserves`), two fresh legs and transactions are bridged
(`BridgePreserves`), or the B side of a bridge is replaced (`ReplacePreserves`). Two smaller
lemmas cover a forwarded request and a CANCEL that comes too late. One lemma for each
handler shows which kind it is, and `StepInvariant` collects them.

The second half of the module takes this as known and proves what the records and the far ends
owe to it:

* `AttemptsRecorded`: `Spec => []CdrPerAttempt`,
* `RetriesBounded`: `Spec => []AttemptsWithinRetries`, if `0 \notin Retries`,
* `NoSessionOrphaned`: `Spec => []NoOrphanSession`, if `SessionTimers = FALSE`,
* `LedgerComplete`: `Spec => []CdrLedger`, if `SessionTimers = FALSE`,
* `StopsClean`: `Spec => []StoppedClean`, if `SessionTimers = FALSE`,
* `PostsSessionEvents`: `Spec => ImplementsSessionEvents`, if `SessionTimers = FALSE`.

The two conditions are those of the table of limits in section 3: a configured 0 makes
`m_nTerminationRetries - 1` wrap around, and the session timer forgets its legs without a BYE
and without a CDR. They restrict the configuration and the calls, never the order of events.

`LedgerInv` is why the first holds: each `CdrInfo` belongs to one attempt or one dialog
(`AttemptOwnsCdr`, `InfoOwnsCdr`), so that what is posted for one call is never counted for
another although handles are reused; a kept dialog has an open ledger, and one without
"answered" as long as its INVITE has no final response (`KeptIsOpen`); and no ledger has a shape
other than the seven that are possible (`LedgerShape`). `SessionInv` adds the converse, an open
ledger is kept (`OpenIsKept`), that no caller is in a session before the final response
(`NotYetUp`), and that what is forgotten is of a call that was offered and, if an origination,
given up (`ForgottenOfKnown`). Only a BYE and the end of an INVITE without a 200 destroy legs with
a session. The BYE reaches both far ends. At the end of an INVITE the caller's is not in a session
(`NotYetUp`); the callee's may be, and the same step closes the ledger as failed or cancelled
(`LostCallee`). A ledger that is closed never changes again (`ForgottenKept`).
`AttemptsWithinRetries`
is inductive: a crankback counts one up below the limit in force, a redirect keeps the count,
and the property asks only that some configuration allowed it. `StoppedClean` follows from
`StoppedEmpty` (the watchdog stops with no dialog left) and the maps' consistency.
The refinement rests on all of this: a handler appends one CDR to the ledger of at most one
origination, and since the ledger has one of the seven shapes before and after, that CDR is one
which `SessionEvents` allows there (`LedgerOrder`); the step that stops the process is the
abstract `Stop` because nothing open is left (`StoppedClean`).

`StatelessProxyProofs` proves, for any calls and any times,

* `TypeCorrect`: `Spec => []TypeOK`,
* `QueueConsistent`: `Spec => []QueueMatchesMap`,
* `WatchdogAssertion`: `Spec => []WatchdogFindsCalls`,
* `RoutesKept`: `Spec => []RouteKept`,
* `Refinement`: `Spec => ImplementsCallTable`.

The assertion needs the agreement of queue and map; the agreement needs that the watchdog
erases a prefix of the queue whose calls are all found (`ErasedPrefix`, `AllFound`). The type
of the countdown needs that a process that runs has not reached 0. That a route is kept needs
that only answered calls are completed (`CompletedAnswered`), since the watchdog forgets the
completed ones. For the refinement each action is shown to be a step of the abstract table or
to leave it alone: the erased prefix is the set of expired calls that one abstract `Pass`
forgets, and the clock's step is `Expire` for all calls whose time is up.

### Configuration reload

`ConfigReloadProofs` proves, for any files and any threads that take the signal,

* `TypeCorrect`: `Spec => []TypeOK`,
* `PartsOfOneConfiguration`: `Spec => []OneConfiguration`,
* `StopsEmpty`: `Spec => []StopsOnlyEmpty`,

and, under the assumption `Thread = {main}`,

* `NoInvalidConfiguration`: `Spec => []NoChangesIfInvalid`,
* `NoAcceptedLost`: `Spec => []AcceptedInstalled`,
* `InstalledRoutes`: `Spec => []RoutesExist`.

The first invariant (`IInv`) adds to the properties which configuration is there at each step
of the pass (`Configured`), which parts of it have been taken over by then (`PartsAgree`), that
the mode of the installed file is the agent's unless it was changed (`ModeKept`), and that a
process that is stopping has no calls (`EndsEmpty`). The second (`SInv`) ties `m_ConfigNew` to
the place of the handler (`NewFollowsHandler`): with one thread the handler has done its work
before the watchdog looks, so what waits is valid, and it cannot be replaced while it is
installed (`InstallingAlone`). With two threads this is what fails in `InvalidInstalled`.

`InstalledRoutes` assumes of a file that it has finitely many elements and that its quantities are
unsigned numbers (`FileAssumption`). The argument: what is installed is valid (`SInv`); the
turns are those of the active carriers with an active trunk, each as often as its quantity says
(`TurnsTerminate`), and the map finds for the name of a turn the first entry of that name, which
has a trunk (`RouteOfName`), so that a valid file can be routed with (`ValidRoutes`). Its trunks
are counted (`TrunksCounted`), so that there is an attempt unless the file says 0
(`RetriesOfFile`). The turns are a concatenation of sequences, computed by a fold; what is in it
is shown for this fold alone, by the least length at which it would not hold (`FlattenDefined`,
`FlattenMembers`).

### Servers and routes

`FsMonitorProofs` proves, for any number of servers, any capacities and any
`max-round-robins`,

* `MonitorTypes`: `Spec => []TypeOK`,
* `SteadyOffered`: `Spec => []SteadyServersOffered`,
* `NoFalseAlarm`: "no available servers" is said only if no server was available throughout.

`SteadyServersOffered` speaks of the end of the scan. `ScanInv` says what holds between two
iterations: the list has no repetition, holds only servers that the scan has been to
(`Scanned`, which wraps around the end of the vector) and all of those that have been available
since the call began, and is not full.

`FsInstanceProofs` proves, for any reported numbers and any faults and reloads,

* `InstanceTypes`: `Spec => []TypeOK`,
* `AvailableConnected`: `Spec => []AvailableIsConnected`,
* `RepliesAwaited`: `Spec => []EveryReplyAwaited`,
* `MonitorSurvives`: `Spec => MonitorSurvivesShutdowns`,
* `LeftAlone`: `Spec => LeftAloneOnlyAfterFailure`.

`InstanceInv` ties the socket to the state of the log-in (`LinkState`) and balances reads and
timer against reloads (`ReadsBound`) and messages against reads (`ReplyBound`). The last two
theorems have their premises in the property itself, as temporal formulas: announced shutdowns
and no reloads, and no reload cut off by a shutdown. Each has an invariant that is inductive
only along such behaviours. `SurviveInv` counts the messages before the notice of a server that
is gone: there is at most one, so at most one write precedes the reading of the notice, and
the first write does not throw. `LiveInv` says in every state which timer or read will go on; a
status that is taken for the reply to `reloadxml` sets no timer, so that then a second read must
be under way.

`TerminationRoutingProofs` proves, for any carriers, trunks, quantities and calls,

* `RoutingTypes`: `Spec => []TypeOK`,
* `OtherCarrier`: `Spec => []OtherCarrierNext`,
* `SharesKept`: `Spec => TrunkShares`.

It assumes that there is a carrier, that every carrier has a trunk and that the rotation is
not empty; that installed files satisfy this is `RoutesExist`. `TurnInv` relates the code's
`m_selectCount` to the uses in the present turn: only the current trunk has a count, and a trunk
of quantity 0, which is never counted, is used once.

### Message framing

`FsMessageProofs` proves, for any `MaxMessages` and `MaxReads`,

* `WellCutMessages`: `Spec => []WellCutUnderstood`,
* `BadlyCutMessages`: `Spec => []BadlyCutSpoils`.

The number of messages, the number of pieces and the places of the cuts are free; the six texts
are those of `FsMessage`. The argument has three parts.

* The parser. `Lines` cuts a text where its lines end (`LinesMarked`), and the lines of the first
  q atoms of a text, after newlines of the one before, are the text's own with the last one cut
  off (`PrefixLines`). The fold over them is a run through the states between two lines
  (`FoldRuns`). With the tables of the six texts this gives what `parse` makes of every beginning
  of every message (`ParseOutcome`): complete at its end; not begun before its category is there;
  its content being filled if the first piece ends after the header or a line of the body; and
  otherwise a state in which it cannot complete.
* What cannot complete, never does: a parser that has passed its category without a length
  (`Stuck`), one that has more text than the length it believes in (`Overfull`) and one whose text
  begins with the rest of a reply (`Junk`) stay so whatever is read (`StuckStays`,
  `OverfullStays`, `JunkStays`).
* The stream. The inductive invariant `Holding` says where each message lies in what was sent and
  what of it is unread (`Stream`), and that for some d the first d messages were cut well and
  understood (`Right`), while the next one has not come further than its category (`Waiting`), is
  being filled (`Filling`), or was not cut well (`Lost`) and, if it was cut in two, has spoilt
  what follows (`Spoilt`). The next message is never one that was cut well and read to its end
  (`NextNotWell`), so the d understood messages are all that the first property speaks of, and
  the message the second one speaks of is that next one.

The properties speak of messages that have been read; the strengthening is needed because what
becomes of a message is decided by its first cut, long before it is read.

### Call detail records

`CdrWriterProofs` proves, for any sessions, any numbers of attempts and writers and any faults,

* `OneLoss`: `Spec => []OneLossPerType`,
* `InsertedOnceOnly`: `Spec => []InsertedOnce`,
* `TablesTell`: `Spec => []TablesTellEvents`,
* `TakesSessionEvents`: what is posted, but for the attempts, is a behaviour of `SessionEvents`,
* `TakesEverySession`: whenever `SessionEvents` allows an event, the guard of the action that
  posts it holds.

They assume that `NULL` is neither a row nor a job. `LossInv`: while CDRs are lost in a row, no
statement has been prepared since and those of the types that had their loss are no longer
stale. `InsertInv`: until the type of the shared object is changed it has been posted once, so
it is in one queue, or being inserted, or its row may be there, and only one of these; once the
type is changed, no queue leads to an INSERT.

`TablesTellEvents` speaks of a session whose CDRs are all written, so its strengthening says
what the tables tell before that. `Story` is the order in which the controller can post the
events of a session (the request first, nothing but attempts after the end) with the type it
leaves in the shared object. `InOrder` maps each event that is not yet written to its place in
the queue, in order. `Told` says that the tables tell exactly the events before, except that
`end_time` may be early: the shared object of the request is read after a CANCEL or BYE has
changed it. `Fits` names the types with which an event can then be dispatched. A written CDR
moves one event from the queue to the tables (`ToldAfterWrite`), whichever of its types it has;
if the first one was not an INSERT there is never a row (`ToldNothing`).

With `PostsSessionEvents` of the controller the last two theorems are the joint of the two
modules: the controller posts nothing but what `SessionEvents` allows, and `CdrWriter` lets
everything be posted that it allows, so what is proved of the tables covers every order in which
the real controller posts (in stateful mode, without session timers).

### Left to TLC

* Liveness (`EveryInviteAnswered`, `AnsweredForgotten`, `StopsAfterIterations`,
  `NoServerStarved`, `PollingContinues`, `LogsInAgain`, `OfflineNoticed`, `NoTrunkStarved`,
  `PendingInstalled`): the prover does not reason about fairness and `ENABLED`.

The provers cannot use a general theorem of induction over data. Where a proof needs what a fold
computes (`FsMessage`, `SspConfig`), it argues for that one fold with a least counterexample.
No module has a `RECURSIVE` operator.

## 6. Not modelled

* The look-up of an address among the inbound carriers and of a DNIS (the latter has no
  caller): both read maps that never change. SIP header handling and log texts: no state
  change that a property is about.
* The sessions of the statistics connector and the trunk counters. Other threads change what
  they read without a lock, so all that could be said of an answer is that it may mix old and
  new values (a reset during an attempt can leave 0 attempts and 1 failure).
* `main.cpp` but for the signal, the command line, the helper programs `check-ssp`,
  `duplicate-tester` and `fs-spoofer`, and everything vendored under `deps/`.
* Data races inside containers and shared pointers (statistics thread, `std::sort`), and what
  the signal handler does to an allocator it interrupts: their outcome is undefined.
* The start of a `CdrWriter`, whose thread may call `shared_from_this()` too early: in
  `CdrWriter` a writer is there from the start, so nothing is said of a controller whose first
  file has no database.
* Two replies in one read (`Send` of `FsMessage` joins only a notice to another message): they
  can meet when a poll and a reload are under way together. `FsInstance` has this case
  (`"coalesce"`) and takes it to spoil the message.
* In stateless mode, what a reload changes besides `active` (`InstallConfig` of
  `StatelessProxy`): nothing else of it is read there. The installation itself is `ConfigReload`.

## 7. Plan

Done, in this order: `StatefulController` with its proofs, `StatelessProxy` with its proofs,
`FsMonitor`, `FsInstance`, `TerminationRouting`, `CdrWriter`; then `FsMessage`, `SspConfig` and
`ConfigReload` with its proofs, and `CallTable` with the refinement; then the proofs of
`FsMonitor`, `FsInstance`, `TerminationRouting` and `CdrWriter`, and those of the ledger; then
`RoutesExist` and the message framing, and `SessionEvents` as the joint of the controller and the
CDR writer.

What could follow:

1. A call as seen by the two far ends, which `StatefulController` implements without early BYEs;
   a routing table with fair turns, which `TerminationRouting` implements.
2. The monitor composed with its instances.
