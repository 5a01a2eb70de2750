----------------------------- MODULE FsInstance -----------------------------
(***************************************************************************)
(* FsInstance (fs-instance.cpp): one FreeSWITCH server, watched over its   *)
(* event socket.  The handlers run on the monitor's thread (fs-monitor.cpp, *)
(* threadFunc): log in, learn the SIP address, then poll the session       *)
(* counts.  reloadxml is called from the statistics connector's thread on  *)
(* the same socket.  The server itself is external: it answers each        *)
(* command, in order, and it may shut down with a notice or simply vanish. *)
(***************************************************************************)
EXTENDS Integers, Sequences

CONSTANTS
    UIntMax,         \* largest unsigned int
    Sessions,        \* session counts the server may report
    Limits,          \* session limits the server may report
    Faults,          \* what may go wrong, see below
    MaxReloads       \* bound: fs-reloadxml commands

\* "shutdown": the server leaves with a notice; "crash": without one; "fragment",
\* "coalesce": TCP delivers a message in pieces, or two at once; the others: a step of
\* the log-in fails.
FaultKinds == {"shutdown", "crash", "fragment", "coalesce", "resolve", "connect",
               "greeting", "auth", "profile"}

ASSUME InstanceAssumption ==
    /\ UIntMax \in Nat /\ MaxReloads \in Nat
    /\ Sessions \subseteq 0..UIntMax /\ Limits \subseteq 0..UIntMax
    /\ Faults \subseteq FaultKinds

VARIABLES
    m_state,
    m_bDisconnected,
    m_bReloadingXml,
    m_nCurrentSessions, m_nMaxSessions,
    m_fsMsg,         \* "empty", or "spoiled": no more data can complete it
    timer,           \* m_timer is armed
    reads,           \* async_read_some operations under way
    monitor,         \* the monitor's thread: "running" or "ended"
    nagios,          \* the connector's thread: "idle", "reloading", "ended"
    reloads,         \* reloadxml commands sent
    link,            \* the connection: "closed", "open", closed by the server ("fin"),
                     \* or known to be broken ("reset")
    wire             \* messages of the server that are not read yet

counts == <<m_nCurrentSessions, m_nMaxSessions>>
flags == <<m_bDisconnected, m_bReloadingXml>>
socket == <<link, wire, reads>>
threads == <<monitor, nagios, reloads>>
vars == <<m_state, flags, counts, m_fsMsg, timer, socket, threads>>

CONNECTION_STATE == {"starting", "resolving", "resolve_failed", "connecting",
    "connect_failed", "waiting_for_greeting", "authenticating", "authentication_failed",
    "obtaining_sip_configuration", "obtaining_sip_configuration_failed",
    "querying_status"}

\* Messages: the greeting, replies to auth, responses to "api sofia status" (with the
\* internal profile or not), "api reloadxml" and "api status", the shutdown notice.
Message == [kind: {"auth", "ok", "err", "profile", "noprofile", "reloaded", "notice"}]
             \cup [kind: {"status"}, cur: Sessions, max: Limits]
Api == {"profile", "noprofile", "reloaded", "status"}

\* What the variables hold.
TypeOK ==
    /\ m_state \in CONNECTION_STATE
    /\ m_bDisconnected \in BOOLEAN /\ m_bReloadingXml \in BOOLEAN
    /\ m_nCurrentSessions \in 0..UIntMax /\ m_nMaxSessions \in 0..UIntMax
    /\ m_fsMsg \in {"empty", "spoiled"}
    /\ timer \in BOOLEAN
    /\ reads \in 0..(1 + MaxReloads)
    /\ monitor \in {"running", "ended"}
    /\ nagios \in {"idle", "reloading", "ended"}
    /\ reloads \in 0..MaxReloads
    /\ link \in {"closed", "open", "fin", "reset"}
    /\ wire \in Seq(Message)

\* Constructed and started by FsMonitor::reset.
Init ==
    /\ m_state = "resolving"
    /\ m_bDisconnected = FALSE /\ m_bReloadingXml = FALSE
    /\ m_nCurrentSessions = 0 /\ m_nMaxSessions = 0
    /\ m_fsMsg = "empty"
    /\ timer = FALSE
    /\ link = "closed" /\ wire = <<>> /\ reads = 0
    /\ monitor = "running" /\ nagios = "idle" /\ reloads = 0

\* Unsigned: with a limit below 2 the subtraction wraps around.
isAvailable ==
    /\ m_state = "querying_status"
    /\ m_nCurrentSessions < (m_nMaxSessions - 2) % (UIntMax + 1)

-----------------------------------------------------------------------------
(* The server (external) *)

Reply(kind, fault, bad) ==
    {[kind |-> kind]} \cup (IF fault \in Faults THEN {[kind |-> bad]} ELSE {})

Answers(command) ==
    CASE command = "auth"      -> Reply("ok", "auth", "err")
      [] command = "sofia"     -> Reply("profile", "profile", "noprofile")
      [] command = "reloadxml" -> Reply("reloaded", "", "")
      [] command = "status"    -> [kind: {"status"}, cur: Sessions, max: Limits]

Shutdown ==
    /\ "shutdown" \in Faults
    /\ link = "open"
    /\ link' = "fin"
    /\ wire' = Append(wire, [kind |-> "notice"])
    /\ UNCHANGED <<m_state, flags, counts, m_fsMsg, timer, reads, threads>>

Crash ==
    /\ "crash" \in Faults
    /\ link = "open"
    /\ link' \in {"fin", "reset"}
    /\ wire' \in {wire, <<>>}
    /\ UNCHANGED <<m_state, flags, counts, m_fsMsg, timer, reads, threads>>

Lost == link \in {"fin", "reset"}

\* boost::asio::write: a server that is there answers.  The first write to one that is
\* gone succeeds and has the connection reset; a later one may throw.
Write(command, rest) ==
    \/ /\ link = "open"
       /\ \E a \in Answers(command) : wire' = Append(rest, a)
       /\ UNCHANGED link
    \/ /\ Lost
       /\ wire' = rest
       /\ link' = "reset"

WriteThrows(rest) == link = "reset" /\ wire' = rest /\ UNCHANGED link

-----------------------------------------------------------------------------
(* The monitor's thread *)

\* An exception that threadFunc does not know ends the thread, for every server.
EndThread ==
    /\ monitor' = "ended"
    /\ UNCHANGED <<nagios, reloads>>

resolve_handler ==
    /\ monitor = "running" /\ m_state = "resolving"
    /\ \/ m_state' = "connecting" /\ UNCHANGED timer
       \/ "resolve" \in Faults /\ m_state' = "resolve_failed" /\ timer' = TRUE
    /\ UNCHANGED <<flags, counts, m_fsMsg, socket, threads>>

\* Connected, at the first or a later endpoint.
Connected ==
    /\ monitor = "running" /\ m_state = "connecting"
    /\ m_state' = "waiting_for_greeting"
    /\ link' = "open"
    /\ \E greeting \in Reply("auth", "greeting", "ok") : wire' = <<greeting>>
    /\ reads' = 1
    /\ UNCHANGED <<flags, counts, m_fsMsg, timer, threads>>

\* No endpoint is left to try.
ConnectFails ==
    /\ monitor = "running" /\ m_state = "connecting"
    /\ "connect" \in Faults
    /\ m_state' = "connect_failed"
    /\ timer' = TRUE
    /\ UNCHANGED <<flags, counts, m_fsMsg, socket, threads>>

\* read_handler gets data.
Reading == monitor = "running" /\ reads > 0 /\ wire # <<>>

\* Data that leave m_fsMsg incomplete for good: it reads on.
ReadPart ==
    /\ Reading
    /\ \E n \in 1..Len(wire) :
         /\ \/ m_fsMsg = "spoiled"
            \/ n = 1 /\ "fragment" \in Faults
            \/ n > 1 /\ "coalesce" \in Faults
         /\ wire' = SubSeq(wire, n + 1, Len(wire))
    /\ m_fsMsg' = "spoiled"
    /\ UNCHANGED <<m_state, flags, counts, timer, link, reads, threads>>

\* A whole message, in one piece.
ReadWhole == Reading /\ m_fsMsg = "empty"

\* Mutant of ReadNotice: the state is left alone.
ReadNoticeKeepsState ==
    /\ ReadWhole
    /\ Head(wire).kind = "notice"
    /\ link' = "closed" /\ wire' = <<>> /\ reads' = 0
    /\ m_bDisconnected' = TRUE
    /\ timer' = TRUE
    /\ UNCHANGED <<m_state, m_bReloadingXml, counts, m_fsMsg, threads>>

\* FsDisconnectException: the thread carries on, and the timer will start over.
ReadNotice ==
    /\ ReadWhole
    /\ Head(wire).kind = "notice"
    /\ link' = "closed" /\ wire' = <<>> /\ reads' = 0
    /\ m_bDisconnected' = TRUE
    /\ m_state' = "starting"
    /\ timer' = TRUE
    /\ UNCHANGED <<m_bReloadingXml, counts, m_fsMsg, threads>>

\* The state the log-in goes on to and the command it sends, if msg is the one it has
\* been waiting for.
LogInStep(msg) ==
    CASE m_state = "waiting_for_greeting" /\ msg.kind = "auth" ->
           <<"authenticating", "auth">>
      [] m_state = "authenticating" /\ msg.kind = "ok" ->
           <<"obtaining_sip_configuration", "sofia">>
      [] m_state = "obtaining_sip_configuration" /\ msg.kind = "profile" ->
           <<"querying_status", "status">>
      [] OTHER -> <<"none", "none">>

\* Mutant of LogIn: the timer is set with the first poll, not with its answer.
LogInTimer ==
    LET step == LogInStep(Head(wire))
    IN /\ ReadWhole
       /\ Head(wire).kind # "notice" /\ step[1] # "none"
       /\ m_state' = step[1]
       /\ timer' = (step[1] = "querying_status")
       /\ \/ Write(step[2], Tail(wire)) /\ UNCHANGED <<reads, threads>>
          \/ WriteThrows(Tail(wire)) /\ EndThread /\ reads' = reads - 1
       /\ UNCHANGED <<flags, counts, m_fsMsg>>

LogIn ==
    LET step == LogInStep(Head(wire))
    IN /\ ReadWhole
       /\ Head(wire).kind # "notice" /\ step[1] # "none"
       /\ m_state' = step[1]
       /\ \/ Write(step[2], Tail(wire)) /\ UNCHANGED <<reads, threads>>
          \/ WriteThrows(Tail(wire)) /\ EndThread /\ reads' = reads - 1
       /\ UNCHANGED <<flags, counts, m_fsMsg, timer>>

\* The state after a message that ends the log-in; the timer is armed.
LogInFailure(msg) ==
    CASE m_state = "waiting_for_greeting" /\ msg.kind # "auth" -> "waiting_for_greeting"
      [] m_state = "authenticating" /\ msg.kind # "ok" -> "authentication_failed"
      [] m_state = "obtaining_sip_configuration" /\ msg.kind = "noprofile" ->
           "obtaining_sip_configuration_failed"
      [] OTHER -> "none"

LogInFails ==
    LET failed == LogInFailure(Head(wire))
    IN /\ ReadWhole
       /\ Head(wire).kind # "notice" /\ failed # "none"
       /\ m_state' = failed
       /\ timer' = TRUE
       /\ wire' = Tail(wire) /\ reads' = reads - 1
       /\ UNCHANGED <<flags, counts, m_fsMsg, link, threads>>

\* Mutant of ReadResponse: no timer is set for a status that cannot be parsed.
ReadResponseNoTimer ==
    /\ ReadWhole
    /\ m_state = "querying_status"
    /\ wire' = Tail(wire) /\ reads' = reads - 1
    /\ m_bReloadingXml' = FALSE
    /\ timer' = (timer \/ (~m_bReloadingXml /\ Head(wire).kind = "status"))
    /\ UNCHANGED <<m_state, m_bDisconnected, counts, m_fsMsg, link, threads>>

\* A response while polling: to reloadxml, to a status query that cannot be parsed, or
\* a status; the latter may throw FsReconnectException, and the thread carries on.
ReadResponse ==
    LET msg == Head(wire)
    IN /\ ReadWhole
       /\ m_state = "querying_status"
       /\ msg.kind \in Api
       /\ wire' = Tail(wire) /\ reads' = reads - 1
       /\ \/ /\ m_bReloadingXml
             /\ m_bReloadingXml' = FALSE
             /\ UNCHANGED <<m_bDisconnected, counts, timer>>
          \/ /\ ~m_bReloadingXml /\ msg.kind # "status"
             /\ timer' = TRUE
             /\ UNCHANGED <<flags, counts>>
          \/ /\ ~m_bReloadingXml /\ msg.kind = "status"
             /\ m_nCurrentSessions' = msg.cur /\ m_nMaxSessions' = msg.max
             /\ m_bDisconnected' = FALSE
             /\ timer' = TRUE
             /\ UNCHANGED m_bReloadingXml
       /\ UNCHANGED <<m_state, m_fsMsg, link, threads>>

\* End of file or a reset connection is logged, no more.
ReadError ==
    /\ monitor = "running" /\ reads > 0
    /\ Lost /\ wire = <<>>
    /\ reads' = reads - 1
    /\ UNCHANGED <<m_state, flags, counts, m_fsMsg, timer, link, wire, threads>>

\* Mutant of Restart: only a failed connection starts over.
RestartUnconnected ==
    /\ monitor = "running" /\ timer
    /\ m_state = "connect_failed"
    /\ m_state' = "resolving"
    /\ m_fsMsg' = "empty"
    /\ timer' = FALSE
    /\ UNCHANGED <<flags, counts, socket, threads>>

\* timer_handler starts over.
Restart ==
    /\ monitor = "running" /\ timer
    /\ m_state \in {"starting", "connect_failed"}
    /\ m_state' = "resolving"
    /\ m_fsMsg' = "empty"
    /\ timer' = FALSE
    /\ UNCHANGED <<flags, counts, socket, threads>>

\* Mutant of Poll: the response is not read.
PollUnread ==
    /\ monitor = "running" /\ timer
    /\ m_state = "querying_status"
    /\ timer' = FALSE
    /\ Write("status", wire)
    /\ UNCHANGED <<m_state, flags, counts, m_fsMsg, reads, threads>>

\* timer_handler polls.
Poll ==
    /\ monitor = "running" /\ timer
    /\ m_state = "querying_status"
    /\ timer' = FALSE
    /\ \/ Write("status", wire) /\ reads' = reads + 1 /\ UNCHANGED threads
       \/ WriteThrows(wire) /\ EndThread /\ UNCHANGED reads
    /\ UNCHANGED <<m_state, flags, counts, m_fsMsg>>

\* The states in which the timer does nothing any more.
GaveUp == {"resolve_failed", "waiting_for_greeting", "authentication_failed",
           "obtaining_sip_configuration_failed"}

\* timer_handler does nothing where the log-in has failed.
GiveUp ==
    /\ monitor = "running" /\ timer
    /\ m_state \in GaveUp
    /\ timer' = FALSE
    /\ UNCHANGED <<m_state, flags, counts, m_fsMsg, socket, threads>>

-----------------------------------------------------------------------------
(* The statistics connector's thread: processFsReloadxml *)

reloadxml ==
    /\ nagios = "idle"
    /\ m_state = "querying_status" /\ reloads < MaxReloads
    /\ reloads' = reloads + 1
    /\ \/ Write("reloadxml", wire) /\ nagios' = "reloading"
       \/ WriteThrows(wire) /\ nagios' = "ended"
    /\ UNCHANGED <<m_state, flags, counts, m_fsMsg, timer, reads, monitor>>

\* The rest of reloadxml, which the monitor's thread may come before.
AwaitReload ==
    /\ nagios = "reloading"
    /\ m_bReloadingXml' = TRUE
    /\ reads' = IF link = "closed" THEN reads ELSE reads + 1
    /\ nagios' = "idle"
    /\ UNCHANGED <<m_state, m_bDisconnected, counts, m_fsMsg, timer, link, wire, monitor,
                   reloads>>

-----------------------------------------------------------------------------
Handler ==
    \/ resolve_handler \/ Connected \/ ConnectFails
    \/ ReadPart \/ ReadNotice \/ LogIn \/ LogInFails \/ ReadResponse \/ ReadError
    \/ Restart \/ Poll \/ GiveUp

Next == Handler \/ reloadxml \/ AwaitReload \/ Shutdown \/ Crash

Spec == Init /\ [][Next]_vars

\* Both threads run; a server that is up is connected to in the end.
Fairness ==
    /\ WF_vars(Handler)
    /\ WF_vars(AwaitReload)
    /\ WF_vars(Restart \/ Poll)
    /\ SF_vars(Connected)
FairSpec == Spec /\ Fairness

-----------------------------------------------------------------------------
\* A server that has announced its shutdown gets no calls until it has been connected
\* to and logged in to again, whatever was read, timed or reloaded meanwhile.
AvailableIsConnected == isAvailable => link # "closed"

\* Every message the server sends finds a read waiting for it (or about to be posted by
\* reloadxml), so that the answer to one command is never left to the next.
EveryReplyAwaited ==
    link = "open" /\ monitor = "running" /\ m_fsMsg = "empty" =>
        Len(wire) <= reads + (IF nagios = "reloading" THEN 1 ELSE 0)

Polling == m_state = "querying_status" /\ link = "open"

(* What the properties below have to assume. *)

\* No reload is under way when the server goes down (m_bReloadingXml would survive it and
\* swallow the first status after the next log-in).
ReloadsFinish == [](m_bReloadingXml \/ nagios = "reloading" => link = "open")

\* No message comes in pieces or together with the next.
Intact == [](m_fsMsg = "empty")

\* A server that goes sends its notice.
Announced == [](Lost => \E i \in 1..Len(wire) : wire[i].kind = "notice")

\* The polls go on for as long as the server is there, however often it was away before
\* and however the answers to polls and reloads are mistaken for each other, unless a
\* shutdown cut a reload off.
PollingContinues ==
    ReloadsFinish /\ Intact /\ <>[]Polling => ([]<>timer /\ []<>~timer)

\* ssp.conf.xml: "'available' means on-line": a server that has gone is not available
\* for ever, unless it went without a notice, cut a reload off, or a write to it throws
\* and ends the monitor's thread.
OfflineNoticed ==
    ReloadsFinish /\ Intact /\ Announced =>
        ((isAvailable /\ Lost) ~> (~(isAvailable /\ Lost) \/ monitor = "ended"))

\* The thread that serves all servers outlives the announced shutdown of any of them at
\* any point of the log-in and of the polls: no second write comes before the notice is
\* read.  (Only a reload, or a connection that is reset, can make a write throw.)
MonitorSurvivesShutdowns == Announced /\ [](reloads = 0) => [](monitor = "running")

\* Nothing is under way that could bring a handler to run.
Dormant ==
    /\ monitor = "running" /\ nagios # "reloading"
    /\ ~timer /\ reads = 0
    /\ m_state \notin {"resolving", "connecting"}

\* The three ways in which a server that is there is lost for good: a write that threw has
\* ended the thread; a step of the log-in failed, and timer_handler does nothing then; or
\* the connection broke without a notice, which read_handler only logs (the server may be
\* back, but nobody connects to it).
GivenUp ==
    \/ monitor = "ended"
    \/ Dormant /\ m_state \in GaveUp
    \/ Dormant /\ Lost /\ wire = <<>>

\* Once the server no longer goes down it is logged in to and stays so, however often it
\* came and went and at whatever point of the log-in, the polls and the reloads, or it is
\* given up in one of these ways (read_handler, timer_handler).
LogsInAgain ==
    ReloadsFinish /\ Intact /\ <>[][~Shutdown /\ ~Crash]_vars =>
        <>[]Polling \/ <>[]GivenUp

\* A server is left alone for good only after a failed log-in or when it has vanished
\* without a notice: every other path through reads, timers, shutdowns and reloads ends
\* with a read posted or the timer set.
LeftAloneOnlyAfterFailure ==
    ReloadsFinish => [](Dormant => m_state \in GaveUp \/ Lost)

=============================================================================
