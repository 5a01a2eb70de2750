---------------------------- MODULE ConfigReload ----------------------------
(***************************************************************************)
(* The reload of the configuration: SIGHUP makes handleSigHup read the     *)
(* file and leave it in m_ConfigNew; the watchdog's next pass installs it  *)
(* (ssp-controller.cpp).  The handler runs in the main thread, between any *)
(* two of its steps, unless that thread is in the handler already; then    *)
(* the kernel runs it in another thread, at the same time.                 *)
(*                                                                         *)
(* The calls are those of the agent that was created at the start: only    *)
(* their number is kept, StatefulController and StatelessProxy have the    *)
(* rest.  The file and the port of the statistics are external.            *)
(***************************************************************************)
EXTENDS SspConfig

CONSTANTS
    Thread,          \* the main thread and others that take the signal
    main,
    NULL,
    IterationCount,  \* option -i: initial m_nIterationCount, -1 for unlimited
    IdlePasses,      \* initial value of the global counter
    MaxCalls         \* bound: calls in progress

ASSUME ReloadAssumption ==
    /\ main \in Thread
    /\ NULL \notin File
    /\ IterationCount \in Nat \cup {-1}
    /\ IdlePasses \in Nat \ {0} /\ MaxCalls \in Nat

VARIABLES
    process,         \* "running", "stopping", "stopped", or the line where it ended
    m_Config,
    m_ConfigNew,
    m_nTerminationRetries,
    m_stats,         \* port of the statistics connector, 0 for none
    m_cdrWriter,     \* database of the CDR writer, "" for none
    agent,           \* mode of the agent that run() created
    handler,         \* per thread: where it is in handleSigHup
    pc,              \* where the main thread is in processWatchdogTimer
    calls,           \* calls in the agent's tables
    m_nIterationCount,
    counter,         \* idle passes of the stateless branch left
    accepted,        \* history: the last configuration that was found valid
    modeChanged      \* history: a configuration of the other mode was installed

config == <<m_Config, m_nTerminationRetries, m_stats, m_cdrWriter>>
service == <<agent, calls, m_nIterationCount, counter>>
history == <<accepted, modeChanged>>
vars == <<process, m_ConfigNew, config, service, handler, pc, history>>

Ports == {0} \cup {getStatsPort(Content[f]) : f \in File}
Databases == {""} \cup {getCdrConnectInfo(Content[f]) : f \in File}

TypeOK ==
    /\ process \in {"running", "stopping", "stopped", "206 null", "238 null", "720 bind"}
    /\ accepted \in File
    /\ m_Config \in File \cup {NULL} /\ m_ConfigNew \in File \cup {NULL}
    /\ m_nTerminationRetries \in Nat
    /\ m_stats \in Ports /\ m_cdrWriter \in Databases
    /\ agent \in {"stateful", "stateless"}
    /\ handler \in [Thread -> {"none", "reading", "validating", "discarding"}]
    /\ pc \in {"idle", "test", "install", "copy", "reset", "rest", "stats"}
    /\ calls \in 0..MaxCalls
    /\ m_nIterationCount \in Nat \cup {-1}
    /\ counter \in 0..IdlePasses
    /\ modeChanged \in BOOLEAN

ValidFile == {f \in File : isValid(Content[f])}
Mode == [f \in File |-> getAgentMode(Content[f])]

\* installConfig: min(number of outbound trunks, max-termination-attempts)
TerminationRetries == [f \in File |->
    Min({getCountOfOutboundTrunks(Content[f]), getMaxTerminationAttempts(Content[f])})]

\* A file has finitely many elements, and what is read as an unsigned number is one.
ASSUME FileAssumption ==
    \A f \in File :
        /\ getMaxTerminationAttempts(Content[f]) \in Nat
        /\ Len(Content[f].carriers) \in Nat
        /\ \A i \in 1..Len(Content[f].carriers) :
             /\ Content[f].carriers[i].qty \in Nat
             /\ Len(Content[f].carriers[i].outbound) \in Nat

\* The constructor exits unless the file is valid; run() has opened the statistics
\* port and the CDR writer and created the agent.
Init ==
    /\ process = "running"
    /\ m_Config \in ValidFile
    /\ m_ConfigNew = NULL /\ accepted = m_Config
    /\ m_nTerminationRetries = TerminationRetries[m_Config]
    /\ m_stats = getStatsPort(Content[m_Config])
    /\ m_cdrWriter = getCdrConnectInfo(Content[m_Config])
    /\ agent = Mode[m_Config]
    /\ handler = [t \in Thread |-> "none"]
    /\ pc = "idle"
    /\ calls = 0
    /\ m_nIterationCount = IterationCount
    /\ counter = IdlePasses
    /\ modeChanged = FALSE

\* The process is there, and the main thread is not in the signal handler.
Alive == process \in {"running", "stopping"}
MainRuns == Alive /\ handler[main] = "none"

-----------------------------------------------------------------------------
(* handleSigHup *)

\* The thread the kernel chooses is not in the handler, and is the main one if possible.
Delivered(t) == handler[t] = "none" /\ (t # main => handler[main] # "none")

\* Mutant of Signal: a configuration that waits to be installed is not looked at.
SignalAgain(t) ==
    /\ Alive /\ Delivered(t)
    /\ handler' = [handler EXCEPT ![t] = "reading"]
    /\ UNCHANGED <<process, m_ConfigNew, config, service, pc, history>>

\* SIGHUP.  It is ignored while there is a configuration to install.
Signal(t) ==
    /\ Alive /\ Delivered(t)
    /\ m_ConfigNew = NULL
    /\ handler' = [handler EXCEPT ![t] = "reading"]
    /\ UNCHANGED <<process, m_ConfigNew, config, service, pc, history>>

\* new SspConfig, reset: the operator may have saved any version of the file.
ReadFile(t) ==
    /\ Alive /\ handler[t] = "reading"
    /\ m_ConfigNew' \in File
    /\ handler' = [handler EXCEPT ![t] = "validating"]
    /\ UNCHANGED <<process, config, service, pc, history>>

\* Mutant of Validate: a file with an error is kept.
ValidateNot(t) ==
    /\ Alive /\ handler[t] = "validating" /\ m_ConfigNew # NULL
    /\ accepted' = m_ConfigNew
    /\ handler' = [handler EXCEPT ![t] = "none"]
    /\ UNCHANGED <<process, m_ConfigNew, config, service, pc, modeChanged>>

\* m_ConfigNew->isValid()
Validate(t) ==
    /\ Alive /\ handler[t] = "validating"
    /\ \/ /\ m_ConfigNew = NULL
          /\ process' = "238 null"
          /\ UNCHANGED <<handler, accepted>>
       \/ /\ m_ConfigNew # NULL /\ m_ConfigNew \in ValidFile
          /\ accepted' = m_ConfigNew
          /\ handler' = [handler EXCEPT ![t] = "none"]
          /\ UNCHANGED process
       \/ /\ m_ConfigNew # NULL /\ m_ConfigNew \notin ValidFile
          /\ handler' = [handler EXCEPT ![t] = "discarding"]
          /\ UNCHANGED <<process, accepted>>
    /\ UNCHANGED <<m_ConfigNew, config, service, pc, modeChanged>>

Discard(t) ==
    /\ Alive /\ handler[t] = "discarding"
    /\ m_ConfigNew' = NULL
    /\ handler' = [handler EXCEPT ![t] = "none"]
    /\ UNCHANGED <<process, config, service, pc, history>>

-----------------------------------------------------------------------------
(* processWatchdogTimer *)

\* What a branch of the watchdog sees of n calls: its own mode's tables.
CallsOf(mode, n) == IF agent = mode THEN n ELSE 0

\* Mutant of StatelessPass: the calls in progress are not looked at.
StatelessPassBlind ==
    /\ counter' = IF m_nIterationCount = 0 THEN counter - 1 ELSE counter
    /\ process' = IF counter' = 0 THEN "stopping" ELSE process
    /\ calls' = calls
    /\ UNCHANGED m_cdrWriter

\* Mutant of StatelessPass: the counter is tested before it is decremented.
StatelessPassLate ==
    /\ calls' \in (IF agent = "stateless" THEN 0..calls ELSE {calls})
    /\ LET idle == m_nIterationCount = 0 /\ CallsOf("stateless", calls') = 0
       IN /\ counter' = IF idle THEN counter - 1 ELSE counter
          /\ process' = IF idle /\ counter = 0 THEN "stopping" ELSE process
    /\ UNCHANGED m_cdrWriter

\* Completed calls that have expired are removed; the last idle pass of the countdown
\* breaks the event loop.
StatelessPass ==
    /\ calls' \in (IF agent = "stateless" THEN 0..calls ELSE {calls})
    /\ LET idle == m_nIterationCount = 0 /\ CallsOf("stateless", calls') = 0
       IN /\ counter' = IF idle THEN counter - 1 ELSE counter
          /\ process' = IF idle /\ counter' = 0 THEN "stopping" ELSE process
    /\ UNCHANGED m_cdrWriter

\* The event loop is broken once nothing is left, also of the agent's transactions,
\* which end in their own time.
StatefulPass ==
    /\ \/ UNCHANGED <<process, m_cdrWriter>>
       \/ /\ m_nIterationCount = 0 /\ CallsOf("stateful", calls) = 0
          /\ process' = "stopping" /\ m_cdrWriter' = ""
    /\ UNCHANGED <<calls, counter>>

\* The timer fires: the branch of the mode that m_Config has now.
Tick ==
    /\ MainRuns /\ process = "running" /\ pc = "idle"
    /\ IF Mode[m_Config] = "stateless" THEN StatelessPass ELSE StatefulPass
    /\ pc' = "test"
    /\ UNCHANGED <<m_ConfigNew, m_Config, m_nTerminationRetries, m_stats, agent,
                   m_nIterationCount, handler, history>>

\* The pass is over; the event loop that was broken ends, and run() drops m_Config.
Return ==
    /\ pc' = "idle"
    /\ IF process = "stopping" THEN process' = "stopped" /\ m_Config' = NULL
                               ELSE UNCHANGED <<process, m_Config>>

\* Mutant of TestNew: the watchdog looks for a new configuration only when it is idle.
TestNewIdle ==
    /\ MainRuns /\ pc = "test"
    /\ IF m_ConfigNew = NULL \/ calls > 0 THEN Return
                             ELSE pc' = "install" /\ UNCHANGED <<process, m_Config>>
    /\ UNCHANGED <<m_ConfigNew, m_nTerminationRetries, m_stats, m_cdrWriter, service,
                   handler, history>>

\* if( m_ConfigNew ), in the watchdog
TestNew ==
    /\ MainRuns /\ pc = "test"
    /\ IF m_ConfigNew = NULL THEN Return
                             ELSE pc' = "install" /\ UNCHANGED <<process, m_Config>>
    /\ UNCHANGED <<m_ConfigNew, m_nTerminationRetries, m_stats, m_cdrWriter, service,
                   handler, history>>

\* if( m_ConfigNew ), in installConfig
TestInstall ==
    /\ MainRuns /\ pc = "install"
    /\ pc' = IF m_ConfigNew = NULL THEN "rest" ELSE "copy"
    /\ UNCHANGED <<process, m_ConfigNew, config, service, handler, history>>

\* m_Config = m_ConfigNew
Copy ==
    /\ MainRuns /\ pc = "copy"
    /\ m_Config' = m_ConfigNew
    /\ modeChanged' = (modeChanged \/ (m_ConfigNew # NULL
                         /\ Mode[m_ConfigNew] # agent))
    /\ pc' = "reset"
    /\ UNCHANGED <<process, m_ConfigNew, m_nTerminationRetries, m_stats, m_cdrWriter,
                   service, handler, accepted>>

\* m_ConfigNew.reset()
Reset ==
    /\ MainRuns /\ pc = "reset"
    /\ m_ConfigNew' = NULL
    /\ pc' = "rest"
    /\ UNCHANGED <<process, config, service, handler, history>>

\* Mutant of Rest: the retries stay those of the start.
RestOldRetries ==
    /\ MainRuns /\ pc = "rest"
    /\ m_Config # NULL /\ UNCHANGED <<process, m_nTerminationRetries>>
    /\ m_cdrWriter' = IF getCdrConnectInfo(Content[m_Config]) # ""
                      THEN getCdrConnectInfo(Content[m_Config]) ELSE m_cdrWriter
    /\ pc' = "stats"
    /\ UNCHANGED <<m_Config, m_ConfigNew, m_stats, service, handler, history>>

\* The rest of installConfig.  The CDR writer is replaced, never taken away.
Rest ==
    /\ MainRuns /\ pc = "rest"
    /\ \/ /\ m_Config = NULL
          /\ process' = "206 null"
          /\ UNCHANGED <<m_nTerminationRetries, m_cdrWriter, pc>>
       \/ /\ m_Config # NULL
          /\ m_nTerminationRetries' = TerminationRetries[m_Config]
          /\ m_cdrWriter' = IF getCdrConnectInfo(Content[m_Config]) # ""
                            THEN getCdrConnectInfo(Content[m_Config]) ELSE m_cdrWriter
          /\ pc' = "stats"
          /\ UNCHANGED process
    /\ UNCHANGED <<m_Config, m_ConfigNew, m_stats, service, handler, history>>

\* Mutant of OpenStats: the port is opened before the old connector gives it up.
OpenStatsFirst ==
    /\ MainRuns /\ pc = "stats"
    /\ IF getStatsPort(Content[m_Config]) \notin {0, m_stats}
       THEN m_stats' = getStatsPort(Content[m_Config]) ELSE UNCHANGED m_stats
    /\ Return
    /\ UNCHANGED <<m_ConfigNew, m_nTerminationRetries, m_cdrWriter, service, handler,
                   history>>

\* m_stats.reset() closes the port, a new connector opens its own.
OpenStats ==
    /\ MainRuns /\ pc = "stats"
    /\ m_stats' = getStatsPort(Content[m_Config])
    /\ Return
    /\ UNCHANGED <<m_ConfigNew, m_nTerminationRetries, m_cdrWriter, service, handler,
                   history>>

\* The port is in use by another program: the acceptor throws, nothing catches it.
BindFails ==
    /\ MainRuns /\ pc = "stats"
    /\ getStatsPort(Content[m_Config]) # 0
    /\ m_stats' = 0
    /\ process' = "720 bind"
    /\ UNCHANGED <<m_Config, m_ConfigNew, m_nTerminationRetries, m_cdrWriter, service,
                   handler, pc, history>>

-----------------------------------------------------------------------------
(* The event loop, between passes of the watchdog *)

\* An INVITE of a new call is accepted: not while inactive, nor after the last iteration.
NewCall ==
    /\ MainRuns /\ process = "running" /\ pc = "idle"
    /\ isActive(Content[m_Config]) /\ m_nIterationCount # 0
    /\ calls < MaxCalls
    /\ calls' = calls + 1
    /\ m_nIterationCount' = IF m_nIterationCount > 0 THEN m_nIterationCount - 1
                                                     ELSE m_nIterationCount
    /\ UNCHANGED <<process, m_ConfigNew, config, agent, counter, handler, pc, history>>

\* A stateful call ends; a stateless one stays in the map for the watchdog.
EndCall ==
    /\ MainRuns /\ process = "running" /\ pc = "idle"
    /\ agent = "stateful" /\ calls > 0
    /\ calls' = calls - 1
    /\ UNCHANGED <<process, m_ConfigNew, config, agent, m_nIterationCount, counter,
                   handler, pc, history>>

Watchdog == Tick \/ TestNew \/ TestInstall \/ Copy \/ Reset \/ Rest \/ OpenStats \/ BindFails
handleSigHup(t) == Signal(t) \/ ReadFile(t) \/ Validate(t) \/ Discard(t)
Ended == ~Alive /\ UNCHANGED vars

Next ==
    \/ \E t \in Thread : handleSigHup(t)
    \/ Watchdog
    \/ NewCall
    \/ EndCall
    \/ Ended

Spec == Init /\ [][Next]_vars

\* The timer runs for ever; a handler that has begun goes on, and the main thread gets
\* on between signals, however many there are.
Fairness ==
    /\ SF_vars(Watchdog)
    /\ \A t \in Thread : WF_vars(ReadFile(t) \/ Validate(t) \/ Discard(t))
FairSpec == Spec /\ Fairness

-----------------------------------------------------------------------------
\* "Error reading configuration file; no changes will be made" (handleSigHup): what is
\* installed is a valid file at all times, whatever is saved and signalled meanwhile.
NoChangesIfInvalid == m_Config # NULL => m_Config \in ValidFile

\* A configuration that was accepted is installed: it is not lost to a signal that
\* comes while the watchdog installs another one.
AcceptedInstalled ==
    Alive /\ m_ConfigNew = NULL /\ handler[main] = "none" => m_Config = accepted

\* What is accepted does not wait for ever, unless the process ends.
PendingInstalled ==
    \A f \in File :
        (Alive /\ m_ConfigNew = f /\ accepted = f) ~> (m_Config = f \/ ~Alive)

\* Between passes the retries, the statistics port and the CDR writer are all of the
\* configuration that is installed, however many were installed in turn.  (One without
\* a database leaves the writer of an earlier one at work.)
OneConfiguration ==
    process = "running" /\ pc \in {"idle", "test"} =>
        /\ m_nTerminationRetries = TerminationRetries[m_Config]
        /\ m_stats = getStatsPort(Content[m_Config])
        /\ getCdrConnectInfo(Content[m_Config]) \in {"", m_cdrWriter}

\* The process stops only when no call is left, unless a reload has changed the mode:
\* the watchdog then looks at the tables of the wrong agent.
StopsOnlyEmpty == process = "stopped" => calls = 0 \/ modeChanged

\* The versions that can route: every carrier that has a turn has a route with a trunk.
Routable ==
    {f \in File :
        LET turns == m_vecTerminationCarrier(Content[f])
            routes == m_mapTerminationCarrierByName(Content[f])
        IN /\ turns # <<>>
           /\ \A i \in DOMAIN turns : turns[i] \in DOMAIN routes /\ routes[turns[i]] # <<>>}

\* Routing with the installed configuration never meets the assertion, the missing
\* trunk or the empty vector of getTerminationRoute, and there is an attempt for every
\* call unless the file itself says 0 (what TerminationRouting assumes).
RoutesExist ==
    m_Config # NULL =>
        /\ m_Config \in Routable
        /\ (process = "running" /\ m_nTerminationRetries = 0 /\ pc = "idle" =>
              getMaxTerminationAttempts(Content[m_Config]) = 0)

=============================================================================
