------------------------------ MODULE FsMonitor ------------------------------
(***************************************************************************)
(* FsMonitor::getAvailableServers (fs-monitor.cpp): the controller's thread *)
(* picks the FreeSWITCH servers a call is offered to, round robin with an  *)
(* occasional call to the least loaded one.  Its mutex is not taken by the *)
(* monitor's thread, whose status updates (FsInstance) therefore fall      *)
(* between the iterations of the loop: each iteration is an action here.   *)
(***************************************************************************)
EXTENDS Integers, FiniteSets, SequencesExt

CONSTANTS
    Totals,          \* numbers of servers that may be configured
    MaxCapacity,     \* bound: levels of free capacity a server may report
    RRIntervals,     \* values of inbound.max-round-robins
    NULL

MAX_SERVERS_TO_TRY == 3

ASSUME MonitorAssumption ==
    /\ Totals \subseteq Nat /\ IsFiniteSet(Totals)
    /\ RRIntervals \subseteq Nat
    /\ MaxCapacity \in Nat
    /\ NULL \notin Nat

VARIABLES
    total_servers,   \* m_servers.size()
    m_RRInterval,
    capacity,        \* what FsInstance reports: 0 if it is not available
    m_nLastServer,
    m_nLastRR,
    pc,              \* the controller's thread: "idle", "scan", "sort"
    start, current, results,   \* the locals of getAvailableServers
    steady,          \* history: servers available ever since the call began
    chosen           \* servers[0] of the latest call, NULL if it returned false

locals == <<start, current, results>>
vars == <<total_servers, m_RRInterval, capacity, m_nLastServer, m_nLastRR, pc, locals,
          steady, chosen>>

Servers == 0..(total_servers - 1)
isAvailable(s) == capacity[s] > 0
Available == {s \in Servers : isAvailable(s)}

TypeOK ==
    /\ total_servers \in Totals
    /\ m_RRInterval \in RRIntervals
    /\ capacity \in [Servers -> 0..MaxCapacity]
    /\ m_nLastServer \in 0..total_servers
    /\ m_nLastRR \in 0..m_RRInterval
    /\ pc \in {"idle", "scan", "sort"}
    /\ start \in Servers \cup {0} /\ current \in Servers \cup {0}
    /\ results \in Seq(Servers)
    /\ steady \subseteq Servers
    /\ chosen \in Servers \cup {NULL}

\* reset, setRoundRobinInterval and run, at startup; every server starts off-line.
Init ==
    /\ total_servers \in Totals
    /\ m_RRInterval \in RRIntervals
    /\ capacity = [s \in Servers |-> 0]
    /\ m_nLastServer = 0
    /\ m_nLastRR = 0
    /\ pc = "idle"
    /\ start = 0 /\ current = 0 /\ results = <<>>
    /\ steady = {}
    /\ chosen = NULL

-----------------------------------------------------------------------------
\* min(MAX_SERVERS_TO_TRY, total_servers)
nReturnCount == IF total_servers < MAX_SERVERS_TO_TRY THEN total_servers
                                                      ELSE MAX_SERVERS_TO_TRY

\* ++s < total_servers ? s : 0
Successor(s) == IF s + 1 < total_servers THEN s + 1 ELSE 0

\* Returns false.
ReturnNone ==
    /\ chosen' = NULL
    /\ pc' = "idle"

\* Locks the mutex and takes the starting point of the scan.
Begin ==
    /\ pc = "idle"
    /\ nReturnCount > 0
    /\ m_nLastServer' = Successor(m_nLastServer)
    /\ start' = m_nLastServer' /\ current' = m_nLastServer'
    /\ results' = <<>>
    /\ steady' = Available
    /\ pc' = "scan"
    /\ UNCHANGED <<total_servers, m_RRInterval, capacity, m_nLastRR, chosen>>

\* "No servers defined; possible configuration error"
NoServersDefined ==
    /\ pc = "idle"
    /\ nReturnCount = 0
    /\ ReturnNone
    /\ UNCHANGED <<total_servers, m_RRInterval, capacity, m_nLastServer, m_nLastRR,
                   locals, steady>>

\* Mutant of SkipServer: it moves for servers that it does not point to.
SkipFromAnywhere == m_nLastServer' =
    IF ~isAvailable(current) THEN m_nLastServer + 1 ELSE m_nLastServer

\* The pointer steps over the servers that are not available, to the end of the list.
SkipServer == m_nLastServer' =
    IF ~isAvailable(current) /\ m_nLastServer = current
    THEN m_nLastServer + 1 ELSE m_nLastServer

\* Mutant of Scan: the loop ends at the pointer, which moves, not at its start.
ScanToPointer ==
    /\ pc = "scan"
    /\ results' = IF isAvailable(current) THEN Append(results, current) ELSE results
    /\ SkipServer
    /\ current' = Successor(current)
    /\ pc' = IF current' # m_nLastServer' /\ Len(results') < nReturnCount
             THEN "scan" ELSE "sort"
    /\ UNCHANGED <<total_servers, m_RRInterval, capacity, m_nLastRR, start, steady,
                   chosen>>

\* One iteration of the loop and its condition.
Scan ==
    /\ pc = "scan"
    /\ results' = IF isAvailable(current) THEN Append(results, current) ELSE results
    /\ SkipServer
    /\ current' = Successor(current)
    /\ pc' = IF current' # start /\ Len(results') < nReturnCount THEN "scan" ELSE "sort"
    /\ UNCHANGED <<total_servers, m_RRInterval, capacity, m_nLastRR, start, steady,
                   chosen>>

\* "No available servers found at this time"
NoneAvailable ==
    /\ pc = "sort"
    /\ results = <<>>
    /\ ReturnNone
    /\ UNCHANGED <<total_servers, m_RRInterval, capacity, m_nLastServer, m_nLastRR,
                   locals, steady>>

\* Whether the call falls due to the least loaded server.
doLeastLoaded == m_RRInterval > 0 /\ total_servers > 1 /\ m_nLastRR + 1 > m_RRInterval

\* Returns the servers in round robin order.
ReturnRoundRobin ==
    /\ pc = "sort"
    /\ results # <<>>
    /\ ~doLeastLoaded
    /\ m_nLastRR' = IF m_RRInterval > 0 /\ total_servers > 1 THEN m_nLastRR + 1
                                                             ELSE m_nLastRR
    /\ chosen' = results[1]
    /\ pc' = "idle"
    /\ UNCHANGED <<total_servers, m_RRInterval, capacity, m_nLastServer, locals, steady>>

\* capacity_sorter: a comes before b.
capacity_sorter(a, b) ==
    isAvailable(a) /\ (isAvailable(b) => capacity[a] > capacity[b])

\* std::sort may put any server first that none has to precede.
SortedFront == {s \in Servers : \A t \in Servers : ~capacity_sorter(t, s)}

\* Returns the least loaded server in front of them.
ReturnLeastLoaded ==
    /\ pc = "sort"
    /\ results # <<>>
    /\ doLeastLoaded
    /\ m_nLastRR' = 0
    /\ \E s \in SortedFront : results' = <<s>> \o results /\ chosen' = s
    /\ pc' = "idle"
    /\ UNCHANGED <<total_servers, m_RRInterval, capacity, m_nLastServer, start, current,
                   steady>>

\* The monitor's thread: a status, a log-in or a disconnection of one server.
StatusUpdate(s) ==
    /\ \E n \in 0..MaxCapacity : capacity' = [capacity EXCEPT ![s] = n]
    /\ steady' = steady \ {t \in Servers : capacity'[t] = 0}
    /\ UNCHANGED <<total_servers, m_RRInterval, m_nLastServer, m_nLastRR, pc, locals,
                   chosen>>

getAvailableServers ==
    \/ NoServersDefined
    \/ Begin
    \/ Scan
    \/ NoneAvailable
    \/ ReturnRoundRobin
    \/ ReturnLeastLoaded

Next == getAvailableServers \/ \E s \in Servers : StatusUpdate(s)

Spec == Init /\ [][Next]_vars

\* Calls keep coming in, and the controller's thread does not stop within one.
FairSpec == Spec /\ WF_vars(getAvailableServers)

-----------------------------------------------------------------------------
\* The scan offers every server that was available throughout, unless the list is full,
\* and none twice: "no available servers" is never said of a system that has one,
\* whatever the monitor's thread does meanwhile.
SteadyServersOffered ==
    pc = "sort" =>
        /\ IsInjective(results)
        /\ Len(results) < nReturnCount => steady \subseteq ToSet(results)
        /\ Len(results) <= nReturnCount

\* While calls come in and every one is made in round robin (max-round-robins 0), a
\* server that stays available gets calls again and again, however the others come and
\* go.
NoServerStarved ==
    \A s \in UNION {0..(n - 1) : n \in Totals} :
        m_RRInterval = 0 /\ <>[](s \in Servers /\ isAvailable(s)) => []<>(chosen = s)

=============================================================================
