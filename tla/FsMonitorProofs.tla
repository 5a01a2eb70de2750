--------------------------- MODULE FsMonitorProofs ---------------------------
(***************************************************************************)
(* What FsMonitor promises for every number of servers, every capacity and *)
(* every max-round-robins: the scan of getAvailableServers misses no       *)
(* server that stays available, although the monitor's thread changes the  *)
(* servers between its iterations and the pointer m_nLastServer moves.     *)
(***************************************************************************)
EXTENDS FsMonitor, TLAPS

\* The servers that the scan has been to; the loop ends before current is start again.
Scanned == IF start <= current THEN start..(current - 1)
                               ELSE (start..(total_servers - 1)) \cup (0..(current - 1))

\* The strengthening of SteadyServersOffered: what holds between two iterations of the
\* loop in getAvailableServers.  A server is in the list if and only if the scan found
\* it available, each once, and the list is not full.
ScanInv ==
    pc = "scan" =>
        /\ total_servers > 0
        /\ IsInjective(results)
        /\ ToSet(results) \subseteq Scanned
        /\ steady \cap Scanned \subseteq ToSet(results)
        /\ Len(results) < nReturnCount

\* The history variable means what it says: a server that has not been unavailable since
\* the call began is available now (FsInstance::isAvailable).
SteadyAvailable == steady \subseteq Available

IInv == TypeOK /\ ScanInv /\ SteadyAvailable /\ SteadyServersOffered

-----------------------------------------------------------------------------
(* The operators *)

\* The successor of a server, or of the end of the list, is a server.
LEMMA SuccessorIsServer ==
    ASSUME total_servers \in Nat \ {0}, NEW s \in 0..total_servers
    PROVE  Successor(s) \in Servers
BY DEF Successor, Servers

\* getAvailableServers returns early exactly when no server is configured.
LEMMA CountRange ==
    ASSUME total_servers \in Nat
    PROVE  /\ nReturnCount \in 0..MAX_SERVERS_TO_TRY
           /\ nReturnCount > 0 <=> total_servers > 0
BY DEF nReturnCount, MAX_SERVERS_TO_TRY

\* What a sequence holds after an element is appended that it did not hold.
LEMMA AppendNew ==
    ASSUME NEW S, NEW seq \in Seq(S), NEW x \in S, x \notin ToSet(seq), IsInjective(seq)
    PROVE  /\ Append(seq, x) \in Seq(S)
           /\ Len(Append(seq, x)) = Len(seq) + 1
           /\ ToSet(Append(seq, x)) = ToSet(seq) \cup {x}
           /\ IsInjective(Append(seq, x))
<1> DEFINE new == Append(seq, x)
<1>1. new \in Seq(S) /\ Len(new) = Len(seq) + 1
  OBVIOUS
<1>2. Len(seq) \in Nat /\ DOMAIN seq = 1..Len(seq) /\ DOMAIN new = 1..(Len(seq) + 1)
  BY <1>1
<1>3. \A i \in 1..Len(seq) : new[i] = seq[i]
  OBVIOUS
<1>4. new[Len(seq) + 1] = x
  OBVIOUS
<1>5. \A i \in 1..Len(seq) : seq[i] # x
  BY <1>2 DEF ToSet
<1> HIDE DEF new
<1>6. ToSet(new) = ToSet(seq) \cup {x}
  <2>1. ASSUME NEW y \in ToSet(new) PROVE y \in ToSet(seq) \cup {x}
    <3>1. PICK i \in 1..(Len(seq) + 1) : y = new[i]
      BY <1>2 DEF ToSet
    <3>2. CASE i = Len(seq) + 1
      BY <3>1, <3>2, <1>4
    <3>3. CASE i \in 1..Len(seq)
      BY <3>1, <3>3, <1>2, <1>3 DEF ToSet
    <3> QED BY <3>2, <3>3, <1>2
  <2>2. ToSet(seq) \subseteq ToSet(new)
    BY <1>2, <1>3 DEF ToSet
  <2>3. x \in ToSet(new)
    BY <1>2, <1>4 DEF ToSet
  <2> QED BY <2>1, <2>2, <2>3
<1>7. IsInjective(new)
  BY <1>2, <1>3, <1>4, <1>5 DEF IsInjective
<1> QED BY <1>1, <1>6, <1>7 DEF new

\* An iteration of the loop visits one more server, and after the last one it has
\* visited them all.
LEMMA ScanGrows ==
    ASSUME total_servers \in Nat \ {0}, start \in Servers, current \in Servers,
           start' = start, total_servers' = total_servers, current' = Successor(current)
    PROVE  /\ current \notin Scanned
           /\ Scanned \subseteq Servers
           /\ current' # start => Scanned' = Scanned \cup {current}
           /\ current' = start => Scanned \cup {current} = Servers
<1>1. CASE current + 1 < total_servers
  <2>1. current' = current + 1
    BY <1>1 DEF Successor
  <2> QED BY <1>1, <2>1 DEF Scanned, Servers
<1>2. CASE current = total_servers - 1
  <2>1. current' = 0
    BY <1>2 DEF Successor, Servers
  <2>2. start <= current
    BY <1>2 DEF Servers
  <2> QED BY <1>2, <2>1, <2>2 DEF Scanned, Servers
<1> QED BY <1>1, <1>2 DEF Servers

-----------------------------------------------------------------------------
(* The invariant *)

\* At startup the pointer, the lists and the counters are in range and no server is on-line.
LEMMA InitIInv == Init => IInv
<1> SUFFICES ASSUME Init PROVE IInv
  OBVIOUS
<1>1. total_servers \in Nat /\ m_RRInterval \in Nat
  BY MonitorAssumption DEF Init
<1>2. TypeOK
  BY <1>1, MonitorAssumption DEF Init, TypeOK, Servers
<1>3. ScanInv /\ SteadyServersOffered /\ SteadyAvailable
  BY DEF Init, ScanInv, SteadyServersOffered, SteadyAvailable
<1> QED BY <1>2, <1>3 DEF IInv

\* Begin: the scan starts with an empty list at the server after the pointer.
LEMMA BeginIInv ==
    ASSUME IInv, Begin
    PROVE  IInv'
<1> USE DEF IInv
<1>1. total_servers \in Nat \ {0}
  BY MonitorAssumption, CountRange DEF TypeOK, Begin
<1>2. Successor(m_nLastServer) \in Servers
  BY <1>1, SuccessorIsServer DEF TypeOK
<1>3. Servers' = Servers /\ Available' = Available /\ nReturnCount' = nReturnCount
  BY DEF Begin, Servers, Available, isAvailable, nReturnCount
<1>4. TypeOK'
  BY <1>1, <1>2, <1>3 DEF TypeOK, Begin, Servers, Available
<1>5. ScanInv'
  <2>1. Scanned' = {}
    BY <1>1, <1>2 DEF Scanned, Begin, Servers
  <2>2. IsInjective(results)' /\ ToSet(results)' = {} /\ Len(results') = 0
    BY DEF Begin, IsInjective, ToSet
  <2>3. nReturnCount' > 0
    BY <1>3 DEF Begin
  <2> QED BY <1>1, <2>1, <2>2, <2>3 DEF ScanInv, Begin
<1>6. SteadyAvailable' /\ SteadyServersOffered'
  BY <1>3 DEF SteadyAvailable, SteadyServersOffered, Begin
<1> QED BY <1>4, <1>5, <1>6

\* An iteration: the server that is visited is added if it is available, which a steady
\* one is, and the pointer moves at most to the end of the list.
LEMMA ScanIInv ==
    ASSUME IInv, Scan
    PROVE  IInv'
<1> USE DEF IInv
<1>1. total_servers \in Nat \ {0} /\ total_servers' = total_servers /\ start' = start
  BY MonitorAssumption DEF TypeOK, Scan, ScanInv
<1>2. start \in Servers /\ current \in Servers
  BY <1>1 DEF TypeOK, Servers
<1>3. Servers' = Servers /\ Available' = Available /\ nReturnCount' = nReturnCount
      /\ steady' = steady
  BY DEF Scan, Servers, Available, isAvailable, nReturnCount
<1>4. current' = Successor(current) /\ current' \in Servers
  BY <1>1, <1>2, SuccessorIsServer DEF Scan, Servers
<1>5. /\ current \notin Scanned
      /\ Scanned \subseteq Servers
      /\ current' # start => Scanned' = Scanned \cup {current}
      /\ current' = start => Scanned \cup {current} = Servers
  BY <1>1, <1>2, <1>4, ScanGrows
<1>6. /\ results \in Seq(Servers) /\ IsInjective(results)
      /\ ToSet(results) \subseteq Scanned
      /\ steady \cap Scanned \subseteq ToSet(results)
      /\ Len(results) < nReturnCount /\ nReturnCount \in Nat
  BY <1>1, CountRange DEF Scan, ScanInv, TypeOK, MAX_SERVERS_TO_TRY
<1>7. /\ results' \in Seq(Servers) /\ IsInjective(results')
      /\ ToSet(results') \subseteq Scanned \cup {current}
      /\ steady \cap (Scanned \cup {current}) \subseteq ToSet(results')
      /\ Len(results') <= nReturnCount
  <2>1. CASE isAvailable(current)
    <3>1. results' = Append(results, current)
      BY <2>1 DEF Scan
    <3>2. /\ results' \in Seq(Servers) /\ IsInjective(results')
          /\ ToSet(results') = ToSet(results) \cup {current}
          /\ Len(results') = Len(results) + 1
      BY <3>1, <1>2, <1>5, <1>6, AppendNew
    <3>3. Len(results') <= nReturnCount
      <4>1. Len(results) \in Nat
        BY <1>6
      <4> QED BY <4>1, <3>2, <1>6
    <3> QED BY <3>2, <3>3, <1>6
  <2>2. CASE ~isAvailable(current)
    <3>1. results' = results
      BY <2>2 DEF Scan
    <3>2. current \notin steady
      BY <2>2 DEF SteadyAvailable, Available
    <3>3. Len(results) <= nReturnCount
      <4>1. Len(results) \in Nat
        BY <1>6
      <4> QED BY <4>1, <1>6
    <3> QED BY <3>1, <3>2, <3>3, <1>6
  <2> QED BY <2>1, <2>2
<1>8. TypeOK'
  <2>1. m_nLastServer' \in 0..total_servers
    BY <1>1, <1>2 DEF Scan, SkipServer, TypeOK, Servers
  <2> QED BY <2>1, <1>1, <1>2, <1>3, <1>4, <1>7 DEF TypeOK, Scan
<1>9. ScanInv'
  <2> SUFFICES ASSUME pc' = "scan" PROVE ScanInv'
    BY DEF ScanInv
  <2>1. current' # start /\ Len(results') < nReturnCount
    BY DEF Scan
  <2> QED BY <2>1, <1>1, <1>3, <1>5, <1>7 DEF ScanInv
<1>10. SteadyServersOffered'
  <2> SUFFICES ASSUME pc' = "sort" PROVE SteadyServersOffered'
    BY DEF SteadyServersOffered
  <2>1. ~(current' # start /\ Len(results') < nReturnCount)
    BY DEF Scan
  <2>2. steady \subseteq Servers
    BY DEF TypeOK
  <2> QED BY <2>1, <2>2, <1>3, <1>5, <1>7 DEF SteadyServersOffered
<1>11. SteadyAvailable'
  BY <1>3 DEF SteadyAvailable
<1> QED BY <1>8, <1>9, <1>10, <1>11

\* The returns, with or without a server: the counter of round robins stays within
\* its interval.
LEMMA ReturnIInv ==
    ASSUME IInv, NoServersDefined \/ NoneAvailable \/ ReturnRoundRobin \/ ReturnLeastLoaded
    PROVE  IInv'
<1> USE DEF IInv
<1>1. total_servers \in Nat /\ m_RRInterval \in Nat
  BY MonitorAssumption DEF TypeOK
<1>2. /\ pc' = "idle"
      /\ UNCHANGED <<total_servers, m_RRInterval, capacity, m_nLastServer, start, current,
                     steady>>
  BY DEF NoServersDefined, NoneAvailable, ReturnRoundRobin, ReturnLeastLoaded, ReturnNone,
         locals
<1>3. Servers' = Servers /\ Available' = Available
  BY <1>2 DEF Servers, Available, isAvailable
<1>4. /\ results' \in Seq(Servers) /\ chosen' \in Servers \cup {NULL}
      /\ m_nLastRR' \in 0..m_RRInterval
  <2>1. CASE NoServersDefined \/ NoneAvailable
    BY <2>1 DEF NoServersDefined, NoneAvailable, ReturnNone, locals, TypeOK
  <2>2. CASE ReturnRoundRobin
    <3>1. results \in Seq(Servers) /\ results # <<>> /\ results' = results
      BY <2>2 DEF ReturnRoundRobin, TypeOK, locals
    <3>2. results[1] \in Servers
      BY <3>1
    <3>3. m_nLastRR' \in 0..m_RRInterval
      BY <2>2, <1>1 DEF ReturnRoundRobin, doLeastLoaded, TypeOK
    <3> QED BY <2>2, <3>1, <3>2, <3>3 DEF ReturnRoundRobin
  <2>3. CASE ReturnLeastLoaded
    <3>1. PICK s \in Servers : results' = <<s>> \o results /\ chosen' = s
      BY <2>3 DEF ReturnLeastLoaded, SortedFront
    <3>2. results' \in Seq(Servers)
      BY <3>1 DEF TypeOK
    <3> QED BY <2>3, <1>1, <3>1, <3>2 DEF ReturnLeastLoaded
  <2> QED BY <2>1, <2>2, <2>3
<1>5. TypeOK'
  BY <1>2, <1>3, <1>4 DEF TypeOK
<1>6. ScanInv' /\ SteadyServersOffered'
  BY <1>2 DEF ScanInv, SteadyServersOffered
<1>7. SteadyAvailable'
  BY <1>2, <1>3 DEF SteadyAvailable
<1> QED BY <1>5, <1>6, <1>7

\* The monitor's thread: a server that becomes unavailable is no longer steady, and one
\* that becomes available does not become steady.
LEMMA StatusUpdateIInv ==
    ASSUME IInv, NEW s \in Servers, StatusUpdate(s)
    PROVE  IInv'
<1> USE DEF IInv
<1>1. UNCHANGED <<total_servers, m_RRInterval, m_nLastServer, m_nLastRR, pc, start, current,
                  results, chosen>>
  BY DEF StatusUpdate, locals
<1>2. Servers' = Servers /\ nReturnCount' = nReturnCount /\ Scanned' = Scanned
  BY <1>1 DEF Servers, nReturnCount, Scanned
<1>3. PICK n \in 0..MaxCapacity : capacity' = [capacity EXCEPT ![s] = n]
  BY DEF StatusUpdate
<1>4. capacity' \in [Servers -> 0..MaxCapacity]
  BY <1>3 DEF TypeOK
<1>5. steady' = steady \ {t \in Servers : capacity'[t] = 0}
  BY DEF StatusUpdate
<1>6. TypeOK'
  BY <1>1, <1>2, <1>4, <1>5 DEF TypeOK
<1>7. SteadyAvailable'
  <2>1. \A t \in Servers : capacity'[t] # 0 => capacity'[t] > 0
    BY <1>4, MonitorAssumption
  <2>2. steady' \subseteq {t \in Servers : capacity'[t] > 0}
    BY <2>1, <1>5 DEF TypeOK
  <2> QED BY <2>2, <1>2 DEF SteadyAvailable, Available, isAvailable
<1>8. ScanInv' /\ SteadyServersOffered'
  BY <1>1, <1>2, <1>5 DEF ScanInv, SteadyServersOffered
<1> QED BY <1>6, <1>7, <1>8

\* Every step of either thread preserves the invariant.
LEMMA NextIInv == IInv /\ [Next]_vars => IInv'
<1> SUFFICES ASSUME IInv, [Next]_vars PROVE IInv'
  OBVIOUS
<1>1. CASE Begin
  BY <1>1, BeginIInv
<1>2. CASE Scan
  BY <1>2, ScanIInv
<1>3. CASE NoServersDefined \/ NoneAvailable \/ ReturnRoundRobin \/ ReturnLeastLoaded
  BY <1>3, ReturnIInv
<1>4. ASSUME NEW s \in Servers, StatusUpdate(s) PROVE IInv'
  BY <1>4, StatusUpdateIInv
<1>5. CASE UNCHANGED vars
  BY <1>5 DEF vars, locals, IInv, TypeOK, ScanInv, SteadyAvailable, SteadyServersOffered,
              Servers, Available, isAvailable, nReturnCount, Scanned
<1> QED BY <1>1, <1>2, <1>3, <1>4, <1>5 DEF Next, getAvailableServers

\* The strengthened invariant holds in every reachable state.
THEOREM ScanInvariance == Spec => []IInv
BY InitIInv, NextIInv, PTL DEF Spec

-----------------------------------------------------------------------------
(* The results *)

\* The pointers and counters of getAvailableServers stay in range: m_servers is never
\* read past its end, whenever the pointer moves.
THEOREM MonitorTypes == Spec => []TypeOK
<1>1. IInv => TypeOK
  BY DEF IInv
<1> QED BY <1>1, ScanInvariance, PTL

\* The scan of getAvailableServers offers every server that was available throughout,
\* unless the list is full, and none twice.
THEOREM SteadyOffered == Spec => []SteadyServersOffered
<1>1. IInv => SteadyServersOffered
  BY DEF IInv
<1> QED BY <1>1, ScanInvariance, PTL

\* getAvailableServers returns false ("No available servers found at this time") only if
\* no server was available throughout the call.
THEOREM NoFalseAlarm == Spec => [][NoneAvailable => steady = {}]_vars
<1>1. IInv /\ [Next]_vars => [NoneAvailable => steady = {}]_vars
  <2> SUFFICES ASSUME IInv, NoneAvailable PROVE steady = {}
    OBVIOUS
  <2>1. results = <<>> /\ pc = "sort"
    BY DEF NoneAvailable
  <2>2. Len(results) = 0 /\ ToSet(results) = {}
    BY <2>1 DEF ToSet
  <2>3. CASE nReturnCount > 0
    BY <2>1, <2>2, <2>3 DEF IInv, SteadyServersOffered
  <2>4. CASE ~(nReturnCount > 0)
    <3>1. total_servers = 0
      BY <2>4, CountRange, MonitorAssumption DEF IInv, TypeOK
    <3> QED BY <3>1 DEF IInv, TypeOK, Servers
  <2> QED BY <2>3, <2>4
<1> QED BY <1>1, ScanInvariance, PTL DEF Spec

=============================================================================
