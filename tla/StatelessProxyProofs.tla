------------------------ MODULE StatelessProxyProofs ------------------------
(***************************************************************************)
(* Proofs about StatelessProxy, for any number of calls.  The assertion    *)
(* at line 655 holds because the queue of completed call-ids and the map   *)
(* of calls agree at every return to the event loop.                       *)
(***************************************************************************)
EXTENDS StatelessProxy, TLAPS, WellFoundedInduction

\* While the process runs the countdown has not reached 0.
CountdownLeft == process = "running" => counter # 0

IInv == TypeOK /\ QueueMatchesMap /\ WatchdogFindsCalls /\ CountdownLeft

\* Names for the proof: the queue, and the calls that belong in it.
deq == m_deqCompletedCallIds
Completed(c) == InProgress(c) /\ m_mapInvitesInProgress[c].m_bComplete

\* A set of natural numbers that is not empty has a smallest element.
LEMMA Smallest ==
    ASSUME NEW T, T \subseteq Nat, T # {}
    PROVE \E x \in T : \A y \in T : x <= y
<1> DEFINE R == OpToRel(<, Nat)
<1>1. IsWellFoundedOn(R, Nat)
  BY NatLessThanWellFounded
<1>2. \A x, y \in Nat : x < y => <<x, y>> \in R
  BY DEF OpToRel
<1> HIDE DEF R
<1>3. PICK x \in T : \A y \in T : ~ (<<y, x>> \in R)
  BY <1>1, WFMin
<1>4. ASSUME NEW y \in T PROVE x <= y
  <2>1. x \in Nat /\ y \in Nat /\ ~ (y < x)
    BY <1>2, <1>3
  <2> QED
    BY <2>1
<1> QED
  BY <1>4

\* The watchdog's loop erases a well-defined number of calls.
LEMMA ErasedPrefix ==
    ASSUME TypeOK
    PROVE /\ Erased \in 0..Len(deq)
          /\ \A i \in 1..Erased : Expired(i)
<1>0. deq \in Seq(CallId)
  BY DEF TypeOK, deq
<1>1. Len(deq) \in Nat
  BY <1>0
<1> DEFINE T == {n \in 0..Len(deq) : n = Len(deq) \/ ~Expired(n + 1)}
<1>2. T \subseteq Nat /\ Len(deq) \in T
  BY <1>1
<1>3. PICK n \in T : \A m \in T : n <= m
  BY <1>2, Smallest
<1>4. n \in 0..Len(deq) /\ (n < Len(deq) => ~Expired(n + 1))
  BY <1>1, <1>3
<1>5. ASSUME NEW i \in 1..n PROVE Expired(i)
  <2>1. i - 1 \in 0..Len(deq) /\ i - 1 # Len(deq) /\ ~ (n <= i - 1) /\ (i - 1) + 1 = i
    BY <1>1, <1>4
  <2>2. i - 1 \notin T
    BY <2>1, <1>3
  <2> QED
    BY <2>1, <2>2
<1>6. \E k \in 0..Len(deq) : /\ \A i \in 1..k : Expired(i)
                             /\ k < Len(deq) => ~Expired(k + 1)
  BY <1>4, <1>5
<1> QED
  BY <1>6 DEF Erased, deq

\* Under the invariant every entry of the queue is found.
LEMMA AllFound ==
    ASSUME TypeOK, QueueMatchesMap, NEW i \in 1..Len(deq)
    PROVE Found(i)
<1>0. Len(deq) \in Nat
  <2>1. deq \in Seq(CallId)
    BY DEF TypeOK, deq
  <2> QED
    BY <2>1
<1>1. \A j \in 1..(i - 1) : j \in 1..Len(deq) /\ j # i
  BY <1>0
<1> QED
  BY <1>1 DEF Found, QueueMatchesMap, deq

\* QueueMatchesMap depends on the queue and on which calls are completed only.
LEMMA SameCompleted ==
    ASSUME TypeOK, QueueMatchesMap, UNCHANGED m_deqCompletedCallIds,
           \A c \in CallId : Completed(c)' <=> Completed(c)
    PROVE QueueMatchesMap'
<1>1. \A i \in 1..Len(deq) : deq[i] \in CallId
  <2>1. deq \in Seq(CallId)
    BY DEF TypeOK, deq
  <2> QED
    BY <2>1
<1> QED
  BY <1>1 DEF QueueMatchesMap, Completed, InProgress, deq

\* Completing a call that is in the map and not yet completed.
LEMMA CompletePreserves ==
    ASSUME TypeOK, QueueMatchesMap, NEW c \in CallId, InProgress(c), ~Completed(c),
           Completed(c)', deq' = Append(deq, c),
           \A d \in CallId \ {c} : Completed(d)' <=> Completed(d)
    PROVE QueueMatchesMap'
<1>1. deq \in Seq(CallId)
  BY DEF TypeOK, deq
<1>2. /\ Len(deq) \in Nat /\ Len(deq') = Len(deq) + 1
      /\ \A i \in 1..Len(deq) : deq'[i] = deq[i] /\ deq[i] \in CallId
      /\ deq'[Len(deq) + 1] = c
  BY <1>1
<1>3. \A i \in 1..Len(deq') : i \in 1..Len(deq) \/ i = Len(deq) + 1
  BY <1>2
<1>4. \A i \in 1..Len(deq) : Completed(deq[i]) /\ deq[i] # c
  BY DEF QueueMatchesMap, Completed, deq
<1>5. \A i, j \in 1..Len(deq') : deq'[i] = deq'[j] => i = j
  <2>1. \A i, j \in 1..Len(deq) : deq[i] = deq[j] => i = j
    BY DEF QueueMatchesMap, deq
  <2> QED
    BY <2>1, <1>2, <1>3, <1>4
<1>6. ASSUME NEW i \in 1..Len(deq')
      PROVE /\ m_mapInvitesInProgress'[deq'[i]] # NULL
            /\ m_mapInvitesInProgress'[deq'[i]].m_bComplete
  <2>1. CASE i \in 1..Len(deq)
    <3>1. deq[i] \in CallId \ {c} /\ Completed(deq[i]) /\ deq'[i] = deq[i]
      BY <2>1, <1>2, <1>4
    <3> QED
      BY <3>1 DEF Completed, InProgress
  <2>2. CASE i = Len(deq) + 1
    BY <2>2, <1>2 DEF Completed, InProgress
  <2> QED
    BY <2>1, <2>2, <1>3
<1>7. ASSUME NEW d \in CallId, Completed(d)'
      PROVE \E i \in 1..Len(deq') : deq'[i] = d
  <2>1. CASE d = c
    <3>1. Len(deq) + 1 \in 1..Len(deq') /\ deq'[Len(deq) + 1] = d
      BY <2>1, <1>2
    <3> QED
      BY <3>1
  <2>2. CASE d # c
    <3>1. PICK i \in 1..Len(deq) : deq[i] = d
      BY <2>2, <1>7 DEF QueueMatchesMap, Completed, deq
    <3>2. i \in 1..Len(deq') /\ deq'[i] = d
      BY <3>1, <1>2
    <3> QED
      BY <3>2
  <2> QED
    BY <2>1, <2>2
<1> QED
  BY <1>5, <1>6, <1>7 DEF QueueMatchesMap, Completed, InProgress, deq

\* Erasing the first calls of the queue from both.
LEMMA ErasePreserves ==
    ASSUME TypeOK, QueueMatchesMap, NEW n \in 0..Len(deq),
           deq' = SubSeq(deq, n + 1, Len(deq)),
           m_mapInvitesInProgress' = [c \in CallId |->
              IF c \in {deq[i] : i \in 1..n} THEN NULL ELSE m_mapInvitesInProgress[c]]
    PROVE QueueMatchesMap'
<1>1. deq \in Seq(CallId)
  BY DEF TypeOK, deq
<1>2. /\ Len(deq) \in Nat /\ Len(deq') = Len(deq) - n
      /\ \A i \in 1..Len(deq') : deq'[i] = deq[i + n] /\ i + n \in 1..Len(deq)
      /\ \A i \in 1..Len(deq) : deq[i] \in CallId
  BY <1>1
<1>3. \A i, j \in 1..Len(deq) : deq[i] = deq[j] => i = j
  BY DEF QueueMatchesMap, deq
<1>4. \A i \in 1..Len(deq') : i + n \notin 1..n
  BY <1>2
<1>5. ASSUME NEW i \in 1..Len(deq')
      PROVE /\ m_mapInvitesInProgress'[deq'[i]] # NULL
            /\ m_mapInvitesInProgress'[deq'[i]].m_bComplete
  <2>1. i + n \in 1..Len(deq) /\ deq'[i] = deq[i + n] /\ deq[i + n] \in CallId
    BY <1>2
  <2>2. \A k \in 1..n : k \in 1..Len(deq) /\ k # i + n
    BY <1>2, <1>4
  <2>3. deq[i + n] \notin {deq[k] : k \in 1..n}
    BY <1>3, <2>1, <2>2
  <2>4. m_mapInvitesInProgress'[deq[i + n]] = m_mapInvitesInProgress[deq[i + n]]
    BY <2>1, <2>3
  <2>5. /\ m_mapInvitesInProgress[deq[i + n]] # NULL
        /\ m_mapInvitesInProgress[deq[i + n]].m_bComplete
    BY <2>1 DEF QueueMatchesMap, InProgress, deq
  <2> QED
    BY <2>1, <2>4, <2>5
<1>6. \A i, j \in 1..Len(deq') : deq'[i] = deq'[j] => i = j
  <2> SUFFICES ASSUME NEW i \in 1..Len(deq'), NEW j \in 1..Len(deq'), deq'[i] = deq'[j]
               PROVE i = j
    OBVIOUS
  <2>1. i + n \in 1..Len(deq) /\ j + n \in 1..Len(deq) /\ deq[i + n] = deq[j + n]
    BY <1>2
  <2>2. i + n = j + n
    BY <1>3, <2>1
  <2>3. Len(deq') \in Nat
    BY <1>2
  <2> QED
    BY <2>2, <2>3
<1>7. ASSUME NEW c \in CallId, m_mapInvitesInProgress'[c] # NULL,
             m_mapInvitesInProgress'[c].m_bComplete
      PROVE \E i \in 1..Len(deq') : deq'[i] = c
  <2>1. c \notin {deq[i] : i \in 1..n} /\ m_mapInvitesInProgress'[c] = m_mapInvitesInProgress[c]
    BY <1>7
  <2>2. PICK k \in 1..Len(deq) : deq[k] = c
    BY <2>1, <1>7 DEF QueueMatchesMap, InProgress, deq
  <2>3. k \notin 1..n
    BY <2>1, <2>2
  <2>4. k - n \in 1..Len(deq') /\ (k - n) + n = k
    BY <2>3, <1>2
  <2>5. deq'[k - n] = c
    BY <2>2, <2>4, <1>2
  <2> QED
    BY <2>4, <2>5
<1> QED
  BY <1>5, <1>6, <1>7 DEF QueueMatchesMap, InProgress, deq

-----------------------------------------------------------------------------
(* The steps *)

\* What a request of a known call does.
LEMMA ForwardRequestStep ==
    ASSUME TypeOK, QueueMatchesMap, NEW c \in CallId, ForwardRequest(c)
    PROVE /\ QueueMatchesMap'
          /\ m_mapInvitesInProgress' \in [CallId -> Entry \cup {NULL}]
          /\ UNCHANGED <<process, m_nIterationCount, m_deqCompletedCallIds, counter>>
<1> DEFINE e == [m_mapInvitesInProgress[c] EXCEPT !.m_expireTime = Wait]
<1>1. m_mapInvitesInProgress[c] \in Entry /\ m_mapInvitesInProgress[c] # NULL
  BY DEF ForwardRequest, InProgress, TypeOK
<1>2. e \in Entry /\ e # NULL /\ e.m_bComplete = m_mapInvitesInProgress[c].m_bComplete
  <2>1. e \in Entry /\ e.m_bComplete = m_mapInvitesInProgress[c].m_bComplete
    BY <1>1, BoundAssumption DEF Entry
  <2> QED
    BY <2>1, CallAssumption
<1>3. /\ m_mapInvitesInProgress' = [m_mapInvitesInProgress EXCEPT ![c] = e]
      /\ UNCHANGED <<process, m_nIterationCount, m_deqCompletedCallIds, counter>>
  BY DEF ForwardRequest, updateExpireTime
<1> HIDE DEF e
<1>4. m_mapInvitesInProgress' \in [CallId -> Entry \cup {NULL}]
  BY <1>2, <1>3 DEF TypeOK
<1>5. /\ m_mapInvitesInProgress'[c] = e
      /\ \A d \in CallId \ {c} : m_mapInvitesInProgress'[d] = m_mapInvitesInProgress[d]
  BY <1>3 DEF TypeOK
<1>6. \A d \in CallId : Completed(d)' <=> Completed(d)
  BY <1>1, <1>2, <1>5 DEF Completed, InProgress
<1> QED
  BY <1>3, <1>4, <1>6, SameCompleted

\* A new INVITE enters a call that is not completed.
LEMMA InviteStep ==
    ASSUME IInv, NEW c \in CallId, Invite(c)
    PROVE IInv'
<1> USE DEF IInv
<1> DEFINE e == [m_bComplete |-> FALSE, m_expireTime |-> 0]
<1>1. /\ ~InProgress(c) /\ m_nIterationCount # 0
      /\ m_mapInvitesInProgress' = [m_mapInvitesInProgress EXCEPT ![c] = e]
      /\ m_nIterationCount' = IF m_nIterationCount > 0 THEN m_nIterationCount - 1
                                                       ELSE m_nIterationCount
      /\ call' = [call EXCEPT ![c] = "inviting"]
      /\ UNCHANGED <<process, active, m_deqCompletedCallIds, counter, requests>>
  BY DEF Invite, NewInvite
<1>2. e \in Entry /\ ~ e.m_bComplete
  BY BoundAssumption DEF Entry
<1> HIDE DEF e
<1>3. m_nIterationCount' \in Nat \cup {-1}
  <2>1. m_nIterationCount \in Nat \cup {-1}
    BY DEF TypeOK
  <2> QED
    BY <1>1, <2>1
<1>4. call' \in [CallId -> CallStates]
  BY <1>1 DEF TypeOK, CallStates
<1>5. m_mapInvitesInProgress' \in [CallId -> Entry \cup {NULL}]
  BY <1>1, <1>2 DEF TypeOK
<1>6. TypeOK'
  BY <1>1, <1>3, <1>4, <1>5 DEF TypeOK
<1>7. /\ m_mapInvitesInProgress'[c] = e
      /\ \A d \in CallId \ {c} : m_mapInvitesInProgress'[d] = m_mapInvitesInProgress[d]
  BY <1>1 DEF TypeOK
<1>8. \A d \in CallId : Completed(d)' <=> Completed(d)
  BY <1>1, <1>2, <1>7 DEF Completed, InProgress
<1> QED
  BY <1>1, <1>6, <1>8, SameCompleted DEF WatchdogFindsCalls, CountdownLeft

\* A later request, an ACK included.
LEMMA RequestStep ==
    ASSUME IInv, NEW c \in CallId, Request(c) \/ Ack(c)
    PROVE IInv'
<1> USE DEF IInv
<1>1. call' \in [CallId -> CallStates] /\ requests' \in [CallId -> 0..MaxRequests]
  <2>1. CASE Request(c)
    <3>1. requests[c] + 1 \in 0..MaxRequests
      <4>1. requests[c] \in 0..MaxRequests /\ requests[c] < MaxRequests
        BY <2>1 DEF Request, TypeOK
      <4> QED
        BY <4>1, BoundAssumption
    <3> QED
      BY <2>1, <3>1 DEF Request, TypeOK
  <2>2. CASE Ack(c)
    BY <2>2 DEF Ack, TypeOK, CallStates
  <2> QED
    BY <2>1, <2>2
<1>2. active' = active
  BY DEF Request, Ack
<1>3. CASE ForwardRequest(c)
  <2>1. /\ QueueMatchesMap'
        /\ m_mapInvitesInProgress' \in [CallId -> Entry \cup {NULL}]
        /\ UNCHANGED <<process, m_nIterationCount, m_deqCompletedCallIds, counter>>
    BY <1>3, ForwardRequestStep
  <2>2. TypeOK'
    BY <1>1, <1>2, <2>1 DEF TypeOK
  <2> QED
    BY <2>1, <2>2 DEF WatchdogFindsCalls, CountdownLeft
<1>4. CASE process' = "821 end iterator" /\ UNCHANGED proxy
  <2>1. TypeOK'
    BY <1>1, <1>2, <1>4 DEF TypeOK, proxy
  <2>2. QueueMatchesMap'
    BY <1>4 DEF QueueMatchesMap, InProgress, proxy
  <2> QED
    BY <1>4, <2>1, <2>2 DEF WatchdogFindsCalls, CountdownLeft
<1> QED
  BY <1>3, <1>4 DEF Request, Ack

\* A 200 to the INVITE.
LEMMA Response200Step ==
    ASSUME IInv, NEW c \in CallId, Response200(c)
    PROVE IInv'
<1> USE DEF IInv
<1>1. /\ call' = [call EXCEPT ![c] = "answered"]
      /\ UNCHANGED <<process, active, m_nIterationCount, counter, requests>>
      /\ IF InProgress(c) THEN setCompleted(c)
         ELSE UNCHANGED <<m_mapInvitesInProgress, m_deqCompletedCallIds>>
  BY DEF Response200
<1>2. call' \in [CallId -> CallStates]
  BY <1>1 DEF TypeOK, CallStates
<1>3. CASE UNCHANGED <<m_mapInvitesInProgress, m_deqCompletedCallIds>>
  BY <1>1, <1>2, <1>3 DEF TypeOK, QueueMatchesMap, InProgress, WatchdogFindsCalls, CountdownLeft
<1>4. CASE InProgress(c) /\ ~Completed(c)
  <2> DEFINE e == [m_bComplete |-> TRUE, m_expireTime |-> Wait]
  <2>1. /\ m_mapInvitesInProgress' = [m_mapInvitesInProgress EXCEPT ![c] = e]
        /\ deq' = Append(deq, c)
    BY <1>1, <1>4 DEF setCompleted, Completed, deq
  <2>2. e \in Entry /\ e.m_bComplete
    BY BoundAssumption DEF Entry
  <2>3. e # NULL
    BY <2>2, CallAssumption
  <2> HIDE DEF e
  <2>4. /\ m_mapInvitesInProgress' \in [CallId -> Entry \cup {NULL}]
        /\ m_mapInvitesInProgress'[c] = e
        /\ \A d \in CallId \ {c} : m_mapInvitesInProgress'[d] = m_mapInvitesInProgress[d]
    BY <2>1, <2>2 DEF TypeOK
  <2>5. Completed(c)' /\ \A d \in CallId \ {c} : Completed(d)' <=> Completed(d)
    BY <2>2, <2>3, <2>4 DEF Completed, InProgress
  <2>6. QueueMatchesMap'
    BY <1>4, <2>1, <2>5, CompletePreserves
  <2>7. m_deqCompletedCallIds' \in Seq(CallId)
    <3>1. deq \in Seq(CallId)
      BY DEF TypeOK, deq
    <3> QED
      BY <3>1, <2>1 DEF deq
  <2>8. TypeOK'
    BY <1>1, <1>2, <2>4, <2>7 DEF TypeOK
  <2> QED
    BY <1>1, <2>6, <2>8 DEF WatchdogFindsCalls, CountdownLeft
<1> QED
  BY <1>1, <1>3, <1>4 DEF setCompleted, Completed

\* The watchdog: it finds every call, whatever it erases.
LEMMA WatchdogStep ==
    ASSUME IInv, processWatchdogTimer
    PROVE IInv'
<1> USE DEF IInv
<1> DEFINE n == Erased
<1>1. n \in 0..Len(deq)
  BY ErasedPrefix
<1>2. /\ m_mapInvitesInProgress' = [c \in CallId |->
           IF c \in {deq[i] : i \in 1..n} THEN NULL ELSE m_mapInvitesInProgress[c]]
      /\ deq' = SubSeq(deq, n + 1, Len(deq))
      /\ UNCHANGED <<active, m_nIterationCount, call, requests>>
      /\ process = "running"
      /\ (n < Len(deq) /\ ~Found(n + 1)) \/ Countdown
  BY DEF processWatchdogTimer, deq, Running
<1> HIDE DEF n
<1>3. deq \in Seq(CallId) /\ Len(deq) \in Nat
  <2>1. deq \in Seq(CallId)
    BY DEF TypeOK, deq
  <2> QED
    BY <2>1
<1>4. Countdown
  <2> SUFFICES ASSUME n < Len(deq) PROVE Found(n + 1)
    BY <1>2
  <2>1. n + 1 \in 1..Len(deq)
    BY <1>1, <1>3
  <2> QED
    BY <2>1, AllFound
<1>5. QueueMatchesMap'
  BY <1>1, <1>2, ErasePreserves
<1>6. m_deqCompletedCallIds' \in Seq(CallId)
  <2>1. \A i \in (n + 1)..Len(deq) : deq[i] \in CallId
    BY <1>1, <1>3
  <2> QED
    BY <1>1, <1>2, <1>3, <2>1 DEF deq
<1>7. m_mapInvitesInProgress' \in [CallId -> Entry \cup {NULL}]
  BY <1>2 DEF TypeOK
<1>8. /\ counter' \in 0..IdlePasses /\ process' \in {"running", "stopped"}
      /\ CountdownLeft'
  <2>1. counter \in 0..IdlePasses /\ IdlePasses \in Nat
    BY BoundAssumption DEF TypeOK
  <2>2. counter' \in {counter, counter - 1} /\ process' \in {"running", "stopped"}
    BY <1>2, <1>4 DEF Countdown
  <2>3. counter # 0
    BY <1>2 DEF CountdownLeft
  <2>4. CountdownLeft'
    BY <1>2, <1>4 DEF Countdown, CountdownLeft
  <2> QED
    BY <2>1, <2>2, <2>3, <2>4
<1>9. TypeOK'
  BY <1>2, <1>6, <1>7, <1>8 DEF TypeOK
<1> QED
  BY <1>5, <1>8, <1>9 DEF WatchdogFindsCalls

\* The steps that leave the calls alone.
LEMMA QuietStep ==
    ASSUME IInv, (\E c \in CallId : InviteNoServer(c) \/ ResponseFailure(c))
                 \/ InstallConfig \/ UNCHANGED vars
    PROVE IInv'
<1> USE DEF IInv
<1>1. UNCHANGED <<process, proxy, requests>>
  BY DEF InviteNoServer, ResponseFailure, InstallConfig, vars
<1>2. call' \in [CallId -> CallStates] /\ active' \in BOOLEAN
  BY DEF InviteNoServer, ResponseFailure, InstallConfig, vars, TypeOK, CallStates
<1> QED
  BY <1>1, <1>2 DEF TypeOK, QueueMatchesMap, InProgress, WatchdogFindsCalls, CountdownLeft, proxy

\* Time passes.
LEMMA TickStep ==
    ASSUME IInv, Tick
    PROVE IInv'
<1> USE DEF IInv
<1>1. UNCHANGED <<process, active, m_nIterationCount, m_deqCompletedCallIds, counter,
                  call, requests>>
  BY DEF Tick
<1>2. ASSUME NEW c \in CallId
      PROVE /\ m_mapInvitesInProgress'[c] \in Entry \cup {NULL}
            /\ Completed(c)' <=> Completed(c)
  <2>1. CASE InProgress(c) /\ m_mapInvitesInProgress[c].m_expireTime > 0
    <3> DEFINE e == [m_mapInvitesInProgress[c] EXCEPT !.m_expireTime = @ - 1]
    <3>1. m_mapInvitesInProgress'[c] = e
      BY <2>1 DEF Tick
    <3>2. m_mapInvitesInProgress[c] \in Entry
      BY <2>1 DEF InProgress, TypeOK
    <3>3. m_mapInvitesInProgress[c].m_expireTime - 1 \in 0..Wait
      BY <2>1, <3>2, BoundAssumption DEF Entry
    <3>4. e \in Entry /\ e.m_bComplete = m_mapInvitesInProgress[c].m_bComplete
      BY <3>2, <3>3 DEF Entry
    <3> HIDE DEF e
    <3>5. e # NULL
      BY <3>4, CallAssumption
    <3> QED
      BY <2>1, <3>1, <3>4, <3>5 DEF Completed, InProgress
  <2>2. CASE ~ (InProgress(c) /\ m_mapInvitesInProgress[c].m_expireTime > 0)
    <3>1. m_mapInvitesInProgress'[c] = m_mapInvitesInProgress[c]
      BY <2>2 DEF Tick
    <3> QED
      BY <3>1 DEF Completed, InProgress, TypeOK
  <2> QED
    BY <2>1, <2>2
<1>3. m_mapInvitesInProgress' \in [CallId -> Entry \cup {NULL}]
  BY <1>2 DEF Tick
<1>4. TypeOK'
  BY <1>1, <1>3 DEF TypeOK
<1> QED
  BY <1>1, <1>2, <1>4, SameCompleted DEF WatchdogFindsCalls, CountdownLeft

-----------------------------------------------------------------------------
(* The theorems *)

\* The process starts with nothing in either.
LEMMA InitInvariant == Init => IInv
<1> SUFFICES ASSUME Init PROVE IInv
  OBVIOUS
<1>1. m_deqCompletedCallIds = <<>> /\ Len(m_deqCompletedCallIds) = 0
  BY DEF Init
<1>2. TypeOK
  BY BoundAssumption DEF Init, TypeOK, CallStates
<1>3. QueueMatchesMap
  BY <1>1 DEF Init, QueueMatchesMap, InProgress
<1> QED
  BY <1>2, <1>3, BoundAssumption DEF Init, IInv, WatchdogFindsCalls, CountdownLeft

\* The invariant holds throughout.
THEOREM Invariance == Spec => []IInv
<1>1. IInv /\ [Next]_vars => IInv'
  BY InviteStep, RequestStep, Response200Step, WatchdogStep, QuietStep, TickStep DEF Next
<1> QED
  BY <1>1, InitInvariant, PTL DEF Spec

\* The queue of completed call-ids and the map of calls agree at every return to the
\* event loop.
THEOREM QueueConsistent == Spec => []QueueMatchesMap
<1>1. IInv => QueueMatchesMap
  BY DEF IInv
<1> QED
  BY <1>1, Invariance, PTL

\* The assertion at line 655 of the watchdog never fails.
THEOREM WatchdogAssertion == Spec => []WatchdogFindsCalls
<1>1. IInv => WatchdogFindsCalls
  BY DEF IInv
<1> QED
  BY <1>1, Invariance, PTL

\* Every variable keeps its type.
THEOREM TypeCorrect == Spec => []TypeOK
<1>1. IInv => TypeOK
  BY DEF IInv
<1> QED
  BY <1>1, Invariance, PTL

-----------------------------------------------------------------------------
(* No call in progress is forgotten *)

\* Only an answered call is completed, and only completed calls are erased.
CompletedAnswered == \A c \in CallId : Completed(c) => call[c] = "answered"
RInv == IInv /\ CompletedAnswered /\ RouteKept

\* What the watchdog erases, which is expired and completed.
LEMMA ErasedAreExpired ==
    ASSUME TypeOK, QueueMatchesMap, NEW i \in 1..Erased
    PROVE /\ deq[i] \in CallId /\ Completed(deq[i])
          /\ m_mapInvitesInProgress[deq[i]].m_expireTime = 0
<1>1. Erased \in 0..Len(deq) /\ Expired(i)
  BY ErasedPrefix
<1>2. deq \in Seq(CallId)
  BY DEF TypeOK, deq
<1>3. i \in 1..Len(deq)
  <2>1. Len(deq) \in Nat
    BY <1>2
  <2> QED
    BY <1>1, <2>1
<1>4. deq[i] \in CallId
  BY <1>2, <1>3
<1> QED
  BY <1>1, <1>3, <1>4 DEF Expired, QueueMatchesMap, Completed, deq

\* A request, an ACK included, leaves all calls in the map, and completes none.
LEMMA ForwardKeeps ==
    ASSUME TypeOK, NEW c \in CallId, ForwardRequest(c)
    PROVE \A d \in CallId : /\ InProgress(d)' <=> InProgress(d)
                            /\ Completed(d)' <=> Completed(d)
<1> DEFINE e == [m_mapInvitesInProgress[c] EXCEPT !.m_expireTime = Wait]
<1>1. m_mapInvitesInProgress[c] \in Entry /\ m_mapInvitesInProgress[c] # NULL
  BY DEF ForwardRequest, InProgress, TypeOK
<1>2. e \in Entry /\ e.m_bComplete = m_mapInvitesInProgress[c].m_bComplete
  BY <1>1, BoundAssumption DEF Entry
<1>3. m_mapInvitesInProgress' = [m_mapInvitesInProgress EXCEPT ![c] = e]
  BY DEF ForwardRequest, updateExpireTime
<1> HIDE DEF e
<1>4. e # NULL
  BY <1>2, CallAssumption
<1>5. /\ m_mapInvitesInProgress'[c] = e
      /\ \A d \in CallId \ {c} : m_mapInvitesInProgress'[d] = m_mapInvitesInProgress[d]
  BY <1>3 DEF TypeOK
<1> QED
  BY <1>1, <1>2, <1>4, <1>5 DEF Completed, InProgress

\* Time leaves all calls in the map, and completes none.
LEMMA TickKeeps ==
    ASSUME TypeOK, Tick, NEW c \in CallId
    PROVE /\ InProgress(c)' <=> InProgress(c)
          /\ Completed(c)' <=> Completed(c)
          /\ InProgress(c) => m_mapInvitesInProgress'[c].m_expireTime \in
                                 {m_mapInvitesInProgress[c].m_expireTime,
                                  m_mapInvitesInProgress[c].m_expireTime - 1}
<1>1. CASE InProgress(c) /\ m_mapInvitesInProgress[c].m_expireTime > 0
  <2> DEFINE e == [m_mapInvitesInProgress[c] EXCEPT !.m_expireTime = @ - 1]
  <2>1. m_mapInvitesInProgress'[c] = e
    BY <1>1 DEF Tick
  <2>2. m_mapInvitesInProgress[c] \in Entry
    BY <1>1 DEF InProgress, TypeOK
  <2>3. m_mapInvitesInProgress[c].m_expireTime - 1 \in 0..Wait
    BY <1>1, <2>2, BoundAssumption DEF Entry
  <2>4. /\ e \in Entry /\ e.m_bComplete = m_mapInvitesInProgress[c].m_bComplete
        /\ e.m_expireTime = m_mapInvitesInProgress[c].m_expireTime - 1
    BY <2>2, <2>3 DEF Entry
  <2> HIDE DEF e
  <2>5. e # NULL
    BY <2>4, CallAssumption
  <2> QED
    BY <1>1, <2>1, <2>4, <2>5 DEF Completed, InProgress
<1>2. CASE ~ (InProgress(c) /\ m_mapInvitesInProgress[c].m_expireTime > 0)
  <2>1. m_mapInvitesInProgress'[c] = m_mapInvitesInProgress[c]
    BY <1>2 DEF Tick
  <2> QED
    BY <2>1 DEF Completed, InProgress
<1> QED
  BY <1>1, <1>2

\* The effect of a 200 on the map: the call is completed, if it is known and was not.
LEMMA Response200Effect ==
    ASSUME TypeOK, NEW c \in CallId, Response200(c)
    PROVE \/ /\ InProgress(c) /\ ~Completed(c) /\ Completed(c)'
             /\ m_mapInvitesInProgress'[c].m_expireTime = Wait
             /\ \A d \in CallId \ {c} :
                  m_mapInvitesInProgress'[d] = m_mapInvitesInProgress[d]
          \/ /\ InProgress(c) => Completed(c)
             /\ UNCHANGED m_mapInvitesInProgress
<1> DEFINE e == [m_bComplete |-> TRUE, m_expireTime |-> Wait]
<1>1. e \in Entry /\ e.m_bComplete /\ e.m_expireTime = Wait
  BY BoundAssumption DEF Entry
<1>2. CASE InProgress(c) /\ ~Completed(c)
  <2>1. m_mapInvitesInProgress' = [m_mapInvitesInProgress EXCEPT ![c] = e]
    BY <1>2 DEF Response200, setCompleted, Completed
  <2> HIDE DEF e
  <2>2. /\ m_mapInvitesInProgress'[c] = e /\ e # NULL
        /\ \A d \in CallId \ {c} : m_mapInvitesInProgress'[d] = m_mapInvitesInProgress[d]
    BY <1>1, <2>1, CallAssumption DEF TypeOK
  <2> QED
    BY <1>1, <1>2, <2>2 DEF Completed, InProgress
<1>3. CASE InProgress(c) => Completed(c)
  BY <1>3 DEF Response200, setCompleted, Completed
<1> QED
  BY <1>2, <1>3

\* One case per kind of step: which calls stay in the map, and which are completed.
LEMMA RouteStep ==
    ASSUME RInv, [Next]_vars
    PROVE CompletedAnswered' /\ RouteKept'
<1> USE DEF RInv, IInv
<1>0. call \in [CallId -> CallStates]
  BY DEF TypeOK
<1>1. ASSUME NEW c \in CallId, Invite(c) PROVE CompletedAnswered' /\ RouteKept'
  <2> DEFINE e == [m_bComplete |-> FALSE, m_expireTime |-> 0]
  <2>1. /\ m_mapInvitesInProgress' = [m_mapInvitesInProgress EXCEPT ![c] = e]
        /\ call' = [call EXCEPT ![c] = "inviting"] /\ UNCHANGED process
    BY <1>1 DEF Invite
  <2>2. e \in Entry /\ ~ e.m_bComplete
    BY BoundAssumption DEF Entry
  <2> HIDE DEF e
  <2>3. /\ m_mapInvitesInProgress'[c] = e /\ e # NULL
        /\ \A d \in CallId \ {c} : m_mapInvitesInProgress'[d] = m_mapInvitesInProgress[d]
    BY <2>1, <2>2, CallAssumption DEF TypeOK
  <2>4. \A d \in CallId \ {c} : call'[d] = call[d]
    BY <1>0, <2>1
  <2> QED
    BY <2>1, <2>2, <2>3, <2>4
       DEF CompletedAnswered, RouteKept, Completed, InProgress, Running
<1>2. ASSUME NEW c \in CallId, Request(c) \/ Ack(c) PROVE CompletedAnswered' /\ RouteKept'
  <2>1. CASE ForwardRequest(c)
    <3>1. \A d \in CallId : /\ InProgress(d)' <=> InProgress(d)
                            /\ Completed(d)' <=> Completed(d)
      BY <2>1, ForwardKeeps
    <3>2. UNCHANGED process
      BY <2>1 DEF ForwardRequest
    <3>3. \A d \in CallId : call'[d] = call[d] \/ (call[d] = "failed" /\ call'[d] = "acked")
      BY <1>0, <1>2 DEF Request, Ack
    <3> QED
      BY <3>1, <3>2, <3>3 DEF CompletedAnswered, RouteKept, Running
  <2>2. CASE Ack(c) /\ process' = "821 end iterator" /\ UNCHANGED proxy
    <3>1. \A d \in CallId : call'[d] = call[d] \/ (call[d] = "failed" /\ call'[d] = "acked")
      BY <1>0, <2>2 DEF Ack
    <3> QED
      BY <2>2, <3>1 DEF CompletedAnswered, RouteKept, Completed, InProgress, Running, proxy
  <2> QED
    BY <1>2, <2>1, <2>2 DEF Request, Ack
<1>3. ASSUME NEW c \in CallId, Response200(c) PROVE CompletedAnswered' /\ RouteKept'
  <2>1. call'[c] = "answered" /\ UNCHANGED process /\ \A d \in CallId \ {c} : call'[d] = call[d]
    BY <1>0, <1>3 DEF Response200
  <2>2. \A d \in CallId \ {c} : m_mapInvitesInProgress'[d] = m_mapInvitesInProgress[d]
    BY <1>3, Response200Effect
  <2> QED
    BY <2>1, <2>2 DEF CompletedAnswered, RouteKept, Completed, InProgress, Running
<1>4. ASSUME processWatchdogTimer PROVE CompletedAnswered' /\ RouteKept'
  <2> DEFINE gone == {deq[i] : i \in 1..Erased}
  <2>1. /\ m_mapInvitesInProgress' = [c \in CallId |-> IF c \in gone THEN NULL
                                                       ELSE m_mapInvitesInProgress[c]]
        /\ UNCHANGED call /\ Running
    BY <1>4 DEF processWatchdogTimer, deq
  <2>2. \A c \in gone : Completed(c)
    BY ErasedAreExpired
  <2> HIDE DEF gone
  <2>3. \A c \in CallId : IF c \in gone THEN m_mapInvitesInProgress'[c] = NULL
                         ELSE m_mapInvitesInProgress'[c] = m_mapInvitesInProgress[c]
    BY <2>1
  <2> QED
    BY <2>1, <2>2, <2>3 DEF CompletedAnswered, RouteKept, Completed, InProgress, Running
<1>5. ASSUME Tick PROVE CompletedAnswered' /\ RouteKept'
  <2>1. UNCHANGED <<call, process>>
    BY <1>5 DEF Tick
  <2>2. \A c \in CallId : /\ InProgress(c)' <=> InProgress(c)
                          /\ Completed(c)' <=> Completed(c)
    BY <1>5, TickKeeps
  <2> QED
    BY <2>1, <2>2 DEF CompletedAnswered, RouteKept, Running
<1>6. ASSUME NEW c \in CallId, InviteNoServer(c) \/ ResponseFailure(c)
      PROVE CompletedAnswered' /\ RouteKept'
  <2>1. UNCHANGED <<process, m_mapInvitesInProgress>>
    BY <1>6 DEF InviteNoServer, ResponseFailure, proxy
  <2>2. \A d \in CallId : \/ call'[d] = call[d]
                          \/ call'[d] = "waiting" /\ ~InProgress(d)
                          \/ call'[d] = "failed" /\ call[d] = "inviting"
    BY <1>0, <1>6 DEF InviteNoServer, NewInvite, ResponseFailure
  <2> QED
    BY <2>1, <2>2 DEF CompletedAnswered, RouteKept, Completed, InProgress, Running
<1>7. ASSUME InstallConfig \/ UNCHANGED vars PROVE CompletedAnswered' /\ RouteKept'
  <2>1. UNCHANGED <<process, call, m_mapInvitesInProgress>>
    BY <1>7 DEF InstallConfig, vars, proxy
  <2> QED
    BY <2>1 DEF CompletedAnswered, RouteKept, Completed, InProgress, Running
<1> QED
  BY <1>1, <1>2, <1>3, <1>4, <1>5, <1>6, <1>7 DEF Next

\* A call that has not had its final response keeps its route, for any number of calls
\* and any order of responses, repetitions and watchdog passes.
THEOREM RoutesKept == Spec => []RouteKept
<1>1. Init => CompletedAnswered /\ RouteKept
  BY DEF Init, CompletedAnswered, RouteKept, Completed, InProgress
<1>2. RInv /\ [Next]_vars => CompletedAnswered' /\ RouteKept'
  BY RouteStep
<1> QED
  BY <1>1, <1>2, Invariance, PTL DEF Spec, RInv

-----------------------------------------------------------------------------
(* The refinement *)

\* The state of a call in the table, before and after a step.
LEMMA TableStates ==
    ASSUME NEW c \in CallId
    PROVE /\ ~InProgress(c) => TableState[c] = "unknown"
          /\ InProgress(c) /\ ~Completed(c) => TableState[c] = "open"
          /\ Completed(c) /\ m_mapInvitesInProgress[c].m_expireTime > 0 =>
               TableState[c] = "done"
          /\ Completed(c) /\ ~ (m_mapInvitesInProgress[c].m_expireTime > 0) =>
               TableState[c] = "expired"
          /\ ~InProgress(c)' => TableState'[c] = "unknown"
          /\ InProgress(c)' /\ ~Completed(c)' => TableState'[c] = "open"
          /\ Completed(c)' /\ m_mapInvitesInProgress'[c].m_expireTime > 0 =>
               TableState'[c] = "done"
          /\ Completed(c)' /\ ~ (m_mapInvitesInProgress'[c].m_expireTime > 0) =>
               TableState'[c] = "expired"
          /\ m_mapInvitesInProgress'[c] = m_mapInvitesInProgress[c] =>
               TableState'[c] = TableState[c]
  BY DEF TableState, Completed, InProgress

\* Calls that change their state in the table together.
LEMMA MoveBy ==
    ASSUME NEW S \in SUBSET CallId, NEW from, NEW to,
           \A c \in S : TableState[c] = from /\ TableState'[c] = to,
           \A c \in CallId \ S : TableState'[c] = TableState[c]
    PROVE Table!Move(S, from, to)
<1>1. TableState' = [c \in CallId |-> TableState'[c]]
  BY DEF TableState
<1>2. \A c \in CallId : TableState'[c] = IF c \in S THEN to ELSE TableState[c]
  OBVIOUS
<1>3. TableState' = [c \in CallId |-> IF c \in S THEN to ELSE TableState[c]]
  BY <1>1, <1>2
<1> QED
  BY <1>3 DEF Table!Move

\* A step after which every call has the state it had.
LEMMA SameTable ==
    ASSUME \A c \in CallId : TableState'[c] = TableState[c]
    PROVE TableState' = TableState
<1>1. TableState' = [c \in CallId |-> TableState'[c]] /\ TableState = [c \in CallId |-> TableState[c]]
  BY DEF TableState
<1> QED
  BY <1>1

\* A request of a known call renews it if it has expired.
LEMMA ForwardInTable ==
    ASSUME IInv, NEW c \in CallId, ForwardRequest(c)
    PROVE Table!Renew(c) \/ UNCHANGED <<TableState, process>>
<1> USE DEF IInv
<1>1. \A d \in CallId : /\ InProgress(d)' <=> InProgress(d)
                        /\ Completed(d)' <=> Completed(d)
  BY ForwardKeeps
<1> DEFINE e == [m_mapInvitesInProgress[c] EXCEPT !.m_expireTime = Wait]
<1>2. /\ m_mapInvitesInProgress' = [m_mapInvitesInProgress EXCEPT ![c] = e]
      /\ InProgress(c) /\ UNCHANGED process
  BY DEF ForwardRequest, updateExpireTime
<1>3. m_mapInvitesInProgress[c] \in Entry
  BY <1>2 DEF InProgress, TypeOK
<1>4. e.m_expireTime = Wait
  BY <1>3 DEF Entry
<1> HIDE DEF e
<1>5. m_mapInvitesInProgress'[c].m_expireTime > 0
  <2>1. m_mapInvitesInProgress'[c] = e
    BY <1>2 DEF TypeOK
  <2>2. Wait > 0
    BY BoundAssumption
  <2> QED
    BY <1>4, <2>1, <2>2
<1>6. \A d \in CallId \ {c} : m_mapInvitesInProgress'[d] = m_mapInvitesInProgress[d]
  BY <1>2 DEF TypeOK
<1>7. \A d \in CallId \ {c} : TableState'[d] = TableState[d]
  BY <1>6, TableStates
<1>8. CASE TableState[c] = "expired"
  <2>1. TableState'[c] = "done"
    BY <1>1, <1>2, <1>5, <1>8, TableStates
  <2>2. Table!Move({c}, "expired", "done")
    BY <1>7, <1>8, <2>1, MoveBy
  <2> QED
    BY <1>2, <2>2 DEF Table!Renew
<1>9. CASE TableState[c] # "expired"
  <2>1. TableState'[c] = TableState[c]
    BY <1>1, <1>2, <1>5, <1>9, TableStates
  <2>2. TableState' = TableState
    BY <1>7, <2>1, SameTable
  <2> QED
    BY <1>2, <2>2
<1> QED
  BY <1>8, <1>9

\* A pass of the watchdog forgets expired calls only, and stops with none left.
LEMMA WatchdogInTable ==
    ASSUME IInv, IInv', processWatchdogTimer
    PROVE Table!Pass
<1> USE DEF IInv
<1> DEFINE gone == {deq[i] : i \in 1..Erased}
<1>1. /\ m_mapInvitesInProgress' = [c \in CallId |-> IF c \in gone THEN NULL
                                                     ELSE m_mapInvitesInProgress[c]]
      /\ process = "running" /\ process' # "655 not found"
      /\ process' = "655 not found" \/ Countdown
  BY DEF processWatchdogTimer, deq, Running, WatchdogFindsCalls
<1>2. gone \in SUBSET CallId /\ \A c \in gone : TableState[c] = "expired"
  <2>1. ASSUME NEW i \in 1..Erased PROVE deq[i] \in CallId /\ TableState[deq[i]] = "expired"
    BY ErasedAreExpired, TableStates
  <2> QED
    BY <2>1
<1> HIDE DEF gone
<1>3. \A c \in CallId : IF c \in gone THEN m_mapInvitesInProgress'[c] = NULL
                       ELSE m_mapInvitesInProgress'[c] = m_mapInvitesInProgress[c]
  BY <1>1
<1>4. \A c \in gone : TableState'[c] = "unknown"
  BY <1>2, <1>3, TableStates DEF InProgress
<1>5. \A c \in CallId \ gone : TableState'[c] = TableState[c]
  BY <1>3, TableStates
<1>6. Table!Move(gone, "expired", "unknown")
  BY <1>2, <1>4, <1>5, MoveBy
<1>7. /\ process' \in {"running", "stopped"}
      /\ process' = "stopped" => \A c \in CallId : m_mapInvitesInProgress'[c] = NULL
  <2>1. Countdown /\ counter # 0
    BY <1>1 DEF CountdownLeft
  <2> QED
    BY <1>1, <2>1 DEF Countdown
<1>8. process' = "stopped" => \A c \in CallId : TableState'[c] = "unknown"
  BY <1>7, TableStates DEF InProgress
<1> QED
  BY <1>2, <1>6, <1>7, <1>8 DEF Table!Pass

\* Every step of the proxy is one of the table, or leaves it alone.
LEMMA TableStep ==
    ASSUME IInv, IInv', [Next]_vars
    PROVE [Table!Next]_(Table!vars)
<1> USE DEF IInv
<1> SUFFICES (process = "running" /\ Table!Next) \/ UNCHANGED <<TableState, process>>
  BY DEF Table!vars
<1>1. ASSUME NEW c \in CallId, Invite(c) PROVE Table!Next
  <2> DEFINE e == [m_bComplete |-> FALSE, m_expireTime |-> 0]
  <2>1. /\ m_mapInvitesInProgress' = [m_mapInvitesInProgress EXCEPT ![c] = e]
        /\ ~InProgress(c) /\ process = "running" /\ UNCHANGED process
    BY <1>1 DEF Invite, NewInvite, Running
  <2>2. e \in Entry /\ ~ e.m_bComplete
    BY BoundAssumption DEF Entry
  <2> HIDE DEF e
  <2>3. /\ m_mapInvitesInProgress'[c] = e /\ e # NULL
        /\ \A d \in CallId \ {c} : m_mapInvitesInProgress'[d] = m_mapInvitesInProgress[d]
    BY <2>1, <2>2, CallAssumption DEF TypeOK
  <2>4. InProgress(c)' /\ ~Completed(c)'
    BY <2>2, <2>3 DEF InProgress, Completed
  <2>5. TableState[c] = "unknown" /\ TableState'[c] = "open"
    BY <2>1, <2>4, TableStates
  <2>6. \A d \in CallId \ {c} : TableState'[d] = TableState[d]
    BY <2>3, TableStates
  <2>7. Table!Move({c}, "unknown", "open")
    BY <2>5, <2>6, MoveBy
  <2> QED
    BY <2>1, <2>7 DEF Table!Next, Table!Enter
<1>2. ASSUME NEW c \in CallId, Request(c) \/ Ack(c)
      PROVE Table!Next \/ UNCHANGED <<TableState, process>>
  <2>0. process = "running"
    BY <1>2 DEF Request, Ack, Running
  <2>1. CASE ForwardRequest(c)
    BY <2>0, <2>1, ForwardInTable DEF Table!Next
  <2>2. CASE ~InProgress(c) /\ process' = "821 end iterator" /\ UNCHANGED proxy
    <3>1. TableState[c] = "unknown"
      BY <2>2, TableStates
    <3>2. \A d \in CallId : TableState'[d] = TableState[d]
      BY <2>2, TableStates DEF proxy
    <3>3. TableState' = TableState
      BY <3>2, SameTable
    <3> QED
      BY <2>0, <2>2, <3>1, <3>3 DEF Table!Next, Table!UnknownAck
  <2> QED
    BY <1>2, <2>1, <2>2 DEF Request, Ack
<1>3. ASSUME NEW c \in CallId, Response200(c)
      PROVE Table!Next \/ UNCHANGED <<TableState, process>>
  <2>0. process = "running" /\ UNCHANGED process
    BY <1>3 DEF Response200, Running
  <2>1. CASE UNCHANGED m_mapInvitesInProgress
    <3>1. \A d \in CallId : TableState'[d] = TableState[d]
      BY <2>1, TableStates
    <3> QED
      BY <2>0, <3>1, SameTable
  <2>2. CASE /\ InProgress(c) /\ ~Completed(c) /\ Completed(c)'
             /\ m_mapInvitesInProgress'[c].m_expireTime = Wait
             /\ \A d \in CallId \ {c} : m_mapInvitesInProgress'[d] = m_mapInvitesInProgress[d]
    <3>1. m_mapInvitesInProgress'[c].m_expireTime > 0
      BY <2>2, BoundAssumption
    <3>2. TableState[c] = "open" /\ TableState'[c] = "done"
      BY <2>2, <3>1, TableStates
    <3>3. \A d \in CallId \ {c} : TableState'[d] = TableState[d]
      BY <2>2, TableStates
    <3>4. Table!Move({c}, "open", "done")
      BY <3>2, <3>3, MoveBy
    <3> QED
      BY <2>0, <3>4 DEF Table!Next, Table!Complete
  <2> QED
    BY <1>3, <2>1, <2>2, Response200Effect
<1>4. ASSUME Tick PROVE Table!Next
  <2>0. process = "running" /\ UNCHANGED process
    BY <1>4 DEF Tick, Running
  <2> DEFINE S == {c \in CallId : TableState[c] = "done" /\ TableState'[c] = "expired"}
  <2>1. ASSUME NEW c \in CallId, TableState'[c] # TableState[c]
        PROVE TableState[c] = "done" /\ TableState'[c] = "expired"
    <3>1. /\ InProgress(c)' <=> InProgress(c)
          /\ Completed(c)' <=> Completed(c)
          /\ InProgress(c) => m_mapInvitesInProgress'[c].m_expireTime \in
                                 {m_mapInvitesInProgress[c].m_expireTime,
                                  m_mapInvitesInProgress[c].m_expireTime - 1}
      BY <1>4, TickKeeps
    <3>2. Completed(c) /\ Completed(c)' /\ InProgress(c)
      BY <2>1, <3>1, TableStates DEF Completed
    <3>3. m_mapInvitesInProgress[c].m_expireTime \in Nat
      <4>1. m_mapInvitesInProgress[c] \in Entry
        BY <3>2 DEF InProgress, TypeOK
      <4> QED
        BY <4>1, BoundAssumption DEF Entry
    <3>4. m_mapInvitesInProgress'[c].m_expireTime > 0 => m_mapInvitesInProgress[c].m_expireTime > 0
      BY <3>1, <3>2, <3>3
    <3> QED
      BY <2>1, <3>2, <3>4, TableStates
  <2>2. \A c \in CallId \ S : TableState'[c] = TableState[c]
    BY <2>1
  <2>3. Table!Move(S, "done", "expired")
    <3>1. S \in SUBSET CallId /\ \A c \in S : TableState[c] = "done" /\ TableState'[c] = "expired"
      OBVIOUS
    <3> HIDE DEF S
    <3> QED
      BY <2>2, <3>1, MoveBy
  <2>4. S \in SUBSET CallId
    OBVIOUS
  <2> HIDE DEF S
  <2>5. Table!Expire
    BY <2>0, <2>3, <2>4 DEF Table!Expire
  <2> QED
    BY <2>0, <2>5 DEF Table!Next
<1>5. ASSUME processWatchdogTimer PROVE Table!Next
  <2>1. process = "running"
    BY <1>5 DEF processWatchdogTimer, Running
  <2> QED
    BY <1>5, <2>1, WatchdogInTable DEF Table!Next
<1>6. ASSUME \/ \E c \in CallId : InviteNoServer(c) \/ ResponseFailure(c)
             \/ InstallConfig \/ UNCHANGED vars
      PROVE UNCHANGED <<TableState, process>>
  <2>1. UNCHANGED <<process, m_mapInvitesInProgress>>
    BY <1>6 DEF InviteNoServer, ResponseFailure, InstallConfig, vars, proxy
  <2>2. \A c \in CallId : TableState'[c] = TableState[c]
    BY <2>1, TableStates
  <2> QED
    BY <2>1, <2>2, SameTable
<1> QED
  BY <1>1, <1>2, <1>3, <1>4, <1>5, <1>6 DEF Next, Table!Next

\* The stateless proxy keeps the promise of CallTable, for any number of calls: no call
\* is forgotten before its final response and the retransmission wait, and the process
\* stops with no call left.
THEOREM Refinement == Spec => ImplementsCallTable
<1>1. Init => Table!Init
  <2> SUFFICES ASSUME Init PROVE Table!Init
    OBVIOUS
  <2>1. \A c \in CallId : ~InProgress(c)
    BY DEF Init, InProgress
  <2>2. \A c \in CallId : TableState[c] = "unknown"
    BY <2>1, TableStates
  <2>3. TableState = [c \in CallId |-> "unknown"]
    <3>1. TableState = [c \in CallId |-> TableState[c]]
      BY DEF TableState
    <3> QED
      BY <2>2, <3>1
  <2> QED
    BY <2>3 DEF Init, Table!Init
<1>2. IInv /\ IInv' /\ [Next]_vars => [Table!Next]_(Table!vars)
  BY TableStep
<1> QED
  BY <1>1, <1>2, Invariance, PTL DEF Spec, ImplementsCallTable, Table!Spec

=============================================================================
