--------------------------- MODULE StatelessProxy ---------------------------
(***************************************************************************)
(* The stateless agent mode of SipLbController (ssp-controller.cpp): every *)
(* INVITE is forwarded to a FreeSWITCH server, and the call-id is kept so  *)
(* that later requests of the call follow it.  A call is completed by its  *)
(* final response, waits MAX_RETRANSMISSION_WAIT seconds for stragglers in *)
(* m_deqCompletedCallIds, and is then forgotten by the watchdog.           *)
(*                                                                         *)
(* The far ends are external: the caller's INVITE and ACK, the server's    *)
(* response, and requests repeated or sent within a call.                  *)
(***************************************************************************)
EXTENDS Integers, Sequences

CONSTANTS
    CallId,          \* bound: the calls that may be offered
    Inherited,       \* calls an earlier process had forwarded when it was restarted
    NULL,
    Wait,            \* MAX_RETRANSMISSION_WAIT, in ticks of the clock
    IterationCount,  \* option -i: initial m_nIterationCount, -1 for unlimited
    IdlePasses,      \* initial value of the global counter
    MaxRequests      \* bound: further requests of one call

Entry == [m_bComplete: BOOLEAN, m_expireTime: 0..Wait]

ASSUME CallAssumption == Inherited \subseteq CallId /\ NULL \notin Entry
ASSUME BoundAssumption ==
    /\ Wait \in Nat \ {0} /\ IdlePasses \in Nat \ {0}
    /\ MaxRequests \in Nat
    /\ IterationCount \in Nat \cup {-1}

VARIABLES
    process,         \* "running", "stopped", or the line where it aborted
    active,          \* m_Config->isActive()
    m_nIterationCount,
    counter,         \* idle watchdog passes left before the process stops
    m_mapInvitesInProgress,
    m_deqCompletedCallIds,
    call,            \* far ends: how far the call has got
    requests         \* far ends: further requests sent in the call

proxy == <<m_nIterationCount, m_mapInvitesInProgress, m_deqCompletedCallIds, counter>>
vars == <<process, active, proxy, call, requests>>

\* "waiting": the caller's INVITE was taken off the wire without an answer.
CallStates == {"new", "waiting", "inviting", "answered", "failed", "acked"}

TypeOK ==
    /\ process \in {"running", "stopped", "655 not found", "821 end iterator"}
    /\ active \in BOOLEAN
    /\ m_nIterationCount \in Nat \cup {-1}
    /\ counter \in 0..IdlePasses
    /\ m_mapInvitesInProgress \in [CallId -> Entry \cup {NULL}]
    /\ m_deqCompletedCallIds \in Seq(CallId)
    /\ call \in [CallId -> CallStates]
    /\ requests \in [CallId -> 0..MaxRequests]

Init ==
    /\ process = "running"
    /\ active = TRUE
    /\ m_nIterationCount = IterationCount
    /\ counter = IdlePasses
    /\ m_mapInvitesInProgress = [c \in CallId |-> NULL]
    /\ m_deqCompletedCallIds = <<>>
    /\ call = [c \in CallId |-> IF c \in Inherited THEN "inviting" ELSE "new"]
    /\ requests = [c \in CallId |-> 0]

Running == process = "running"
InProgress(c) == m_mapInvitesInProgress[c] # NULL

-----------------------------------------------------------------------------
(* statelessCallback *)

\* An INVITE, perhaps a repeated one, of an unknown call that may be forwarded: while
\* inactive or after the last iteration it is discarded on purpose.
NewInvite(c) ==
    /\ Running
    /\ ~InProgress(c) /\ call[c] \in {"new", "waiting"}
    /\ active /\ m_nIterationCount # 0

\* No server is available (the handler returns 486, which nta ignores), or the INVITE
\* cannot be sent: nothing is kept of it, and the iteration is not counted.
InviteNoServer(c) ==
    /\ NewInvite(c)
    /\ call' = [call EXCEPT ![c] = "waiting"]
    /\ UNCHANGED <<process, active, proxy, requests>>

\* It is forwarded to the server that was selected.
Invite(c) ==
    /\ NewInvite(c)
    /\ m_mapInvitesInProgress' = [m_mapInvitesInProgress EXCEPT
         ![c] = [m_bComplete |-> FALSE, m_expireTime |-> 0]]
    /\ m_nIterationCount' = IF m_nIterationCount > 0 THEN m_nIterationCount - 1
                                                     ELSE m_nIterationCount
    /\ call' = [call EXCEPT ![c] = "inviting"]
    /\ UNCHANGED <<process, active, m_deqCompletedCallIds, counter, requests>>

\* updateExpireTime; m_expireTime is the time that is left.
updateExpireTime(c) == [m_mapInvitesInProgress[c] EXCEPT !.m_expireTime = Wait]

\* A request of a known call is forwarded, whatever it is.
ForwardRequest(c) ==
    /\ InProgress(c)
    /\ m_mapInvitesInProgress' = [m_mapInvitesInProgress EXCEPT ![c] = updateExpireTime(c)]
    /\ UNCHANGED <<process, m_nIterationCount, m_deqCompletedCallIds, counter>>

\* A repeated INVITE or ACK, a CANCEL, or a request that follows the same route.
Request(c) ==
    /\ Running
    /\ call[c] \notin {"new", "waiting"} /\ requests[c] < MaxRequests
    /\ ForwardRequest(c)
    /\ requests' = [requests EXCEPT ![c] = @ + 1]
    /\ UNCHANGED <<active, call>>

\* The ACK of a failed INVITE.  Of an unknown call it reaches setCompleted, which
\* dereferences the end iterator.
Ack(c) ==
    /\ Running
    /\ call[c] = "failed"
    /\ \/ ForwardRequest(c)
       \/ ~InProgress(c) /\ process' = "821 end iterator" /\ UNCHANGED proxy
    /\ call' = [call EXCEPT ![c] = "acked"]
    /\ UNCHANGED <<active, requests>>

\* Mutant of setCompleted: a repeated 200 completes the call again.
setCompletedAgain(c) ==
    /\ m_mapInvitesInProgress' = [m_mapInvitesInProgress EXCEPT
         ![c] = [m_bComplete |-> TRUE, m_expireTime |-> Wait]]
    /\ m_deqCompletedCallIds' = Append(m_deqCompletedCallIds, c)

\* Mutant of setCompleted: the call is not queued for the watchdog.
setCompletedUnqueued(c) ==
    /\ m_mapInvitesInProgress' = [m_mapInvitesInProgress EXCEPT
         ![c] = [m_bComplete |-> TRUE, m_expireTime |-> Wait]]
    /\ UNCHANGED m_deqCompletedCallIds

\* setCompleted: once only.
setCompleted(c) ==
    IF m_mapInvitesInProgress[c].m_bComplete
    THEN UNCHANGED <<m_mapInvitesInProgress, m_deqCompletedCallIds>>
    ELSE /\ m_mapInvitesInProgress' = [m_mapInvitesInProgress EXCEPT
              ![c] = [m_bComplete |-> TRUE, m_expireTime |-> Wait]]
         /\ m_deqCompletedCallIds' = Append(m_deqCompletedCallIds, c)

\* A 200 to the INVITE, or its repetition, is passed back and completes a known call.
Response200(c) ==
    /\ Running
    /\ call[c] \in {"inviting", "answered"}
    /\ IF InProgress(c) THEN setCompleted(c)
       ELSE UNCHANGED <<m_mapInvitesInProgress, m_deqCompletedCallIds>>
    /\ call' = [call EXCEPT ![c] = "answered"]
    /\ UNCHANGED <<process, active, m_nIterationCount, counter, requests>>

\* Mutant of ResponseFailure: any final response completes the call.
ResponseFailureCompletes(c) ==
    /\ Running
    /\ call[c] = "inviting"
    /\ InProgress(c) /\ setCompleted(c)
    /\ call' = [call EXCEPT ![c] = "failed"]
    /\ UNCHANGED <<process, active, m_nIterationCount, counter, requests>>

\* Any other final response is passed back.
ResponseFailure(c) ==
    /\ Running
    /\ call[c] = "inviting"
    /\ call' = [call EXCEPT ![c] = "failed"]
    /\ UNCHANGED <<process, active, proxy, requests>>

-----------------------------------------------------------------------------
(* processWatchdogTimer, stateless branch *)

\* The i-th completed call is found, by the loop that has erased those before it.
Found(i) ==
    /\ InProgress(m_deqCompletedCallIds[i])
    /\ \A j \in 1..(i - 1) : m_deqCompletedCallIds[j] # m_deqCompletedCallIds[i]

\* Mutant of Expired: completed calls are erased at once.
ExpiredAtOnce(i) == Found(i)

Expired(i) == Found(i) /\ m_mapInvitesInProgress[m_deqCompletedCallIds[i]].m_expireTime = 0

\* How many calls the loop erases before it breaks, ends or fails.
Erased == CHOOSE n \in 0..Len(m_deqCompletedCallIds) :
            /\ \A i \in 1..n : Expired(i)
            /\ n < Len(m_deqCompletedCallIds) => ~Expired(n + 1)

\* Mutant of Countdown: the counter is tested before it is decremented.
CountdownLate ==
    LET idle == /\ m_nIterationCount = 0
                /\ m_deqCompletedCallIds' = <<>>
                /\ \A c \in CallId : m_mapInvitesInProgress'[c] = NULL
    IN /\ counter' = IF idle THEN counter - 1 ELSE counter
       /\ process' = IF counter = 0 THEN "stopped" ELSE process

\* Mutant of Countdown: every pass starts counting anew.
CountdownAnew ==
    /\ counter' = IdlePasses - 1
    /\ process' = IF counter' = 0 THEN "stopped" ELSE process

\* The last idle pass of the countdown stops the process.
Countdown ==
    LET idle == /\ m_nIterationCount = 0
                /\ m_deqCompletedCallIds' = <<>>
                /\ \A c \in CallId : m_mapInvitesInProgress'[c] = NULL
    IN /\ counter' = IF idle THEN counter - 1 ELSE counter
       /\ process' = IF counter' = 0 THEN "stopped" ELSE process

processWatchdogTimer ==
    LET n == Erased
        gone == {m_deqCompletedCallIds[i] : i \in 1..n}
    IN /\ Running
       /\ m_mapInvitesInProgress' = [c \in CallId |-> IF c \in gone THEN NULL
                                                      ELSE m_mapInvitesInProgress[c]]
       /\ m_deqCompletedCallIds' = SubSeq(m_deqCompletedCallIds, n + 1,
                                          Len(m_deqCompletedCallIds))
       /\ IF n < Len(m_deqCompletedCallIds) /\ ~Found(n + 1)
          THEN process' = "655 not found" /\ UNCHANGED counter
          ELSE Countdown
       /\ UNCHANGED <<active, m_nIterationCount, call, requests>>

-----------------------------------------------------------------------------
\* time(): one tick less is left to every call.
Tick ==
    /\ Running
    /\ m_mapInvitesInProgress' = [c \in CallId |->
         IF InProgress(c) /\ m_mapInvitesInProgress[c].m_expireTime > 0
         THEN [m_mapInvitesInProgress[c] EXCEPT !.m_expireTime = @ - 1]
         ELSE m_mapInvitesInProgress[c]]
    /\ UNCHANGED <<process, active, m_nIterationCount, m_deqCompletedCallIds, counter,
                   call, requests>>

\* A new configuration is installed.
InstallConfig ==
    /\ Running
    /\ active' \in BOOLEAN
    /\ UNCHANGED <<process, proxy, call, requests>>

Next ==
    \/ \E c \in CallId : \/ InviteNoServer(c)
                         \/ Invite(c)
                         \/ Request(c)
                         \/ Ack(c)
                         \/ Response200(c)
                         \/ ResponseFailure(c)
    \/ processWatchdogTimer
    \/ Tick
    \/ InstallConfig

Spec == Init /\ [][Next]_vars

\* The event loop runs the watchdog, time passes, servers answer INVITEs one way or
\* the other and callers acknowledge a failure.
Fairness ==
    /\ WF_vars(Tick) /\ WF_vars(processWatchdogTimer)
    /\ \A c \in CallId : /\ WF_vars(Response200(c) \/ ResponseFailure(c))
                         /\ WF_vars(Ack(c))
FairSpec == Spec /\ Fairness

-----------------------------------------------------------------------------
\* The queue holds exactly the completed calls of the map, each once, so that the
\* watchdog can never meet a call-id it has already erased.
QueueMatchesMap ==
    /\ \A i, j \in 1..Len(m_deqCompletedCallIds) :
         m_deqCompletedCallIds[i] = m_deqCompletedCallIds[j] => i = j
    /\ \A i \in 1..Len(m_deqCompletedCallIds) :
         /\ InProgress(m_deqCompletedCallIds[i])
         /\ m_mapInvitesInProgress[m_deqCompletedCallIds[i]].m_bComplete
    /\ \A c \in CallId :
         InProgress(c) /\ m_mapInvitesInProgress[c].m_bComplete =>
             \E i \in 1..Len(m_deqCompletedCallIds) : m_deqCompletedCallIds[i] = c

\* The assertion at line 655: the watchdog finds every completed call in the map.
WatchdogFindsCalls == process # "655 not found"

\* No call that has not had its final response is forgotten: while it is in progress
\* the route of its INVITE is kept (a repeated INVITE goes to the same server).
RouteKept == \A c \in CallId \ Inherited :
                Running /\ call[c] \in {"inviting", "failed"} => InProgress(c)

\* How the table of calls looks from outside.
TableState == [c \in CallId |->
    CASE ~InProgress(c) -> "unknown"
      [] InProgress(c) /\ ~m_mapInvitesInProgress[c].m_bComplete -> "open"
      [] OTHER -> IF m_mapInvitesInProgress[c].m_expireTime > 0 THEN "done" ELSE "expired"]

Table == INSTANCE CallTable WITH state <- TableState

\* The map and the queue together keep the promise of CallTable: no call is forgotten
\* before it is completed and has expired, stragglers renew it, and the process stops
\* with an empty table.
ImplementsCallTable == Table!Spec

\* Every answered call is forgotten, however long a straggler ahead of it in the queue
\* keeps the watchdog's loop from it, unless the process ends.
AnsweredForgotten ==
    \A c \in CallId : (InProgress(c) /\ call[c] = "answered") ~> (~InProgress(c) \/ ~Running)

\* Once the iterations are used up and only answered calls are left, the process
\* counts down and stops, unless the ACK of a call it does not know ends it before.
StopsAfterIterations ==
    (m_nIterationCount = 0 /\ \A c \in CallId : InProgress(c) => call[c] = "answered")
        ~> (process \in {"stopped", "821 end iterator"})

=============================================================================
