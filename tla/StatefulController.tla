------------------------- MODULE StatefulController -------------------------
(***************************************************************************)
(* The stateful agent mode of SipLbController (ssp-controller.cpp): a      *)
(* back-to-back user agent that bridges an incoming call leg (A) with an   *)
(* outgoing one (B).  All handlers run on the one sofia-sip event loop, so *)
(* each is one action; what is concurrent is the far ends, whose requests, *)
(* responses, cancellations and hang-ups arrive in any order.              *)
(*                                                                         *)
(* Handles (of legs, server and client transactions) are addresses: a freed *)
(* handle may be handed out again.  The transaction layer (nta) is         *)
(* external code and is modelled from how the controller uses it: which    *)
(* handles are alive and which leg nta_leg_by_dialog finds for a           *)
(* transaction.                                                            *)
(***************************************************************************)
EXTENDS Integers, Sequences

CONSTANTS
    Leg, Irq, Orq,   \* bounds: addresses of legs, server and client transactions
    Call,            \* bound: the calls (one CdrInfo each) that may be offered
    NULL,
    Retries,         \* values m_nTerminationRetries may take (installConfig)
    UIntMax,         \* bound: largest unsigned int
    SessionTimers,   \* whether inbound.session-timer is configured
    IterationCount   \* option -i: initial m_nIterationCount, -1 for unlimited

ASSUME HandleAssumption ==
    /\ NULL \notin Leg \cup Irq \cup Orq \cup Call
ASSUME NumberAssumption ==
    /\ UIntMax \in Nat
    /\ Retries \subseteq 0..UIntMax
    /\ IterationCount \in Nat \cup {-1}
    /\ SessionTimers \in BOOLEAN

VARIABLES
    process,         \* "running", "stopped", or the place where it aborted
    active,          \* m_Config->isActive()
    m_nTerminationRetries,
    m_nIterationCount,
    legs,            \* nta: legs that exist
    irqState,        \* nta: server transactions
    irqLeg,          \* nta: what getLegFromTransaction(irq) finds
    orqMethod,       \* nta: client transactions, by method and callback
    orqLeg,          \* nta: what nta_leg_by_dialog finds for a response
    m_transactions,  \* bimap irq <-> orq
    m_dialogs,       \* bimap A leg <-> B leg
    m_mapTerminationAttempts,
    m_mapDialogInfo,
    callType,        \* how the call was classified when it was offered
    cdrs,            \* CDRs posted for the call, in order
    established,     \* the far end of the leg has a session: a callee from the moment it
                     \* sends its 200, a caller when that is sent on to it
    forgotten        \* callees' 200s, and sessions, that the controller knows nothing of

config == <<active, m_nTerminationRetries>>
nta == <<legs, irqState, irqLeg, orqMethod, orqLeg>>
maps == <<m_transactions, m_dialogs, m_mapTerminationAttempts, m_mapDialogInfo>>
ledger == <<callType, cdrs>>
farEnds == <<established, forgotten>>
vars == <<process, config, m_nIterationCount, nta, maps, ledger, farEnds>>

-----------------------------------------------------------------------------
(* Types *)

\* "initial": INVITE bound to handleAckOrCancel; "cancelled": the same after nta
\* answered it 487 although the controller kept it; "inDialog": legCallback's.
IrqStates == {"free", "initial", "cancelled", "inDialog"}

\* "INVITE" calls response_to_invite, the others
\* response_to_request_inside_dialog.
InDialogMethods == {"reINVITE", "other"}
OrqMethods == {"free", "INVITE"} \cup InDialogMethods

\* Assertions and undefined behaviour of the controller, by source line.
Aborts == {"1337 irq gone", "1344 B leg gone", "1350 A leg gone", "1368 no cdr",
           "1603 no other leg", "1681 irq gone", "1705 leg gone",
           "1736 no other leg", "1836 no other leg", "1853 no dialog info",
           "1549 null sip"}

CdrTypes == {"rejected", "request", "answered", "failed", "cancelled", "cleared",
             "attempt"}

TerminationAttempt == [nAttemptCount: 0..UIntMax, cdr: Call]
SipDialogInfo == [bOrigination: BOOLEAN, nSessionTimer: BOOLEAN,
                  timerSet: BOOLEAN, cdr: Call \cup {NULL}]

\* Of the far ends of a call: nothing is forgotten; a 200 of the callee is under way that no
\* client transaction waits for; a far end is in a session that no leg stands for.
Forgotten == {"nothing", "200", "session"}

ASSUME NullAssumption == NULL \notin TerminationAttempt /\ NULL \notin SipDialogInfo

TypeOK ==
    /\ process \in {"running", "stopped"} \cup Aborts
    /\ active \in BOOLEAN
    /\ m_nTerminationRetries \in Retries
    /\ m_nIterationCount \in Nat \cup {-1}
    /\ legs \in SUBSET Leg
    /\ irqState \in [Irq -> IrqStates]
    /\ irqLeg \in [Irq -> Leg \cup {NULL}]
    /\ orqMethod \in [Orq -> OrqMethods]
    /\ orqLeg \in [Orq -> Leg \cup {NULL}]
    /\ m_transactions \in SUBSET (Irq \X (Orq \cup {NULL}))
    /\ m_dialogs \in SUBSET (Leg \X Leg)
    /\ m_mapTerminationAttempts \in [Orq -> TerminationAttempt \cup {NULL}]
    /\ m_mapDialogInfo \in [Leg -> SipDialogInfo \cup {NULL}]
    /\ callType \in [Call -> {"none", "origination", "termination"}]
    /\ cdrs \in [Call -> Seq(CdrTypes)]
    /\ established \in [Leg -> BOOLEAN]
    /\ forgotten \in [Call -> Forgotten]

Init ==
    /\ process = "running"
    /\ active = TRUE
    /\ m_nTerminationRetries \in Retries
    /\ m_nIterationCount = IterationCount
    /\ legs = {}
    /\ irqState = [i \in Irq |-> "free"]
    /\ irqLeg = [i \in Irq |-> NULL]
    /\ orqMethod = [o \in Orq |-> "free"]
    /\ orqLeg = [o \in Orq |-> NULL]
    /\ m_transactions = {}
    /\ m_dialogs = {}
    /\ m_mapTerminationAttempts = [o \in Orq |-> NULL]
    /\ m_mapDialogInfo = [l \in Leg |-> NULL]
    /\ callType = [c \in Call |-> "none"]
    /\ cdrs = [c \in Call |-> <<>>]
    /\ established = [l \in Leg |-> FALSE]
    /\ forgotten = [c \in Call |-> "nothing"]

Running == process = "running"

\* assert(holds): the process dies where it does not, whatever else the step did.
Assert(holds, where) == process' = IF holds THEN process ELSE where

Abort(where) ==
    /\ process' = where
    /\ UNCHANGED <<config, m_nIterationCount, nta, maps, ledger, farEnds>>

-----------------------------------------------------------------------------
(* The transaction layer (external), as the controller uses it *)

\* An allocator: some address that is not in use.
New(free) == CHOOSE x \in free : TRUE

FreeIrqs == {i \in Irq : irqState[i] = "free"}
FreeOrqs == {o \in Orq : orqMethod[o] = "free"}
FreeLegs == Leg \ legs

\* nta_incoming_destroy of I, nta_outgoing_destroy of O, nta_leg_destroy of L.  A
\* destroyed client transaction reports no more responses to the controller, and a
\* destroyed leg is no longer found for any transaction.
Destroy(I, O, L) ==
    /\ irqState' = [i \in Irq |-> IF i \in I THEN "free" ELSE irqState[i]]
    /\ irqLeg' = [i \in Irq |-> IF i \in I \/ irqLeg[i] \in L THEN NULL ELSE irqLeg[i]]
    /\ orqMethod' = [o \in Orq |-> IF o \in O THEN "free" ELSE orqMethod[o]]
    /\ orqLeg' = [o \in Orq |-> IF o \in O \/ orqLeg[o] \in L THEN NULL ELSE orqLeg[o]]
    /\ legs' = legs \ L

-----------------------------------------------------------------------------
(* The controller's bookkeeping *)

\* boost::bimap::insert refuses an entry if either key is present.
Insert(bimap, left, right) ==
    IF \E p \in bimap : p[1] = left \/ p[2] = right
    THEN bimap ELSE bimap \cup {<<left, right>>}

\* std::map::insert keeps the value of a key that is present.
MapInsert(map, key, value) ==
    IF map[key] = NULL THEN [map EXCEPT ![key] = value] ELSE map

getAssociatedIrq(orq) ==
    IF \E p \in m_transactions : p[2] = orq
    THEN (CHOOSE p \in m_transactions : p[2] = orq)[1] ELSE NULL

getAssociatedOrq(irq) ==
    IF \E p \in m_transactions : p[1] = irq
    THEN (CHOOSE p \in m_transactions : p[1] = irq)[2] ELSE NULL

\* Undefined (the end iterator is dereferenced) for a leg in no dialog: NULL here,
\* and every caller's use of it is an abort.
getAssociatedDialog(leg) ==
    IF \E d \in m_dialogs : d[1] = leg
    THEN (CHOOSE d \in m_dialogs : d[1] = leg)[2]
    ELSE IF \E d \in m_dialogs : d[2] = leg
    THEN (CHOOSE d \in m_dialogs : d[2] = leg)[1] ELSE NULL

addTransactions(irq, orq) == m_transactions' = Insert(m_transactions, irq, orq)

addDialogs(a_leg, b_leg) == m_dialogs' = Insert(m_dialogs, a_leg, b_leg)

\* The map's part of clearTransaction; both handles go with Destroy.
clearTransaction(orq) == m_transactions' = {p \in m_transactions : p[2] # orq}

\* Mutant of clearDialog: only the info of the leg it is called with is erased.
clearDialogOneSide(leg) ==
    /\ m_dialogs' = {d \in m_dialogs : d[1] # leg /\ d[2] # leg}
    /\ m_mapDialogInfo' = [l \in Leg |-> IF l = leg THEN NULL ELSE m_mapDialogInfo[l]]

\* The maps' part of clearDialog; both legs go with Destroy.
clearDialog(leg) ==
    /\ m_dialogs' = {d \in m_dialogs : d[1] # leg /\ d[2] # leg}
    /\ m_mapDialogInfo' = [l \in Leg |-> IF l \in {leg, getAssociatedDialog(leg)}
                                         THEN NULL ELSE m_mapDialogInfo[l]]

\* Mutant of updateOutgoingTransaction: the new INVITE is not entered.
updateOutgoingTransactionErases(irq, orq, newOrq) ==
    m_transactions' = {p \in m_transactions : p[2] # orq}

updateOutgoingTransaction(irq, orq, newOrq) ==
    m_transactions' = Insert({p \in m_transactions : p[2] # orq}, irq, newOrq)

updateDialog(oldBLeg, newBLeg) ==
    /\ m_dialogs' = Insert({d \in m_dialogs : d[2] # oldBLeg},
                           getAssociatedDialog(oldBLeg), newBLeg)
    /\ m_mapDialogInfo' = [MapInsert(m_mapDialogInfo, newBLeg, m_mapDialogInfo[oldBLeg])
                             EXCEPT ![oldBLeg] = NULL]

postCdr(call, type) == cdrs' = [cdrs EXCEPT ![call] = Append(@, type)]

-----------------------------------------------------------------------------
(* processRequestOutsideDialog: a new INVITE *)

OfferedCall == New({c \in Call : callType[c] = "none"})

Offer(type) ==
    /\ Running
    /\ \E c \in Call : callType[c] = "none"
    /\ FreeIrqs # {}
    /\ callType' = [callType EXCEPT ![OfferedCall] = type]

\* Mutant of CountIteration: the unlimited count is decremented too.
CountIterationAlways == m_nIterationCount' = m_nIterationCount - 1

CountIteration ==
    m_nIterationCount' = IF m_nIterationCount > 0 THEN m_nIterationCount - 1
                                                  ELSE m_nIterationCount

AcceptsOriginations == active /\ m_nIterationCount # 0

\* 503 while inactive or after the last iteration, 403 for an unknown peer: answered
\* at once, with a CDR; the iteration is not counted.
RejectInvite ==
    /\ Offer("origination")
    /\ postCdr(OfferedCall, "rejected")
    /\ UNCHANGED <<process, config, m_nIterationCount, nta, maps, farEnds>>

\* processOriginationRequest when no server is available (486) or nta cannot create
\* a leg or the INVITE (503): whatever was created is destroyed again.
FailOrigination ==
    /\ AcceptsOriginations
    /\ Offer("origination")
    /\ postCdr(OfferedCall, "rejected")
    /\ CountIteration
    /\ UNCHANGED <<process, config, nta, maps, farEnds>>

\* The handles an accepted INVITE gets: <<irq, orq, a_leg, b_leg>>.
Bridge(irq, orq, a_leg, b_leg) ==
    /\ irqState' = [irqState EXCEPT ![irq] = "initial"]
    /\ irqLeg' = [irqLeg EXCEPT ![irq] = a_leg]
    /\ orqMethod' = [orqMethod EXCEPT ![orq] = "INVITE"]
    /\ orqLeg' = [orqLeg EXCEPT ![orq] = b_leg]
    /\ legs' = legs \cup {a_leg, b_leg}
    /\ addTransactions(irq, orq)
    /\ addDialogs(a_leg, b_leg)

BridgePossible ==
    /\ FreeOrqs # {}
    /\ \E l, k \in FreeLegs : l # k

processOriginationRequest ==
    LET a_leg == New(FreeLegs)
        b_leg == New(FreeLegs \ {a_leg})
    IN /\ AcceptsOriginations
       /\ Offer("origination")
       /\ BridgePossible
       /\ Bridge(New(FreeIrqs), New(FreeOrqs), a_leg, b_leg)
       /\ \E timer \in BOOLEAN :   \* the INVITE carries Session-Expires
            /\ timer => SessionTimers
            /\ m_mapDialogInfo' = MapInsert(m_mapDialogInfo, a_leg,
                 [bOrigination |-> TRUE, nSessionTimer |-> timer,
                  timerSet |-> FALSE, cdr |-> OfferedCall])
       /\ postCdr(OfferedCall, "request")
       /\ CountIteration
       /\ UNCHANGED <<process, config, m_mapTerminationAttempts, farEnds>>

\* processTerminationRequest without a route (480) or when generateTerminationRequest
\* fails (503).
FailTermination ==
    /\ Offer("termination")
    /\ CountIteration
    /\ UNCHANGED <<process, config, nta, maps, cdrs, farEnds>>

processTerminationRequest ==
    LET orq == New(FreeOrqs)
        a_leg == New(FreeLegs)
        b_leg == New(FreeLegs \ {a_leg})
    IN /\ Offer("termination")
       /\ BridgePossible
       /\ Bridge(New(FreeIrqs), orq, a_leg, b_leg)
       /\ m_mapTerminationAttempts' = MapInsert(m_mapTerminationAttempts, orq,
            [nAttemptCount |-> 0, cdr |-> OfferedCall])
       /\ m_mapDialogInfo' = MapInsert(m_mapDialogInfo, b_leg,
            [bOrigination |-> FALSE, nSessionTimer |-> FALSE,
             timerSet |-> FALSE, cdr |-> NULL])
       /\ CountIteration
       /\ UNCHANGED <<process, config, cdrs, farEnds>>

-----------------------------------------------------------------------------
(* processInviteResponseInsideDialog: a response to the INVITE sent on B *)

isTermination(orq) == m_mapTerminationAttempts[orq] # NULL

getALeg(orq) ==
    IF getAssociatedIrq(orq) = NULL THEN NULL ELSE irqLeg[getAssociatedIrq(orq)]

\* pCdr: the attempt's, or else that of the A leg's dialog.
getCdrInfo(orq) ==
    IF isTermination(orq) THEN m_mapTerminationAttempts[orq].cdr
    ELSE IF m_mapDialogInfo[getALeg(orq)] # NULL
    THEN m_mapDialogInfo[getALeg(orq)].cdr ELSE NULL

\* The assertion that fails when a response to orq is looked up, in the order the
\* handler makes its lookups.
InviteLookup(orq) ==
    IF getAssociatedIrq(orq) = NULL THEN "1337 irq gone"
    ELSE IF orqLeg[orq] = NULL THEN "1344 B leg gone"
    ELSE IF getALeg(orq) = NULL THEN "1350 A leg gone"
    ELSE IF getCdrInfo(orq) = NULL THEN "1368 no cdr" ELSE "found"

\* Any response, provisional ones included.
InviteResponseUnexpected(orq) ==
    /\ Running /\ orqMethod[orq] = "INVITE"
    /\ InviteLookup(orq) # "found"
    /\ Abort(InviteLookup(orq))

FinalInviteResponse(orq) ==
    /\ Running /\ orqMethod[orq] = "INVITE"
    /\ InviteLookup(orq) = "found"

\* The callee sends its 200 (external): it is in a session from now on, and the 200 is
\* under way until InviteAnswered.
CalleeAnswers(orq) ==
    /\ Running /\ orqMethod[orq] = "INVITE"
    /\ InviteLookup(orq) = "found"
    /\ ~established[orqLeg[orq]]
    /\ established' = [established EXCEPT ![orqLeg[orq]] = TRUE]
    /\ UNCHANGED <<process, config, m_nIterationCount, nta, maps, ledger, forgotten>>

\* A final failure that is the callee's own answer, so it has sent no 200.
CalleeRefuses(orq) == FinalInviteResponse(orq) /\ ~established[orqLeg[orq]]

\* The INVITE ends without the callee's answer, which may be a 200 that is under way: the
\* leg and the client transaction that would have taken it are destroyed.
LoseCallee(orq) ==
    /\ established' = [established EXCEPT ![orqLeg[orq]] = FALSE]
    /\ forgotten' = IF established[orqLeg[orq]]
                    THEN [forgotten EXCEPT ![getCdrInfo(orq)] = "200"] ELSE forgotten

\* processRetransmittedResponse: nta gives a 200 that no client transaction takes to the
\* default one.  It is acknowledged (again) on the leg of its Call-ID; but every B leg has
\* its own, and this one's is gone, so the callee gets neither an ACK nor a BYE.
processRetransmittedResponse(call) ==
    /\ Running /\ forgotten[call] = "200"
    /\ forgotten' = [forgotten EXCEPT ![call] = "session"]
    /\ UNCHANGED <<process, config, m_nIterationCount, nta, maps, ledger, established>>

eraseAttempt(orq) ==
    m_mapTerminationAttempts' = [m_mapTerminationAttempts EXCEPT ![orq] = NULL]

\* The CDR of a final response that is proxied to A.
FinalResponseCdr(orq, status) ==
    IF isTermination(orq) THEN "attempt"
    ELSE IF status = "200" THEN "answered" ELSE "failed"

\* 200: acknowledged to B, proxied to A; the legs stay, and the session timer of an
\* origination is armed (su_timer_create may fail).
InviteAnswered(orq) ==
    LET a_leg == getALeg(orq)
        pDialog == m_mapDialogInfo[a_leg]
    IN /\ FinalInviteResponse(orq) /\ established[orqLeg[orq]]
       /\ clearTransaction(orq)
       /\ eraseAttempt(orq)
       /\ Destroy({getAssociatedIrq(orq)}, {orq}, {})
       /\ IF ~isTermination(orq) /\ pDialog.nSessionTimer
          THEN \E created \in BOOLEAN :
                 m_mapDialogInfo' = [m_mapDialogInfo EXCEPT ![a_leg].timerSet = created]
          ELSE UNCHANGED m_mapDialogInfo
       /\ postCdr(getCdrInfo(orq), FinalResponseCdr(orq, "200"))
       /\ established' = [established EXCEPT ![a_leg] = TRUE]
       /\ UNCHANGED <<process, config, m_nIterationCount, m_dialogs, callType, forgotten>>

\* generateTerminationRequest succeeds for an attempt that is cranked back: a new B
\* leg and INVITE replace the old ones in every map.
ReplaceBLeg(orq, t) ==
    LET orqNew == New(FreeOrqs)
        b_legNew == New(FreeLegs)
    IN /\ FreeOrqs # {} /\ FreeLegs # {}
       /\ updateOutgoingTransaction(getAssociatedIrq(orq), orq, orqNew)
       /\ updateDialog(orqLeg[orq], b_legNew)
       /\ m_mapTerminationAttempts' =
            MapInsert([m_mapTerminationAttempts EXCEPT ![orq] = NULL], orqNew, t)
       /\ orqMethod' = [orqMethod EXCEPT ![orq] = "free", ![orqNew] = "INVITE"]
       /\ orqLeg' = [o \in Orq |-> IF o = orqNew THEN b_legNew
                                   ELSE IF orqLeg[o] = orqLeg[orq] THEN NULL
                                   ELSE orqLeg[o]]
       /\ irqLeg' = [i \in Irq |-> IF irqLeg[i] = orqLeg[orq] THEN NULL ELSE irqLeg[i]]
       /\ legs' = (legs \ {orqLeg[orq]}) \cup {b_legNew}
       /\ UNCHANGED irqState

\* 3xx to a termination: try the Contact; t->crankback(url) does not count it.
InviteRedirected(orq) ==
    /\ CalleeRefuses(orq)
    /\ isTermination(orq)
    /\ ReplaceBLeg(orq, m_mapTerminationAttempts[orq])
    /\ Assert(m_mapDialogInfo[orqLeg[orq]] # NULL, "1853 no dialog info")
    /\ UNCHANGED <<config, m_nIterationCount, ledger, farEnds>>

\* The right-hand side of nAttempt < m_nTerminationRetries - 1, unsigned.
RetryLimit == IF m_nTerminationRetries = 0 THEN UIntMax ELSE m_nTerminationRetries - 1

\* Mutant of MayCrankback: off by one.
MayCrankbackOnceMore(orq) == m_mapTerminationAttempts[orq].nAttemptCount <= RetryLimit

MayCrankback(orq) == m_mapTerminationAttempts[orq].nAttemptCount < RetryLimit

\* Mutant of InviteCrankedBack: the failed attempt gets no CDR.
InviteCrankedBackNoCdr(orq) ==
    LET t == m_mapTerminationAttempts[orq]
    IN /\ CalleeRefuses(orq)
       /\ isTermination(orq)
       /\ MayCrankback(orq)
       /\ ReplaceBLeg(orq, [t EXCEPT !.nAttemptCount = @ + 1])
       /\ UNCHANGED <<process, config, m_nIterationCount, ledger, farEnds>>

\* 503 or 480 to a termination with an alternative carrier: record this attempt and
\* try the other carrier.
InviteCrankedBack(orq) ==
    LET t == m_mapTerminationAttempts[orq]
    IN /\ CalleeRefuses(orq)
       /\ isTermination(orq)
       /\ MayCrankback(orq)
       /\ ReplaceBLeg(orq, [t EXCEPT !.nAttemptCount = @ + 1])
       /\ Assert(m_mapDialogInfo[orqLeg[orq]] # NULL, "1853 no dialog info")
       /\ postCdr(t.cdr, "attempt")
       /\ UNCHANGED <<config, m_nIterationCount, callType, farEnds>>

\* Mutant of InviteRejected: the failure is not answered towards A.
InviteRejectedUnanswered(orq) ==
    LET b_leg == orqLeg[orq]
    IN /\ FinalInviteResponse(orq)
       /\ clearTransaction(orq)
       /\ clearDialog(b_leg)
       /\ eraseAttempt(orq)
       /\ Destroy({}, {orq}, {b_leg, getAssociatedDialog(b_leg)})
       /\ postCdr(getCdrInfo(orq), FinalResponseCdr(orq, "failure"))
       /\ LoseCallee(orq)
       /\ UNCHANGED <<process, config, m_nIterationCount, callType>>

\* A final failure that is proxied to A: of an origination, or of a termination that
\* has no retry left, no other carrier, or whose redirect could not be sent.  It may be
\* the 408 of nta's timers B and C, which a 200 of the callee can cross.
InviteRejected(orq) ==
    LET b_leg == orqLeg[orq]
    IN /\ FinalInviteResponse(orq)
       /\ clearTransaction(orq)
       /\ clearDialog(b_leg)
       /\ eraseAttempt(orq)
       /\ Destroy({getAssociatedIrq(orq)}, {orq}, {b_leg, getAssociatedDialog(b_leg)})
       /\ Assert(getAssociatedDialog(b_leg) # NULL, "1836 no other leg")
       /\ postCdr(getCdrInfo(orq), FinalResponseCdr(orq, "failure"))
       /\ LoseCallee(orq)
       /\ UNCHANGED <<config, m_nIterationCount, callType>>

\* 503 or 480 with an alternative carrier to which the INVITE cannot be created: the
\* attempt is recorded twice, then the failure is proxied.
InviteCrankbackFails(orq) ==
    LET b_leg == orqLeg[orq]
        cdr == getCdrInfo(orq)
    IN /\ CalleeRefuses(orq)
       /\ isTermination(orq)
       /\ MayCrankback(orq)
       /\ clearTransaction(orq)
       /\ clearDialog(b_leg)
       /\ eraseAttempt(orq)
       /\ Destroy({getAssociatedIrq(orq)}, {orq}, {b_leg, getAssociatedDialog(b_leg)})
       /\ Assert(getAssociatedDialog(b_leg) # NULL, "1836 no other leg")
       /\ cdrs' = [cdrs EXCEPT ![cdr] = @ \o <<"attempt", "attempt">>]
       /\ UNCHANGED <<config, m_nIterationCount, callType, farEnds>>

-----------------------------------------------------------------------------
(* processAckOrCancel: CANCEL of an unanswered INVITE.  nta itself answers 200 to  *)
(* the CANCEL and, when the handler is done, 487 to the INVITE.                    *)

\* One side of the bridge is gone: nothing is cancelled towards B.  (The handler's
\* 481 is ignored by nta.)
CancelTooLate(irq) ==
    LET leg == irqLeg[irq]
        gone == {leg, getAssociatedDialog(leg)}
    IN /\ Running /\ irqState[irq] = "initial"
       /\ getAssociatedOrq(irq) = NULL \/ leg = NULL
       /\ clearDialog(leg)
       /\ legs' = legs \ gone
       /\ irqState' = [irqState EXCEPT ![irq] = "cancelled"]
       /\ irqLeg' = [i \in Irq |-> IF irqLeg[i] \in gone THEN NULL ELSE irqLeg[i]]
       /\ orqLeg' = [o \in Orq |-> IF orqLeg[o] \in gone THEN NULL ELSE orqLeg[o]]
       /\ UNCHANGED <<process, config, m_nIterationCount, orqMethod, m_transactions,
                      m_mapTerminationAttempts, ledger, farEnds>>

\* Mutant of Cancel: the dialog is kept.
CancelKeepsDialog(irq) ==
    LET orq == getAssociatedOrq(irq)
        leg == irqLeg[irq]
    IN /\ Running /\ irqState[irq] = "initial"
       /\ orq # NULL /\ leg # NULL
       /\ IF m_mapDialogInfo[leg] # NULL
          THEN postCdr(m_mapDialogInfo[leg].cdr, "cancelled")
          ELSE UNCHANGED cdrs
       /\ clearTransaction(orq)
       /\ eraseAttempt(orq)
       /\ Destroy({irq}, {orq}, {})
       /\ LoseCallee(orq)
       /\ UNCHANGED <<process, config, m_nIterationCount, m_dialogs, m_mapDialogInfo,
                      callType>>

\* The CDR is that of the A leg's dialog, or else of the attempt.  A 200 of the callee may
\* cross the CANCEL that is sent to it (nta_outgoing_cancel).
Cancel(irq) ==
    LET orq == getAssociatedOrq(irq)
        leg == irqLeg[irq]
        other == getAssociatedDialog(leg)
    IN /\ Running /\ irqState[irq] = "initial"
       /\ orq # NULL /\ leg # NULL
       /\ IF m_mapDialogInfo[leg] # NULL
          THEN postCdr(m_mapDialogInfo[leg].cdr, "cancelled")
          ELSE IF isTermination(orq)
          THEN postCdr(m_mapTerminationAttempts[orq].cdr, "attempt")
          ELSE UNCHANGED cdrs
       /\ clearTransaction(orq)
       /\ clearDialog(leg)
       /\ eraseAttempt(orq)
       /\ Destroy({irq}, {orq}, {leg, other})
       /\ LoseCallee(orq)
       /\ Assert(other # NULL, "1836 no other leg")
       /\ UNCHANGED <<config, m_nIterationCount, callType>>

\* nta's timer H: no ACK came for the 487 of an INVITE the controller still holds.
\* The callback is made without a message, which processAckOrCancel dereferences.
TimerH(irq) ==
    /\ Running /\ irqState[irq] = "cancelled"
    /\ Abort("1549 null sip")

-----------------------------------------------------------------------------
(* processRequestInsideDialog: a request on a leg, from either far end.  A leg is  *)
(* found as soon as it exists, so also for a BYE in an early dialog (a caller may  *)
(* send one, and a callee's may overtake its own 200).                             *)

\* Mutant of OriginationInfo: only the leg that hangs up is looked at.
OriginationInfoOneSide(leg, other) ==
    {l \in {leg} \cap Leg : m_mapDialogInfo[l] # NULL /\ m_mapDialogInfo[l].bOrigination}

\* The dialog info that closes the CDR of a call: only an origination's.
OriginationInfo(leg, other) ==
    {l \in {leg, other} \cap Leg : m_mapDialogInfo[l] # NULL
                                    /\ m_mapDialogInfo[l].bOrigination}

\* Both far ends are told.  (The BYE to a callee whose 200 is still under way lacks its
\* tag, so may not end its session; the 200 then finds the transaction, but no leg, and the
\* process dies at line 1344.)
Bye(leg) ==
    LET other == getAssociatedDialog(leg)
        info == OriginationInfo(leg, other)
    IN /\ Running /\ leg \in legs /\ FreeIrqs # {}
       /\ IF info = {} THEN UNCHANGED cdrs
          ELSE postCdr(m_mapDialogInfo[IF leg \in info THEN leg ELSE other].cdr, "cleared")
       /\ clearDialog(leg)
       /\ Destroy({}, {}, {leg, other})
       /\ established' = [l \in Leg |-> established[l] /\ l \notin {leg, other}]
       /\ Assert(other # NULL, "1603 no other leg")
       /\ UNCHANGED <<config, m_nIterationCount, m_transactions,
                      m_mapTerminationAttempts, callType, forgotten>>

\* Any other request but ACK is sent on to the other side.  A far end sends a
\* re-INVITE only once its INVITE has been answered.
ForwardRequest(leg, method) ==
    LET other == getAssociatedDialog(leg)
        irq == New(FreeIrqs)
        orq == New(FreeOrqs)
    IN /\ Running /\ leg \in legs /\ FreeIrqs # {} /\ FreeOrqs # {}
       /\ method = "reINVITE" => established[leg]
       /\ irqState' = [irqState EXCEPT ![irq] = "inDialog"]
       /\ orqMethod' = [orqMethod EXCEPT ![orq] = method]
       /\ orqLeg' = [orqLeg EXCEPT ![orq] = other]
       /\ addTransactions(irq, orq)
       /\ Assert(other # NULL, "1603 no other leg")
       /\ UNCHANGED <<config, m_nIterationCount, legs, irqLeg, m_dialogs,
                      m_mapTerminationAttempts, m_mapDialogInfo, ledger, farEnds>>

\* The same when nta cannot create the request: NULL is entered for it unchecked.
ForwardRequestFails(leg) ==
    LET irq == New(FreeIrqs)
    IN /\ Running /\ leg \in legs /\ FreeIrqs # {}
       /\ irqState' = [irqState EXCEPT ![irq] = "inDialog"]
       /\ addTransactions(irq, NULL)
       /\ Assert(getAssociatedDialog(leg) # NULL, "1603 no other leg")
       /\ UNCHANGED <<config, m_nIterationCount, legs, irqLeg, orqMethod, orqLeg,
                      m_dialogs, m_mapTerminationAttempts, m_mapDialogInfo, ledger,
                      farEnds>>

\* Mutant of ResponseInsideDialog: a refused request clears the dialog.
ResponseInsideDialogClears(orq, status) ==
    LET leg == orqLeg[orq]
    IN /\ Running /\ orqMethod[orq] \in InDialogMethods
       /\ clearTransaction(orq)
       /\ clearDialog(leg)
       /\ Destroy({getAssociatedIrq(orq)}, {orq}, {leg, getAssociatedDialog(leg)})
       /\ UNCHANGED <<process, config, m_nIterationCount, m_mapTerminationAttempts,
                      ledger, farEnds>>

\* processResponseInsideDialog: a final response to a forwarded request.  A 200 to a
\* re-INVITE has to be acknowledged on the leg it was sent on.
ResponseInsideDialog(orq, status) ==
    LET irq == getAssociatedIrq(orq)
    IN /\ Running /\ orqMethod[orq] \in InDialogMethods
       /\ clearTransaction(orq)
       /\ Destroy({irq}, {orq}, {})
       /\ process' = IF irq = NULL THEN "1681 irq gone"
                     ELSE IF status = "200" /\ orqMethod[orq] = "reINVITE"
                                            /\ orqLeg[orq] = NULL
                     THEN "1705 leg gone" ELSE process
       /\ UNCHANGED <<config, m_nIterationCount, m_dialogs, m_mapTerminationAttempts,
                      m_mapDialogInfo, ledger, farEnds>>

-----------------------------------------------------------------------------
(* Timers and configuration *)

\* processSessionRefreshTimer: terminateLeg does nothing, so neither far end is told.
SessionRefreshTimer(leg) ==
    LET other == getAssociatedDialog(leg)
    IN /\ Running
       /\ m_mapDialogInfo[leg] # NULL
       /\ m_mapDialogInfo[leg].timerSet
       /\ clearDialog(leg)
       /\ Destroy({}, {}, {leg, other})
       /\ established' = [l \in Leg |-> established[l] /\ l \notin {leg, other}]
       /\ forgotten' = [forgotten EXCEPT ![m_mapDialogInfo[leg].cdr] = "session"]
       /\ Assert(other # NULL, "1736 no other leg")
       /\ UNCHANGED <<config, m_nIterationCount, m_transactions,
                      m_mapTerminationAttempts, ledger>>

\* Mutant of ShutDown: the dialogs are not looked at.
ShutDownEarly ==
    /\ Running
    /\ m_nIterationCount = 0
    /\ m_transactions = {}
    /\ process' = "stopped"
    /\ UNCHANGED <<config, m_nIterationCount, nta, maps, ledger, farEnds>>

\* processWatchdogTimer, stateful branch: stop once every iteration is done.
ShutDown ==
    /\ Running
    /\ m_nIterationCount = 0
    /\ m_dialogs = {} /\ m_transactions = {}
    /\ \A o \in Orq : ~isTermination(o)
    /\ FreeIrqs = Irq /\ FreeOrqs = Orq   \* nta's hash tables are empty
    /\ process' = "stopped"
    /\ UNCHANGED <<config, m_nIterationCount, nta, maps, ledger, farEnds>>

\* processWatchdogTimer installs a new configuration.
InstallConfig ==
    /\ Running
    /\ active' \in BOOLEAN
    /\ m_nTerminationRetries' \in Retries
    /\ UNCHANGED <<process, m_nIterationCount, nta, maps, ledger, farEnds>>

-----------------------------------------------------------------------------
NewCall ==
    \/ RejectInvite
    \/ FailOrigination
    \/ processOriginationRequest
    \/ FailTermination
    \/ processTerminationRequest

InviteResponse(orq) ==
    \/ InviteResponseUnexpected(orq)
    \/ InviteAnswered(orq)
    \/ InviteRedirected(orq)
    \/ InviteCrankedBack(orq)
    \/ InviteRejected(orq)
    \/ InviteCrankbackFails(orq)

CallerStep(irq) == CancelTooLate(irq) \/ Cancel(irq) \/ TimerH(irq)

RequestInsideDialog(leg) ==
    \/ Bye(leg)
    \/ \E m \in InDialogMethods : ForwardRequest(leg, m)
    \/ ForwardRequestFails(leg)

Next ==
    \/ NewCall
    \/ \E o \in Orq : CalleeAnswers(o) \/ InviteResponse(o)
    \/ \E c \in Call : processRetransmittedResponse(c)
    \/ \E o \in Orq, s \in {"200", "failure"} : ResponseInsideDialog(o, s)
    \/ \E i \in Irq : CallerStep(i)
    \/ \E l \in Leg : RequestInsideDialog(l) \/ SessionRefreshTimer(l)
    \/ ShutDown
    \/ InstallConfig

Spec == Init /\ [][Next]_vars

-----------------------------------------------------------------------------
(* Safety *)

\* No handle in the controller's maps is dangling: freed legs and transactions have
\* left every map (clearDialog, clearTransaction, updateDialog, the erase of the
\* attempt), so an address that is handed out again meets no stale entry.
NoDanglingHandle ==
    /\ \A p \in m_transactions : /\ irqState[p[1]] # "free"
                                 /\ p[2] # NULL => orqMethod[p[2]] # "free"
    /\ \A d \in m_dialogs : d[1] \in legs /\ d[2] \in legs
    /\ \A o \in Orq : isTermination(o) => orqMethod[o] = "INVITE"
    /\ \A l \in Leg : m_mapDialogInfo[l] # NULL => l \in legs

\* No handle is leaked: a live client transaction and an unanswered INVITE are in
\* m_transactions and a live leg is in m_dialogs, so the lookups of the handlers
\* (lines 1337, 1603, 1681, 1736, 1836) find what they need.
NoLostHandle ==
    /\ \A o \in Orq : orqMethod[o] # "free" => \E p \in m_transactions : p[2] = o
    /\ \A i \in Irq : irqState[i] = "initial" =>
         \E p \in m_transactions : p[1] = i /\ p[2] # NULL
    /\ \A l \in legs : \E d \in m_dialogs : l \in {d[1], d[2]}

\* Both bimaps are one to one, and no leg is an A leg of one call and a B leg of
\* another.
OneToOne ==
    /\ \A p, q \in m_transactions : p[1] = q[1] \/ p[2] = q[2] => p = q
    /\ \A d, e \in m_dialogs : /\ d[1] = e[1] \/ d[2] = e[2] => d = e
                               /\ d[1] # e[2]

\* The pair of an unanswered INVITE bridges the legs of one dialog, through every
\* redirect and crankback, or the dialog is gone on both sides.
BridgeMatchesDialog ==
    \A p \in m_transactions :
        irqState[p[1]] \in {"initial", "cancelled"} =>
            \/ irqLeg[p[1]] = NULL /\ orqLeg[p[2]] = NULL
            \/ <<irqLeg[p[1]], orqLeg[p[2]]>> \in m_dialogs

\* A server transaction of an INVITE is paired with the INVITE on B, one of a request
\* in a dialog with that request, and no dialog has two INVITEs under way.
InvitesPaired ==
    /\ \A p \in m_transactions :
         irqState[p[1]] \in {"initial", "cancelled"} <=>
             p[2] # NULL /\ orqMethod[p[2]] = "INVITE"
    /\ \A p, q \in m_transactions :
         /\ irqState[p[1]] \in {"initial", "cancelled"}
         /\ irqState[q[1]] \in {"initial", "cancelled"}
         /\ irqLeg[p[1]] = irqLeg[q[1]]
         => p = q \/ irqLeg[p[1]] = NULL

\* Exactly one leg of a dialog carries dialog info: the A leg of an origination, with
\* its CDR, or the B leg of a termination.
DialogInfoOwner ==
    \A d \in m_dialogs :
        \/ /\ m_mapDialogInfo[d[1]] # NULL /\ m_mapDialogInfo[d[2]] = NULL
           /\ m_mapDialogInfo[d[1]].bOrigination /\ m_mapDialogInfo[d[1]].cdr # NULL
        \/ /\ m_mapDialogInfo[d[1]] = NULL /\ m_mapDialogInfo[d[2]] # NULL
           /\ ~m_mapDialogInfo[d[2]].bOrigination

\* The INVITE of a bridge is a termination attempt iff its dialog is one.
AttemptMatchesDialog ==
    \A p \in m_transactions :
        irqState[p[1]] \in {"initial", "cancelled"} /\ irqLeg[p[1]] # NULL =>
            (isTermination(p[2]) <=> m_mapDialogInfo[irqLeg[p[1]]] = NULL)

\* The controller's maps agree with each other and with nta at every return to the
\* event loop: the inductive core of what the handlers rely on.
Consistent ==
    /\ NoDanglingHandle
    /\ NoLostHandle
    /\ OneToOne
    /\ InvitesPaired
    /\ BridgeMatchesDialog
    /\ DialogInfoOwner
    /\ AttemptMatchesDialog

\* Of the assertions in the controller's handlers only three can fail: a response or
\* a timeout for a dialog that a BYE or the session timer has cleared.
LookupsSucceed ==
    process \in {"running", "stopped", "1344 B leg gone", "1705 leg gone",
                 "1549 null sip"}

\* ssp.conf.xml, max-termination-attempts: a call is not retried more often than
\* some installed configuration allows (the first attempt is always made).
AttemptsWithinRetries ==
    \A o \in Orq : isTermination(o) =>
        LET n == m_mapTerminationAttempts[o].nAttemptCount
        IN n = 0 \/ \E r \in Retries : n < r

Open == {"request", "answered"}

\* The ledger of an origination: it is opened once, answered at most once, closed at
\* most once, and open exactly while the controller keeps the dialog.
CdrLedger ==
    \A c \in Call : callType[c] = "origination" =>
        /\ cdrs[c] \in {<<"rejected">>, <<"request">>,
                        <<"request", "answered">>, <<"request", "failed">>,
                        <<"request", "cancelled">>, <<"request", "cleared">>,
                        <<"request", "answered", "cleared">>}
        /\ cdrs[c][Len(cdrs[c])] \in Open <=>
             \E l \in Leg : m_mapDialogInfo[l] # NULL /\ m_mapDialogInfo[l].cdr = c

\* While a termination is tried, each earlier attempt has its CDR.
CdrPerAttempt ==
    \A o \in Orq : isTermination(o) =>
        LET t == m_mapTerminationAttempts[o] IN Len(cdrs[t.cdr]) = t.nAttemptCount

\* Whether all that the controller told a caller and its CDRs is that the call failed.
GivenUp(c) == cdrs[c] \in {<<"request", "cancelled">>, <<"request", "failed">>}

\* Every far end with a session is on a leg the controller has, so that a BYE of the other
\* one reaches it.
SessionHasLeg == \A l \in Leg : established[l] => l \in legs

\* A session without a leg is of an origination that was given up, or of a termination (whose
\* attempts each have a CDR of their own).
StraysGivenUp ==
    \A c \in Call : callType[c] = "origination" /\ forgotten[c] # "nothing" => GivenUp(c)

\* No far end is in a session that the controller has forgotten, with one exception: a
\* callee whose 200 crossed the end of its INVITE, a CANCEL or a timeout
\* (processAckOrCancel; processRetransmittedResponse sends it neither ACK nor BYE).  Even
\* then no caller is talking to it, and no CDR of an origination says that it was answered.
\* This is without session timers, whose timeout forgets both far ends of an answered call,
\* and takes a far end that is sent a BYE to have ended its session (see Bye for an early one).
NoOrphanSession == SessionHasLeg /\ StraysGivenUp

\* Option -i stops the process (processWatchdogTimer) without looking at
\* m_mapDialogInfo or the CDRs: nothing of a call is left behind all the same.
StoppedClean ==
    process = "stopped" =>
        /\ legs = {}
        /\ \A l \in Leg : m_mapDialogInfo[l] = NULL
        /\ \A c \in Call : callType[c] = "origination" =>
             cdrs[c][Len(cdrs[c])] \notin Open

\* The events of an origination as SessionEvents has them.  The CdrInfo of a termination
\* has only attempts.
SessionEventsOf == [c \in Call |->
    IF callType[c] = "origination" THEN {cdrs[c][i] : i \in 1..Len(cdrs[c])} ELSE {}]

Accounting == INSTANCE SessionEvents WITH events <- SessionEventsOf,
                                          stopped <- (process = "stopped")

\* What is posted for the originations (postCdr) is what the
\* CdrWriter is made for, however the far ends' answers, cancellations and hang-ups of
\* several calls cross each other: the events come in one of the orders of
\* SessionEvents, and none is owed when option -i stops the process.
ImplementsSessionEvents == Accounting!Spec

\* The assertion at line 1344: a response to an INVITE finds its B leg.
NoLateResponseAbort == process # "1344 B leg gone"

-----------------------------------------------------------------------------
(* Liveness *)

\* A final response to an INVITE: the far end's, or the 408 that nta makes up when its
\* timers B or C fire.
FinalAnswer(orq) ==
    InviteResponseUnexpected(orq) \/ InviteAnswered(orq) \/ InviteRejected(orq)

\* Every call gets one, so carriers do not redirect it to each other forever (the code
\* follows redirects without a limit).
PerCallFairness ==
    \A i \in Irq : WF_vars(\E o \in Orq : getAssociatedIrq(o) = i /\ FinalAnswer(o))
FairSpec == Spec /\ PerCallFairness

\* Every INVITE the controller takes on is answered, crankbacks and hang-ups
\* notwithstanding, unless an assertion ends the process.
EveryInviteAnswered ==
    \A i \in Irq : irqState[i] = "initial" ~> (irqState[i] # "initial" \/ ~Running)

=============================================================================
