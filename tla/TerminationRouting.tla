------------------------- MODULE TerminationRouting -------------------------
(***************************************************************************)
(* The choice of an outbound trunk for a termination (ssp-config.cpp):     *)
(* carriers take turns by their quantity, and so do the trunks of one      *)
(* carrier; a failed attempt goes to another carrier (the crankback of     *)
(* ssp-controller.cpp).  The pointers are shared by all calls, new calls   *)
(* and crankbacks of several calls come in any order.                      *)
(***************************************************************************)
EXTENDS Integers, Sequences, FiniteSets

CONSTANTS
    Quantities,      \* carrier -> quantity of each of its trunks, in order
    Rotation,        \* m_vecTerminationCarrier: each carrier as often as its quantity
    NameOrder,       \* the carriers in the order of m_mapTerminationCarrierByName
    MaxTerminationAttempts,
    Call             \* bound: calls routed at the same time

Carriers == DOMAIN Quantities
Trunks(carrier) == 1..Len(Quantities[carrier])
AllTrunks == UNION {{carrier} \X Trunks(carrier) : carrier \in Carriers}

\* parse: a carrier without a trunk is left out, a configuration without a carrier is
\* not valid.
ASSUME RoutingAssumption ==
    /\ Carriers # {}
    /\ \A carrier \in Carriers : Quantities[carrier] \in Seq(Nat) /\ Trunks(carrier) # {}
    /\ Rotation \in Seq(Carriers) /\ Rotation # <<>>
    /\ NameOrder \in Seq(Carriers)
    /\ \A carrier \in Carriers : \E i \in 1..Len(NameOrder) : NameOrder[i] = carrier
    /\ MaxTerminationAttempts \in Nat

VARIABLES
    m_nCurrentTerminationCarrier,
    m_currentTrunk,  \* of each carrier's route
    m_selectCount,   \* of each carrier's trunks
    tried,           \* the trunks a call has been sent to, in order
    turn             \* history: uses of a carrier's current trunk since it was advanced to

vars == <<m_nCurrentTerminationCarrier, m_currentTrunk, m_selectCount, tried, turn>>

\* What the variables hold.
TypeOK ==
    /\ m_nCurrentTerminationCarrier \in 1..Len(Rotation)
    /\ m_currentTrunk \in [Carriers -> Nat]
    /\ \A carrier \in Carriers : m_currentTrunk[carrier] \in Trunks(carrier)
    /\ DOMAIN m_selectCount = Carriers
    /\ \A carrier \in Carriers : m_selectCount[carrier] \in [Trunks(carrier) -> Nat]
    /\ tried \in [Call -> Seq(AllTrunks)]
    /\ turn \in [Carriers -> Nat]

Init ==
    /\ m_nCurrentTerminationCarrier = 1
    /\ m_currentTrunk = [carrier \in Carriers |-> 1]
    /\ m_selectCount = [carrier \in Carriers |-> [t \in Trunks(carrier) |-> 0]]
    /\ tried = [c \in Call |-> <<>>]
    /\ turn = [carrier \in Carriers |-> 0]

-----------------------------------------------------------------------------
\* haveAdvancedToEnd: the result, and m_selectCount after it.
haveAdvancedToEnd(count, quantity) == count = quantity
advanceCount(count, quantity) == IF haveAdvancedToEnd(count, quantity) THEN 0 ELSE count + 1

\* Mutant of advanceTrunk: off by one.
advanceTrunkShort(carrier) ==
    IF m_currentTrunk[carrier] + 1 >= Len(Quantities[carrier]) THEN 1
    ELSE m_currentTrunk[carrier] + 1

advanceTrunk(carrier) ==
    IF m_currentTrunk[carrier] + 1 > Len(Quantities[carrier]) THEN 1
    ELSE m_currentTrunk[carrier] + 1

\* Mutant of getNextTrunk: the use of the trunk that is advanced to is not counted.
getNextTrunkUncounted(carrier) ==
    LET trunk == m_currentTrunk[carrier]
        quantity == Quantities[carrier]
        moves == haveAdvancedToEnd(m_selectCount[carrier][trunk], quantity[trunk])
    IN /\ m_selectCount' = [m_selectCount EXCEPT ![carrier] =
            [@ EXCEPT ![trunk] = advanceCount(@, quantity[trunk])]]
       /\ m_currentTrunk' = [m_currentTrunk EXCEPT ![carrier] =
            IF moves THEN advanceTrunk(carrier) ELSE @]
       /\ turn' = [turn EXCEPT ![carrier] = IF moves THEN 1 ELSE @ + 1]

\* getNextTrunk: m_currentTrunk' is the trunk to use.
getNextTrunk(carrier) ==
    LET trunk == m_currentTrunk[carrier]
        quantity == Quantities[carrier]
        next == advanceTrunk(carrier)
        counted == [m_selectCount[carrier] EXCEPT ![trunk] =
                      advanceCount(@, quantity[trunk])]
    IN IF haveAdvancedToEnd(m_selectCount[carrier][trunk], quantity[trunk])
       THEN /\ m_currentTrunk' = [m_currentTrunk EXCEPT ![carrier] = next]
            /\ m_selectCount' = [m_selectCount EXCEPT ![carrier] =
                 [counted EXCEPT ![next] = advanceCount(@, quantity[next])]]
            /\ turn' = [turn EXCEPT ![carrier] = 1]
       ELSE /\ m_selectCount' = [m_selectCount EXCEPT ![carrier] = counted]
            /\ turn' = [turn EXCEPT ![carrier] = @ + 1]
            /\ UNCHANGED m_currentTrunk

\* Sends call c to the next trunk of a carrier.
Send(c, carrier) ==
    /\ getNextTrunk(carrier)
    /\ tried' = [tried EXCEPT ![c] = Append(@, <<carrier, m_currentTrunk'[carrier]>>)]

getTerminationRoute(c) ==
    /\ Send(c, Rotation[m_nCurrentTerminationCarrier])
    /\ m_nCurrentTerminationCarrier' =
         IF m_nCurrentTerminationCarrier + 1 > Len(Rotation) THEN 1
         ELSE m_nCurrentTerminationCarrier + 1

\* An anonymous call that is routed to a configured carrier.
getTerminationRouteForCarrier(c, carrier) ==
    /\ Send(c, carrier)
    /\ UNCHANGED m_nCurrentTerminationCarrier

\* Mutant of altCarrier: the failed carrier is not left out.
altCarrierFirst(failed) == 1

\* The place in the map's order of the first carrier that is not the failed one; 0 if
\* there is none.
altCarrier(failed) ==
    LET others == {i \in 1..Len(NameOrder) : NameOrder[i] # failed}
    IN IF others = {} THEN 0 ELSE CHOOSE i \in others : \A j \in others : i <= j

getTerminationRouteForAltCarrier(c, failed) ==
    IF altCarrier(failed) = 0
    THEN getTerminationRoute(c)
    ELSE /\ Send(c, NameOrder[altCarrier(failed)])
         /\ UNCHANGED m_nCurrentTerminationCarrier

-----------------------------------------------------------------------------
(* The controller *)

\* installConfig: min(number of outbound trunks, max-termination-attempts)
m_nTerminationRetries ==
    IF Cardinality(AllTrunks) < MaxTerminationAttempts THEN Cardinality(AllTrunks)
                                                       ELSE MaxTerminationAttempts

\* processTerminationRequest
NewCall(c) ==
    /\ tried[c] = <<>>
    /\ \/ getTerminationRoute(c)
       \/ \E carrier \in Carriers : getTerminationRouteForCarrier(c, carrier)

\* processInviteResponseInsideDialog: 503 or 480 (the bound is unsigned in the code; a
\* valid configuration has a trunk, and 0 attempts are left to StatefulController).
Crankback(c) ==
    /\ tried[c] # <<>>
    /\ Len(tried[c]) - 1 < m_nTerminationRetries - 1
    /\ getTerminationRouteForAltCarrier(c, tried[c][Len(tried[c])][1])

\* The call is answered, refused or cancelled.
End(c) ==
    /\ tried[c] # <<>>
    /\ tried' = [tried EXCEPT ![c] = <<>>]
    /\ UNCHANGED <<m_nCurrentTerminationCarrier, m_currentTrunk, m_selectCount, turn>>

Next == \E c \in Call : NewCall(c) \/ Crankback(c) \/ End(c)

Spec == Init /\ [][Next]_vars

\* Calls keep coming, not all of them anonymous, and each of them ends.
FairSpec ==
    /\ Spec
    /\ \A c \in Call : SF_vars(NewCall(c) /\ getTerminationRoute(c)) /\ WF_vars(End(c))

-----------------------------------------------------------------------------
\* A trunk's share of its carrier's calls.  (A quantity of 0 counts as 1, except for
\* the very first turn.)
Share(carrier, trunk) ==
    IF Quantities[carrier][trunk] = 0 THEN 1 ELSE Quantities[carrier][trunk]

\* A trunk is never used more often in its turn than its quantity says, and the turn
\* passes on only when it has been used that often, whichever calls and crankbacks it
\* was used for.
TrunkShares ==
    [][\A carrier \in Carriers :
         LET trunk == m_currentTrunk[carrier]
         IN /\ turn'[carrier] <= Share(carrier, m_currentTrunk'[carrier])
            /\ m_currentTrunk'[carrier] # trunk =>
                 turn[carrier] \in {Quantities[carrier][trunk], Share(carrier, trunk)}]_vars

\* A failed attempt is followed by one over another carrier, if there is another.
OtherCarrierNext ==
    \A c \in Call : \A i \in 1..(Len(tried[c]) - 1) :
        Cardinality(Carriers) > 1 => tried[c][i][1] # tried[c][i + 1][1]

\* Every trunk of a carrier in the rotation carries calls again and again, whatever the
\* crankbacks and anonymous calls in between do to the pointers.
NoTrunkStarved ==
    \A trunk \in AllTrunks :
        (\E i \in 1..Len(Rotation) : Rotation[i] = trunk[1]) =>
            []<>(\E c \in Call : \E i \in 1..Len(tried[c]) : tried[c][i] = trunk)

=============================================================================
