----------------------- MODULE TerminationRoutingProofs -----------------------
(***************************************************************************)
(* What TerminationRouting promises for every configuration: any number of *)
(* carriers, trunks, quantities and attempts, and any number of calls.     *)
(***************************************************************************)
EXTENDS TerminationRouting, FiniteSetTheorems, WellFoundedInduction, TLAPS

\* The strengthening of TrunkShares: how getNextTrunk's m_selectCount and the history of
\* a turn agree.  Only the current trunk of a carrier has a count; it is the number of
\* uses in this turn, except for a trunk of quantity 0, which is never counted.
TurnInv ==
    \A carrier \in Carriers :
        LET trunk == m_currentTrunk[carrier]
            quantity == Quantities[carrier][trunk]
            count == m_selectCount[carrier]
        IN /\ \A t \in Trunks(carrier) : t # trunk => count[t] = 0
           /\ quantity = 0 => count[trunk] = 0 /\ turn[carrier] \in {0, 1}
           /\ quantity # 0 => count[trunk] = turn[carrier] /\ turn[carrier] <= quantity

RoutingInv == TypeOK /\ TurnInv /\ OtherCarrierNext

-----------------------------------------------------------------------------
(* The operators *)

\* A set of natural numbers has a least element.
LEMMA LeastOf ==
    ASSUME NEW S, S \subseteq Nat, S # {}
    PROVE  \E i \in S : \A j \in S : i <= j
<1> DEFINE R == OpToRel(<, Nat)
<1>1. IsWellFoundedOn(R, Nat)
  BY NatLessThanWellFounded
<1>2. \A i, j \in Nat : i < j => <<i, j>> \in R
  BY DEF OpToRel
<1> HIDE DEF R
<1>3. PICK x \in S : \A y \in S : ~ (<<y, x>> \in R)
  BY <1>1, WFMin
<1>4. \A y \in S : y \in Nat /\ x \in Nat /\ ~(y < x)
  BY <1>2, <1>3
<1>5. \A y \in S : x <= y
  BY <1>4
<1> QED BY <1>5

\* Every carrier has a trunk, and every trunk a quantity.
LEMMA TrunkFacts ==
    ASSUME NEW carrier \in Carriers
    PROVE  /\ Len(Quantities[carrier]) \in Nat \ {0}
           /\ Trunks(carrier) = 1..Len(Quantities[carrier])
           /\ \A t \in Trunks(carrier) : Quantities[carrier][t] \in Nat
<1>1. Quantities[carrier] \in Seq(Nat) /\ Trunks(carrier) # {}
  BY RoutingAssumption
<1>2. Len(Quantities[carrier]) \in Nat
  BY <1>1
<1>3. \A t \in 1..Len(Quantities[carrier]) : Quantities[carrier][t] \in Nat
  BY <1>1
<1> QED BY <1>1, <1>2, <1>3 DEF Trunks

\* getTerminationRouteForAltCarrier: the carrier found is a carrier and not the one that
\* failed; none is found only if there is no other.
LEMMA AltCarrier ==
    ASSUME NEW failed \in Carriers
    PROVE  /\ altCarrier(failed) # 0 =>
                /\ NameOrder[altCarrier(failed)] \in Carriers
                /\ NameOrder[altCarrier(failed)] # failed
           /\ altCarrier(failed) = 0 => Cardinality(Carriers) = 1
<1> DEFINE others == {i \in 1..Len(NameOrder) : NameOrder[i] # failed}
<1>1. NameOrder \in Seq(Carriers) /\ Len(NameOrder) \in Nat
  BY RoutingAssumption
<1>2. CASE others = {}
  <2>1. \A carrier \in Carriers : carrier = failed
    BY <1>2, RoutingAssumption
  <2>2. Carriers = {failed}
    BY <2>1
  <2>3. altCarrier(failed) = 0
    BY <1>2 DEF altCarrier
  <2> QED BY <2>2, <2>3, FS_Singleton
<1>3. CASE others # {}
  <2>1. others \subseteq Nat
    BY <1>1
  <2>2. altCarrier(failed) = CHOOSE i \in others : \A j \in others : i <= j
    BY <1>3 DEF altCarrier
  <2> HIDE DEF others
  <2>3. altCarrier(failed) \in others
    BY <2>1, <2>2, <1>3, LeastOf
  <2>4. altCarrier(failed) \in 1..Len(NameOrder) /\ NameOrder[altCarrier(failed)] # failed
    BY <2>3 DEF others
  <2>5. altCarrier(failed) # 0 /\ NameOrder[altCarrier(failed)] \in Carriers
    BY <1>1, <2>4
  <2> QED BY <2>4, <2>5
<1> QED BY <1>2, <1>3

-----------------------------------------------------------------------------
(* getNextTrunk *)

\* What getNextTrunk makes of the pointer and the counts of its carrier, when only the
\* current trunk has a count: the turn passes on if the trunk has had its share.
LEMMA NextTrunkEffect ==
    ASSUME TypeOK, TurnInv, NEW carrier \in Carriers, getNextTrunk(carrier)
    PROVE  LET trunk == m_currentTrunk[carrier]
               quantity == Quantities[carrier]
               count == m_selectCount'[carrier]
               trunk2 == m_currentTrunk'[carrier]
           IN /\ trunk2 \in Trunks(carrier)
              /\ count \in [Trunks(carrier) -> Nat]
              /\ \A t \in Trunks(carrier) : t # trunk2 => count[t] = 0
              /\ turn'[carrier] \in Nat
              /\ quantity[trunk2] = 0 => count[trunk2] = 0 /\ turn'[carrier] \in {0, 1}
              /\ quantity[trunk2] # 0 => /\ count[trunk2] = turn'[carrier]
                                         /\ turn'[carrier] <= quantity[trunk2]
              /\ trunk2 # trunk =>
                   turn[carrier] \in {quantity[trunk], Share(carrier, trunk)}
<1> DEFINE trunk == m_currentTrunk[carrier]
           quantity == Quantities[carrier]
           before == m_selectCount[carrier]
           next == advanceTrunk(carrier)
           counted == [before EXCEPT ![trunk] = advanceCount(@, quantity[trunk])]
           moved == [counted EXCEPT ![next] = advanceCount(@, quantity[next])]
<1>1. /\ trunk \in Trunks(carrier) /\ before \in [Trunks(carrier) -> Nat]
      /\ turn[carrier] \in Nat /\ turn \in [Carriers -> Nat]
      /\ m_currentTrunk \in [Carriers -> Nat] /\ DOMAIN m_selectCount = Carriers
  BY DEF TypeOK
<1>2. /\ Len(quantity) \in Nat \ {0} /\ Trunks(carrier) = 1..Len(quantity)
      /\ \A t \in Trunks(carrier) : quantity[t] \in Nat
  BY TrunkFacts
<1>3. next \in Trunks(carrier)
  BY <1>1, <1>2 DEF advanceTrunk
<1>4. /\ \A t \in Trunks(carrier) : t # trunk => before[t] = 0
      /\ quantity[trunk] = 0 => before[trunk] = 0 /\ turn[carrier] \in {0, 1}
      /\ quantity[trunk] # 0 => /\ before[trunk] = turn[carrier]
                                /\ turn[carrier] <= quantity[trunk]
  BY DEF TurnInv
<1>5. /\ counted \in [Trunks(carrier) -> Nat]
      /\ counted[trunk] = advanceCount(before[trunk], quantity[trunk])
      /\ \A t \in Trunks(carrier) : t # trunk => counted[t] = 0
  BY <1>1, <1>2, <1>4 DEF advanceCount, haveAdvancedToEnd
<1>6. CASE before[trunk] = quantity[trunk]
  <2>1. /\ m_currentTrunk' = [m_currentTrunk EXCEPT ![carrier] = next]
        /\ m_selectCount' = [m_selectCount EXCEPT ![carrier] = moved]
        /\ turn' = [turn EXCEPT ![carrier] = 1]
    BY <1>6 DEF getNextTrunk, haveAdvancedToEnd
  <2>2. \A t \in Trunks(carrier) : counted[t] = 0
    BY <1>5, <1>6 DEF advanceCount, haveAdvancedToEnd
  <2> HIDE DEF counted, before, trunk, next, quantity
  <2>3. /\ moved \in [Trunks(carrier) -> Nat]
        /\ moved[next] = IF quantity[next] = 0 THEN 0 ELSE 1
        /\ \A t \in Trunks(carrier) : t # next => moved[t] = 0
    BY <1>2, <1>3, <1>5, <2>2 DEF advanceCount, haveAdvancedToEnd
  <2> HIDE DEF moved
  <2>4. m_currentTrunk'[carrier] = next /\ m_selectCount'[carrier] = moved
        /\ turn'[carrier] = 1
    BY <1>1, <2>1
  <2>5. quantity[next] # 0 => 1 <= quantity[next]
    BY <1>2, <1>3
  <2>6. turn[carrier] \in {quantity[trunk], Share(carrier, trunk)}
    BY <1>4, <1>6 DEF Share, quantity
  <2> QED BY <1>3, <2>3, <2>4, <2>5, <2>6 DEF quantity, trunk
<1>7. CASE before[trunk] # quantity[trunk]
  <2>1. /\ m_currentTrunk' = m_currentTrunk
        /\ m_selectCount' = [m_selectCount EXCEPT ![carrier] = counted]
        /\ turn' = [turn EXCEPT ![carrier] = turn[carrier] + 1]
    BY <1>7 DEF getNextTrunk, haveAdvancedToEnd
  <2>2. counted[trunk] = before[trunk] + 1
    BY <1>5, <1>7 DEF advanceCount, haveAdvancedToEnd
  <2>3. quantity[trunk] # 0
    BY <1>4, <1>7
  <2>4. quantity[trunk] \in Nat
    BY <1>1, <1>2
  <2> HIDE DEF counted, before, trunk, quantity
  <2>5. m_currentTrunk'[carrier] = trunk /\ m_selectCount'[carrier] = counted
        /\ turn'[carrier] = turn[carrier] + 1
    BY <1>1, <2>1 DEF trunk
  <2>6. counted[trunk] = turn[carrier] + 1 /\ turn[carrier] + 1 <= quantity[trunk]
    BY <1>1, <1>4, <1>7, <2>2, <2>3, <2>4
  <2> QED BY <1>1, <1>5, <2>3, <2>5, <2>6 DEF quantity, trunk
<1> QED BY <1>6, <1>7

\* getNextTrunk leaves the other carriers alone.
LEMMA NextTrunkFrame ==
    ASSUME TypeOK, NEW carrier \in Carriers, getNextTrunk(carrier),
           NEW other \in Carriers, other # carrier
    PROVE  /\ m_currentTrunk'[other] = m_currentTrunk[other]
           /\ m_selectCount'[other] = m_selectCount[other]
           /\ turn'[other] = turn[other]
BY DEF TypeOK, getNextTrunk, haveAdvancedToEnd

\* What a step may do to the turns of one carrier.
ShareStep(carrier) ==
    /\ turn'[carrier] <= Share(carrier, m_currentTrunk'[carrier])
    /\ m_currentTrunk'[carrier] # m_currentTrunk[carrier] =>
         turn[carrier] \in {Quantities[carrier][m_currentTrunk[carrier]],
                            Share(carrier, m_currentTrunk[carrier])}

\* getNextTrunk preserves the types and the agreement of counts and turns, and it is a
\* step that TrunkShares allows.
LEMMA NextTrunkTurns ==
    ASSUME TypeOK, TurnInv, NEW carrier \in Carriers, getNextTrunk(carrier)
    PROVE  /\ m_currentTrunk' \in [Carriers -> Nat]
           /\ \A c \in Carriers : m_currentTrunk'[c] \in Trunks(c)
           /\ DOMAIN m_selectCount' = Carriers
           /\ \A c \in Carriers : m_selectCount'[c] \in [Trunks(c) -> Nat]
           /\ turn' \in [Carriers -> Nat]
           /\ TurnInv'
           /\ \A c \in Carriers : ShareStep(c)
<1> DEFINE Good(c) ==
      /\ m_currentTrunk'[c] \in Trunks(c)
      /\ m_selectCount'[c] \in [Trunks(c) -> Nat]
      /\ turn'[c] \in Nat
      /\ \A t \in Trunks(c) : t # m_currentTrunk'[c] => m_selectCount'[c][t] = 0
      /\ Quantities[c][m_currentTrunk'[c]] = 0 =>
           m_selectCount'[c][m_currentTrunk'[c]] = 0 /\ turn'[c] \in {0, 1}
      /\ Quantities[c][m_currentTrunk'[c]] # 0 =>
           /\ m_selectCount'[c][m_currentTrunk'[c]] = turn'[c]
           /\ turn'[c] <= Quantities[c][m_currentTrunk'[c]]
      /\ m_currentTrunk'[c] # m_currentTrunk[c] =>
           turn[c] \in {Quantities[c][m_currentTrunk[c]], Share(c, m_currentTrunk[c])}
<1>1. Good(carrier)
  BY NextTrunkEffect
<1>2. ASSUME NEW c \in Carriers, c # carrier PROVE Good(c)
  <2>1. /\ m_currentTrunk'[c] = m_currentTrunk[c]
        /\ m_selectCount'[c] = m_selectCount[c]
        /\ turn'[c] = turn[c]
    BY <1>2, NextTrunkFrame
  <2> QED BY <2>1 DEF TypeOK, TurnInv
<1>3. \A c \in Carriers : Good(c)
  BY <1>1, <1>2
<1>4. /\ DOMAIN m_selectCount' = Carriers
      /\ m_currentTrunk' \in [Carriers -> Nat] /\ turn' \in [Carriers -> Nat]
  <2>1. DOMAIN m_selectCount' = Carriers
    BY DEF TypeOK, getNextTrunk, haveAdvancedToEnd
  <2>2. m_currentTrunk' \in [Carriers -> Nat]
    <3>1. advanceTrunk(carrier) \in Nat
      BY DEF TypeOK, advanceTrunk
    <3> QED BY <3>1 DEF TypeOK, getNextTrunk, haveAdvancedToEnd
  <2>3. turn' \in [Carriers -> Nat]
    BY DEF TypeOK, getNextTrunk, haveAdvancedToEnd
  <2> QED BY <2>1, <2>2, <2>3
<1>5. TurnInv'
  BY <1>3 DEF TurnInv
<1>6. ASSUME NEW c \in Carriers PROVE ShareStep(c)
  <2>1. Good(c) /\ Quantities[c][m_currentTrunk'[c]] \in Nat
    BY <1>3, TrunkFacts
  <2>2. turn'[c] <= Share(c, m_currentTrunk'[c])
    BY <2>1 DEF Share
  <2> QED BY <2>1, <2>2 DEF ShareStep
<1> QED BY <1>3, <1>4, <1>5, <1>6

-----------------------------------------------------------------------------
(* The invariant *)

\* At first no trunk has had a turn and no call an attempt.
LEMMA InitRoutingInv == Init => RoutingInv
<1> SUFFICES ASSUME Init PROVE RoutingInv
  OBVIOUS
<1>1. \A carrier \in Carriers : 1 \in Trunks(carrier)
  BY TrunkFacts
<1>2. TypeOK
  <2>1. Rotation \in Seq(Carriers) /\ Rotation # <<>>
    BY RoutingAssumption
  <2>2. 1 \in 1..Len(Rotation)
    BY <2>1
  <2>3. tried \in [Call -> Seq(AllTrunks)]
    BY DEF Init
  <2> QED BY <1>1, <2>2, <2>3 DEF Init, TypeOK
<1>3. TurnInv
  <2> SUFFICES ASSUME NEW carrier \in Carriers
               PROVE  /\ m_currentTrunk[carrier] = 1 /\ turn[carrier] = 0
                      /\ \A t \in Trunks(carrier) : m_selectCount[carrier][t] = 0
                      /\ 0 <= Quantities[carrier][1]
    BY <1>1 DEF TurnInv
  <2>1. 0 <= Quantities[carrier][1]
    BY <1>1, TrunkFacts
  <2> QED BY <2>1 DEF Init
<1>4. OtherCarrierNext
  <2>1. \A c \in Call : Len(tried[c]) = 0
    BY DEF Init
  <2> QED BY <2>1 DEF OtherCarrierNext
<1> QED BY <1>2, <1>3, <1>4 DEF RoutingInv

\* Sending a call to the next trunk of a carrier that is not the one it was sent to
\* last, if there is another.
LEMMA SendRoutingInv ==
    ASSUME RoutingInv, NEW c \in Call, NEW carrier \in Carriers, Send(c, carrier),
           m_nCurrentTerminationCarrier' \in 1..Len(Rotation),
           tried[c] # <<>> /\ Cardinality(Carriers) > 1 =>
             tried[c][Len(tried[c])][1] # carrier
    PROVE  RoutingInv' /\ \A other \in Carriers : ShareStep(other)
<1> USE DEF RoutingInv
<1>1. getNextTrunk(carrier)
      /\ tried' = [tried EXCEPT ![c] = Append(@, <<carrier, m_currentTrunk'[carrier]>>)]
  BY DEF Send
<1>2. /\ m_currentTrunk' \in [Carriers -> Nat]
      /\ \A other \in Carriers : m_currentTrunk'[other] \in Trunks(other)
      /\ DOMAIN m_selectCount' = Carriers
      /\ \A other \in Carriers : m_selectCount'[other] \in [Trunks(other) -> Nat]
      /\ turn' \in [Carriers -> Nat]
      /\ TurnInv'
      /\ \A other \in Carriers : ShareStep(other)
  BY <1>1, NextTrunkTurns
<1> DEFINE sent == <<carrier, m_currentTrunk'[carrier]>>
<1>3. sent \in AllTrunks
  BY <1>2 DEF AllTrunks
<1>4. tried[c] \in Seq(AllTrunks) /\ tried \in [Call -> Seq(AllTrunks)]
  BY DEF TypeOK
<1>5. sent[1] = carrier
  OBVIOUS
<1>6. tried' = [tried EXCEPT ![c] = Append(tried[c], sent)]
  BY <1>1
<1> HIDE DEF sent
<1>7. tried' \in [Call -> Seq(AllTrunks)]
  BY <1>3, <1>4, <1>6
<1>8. TypeOK'
  BY <1>2, <1>7 DEF TypeOK
<1>9. OtherCarrierNext'
  <2> SUFFICES ASSUME NEW k \in Call, NEW i \in 1..(Len(tried'[k]) - 1),
                      Cardinality(Carriers) > 1
               PROVE  tried'[k][i][1] # tried'[k][i + 1][1]
    BY DEF OtherCarrierNext
  <2>1. CASE k # c
    <3>1. tried'[k] = tried[k]
      BY <2>1, <1>4, <1>6
    <3> QED BY <3>1 DEF OtherCarrierNext
  <2>2. CASE k = c
    <3> DEFINE old == tried[c]
    <3>1. tried'[k] = Append(old, sent)
      BY <2>2, <1>4, <1>6
    <3>2. old \in Seq(AllTrunks) /\ Len(old) \in Nat
      BY <1>4
    <3>3. \A j \in 1..(Len(old) - 1) : old[j][1] # old[j + 1][1]
      BY DEF OtherCarrierNext
    <3>4. old # <<>> => old[Len(old)][1] # carrier
      OBVIOUS
    <3> HIDE DEF old
    <3>5. /\ Len(tried'[k]) = Len(old) + 1 /\ tried'[k][Len(old) + 1] = sent
          /\ \A j \in 1..Len(old) : tried'[k][j] = old[j]
      BY <1>3, <3>1, <3>2
    <3>6. i \in 1..Len(old)
      BY <3>2, <3>5
    <3>7. CASE i = Len(old)
      <4>1. old # <<>>
        BY <3>6, <3>2
      <4> QED BY <4>1, <3>4, <3>5, <3>6, <3>7, <1>5
    <3>8. CASE i # Len(old)
      <4>1. i \in 1..(Len(old) - 1) /\ i + 1 \in 1..Len(old)
        BY <3>2, <3>6, <3>8
      <4> QED BY <4>1, <3>3, <3>5, <3>6
    <3> QED BY <3>7, <3>8
  <2> QED BY <2>1, <2>2
<1> QED BY <1>2, <1>8, <1>9

\* The pointer into the rotation names a carrier and moves within the rotation.
LEMMA RotationStep ==
    ASSUME TypeOK
    PROVE  /\ Rotation[m_nCurrentTerminationCarrier] \in Carriers
           /\ (IF m_nCurrentTerminationCarrier + 1 > Len(Rotation) THEN 1
               ELSE m_nCurrentTerminationCarrier + 1) \in 1..Len(Rotation)
<1>1. Rotation \in Seq(Carriers) /\ Len(Rotation) \in Nat
  BY RoutingAssumption
<1>2. m_nCurrentTerminationCarrier \in 1..Len(Rotation)
  BY DEF TypeOK
<1> QED BY <1>1, <1>2

\* A call that has not been sent anywhere.
LEMMA NewCallRoutingInv ==
    ASSUME RoutingInv, NEW c \in Call, NewCall(c)
    PROVE  RoutingInv' /\ \A carrier \in Carriers : ShareStep(carrier)
<1>1. tried[c] = <<>>
  BY DEF NewCall
<1>2. CASE getTerminationRoute(c)
  BY <1>1, <1>2, RotationStep, SendRoutingInv DEF getTerminationRoute, RoutingInv
<1>3. ASSUME NEW carrier \in Carriers, getTerminationRouteForCarrier(c, carrier)
      PROVE  RoutingInv' /\ \A other \in Carriers : ShareStep(other)
  <2>1. m_nCurrentTerminationCarrier' \in 1..Len(Rotation)
    BY <1>3 DEF getTerminationRouteForCarrier, RoutingInv, TypeOK
  <2> QED BY <1>1, <1>3, <2>1, SendRoutingInv DEF getTerminationRouteForCarrier
<1> QED BY <1>2, <1>3 DEF NewCall

\* A crankback: it goes to another carrier unless there is none.
LEMMA CrankbackRoutingInv ==
    ASSUME RoutingInv, NEW c \in Call, Crankback(c)
    PROVE  RoutingInv' /\ \A carrier \in Carriers : ShareStep(carrier)
<1> DEFINE failed == tried[c][Len(tried[c])][1]
<1>1. tried[c] # <<>> /\ tried[c] \in Seq(AllTrunks)
  BY DEF Crankback, RoutingInv, TypeOK
<1>2. failed \in Carriers
  <2>1. Len(tried[c]) \in 1..Len(tried[c])
    BY <1>1
  <2>2. tried[c][Len(tried[c])] \in AllTrunks
    BY <1>1, <2>1
  <2> QED BY <2>2 DEF AllTrunks
<1>3. getTerminationRouteForAltCarrier(c, failed)
  BY DEF Crankback
<1> HIDE DEF failed
<1>4. CASE altCarrier(failed) = 0
  <2>1. Cardinality(Carriers) = 1
    BY <1>2, <1>4, AltCarrier
  <2>2. getTerminationRoute(c)
    BY <1>3, <1>4 DEF getTerminationRouteForAltCarrier
  <2> QED BY <2>1, <2>2, RotationStep, SendRoutingInv DEF getTerminationRoute, RoutingInv
<1>5. CASE altCarrier(failed) # 0
  <2> DEFINE alt == NameOrder[altCarrier(failed)]
  <2>1. alt \in Carriers /\ alt # failed
    BY <1>2, <1>5, AltCarrier
  <2>2. Send(c, alt) /\ m_nCurrentTerminationCarrier' = m_nCurrentTerminationCarrier
    BY <1>3, <1>5 DEF getTerminationRouteForAltCarrier
  <2>3. m_nCurrentTerminationCarrier' \in 1..Len(Rotation)
    BY <2>2 DEF RoutingInv, TypeOK
  <2> HIDE DEF alt
  <2> QED BY <2>1, <2>2, <2>3, SendRoutingInv DEF failed
<1> QED BY <1>4, <1>5

\* The end of a call, or a stuttering step.
LEMMA OtherRoutingInv ==
    ASSUME RoutingInv, (\E c \in Call : End(c)) \/ UNCHANGED vars
    PROVE  RoutingInv' /\ \A carrier \in Carriers : ShareStep(carrier)
<1> USE DEF RoutingInv
<1>1. UNCHANGED <<m_nCurrentTerminationCarrier, m_currentTrunk, m_selectCount, turn>>
  BY DEF End, vars
<1>2. tried' \in [Call -> Seq(AllTrunks)]
      /\ \A k \in Call : tried'[k] = tried[k] \/ tried'[k] = <<>>
  <2>1. CASE UNCHANGED vars
    BY <2>1 DEF vars, TypeOK
  <2>2. ASSUME NEW c \in Call, End(c)
        PROVE  /\ tried' \in [Call -> Seq(AllTrunks)]
               /\ \A k \in Call : tried'[k] = tried[k] \/ tried'[k] = <<>>
    <3>1. tried' = [tried EXCEPT ![c] = <<>>] /\ tried \in [Call -> Seq(AllTrunks)]
      BY <2>2 DEF End, TypeOK
    <3>2. <<>> \in Seq(AllTrunks)
      OBVIOUS
    <3> QED BY <3>1, <3>2
  <2> QED BY <2>1, <2>2
<1>3. TypeOK' /\ TurnInv'
  BY <1>1, <1>2 DEF TypeOK, TurnInv
<1>4. OtherCarrierNext'
  <2> SUFFICES ASSUME NEW k \in Call, NEW i \in 1..(Len(tried'[k]) - 1),
                      Cardinality(Carriers) > 1
               PROVE  tried'[k][i][1] # tried'[k][i + 1][1]
    BY DEF OtherCarrierNext
  <2>1. CASE tried'[k] = tried[k]
    BY <2>1 DEF OtherCarrierNext
  <2>2. CASE tried'[k] = <<>>
    <3>1. Len(tried'[k]) = 0
      BY <2>2
    <3> QED BY <3>1
  <2> QED BY <1>2, <2>1, <2>2
<1>5. ASSUME NEW carrier \in Carriers PROVE ShareStep(carrier)
  <2> DEFINE trunk == m_currentTrunk[carrier]
  <2>1. trunk \in Trunks(carrier) /\ turn[carrier] \in Nat
    BY DEF TypeOK
  <2>2. Quantities[carrier][trunk] \in Nat
    BY <2>1, TrunkFacts
  <2>3. turn[carrier] <= Share(carrier, trunk)
    BY <2>1, <2>2 DEF TurnInv, Share
  <2> QED BY <1>1, <2>3 DEF ShareStep
<1> QED BY <1>3, <1>4, <1>5

\* Every step preserves the invariant and is one that TrunkShares allows.
LEMMA NextRoutingInv ==
    ASSUME RoutingInv, [Next]_vars
    PROVE  RoutingInv' /\ \A carrier \in Carriers : ShareStep(carrier)
BY NewCallRoutingInv, CrankbackRoutingInv, OtherRoutingInv DEF Next

\* The pointers stay in range, counts and turns agree and no call goes to the same
\* carrier twice in a row, in every reachable state.
THEOREM RoutingInvariance == Spec => []RoutingInv
<1>1. RoutingInv /\ [Next]_vars => RoutingInv'
  BY NextRoutingInv
<1> QED BY <1>1, InitRoutingInv, PTL DEF Spec

\* The pointers into the rotation and the trunks of each carrier never leave their
\* vectors (getTerminationRoute, getNextTrunk).
THEOREM RoutingTypes == Spec => []TypeOK
<1>1. RoutingInv => TypeOK
  BY DEF RoutingInv
<1> QED BY <1>1, RoutingInvariance, PTL

\* A failed attempt is followed by one over another carrier, if there is another,
\* whatever the configuration and however calls and crankbacks interleave.
THEOREM OtherCarrier == Spec => []OtherCarrierNext
<1>1. RoutingInv => OtherCarrierNext
  BY DEF RoutingInv
<1> QED BY <1>1, RoutingInvariance, PTL

\* A trunk is used in its turn as often as its quantity says and the turn passes on only
\* then, for every quantity and every mix of calls and crankbacks.
THEOREM SharesKept == Spec => TrunkShares
<1>1. RoutingInv /\ [Next]_vars =>
        [\A carrier \in Carriers :
           LET trunk == m_currentTrunk[carrier]
           IN /\ turn'[carrier] <= Share(carrier, m_currentTrunk'[carrier])
              /\ m_currentTrunk'[carrier] # trunk =>
                   turn[carrier] \in {Quantities[carrier][trunk], Share(carrier, trunk)}]_vars
  BY NextRoutingInv DEF ShareStep
<1> QED BY <1>1, RoutingInvariance, PTL DEF Spec, TrunkShares

=============================================================================
