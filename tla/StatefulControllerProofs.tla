---------------------- MODULE StatefulControllerProofs ----------------------
(***************************************************************************)
(* Proofs about StatefulController, for any number of handles and calls.   *)
(* The inductive invariant is TypeOK /\ Consistent /\ LookupsSucceed.      *)
(* Neither part is inductive alone: updateDialog would enter NULL for an A *)
(* leg that is not found, and an assertion holds because the maps agree.   *)
(***************************************************************************)
EXTENDS StatefulController, SequenceTheorems, TLAPS

IInv == TypeOK /\ Consistent /\ LookupsSucceed

\* The parts of TypeOK about nta's handles and about the controller's maps.
NtaTypes ==
    /\ legs \in SUBSET Leg
    /\ irqState \in [Irq -> IrqStates]
    /\ irqLeg \in [Irq -> Leg \cup {NULL}]
    /\ orqMethod \in [Orq -> OrqMethods]
    /\ orqLeg \in [Orq -> Leg \cup {NULL}]

MapTypes ==
    /\ m_transactions \in SUBSET (Irq \X (Orq \cup {NULL}))
    /\ m_dialogs \in SUBSET (Leg \X Leg)
    /\ m_mapTerminationAttempts \in [Orq -> TerminationAttempt \cup {NULL}]
    /\ m_mapDialogInfo \in [Leg -> SipDialogInfo \cup {NULL}]

\* The server transactions, client transactions and legs of a set of pairs.
FarEndTypes ==
    /\ established \in [Leg -> BOOLEAN]
    /\ forgotten \in [Call -> Forgotten]

Irqs(P) == {p[1] : p \in P}
Orqs(P) == {p[2] : p \in P}
Legs(D) == {d[1] : d \in D} \cup {d[2] : d \in D}

\* A leg keeps its dialog info, up to the session timer being armed.
SameInfo(l) ==
    \/ m_mapDialogInfo'[l] = m_mapDialogInfo[l]
    \/ /\ m_mapDialogInfo[l] # NULL /\ m_mapDialogInfo'[l] # NULL
       /\ m_mapDialogInfo'[l].bOrigination = m_mapDialogInfo[l].bOrigination
       /\ m_mapDialogInfo'[l].cdr = m_mapDialogInfo[l].cdr

-----------------------------------------------------------------------------
(* Lookups *)

\* The allocator hands out a free address.
LEMMA NewIsFree == ASSUME NEW S, S # {} PROVE New(S) \in S
BY DEF New

\* getAssociatedIrq finds the server transaction an orq is paired with.
LEMMA IrqLookup ==
    ASSUME TypeOK, NEW o \in Orq
    PROVE /\ getAssociatedIrq(o) # NULL =>
               /\ getAssociatedIrq(o) \in Irq
               /\ <<getAssociatedIrq(o), o>> \in m_transactions
          /\ (\E p \in m_transactions : p[2] = o) => getAssociatedIrq(o) # NULL
<1>1. CASE \E p \in m_transactions : p[2] = o
  <2> DEFINE q == CHOOSE p \in m_transactions : p[2] = o
  <2>1. q \in m_transactions /\ q[2] = o
    BY <1>1
  <2>2. q \in Irq \X (Orq \cup {NULL}) /\ getAssociatedIrq(o) = q[1]
    BY <1>1, <2>1 DEF getAssociatedIrq, TypeOK
  <2>3. q = <<q[1], o>> /\ q[1] \in Irq
    BY <2>1, <2>2
  <2> QED
    BY <2>1, <2>2, <2>3, HandleAssumption
<1>2. CASE ~ \E p \in m_transactions : p[2] = o
  BY <1>2 DEF getAssociatedIrq
<1> QED
  BY <1>1, <1>2

\* getAssociatedOrq finds what an irq is paired with.
LEMMA OrqLookup ==
    ASSUME TypeOK, NEW i \in Irq, getAssociatedOrq(i) # NULL
    PROVE /\ getAssociatedOrq(i) \in Orq
          /\ <<i, getAssociatedOrq(i)>> \in m_transactions
<1>1. \E p \in m_transactions : p[1] = i
  BY DEF getAssociatedOrq
<1> DEFINE q == CHOOSE p \in m_transactions : p[1] = i
<1>2. q \in m_transactions /\ q[1] = i
  BY <1>1
<1>3. q \in Irq \X (Orq \cup {NULL}) /\ getAssociatedOrq(i) = q[2]
  BY <1>1, <1>2 DEF getAssociatedOrq, TypeOK
<1>4. q = <<i, q[2]>>
  BY <1>2, <1>3
<1> QED
  BY <1>2, <1>3, <1>4

\* getAssociatedDialog finds the other leg of a dialog.
LEMMA DialogLookup ==
    ASSUME TypeOK, OneToOne, NEW d \in m_dialogs
    PROVE /\ d = <<d[1], d[2]>> /\ d[1] \in Leg /\ d[2] \in Leg
          /\ getAssociatedDialog(d[1]) = d[2]
          /\ getAssociatedDialog(d[2]) = d[1]
<1>1. d \in Leg \X Leg
  BY DEF TypeOK
<1>2. d = <<d[1], d[2]>> /\ d[1] \in Leg /\ d[2] \in Leg
  BY <1>1
<1>3. getAssociatedDialog(d[1]) = d[2]
  <2>1. (CHOOSE e \in m_dialogs : e[1] = d[1]) = d
    BY DEF OneToOne
  <2> QED
    BY <2>1 DEF getAssociatedDialog
<1>4. getAssociatedDialog(d[2]) = d[1]
  <2>1. ~ \E e \in m_dialogs : e[1] = d[2]
    BY DEF OneToOne
  <2>2. (CHOOSE e \in m_dialogs : e[2] = d[2]) = d
    BY DEF OneToOne
  <2> QED
    BY <2>1, <2>2 DEF getAssociatedDialog
<1> QED
  BY <1>2, <1>3, <1>4
\* Legs of different dialogs are different.
LEMMA LegsOfDialogs ==
    ASSUME OneToOne, NEW D \in SUBSET m_dialogs, NEW d \in m_dialogs, d \notin D
    PROVE d[1] \notin Legs(D) /\ d[2] \notin Legs(D)
BY DEF OneToOne, Legs

-----------------------------------------------------------------------------
(* What the handlers do to the maps *)

\* Taking pairs out of m_transactions and dialogs out of m_dialogs, together with all
\* their handles, their attempts and their dialog info, keeps the maps consistent.
LEMMA DropPreserves ==
    ASSUME TypeOK, Consistent,
           NEW P \in SUBSET m_transactions, NEW D \in SUBSET m_dialogs,
           \A p \in P : p[2] # NULL,
           m_transactions' = m_transactions \ P,
           m_dialogs' = m_dialogs \ D,
           Destroy(Irqs(P), Orqs(P), Legs(D)),
           \A o \in Orq : m_mapTerminationAttempts'[o] =
                IF o \in Orqs(P) THEN NULL ELSE m_mapTerminationAttempts[o],
           \A l \in Leg : IF l \in Legs(D) THEN m_mapDialogInfo'[l] = NULL
                          ELSE SameInfo(l)
    PROVE Consistent'
<1>1. \A p \in m_transactions : /\ p = <<p[1], p[2]>> /\ p[1] \in Irq
                                /\ p[2] \in Orq \cup {NULL}
  BY DEF TypeOK
<1>2. \A d \in m_dialogs : d = <<d[1], d[2]>> /\ d[1] \in Leg /\ d[2] \in Leg
  BY DEF TypeOK
<1>3. \A p \in m_transactions' : /\ p \in m_transactions
                                 /\ p[1] \notin Irqs(P)
                                 /\ p[2] # NULL => p[2] \notin Orqs(P)
  BY DEF Consistent, OneToOne, Irqs, Orqs
<1>4. \A d \in m_dialogs' : /\ d \in m_dialogs
                            /\ d[1] \notin Legs(D) /\ d[2] \notin Legs(D)
  BY LegsOfDialogs DEF Consistent
<1>5. \A i \in Irq : i \notin Irqs(P) => irqState'[i] = irqState[i]
  BY DEF Destroy
<1>6. \A o \in Orq : o \notin Orqs(P) => orqMethod'[o] = orqMethod[o]
  BY DEF Destroy
<1>7. \A i \in Irq : i \in Irqs(P) => irqState'[i] = "free"
  BY DEF Destroy
<1>8. \A o \in Orq : o \in Orqs(P) => orqMethod'[o] = "free"
  BY DEF Destroy
<1>9. NoDanglingHandle'
  <2>1. \A p \in m_transactions' : /\ irqState'[p[1]] # "free"
                                   /\ p[2] # NULL => orqMethod'[p[2]] # "free"
    BY <1>1, <1>3, <1>5, <1>6 DEF Consistent, NoDanglingHandle
  <2>2. \A d \in m_dialogs' : d[1] \in legs' /\ d[2] \in legs'
    BY <1>4 DEF Destroy, Consistent, NoDanglingHandle
  <2>3. \A o \in Orq : m_mapTerminationAttempts'[o] # NULL => orqMethod'[o] = "INVITE"
    BY <1>6 DEF Consistent, NoDanglingHandle, isTermination
  <2>4. \A l \in Leg : m_mapDialogInfo'[l] # NULL => l \in legs'
    BY DEF Destroy, SameInfo, Consistent, NoDanglingHandle
  <2> QED
    BY <2>1, <2>2, <2>3, <2>4 DEF NoDanglingHandle, isTermination
<1>10. NoLostHandle'
  <2>1. ASSUME NEW o \in Orq, orqMethod'[o] # "free"
        PROVE \E p \in m_transactions' : p[2] = o
    <3>1. o \notin Orqs(P) /\ orqMethod[o] # "free"
      BY <2>1, <1>6, <1>8
    <3>2. PICK p \in m_transactions : p[2] = o
      BY <3>1 DEF Consistent, NoLostHandle
    <3> QED
      BY <3>1, <3>2 DEF Orqs
  <2>2. ASSUME NEW i \in Irq, irqState'[i] = "initial"
        PROVE \E p \in m_transactions' : p[1] = i /\ p[2] # NULL
    <3>1. i \notin Irqs(P) /\ irqState[i] = "initial"
      BY <2>2, <1>5, <1>7
    <3>2. PICK p \in m_transactions : p[1] = i /\ p[2] # NULL
      BY <3>1 DEF Consistent, NoLostHandle
    <3> QED
      BY <3>1, <3>2 DEF Irqs
  <2>3. ASSUME NEW l \in legs'
        PROVE \E d \in m_dialogs' : l \in {d[1], d[2]}
    <3>1. l \in legs /\ l \notin Legs(D)
      BY <2>3 DEF Destroy
    <3>2. PICK d \in m_dialogs : l \in {d[1], d[2]}
      BY <3>1 DEF Consistent, NoLostHandle
    <3> QED
      BY <3>1, <3>2 DEF Legs
  <2> QED
    BY <2>1, <2>2, <2>3 DEF NoLostHandle
<1>11. OneToOne'
  BY <1>3, <1>4 DEF Consistent, OneToOne
<1>12. \A i \in Irq : irqLeg'[i] = IF i \in Irqs(P) \/ irqLeg[i] \in Legs(D)
                                   THEN NULL ELSE irqLeg[i]
  BY DEF Destroy
<1>13. InvitesPaired'
  <2>1. \A p \in m_transactions' :
          irqState'[p[1]] \in {"initial", "cancelled"} <=>
             p[2] # NULL /\ orqMethod'[p[2]] = "INVITE"
    BY <1>1, <1>3, <1>5, <1>6 DEF Consistent, InvitesPaired
  <2>2. \A p, q \in m_transactions' :
         /\ irqState'[p[1]] \in {"initial", "cancelled"}
         /\ irqState'[q[1]] \in {"initial", "cancelled"}
         /\ irqLeg'[p[1]] = irqLeg'[q[1]]
         => p = q \/ irqLeg'[p[1]] = NULL
    BY <1>1, <1>3, <1>5, <1>12 DEF Consistent, InvitesPaired
  <2> QED
    BY <2>1, <2>2 DEF InvitesPaired
<1>14. ASSUME NEW p \in m_transactions', irqState'[p[1]] \in {"initial", "cancelled"}
       PROVE /\ \/ irqLeg'[p[1]] = NULL /\ orqLeg'[p[2]] = NULL
                \/ /\ <<irqLeg'[p[1]], orqLeg'[p[2]]>> \in m_dialogs'
                   /\ irqLeg'[p[1]] = irqLeg[p[1]]
             /\ irqState[p[1]] \in {"initial", "cancelled"}
             /\ p[2] \in Orq /\ p[2] \notin Orqs(P)
  <2>1. /\ p \in m_transactions /\ p[1] \in Irq /\ p[2] \in Orq
        /\ irqState[p[1]] \in {"initial", "cancelled"}
        /\ p[1] \notin Irqs(P) /\ p[2] \notin Orqs(P)
    BY <1>1, <1>3, <1>5, <1>14 DEF Consistent, InvitesPaired
  <2>2. orqLeg'[p[2]] = IF orqLeg[p[2]] \in Legs(D) THEN NULL ELSE orqLeg[p[2]]
    BY <2>1 DEF Destroy
  <2>3. irqLeg'[p[1]] = IF irqLeg[p[1]] \in Legs(D) THEN NULL ELSE irqLeg[p[1]]
    BY <2>1, <1>12
  <2>4. NULL \notin Legs(D)
    BY <1>2, HandleAssumption DEF Legs
  <2>5. CASE irqLeg[p[1]] = NULL /\ orqLeg[p[2]] = NULL
    BY <2>1, <2>2, <2>3, <2>4, <2>5
  <2>6. CASE <<irqLeg[p[1]], orqLeg[p[2]]>> \in m_dialogs
    <3> DEFINE d == <<irqLeg[p[1]], orqLeg[p[2]]>>
    <3>1. CASE d \in D
      <4>1. d[1] \in Legs(D) /\ d[2] \in Legs(D)
        BY <3>1 DEF Legs
      <4> QED
        BY <4>1, <2>1, <2>2, <2>3
    <3>2. CASE d \notin D
      <4>1. d[1] \notin Legs(D) /\ d[2] \notin Legs(D)
        BY <3>2, <2>6, LegsOfDialogs DEF Consistent
      <4> QED
        BY <4>1, <3>2, <2>1, <2>2, <2>3, <2>6
    <3> QED
      BY <3>1, <3>2
  <2> QED
    BY <2>1, <2>5, <2>6 DEF Consistent, BridgeMatchesDialog
<1>15. BridgeMatchesDialog'
  BY <1>14 DEF BridgeMatchesDialog
<1>16. DialogInfoOwner'
  BY <1>2, <1>4 DEF Consistent, DialogInfoOwner, SameInfo
<1>17. AttemptMatchesDialog'
  <2> SUFFICES ASSUME NEW p \in m_transactions',
                      irqState'[p[1]] \in {"initial", "cancelled"}, irqLeg'[p[1]] # NULL
               PROVE m_mapTerminationAttempts'[p[2]] # NULL
                       <=> m_mapDialogInfo'[irqLeg'[p[1]]] = NULL
    BY DEF AttemptMatchesDialog, isTermination
  <2>1. /\ irqLeg'[p[1]] = irqLeg[p[1]]
        /\ irqState[p[1]] \in {"initial", "cancelled"}
        /\ m_mapTerminationAttempts'[p[2]] = m_mapTerminationAttempts[p[2]]
        /\ <<irqLeg'[p[1]], orqLeg'[p[2]]>> \in m_dialogs'
    BY <1>14
  <2>2. irqLeg[p[1]] \in Leg /\ irqLeg[p[1]] \notin Legs(D)
    BY <2>1, <1>2, <1>4
  <2>3. m_mapDialogInfo'[irqLeg[p[1]]] = NULL <=> m_mapDialogInfo[irqLeg[p[1]]] = NULL
    BY <2>2 DEF SameInfo
  <2> QED
    BY <2>1, <2>3, <1>3 DEF Consistent, AttemptMatchesDialog, isTermination
<1> QED
  BY <1>9, <1>10, <1>11, <1>13, <1>15, <1>16, <1>17 DEF Consistent

\* Insert enters a pair of which neither key is present.
LEMMA InsertFresh ==
    ASSUME NEW bm, NEW a, NEW b, \A p \in bm : p[1] # a /\ p[2] # b
    PROVE Insert(bm, a, b) = bm \cup {<<a, b>>}
BY DEF Insert

\* Entering a new pair and a new dialog, on fresh handles, with the dialog info on the
\* A leg of an origination or the B leg of a termination, keeps the maps consistent.
LEMMA BridgePreserves ==
    ASSUME TypeOK, Consistent,
           NEW irq \in FreeIrqs, NEW orq \in FreeOrqs,
           NEW a \in FreeLegs, NEW b \in FreeLegs, a # b,
           Bridge(irq, orq, a, b),
           \A o \in Orq \ {orq} :
                m_mapTerminationAttempts'[o] = m_mapTerminationAttempts[o],
           \A l \in Leg \ {a, b} : m_mapDialogInfo'[l] = m_mapDialogInfo[l],
           \/ /\ m_mapTerminationAttempts'[orq] = NULL
              /\ m_mapDialogInfo'[a] # NULL /\ m_mapDialogInfo'[b] = NULL
              /\ m_mapDialogInfo'[a].bOrigination /\ m_mapDialogInfo'[a].cdr # NULL
           \/ /\ m_mapTerminationAttempts'[orq] # NULL
              /\ m_mapDialogInfo'[a] = NULL /\ m_mapDialogInfo'[b] # NULL
              /\ ~ m_mapDialogInfo'[b].bOrigination
    PROVE Consistent'
<1> USE DEF FreeIrqs, FreeOrqs, FreeLegs
<1>1. \A p \in m_transactions : /\ p = <<p[1], p[2]>> /\ p[1] \in Irq
                                /\ p[2] \in Orq \cup {NULL}
                                /\ p[1] # irq /\ p[2] # orq
  BY HandleAssumption DEF TypeOK, Consistent, NoDanglingHandle
<1>2. \A d \in m_dialogs : /\ d = <<d[1], d[2]>> /\ d[1] \in Leg /\ d[2] \in Leg
                           /\ d[1] \notin {a, b} /\ d[2] \notin {a, b}
  BY DEF TypeOK, Consistent, NoDanglingHandle
<1>3. m_transactions' = m_transactions \cup {<<irq, orq>>}
  BY <1>1, InsertFresh DEF Bridge, addTransactions
<1>4. m_dialogs' = m_dialogs \cup {<<a, b>>}
  BY <1>2, InsertFresh DEF Bridge, addDialogs
<1>5. /\ irqState'[irq] = "initial" /\ irqLeg'[irq] = a
      /\ \A i \in Irq \ {irq} : irqState'[i] = irqState[i] /\ irqLeg'[i] = irqLeg[i]
  BY DEF Bridge, TypeOK
<1>6. /\ orqMethod'[orq] = "INVITE" /\ orqLeg'[orq] = b
      /\ \A o \in Orq \ {orq} : orqMethod'[o] = orqMethod[o] /\ orqLeg'[o] = orqLeg[o]
  BY DEF Bridge, TypeOK
<1>7. legs' = legs \cup {a, b}
  BY DEF Bridge
<1>8. orq # NULL
  BY HandleAssumption
<1>9. NoDanglingHandle'
  <2>1. \A p \in m_transactions' : /\ irqState'[p[1]] # "free"
                                   /\ p[2] # NULL => orqMethod'[p[2]] # "free"
    BY <1>1, <1>3, <1>5, <1>6, <1>8 DEF Consistent, NoDanglingHandle
  <2>2. \A d \in m_dialogs' : d[1] \in legs' /\ d[2] \in legs'
    BY <1>4, <1>7 DEF Consistent, NoDanglingHandle
  <2>3. \A o \in Orq : m_mapTerminationAttempts'[o] # NULL => orqMethod'[o] = "INVITE"
    BY <1>6 DEF Consistent, NoDanglingHandle, isTermination
  <2>4. \A l \in Leg : m_mapDialogInfo'[l] # NULL => l \in legs'
    BY <1>7 DEF Consistent, NoDanglingHandle
  <2> QED
    BY <2>1, <2>2, <2>3, <2>4 DEF NoDanglingHandle, isTermination
<1>10. NoLostHandle'
  <2>1. ASSUME NEW o \in Orq, orqMethod'[o] # "free"
        PROVE \E p \in m_transactions' : p[2] = o
    <3>1. CASE o = orq
      <4>1. <<irq, orq>> \in m_transactions' /\ <<irq, orq>>[2] = o
        BY <3>1, <1>3
      <4> QED
        BY <4>1
    <3>2. CASE o # orq
      BY <3>2, <2>1, <1>3, <1>6 DEF Consistent, NoLostHandle
    <3> QED
      BY <3>1, <3>2
  <2>2. ASSUME NEW i \in Irq, irqState'[i] = "initial"
        PROVE \E p \in m_transactions' : p[1] = i /\ p[2] # NULL
    <3>1. CASE i = irq
      <4>1. /\ <<irq, orq>> \in m_transactions'
            /\ <<irq, orq>>[1] = i /\ <<irq, orq>>[2] # NULL
        BY <3>1, <1>3, <1>8
      <4> QED
        BY <4>1
    <3>2. CASE i # irq
      BY <3>2, <2>2, <1>3, <1>5 DEF Consistent, NoLostHandle
    <3> QED
      BY <3>1, <3>2
  <2>3. ASSUME NEW l \in legs'
        PROVE \E d \in m_dialogs' : l \in {d[1], d[2]}
    <3>1. CASE l \in {a, b}
      <4>1. <<a, b>> \in m_dialogs' /\ l \in {<<a, b>>[1], <<a, b>>[2]}
        BY <3>1, <1>4
      <4> QED
        BY <4>1
    <3>2. CASE l \notin {a, b}
      BY <3>2, <2>3, <1>4, <1>7 DEF Consistent, NoLostHandle
    <3> QED
      BY <3>1, <3>2
  <2> QED
    BY <2>1, <2>2, <2>3 DEF NoLostHandle
<1>11. OneToOne'
  <2>1. \A p, q \in m_transactions' : p[1] = q[1] \/ p[2] = q[2] => p = q
    BY <1>1, <1>3 DEF Consistent, OneToOne
  <2>2. \A d, e \in m_dialogs' : /\ d[1] = e[1] \/ d[2] = e[2] => d = e
                                 /\ d[1] # e[2]
    BY <1>2, <1>4 DEF Consistent, OneToOne
  <2> QED
    BY <2>1, <2>2 DEF OneToOne
<1>12. \A p \in m_transactions : irqState[p[1]] \in {"initial", "cancelled"} =>
         irqLeg[p[1]] # a /\ orqLeg[p[2]] # b
  BY <1>2, HandleAssumption DEF Consistent, BridgeMatchesDialog
<1>13. InvitesPaired'
  <2>1. \A p \in m_transactions' :
          irqState'[p[1]] \in {"initial", "cancelled"} <=>
             p[2] # NULL /\ orqMethod'[p[2]] = "INVITE"
    BY <1>1, <1>3, <1>5, <1>6, <1>8 DEF Consistent, InvitesPaired
  <2>2. \A p, q \in m_transactions' :
         /\ irqState'[p[1]] \in {"initial", "cancelled"}
         /\ irqState'[q[1]] \in {"initial", "cancelled"}
         /\ irqLeg'[p[1]] = irqLeg'[q[1]]
         => p = q \/ irqLeg'[p[1]] = NULL
    BY <1>1, <1>3, <1>5, <1>12 DEF Consistent, InvitesPaired
  <2> QED
    BY <2>1, <2>2 DEF InvitesPaired
<1>14. BridgeMatchesDialog'
  <2>1. \A p \in m_transactions : irqState[p[1]] \in {"initial", "cancelled"} =>
          p[2] \in Orq \ {orq}
    BY <1>1 DEF Consistent, InvitesPaired
  <2> QED
    BY <2>1, <1>1, <1>3, <1>4, <1>5, <1>6 DEF Consistent, BridgeMatchesDialog
<1>15. DialogInfoOwner'
  BY <1>2, <1>4 DEF Consistent, DialogInfoOwner
<1>16. AttemptMatchesDialog'
  <2>1. \A p \in m_transactions : irqState[p[1]] \in {"initial", "cancelled"} =>
          p[2] \in Orq \ {orq}
    BY <1>1 DEF Consistent, InvitesPaired
  <2>2. \A p \in m_transactions :
          irqState[p[1]] \in {"initial", "cancelled"} /\ irqLeg[p[1]] # NULL =>
            irqLeg[p[1]] \in Leg \ {a, b}
    BY <1>2 DEF Consistent, BridgeMatchesDialog
  <2> QED
    BY <2>1, <2>2, <1>1, <1>3, <1>5 DEF Consistent, AttemptMatchesDialog, isTermination
<1> QED
  BY <1>9, <1>10, <1>11, <1>13, <1>14, <1>15, <1>16 DEF Consistent

\* A final response to an INVITE that passes the handler's lookups belongs to a pair
\* in m_transactions whose legs are a dialog of m_dialogs.
LEMMA FoundBridge ==
    ASSUME TypeOK, Consistent, NEW orq \in Orq, FinalInviteResponse(orq)
    PROVE LET irq == getAssociatedIrq(orq)
          IN /\ irq \in Irq /\ <<irq, orq>> \in m_transactions
             /\ irqState[irq] \in {"initial", "cancelled"}
             /\ <<irqLeg[irq], orqLeg[orq]>> \in m_dialogs
             /\ irqLeg[irq] \in Leg /\ orqLeg[orq] \in Leg
             /\ irqLeg[irq] # orqLeg[orq]
             /\ getALeg(orq) = irqLeg[irq]
             /\ getAssociatedDialog(orqLeg[orq]) = irqLeg[irq]
             /\ getCdrInfo(orq) \in Call
<1> DEFINE irq == getAssociatedIrq(orq)
<1>1. /\ orqMethod[orq] = "INVITE" /\ irq # NULL /\ orqLeg[orq] # NULL
      /\ getALeg(orq) # NULL /\ getCdrInfo(orq) # NULL
  BY DEF FinalInviteResponse, InviteLookup
<1>2. irq \in Irq /\ <<irq, orq>> \in m_transactions
  BY <1>1, IrqLookup
<1>3. getALeg(orq) = irqLeg[irq]
  BY <1>1 DEF getALeg
<1>4. irqState[irq] \in {"initial", "cancelled"}
  BY <1>1, <1>2, HandleAssumption DEF Consistent, InvitesPaired
<1>5. <<irqLeg[irq], orqLeg[orq]>> \in m_dialogs
  BY <1>1, <1>2, <1>4 DEF Consistent, BridgeMatchesDialog
<1>6. irqLeg[irq] \in Leg /\ orqLeg[orq] \in Leg
  BY <1>5 DEF TypeOK
<1>7. irqLeg[irq] # orqLeg[orq]
  BY <1>5 DEF Consistent, OneToOne
<1>8. getAssociatedDialog(orqLeg[orq]) = irqLeg[irq]
  BY <1>5, DialogLookup DEF Consistent
<1>9. getCdrInfo(orq) \in Call
  <2>1. CASE isTermination(orq)
    BY <2>1 DEF getCdrInfo, isTermination, TypeOK, TerminationAttempt
  <2>2. CASE ~isTermination(orq)
    BY <2>2, <1>1, <1>3, <1>6 DEF getCdrInfo, TypeOK, SipDialogInfo
  <2> QED
    BY <2>1, <2>2
<1> QED
  BY <1>2, <1>3, <1>4, <1>5, <1>6, <1>7, <1>8, <1>9

\* The effect of ReplaceBLeg: one pair and one dialog exchange their outgoing side.
LEMMA ReplaceEffect ==
    ASSUME TypeOK, Consistent, NEW orq \in Orq, FinalInviteResponse(orq),
           isTermination(orq), NEW t \in TerminationAttempt, ReplaceBLeg(orq, t)
    PROVE LET irq == getAssociatedIrq(orq)
              a == irqLeg[irq]
              b == orqLeg[orq]
              o2 == New(FreeOrqs)
              b2 == New(FreeLegs)
          IN /\ o2 \in FreeOrqs /\ b2 \in FreeLegs
             /\ m_transactions' = (m_transactions \ {<<irq, orq>>}) \cup {<<irq, o2>>}
             /\ m_dialogs' = (m_dialogs \ {<<a, b>>}) \cup {<<a, b2>>}
             /\ m_mapDialogInfo[a] = NULL /\ m_mapDialogInfo[b] # NULL
             /\ ~ m_mapDialogInfo[b].bOrigination
             /\ m_mapDialogInfo' = [m_mapDialogInfo EXCEPT ![b2] = m_mapDialogInfo[b],
                                                           ![b] = NULL]
             /\ m_mapTerminationAttempts' =
                  [m_mapTerminationAttempts EXCEPT ![orq] = NULL, ![o2] = t]
<1> DEFINE irq == getAssociatedIrq(orq)
           a == irqLeg[irq]
           b == orqLeg[orq]
           o2 == New(FreeOrqs)
           b2 == New(FreeLegs)
<1>1. /\ irq \in Irq /\ <<irq, orq>> \in m_transactions
      /\ irqState[irq] \in {"initial", "cancelled"}
      /\ <<a, b>> \in m_dialogs /\ a \in Leg /\ b \in Leg /\ a # b
      /\ getAssociatedDialog(b) = a
  BY FoundBridge
<1>2. o2 \in FreeOrqs /\ b2 \in FreeLegs
  BY NewIsFree DEF ReplaceBLeg
<1>3. o2 \in Orq /\ orqMethod[o2] = "free" /\ o2 # orq /\ b2 \in Leg /\ b2 \notin legs
  BY <1>2 DEF FreeOrqs, FreeLegs, FinalInviteResponse
<1>4. \A p \in m_transactions : p = <<p[1], p[2]>> /\ p[2] # o2
  BY <1>3, HandleAssumption DEF TypeOK, Consistent, NoDanglingHandle
<1>5. \A d \in m_dialogs : d = <<d[1], d[2]>> /\ d[1] # b2 /\ d[2] # b2
  BY <1>3 DEF TypeOK, Consistent, NoDanglingHandle
<1>6. m_transactions' = (m_transactions \ {<<irq, orq>>}) \cup {<<irq, o2>>}
  <2> DEFINE rest == {p \in m_transactions : p[2] # orq}
  <2>1. rest = m_transactions \ {<<irq, orq>>}
    BY <1>1, <1>4 DEF Consistent, OneToOne
  <2>2. \A p \in rest : p[1] # irq /\ p[2] # o2
    BY <1>1, <1>4 DEF Consistent, OneToOne
  <2>3. Insert(rest, irq, o2) = rest \cup {<<irq, o2>>}
    BY <2>2, InsertFresh
  <2> QED
    BY <2>1, <2>3 DEF ReplaceBLeg, updateOutgoingTransaction
<1>7. m_dialogs' = (m_dialogs \ {<<a, b>>}) \cup {<<a, b2>>}
  <2> DEFINE rest == {d \in m_dialogs : d[2] # b}
  <2>1. rest = m_dialogs \ {<<a, b>>}
    BY <1>1, <1>5 DEF Consistent, OneToOne
  <2>2. \A d \in rest : d[1] # a /\ d[2] # b2
    BY <1>1, <1>5 DEF Consistent, OneToOne
  <2>3. Insert(rest, a, b2) = rest \cup {<<a, b2>>}
    BY <2>2, InsertFresh
  <2> QED
    BY <1>1, <2>1, <2>3 DEF ReplaceBLeg, updateDialog
<1>8. /\ m_mapDialogInfo[a] = NULL /\ m_mapDialogInfo[b] # NULL
      /\ ~ m_mapDialogInfo[b].bOrigination
  <2>1. m_mapDialogInfo[a] = NULL
    BY <1>1, HandleAssumption DEF Consistent, AttemptMatchesDialog
  <2> QED
    BY <2>1, <1>1 DEF Consistent, DialogInfoOwner
<1>9. m_mapDialogInfo[b2] = NULL
  BY <1>3 DEF Consistent, NoDanglingHandle
<1>10. m_mapDialogInfo' = [m_mapDialogInfo EXCEPT ![b2] = m_mapDialogInfo[b], ![b] = NULL]
  BY <1>9 DEF ReplaceBLeg, updateDialog, MapInsert
<1>11. m_mapTerminationAttempts[o2] = NULL
  BY <1>3 DEF Consistent, NoDanglingHandle, isTermination
<1>12. m_mapTerminationAttempts' =
         [m_mapTerminationAttempts EXCEPT ![orq] = NULL, ![o2] = t]
  <2>1. [m_mapTerminationAttempts EXCEPT ![orq] = NULL][o2] = NULL
    BY <1>3, <1>11 DEF TypeOK
  <2> QED
    BY <2>1 DEF ReplaceBLeg, MapInsert
<1> QED
  BY <1>2, <1>6, <1>7, <1>8, <1>10, <1>12

\* A redirect or a crankback keeps the maps consistent.
LEMMA ReplacePreserves ==
    ASSUME TypeOK, Consistent, NEW orq \in Orq, FinalInviteResponse(orq),
           isTermination(orq), NEW t \in TerminationAttempt, ReplaceBLeg(orq, t)
    PROVE Consistent'
<1> DEFINE irq == getAssociatedIrq(orq)
           a == irqLeg[irq]
           b == orqLeg[orq]
           o2 == New(FreeOrqs)
           b2 == New(FreeLegs)
<1>1. /\ irq \in Irq /\ <<irq, orq>> \in m_transactions
      /\ irqState[irq] \in {"initial", "cancelled"}
      /\ <<a, b>> \in m_dialogs /\ a \in Leg /\ b \in Leg /\ a # b
  BY FoundBridge
<1>2. /\ o2 \in FreeOrqs /\ b2 \in FreeLegs
      /\ m_transactions' = (m_transactions \ {<<irq, orq>>}) \cup {<<irq, o2>>}
      /\ m_dialogs' = (m_dialogs \ {<<a, b>>}) \cup {<<a, b2>>}
      /\ m_mapDialogInfo[a] = NULL /\ m_mapDialogInfo[b] # NULL
      /\ ~ m_mapDialogInfo[b].bOrigination
      /\ m_mapDialogInfo' = [m_mapDialogInfo EXCEPT ![b2] = m_mapDialogInfo[b], ![b] = NULL]
      /\ m_mapTerminationAttempts' =
           [m_mapTerminationAttempts EXCEPT ![orq] = NULL, ![o2] = t]
  BY ReplaceEffect
<1>3. /\ o2 \in Orq /\ orqMethod[o2] = "free" /\ o2 # orq /\ o2 # NULL /\ orq # NULL
      /\ b2 \in Leg /\ b2 \notin legs /\ b2 # NULL /\ a # NULL /\ b # NULL
      /\ a \in legs /\ b \in legs /\ b2 # a /\ b2 # b
  BY <1>1, <1>2, HandleAssumption
     DEF FreeOrqs, FreeLegs, FinalInviteResponse, Consistent, NoDanglingHandle
<1> HIDE DEF irq, a, b, o2, b2
<1>4. \A p \in m_transactions : /\ p = <<p[1], p[2]>> /\ p[1] \in Irq
                                /\ p[2] \in Orq \cup {NULL} /\ p[2] # o2
                                /\ p # <<irq, orq>> => p[1] # irq /\ p[2] # orq
  BY <1>1, <1>3 DEF TypeOK, Consistent, NoDanglingHandle, OneToOne
<1>5. \A d \in m_dialogs : /\ d = <<d[1], d[2]>> /\ d[1] \in Leg /\ d[2] \in Leg
                           /\ d[1] # b2 /\ d[2] # b2 /\ d[1] # b /\ d[2] # a
                           /\ d # <<a, b>> => d[1] # a /\ d[2] # b
  BY <1>1, <1>3 DEF TypeOK, Consistent, NoDanglingHandle, OneToOne
<1>6. /\ orqMethod'[orq] = "free" /\ orqMethod'[o2] = "INVITE" /\ orqLeg'[o2] = b2
      /\ \A o \in Orq \ {orq, o2} : orqMethod'[o] = orqMethod[o]
      /\ \A o \in Orq \ {o2} : orqLeg'[o] = IF orqLeg[o] = b THEN NULL ELSE orqLeg[o]
      /\ \A i \in Irq : irqLeg'[i] = IF irqLeg[i] = b THEN NULL ELSE irqLeg[i]
      /\ legs' = (legs \ {b}) \cup {b2}
      /\ irqState' = irqState
  BY <1>3 DEF ReplaceBLeg, TypeOK, o2, b2, b
<1>7. \A p \in m_transactions' : p = <<irq, o2>> \/ (p \in m_transactions /\ p # <<irq, orq>>)
  BY <1>2
<1>8. \A d \in m_dialogs' : d = <<a, b2>> \/ (d \in m_dialogs /\ d # <<a, b>>)
  BY <1>2
<1>9. NoDanglingHandle'
  <2>1. \A p \in m_transactions' : /\ irqState'[p[1]] # "free"
                                   /\ p[2] # NULL => orqMethod'[p[2]] # "free"
    BY <1>1, <1>3, <1>4, <1>6, <1>7 DEF Consistent, NoDanglingHandle
  <2>2. ASSUME NEW d \in m_dialogs' PROVE d[1] \in legs' /\ d[2] \in legs'
    <3>1. CASE d = <<a, b2>>
      BY <3>1, <1>1, <1>3, <1>6
    <3>2. CASE d \in m_dialogs /\ d # <<a, b>>
      BY <3>2, <1>5, <1>6 DEF Consistent, NoDanglingHandle
    <3> QED
      BY <3>1, <3>2, <1>8
  <2>3. \A o \in Orq : m_mapTerminationAttempts'[o] # NULL => orqMethod'[o] = "INVITE"
    BY <1>2, <1>3, <1>6 DEF Consistent, NoDanglingHandle, isTermination, TypeOK
  <2>4. \A l \in Leg : m_mapDialogInfo'[l] # NULL => l \in legs'
    BY <1>2, <1>3, <1>6 DEF Consistent, NoDanglingHandle, TypeOK
  <2> QED
    BY <2>1, <2>2, <2>3, <2>4 DEF NoDanglingHandle, isTermination
<1>10. NoLostHandle'
  <2>1. ASSUME NEW o \in Orq, orqMethod'[o] # "free"
        PROVE \E p \in m_transactions' : p[2] = o
    <3>1. CASE o = o2
      <4>1. <<irq, o2>> \in m_transactions' /\ <<irq, o2>>[2] = o
        BY <3>1, <1>2
      <4> QED
        BY <4>1
    <3>2. CASE o # o2
      <4>1. o # orq /\ orqMethod[o] # "free"
        BY <3>2, <2>1, <1>6
      <4>2. PICK p \in m_transactions : p[2] = o
        BY <4>1 DEF Consistent, NoLostHandle
      <4>3. p \in m_transactions'
        BY <4>1, <4>2, <1>2
      <4> QED
        BY <4>2, <4>3
    <3> QED
      BY <3>1, <3>2
  <2>2. ASSUME NEW i \in Irq, irqState'[i] = "initial"
        PROVE \E p \in m_transactions' : p[1] = i /\ p[2] # NULL
    <3>1. CASE i = irq
      <4>1. /\ <<irq, o2>> \in m_transactions'
            /\ <<irq, o2>>[1] = i /\ <<irq, o2>>[2] # NULL
        BY <3>1, <1>2, <1>3
      <4> QED
        BY <4>1
    <3>2. CASE i # irq
      <4>1. PICK p \in m_transactions : p[1] = i /\ p[2] # NULL
        BY <2>2, <1>6 DEF Consistent, NoLostHandle
      <4>2. p \in m_transactions'
        BY <3>2, <4>1, <1>2
      <4> QED
        BY <4>1, <4>2
    <3> QED
      BY <3>1, <3>2
  <2>3. ASSUME NEW l \in legs'
        PROVE \E d \in m_dialogs' : l \in {d[1], d[2]}
    <3>1. CASE l \in {a, b2}
      <4>1. <<a, b2>> \in m_dialogs' /\ l \in {<<a, b2>>[1], <<a, b2>>[2]}
        BY <3>1, <1>2
      <4> QED
        BY <4>1
    <3>2. CASE l \notin {a, b2}
      <4>1. PICK d \in m_dialogs : l \in {d[1], d[2]}
        BY <3>2, <2>3, <1>6 DEF Consistent, NoLostHandle
      <4>2. d # <<a, b>>
        BY <3>2, <2>3, <4>1, <1>3, <1>6
      <4> QED
        BY <4>1, <4>2, <1>2
    <3> QED
      BY <3>1, <3>2
  <2> QED
    BY <2>1, <2>2, <2>3 DEF NoLostHandle
<1>11. OneToOne'
  <2>1. \A p, q \in m_transactions' : p[1] = q[1] \/ p[2] = q[2] => p = q
    BY <1>4, <1>7 DEF Consistent, OneToOne
  <2>2. \A d, e \in m_dialogs' : /\ d[1] = e[1] \/ d[2] = e[2] => d = e
                                 /\ d[1] # e[2]
    BY <1>3, <1>5, <1>8 DEF Consistent, OneToOne
  <2> QED
    BY <2>1, <2>2 DEF OneToOne
<1>12. ASSUME NEW p \in m_transactions, p # <<irq, orq>>,
              irqState[p[1]] \in {"initial", "cancelled"}
       PROVE /\ p[2] \in Orq \ {orq, o2}
             /\ irqLeg'[p[1]] = irqLeg[p[1]] /\ orqLeg'[p[2]] = orqLeg[p[2]]
             /\ irqLeg[p[1]] # a
             /\ \/ irqLeg[p[1]] = NULL /\ orqLeg[p[2]] = NULL
                \/ /\ <<irqLeg[p[1]], orqLeg[p[2]]>> \in m_dialogs
                   /\ <<irqLeg[p[1]], orqLeg[p[2]]>> # <<a, b>>
  <2>1. p[1] \in Irq /\ p[2] \in Orq \ {orq, o2}
    BY <1>4, <1>12 DEF Consistent, InvitesPaired
  <2>2. <<irq, orq>>[1] = irq
    OBVIOUS
  <2>3. irqLeg[p[1]] # a
    BY <1>1, <1>3, <1>12, <2>2 DEF Consistent, InvitesPaired, a
  <2>4. \/ irqLeg[p[1]] = NULL /\ orqLeg[p[2]] = NULL
        \/ <<irqLeg[p[1]], orqLeg[p[2]]>> \in m_dialogs
    BY <1>12 DEF Consistent, BridgeMatchesDialog
  <2>5. irqLeg[p[1]] # b /\ orqLeg[p[2]] # b
    BY <2>3, <2>4, <1>3, <1>5
  <2> QED
    BY <2>1, <2>3, <2>4, <2>5, <1>6
<1>13. irqLeg'[irq] = a /\ irqLeg[irq] = a
  BY <1>1, <1>6 DEF a
<1>14. InvitesPaired'
  <2>1. \A p \in m_transactions' :
          irqState'[p[1]] \in {"initial", "cancelled"} <=>
             p[2] # NULL /\ orqMethod'[p[2]] = "INVITE"
    BY <1>1, <1>3, <1>4, <1>6, <1>7 DEF Consistent, InvitesPaired
  <2>2. \A p, q \in m_transactions' :
         /\ irqState'[p[1]] \in {"initial", "cancelled"}
         /\ irqState'[q[1]] \in {"initial", "cancelled"}
         /\ irqLeg'[p[1]] = irqLeg'[q[1]]
         => p = q \/ irqLeg'[p[1]] = NULL
    <3> SUFFICES ASSUME NEW p \in m_transactions', NEW q \in m_transactions',
                        irqState'[p[1]] \in {"initial", "cancelled"},
                        irqState'[q[1]] \in {"initial", "cancelled"},
                        irqLeg'[p[1]] = irqLeg'[q[1]], irqLeg'[p[1]] # NULL
                 PROVE p = q
      OBVIOUS
    <3>1. \A r \in {p, q} : r # <<irq, o2>> =>
            /\ r \in m_transactions /\ irqState[r[1]] \in {"initial", "cancelled"}
            /\ irqLeg'[r[1]] = irqLeg[r[1]] /\ irqLeg'[r[1]] # a
      BY <1>6, <1>7, <1>12
    <3>2. \A r \in {p, q} : r = <<irq, o2>> => irqLeg'[r[1]] = a
      BY <1>13
    <3>3. CASE p = <<irq, o2>> \/ q = <<irq, o2>>
      BY <3>1, <3>2, <3>3
    <3>4. CASE p # <<irq, o2>> /\ q # <<irq, o2>>
      BY <3>1, <3>4 DEF Consistent, InvitesPaired
    <3> QED
      BY <3>3, <3>4
  <2> QED
    BY <2>1, <2>2 DEF InvitesPaired
<1>15. BridgeMatchesDialog'
  <2> SUFFICES ASSUME NEW p \in m_transactions',
                      irqState'[p[1]] \in {"initial", "cancelled"}
               PROVE \/ irqLeg'[p[1]] = NULL /\ orqLeg'[p[2]] = NULL
                     \/ <<irqLeg'[p[1]], orqLeg'[p[2]]>> \in m_dialogs'
    BY DEF BridgeMatchesDialog
  <2>1. CASE p = <<irq, o2>>
    BY <2>1, <1>2, <1>6, <1>13
  <2>2. CASE p # <<irq, o2>>
    BY <2>2, <1>2, <1>6, <1>7, <1>12
  <2> QED
    BY <2>1, <2>2
<1>16. DialogInfoOwner'
  <2>1. m_mapDialogInfo'[a] = NULL /\ m_mapDialogInfo'[b2] = m_mapDialogInfo[b]
    BY <1>1, <1>2, <1>3 DEF TypeOK
  <2>2. \A l \in Leg \ {b, b2} : m_mapDialogInfo'[l] = m_mapDialogInfo[l]
    BY <1>2 DEF TypeOK
  <2>3. \A d \in m_dialogs' : d # <<a, b2>> =>
          /\ m_mapDialogInfo'[d[1]] = m_mapDialogInfo[d[1]]
          /\ m_mapDialogInfo'[d[2]] = m_mapDialogInfo[d[2]]
    BY <2>2, <1>5, <1>8
  <2> SUFFICES ASSUME NEW d \in m_dialogs'
               PROVE \/ /\ m_mapDialogInfo'[d[1]] # NULL /\ m_mapDialogInfo'[d[2]] = NULL
                        /\ m_mapDialogInfo'[d[1]].bOrigination
                        /\ m_mapDialogInfo'[d[1]].cdr # NULL
                     \/ /\ m_mapDialogInfo'[d[1]] = NULL /\ m_mapDialogInfo'[d[2]] # NULL
                        /\ ~ m_mapDialogInfo'[d[2]].bOrigination
    BY DEF DialogInfoOwner
  <2>4. CASE d = <<a, b2>>
    BY <2>1, <2>4, <1>2
  <2>5. CASE d # <<a, b2>>
    BY <2>3, <2>5, <1>8 DEF Consistent, DialogInfoOwner
  <2> QED
    BY <2>4, <2>5
<1>17. AttemptMatchesDialog'
  <2> SUFFICES ASSUME NEW p \in m_transactions',
                      irqState'[p[1]] \in {"initial", "cancelled"}, irqLeg'[p[1]] # NULL
               PROVE m_mapTerminationAttempts'[p[2]] # NULL
                       <=> m_mapDialogInfo'[irqLeg'[p[1]]] = NULL
    BY DEF AttemptMatchesDialog, isTermination
  <2>1. CASE p = <<irq, o2>>
    <3>1. m_mapTerminationAttempts'[o2] # NULL
      BY <1>2, <1>3, NullAssumption DEF TypeOK
    <3>2. m_mapDialogInfo'[a] = NULL
      BY <1>1, <1>2, <1>3 DEF TypeOK
    <3> QED
      BY <2>1, <3>1, <3>2, <1>13
  <2>2. CASE p # <<irq, o2>>
    <3>1. p \in m_transactions /\ p # <<irq, orq>>
      BY <2>2, <1>7
    <3>2. /\ p[2] \in Orq \ {orq, o2} /\ irqLeg'[p[1]] = irqLeg[p[1]]
          /\ irqLeg[p[1]] \in Leg \ {b, b2}
      BY <3>1, <1>5, <1>6, <1>12
    <3>3. m_mapTerminationAttempts'[p[2]] = m_mapTerminationAttempts[p[2]]
      BY <3>2, <1>2 DEF TypeOK
    <3>4. m_mapDialogInfo'[irqLeg[p[1]]] = m_mapDialogInfo[irqLeg[p[1]]]
      BY <3>2, <1>2 DEF TypeOK
    <3> QED
      BY <3>1, <3>2, <3>3, <3>4, <1>6 DEF Consistent, AttemptMatchesDialog, isTermination
  <2> QED
    BY <2>1, <2>2
<1> QED
  BY <1>9, <1>10, <1>11, <1>14, <1>15, <1>16, <1>17 DEF Consistent

\* A request that is sent on inside a dialog, as x or, when nta could not create it, as
\* NULL, keeps the maps consistent.
LEMMA ForwardPreserves ==
    ASSUME TypeOK, Consistent,
           NEW irq \in FreeIrqs, NEW x \in FreeOrqs \cup {NULL},
           addTransactions(irq, x),
           irqState' = [irqState EXCEPT ![irq] = "inDialog"],
           \A o \in Orq : o # x => orqMethod'[o] = orqMethod[o] /\ orqLeg'[o] = orqLeg[o],
           x # NULL => orqMethod'[x] \in InDialogMethods,
           UNCHANGED <<legs, irqLeg, m_dialogs, m_mapTerminationAttempts, m_mapDialogInfo>>
    PROVE Consistent'
<1> USE DEF FreeIrqs, FreeOrqs, InDialogMethods
<1>1. \A p \in m_transactions : /\ p = <<p[1], p[2]>> /\ p[1] \in Irq \ {irq}
                                /\ p[2] \in Orq \cup {NULL}
                                /\ p[2] # NULL => p[2] # x
  BY HandleAssumption DEF TypeOK, Consistent, NoDanglingHandle
<1>2. /\ m_transactions' \in {m_transactions, m_transactions \cup {<<irq, x>>}}
      /\ x # NULL => m_transactions' = m_transactions \cup {<<irq, x>>}
      /\ m_transactions \subseteq m_transactions'
      /\ \A p, q \in m_transactions' : p[1] = q[1] \/ p[2] = q[2] => p = q
  <2>1. CASE \E p \in m_transactions : p[2] = x
    BY <2>1, <1>1 DEF addTransactions, Insert, Consistent, OneToOne
  <2>2. CASE ~ \E p \in m_transactions : p[2] = x
    <3>1. m_transactions' = m_transactions \cup {<<irq, x>>}
      BY <2>2, <1>1, InsertFresh DEF addTransactions
    <3> QED
      BY <3>1, <2>2, <1>1 DEF Consistent, OneToOne
  <2> QED
    BY <2>1, <2>2
<1>3. /\ irqState'[irq] = "inDialog"
      /\ \A i \in Irq \ {irq} : irqState'[i] = irqState[i]
  BY DEF TypeOK
<1>4. /\ legs' = legs /\ irqLeg' = irqLeg /\ m_dialogs' = m_dialogs
      /\ m_mapTerminationAttempts' = m_mapTerminationAttempts
      /\ m_mapDialogInfo' = m_mapDialogInfo
  OBVIOUS
<1>5. \A p \in m_transactions' : p = <<irq, x>> \/ p \in m_transactions
  BY <1>2
<1>6. \A o \in Orq : o # x => orqMethod'[o] = orqMethod[o] /\ orqLeg'[o] = orqLeg[o]
  OBVIOUS
<1>7. \A p \in m_transactions' :
        irqState'[p[1]] \in {"initial", "cancelled"} =>
          /\ p \in m_transactions /\ p[1] \in Irq /\ p[2] \in Orq
          /\ irqState[p[1]] = irqState'[p[1]]
          /\ orqLeg'[p[2]] = orqLeg[p[2]]
  <2> SUFFICES ASSUME NEW p \in m_transactions',
                      irqState'[p[1]] \in {"initial", "cancelled"}
               PROVE /\ p \in m_transactions /\ p[1] \in Irq /\ p[2] \in Orq
                     /\ irqState[p[1]] = irqState'[p[1]]
                     /\ orqLeg'[p[2]] = orqLeg[p[2]]
    OBVIOUS
  <2>1. p \in m_transactions /\ p[1] \in Irq \ {irq}
    BY <1>1, <1>3, <1>5
  <2>2. irqState[p[1]] = irqState'[p[1]]
    BY <2>1, <1>3
  <2>3. p[2] # NULL /\ p[2] \in Orq
    BY <2>1, <2>2, <1>1 DEF Consistent, InvitesPaired
  <2> QED
    BY <2>1, <2>2, <2>3, <1>1, <1>6
<1>8. NoDanglingHandle'
  <2>1. ASSUME NEW p \in m_transactions'
        PROVE /\ irqState'[p[1]] # "free"
              /\ p[2] # NULL => orqMethod'[p[2]] # "free"
    <3>1. CASE p = <<irq, x>>
      BY <3>1, <1>3
    <3>2. CASE p \in m_transactions
      BY <3>2, <1>1, <1>3, <1>6 DEF Consistent, NoDanglingHandle
    <3> QED
      BY <3>1, <3>2, <1>5
  <2>2. \A d \in m_dialogs' : d[1] \in legs' /\ d[2] \in legs'
    BY <1>4 DEF Consistent, NoDanglingHandle
  <2>3. \A o \in Orq : m_mapTerminationAttempts'[o] # NULL => orqMethod'[o] = "INVITE"
    BY <1>4, <1>6, HandleAssumption DEF Consistent, NoDanglingHandle, isTermination
  <2>4. \A l \in Leg : m_mapDialogInfo'[l] # NULL => l \in legs'
    BY <1>4 DEF Consistent, NoDanglingHandle
  <2> QED
    BY <2>1, <2>2, <2>3, <2>4 DEF NoDanglingHandle, isTermination
<1>9. NoLostHandle'
  <2>1. ASSUME NEW o \in Orq, orqMethod'[o] # "free"
        PROVE \E p \in m_transactions' : p[2] = o
    <3>1. CASE o = x
      <4>1. <<irq, x>> \in m_transactions' /\ <<irq, x>>[2] = o
        BY <3>1, <1>2, HandleAssumption
      <4> QED
        BY <4>1
    <3>2. CASE o # x
      BY <3>2, <2>1, <1>2, <1>6 DEF Consistent, NoLostHandle
    <3> QED
      BY <3>1, <3>2
  <2>2. ASSUME NEW i \in Irq, irqState'[i] = "initial"
        PROVE \E p \in m_transactions' : p[1] = i /\ p[2] # NULL
    <3>1. irqState[i] = "initial"
      BY <2>2, <1>3
    <3> QED
      BY <3>1, <1>2 DEF Consistent, NoLostHandle
  <2>3. \A l \in legs' : \E d \in m_dialogs' : l \in {d[1], d[2]}
    BY <1>4 DEF Consistent, NoLostHandle
  <2> QED
    BY <2>1, <2>2, <2>3 DEF NoLostHandle
<1>10. OneToOne'
  BY <1>2, <1>4 DEF Consistent, OneToOne
<1>11. InvitesPaired'
  <2>1. ASSUME NEW p \in m_transactions'
        PROVE irqState'[p[1]] \in {"initial", "cancelled"} <=>
                p[2] # NULL /\ orqMethod'[p[2]] = "INVITE"
    <3>1. CASE p = <<irq, x>>
      BY <3>1, <1>3
    <3>2. CASE p \in m_transactions
      BY <3>2, <1>1, <1>3, <1>6 DEF Consistent, InvitesPaired
    <3> QED
      BY <3>1, <3>2, <1>5
  <2>2. \A p, q \in m_transactions' :
         /\ irqState'[p[1]] \in {"initial", "cancelled"}
         /\ irqState'[q[1]] \in {"initial", "cancelled"}
         /\ irqLeg'[p[1]] = irqLeg'[q[1]]
         => p = q \/ irqLeg'[p[1]] = NULL
    BY <1>4, <1>7 DEF Consistent, InvitesPaired
  <2> QED
    BY <2>1, <2>2 DEF InvitesPaired
<1>12. BridgeMatchesDialog'
  BY <1>4, <1>7 DEF Consistent, BridgeMatchesDialog
<1>13. DialogInfoOwner'
  BY <1>4 DEF Consistent, DialogInfoOwner
<1>14. AttemptMatchesDialog'
  BY <1>4, <1>7 DEF Consistent, AttemptMatchesDialog, isTermination
<1> QED
  BY <1>8, <1>9, <1>10, <1>11, <1>12, <1>13, <1>14 DEF Consistent

\* An unanswered INVITE of which one side of the bridge is not found: it is the leg,
\* and clearDialog finds nothing to clear.
LEMMA CancelTooLateEffect ==
    ASSUME TypeOK, Consistent, NEW irq \in Irq, CancelTooLate(irq)
    PROVE /\ irqState[irq] = "initial"
          /\ irqState' = [irqState EXCEPT ![irq] = "cancelled"]
          /\ UNCHANGED <<legs, irqLeg, orqLeg, m_dialogs, m_mapDialogInfo>>
<1>1. PICK p \in m_transactions : p[1] = irq /\ p[2] # NULL
  BY DEF CancelTooLate, Consistent, NoLostHandle
<1>2. (CHOOSE q \in m_transactions : q[1] = irq) = p
  BY <1>1 DEF Consistent, OneToOne
<1>3. getAssociatedOrq(irq) # NULL
  BY <1>1, <1>2 DEF getAssociatedOrq
<1>4. irqLeg[irq] = NULL
  BY <1>3 DEF CancelTooLate
<1>5. \A d \in m_dialogs : d[1] # NULL /\ d[2] # NULL
  BY HandleAssumption DEF TypeOK
<1>6. getAssociatedDialog(NULL) = NULL
  BY <1>5 DEF getAssociatedDialog
<1>7. NULL \notin legs
  BY HandleAssumption DEF TypeOK
<1>8. m_dialogs' = m_dialogs /\ legs' = legs
  BY <1>4, <1>5, <1>6, <1>7 DEF CancelTooLate, clearDialog
<1>9. m_mapDialogInfo' = m_mapDialogInfo
  <2>1. m_mapDialogInfo' = [l \in Leg |-> IF l \in {NULL} THEN NULL ELSE m_mapDialogInfo[l]]
    BY <1>4, <1>6 DEF CancelTooLate, clearDialog
  <2> QED
    BY <2>1, HandleAssumption DEF TypeOK
<1>10. irqLeg' = irqLeg /\ orqLeg' = orqLeg
  <2>1. /\ irqLeg' = [i \in Irq |-> IF irqLeg[i] \in {NULL} THEN NULL ELSE irqLeg[i]]
        /\ orqLeg' = [o \in Orq |-> IF orqLeg[o] \in {NULL} THEN NULL ELSE orqLeg[o]]
    BY <1>4, <1>6 DEF CancelTooLate
  <2> QED
    BY <2>1 DEF TypeOK
<1> QED
  BY <1>8, <1>9, <1>10 DEF CancelTooLate

\* So a CANCEL that comes too late only changes the state of the server transaction.
LEMMA CancelTooLatePreserves ==
    ASSUME TypeOK, Consistent, NEW irq \in Irq, CancelTooLate(irq)
    PROVE Consistent'
<1>1. /\ irqState[irq] = "initial"
      /\ irqState' = [irqState EXCEPT ![irq] = "cancelled"]
      /\ legs' = legs /\ irqLeg' = irqLeg /\ orqLeg' = orqLeg
      /\ m_dialogs' = m_dialogs /\ m_mapDialogInfo' = m_mapDialogInfo
  BY CancelTooLateEffect
<1>2. /\ orqMethod' = orqMethod /\ m_transactions' = m_transactions
      /\ m_mapTerminationAttempts' = m_mapTerminationAttempts
  BY DEF CancelTooLate
<1>3. \A i \in Irq : /\ irqState'[i] = "free" <=> irqState[i] = "free"
                     /\ irqState'[i] = "initial" => irqState[i] = "initial"
                     /\ irqState'[i] \in {"initial", "cancelled"}
                          <=> irqState[i] \in {"initial", "cancelled"}
  BY <1>1 DEF TypeOK
<1>4. \A p \in m_transactions : p[1] \in Irq
  BY DEF TypeOK
<1>5. NoDanglingHandle' /\ NoLostHandle' /\ OneToOne' /\ DialogInfoOwner'
  BY <1>1, <1>2, <1>3, <1>4
     DEF Consistent, NoDanglingHandle, NoLostHandle, OneToOne, DialogInfoOwner, isTermination
<1>6. InvitesPaired' /\ BridgeMatchesDialog' /\ AttemptMatchesDialog'
  BY <1>1, <1>2, <1>3, <1>4
     DEF Consistent, InvitesPaired, BridgeMatchesDialog, AttemptMatchesDialog, isTermination
<1> QED
  BY <1>5, <1>6 DEF Consistent

-----------------------------------------------------------------------------
(* The steps *)

\* clearTransaction takes the pair of orq out of the bimap.
LEMMA ClearTransactionEffect ==
    ASSUME TypeOK, OneToOne, NEW irq \in Irq, NEW orq \in Orq,
           <<irq, orq>> \in m_transactions, clearTransaction(orq)
    PROVE /\ m_transactions' = m_transactions \ {<<irq, orq>>}
          /\ Irqs({<<irq, orq>>}) = {irq} /\ Orqs({<<irq, orq>>}) = {orq}
<1>1. \A p \in m_transactions : p = <<p[1], p[2]>> /\ (p[2] = orq => p = <<irq, orq>>)
  BY DEF TypeOK, OneToOne
<1>2. m_transactions' = m_transactions \ {<<irq, orq>>}
  BY <1>1 DEF clearTransaction
<1> QED
  BY <1>2 DEF Irqs, Orqs

\* clearDialog, on either leg, takes out the dialog and the dialog info of both legs.
LEMMA ClearDialogEffect ==
    ASSUME TypeOK, OneToOne, NEW d \in m_dialogs, NEW leg \in {d[1], d[2]},
           clearDialog(leg)
    PROVE /\ m_dialogs' = m_dialogs \ {d}
          /\ {leg, getAssociatedDialog(leg)} = Legs({d})
          /\ getAssociatedDialog(leg) \in Leg
          /\ m_mapDialogInfo' \in [Leg -> SipDialogInfo \cup {NULL}]
          /\ \A l \in Leg : IF l \in Legs({d}) THEN m_mapDialogInfo'[l] = NULL
                            ELSE SameInfo(l)
<1>1. /\ d[1] \in Leg /\ d[2] \in Leg
      /\ getAssociatedDialog(d[1]) = d[2] /\ getAssociatedDialog(d[2]) = d[1]
  BY DialogLookup
<1>2. {leg, getAssociatedDialog(leg)} = Legs({d})
  BY <1>1 DEF Legs
<1>3. m_dialogs' = m_dialogs \ {d}
  BY DEF clearDialog, OneToOne
<1>4. m_mapDialogInfo' = [l \in Leg |-> IF l \in Legs({d}) THEN NULL
                                        ELSE m_mapDialogInfo[l]]
  BY <1>2 DEF clearDialog
<1>5. m_mapDialogInfo' \in [Leg -> SipDialogInfo \cup {NULL}]
  BY <1>4 DEF TypeOK
<1>6. \A l \in Leg : IF l \in Legs({d}) THEN m_mapDialogInfo'[l] = NULL ELSE SameInfo(l)
  BY <1>4 DEF SameInfo
<1> QED
  BY <1>1, <1>2, <1>3, <1>5, <1>6

\* Destroying handles keeps the types of what nta knows.
LEMMA DestroyType ==
    ASSUME TypeOK, NEW I, NEW O, NEW L, Destroy(I, O, L)
    PROVE /\ NtaTypes'
BY DEF TypeOK, Destroy, IrqStates, OrqMethods, NtaTypes, MapTypes

\* postCdr keeps the type of the ledger.
LEMMA PostType ==
    ASSUME TypeOK, NEW c \in Call, NEW type \in CdrTypes, postCdr(c, type)
    PROVE cdrs' \in [Call -> Seq(CdrTypes)]
<1>1. Append(cdrs[c], type) \in Seq(CdrTypes)
  BY DEF TypeOK
<1> QED
  BY <1>1 DEF TypeOK, postCdr

\* So does a new termination attempt, and its erasure, that of the attempts.
LEMMA EraseType ==
    ASSUME TypeOK, NEW orq \in Orq, eraseAttempt(orq)
    PROVE /\ m_mapTerminationAttempts' \in [Orq -> TerminationAttempt \cup {NULL}]
          /\ \A o \in Orq : m_mapTerminationAttempts'[o] =
               IF o \in {orq} THEN NULL ELSE m_mapTerminationAttempts[o]
BY DEF TypeOK, eraseAttempt

\* An INVITE that ends without the callee's answer keeps the types of the far ends.
LEMMA LoseType ==
    ASSUME TypeOK, NEW orq, LoseCallee(orq)
    PROVE FarEndTypes'
<1>1. established' \in [Leg -> BOOLEAN]
  BY DEF TypeOK, LoseCallee
<1>2. forgotten' \in [Call -> Forgotten]
  <2>1. [forgotten EXCEPT ![getCdrInfo(orq)] = "200"] \in [Call -> Forgotten]
    BY DEF TypeOK, Forgotten
  <2> QED
    BY <2>1 DEF TypeOK, LoseCallee
<1> QED
  BY <1>1, <1>2 DEF FarEndTypes

\* A step that leaves the maps and nta alone.
LEMMA MapsUnchanged ==
    ASSUME Consistent, UNCHANGED <<nta, maps>>
    PROVE Consistent'
BY DEF nta, maps, Consistent, NoDanglingHandle, NoLostHandle, OneToOne, InvitesPaired,
       BridgeMatchesDialog, DialogInfoOwner, AttemptMatchesDialog, isTermination

\* A response to the INVITE of a B leg that exists finds all it looks up.
LEMMA LookupFinds ==
    ASSUME TypeOK, Consistent, NEW orq \in Orq, orqMethod[orq] = "INVITE"
    PROVE InviteLookup(orq) = IF orqLeg[orq] = NULL THEN "1344 B leg gone" ELSE "found"
<1> DEFINE irq == getAssociatedIrq(orq)
<1>1. irq # NULL
  BY IrqLookup DEF Consistent, NoLostHandle
<1>2. irq \in Irq /\ <<irq, orq>> \in m_transactions
  BY <1>1, IrqLookup
<1>3. irqState[irq] \in {"initial", "cancelled"}
  BY <1>2, HandleAssumption DEF Consistent, InvitesPaired
<1>4. CASE orqLeg[orq] = NULL
  BY <1>1, <1>4 DEF InviteLookup
<1>5. CASE orqLeg[orq] # NULL
  <2>1. <<irqLeg[irq], orqLeg[orq]>> \in m_dialogs
    BY <1>2, <1>3, <1>5 DEF Consistent, BridgeMatchesDialog
  <2>2. irqLeg[irq] \in Leg /\ irqLeg[irq] # NULL /\ getALeg(orq) = irqLeg[irq]
    BY <2>1, <1>1, HandleAssumption DEF TypeOK, getALeg
  <2>3. getCdrInfo(orq) # NULL
    <3>1. CASE isTermination(orq)
      BY <3>1, HandleAssumption DEF getCdrInfo, isTermination, TypeOK, TerminationAttempt
    <3>2. CASE ~isTermination(orq)
      <4>1. m_mapDialogInfo[irqLeg[irq]] # NULL
        BY <3>2, <1>2, <1>3, <2>2 DEF Consistent, AttemptMatchesDialog
      <4>2. m_mapDialogInfo[irqLeg[irq]].cdr # NULL
        BY <4>1, <2>1 DEF Consistent, DialogInfoOwner
      <4> QED
        BY <3>2, <4>1, <4>2, <2>2 DEF getCdrInfo
    <3> QED
      BY <3>1, <3>2
  <2> QED
    BY <1>1, <1>5, <2>2, <2>3 DEF InviteLookup
<1> QED
  BY <1>4, <1>5

\* The step of a failed assertion: only the one at line 1344 can fail.
LEMMA InviteResponseUnexpectedStep ==
    ASSUME IInv, NEW orq \in Orq, InviteResponseUnexpected(orq)
    PROVE IInv'
<1> USE DEF IInv
<1>1. orqMethod[orq] = "INVITE" /\ InviteLookup(orq) # "found"
  BY DEF InviteResponseUnexpected
<1>2. InviteLookup(orq) = "1344 B leg gone"
  BY <1>1, LookupFinds
<1>3. process' = "1344 B leg gone"
      /\ UNCHANGED <<config, m_nIterationCount, nta, maps, ledger, farEnds>>
  BY <1>2 DEF InviteResponseUnexpected, Abort
<1>4. TypeOK'
  BY <1>3 DEF TypeOK, Aborts, config, farEnds, nta, maps, ledger
<1> QED
  BY <1>3, <1>4, MapsUnchanged DEF LookupsSucceed

\* The three answers that end an INVITE and its bridge (a proxied failure, a crankback
\* that cannot be sent, a CANCEL) share what they do to the maps.
LEMMA BridgeDropped ==
    ASSUME TypeOK, Consistent, NEW irq \in Irq, NEW orq \in Orq, NEW a, NEW b,
           <<irq, orq>> \in m_transactions, <<a, b>> \in m_dialogs,
           NEW leg \in {a, b},
           clearTransaction(orq), clearDialog(leg), eraseAttempt(orq),
           Destroy({irq}, {orq}, {leg, getAssociatedDialog(leg)})
    PROVE /\ Consistent'
          /\ NtaTypes'
          /\ MapTypes'
          /\ getAssociatedDialog(leg) \in Leg /\ getAssociatedDialog(leg) # NULL
<1> DEFINE P == {<<irq, orq>>}
           d == <<a, b>>
           D == {d}
<1>0. OneToOne
  BY DEF Consistent
<1>1. /\ m_transactions' = m_transactions \ P
      /\ Irqs(P) = {irq} /\ Orqs(P) = {orq}
  BY <1>0, ClearTransactionEffect
<1>2. d \in m_dialogs /\ leg \in {d[1], d[2]}
  OBVIOUS
<1> HIDE DEF d
<1>3. /\ m_dialogs' = m_dialogs \ D
      /\ {leg, getAssociatedDialog(leg)} = Legs(D)
      /\ getAssociatedDialog(leg) \in Leg
      /\ m_mapDialogInfo' \in [Leg -> SipDialogInfo \cup {NULL}]
      /\ \A l \in Leg : IF l \in Legs(D) THEN m_mapDialogInfo'[l] = NULL ELSE SameInfo(l)
  BY <1>0, <1>2, ClearDialogEffect
<1>4. /\ m_mapTerminationAttempts' \in [Orq -> TerminationAttempt \cup {NULL}]
      /\ \A o \in Orq : m_mapTerminationAttempts'[o] =
           IF o \in Orqs(P) THEN NULL ELSE m_mapTerminationAttempts[o]
  BY <1>1, EraseType
<1>5. Destroy(Irqs(P), Orqs(P), Legs(D))
  BY <1>1, <1>3
<1>6. P \in SUBSET m_transactions /\ D \in SUBSET m_dialogs /\ \A p \in P : p[2] # NULL
  BY <1>2, HandleAssumption
<1> HIDE DEF P, D
<1>7. Consistent'
  BY <1>1, <1>3, <1>4, <1>5, <1>6, DropPreserves
<1>8. /\ m_transactions' \in SUBSET (Irq \X (Orq \cup {NULL}))
      /\ m_dialogs' \in SUBSET (Leg \X Leg)
  BY <1>1, <1>3 DEF TypeOK
<1> QED
  BY <1>3, <1>4, <1>7, <1>8, DestroyType, HandleAssumption DEF NtaTypes, MapTypes

\* A failure proxied to A.
LEMMA InviteRejectedStep ==
    ASSUME IInv, NEW orq \in Orq, InviteRejected(orq)
    PROVE IInv'
<1> USE DEF IInv
<1> DEFINE irq == getAssociatedIrq(orq)
<1>1. FinalInviteResponse(orq)
  BY DEF InviteRejected
<1>2. /\ irq \in Irq /\ <<irq, orq>> \in m_transactions
      /\ <<irqLeg[irq], orqLeg[orq]>> \in m_dialogs /\ getCdrInfo(orq) \in Call
  BY <1>1, FoundBridge
<1>3. /\ clearTransaction(orq) /\ clearDialog(orqLeg[orq]) /\ eraseAttempt(orq)
      /\ Destroy({irq}, {orq}, {orqLeg[orq], getAssociatedDialog(orqLeg[orq])})
  BY DEF InviteRejected
<1>4. /\ Consistent'
      /\ NtaTypes'
      /\ MapTypes'
      /\ getAssociatedDialog(orqLeg[orq]) # NULL
  BY <1>2, <1>3, BridgeDropped
<1>5. process' = process
  BY <1>4 DEF InviteRejected, Assert
<1>6. cdrs' \in [Call -> Seq(CdrTypes)]
  <2>1. FinalResponseCdr(orq, "failure") \in CdrTypes
    BY DEF FinalResponseCdr, CdrTypes
  <2> QED
    BY <2>1, <1>2, PostType DEF InviteRejected
<1>7. TypeOK'
  <2>1. FarEndTypes'
    BY LoseType DEF InviteRejected
  <2> QED
    BY <2>1, <1>4, <1>5, <1>6
       DEF InviteRejected, TypeOK, config, NtaTypes, MapTypes, FarEndTypes
<1> QED
  BY <1>4, <1>5, <1>7 DEF LookupsSucceed

\* A crankback whose INVITE cannot be created.
LEMMA InviteCrankbackFailsStep ==
    ASSUME IInv, NEW orq \in Orq, InviteCrankbackFails(orq)
    PROVE IInv'
<1> USE DEF IInv
<1> DEFINE irq == getAssociatedIrq(orq)
<1>1. FinalInviteResponse(orq)
  BY DEF InviteCrankbackFails, CalleeRefuses
<1>2. /\ irq \in Irq /\ <<irq, orq>> \in m_transactions
      /\ <<irqLeg[irq], orqLeg[orq]>> \in m_dialogs /\ getCdrInfo(orq) \in Call
  BY <1>1, FoundBridge
<1>3. /\ clearTransaction(orq) /\ clearDialog(orqLeg[orq]) /\ eraseAttempt(orq)
      /\ Destroy({irq}, {orq}, {orqLeg[orq], getAssociatedDialog(orqLeg[orq])})
  BY DEF InviteCrankbackFails
<1>4. /\ Consistent'
      /\ NtaTypes'
      /\ MapTypes'
      /\ getAssociatedDialog(orqLeg[orq]) # NULL
  BY <1>2, <1>3, BridgeDropped
<1>5. process' = process
  BY <1>4 DEF InviteCrankbackFails, Assert
<1>6. cdrs' \in [Call -> Seq(CdrTypes)]
  <2> DEFINE both == <<"attempt", "attempt">>
  <2>1. both \in Seq(CdrTypes)
    BY DEF CdrTypes
  <2>2. cdrs[getCdrInfo(orq)] \o both \in Seq(CdrTypes)
    BY <2>1, <1>2 DEF TypeOK
  <2> QED
    BY <2>2, <1>2 DEF InviteCrankbackFails, TypeOK
<1>7. TypeOK'
  BY <1>4, <1>5, <1>6 DEF InviteCrankbackFails, TypeOK, config, farEnds, NtaTypes, MapTypes
<1> QED
  BY <1>4, <1>5, <1>7 DEF LookupsSucceed

\* A CANCEL that finds the INVITE and the legs.
LEMMA CancelStep ==
    ASSUME IInv, NEW irq \in Irq, Cancel(irq)
    PROVE IInv'
<1> USE DEF IInv
<1> DEFINE orq == getAssociatedOrq(irq)
           leg == irqLeg[irq]
<1>1. /\ irqState[irq] = "initial" /\ orq # NULL /\ leg # NULL
      /\ clearTransaction(orq) /\ clearDialog(leg) /\ eraseAttempt(orq)
      /\ Destroy({irq}, {orq}, {leg, getAssociatedDialog(leg)})
  BY DEF Cancel
<1>2. orq \in Orq /\ <<irq, orq>> \in m_transactions
  BY <1>1, OrqLookup
<1>3. <<leg, orqLeg[orq]>> \in m_dialogs
  BY <1>1, <1>2 DEF Consistent, BridgeMatchesDialog
<1>4. leg \in Leg
  BY <1>3 DEF TypeOK
<1>5. /\ Consistent'
      /\ NtaTypes'
      /\ MapTypes'
      /\ getAssociatedDialog(leg) # NULL
  BY <1>1, <1>2, <1>3, BridgeDropped
<1>6. process' = process
  BY <1>5 DEF Cancel, Assert
<1>7. cdrs' \in [Call -> Seq(CdrTypes)]
  <2>1. CASE m_mapDialogInfo[leg] # NULL
    <3>1. m_mapDialogInfo[leg].cdr \in Call
      <4>1. m_mapDialogInfo[leg].cdr # NULL
        BY <2>1, <1>3 DEF Consistent, DialogInfoOwner
      <4> QED
        BY <4>1, <2>1, <1>4 DEF TypeOK, SipDialogInfo
    <3>2. postCdr(m_mapDialogInfo[leg].cdr, "cancelled")
      BY <2>1 DEF Cancel
    <3> QED
      BY <3>1, <3>2, PostType DEF CdrTypes
  <2>2. CASE m_mapDialogInfo[leg] = NULL /\ isTermination(orq)
    <3>1. m_mapTerminationAttempts[orq].cdr \in Call
      BY <2>2, <1>2 DEF isTermination, TypeOK, TerminationAttempt
    <3>2. postCdr(m_mapTerminationAttempts[orq].cdr, "attempt")
      BY <2>2 DEF Cancel
    <3> QED
      BY <3>1, <3>2, PostType DEF CdrTypes
  <2>3. CASE m_mapDialogInfo[leg] = NULL /\ ~isTermination(orq)
    BY <2>3 DEF Cancel, TypeOK
  <2> QED
    BY <2>1, <2>2, <2>3
<1>8. TypeOK'
  <2>1. FarEndTypes'
    BY LoseType DEF Cancel
  <2> QED
    BY <2>1, <1>5, <1>6, <1>7 DEF Cancel, TypeOK, config, NtaTypes, MapTypes, FarEndTypes
<1> QED
  BY <1>5, <1>6, <1>8 DEF LookupsSucceed

\* A leg that exists is in a dialog, which clearDialog and Destroy take out.
LEMMA DialogDropped ==
    ASSUME TypeOK, Consistent, NEW leg \in legs,
           clearDialog(leg), Destroy({}, {}, {leg, getAssociatedDialog(leg)}),
           UNCHANGED <<m_transactions, m_mapTerminationAttempts>>
    PROVE /\ Consistent'
          /\ NtaTypes'
          /\ m_dialogs' \in SUBSET (Leg \X Leg)
          /\ m_mapDialogInfo' \in [Leg -> SipDialogInfo \cup {NULL}]
          /\ getAssociatedDialog(leg) \in Leg /\ getAssociatedDialog(leg) # NULL
<1>1. PICK d \in m_dialogs : leg \in {d[1], d[2]}
  BY DEF Consistent, NoLostHandle
<1> DEFINE D == {d}
<1>2. /\ m_dialogs' = m_dialogs \ D
      /\ {leg, getAssociatedDialog(leg)} = Legs(D)
      /\ getAssociatedDialog(leg) \in Leg
      /\ m_mapDialogInfo' \in [Leg -> SipDialogInfo \cup {NULL}]
      /\ \A l \in Leg : IF l \in Legs(D) THEN m_mapDialogInfo'[l] = NULL ELSE SameInfo(l)
  BY <1>1, ClearDialogEffect DEF Consistent
<1> DEFINE P == {}
<1>3. Irqs(P) = {} /\ Orqs(P) = {} /\ P \in SUBSET m_transactions /\ \A p \in P : p[2] # NULL
  BY DEF Irqs, Orqs
<1>4. m_transactions' = m_transactions \ P
  OBVIOUS
<1>5. /\ \A o \in Orq : m_mapTerminationAttempts'[o] =
           IF o \in Orqs(P) THEN NULL ELSE m_mapTerminationAttempts[o]
      /\ Destroy(Irqs(P), Orqs(P), Legs(D)) /\ D \in SUBSET m_dialogs
  BY <1>2, <1>3
<1> HIDE DEF P, D
<1>6. Consistent'
  BY <1>2, <1>3, <1>4, <1>5, DropPreserves
<1>7. m_dialogs' \in SUBSET (Leg \X Leg)
  BY <1>2 DEF TypeOK
<1> QED
  BY <1>2, <1>6, <1>7, DestroyType, HandleAssumption

\* A BYE on either leg.
LEMMA ByeStep ==
    ASSUME IInv, NEW leg \in Leg, Bye(leg)
    PROVE IInv'
<1> USE DEF IInv
<1> DEFINE other == getAssociatedDialog(leg)
           info == OriginationInfo(leg, other)
<1>1. /\ leg \in legs /\ clearDialog(leg) /\ Destroy({}, {}, {leg, other})
      /\ UNCHANGED <<m_transactions, m_mapTerminationAttempts>>
  BY DEF Bye
<1>2. /\ Consistent'
      /\ NtaTypes'
      /\ m_dialogs' \in SUBSET (Leg \X Leg)
      /\ m_mapDialogInfo' \in [Leg -> SipDialogInfo \cup {NULL}]
      /\ other \in Leg /\ other # NULL
  BY <1>1, DialogDropped
<1>3. process' = process
  BY <1>2 DEF Bye, Assert
<1>4. cdrs' \in [Call -> Seq(CdrTypes)]
  <2>1. CASE info = {}
    BY <2>1 DEF Bye, TypeOK
  <2>2. CASE info # {}
    <3> DEFINE l == IF leg \in info THEN leg ELSE other
    <3>1. l \in Leg /\ m_mapDialogInfo[l] # NULL /\ m_mapDialogInfo[l].bOrigination
      BY <2>2, <1>2 DEF OriginationInfo
    <3>2. l \in legs
      BY <3>1 DEF Consistent, NoDanglingHandle
    <3>3. PICK d \in m_dialogs : l \in {d[1], d[2]}
      BY <3>2 DEF Consistent, NoLostHandle
    <3>4. m_mapDialogInfo[l].cdr # NULL
      BY <3>1, <3>3 DEF Consistent, DialogInfoOwner
    <3>5. m_mapDialogInfo[l].cdr \in Call
      BY <3>1, <3>4 DEF TypeOK, SipDialogInfo
    <3>6. postCdr(m_mapDialogInfo[l].cdr, "cleared")
      BY <2>2 DEF Bye
    <3> QED
      BY <3>5, <3>6, PostType DEF CdrTypes
  <2> QED
    BY <2>1, <2>2
<1>5. established' \in [Leg -> BOOLEAN]
  BY DEF Bye, TypeOK
<1>6. TypeOK'
  BY <1>1, <1>2, <1>3, <1>4, <1>5 DEF Bye, TypeOK, config, farEnds, NtaTypes, MapTypes
<1> QED
  BY <1>2, <1>3, <1>6 DEF LookupsSucceed

\* The session timer.
LEMMA SessionRefreshTimerStep ==
    ASSUME IInv, NEW leg \in Leg, SessionRefreshTimer(leg)
    PROVE IInv'
<1> USE DEF IInv
<1> DEFINE other == getAssociatedDialog(leg)
<1>1. /\ m_mapDialogInfo[leg] # NULL /\ clearDialog(leg) /\ Destroy({}, {}, {leg, other})
      /\ UNCHANGED <<m_transactions, m_mapTerminationAttempts>>
  BY DEF SessionRefreshTimer
<1>2. leg \in legs
  BY <1>1 DEF Consistent, NoDanglingHandle
<1>3. /\ Consistent'
      /\ NtaTypes'
      /\ m_dialogs' \in SUBSET (Leg \X Leg)
      /\ m_mapDialogInfo' \in [Leg -> SipDialogInfo \cup {NULL}]
      /\ other # NULL
  BY <1>1, <1>2, DialogDropped
<1>4. process' = process
  BY <1>3 DEF SessionRefreshTimer, Assert
<1>5. TypeOK'
  <2>1. established' \in [Leg -> BOOLEAN]
    BY DEF SessionRefreshTimer, TypeOK
  <2>2. forgotten' \in [Call -> Forgotten]
    BY DEF SessionRefreshTimer, TypeOK, Forgotten
  <2> QED
    BY <2>1, <2>2, <1>1, <1>3, <1>4
       DEF SessionRefreshTimer, TypeOK, config, ledger, NtaTypes, MapTypes
<1> QED
  BY <1>3, <1>4, <1>5 DEF LookupsSucceed

\* A pair that is taken out alone: the legs and their dialog info stay.
LEMMA PairDropped ==
    ASSUME TypeOK, Consistent, NEW irq \in Irq, NEW orq \in Orq,
           <<irq, orq>> \in m_transactions,
           clearTransaction(orq), Destroy({irq}, {orq}, {}),
           \A o \in Orq : m_mapTerminationAttempts'[o] =
                IF o \in {orq} THEN NULL ELSE m_mapTerminationAttempts[o],
           \A l \in Leg : SameInfo(l),
           UNCHANGED m_dialogs
    PROVE /\ Consistent'
          /\ NtaTypes'
          /\ m_transactions' \in SUBSET (Irq \X (Orq \cup {NULL}))
<1> DEFINE P == {<<irq, orq>>}
           D == {}
<1>1. /\ m_transactions' = m_transactions \ P
      /\ Irqs(P) = {irq} /\ Orqs(P) = {orq}
  BY ClearTransactionEffect DEF Consistent
<1>2. P \in SUBSET m_transactions /\ \A p \in P : p[2] # NULL
  BY HandleAssumption
<1>3. /\ Legs(D) = {} /\ D \in SUBSET m_dialogs /\ m_dialogs' = m_dialogs \ D
  BY DEF Legs
<1>4. /\ Destroy(Irqs(P), Orqs(P), Legs(D))
      /\ \A o \in Orq : m_mapTerminationAttempts'[o] =
           IF o \in Orqs(P) THEN NULL ELSE m_mapTerminationAttempts[o]
  BY <1>1, <1>3
<1>5. \A l \in Leg : IF l \in Legs(D) THEN m_mapDialogInfo'[l] = NULL ELSE SameInfo(l)
  BY <1>3
<1> HIDE DEF P, D
<1>6. Consistent'
  BY <1>1, <1>2, <1>3, <1>4, <1>5, DropPreserves
<1>7. m_transactions' \in SUBSET (Irq \X (Orq \cup {NULL}))
  BY <1>1 DEF TypeOK
<1> QED
  BY <1>6, <1>7, DestroyType

\* A 200 to the INVITE.
LEMMA InviteAnsweredStep ==
    ASSUME IInv, NEW orq \in Orq, InviteAnswered(orq)
    PROVE IInv'
<1> USE DEF IInv
<1> DEFINE irq == getAssociatedIrq(orq)
           a_leg == irqLeg[irq]
<1>1. FinalInviteResponse(orq)
  BY DEF InviteAnswered
<1>2. /\ irq \in Irq /\ <<irq, orq>> \in m_transactions
      /\ irqState[irq] \in {"initial", "cancelled"}
      /\ a_leg \in Leg /\ orqLeg[orq] \in Leg /\ getALeg(orq) = a_leg
      /\ getCdrInfo(orq) \in Call
  BY <1>1, FoundBridge
<1>3. /\ clearTransaction(orq) /\ eraseAttempt(orq) /\ Destroy({irq}, {orq}, {})
      /\ UNCHANGED <<process, config, m_nIterationCount, m_dialogs, callType, forgotten>>
      /\ \/ m_mapDialogInfo' = m_mapDialogInfo
         \/ /\ ~isTermination(orq)
            /\ \E created \in BOOLEAN :
                 m_mapDialogInfo' = [m_mapDialogInfo EXCEPT ![a_leg].timerSet = created]
  BY <1>2 DEF InviteAnswered
<1>4. /\ m_mapTerminationAttempts' \in [Orq -> TerminationAttempt \cup {NULL}]
      /\ \A o \in Orq : m_mapTerminationAttempts'[o] =
           IF o \in {orq} THEN NULL ELSE m_mapTerminationAttempts[o]
  BY <1>3, EraseType
<1>5. m_mapDialogInfo' \in [Leg -> SipDialogInfo \cup {NULL}] /\ \A l \in Leg : SameInfo(l)
  <2>1. CASE m_mapDialogInfo' = m_mapDialogInfo
    BY <2>1 DEF SameInfo, TypeOK
  <2>2. CASE /\ ~isTermination(orq)
             /\ \E created \in BOOLEAN :
                  m_mapDialogInfo' = [m_mapDialogInfo EXCEPT ![a_leg].timerSet = created]
    <3>1. PICK created \in BOOLEAN :
            m_mapDialogInfo' = [m_mapDialogInfo EXCEPT ![a_leg].timerSet = created]
      BY <2>2
    <3>2. m_mapDialogInfo[a_leg] \in SipDialogInfo
      <4>1. a_leg # NULL
        BY <1>2, HandleAssumption
      <4>2. m_mapDialogInfo[a_leg] # NULL
        <5>1. AttemptMatchesDialog
          BY Zenon DEF Consistent
        <5> QED
          BY <5>1, <4>1, <2>2, <1>2 DEF AttemptMatchesDialog
      <4>3. m_mapDialogInfo \in [Leg -> SipDialogInfo \cup {NULL}]
        BY Zenon DEF TypeOK
      <4> QED
        BY <4>2, <4>3, <1>2
    <3> DEFINE new == [m_mapDialogInfo[a_leg] EXCEPT !.timerSet = created]
    <3>3. m_mapDialogInfo' = [m_mapDialogInfo EXCEPT ![a_leg] = new]
      BY <3>1
    <3>4. /\ new \in SipDialogInfo
          /\ new.bOrigination = m_mapDialogInfo[a_leg].bOrigination
          /\ new.cdr = m_mapDialogInfo[a_leg].cdr
      BY <3>2 DEF SipDialogInfo
    <3>5. m_mapDialogInfo[a_leg] # NULL
      BY <2>2, <1>2, HandleAssumption DEF Consistent, AttemptMatchesDialog
    <3> HIDE DEF new
    <3>6. m_mapDialogInfo' \in [Leg -> SipDialogInfo \cup {NULL}]
      BY <3>3, <3>4, <1>2 DEF TypeOK
    <3>7. \A l \in Leg \ {a_leg} : m_mapDialogInfo'[l] = m_mapDialogInfo[l]
      BY <3>3 DEF TypeOK
    <3>8. m_mapDialogInfo'[a_leg] = new
      BY <3>3, <1>2 DEF TypeOK
    <3> QED
      BY <3>4, <3>5, <3>6, <3>7, <3>8, NullAssumption DEF SameInfo
  <2> QED
    BY <2>1, <2>2, <1>3
<1>6. /\ Consistent'
      /\ NtaTypes'
      /\ m_transactions' \in SUBSET (Irq \X (Orq \cup {NULL}))
  BY <1>2, <1>3, <1>4, <1>5, PairDropped
<1>7. cdrs' \in [Call -> Seq(CdrTypes)]
  <2>1. FinalResponseCdr(orq, "200") \in CdrTypes
    BY DEF FinalResponseCdr, CdrTypes
  <2> QED
    BY <2>1, <1>2, PostType DEF InviteAnswered
<1>8. established' \in [Leg -> BOOLEAN]
  BY <1>2 DEF InviteAnswered, TypeOK
<1>9. TypeOK'
  BY <1>3, <1>4, <1>5, <1>6, <1>7, <1>8 DEF TypeOK, config, farEnds, NtaTypes, MapTypes
<1> QED
  BY <1>3, <1>6, <1>9 DEF LookupsSucceed

\* A response to a request that was sent on inside a dialog.
LEMMA ResponseInsideDialogStep ==
    ASSUME IInv, NEW orq \in Orq, NEW status, ResponseInsideDialog(orq, status)
    PROVE IInv'
<1> USE DEF IInv
<1> DEFINE irq == getAssociatedIrq(orq)
<1>1. /\ orqMethod[orq] \in InDialogMethods
      /\ clearTransaction(orq) /\ Destroy({irq}, {orq}, {})
      /\ UNCHANGED <<config, m_nIterationCount, m_dialogs, m_mapTerminationAttempts,
                     m_mapDialogInfo, ledger, farEnds>>
  BY DEF ResponseInsideDialog
<1>2. irq # NULL
  BY <1>1, IrqLookup DEF InDialogMethods, Consistent, NoLostHandle
<1>3. irq \in Irq /\ <<irq, orq>> \in m_transactions
  BY <1>2, IrqLookup
<1>4. m_mapTerminationAttempts[orq] = NULL
  BY <1>1 DEF InDialogMethods, Consistent, NoDanglingHandle, isTermination
<1>5. \A o \in Orq : m_mapTerminationAttempts'[o] =
        IF o \in {orq} THEN NULL ELSE m_mapTerminationAttempts[o]
  BY <1>1, <1>4
<1>6. \A l \in Leg : SameInfo(l)
  BY <1>1 DEF SameInfo
<1>7. /\ Consistent'
      /\ NtaTypes'
      /\ m_transactions' \in SUBSET (Irq \X (Orq \cup {NULL}))
  BY <1>1, <1>3, <1>5, <1>6, PairDropped
<1>8. process' \in {process, "1705 leg gone"}
  BY <1>2 DEF ResponseInsideDialog
<1>9. TypeOK'
  BY <1>1, <1>7, <1>8 DEF TypeOK, Aborts, config, farEnds, ledger, NtaTypes, MapTypes
<1> QED
  BY <1>7, <1>8, <1>9 DEF LookupsSucceed

\* What ReplaceBLeg leaves is of the right types.
LEMMA ReplaceType ==
    ASSUME TypeOK, Consistent, NEW orq \in Orq, FinalInviteResponse(orq),
           isTermination(orq), NEW t \in TerminationAttempt, ReplaceBLeg(orq, t)
    PROVE /\ NtaTypes'
          /\ MapTypes'
          /\ m_mapDialogInfo[orqLeg[orq]] # NULL
<1> DEFINE irq == getAssociatedIrq(orq)
           a == irqLeg[irq]
           b == orqLeg[orq]
           o2 == New(FreeOrqs)
           b2 == New(FreeLegs)
<1>1. irq \in Irq /\ a \in Leg /\ b \in Leg
  BY FoundBridge
<1>2. /\ o2 \in FreeOrqs /\ b2 \in FreeLegs
      /\ m_transactions' = (m_transactions \ {<<irq, orq>>}) \cup {<<irq, o2>>}
      /\ m_dialogs' = (m_dialogs \ {<<a, b>>}) \cup {<<a, b2>>}
      /\ m_mapDialogInfo[b] # NULL
      /\ m_mapDialogInfo' = [m_mapDialogInfo EXCEPT ![b2] = m_mapDialogInfo[b], ![b] = NULL]
      /\ m_mapTerminationAttempts' =
           [m_mapTerminationAttempts EXCEPT ![orq] = NULL, ![o2] = t]
  BY ReplaceEffect
<1>3. o2 \in Orq /\ b2 \in Leg
  BY <1>2 DEF FreeOrqs, FreeLegs
<1>4. NtaTypes'
  BY <1>3 DEF ReplaceBLeg, TypeOK, OrqMethods, NtaTypes, MapTypes
<1> HIDE DEF irq, a, b, o2, b2
<1>5. m_transactions' \in SUBSET (Irq \X (Orq \cup {NULL})) /\ m_dialogs' \in SUBSET (Leg \X Leg)
  BY <1>1, <1>2, <1>3 DEF TypeOK
<1>6. m_mapTerminationAttempts' \in [Orq -> TerminationAttempt \cup {NULL}]
  BY <1>2, <1>3 DEF TypeOK
<1>7. m_mapDialogInfo' \in [Leg -> SipDialogInfo \cup {NULL}]
  BY <1>1, <1>2, <1>3 DEF TypeOK
<1> QED
  BY <1>2, <1>4, <1>5, <1>6, <1>7 DEF b, NtaTypes, MapTypes

\* A redirect.
LEMMA InviteRedirectedStep ==
    ASSUME IInv, NEW orq \in Orq, InviteRedirected(orq)
    PROVE IInv'
<1> USE DEF IInv
<1> DEFINE t == m_mapTerminationAttempts[orq]
<1>1. /\ FinalInviteResponse(orq) /\ isTermination(orq) /\ ReplaceBLeg(orq, t)
      /\ UNCHANGED <<config, m_nIterationCount, ledger, farEnds>>
      /\ Assert(m_mapDialogInfo[orqLeg[orq]] # NULL, "1853 no dialog info")
  BY DEF InviteRedirected, CalleeRefuses
<1>2. t \in TerminationAttempt
  BY <1>1 DEF isTermination, TypeOK
<1> HIDE DEF t
<1>3. Consistent'
  BY <1>1, <1>2, ReplacePreserves
<1>4. /\ NtaTypes'
      /\ MapTypes'
      /\ m_mapDialogInfo[orqLeg[orq]] # NULL
  BY <1>1, <1>2, ReplaceType
<1>5. process' = process
  BY <1>1, <1>4 DEF Assert
<1>6. TypeOK'
  BY <1>1, <1>4, <1>5 DEF TypeOK, config, farEnds, ledger, NtaTypes, MapTypes
<1> QED
  BY <1>3, <1>5, <1>6 DEF LookupsSucceed

\* A crankback: the guard on nAttempt keeps the count within an unsigned int.
LEMMA InviteCrankedBackStep ==
    ASSUME IInv, NEW orq \in Orq, InviteCrankedBack(orq)
    PROVE IInv'
<1> USE DEF IInv
<1> DEFINE t == m_mapTerminationAttempts[orq]
           t2 == [t EXCEPT !.nAttemptCount = @ + 1]
<1>1. /\ FinalInviteResponse(orq) /\ isTermination(orq) /\ ReplaceBLeg(orq, t2)
      /\ MayCrankback(orq) /\ postCdr(t.cdr, "attempt")
      /\ UNCHANGED <<config, m_nIterationCount, callType, farEnds>>
      /\ Assert(m_mapDialogInfo[orqLeg[orq]] # NULL, "1853 no dialog info")
  BY DEF InviteCrankedBack, CalleeRefuses
<1>2. t \in TerminationAttempt
  BY <1>1 DEF isTermination, TypeOK
<1>3. t.nAttemptCount + 1 \in 0..UIntMax
  <2>1. RetryLimit \in 0..UIntMax
    <3>1. m_nTerminationRetries \in 0..UIntMax /\ UIntMax \in Nat
      BY NumberAssumption DEF TypeOK
    <3> QED
      BY <3>1 DEF RetryLimit
  <2>2. t.nAttemptCount \in 0..UIntMax /\ t.nAttemptCount < RetryLimit
    BY <1>1, <1>2 DEF MayCrankback, TerminationAttempt
  <2> QED
    BY <2>1, <2>2, NumberAssumption
<1>4. t2 \in TerminationAttempt
  BY <1>2, <1>3 DEF TerminationAttempt
<1>5. cdrs' \in [Call -> Seq(CdrTypes)]
  BY <1>1, <1>2, PostType DEF TerminationAttempt, CdrTypes
<1> HIDE DEF t, t2
<1>6. Consistent'
  BY <1>1, <1>4, ReplacePreserves
<1>7. /\ NtaTypes'
      /\ MapTypes'
      /\ m_mapDialogInfo[orqLeg[orq]] # NULL
  BY <1>1, <1>4, ReplaceType
<1>8. process' = process
  BY <1>1, <1>7 DEF Assert
<1>9. TypeOK'
  BY <1>1, <1>5, <1>7, <1>8 DEF TypeOK, config, farEnds, NtaTypes, MapTypes
<1> QED
  BY <1>6, <1>8, <1>9 DEF LookupsSucceed

\* A CANCEL that comes too late.
LEMMA CancelTooLateStep ==
    ASSUME IInv, NEW irq \in Irq, CancelTooLate(irq)
    PROVE IInv'
<1> USE DEF IInv
<1>1. Consistent'
  BY CancelTooLatePreserves
<1>2. /\ irqState' = [irqState EXCEPT ![irq] = "cancelled"]
      /\ UNCHANGED <<legs, irqLeg, orqLeg, m_dialogs, m_mapDialogInfo>>
  BY CancelTooLateEffect
<1>3. UNCHANGED <<process, config, m_nIterationCount, orqMethod, m_transactions,
                  m_mapTerminationAttempts, ledger, farEnds>>
  BY DEF CancelTooLate
<1>4. TypeOK'
  BY <1>2, <1>3 DEF TypeOK, IrqStates, config, farEnds, ledger
<1> QED
  BY <1>1, <1>3, <1>4 DEF LookupsSucceed

\* A request sent on inside a dialog, and one that could not be created.
LEMMA ForwardRequestStep ==
    ASSUME IInv, NEW leg \in Leg, NEW method \in InDialogMethods,
           ForwardRequest(leg, method) \/ ForwardRequestFails(leg)
    PROVE IInv'
<1> USE DEF IInv
<1> DEFINE irq == New(FreeIrqs)
           other == getAssociatedDialog(leg)
<1>1. leg \in legs /\ FreeIrqs # {} /\ irqState' = [irqState EXCEPT ![irq] = "inDialog"]
  BY DEF ForwardRequest, ForwardRequestFails
<1>2. irq \in FreeIrqs
  BY <1>1, NewIsFree
<1>3. other \in Leg /\ other # NULL
  <2>1. PICK d \in m_dialogs : leg \in {d[1], d[2]}
    BY <1>1 DEF Consistent, NoLostHandle
  <2> QED
    BY <2>1, DialogLookup, HandleAssumption DEF Consistent
<1>4. irq \in Irq /\ irqState' \in [Irq -> IrqStates]
  BY <1>1, <1>2 DEF FreeIrqs, TypeOK, IrqStates
<1>5. CASE ForwardRequest(leg, method)
  <2> DEFINE orq == New(FreeOrqs)
  <2>1. /\ FreeOrqs # {} /\ addTransactions(irq, orq)
        /\ orqMethod' = [orqMethod EXCEPT ![orq] = method]
        /\ orqLeg' = [orqLeg EXCEPT ![orq] = other]
        /\ UNCHANGED <<config, m_nIterationCount, legs, irqLeg, m_dialogs,
                       m_mapTerminationAttempts, m_mapDialogInfo, ledger, farEnds>>
        /\ process' = process
    BY <1>3, <1>5 DEF ForwardRequest, Assert
  <2>2. orq \in FreeOrqs /\ orq \in Orq
    BY <2>1, NewIsFree DEF FreeOrqs
  <2> HIDE DEF orq, irq, other
  <2>3. /\ \A o \in Orq : o # orq => orqMethod'[o] = orqMethod[o] /\ orqLeg'[o] = orqLeg[o]
        /\ orqMethod'[orq] \in InDialogMethods
    BY <2>1, <2>2 DEF TypeOK
  <2>4. Consistent'
    BY <1>1, <1>2, <2>1, <2>2, <2>3, ForwardPreserves
  <2>5. m_transactions' \in SUBSET (Irq \X (Orq \cup {NULL}))
    BY <1>4, <2>1, <2>2 DEF addTransactions, Insert, TypeOK
  <2>6. orqMethod' \in [Orq -> OrqMethods] /\ orqLeg' \in [Orq -> Leg \cup {NULL}]
    BY <1>3, <2>1 DEF TypeOK, OrqMethods
  <2>7. TypeOK'
    BY <1>4, <2>1, <2>5, <2>6 DEF TypeOK, config, farEnds, ledger
  <2> QED
    BY <2>1, <2>4, <2>7 DEF LookupsSucceed
<1>6. CASE ForwardRequestFails(leg)
  <2>1. /\ addTransactions(irq, NULL)
        /\ UNCHANGED <<config, m_nIterationCount, legs, irqLeg, orqMethod, orqLeg,
                       m_dialogs, m_mapTerminationAttempts, m_mapDialogInfo, ledger,
                       farEnds>>
        /\ process' = process
    BY <1>3, <1>6 DEF ForwardRequestFails, Assert
  <2> HIDE DEF irq, other
  <2>2. Consistent'
    BY <1>1, <1>2, <2>1, ForwardPreserves
  <2>3. m_transactions' \in SUBSET (Irq \X (Orq \cup {NULL}))
    BY <1>4, <2>1 DEF addTransactions, Insert, TypeOK
  <2>4. TypeOK'
    BY <1>4, <2>1, <2>3 DEF TypeOK, config, farEnds, ledger
  <2> QED
    BY <2>1, <2>2, <2>4 DEF LookupsSucceed
<1> QED
  BY <1>5, <1>6

\* The call an INVITE offers is a fresh one.
LEMMA OfferType ==
    ASSUME TypeOK, NEW type \in {"origination", "termination"}, Offer(type)
    PROVE /\ OfferedCall \in Call
          /\ callType' \in [Call -> {"none", "origination", "termination"}]
<1>1. OfferedCall \in {c \in Call : callType[c] = "none"}
  BY NewIsFree DEF Offer, OfferedCall
<1> QED
  BY <1>1 DEF Offer, TypeOK

\* Counting an iteration keeps the counter's type.
LEMMA CountType ==
    ASSUME TypeOK, CountIteration
    PROVE m_nIterationCount' \in Nat \cup {-1}
BY DEF TypeOK, CountIteration

\* An INVITE that is answered at once.
LEMMA RefusalStep ==
    ASSUME IInv, RejectInvite \/ FailOrigination \/ FailTermination
    PROVE IInv'
<1> USE DEF IInv
<1>1. UNCHANGED <<process, config, nta, maps, farEnds>>
  BY DEF RejectInvite, FailOrigination, FailTermination
<1>2. PICK type \in {"origination", "termination"} : Offer(type)
  BY DEF RejectInvite, FailOrigination, FailTermination
<1>3. OfferedCall \in Call /\ callType' \in [Call -> {"none", "origination", "termination"}]
  BY <1>2, OfferType
<1>4. cdrs' = cdrs \/ postCdr(OfferedCall, "rejected")
  BY DEF RejectInvite, FailOrigination, FailTermination
<1>5. cdrs' \in [Call -> Seq(CdrTypes)]
  BY <1>3, <1>4, PostType DEF TypeOK, CdrTypes
<1>6. m_nIterationCount' = m_nIterationCount \/ CountIteration
  BY DEF RejectInvite, FailOrigination, FailTermination
<1>7. m_nIterationCount' \in Nat \cup {-1}
  BY <1>6, CountType DEF TypeOK
<1>8. Consistent'
  BY <1>1, MapsUnchanged
<1>9. TypeOK'
  BY <1>1, <1>3, <1>5, <1>7 DEF TypeOK, config, farEnds, nta, maps
<1> QED
  BY <1>1, <1>8, <1>9 DEF LookupsSucceed

\* A bridge on fresh handles is of the right types.
LEMMA BridgeType ==
    ASSUME TypeOK, NEW irq \in Irq, NEW orq \in Orq, NEW a \in Leg, NEW b \in Leg,
           Bridge(irq, orq, a, b)
    PROVE /\ NtaTypes'
          /\ m_transactions' \in SUBSET (Irq \X (Orq \cup {NULL}))
          /\ m_dialogs' \in SUBSET (Leg \X Leg)
<1>1. NtaTypes'
  BY DEF Bridge, TypeOK, IrqStates, OrqMethods, NtaTypes, MapTypes
<1>2. m_transactions' \in SUBSET (Irq \X (Orq \cup {NULL}))
  BY DEF Bridge, addTransactions, Insert, TypeOK
<1>3. m_dialogs' \in SUBSET (Leg \X Leg)
  BY DEF Bridge, addDialogs, Insert, TypeOK
<1> QED
  BY <1>1, <1>2, <1>3

\* The handles of a new bridge are free, and no map has an entry for them.
LEMMA FreshHandles ==
    ASSUME TypeOK, Consistent, FreeIrqs # {}, BridgePossible
    PROVE LET a == New(FreeLegs)
              b == New(FreeLegs \ {a})
              o == New(FreeOrqs)
          IN /\ New(FreeIrqs) \in FreeIrqs /\ New(FreeIrqs) \in Irq
             /\ o \in FreeOrqs /\ o \in Orq /\ m_mapTerminationAttempts[o] = NULL
             /\ a \in FreeLegs /\ a \in Leg /\ m_mapDialogInfo[a] = NULL
             /\ b \in FreeLegs /\ b \in Leg /\ m_mapDialogInfo[b] = NULL
             /\ a # b
<1> DEFINE a == New(FreeLegs)
           b == New(FreeLegs \ {a})
           o == New(FreeOrqs)
<1>1. New(FreeIrqs) \in FreeIrqs /\ o \in FreeOrqs /\ a \in FreeLegs
  BY NewIsFree DEF BridgePossible
<1>2. FreeLegs \ {a} # {}
  BY DEF BridgePossible
<1>3. b \in FreeLegs \ {a}
  BY <1>2, NewIsFree
<1> HIDE DEF a, b, o
<1>4. m_mapTerminationAttempts[o] = NULL
  BY <1>1 DEF FreeOrqs, Consistent, NoDanglingHandle, isTermination
<1>5. m_mapDialogInfo[a] = NULL /\ m_mapDialogInfo[b] = NULL
  BY <1>1, <1>3 DEF FreeLegs, Consistent, NoDanglingHandle
<1>6. New(FreeIrqs) \in Irq /\ o \in Orq /\ a \in Leg /\ b \in Leg
  BY <1>1, <1>3 DEF FreeIrqs, FreeOrqs, FreeLegs
<1> QED
  BY <1>1, <1>3, <1>4, <1>5, <1>6 DEF a, b, o

\* A new origination.
LEMMA OriginationStep ==
    ASSUME IInv, processOriginationRequest
    PROVE IInv'
<1> USE DEF IInv
<1> DEFINE a == New(FreeLegs)
           b == New(FreeLegs \ {a})
           orq == New(FreeOrqs)
           irq == New(FreeIrqs)
<1>1. /\ Offer("origination") /\ BridgePossible /\ CountIteration
      /\ Bridge(irq, orq, a, b) /\ postCdr(OfferedCall, "request")
      /\ UNCHANGED <<process, config, m_mapTerminationAttempts, farEnds>>
  BY DEF processOriginationRequest
<1>2. PICK info : /\ info \in [bOrigination: {TRUE}, nSessionTimer: BOOLEAN,
                               timerSet: {FALSE}, cdr: {OfferedCall}]
                  /\ m_mapDialogInfo' = MapInsert(m_mapDialogInfo, a, info)
  <2>1. PICK timer \in BOOLEAN : m_mapDialogInfo' = MapInsert(m_mapDialogInfo, a,
          [bOrigination |-> TRUE, nSessionTimer |-> timer,
           timerSet |-> FALSE, cdr |-> OfferedCall])
    BY DEF processOriginationRequest
  <2> QED
    BY <2>1
<1>3. /\ irq \in FreeIrqs /\ irq \in Irq
      /\ orq \in FreeOrqs /\ orq \in Orq /\ m_mapTerminationAttempts[orq] = NULL
      /\ a \in FreeLegs /\ a \in Leg /\ m_mapDialogInfo[a] = NULL
      /\ b \in FreeLegs /\ b \in Leg /\ m_mapDialogInfo[b] = NULL
      /\ a # b
  BY <1>1, FreshHandles DEF Offer
<1> HIDE DEF a, b, orq, irq
<1>4. OfferedCall \in Call /\ callType' \in [Call -> {"none", "origination", "termination"}]
  BY <1>1, OfferType
<1>5. /\ info \in SipDialogInfo /\ info.bOrigination /\ info.cdr # NULL /\ info # NULL
  <2>1. info \in SipDialogInfo /\ info.bOrigination /\ info.cdr = OfferedCall
    BY <1>2, <1>4 DEF SipDialogInfo
  <2> QED
    BY <2>1, <1>4, NullAssumption, HandleAssumption
<1>6. m_mapDialogInfo' = [m_mapDialogInfo EXCEPT ![a] = info]
  BY <1>2, <1>3 DEF MapInsert
<1>7. /\ m_mapDialogInfo' \in [Leg -> SipDialogInfo \cup {NULL}]
      /\ m_mapDialogInfo'[a] = info /\ m_mapDialogInfo'[b] = NULL
      /\ \A l \in Leg \ {a, b} : m_mapDialogInfo'[l] = m_mapDialogInfo[l]
  BY <1>3, <1>5, <1>6 DEF TypeOK
<1>8. Consistent'
  BY <1>1, <1>3, <1>5, <1>7, BridgePreserves
<1>9. /\ NtaTypes'
      /\ m_transactions' \in SUBSET (Irq \X (Orq \cup {NULL}))
      /\ m_dialogs' \in SUBSET (Leg \X Leg)
  BY <1>1, <1>3, BridgeType
<1>10. m_nIterationCount' \in Nat \cup {-1} /\ cdrs' \in [Call -> Seq(CdrTypes)]
  BY <1>1, <1>4, CountType, PostType DEF CdrTypes
<1>11. TypeOK'
  BY <1>1, <1>4, <1>7, <1>9, <1>10 DEF TypeOK, config, farEnds, NtaTypes, MapTypes
<1> QED
  BY <1>1, <1>8, <1>11 DEF LookupsSucceed

\* A new termination.
LEMMA TerminationStep ==
    ASSUME IInv, processTerminationRequest
    PROVE IInv'
<1> USE DEF IInv
<1> DEFINE a == New(FreeLegs)
           b == New(FreeLegs \ {a})
           orq == New(FreeOrqs)
           irq == New(FreeIrqs)
           t == [nAttemptCount |-> 0, cdr |-> OfferedCall]
           info == [bOrigination |-> FALSE, nSessionTimer |-> FALSE,
                    timerSet |-> FALSE, cdr |-> NULL]
<1>1. /\ Offer("termination") /\ BridgePossible /\ CountIteration
      /\ Bridge(irq, orq, a, b)
      /\ m_mapTerminationAttempts' = MapInsert(m_mapTerminationAttempts, orq, t)
      /\ m_mapDialogInfo' = MapInsert(m_mapDialogInfo, b, info)
      /\ UNCHANGED <<process, config, cdrs, farEnds>>
  BY DEF processTerminationRequest
<1>2. /\ irq \in FreeIrqs /\ irq \in Irq
      /\ orq \in FreeOrqs /\ orq \in Orq /\ m_mapTerminationAttempts[orq] = NULL
      /\ a \in FreeLegs /\ a \in Leg /\ m_mapDialogInfo[a] = NULL
      /\ b \in FreeLegs /\ b \in Leg /\ m_mapDialogInfo[b] = NULL
      /\ a # b
  BY <1>1, FreshHandles DEF Offer
<1>3. OfferedCall \in Call /\ callType' \in [Call -> {"none", "origination", "termination"}]
  BY <1>1, OfferType
<1>4. t \in TerminationAttempt /\ t # NULL
  BY <1>3, NumberAssumption, NullAssumption DEF TerminationAttempt
<1>5. info \in SipDialogInfo /\ ~ info.bOrigination /\ info # NULL
  <2>1. info \in SipDialogInfo
    BY DEF SipDialogInfo
  <2>2. ~ info.bOrigination
    OBVIOUS
  <2> QED
    BY <2>1, <2>2, NullAssumption
<1> HIDE DEF a, b, orq, irq, t, info
<1>6. /\ m_mapTerminationAttempts' = [m_mapTerminationAttempts EXCEPT ![orq] = t]
      /\ m_mapDialogInfo' = [m_mapDialogInfo EXCEPT ![b] = info]
  BY <1>1, <1>2 DEF MapInsert
<1>7. /\ m_mapDialogInfo' \in [Leg -> SipDialogInfo \cup {NULL}]
      /\ m_mapDialogInfo'[b] = info /\ m_mapDialogInfo'[a] = NULL
      /\ \A l \in Leg \ {a, b} : m_mapDialogInfo'[l] = m_mapDialogInfo[l]
  BY <1>2, <1>5, <1>6 DEF TypeOK
<1>8. /\ m_mapTerminationAttempts' \in [Orq -> TerminationAttempt \cup {NULL}]
      /\ m_mapTerminationAttempts'[orq] = t
      /\ \A o \in Orq \ {orq} : m_mapTerminationAttempts'[o] = m_mapTerminationAttempts[o]
  BY <1>2, <1>4, <1>6 DEF TypeOK
<1>9. Consistent'
  BY <1>1, <1>2, <1>4, <1>5, <1>7, <1>8, BridgePreserves
<1>10. /\ NtaTypes'
       /\ m_transactions' \in SUBSET (Irq \X (Orq \cup {NULL}))
       /\ m_dialogs' \in SUBSET (Leg \X Leg)
  BY <1>1, <1>2, BridgeType
<1>11. m_nIterationCount' \in Nat \cup {-1}
  BY <1>1, CountType
<1>12. TypeOK'
  BY <1>1, <1>3, <1>7, <1>8, <1>10, <1>11 DEF TypeOK, config, farEnds, NtaTypes, MapTypes
<1> QED
  BY <1>1, <1>9, <1>12 DEF LookupsSucceed

\* The steps that leave every handle and every map alone.
LEMMA QuietStep ==
    ASSUME IInv, ShutDown \/ InstallConfig \/ (\E i \in Irq : TimerH(i)) \/ UNCHANGED vars
    PROVE IInv'
<1> USE DEF IInv
<1>1. UNCHANGED <<m_nIterationCount, nta, maps, ledger, farEnds>>
  BY DEF ShutDown, InstallConfig, TimerH, Abort, vars
<1>2. process' \in {process, "stopped", "1549 null sip"}
  BY DEF ShutDown, InstallConfig, TimerH, Abort, vars
<1>3. active' \in BOOLEAN /\ m_nTerminationRetries' \in Retries
  BY DEF ShutDown, InstallConfig, TimerH, Abort, vars, config, farEnds, TypeOK
<1>4. Consistent'
  BY <1>1, MapsUnchanged
<1>5. TypeOK'
  BY <1>1, <1>2, <1>3 DEF TypeOK, Aborts, nta, maps, ledger, farEnds
<1> QED
  BY <1>2, <1>4, <1>5 DEF LookupsSucceed

\* A callee's 200 is sent, or comes when nothing waits for it any more: the controller's
\* state stays as it is.
FarEndAction ==
    \/ \E o \in Orq : CalleeAnswers(o)
    \/ \E c \in Call : processRetransmittedResponse(c)

LEMMA FarEndStep ==
    ASSUME IInv, FarEndAction
    PROVE IInv' /\ UNCHANGED <<process, config, m_nIterationCount, nta, maps, ledger>>
<1> USE DEF IInv
<1>1. UNCHANGED <<process, config, m_nIterationCount, nta, maps, ledger>>
  BY DEF FarEndAction, CalleeAnswers, processRetransmittedResponse
<1>2. FarEndTypes'
  BY DEF FarEndAction, CalleeAnswers, processRetransmittedResponse, TypeOK, FarEndTypes,
         Forgotten
<1>3. Consistent'
  BY <1>1, MapsUnchanged
<1>4. TypeOK'
  BY <1>1, <1>2 DEF TypeOK, config, nta, maps, ledger, FarEndTypes
<1> QED
  BY <1>1, <1>3, <1>4 DEF LookupsSucceed

-----------------------------------------------------------------------------
(* The theorems *)

\* The process starts with every map empty and nothing alive.
LEMMA InitInvariant == Init => IInv
<1> SUFFICES ASSUME Init PROVE IInv
  OBVIOUS
<1>1. TypeOK
  BY NumberAssumption DEF Init, TypeOK, IrqStates, OrqMethods, Forgotten
<1>2. Consistent
  BY DEF Init, Consistent, NoDanglingHandle, NoLostHandle, OneToOne, InvitesPaired,
         BridgeMatchesDialog, DialogInfoOwner, AttemptMatchesDialog, isTermination
<1> QED
  BY <1>1, <1>2 DEF Init, IInv, LookupsSucceed

\* Every handler, and every step of nta, preserves the invariant.
LEMMA StepInvariant == IInv /\ [Next]_vars => IInv'
<1> SUFFICES ASSUME IInv, [Next]_vars PROVE IInv'
  OBVIOUS
<1>1. CASE NewCall
  BY <1>1, RefusalStep, OriginationStep, TerminationStep DEF NewCall
<1>2. CASE \E o \in Orq : InviteResponse(o)
  BY <1>2, InviteResponseUnexpectedStep, InviteAnsweredStep, InviteRedirectedStep,
     InviteCrankedBackStep, InviteRejectedStep, InviteCrankbackFailsStep DEF InviteResponse
<1>3. CASE \E o \in Orq, s \in {"200", "failure"} : ResponseInsideDialog(o, s)
  BY <1>3, ResponseInsideDialogStep
<1>4. CASE \E i \in Irq : CallerStep(i)
  BY <1>4, CancelTooLateStep, CancelStep, QuietStep DEF CallerStep
<1>5. CASE \E l \in Leg : RequestInsideDialog(l) \/ SessionRefreshTimer(l)
  BY <1>5, ByeStep, ForwardRequestStep, SessionRefreshTimerStep
     DEF RequestInsideDialog, InDialogMethods
<1>6. CASE ShutDown \/ InstallConfig \/ UNCHANGED vars
  BY <1>6, QuietStep
<1>7. CASE FarEndAction
  BY <1>7, FarEndStep
<1> QED
  BY <1>1, <1>2, <1>3, <1>4, <1>5, <1>6, <1>7 DEF Next, FarEndAction

\* The invariant holds throughout.
THEOREM Invariance == Spec => []IInv
<1>1. Init => IInv
  BY InitInvariant
<1>2. IInv /\ [Next]_vars => IInv'
  BY StepInvariant
<1> QED
  BY <1>1, <1>2, PTL DEF Spec

\* The variables keep their types: no handler computes with a NULL leg or an attempt
\* count beyond an unsigned int.
THEOREM TypeCorrect == Spec => []TypeOK
<1>1. IInv => TypeOK
  BY DEF IInv
<1> QED
  BY <1>1, Invariance, PTL

\* At every return to the event loop the controller's four maps agree with each other
\* and with the handles nta holds, for any number of calls, legs and transactions.
THEOREM MapsConsistent == Spec => []Consistent
<1>1. IInv => Consistent
  BY DEF IInv
<1> QED
  BY <1>1, Invariance, PTL

\* The assertions at lines 1337, 1350, 1368, 1603, 1681, 1736, 1836 and 1853 never fail.
THEOREM AssertionsHold == Spec => []LookupsSucceed
<1>1. IInv => LookupsSucceed
  BY DEF IInv
<1> QED
  BY <1>1, Invariance, PTL

-----------------------------------------------------------------------------
(***************************************************************************)
(* What the records and the sessions owe to this bookkeeping: every        *)
(* attempt and every origination has its CDRs, and no far end is left in a *)
(* session that the controller has forgotten.                              *)
(***************************************************************************)

\* The A legs whose INVITE has had no final response.
Unanswered == {l \in Leg : \E i \in Irq : irqState[i] = "initial" /\ irqLeg[i] = l}

\* The CDRs of an origination the controller still keeps, and of one it is done with.
KeptLedgers == {<<"request">>, <<"request", "answered">>}
ClosedLedgers == {<<"rejected">>, <<"request", "failed">>, <<"request", "cancelled">>,
                  <<"request", "cleared">>, <<"request", "answered", "cleared">>}

\* The CdrInfo of a call is new when the call is offered.
OfferedUnrecorded == \A c \in Call : callType[c] = "none" => cdrs[c] = <<>>

\* An attempt has the CdrInfo of a termination to itself.
AttemptOwnsCdr ==
    \A o \in Orq : isTermination(o) =>
        /\ callType[m_mapTerminationAttempts[o].cdr] = "termination"
        /\ \A p \in Orq : isTermination(p) /\ m_mapTerminationAttempts[p].cdr
                                               = m_mapTerminationAttempts[o].cdr => p = o

\* The dialog info with a CdrInfo is an origination's, which has it to itself.
InfoOwnsCdr ==
    \A l \in Leg : m_mapDialogInfo[l] # NULL =>
        /\ m_mapDialogInfo[l].bOrigination <=> m_mapDialogInfo[l].cdr # NULL
        /\ m_mapDialogInfo[l].cdr # NULL =>
             /\ callType[m_mapDialogInfo[l].cdr] = "origination"
             /\ \A k \in Leg : m_mapDialogInfo[k] # NULL /\ m_mapDialogInfo[k].cdr
                                                = m_mapDialogInfo[l].cdr => k = l

\* The CDRs of a dialog that is kept are open, and say "answered" only after the
\* final response has been proxied.
KeptIsOpen ==
    \A l \in Leg : m_mapDialogInfo[l] # NULL /\ m_mapDialogInfo[l].cdr # NULL =>
        /\ cdrs[m_mapDialogInfo[l].cdr] \in KeptLedgers
        /\ l \in Unanswered => cdrs[m_mapDialogInfo[l].cdr] = <<"request">>

\* The CDRs of an origination, kept or closed.
LedgerShape ==
    \A c \in Call : callType[c] = "origination" =>
        cdrs[c] \in KeptLedgers \cup ClosedLedgers

\* An INVITE that was cancelled too late has lost its leg.
CancelledForgotten ==
    \A i \in Irq : irqState[i] = "cancelled" => irqLeg[i] = NULL

LedgerInv ==
    /\ OfferedUnrecorded
    /\ AttemptOwnsCdr
    /\ CdrPerAttempt
    /\ InfoOwnsCdr
    /\ KeptIsOpen
    /\ LedgerShape
    /\ CancelledForgotten

\* Without session timers no timer is ever armed.
NoTimers ==
    \A l \in Leg : m_mapDialogInfo[l] # NULL =>
        ~ m_mapDialogInfo[l].nSessionTimer /\ ~ m_mapDialogInfo[l].timerSet

\* An origination whose CDRs are open is kept.
OpenIsKept ==
    \A c \in Call : callType[c] = "origination" /\ cdrs[c] \in KeptLedgers =>
        \E l \in Leg : m_mapDialogInfo[l] # NULL /\ m_mapDialogInfo[l].cdr = c

\* A caller whose INVITE has had no final response has no session.
NotYetUp ==
    \A d \in m_dialogs : d[1] \in Unanswered => ~ established[d[1]]

\* What is forgotten is of a call that was offered and, if it is an origination, given up.
ForgottenOfKnown ==
    \A c \in Call : forgotten[c] # "nothing" =>
        callType[c] # "none" /\ (callType[c] = "origination" => GivenUp(c))

SessionInv ==
    /\ NoTimers
    /\ OpenIsKept
    /\ SessionHasLeg
    /\ NotYetUp
    /\ ForgottenOfKnown

\* processWatchdogTimer stops with no dialog left.
StoppedEmpty == process = "stopped" => m_dialogs = {}

-----------------------------------------------------------------------------
(* The sequences of CDRs *)

\* Appending to a sequence that is written out.
LEMMA AppendSecond == ASSUME NEW x, NEW y PROVE Append(<<x>>, y) = <<x, y>>
<1> DEFINE s == Append(<<x>>, y)
           t == <<x, y>>
<1>1. s \in Seq({x, y}) /\ t \in Seq({x, y}) /\ Len(s) = 2 /\ Len(t) = 2
  OBVIOUS
<1>2. s[1] = x /\ s[2] = y /\ t[1] = x /\ t[2] = y
  OBVIOUS
<1> HIDE DEF s, t
<1>3. s = t
  BY <1>1, <1>2, SeqEqual
<1> QED
  BY <1>3 DEF s, t

LEMMA AppendThird == ASSUME NEW x, NEW y, NEW z PROVE Append(<<x, y>>, z) = <<x, y, z>>
<1> DEFINE s == Append(<<x, y>>, z)
           t == <<x, y, z>>
<1>1. s \in Seq({x, y, z}) /\ t \in Seq({x, y, z}) /\ Len(s) = 3 /\ Len(t) = 3
  OBVIOUS
<1>2. s[1] = x /\ s[2] = y /\ s[3] = z /\ t[1] = x /\ t[2] = y /\ t[3] = z
  OBVIOUS
<1> HIDE DEF s, t
<1>3. s = t
  BY <1>1, <1>2, SeqEqual
<1> QED
  BY <1>3 DEF s, t

\* What the handlers append takes a ledger from open to answered or closed, and the
\* last CDR tells an open ledger from a closed one.
LEMMA LedgerSequences ==
    /\ Append(<<>>, "rejected") \in ClosedLedgers
    /\ Append(<<>>, "request") = <<"request">>
    /\ <<"request">> \in KeptLedgers
    /\ Append(<<"request">>, "answered") \in KeptLedgers
    /\ Append(<<"request">>, "failed") \in ClosedLedgers
    /\ Append(<<"request">>, "cancelled") \in ClosedLedgers
    /\ \A s \in KeptLedgers : Append(s, "cleared") \in ClosedLedgers
    /\ \A s \in KeptLedgers : s[Len(s)] \in Open
    /\ \A s \in ClosedLedgers : s[Len(s)] \notin Open
<1>1. /\ Append(<<>>, "rejected") = <<"rejected">>
      /\ Append(<<>>, "request") = <<"request">>
  OBVIOUS
<1>2. /\ Append(<<"request">>, "answered") = <<"request", "answered">>
      /\ Append(<<"request">>, "failed") = <<"request", "failed">>
      /\ Append(<<"request">>, "cancelled") = <<"request", "cancelled">>
      /\ Append(<<"request">>, "cleared") = <<"request", "cleared">>
  BY AppendSecond
<1>3. Append(<<"request", "answered">>, "cleared") = <<"request", "answered", "cleared">>
  BY AppendThird
<1>4. \A s \in KeptLedgers : Append(s, "cleared") \in ClosedLedgers
  BY <1>2, <1>3, Zenon DEF KeptLedgers, ClosedLedgers
<1>5. \A s \in KeptLedgers : s[Len(s)] \in Open
  <2>1. <<"request">>[Len(<<"request">>)] = "request"
    OBVIOUS
  <2>2. <<"request", "answered">>[Len(<<"request", "answered">>)] = "answered"
    OBVIOUS
  <2> QED
    BY <2>1, <2>2, Zenon DEF KeptLedgers, Open
<1>6. \A s \in ClosedLedgers : s[Len(s)] \notin Open
  <2>1. <<"rejected">>[Len(<<"rejected">>)] = "rejected"
    OBVIOUS
  <2>2. \A x : <<"request", x>>[Len(<<"request", x>>)] = x
    OBVIOUS
  <2>3. \A x, y, z : <<x, y, z>>[Len(<<x, y, z>>)] = z
    OBVIOUS
  <2>4. \A x \in {"rejected", "failed", "cancelled", "cleared"} : x \notin Open
    BY DEF Open
  <2>5. ASSUME NEW s \in ClosedLedgers
        PROVE s[Len(s)] \in {"rejected", "failed", "cancelled", "cleared"}
    <3>1. CASE s = <<"rejected">>
      BY <3>1, <2>1
    <3>2. ASSUME NEW x \in {"failed", "cancelled", "cleared"}, s = <<"request", x>>
          PROVE s[Len(s)] = x
      BY <3>2, <2>2
    <3>3. CASE s = <<"request", "answered", "cleared">>
      BY <3>3, <2>3
    <3> QED
      BY <3>1, <3>2, <3>3, <2>5, Zenon DEF ClosedLedgers
  <2> QED
    BY <2>4, <2>5
<1>7. /\ <<"rejected">> \in ClosedLedgers
      /\ <<"request", "failed">> \in ClosedLedgers
      /\ <<"request", "cancelled">> \in ClosedLedgers
      /\ <<"request">> \in KeptLedgers
      /\ <<"request", "answered">> \in KeptLedgers
  BY Zenon DEF ClosedLedgers, KeptLedgers
<1> QED
  BY <1>1, <1>2, <1>4, <1>5, <1>6, <1>7, Zenon

\* A closed ledger is not a kept one.
LEMMA KeptNotClosed == \A s \in KeptLedgers : s \notin ClosedLedgers
BY LedgerSequences

-----------------------------------------------------------------------------
(* What keeps the ledgers *)

\* A step that offers no call and makes no attempt: attempts and dialog infos stay or
\* go, and each CDR it posts is that of an attempt that goes, closes the ledger of a
\* dialog that goes, or records the answer of one that is answered.
LedgerStep ==
    /\ callType' = callType
    /\ \A o \in Orq : m_mapTerminationAttempts'[o] \in {m_mapTerminationAttempts[o], NULL}
    /\ \A l \in Leg : m_mapDialogInfo'[l] = NULL \/ SameInfo(l)
    /\ Unanswered' \subseteq Unanswered
    /\ CancelledForgotten'
    /\ \A c \in Call :
         \/ cdrs'[c] = cdrs[c]
         \/ \E o \in Orq : /\ isTermination(o) /\ m_mapTerminationAttempts[o].cdr = c
                           /\ m_mapTerminationAttempts'[o] = NULL
         \/ \E l \in Leg :
              /\ m_mapDialogInfo[l] # NULL /\ m_mapDialogInfo[l].cdr = c
              /\ \/ m_mapDialogInfo'[l] = NULL /\ cdrs'[c] \in ClosedLedgers
                 \/ l \notin Unanswered' /\ cdrs'[c] \in KeptLedgers

\* The ledger of every dialog info that goes is closed.
ClosesWhatGoes ==
    \A l \in Leg : /\ m_mapDialogInfo[l] # NULL /\ m_mapDialogInfo[l].cdr # NULL
                   /\ m_mapDialogInfo'[l] = NULL
                   => cdrs'[m_mapDialogInfo[l].cdr] \in ClosedLedgers

\* Such a step keeps the ledgers.
LEMMA LedgerKept ==
    ASSUME TypeOK, LedgerInv, LedgerStep
    PROVE LedgerInv'
<1> USE DEF LedgerInv, LedgerStep, isTermination
<1>0. /\ \A o \in Orq : m_mapTerminationAttempts[o] # NULL =>
            m_mapTerminationAttempts[o].cdr \in Call
      /\ \A l \in Leg : m_mapDialogInfo[l] # NULL => m_mapDialogInfo[l].cdr \in Call \cup {NULL}
  BY DEF TypeOK, TerminationAttempt, SipDialogInfo
<1>1. \A c \in Call : cdrs'[c] # cdrs[c] => callType[c] # "none"
  BY <1>0, HandleAssumption DEF AttemptOwnsCdr, InfoOwnsCdr
<1>2. OfferedUnrecorded'
  BY <1>1 DEF OfferedUnrecorded
<1>3. AttemptOwnsCdr'
  BY DEF AttemptOwnsCdr
<1>4. CdrPerAttempt'
  <2> SUFFICES ASSUME NEW o \in Orq, m_mapTerminationAttempts'[o] # NULL
               PROVE Len(cdrs'[m_mapTerminationAttempts'[o].cdr])
                       = m_mapTerminationAttempts'[o].nAttemptCount
    BY DEF CdrPerAttempt
  <2>1. m_mapTerminationAttempts'[o] = m_mapTerminationAttempts[o]
    OBVIOUS
  <2>2. cdrs'[m_mapTerminationAttempts[o].cdr] = cdrs[m_mapTerminationAttempts[o].cdr]
    BY <2>1, <1>0, HandleAssumption DEF AttemptOwnsCdr, InfoOwnsCdr
  <2> QED
    BY <2>1, <2>2 DEF CdrPerAttempt
<1>5. \A l \in Leg : m_mapDialogInfo'[l] # NULL =>
        /\ m_mapDialogInfo[l] # NULL
        /\ m_mapDialogInfo'[l].bOrigination = m_mapDialogInfo[l].bOrigination
        /\ m_mapDialogInfo'[l].cdr = m_mapDialogInfo[l].cdr
  BY DEF SameInfo
<1>6. InfoOwnsCdr'
  BY <1>5 DEF InfoOwnsCdr
<1>7. KeptIsOpen'
  <2> SUFFICES ASSUME NEW l \in Leg, m_mapDialogInfo'[l] # NULL,
                      m_mapDialogInfo'[l].cdr # NULL
               PROVE /\ cdrs'[m_mapDialogInfo'[l].cdr] \in KeptLedgers
                     /\ l \in Unanswered' => cdrs'[m_mapDialogInfo'[l].cdr] = <<"request">>
    BY DEF KeptIsOpen
  <2> DEFINE c == m_mapDialogInfo[l].cdr
  <2>1. /\ m_mapDialogInfo[l] # NULL /\ c \in Call /\ c = m_mapDialogInfo'[l].cdr
        /\ callType[c] = "origination"
    BY <1>0, <1>5 DEF InfoOwnsCdr
  <2>2. \A k \in Leg : m_mapDialogInfo[k] # NULL /\ m_mapDialogInfo[k].cdr = c => k = l
    BY <2>1, HandleAssumption DEF InfoOwnsCdr
  <2>3. \A o \in Orq : m_mapTerminationAttempts[o] # NULL => m_mapTerminationAttempts[o].cdr # c
    BY <2>1 DEF AttemptOwnsCdr
  <2>4. \/ cdrs'[c] = cdrs[c]
        \/ l \notin Unanswered' /\ cdrs'[c] \in KeptLedgers
    BY <2>1, <2>2, <2>3
  <2> QED
    BY <2>1, <2>4, HandleAssumption DEF KeptIsOpen
<1>8. LedgerShape'
  BY <1>0 DEF LedgerShape, AttemptOwnsCdr
<1> QED
  BY <1>2, <1>3, <1>4, <1>6, <1>7, <1>8

\* It keeps every open origination if it closes what goes.
LEMMA OpenKept ==
    ASSUME TypeOK, LedgerInv, OpenIsKept, LedgerStep, ClosesWhatGoes
    PROVE OpenIsKept'
<1> SUFFICES ASSUME NEW c \in Call, callType[c] = "origination", cdrs'[c] \in KeptLedgers
             PROVE \E l \in Leg : m_mapDialogInfo'[l] # NULL /\ m_mapDialogInfo'[l].cdr = c
  BY DEF OpenIsKept, LedgerStep
<1>1. PICK l \in Leg : m_mapDialogInfo[l] # NULL /\ m_mapDialogInfo[l].cdr = c
  <2>1. CASE cdrs'[c] = cdrs[c]
    BY <2>1 DEF OpenIsKept
  <2>2. CASE cdrs'[c] # cdrs[c]
    BY <2>2 DEF LedgerStep, LedgerInv, AttemptOwnsCdr
  <2> QED
    BY <2>1, <2>2
<1>2. m_mapDialogInfo'[l] # NULL /\ SameInfo(l)
  BY <1>1, KeptNotClosed, HandleAssumption DEF LedgerStep, ClosesWhatGoes
<1> QED
  BY <1>1, <1>2 DEF SameInfo

\* Destroying handles answers INVITEs or takes legs away from them.
LEMMA DestroyUnanswered ==
    ASSUME TypeOK, CancelledForgotten, NEW I, NEW O, NEW L, Destroy(I, O, L)
    PROVE Unanswered' \subseteq Unanswered /\ CancelledForgotten'
<1>1. \A i \in Irq : /\ irqState'[i] \in {irqState[i], "free"}
                     /\ irqLeg'[i] \in {irqLeg[i], NULL}
  BY DEF Destroy
<1>2. Unanswered' \subseteq Unanswered
  BY <1>1, HandleAssumption DEF Unanswered
<1> QED
  BY <1>1, <1>2 DEF CancelledForgotten

\* The call of a bridge whose INVITE gets a final response: an attempt's, or that of an
\* origination whose ledger says no more than "request".
LEMMA FoundCall ==
    ASSUME IInv, LedgerInv, NEW orq \in Orq, FinalInviteResponse(orq)
    PROVE LET irq == getAssociatedIrq(orq)
              a == irqLeg[irq]
              b == orqLeg[orq]
              c == getCdrInfo(orq)
          IN /\ irqState[irq] = "initial" /\ a \in Unanswered
             /\ isTermination(orq) =>
                  /\ c = m_mapTerminationAttempts[orq].cdr
                  /\ m_mapDialogInfo[a] = NULL /\ m_mapDialogInfo[b] # NULL
                  /\ m_mapDialogInfo[b].cdr = NULL
             /\ ~ isTermination(orq) =>
                  /\ m_mapDialogInfo[a] # NULL /\ m_mapDialogInfo[a].cdr = c
                  /\ m_mapDialogInfo[b] = NULL
                  /\ cdrs[c] = <<"request">>
<1> USE DEF IInv, LedgerInv
<1> DEFINE irq == getAssociatedIrq(orq)
           a == irqLeg[irq]
           b == orqLeg[orq]
           c == getCdrInfo(orq)
           d == <<a, b>>
<1>1. /\ irq \in Irq /\ <<irq, orq>> \in m_transactions
      /\ irqState[irq] \in {"initial", "cancelled"}
      /\ d \in m_dialogs /\ a \in Leg /\ b \in Leg
      /\ getALeg(orq) = a /\ c \in Call
  BY FoundBridge
<1>2. a # NULL
  BY <1>1, HandleAssumption
<1>3. irqState[irq] = "initial" /\ a \in Unanswered
  BY <1>1, <1>2 DEF CancelledForgotten, Unanswered
<1>4. isTermination(orq) <=> m_mapDialogInfo[a] = NULL
  BY <1>1, <1>2, <1>3 DEF Consistent, AttemptMatchesDialog
<1>5. \/ /\ m_mapDialogInfo[a] # NULL /\ m_mapDialogInfo[b] = NULL
      \/ /\ m_mapDialogInfo[a] = NULL /\ m_mapDialogInfo[b] # NULL
         /\ ~ m_mapDialogInfo[b].bOrigination
  BY <1>1 DEF Consistent, DialogInfoOwner
<1>6. CASE isTermination(orq)
  <2>1. c = m_mapTerminationAttempts[orq].cdr
    BY <1>6 DEF getCdrInfo
  <2>2. m_mapDialogInfo[b].cdr = NULL
    BY <1>1, <1>4, <1>5, <1>6 DEF InfoOwnsCdr
  <2> QED
    BY <2>1, <2>2, <1>3, <1>4, <1>5, <1>6
<1>7. CASE ~ isTermination(orq)
  <2>1. c = m_mapDialogInfo[a].cdr
    BY <1>1, <1>4, <1>7 DEF getCdrInfo
  <2>2. cdrs[c] = <<"request">>
    BY <2>1, <1>1, <1>3, <1>4, <1>7, HandleAssumption DEF KeptIsOpen
  <2> QED
    BY <2>1, <2>2, <1>3, <1>4, <1>5, <1>7
<1> QED
  BY <1>6, <1>7

\* postCdr appends to one ledger.
LEMMA PostEffect ==
    ASSUME TypeOK, NEW c \in Call, NEW type, postCdr(c, type)
    PROVE /\ cdrs'[c] = Append(cdrs[c], type)
          /\ \A x \in Call : x # c => cdrs'[x] = cdrs[x]
BY DEF TypeOK, postCdr

\* clearDialog with the destruction of both legs: one dialog, its legs and its dialog
\* info go, whatever transactions go with it.
LEMMA DropEffect ==
    ASSUME TypeOK, Consistent, CancelledForgotten, NEW a, NEW b, <<a, b>> \in m_dialogs,
           NEW leg \in {a, b}, clearDialog(leg), NEW I, NEW O,
           Destroy(I, O, {leg, getAssociatedDialog(leg)})
    PROVE /\ a \in Leg /\ b \in Leg
          /\ {leg, getAssociatedDialog(leg)} = {a, b}
          /\ m_dialogs' = m_dialogs \ {<<a, b>>}
          /\ legs' = legs \ {a, b}
          /\ \A l \in Leg : m_mapDialogInfo'[l] = IF l \in {a, b} THEN NULL
                                                  ELSE m_mapDialogInfo[l]
          /\ Unanswered' \subseteq Unanswered
          /\ CancelledForgotten'
<1> DEFINE d == <<a, b>>
<1>0. OneToOne /\ d \in m_dialogs /\ leg \in {d[1], d[2]}
  BY DEF Consistent
<1>1. /\ a \in Leg /\ b \in Leg
      /\ getAssociatedDialog(a) = b /\ getAssociatedDialog(b) = a
  <2>1. d[1] \in Leg /\ d[2] \in Leg
        /\ getAssociatedDialog(d[1]) = d[2] /\ getAssociatedDialog(d[2]) = d[1]
    BY <1>0, DialogLookup
  <2> QED
    BY <2>1
<1>2. {leg, getAssociatedDialog(leg)} = {a, b}
  <2>1. CASE leg = a
    BY <1>1, <2>1
  <2>2. CASE leg = b
    BY <1>1, <2>2
  <2> QED
    BY <2>1, <2>2
<1>3. m_dialogs' = m_dialogs \ {d}
  <2> HIDE DEF d
  <2> QED
    BY <1>0, ClearDialogEffect, Zenon
<1>4. legs' = legs \ {a, b}
  BY <1>2 DEF Destroy
<1>5. \A l \in Leg : m_mapDialogInfo'[l] = IF l \in {a, b} THEN NULL ELSE m_mapDialogInfo[l]
  BY <1>2 DEF clearDialog
<1> QED
  BY <1>1, <1>2, <1>3, <1>4, <1>5, DestroyUnanswered

-----------------------------------------------------------------------------
(* The ledgers, handler by handler *)

\* A failed INVITE whose failure is proxied: the attempt's CDRs are complete, or the
\* origination's ledger is closed.
LEMMA RejectedLedger ==
    ASSUME IInv, LedgerInv, NEW orq \in Orq,
           InviteRejected(orq) \/ InviteCrankbackFails(orq)
    PROVE LedgerStep /\ ClosesWhatGoes
<1> USE DEF IInv
<1> DEFINE irq == getAssociatedIrq(orq)
           a == irqLeg[irq]
           b == orqLeg[orq]
           c == getCdrInfo(orq)
<1>1. /\ FinalInviteResponse(orq)
      /\ clearDialog(b) /\ eraseAttempt(orq)
      /\ Destroy({irq}, {orq}, {b, getAssociatedDialog(b)})
      /\ callType' = callType
      /\ \/ postCdr(c, FinalResponseCdr(orq, "failure"))
         \/ isTermination(orq) /\ cdrs' = [cdrs EXCEPT ![c] = @ \o <<"attempt", "attempt">>]
  BY DEF InviteRejected, InviteCrankbackFails, CalleeRefuses
<1>2. <<a, b>> \in m_dialogs /\ c \in Call /\ a \in Leg /\ b \in Leg
  BY <1>1, FoundBridge
<1>3. /\ isTermination(orq) => /\ c = m_mapTerminationAttempts[orq].cdr
                               /\ m_mapDialogInfo[a] = NULL /\ m_mapDialogInfo[b].cdr = NULL
      /\ ~ isTermination(orq) => /\ m_mapDialogInfo[a] # NULL /\ m_mapDialogInfo[a].cdr = c
                                 /\ m_mapDialogInfo[b] = NULL /\ cdrs[c] = <<"request">>
  BY <1>1, FoundCall
<1>4. /\ \A l \in Leg : m_mapDialogInfo'[l] = IF l \in {a, b} THEN NULL
                                              ELSE m_mapDialogInfo[l]
      /\ Unanswered' \subseteq Unanswered /\ CancelledForgotten'
  <2>1. TypeOK /\ Consistent /\ CancelledForgotten /\ b \in {a, b}
    BY DEF LedgerInv
  <2> HIDE DEF irq, a, b, c, IInv
  <2> QED
    BY <2>1, <1>1, <1>2, DropEffect
<1>5. \A o \in Orq : m_mapTerminationAttempts'[o] =
        IF o \in {orq} THEN NULL ELSE m_mapTerminationAttempts[o]
  BY <1>1, EraseType
<1>6. \A x \in Call : x # c => cdrs'[x] = cdrs[x]
  BY <1>1, <1>2 DEF postCdr, TypeOK
<1>7. ~ isTermination(orq) => cdrs'[c] \in ClosedLedgers
  <2> SUFFICES ASSUME ~ isTermination(orq) PROVE cdrs'[c] \in ClosedLedgers
    OBVIOUS
  <2>1. postCdr(c, "failed")
    BY <1>1 DEF FinalResponseCdr
  <2>2. cdrs'[c] = Append(cdrs[c], "failed")
    BY <2>1, <1>2, PostEffect
  <2> QED
    BY <2>2, <1>3, LedgerSequences
<1>8. \A l \in Leg : m_mapDialogInfo'[l] = NULL \/ SameInfo(l)
  BY <1>4 DEF SameInfo
<1> HIDE DEF irq, a, b, c
<1>9. LedgerStep
  BY <1>1, <1>2, <1>3, <1>4, <1>5, <1>6, <1>7, <1>8 DEF LedgerStep
<1> QED
  BY <1>3, <1>4, <1>7, <1>9 DEF ClosesWhatGoes

\* A caller that gives up: its origination is closed, or its attempt recorded.
LEMMA CancelLedger ==
    ASSUME IInv, LedgerInv, NEW irq \in Irq, Cancel(irq)
    PROVE LedgerStep /\ ClosesWhatGoes
<1> USE DEF IInv
<1> DEFINE orq == getAssociatedOrq(irq)
           a == irqLeg[irq]
           b == orqLeg[orq]
<1>1. /\ irqState[irq] = "initial" /\ orq # NULL /\ a # NULL
      /\ clearDialog(a) /\ eraseAttempt(orq)
      /\ Destroy({irq}, {orq}, {a, getAssociatedDialog(a)})
      /\ callType' = callType
  BY DEF Cancel
<1>2. orq \in Orq /\ <<irq, orq>> \in m_transactions
  BY <1>1, OrqLookup
<1>3. <<a, b>> \in m_dialogs
  BY <1>1, <1>2 DEF Consistent, BridgeMatchesDialog
<1>4. /\ a \in Leg /\ b \in Leg
      /\ \A l \in Leg : m_mapDialogInfo'[l] = IF l \in {a, b} THEN NULL
                                              ELSE m_mapDialogInfo[l]
      /\ Unanswered' \subseteq Unanswered /\ CancelledForgotten'
  <2>1. TypeOK /\ Consistent /\ CancelledForgotten /\ a \in {a, b}
    BY DEF LedgerInv
  <2> HIDE DEF orq, a, b, IInv
  <2> QED
    BY <2>1, <1>1, <1>3, DropEffect, ZenonT(40)
<1>5. \A o \in Orq : m_mapTerminationAttempts'[o] =
        IF o \in {orq} THEN NULL ELSE m_mapTerminationAttempts[o]
  BY <1>1, <1>2, EraseType
<1>6. isTermination(orq) <=> m_mapDialogInfo[a] = NULL
  BY <1>1, <1>2 DEF Consistent, AttemptMatchesDialog
<1>7. \A l \in Leg : m_mapDialogInfo'[l] = NULL \/ SameInfo(l)
  BY <1>4 DEF SameInfo
<1>8. /\ m_mapDialogInfo[a] = NULL => m_mapDialogInfo[b].cdr = NULL
      /\ m_mapDialogInfo[a] # NULL => m_mapDialogInfo[b] = NULL
  BY <1>3, <1>4 DEF Consistent, DialogInfoOwner, LedgerInv, InfoOwnsCdr
<1>9. CASE isTermination(orq)
  <2> DEFINE c == m_mapTerminationAttempts[orq].cdr
  <2>1. c \in Call /\ postCdr(c, "attempt")
    BY <1>2, <1>6, <1>9 DEF Cancel, isTermination, TypeOK, TerminationAttempt
  <2>2. \A x \in Call : x # c => cdrs'[x] = cdrs[x]
    BY <2>1, PostEffect
  <2> HIDE DEF orq, a, b
  <2> QED
    BY <2>1, <2>2, <1>1, <1>2, <1>4, <1>5, <1>6, <1>7, <1>8, <1>9
       DEF LedgerStep, ClosesWhatGoes
<1>10. CASE ~ isTermination(orq)
  <2> DEFINE c == m_mapDialogInfo[a].cdr
  <2>1. c \in Call
    BY <1>3, <1>4, <1>6, <1>10, HandleAssumption
       DEF Consistent, DialogInfoOwner, TypeOK, SipDialogInfo
  <2>2. postCdr(c, "cancelled")
    BY <1>6, <1>10 DEF Cancel
  <2>3. a \in Unanswered
    BY <1>1, <1>4 DEF Unanswered
  <2>4. cdrs[c] = <<"request">>
    BY <2>1, <2>3, <1>4, <1>6, <1>10, HandleAssumption DEF LedgerInv, KeptIsOpen
  <2>5. cdrs'[c] \in ClosedLedgers /\ \A x \in Call : x # c => cdrs'[x] = cdrs[x]
    <3>1. cdrs'[c] = Append(cdrs[c], "cancelled") /\ \A x \in Call : x # c => cdrs'[x] = cdrs[x]
      BY <2>1, <2>2, PostEffect
    <3> QED
      BY <3>1, <2>4, LedgerSequences
  <2> HIDE DEF orq, a, b
  <2> QED
    BY <2>1, <2>5, <1>1, <1>2, <1>4, <1>5, <1>6, <1>7, <1>8, <1>10
       DEF LedgerStep, ClosesWhatGoes
<1> QED
  BY <1>9, <1>10

\* A hang-up closes the ledger of an origination, whichever side hangs up.
LEMMA ByeLedger ==
    ASSUME IInv, LedgerInv, NEW leg \in Leg, Bye(leg)
    PROVE LedgerStep /\ ClosesWhatGoes
<1> USE DEF IInv
<1> DEFINE other == getAssociatedDialog(leg)
           info == OriginationInfo(leg, other)
<1>1. /\ leg \in legs /\ clearDialog(leg) /\ Destroy({}, {}, {leg, other})
      /\ m_mapTerminationAttempts' = m_mapTerminationAttempts /\ callType' = callType
  BY DEF Bye
<1>2. PICK d \in m_dialogs : leg \in {d[1], d[2]}
  BY <1>1 DEF Consistent, NoLostHandle
<1> DEFINE a == d[1]
           b == d[2]
<1>3. <<a, b>> \in m_dialogs /\ leg \in {a, b}
  <2>1. d = <<a, b>>
    BY DialogLookup DEF Consistent
  <2> QED
    BY <2>1, <1>2
<1>4. /\ a \in Leg /\ b \in Leg /\ {leg, other} = {a, b}
      /\ \A l \in Leg : m_mapDialogInfo'[l] = IF l \in {a, b} THEN NULL
                                              ELSE m_mapDialogInfo[l]
      /\ Unanswered' \subseteq Unanswered /\ CancelledForgotten'
  <2>1. TypeOK /\ Consistent /\ CancelledForgotten
    BY DEF LedgerInv
  <2> HIDE DEF a, b, IInv, info
  <2> QED
    BY <2>1, <1>1, <1>3, DropEffect, ZenonT(40)
<1>5. \A l \in Leg : m_mapDialogInfo'[l] = NULL \/ SameInfo(l)
  BY <1>4 DEF SameInfo
<1>6. info = {l \in {a, b} : m_mapDialogInfo[l] # NULL /\ m_mapDialogInfo[l].cdr # NULL}
  <2>1. {leg, other} \cap Leg = {a, b}
    BY <1>4
  <2>2. \A l \in {a, b} : m_mapDialogInfo[l] # NULL =>
          (m_mapDialogInfo[l].bOrigination <=> m_mapDialogInfo[l].cdr # NULL)
    BY <1>4 DEF LedgerInv, InfoOwnsCdr
  <2> HIDE DEF a, b, other, IInv
  <2> QED
    BY <2>1, <2>2 DEF OriginationInfo
<1>7. m_mapDialogInfo[a] = NULL \/ m_mapDialogInfo[b] = NULL
  BY <1>3 DEF Consistent, DialogInfoOwner
<1>8. CASE info = {}
  <2>1. cdrs' = cdrs
    BY <1>8 DEF Bye
  <2> HIDE DEF info, other
  <2> QED
    BY <2>1, <1>1, <1>4, <1>5, <1>6, <1>8 DEF LedgerStep, ClosesWhatGoes
<1>9. CASE info # {}
  <2> DEFINE l == IF leg \in info THEN leg ELSE other
             c == m_mapDialogInfo[l].cdr
  <2>1. l \in info
    <3> HIDE DEF other, info
    <3> QED
      BY <1>4, <1>6, <1>9
  <2>2. /\ l \in Leg /\ m_mapDialogInfo[l] # NULL /\ c # NULL
        /\ m_mapDialogInfo'[l] = NULL
        /\ \A k \in info : k = l
    <3> HIDE DEF l, info, other
    <3> QED
      BY <2>1, <1>4, <1>6, <1>7
  <2>3. postCdr(c, "cleared")
    BY <1>9 DEF Bye
  <2>4. c \in Call
    BY <2>2 DEF TypeOK, SipDialogInfo
  <2>5. cdrs[c] \in KeptLedgers
    BY <2>2 DEF LedgerInv, KeptIsOpen
  <2>6. cdrs'[c] = Append(cdrs[c], "cleared") /\ \A x \in Call : x # c => cdrs'[x] = cdrs[x]
    BY <2>3, <2>4, PostEffect
  <2>7. cdrs'[c] \in ClosedLedgers
    BY <2>5, <2>6, LedgerSequences
  <2> HIDE DEF l, info, other
  <2>8. LedgerStep
    BY <2>2, <2>4, <2>6, <2>7, <1>1, <1>4, <1>5 DEF LedgerStep
  <2>9. ClosesWhatGoes
    BY <2>2, <2>7, <1>4, <1>6 DEF ClosesWhatGoes
  <2> QED
    BY <2>8, <2>9
<1> QED
  BY <1>8, <1>9

\* The session timer drops the dialog and leaves its ledger as it is.
LEMMA SessionRefreshTimerLedger ==
    ASSUME IInv, LedgerInv, NEW leg \in Leg, SessionRefreshTimer(leg)
    PROVE LedgerStep
<1> USE DEF IInv
<1>1. /\ m_mapDialogInfo[leg] # NULL /\ clearDialog(leg)
      /\ Destroy({}, {}, {leg, getAssociatedDialog(leg)})
      /\ m_mapTerminationAttempts' = m_mapTerminationAttempts
      /\ callType' = callType /\ cdrs' = cdrs
  BY DEF SessionRefreshTimer, ledger
<1>2. Unanswered' \subseteq Unanswered /\ CancelledForgotten'
  BY <1>1, DestroyUnanswered DEF LedgerInv
<1>3. \A l \in Leg : m_mapDialogInfo'[l] \in {m_mapDialogInfo[l], NULL}
  BY <1>1 DEF clearDialog
<1> QED
  BY <1>1, <1>2, <1>3 DEF LedgerStep, SameInfo

\* An answered INVITE: the attempt is recorded, or the origination's ledger says so.
LEMMA InviteAnsweredLedger ==
    ASSUME IInv, LedgerInv, NEW orq \in Orq, InviteAnswered(orq)
    PROVE /\ LedgerStep /\ ClosesWhatGoes
          /\ getALeg(orq) \notin Unanswered'
<1> USE DEF IInv
<1> DEFINE irq == getAssociatedIrq(orq)
           a == irqLeg[irq]
           b == orqLeg[orq]
           c == getCdrInfo(orq)
<1>1. /\ FinalInviteResponse(orq)
      /\ eraseAttempt(orq) /\ Destroy({irq}, {orq}, {})
      /\ callType' = callType
      /\ postCdr(c, FinalResponseCdr(orq, "200"))
  BY DEF InviteAnswered
<1>2. /\ irq \in Irq /\ <<irq, orq>> \in m_transactions /\ c \in Call
      /\ a \in Leg /\ b \in Leg /\ getALeg(orq) = a
  BY <1>1, FoundBridge
<1>3. /\ irqState[irq] = "initial"
      /\ isTermination(orq) => c = m_mapTerminationAttempts[orq].cdr
      /\ ~ isTermination(orq) => /\ m_mapDialogInfo[a] # NULL /\ m_mapDialogInfo[a].cdr = c
                                 /\ cdrs[c] = <<"request">>
  BY <1>1, FoundCall
<1>4. Unanswered' \subseteq Unanswered /\ CancelledForgotten'
  BY <1>1, DestroyUnanswered DEF LedgerInv
<1>5. a \notin Unanswered'
  <2> SUFFICES ASSUME NEW i \in Irq, irqState'[i] = "initial", irqLeg'[i] = a PROVE FALSE
    BY DEF Unanswered
  <2>1. i # irq /\ irqState[i] = "initial" /\ irqLeg[i] = a
    BY <1>1, <1>2 DEF Destroy
  <2>2. PICK p \in m_transactions : p[1] = i
    BY <2>1 DEF Consistent, NoLostHandle
  <2> DEFINE q == <<irq, orq>>
  <2>3. q \in m_transactions /\ q[1] = irq
    BY <1>2
  <2>4. p = q \/ a = NULL
    <3> HIDE DEF q
    <3> QED
      BY <2>1, <2>2, <2>3, <1>3 DEF Consistent, InvitesPaired
  <2> QED
    BY <2>1, <2>2, <2>4, <1>2, HandleAssumption
<1>6. \A l \in Leg : SameInfo(l)
  <2>1. CASE m_mapDialogInfo' = m_mapDialogInfo
    BY <2>1 DEF SameInfo
  <2>2. CASE m_mapDialogInfo' # m_mapDialogInfo
    <3>1. PICK created \in BOOLEAN :
            m_mapDialogInfo' = [m_mapDialogInfo EXCEPT ![a].timerSet = created]
      BY <2>2, <1>2 DEF InviteAnswered
    <3>2. m_mapDialogInfo[a] \in SipDialogInfo /\ m_mapDialogInfo[a] # NULL
      BY <2>2, <1>2, <1>3, HandleAssumption DEF InviteAnswered, TypeOK
    <3> DEFINE new == [m_mapDialogInfo[a] EXCEPT !.timerSet = created]
    <3>3. m_mapDialogInfo' = [m_mapDialogInfo EXCEPT ![a] = new]
      BY <3>1
    <3>4. /\ new \in SipDialogInfo
          /\ new.bOrigination = m_mapDialogInfo[a].bOrigination
          /\ new.cdr = m_mapDialogInfo[a].cdr
      BY <3>2 DEF SipDialogInfo
    <3> HIDE DEF new
    <3>5. /\ m_mapDialogInfo'[a] = new
          /\ \A l \in Leg \ {a} : m_mapDialogInfo'[l] = m_mapDialogInfo[l]
      BY <3>3, <1>2 DEF TypeOK
    <3> QED
      BY <3>2, <3>4, <3>5, NullAssumption DEF SameInfo
  <2> QED
    BY <2>1, <2>2
<1>7. \A o \in Orq : m_mapTerminationAttempts'[o] =
        IF o \in {orq} THEN NULL ELSE m_mapTerminationAttempts[o]
  BY <1>1, EraseType
<1>8. /\ cdrs'[c] = Append(cdrs[c], FinalResponseCdr(orq, "200"))
      /\ \A x \in Call : x # c => cdrs'[x] = cdrs[x]
  BY <1>1, <1>2, PostEffect
<1>9. ~ isTermination(orq) => cdrs'[c] \in KeptLedgers
  BY <1>3, <1>8, LedgerSequences DEF FinalResponseCdr
<1> HIDE DEF irq, a, b, c
<1>10. LedgerStep
  BY <1>1, <1>2, <1>3, <1>4, <1>5, <1>6, <1>7, <1>8, <1>9 DEF LedgerStep
<1>11. ClosesWhatGoes
  BY <1>6 DEF ClosesWhatGoes, SameInfo
<1> QED
  BY <1>2, <1>5, <1>10, <1>11

\* The handlers and nta's steps that post no CDR and leave attempts and dialog info
\* alone.
LEMMA QuietLedger ==
    ASSUME IInv, LedgerInv,
           \/ \E o \in Orq : InviteResponseUnexpected(o)
           \/ \E o \in Orq, s \in {"200", "failure"} : ResponseInsideDialog(o, s)
           \/ \E i \in Irq : CancelTooLate(i) \/ TimerH(i)
           \/ \E l \in Leg : \/ \E m \in InDialogMethods : ForwardRequest(l, m)
                             \/ ForwardRequestFails(l)
           \/ ShutDown \/ InstallConfig \/ UNCHANGED vars
    PROVE LedgerStep /\ ClosesWhatGoes
<1> USE DEF IInv
<1>1. /\ m_mapDialogInfo' = m_mapDialogInfo
      /\ m_mapTerminationAttempts' = m_mapTerminationAttempts
      /\ callType' = callType /\ cdrs' = cdrs
  <2>1. ASSUME NEW i \in Irq, CancelTooLate(i) PROVE m_mapDialogInfo' = m_mapDialogInfo
    BY <2>1, CancelTooLateEffect
  <2> QED
    BY <2>1 DEF InviteResponseUnexpected, ResponseInsideDialog, CancelTooLate, TimerH, Abort,
                ForwardRequest, ForwardRequestFails, ShutDown, InstallConfig, vars, maps, ledger
<1>2. Unanswered' \subseteq Unanswered /\ CancelledForgotten'
  <2>1. CASE UNCHANGED <<irqState, irqLeg>>
    BY <2>1 DEF Unanswered, CancelledForgotten, LedgerInv
  <2>2. CASE \E o \in Orq, s \in {"200", "failure"} : ResponseInsideDialog(o, s)
    BY <2>2, DestroyUnanswered DEF ResponseInsideDialog, LedgerInv
  <2>3. ASSUME NEW i \in Irq, CancelTooLate(i)
        PROVE Unanswered' \subseteq Unanswered /\ CancelledForgotten'
    <3>1. irqState' = [irqState EXCEPT ![i] = "cancelled"] /\ irqLeg' = irqLeg
      BY <2>3, CancelTooLateEffect
    <3>2. irqLeg[i] = NULL
      <4>1. irqState[i] = "initial" /\ (getAssociatedOrq(i) = NULL \/ irqLeg[i] = NULL)
        BY <2>3 DEF CancelTooLate
      <4>2. PICK p \in m_transactions : p[1] = i /\ p[2] # NULL
        BY <4>1 DEF Consistent, NoLostHandle
      <4>3. (CHOOSE q \in m_transactions : q[1] = i) = p
        BY <4>2 DEF Consistent, OneToOne
      <4> QED
        BY <4>1, <4>2, <4>3 DEF getAssociatedOrq
    <3> QED
      BY <3>1, <3>2 DEF Unanswered, CancelledForgotten, LedgerInv, TypeOK
  <2>4. ASSUME NEW l \in Leg, \/ \E m \in InDialogMethods : ForwardRequest(l, m)
                              \/ ForwardRequestFails(l)
        PROVE Unanswered' \subseteq Unanswered /\ CancelledForgotten'
    <3>1. /\ irqState' = [irqState EXCEPT ![New(FreeIrqs)] = "inDialog"]
          /\ irqLeg' = irqLeg
      BY <2>4 DEF ForwardRequest, ForwardRequestFails
    <3> QED
      BY <3>1 DEF Unanswered, CancelledForgotten, LedgerInv, TypeOK
  <2> QED
    BY <2>1, <2>2, <2>3, <2>4
       DEF InviteResponseUnexpected, TimerH, Abort, ShutDown, InstallConfig, vars, nta
<1> QED
  BY <1>1, <1>2 DEF LedgerStep, ClosesWhatGoes, SameInfo

\* A callee's 200 changes no CDR, whether the controller waits for it or not.
LEMMA FarEndLedger ==
    ASSUME IInv, LedgerInv, FarEndAction
    PROVE LedgerStep /\ ClosesWhatGoes
<1>1. UNCHANGED <<irqState, irqLeg, m_mapTerminationAttempts, m_mapDialogInfo, callType, cdrs>>
  BY FarEndStep DEF nta, maps, ledger
<1>2. Unanswered' = Unanswered /\ CancelledForgotten'
  BY <1>1 DEF Unanswered, CancelledForgotten, LedgerInv
<1> QED
  BY <1>1, <1>2 DEF LedgerStep, ClosesWhatGoes, SameInfo

\* A new attempt takes over the CdrInfo of the one it replaces.
LEMMA ReplaceLedger ==
    ASSUME IInv, LedgerInv, NEW orq \in Orq, FinalInviteResponse(orq), isTermination(orq),
           NEW t \in TerminationAttempt, ReplaceBLeg(orq, t),
           t.cdr = m_mapTerminationAttempts[orq].cdr,
           callType' = callType,
           \A c \in Call : c # t.cdr => cdrs'[c] = cdrs[c],
           Len(cdrs'[t.cdr]) = t.nAttemptCount
    PROVE LedgerInv'
<1> USE DEF IInv
<1> DEFINE irq == getAssociatedIrq(orq)
           a == irqLeg[irq]
           b == orqLeg[orq]
           o2 == New(FreeOrqs)
           b2 == New(FreeLegs)
<1>1. irq \in Irq /\ <<a, b>> \in m_dialogs /\ a \in Leg /\ b \in Leg /\ a # b
  BY FoundBridge
<1>2. /\ o2 \in FreeOrqs /\ b2 \in FreeLegs
      /\ m_mapDialogInfo[b] # NULL /\ ~ m_mapDialogInfo[b].bOrigination
      /\ m_mapDialogInfo' = [m_mapDialogInfo EXCEPT ![b2] = m_mapDialogInfo[b], ![b] = NULL]
      /\ m_mapTerminationAttempts' = [m_mapTerminationAttempts EXCEPT ![orq] = NULL, ![o2] = t]
  BY ReplaceEffect
<1>3. o2 \in Orq /\ o2 # orq /\ m_mapTerminationAttempts[o2] = NULL
  BY <1>2, NullAssumption
     DEF FreeOrqs, Consistent, NoDanglingHandle, isTermination, FinalInviteResponse
<1>4. b2 \in Leg /\ b2 # b /\ m_mapDialogInfo[b2] = NULL
  BY <1>2 DEF FreeLegs, Consistent, NoDanglingHandle
<1>5. /\ m_mapDialogInfo[b].cdr = NULL
      /\ m_mapDialogInfo'[b2] = m_mapDialogInfo[b] /\ m_mapDialogInfo'[b] = NULL
      /\ \A l \in Leg \ {b, b2} : m_mapDialogInfo'[l] = m_mapDialogInfo[l]
  BY <1>1, <1>2, <1>4 DEF LedgerInv, InfoOwnsCdr, TypeOK
<1>6. /\ m_mapTerminationAttempts'[o2] = t /\ m_mapTerminationAttempts'[orq] = NULL
      /\ \A o \in Orq \ {orq, o2} : m_mapTerminationAttempts'[o] = m_mapTerminationAttempts[o]
  BY <1>2, <1>3 DEF TypeOK
<1>7. t # NULL /\ t.cdr \in Call /\ callType[t.cdr] = "termination"
  BY NullAssumption DEF TerminationAttempt, LedgerInv, AttemptOwnsCdr
<1>8. \A i \in Irq : irqState'[i] = irqState[i] /\ irqLeg'[i] \in {irqLeg[i], NULL}
  BY DEF ReplaceBLeg
<1>9. /\ \A o \in Orq : m_mapTerminationAttempts[o] # NULL =>
            m_mapTerminationAttempts[o].cdr \in Call
      /\ \A l \in Leg : m_mapDialogInfo[l] # NULL => m_mapDialogInfo[l].cdr \in Call \cup {NULL}
  BY DEF TypeOK, TerminationAttempt, SipDialogInfo
<1> HIDE DEF IInv, irq, a, b, o2, b2
<1>10. Unanswered' \subseteq Unanswered /\ CancelledForgotten'
  BY <1>8, HandleAssumption DEF Unanswered, CancelledForgotten, LedgerInv
<1>11. OfferedUnrecorded'
  BY <1>7 DEF LedgerInv, OfferedUnrecorded
<1>12. AttemptOwnsCdr'
  BY <1>3, <1>6, <1>7 DEF LedgerInv, AttemptOwnsCdr, isTermination
<1>13. CdrPerAttempt'
  <2> SUFFICES ASSUME NEW o \in Orq, m_mapTerminationAttempts'[o] # NULL
               PROVE Len(cdrs'[m_mapTerminationAttempts'[o].cdr])
                       = m_mapTerminationAttempts'[o].nAttemptCount
    BY DEF CdrPerAttempt, isTermination
  <2>1. CASE o = o2
    BY <2>1, <1>6
  <2>2. CASE o # o2
    <3>1. o # orq /\ m_mapTerminationAttempts'[o] = m_mapTerminationAttempts[o]
      BY <2>2, <1>6
    <3>2. m_mapTerminationAttempts[o].cdr # t.cdr
      BY <3>1 DEF LedgerInv, AttemptOwnsCdr, isTermination
    <3> QED
      BY <3>1, <3>2, <1>9 DEF LedgerInv, CdrPerAttempt, isTermination
  <2> QED
    BY <2>1, <2>2
<1>14. InfoOwnsCdr'
  <2>1. \A l \in Leg : m_mapDialogInfo'[l] # NULL /\ l # b2 =>
          l # b /\ m_mapDialogInfo'[l] = m_mapDialogInfo[l]
    BY <1>5
  <2>2. ASSUME NEW l \in Leg, m_mapDialogInfo'[l] # NULL
        PROVE m_mapDialogInfo'[l].bOrigination <=> m_mapDialogInfo'[l].cdr # NULL
    BY <2>1, <2>2, <1>2, <1>5 DEF LedgerInv, InfoOwnsCdr
  <2>3. ASSUME NEW l \in Leg, m_mapDialogInfo'[l] # NULL, m_mapDialogInfo'[l].cdr # NULL
        PROVE /\ callType[m_mapDialogInfo'[l].cdr] = "origination"
              /\ \A k \in Leg : m_mapDialogInfo'[k] # NULL /\ m_mapDialogInfo'[k].cdr
                                                 = m_mapDialogInfo'[l].cdr => k = l
    BY <2>1, <2>3, <1>5 DEF LedgerInv, InfoOwnsCdr
  <2> QED
    BY <2>2, <2>3 DEF InfoOwnsCdr
<1>15. KeptIsOpen'
  <2> SUFFICES ASSUME NEW l \in Leg, m_mapDialogInfo'[l] # NULL,
                      m_mapDialogInfo'[l].cdr # NULL
               PROVE /\ cdrs'[m_mapDialogInfo'[l].cdr] \in KeptLedgers
                     /\ l \in Unanswered' => cdrs'[m_mapDialogInfo'[l].cdr] = <<"request">>
    BY DEF KeptIsOpen
  <2>1. l \notin {b, b2} /\ m_mapDialogInfo'[l] = m_mapDialogInfo[l]
    BY <1>5
  <2> DEFINE c == m_mapDialogInfo[l].cdr
  <2>2. c \in Call /\ callType[c] = "origination"
    BY <2>1, <1>9 DEF LedgerInv, InfoOwnsCdr
  <2>3. cdrs'[c] = cdrs[c]
    BY <2>2, <1>7
  <2> QED
    BY <2>1, <2>3, <1>10 DEF LedgerInv, KeptIsOpen
<1>16. LedgerShape'
  BY <1>7 DEF LedgerInv, LedgerShape
<1> QED
  BY <1>10, <1>11, <1>12, <1>13, <1>14, <1>15, <1>16 DEF LedgerInv

\* A redirect goes on with the same attempt; a crankback records it and counts one more.
LEMMA RetryLedger ==
    ASSUME IInv, LedgerInv, NEW orq \in Orq,
           InviteRedirected(orq) \/ InviteCrankedBack(orq)
    PROVE LedgerInv'
<1> USE DEF IInv
<1> DEFINE t == m_mapTerminationAttempts[orq]
<1>1. FinalInviteResponse(orq) /\ isTermination(orq) /\ callType' = callType
  BY DEF InviteRedirected, InviteCrankedBack, CalleeRefuses, ledger
<1>2. t \in TerminationAttempt /\ t.cdr \in Call /\ cdrs[t.cdr] \in Seq(CdrTypes)
  <2>1. t \in TerminationAttempt
    BY <1>1 DEF isTermination, TypeOK
  <2> QED
    BY <2>1 DEF TypeOK, TerminationAttempt
<1>3. Len(cdrs[t.cdr]) = t.nAttemptCount
  BY <1>1 DEF LedgerInv, CdrPerAttempt
<1>4. CASE InviteRedirected(orq)
  <2>1. ReplaceBLeg(orq, t) /\ cdrs' = cdrs
    BY <1>4 DEF InviteRedirected, ledger
  <2> HIDE DEF t
  <2> QED
    BY <2>1, <1>1, <1>2, <1>3, ReplaceLedger DEF t
<1>5. CASE InviteCrankedBack(orq)
  <2> DEFINE t2 == [t EXCEPT !.nAttemptCount = @ + 1]
  <2>1. ReplaceBLeg(orq, t2) /\ postCdr(t.cdr, "attempt") /\ MayCrankback(orq)
    BY <1>5 DEF InviteCrankedBack
  <2>2. t.nAttemptCount \in 0..UIntMax /\ t.nAttemptCount + 1 \in 0..UIntMax
    <3>1. RetryLimit \in 0..UIntMax
      BY NumberAssumption DEF RetryLimit, TypeOK
    <3> QED
      BY <3>1, <2>1, <1>2, NumberAssumption DEF MayCrankback, TerminationAttempt
  <2>3. /\ t2 \in TerminationAttempt /\ t2.cdr = t.cdr
        /\ t2.nAttemptCount = t.nAttemptCount + 1
    BY <2>2, <1>2 DEF TerminationAttempt
  <2>4. /\ cdrs'[t.cdr] = Append(cdrs[t.cdr], "attempt")
        /\ \A c \in Call : c # t.cdr => cdrs'[c] = cdrs[c]
    BY <2>1, <1>2, PostEffect
  <2>5. Len(cdrs'[t.cdr]) = t2.nAttemptCount
    BY <2>3, <2>4, <1>2, <1>3
  <2>6. t2.cdr = m_mapTerminationAttempts[orq].cdr
    BY <2>3
  <2> HIDE DEF t, t2
  <2>7. /\ \A c \in Call : c # t2.cdr => cdrs'[c] = cdrs[c]
        /\ Len(cdrs'[t2.cdr]) = t2.nAttemptCount
    BY <2>3, <2>4, <2>5
  <2> QED
    BY <2>1, <2>3, <2>6, <2>7, <1>1, ReplaceLedger
<1> QED
  BY <1>4, <1>5

\* The call that is offered is new: it has no CDR, and neither an attempt nor a dialog
\* has its CdrInfo.
LEMMA OfferedIsNew ==
    ASSUME TypeOK, LedgerInv, NEW type \in {"origination", "termination"}, Offer(type)
    PROVE /\ OfferedCall \in Call /\ callType[OfferedCall] = "none"
          /\ cdrs[OfferedCall] = <<>>
          /\ callType'[OfferedCall] = type
          /\ \A c \in Call : c # OfferedCall => callType'[c] = callType[c]
          /\ \A o \in Orq : isTermination(o) =>
               /\ m_mapTerminationAttempts[o].cdr \in Call
               /\ m_mapTerminationAttempts[o].cdr # OfferedCall
          /\ \A l \in Leg : m_mapDialogInfo[l] # NULL =>
               /\ m_mapDialogInfo[l].cdr \in Call \cup {NULL}
               /\ m_mapDialogInfo[l].cdr # OfferedCall
<1>1. OfferedCall \in {c \in Call : callType[c] = "none"}
  BY NewIsFree DEF Offer, OfferedCall
<1>2. cdrs[OfferedCall] = <<>>
  BY <1>1 DEF LedgerInv, OfferedUnrecorded
<1>3. /\ callType'[OfferedCall] = type
      /\ \A c \in Call : c # OfferedCall => callType'[c] = callType[c]
  BY <1>1 DEF Offer, TypeOK
<1>4. \A o \in Orq : isTermination(o) =>
        /\ m_mapTerminationAttempts[o].cdr \in Call
        /\ m_mapTerminationAttempts[o].cdr # OfferedCall
  BY <1>1 DEF TypeOK, TerminationAttempt, isTermination, LedgerInv, AttemptOwnsCdr
<1>5. \A l \in Leg : m_mapDialogInfo[l] # NULL =>
        /\ m_mapDialogInfo[l].cdr \in Call \cup {NULL}
        /\ m_mapDialogInfo[l].cdr # OfferedCall
  BY <1>1, HandleAssumption DEF TypeOK, SipDialogInfo, LedgerInv, InfoOwnsCdr
<1> QED
  BY <1>1, <1>2, <1>3, <1>4, <1>5

\* An INVITE that is answered at once.
LEMMA RefusalLedger ==
    ASSUME IInv, LedgerInv, RejectInvite \/ FailOrigination \/ FailTermination
    PROVE LedgerInv'
<1> USE DEF IInv
<1> DEFINE c == OfferedCall
<1>1. UNCHANGED <<nta, maps>>
  BY DEF RejectInvite, FailOrigination, FailTermination
<1>2. PICK type \in {"origination", "termination"} :
        /\ Offer(type)
        /\ IF type = "origination" THEN postCdr(c, "rejected") ELSE cdrs' = cdrs
  BY DEF RejectInvite, FailOrigination, FailTermination
<1>3. /\ c \in Call /\ callType[c] = "none" /\ cdrs[c] = <<>>
      /\ callType'[c] = type
      /\ \A x \in Call : x # c => callType'[x] = callType[x]
      /\ \A o \in Orq : isTermination(o) => /\ m_mapTerminationAttempts[o].cdr \in Call
                                            /\ m_mapTerminationAttempts[o].cdr # c
      /\ \A l \in Leg : m_mapDialogInfo[l] # NULL =>
            m_mapDialogInfo[l].cdr \in Call \cup {NULL} /\ m_mapDialogInfo[l].cdr # c
  BY <1>2, OfferedIsNew
<1> HIDE DEF c, IInv
<1>4. /\ \A x \in Call : x # c => cdrs'[x] = cdrs[x]
      /\ type = "origination" => cdrs'[c] \in ClosedLedgers
  BY <1>2, <1>3, PostEffect, LedgerSequences DEF IInv
<1>5. /\ m_mapTerminationAttempts' = m_mapTerminationAttempts
      /\ m_mapDialogInfo' = m_mapDialogInfo
      /\ irqState' = irqState /\ irqLeg' = irqLeg
  BY <1>1 DEF nta, maps
<1>6. Unanswered' = Unanswered /\ CancelledForgotten'
  BY <1>5 DEF Unanswered, CancelledForgotten, LedgerInv
<1>7. OfferedUnrecorded' /\ LedgerShape'
  BY <1>3, <1>4 DEF LedgerInv, OfferedUnrecorded, LedgerShape
<1>8. AttemptOwnsCdr'
  BY <1>3, <1>5 DEF LedgerInv, AttemptOwnsCdr, isTermination
<1>9. CdrPerAttempt'
  BY <1>3, <1>4, <1>5 DEF LedgerInv, CdrPerAttempt, isTermination
<1>10. InfoOwnsCdr'
  BY <1>3, <1>5 DEF LedgerInv, InfoOwnsCdr
<1>11. KeptIsOpen'
  BY <1>3, <1>4, <1>5, <1>6 DEF LedgerInv, KeptIsOpen
<1> QED
  BY <1>6, <1>7, <1>8, <1>9, <1>10, <1>11 DEF LedgerInv

\* The handles of a new bridge make one more leg wait for an answer.
LEMMA BridgeUnanswered ==
    ASSUME TypeOK, CancelledForgotten, NEW irq \in Irq, NEW orq, NEW a \in Leg, NEW b,
           Bridge(irq, orq, a, b)
    PROVE Unanswered' \subseteq Unanswered \cup {a} /\ CancelledForgotten'
<1>1. /\ irqState'[irq] = "initial" /\ irqLeg'[irq] = a
      /\ \A i \in Irq \ {irq} : irqState'[i] = irqState[i] /\ irqLeg'[i] = irqLeg[i]
  BY DEF Bridge, TypeOK
<1> QED
  BY <1>1 DEF Unanswered, CancelledForgotten

\* A new origination opens its ledger, and its dialog info has the CdrInfo to itself.
LEMMA OriginationLedger ==
    ASSUME IInv, LedgerInv, processOriginationRequest
    PROVE LedgerInv'
<1> USE DEF IInv
<1> DEFINE a == New(FreeLegs)
           b == New(FreeLegs \ {a})
           orq == New(FreeOrqs)
           irq == New(FreeIrqs)
           c == OfferedCall
<1>1. /\ Offer("origination") /\ BridgePossible
      /\ Bridge(irq, orq, a, b) /\ postCdr(c, "request")
      /\ m_mapTerminationAttempts' = m_mapTerminationAttempts
  BY DEF processOriginationRequest
<1>2. PICK timer \in BOOLEAN : m_mapDialogInfo' = MapInsert(m_mapDialogInfo, a,
        [bOrigination |-> TRUE, nSessionTimer |-> timer, timerSet |-> FALSE, cdr |-> c])
  BY DEF processOriginationRequest
<1> DEFINE new == [bOrigination |-> TRUE, nSessionTimer |-> timer, timerSet |-> FALSE,
                   cdr |-> c]
<1>3. irq \in Irq /\ a \in Leg /\ m_mapDialogInfo[a] = NULL
  BY <1>1, FreshHandles DEF Offer
<1>4. /\ c \in Call /\ callType[c] = "none" /\ cdrs[c] = <<>>
      /\ callType'[c] = "origination"
      /\ \A x \in Call : x # c => callType'[x] = callType[x]
      /\ \A o \in Orq : isTermination(o) => /\ m_mapTerminationAttempts[o].cdr \in Call
                                            /\ m_mapTerminationAttempts[o].cdr # c
      /\ \A l \in Leg : m_mapDialogInfo[l] # NULL =>
            m_mapDialogInfo[l].cdr \in Call \cup {NULL} /\ m_mapDialogInfo[l].cdr # c
  BY <1>1, OfferedIsNew
<1>5. new.bOrigination /\ new.cdr = c
  OBVIOUS
<1> HIDE DEF new
<1>6. /\ m_mapDialogInfo'[a] = new
      /\ \A l \in Leg : l # a => m_mapDialogInfo'[l] = m_mapDialogInfo[l]
  BY <1>2, <1>3 DEF MapInsert, TypeOK, new
<1> HIDE DEF a, b, orq, irq, c
<1>7. Unanswered' \subseteq Unanswered \cup {a} /\ CancelledForgotten'
  BY <1>1, <1>3, BridgeUnanswered DEF LedgerInv
<1>8. cdrs'[c] = <<"request">> /\ \A x \in Call : x # c => cdrs'[x] = cdrs[x]
  BY <1>1, <1>4, PostEffect, LedgerSequences
<1>9. cdrs'[c] \in KeptLedgers
  BY <1>8, LedgerSequences
<1> HIDE DEF IInv
<1>10. OfferedUnrecorded' /\ LedgerShape'
  BY <1>4, <1>8, <1>9 DEF LedgerInv, OfferedUnrecorded, LedgerShape
<1>11. AttemptOwnsCdr'
  BY <1>1, <1>4 DEF LedgerInv, AttemptOwnsCdr, isTermination
<1>12. CdrPerAttempt'
  BY <1>1, <1>4, <1>8 DEF LedgerInv, CdrPerAttempt, isTermination
<1>13. InfoOwnsCdr'
  BY <1>3, <1>4, <1>5, <1>6, HandleAssumption DEF LedgerInv, InfoOwnsCdr
<1>14. KeptIsOpen'
  <2> SUFFICES ASSUME NEW l \in Leg, m_mapDialogInfo'[l] # NULL,
                      m_mapDialogInfo'[l].cdr # NULL
               PROVE /\ cdrs'[m_mapDialogInfo'[l].cdr] \in KeptLedgers
                     /\ l \in Unanswered' => cdrs'[m_mapDialogInfo'[l].cdr] = <<"request">>
    BY DEF KeptIsOpen
  <2>1. CASE l = a
    BY <2>1, <1>5, <1>6, <1>8, <1>9
  <2>2. CASE l # a
    <3>1. /\ m_mapDialogInfo'[l] = m_mapDialogInfo[l]
          /\ l \in Unanswered' => l \in Unanswered
      BY <2>2, <1>6, <1>7
    <3>2. cdrs'[m_mapDialogInfo[l].cdr] = cdrs[m_mapDialogInfo[l].cdr]
      BY <2>2, <1>4, <1>6, <1>8
    <3> QED
      BY <2>2, <3>1, <3>2, <1>6 DEF LedgerInv, KeptIsOpen
  <2> QED
    BY <2>1, <2>2
<1> QED
  BY <1>7, <1>10, <1>11, <1>12, <1>13, <1>14 DEF LedgerInv

\* A new termination has no CDR yet, as its first attempt counts none.
LEMMA TerminationLedger ==
    ASSUME IInv, LedgerInv, processTerminationRequest
    PROVE LedgerInv'
<1> USE DEF IInv
<1> DEFINE a == New(FreeLegs)
           b == New(FreeLegs \ {a})
           orq == New(FreeOrqs)
           irq == New(FreeIrqs)
           c == OfferedCall
           t == [nAttemptCount |-> 0, cdr |-> c]
           new == [bOrigination |-> FALSE, nSessionTimer |-> FALSE,
                   timerSet |-> FALSE, cdr |-> NULL]
<1>1. /\ Offer("termination") /\ BridgePossible
      /\ Bridge(irq, orq, a, b)
      /\ m_mapTerminationAttempts' = MapInsert(m_mapTerminationAttempts, orq, t)
      /\ m_mapDialogInfo' = MapInsert(m_mapDialogInfo, b, new)
      /\ cdrs' = cdrs
  BY DEF processTerminationRequest
<1>2. /\ irq \in Irq /\ orq \in Orq /\ m_mapTerminationAttempts[orq] = NULL
      /\ a \in Leg /\ b \in Leg /\ m_mapDialogInfo[b] = NULL
  BY <1>1, FreshHandles DEF Offer
<1>3. /\ c \in Call /\ callType[c] = "none" /\ cdrs[c] = <<>>
      /\ callType'[c] = "termination"
      /\ \A x \in Call : x # c => callType'[x] = callType[x]
      /\ \A o \in Orq : isTermination(o) => /\ m_mapTerminationAttempts[o].cdr \in Call
                                            /\ m_mapTerminationAttempts[o].cdr # c
      /\ \A l \in Leg : m_mapDialogInfo[l] # NULL =>
            m_mapDialogInfo[l].cdr \in Call \cup {NULL} /\ m_mapDialogInfo[l].cdr # c
  BY <1>1, OfferedIsNew
<1>4. /\ t.cdr = c /\ t.nAttemptCount = 0 /\ ~ new.bOrigination /\ new.cdr = NULL
  OBVIOUS
<1> HIDE DEF a, b, orq, irq, c, t, new
<1>5. /\ m_mapTerminationAttempts'[orq] = t
      /\ \A o \in Orq : o # orq => m_mapTerminationAttempts'[o] = m_mapTerminationAttempts[o]
  BY <1>1, <1>2 DEF MapInsert, TypeOK
<1>6. /\ m_mapDialogInfo'[b] = new
      /\ \A l \in Leg : l # b => m_mapDialogInfo'[l] = m_mapDialogInfo[l]
  BY <1>1, <1>2 DEF MapInsert, TypeOK
<1>7. Unanswered' \subseteq Unanswered \cup {a} /\ CancelledForgotten'
  BY <1>1, <1>2, BridgeUnanswered DEF LedgerInv
<1>8. a # b /\ m_mapDialogInfo'[a] = NULL
  BY <1>1, <1>6, FreshHandles DEF a, b, Offer
<1> HIDE DEF IInv
<1>9. OfferedUnrecorded' /\ LedgerShape'
  BY <1>1, <1>3 DEF LedgerInv, OfferedUnrecorded, LedgerShape
<1>10. AttemptOwnsCdr'
  BY <1>3, <1>4, <1>5 DEF LedgerInv, AttemptOwnsCdr, isTermination
<1>11. CdrPerAttempt'
  <2>1. Len(cdrs[c]) = 0
    BY <1>3
  <2> QED
    BY <2>1, <1>1, <1>3, <1>4, <1>5 DEF LedgerInv, CdrPerAttempt, isTermination
<1>12. InfoOwnsCdr'
  <2>1. ASSUME NEW l \in Leg, m_mapDialogInfo'[l] # NULL
        PROVE m_mapDialogInfo'[l].bOrigination <=> m_mapDialogInfo'[l].cdr # NULL
    BY <2>1, <1>4, <1>6 DEF LedgerInv, InfoOwnsCdr
  <2>2. ASSUME NEW l \in Leg, m_mapDialogInfo'[l] # NULL, m_mapDialogInfo'[l].cdr # NULL
        PROVE /\ callType'[m_mapDialogInfo'[l].cdr] = "origination"
              /\ \A k \in Leg : m_mapDialogInfo'[k] # NULL /\ m_mapDialogInfo'[k].cdr
                                                 = m_mapDialogInfo'[l].cdr => k = l
    BY <2>2, <1>3, <1>4, <1>6 DEF LedgerInv, InfoOwnsCdr
  <2> QED
    BY <2>1, <2>2 DEF InfoOwnsCdr
<1>13. KeptIsOpen'
  BY <1>1, <1>2, <1>3, <1>4, <1>6, <1>7, <1>8 DEF LedgerInv, KeptIsOpen
<1> QED
  BY <1>7, <1>9, <1>10, <1>11, <1>12, <1>13 DEF LedgerInv

-----------------------------------------------------------------------------
(* The ledgers throughout *)

LEMMA LedgerInit == Init => LedgerInv
BY DEF Init, LedgerInv, OfferedUnrecorded, AttemptOwnsCdr, CdrPerAttempt, InfoOwnsCdr,
       KeptIsOpen, LedgerShape, CancelledForgotten, isTermination

\* Every handler keeps the ledgers.
LEMMA LedgerPreserved == IInv /\ LedgerInv /\ [Next]_vars => LedgerInv'
<1> SUFFICES ASSUME IInv, LedgerInv, [Next]_vars PROVE LedgerInv'
  OBVIOUS
<1>0. TypeOK
  BY DEF IInv
<1>1. CASE NewCall
  BY <1>1, RefusalLedger, OriginationLedger, TerminationLedger DEF NewCall
<1>2. ASSUME NEW o \in Orq, InviteResponse(o) PROVE LedgerInv'
  <2>1. CASE InviteRedirected(o) \/ InviteCrankedBack(o)
    BY <2>1, RetryLedger
  <2>2. CASE InviteRejected(o) \/ InviteCrankbackFails(o)
    BY <2>2, <1>0, RejectedLedger, LedgerKept
  <2>3. CASE InviteAnswered(o)
    BY <2>3, <1>0, InviteAnsweredLedger, LedgerKept
  <2>4. CASE InviteResponseUnexpected(o)
    BY <2>4, <1>0, QuietLedger, LedgerKept
  <2> QED
    BY <1>2, <2>1, <2>2, <2>3, <2>4 DEF InviteResponse
<1>3. CASE \E o \in Orq, s \in {"200", "failure"} : ResponseInsideDialog(o, s)
  BY <1>3, <1>0, QuietLedger, LedgerKept
<1>4. CASE \E i \in Irq : CallerStep(i)
  BY <1>4, <1>0, QuietLedger, CancelLedger, LedgerKept DEF CallerStep
<1>5. ASSUME NEW l \in Leg, RequestInsideDialog(l) \/ SessionRefreshTimer(l) PROVE LedgerInv'
  <2>1. CASE Bye(l)
    BY <2>1, <1>0, ByeLedger, LedgerKept
  <2>2. CASE (\E m \in InDialogMethods : ForwardRequest(l, m)) \/ ForwardRequestFails(l)
    BY <2>2, <1>0, QuietLedger, LedgerKept
  <2>3. CASE SessionRefreshTimer(l)
    BY <2>3, <1>0, SessionRefreshTimerLedger, LedgerKept
  <2> QED
    BY <1>5, <2>1, <2>2, <2>3 DEF RequestInsideDialog
<1>6. CASE ShutDown \/ InstallConfig \/ UNCHANGED vars
  BY <1>6, <1>0, QuietLedger, LedgerKept
<1>7. CASE FarEndAction
  BY <1>7, <1>0, FarEndLedger, LedgerKept
<1> QED
  BY <1>1, <1>2, <1>3, <1>4, <1>5, <1>6, <1>7 DEF Next, FarEndAction

\* The ledgers agree with the controller's maps throughout.
THEOREM LedgerInvariance == Spec => []LedgerInv
<1>1. Init => LedgerInv
  BY LedgerInit
<1>2. IInv /\ LedgerInv /\ [Next]_vars => LedgerInv'
  BY LedgerPreserved
<1> QED
  BY <1>1, <1>2, Invariance, PTL DEF Spec

\* While a termination is tried, each earlier attempt has had its CDR posted
\* (processInviteResponseInsideDialog), with or without session timers.
THEOREM AttemptsRecorded == Spec => []CdrPerAttempt
<1>1. LedgerInv => CdrPerAttempt
  BY DEF LedgerInv
<1> QED
  BY <1>1, LedgerInvariance, PTL

-----------------------------------------------------------------------------
(* Retries *)

\* The count grows only by a crankback, below the limit of the configuration in force;
\* what that configuration was need not be known later.
LEMMA RetriesPreserved ==
    ASSUME 0 \notin Retries
    PROVE IInv /\ LedgerInv /\ AttemptsWithinRetries /\ [Next]_vars => AttemptsWithinRetries'
<1> SUFFICES ASSUME IInv, LedgerInv, AttemptsWithinRetries, [Next]_vars
             PROVE AttemptsWithinRetries'
  OBVIOUS
<1> USE DEF IInv
<1>1. CASE \A o \in Orq : m_mapTerminationAttempts'[o] \in {m_mapTerminationAttempts[o], NULL}
  BY <1>1 DEF AttemptsWithinRetries, isTermination
<1>2. CASE processTerminationRequest
  <2> DEFINE orq == New(FreeOrqs)
             t == [nAttemptCount |-> 0, cdr |-> OfferedCall]
  <2>1. m_mapTerminationAttempts' = MapInsert(m_mapTerminationAttempts, orq, t)
    BY <1>2 DEF processTerminationRequest
  <2>2. t.nAttemptCount = 0
    OBVIOUS
  <2> HIDE DEF t, orq
  <2>3. \A o \in Orq : m_mapTerminationAttempts'[o] \in {m_mapTerminationAttempts[o], t}
    BY <2>1 DEF MapInsert, TypeOK
  <2> QED
    BY <2>2, <2>3 DEF AttemptsWithinRetries, isTermination
<1>3. ASSUME NEW orq \in Orq, InviteRedirected(orq) \/ InviteCrankedBack(orq)
      PROVE AttemptsWithinRetries'
  <2> DEFINE t == m_mapTerminationAttempts[orq]
  <2>1. FinalInviteResponse(orq) /\ isTermination(orq)
    BY <1>3 DEF InviteRedirected, InviteCrankedBack, CalleeRefuses
  <2>2. t \in TerminationAttempt
    BY <2>1 DEF isTermination, TypeOK
  <2>3. PICK n \in TerminationAttempt :
          /\ ReplaceBLeg(orq, n)
          /\ n.nAttemptCount = 0 \/ \E r \in Retries : n.nAttemptCount < r
    <3>1. CASE InviteRedirected(orq)
      BY <3>1, <2>1, <2>2 DEF InviteRedirected, AttemptsWithinRetries
    <3>2. CASE InviteCrankedBack(orq)
      <4> DEFINE n == [t EXCEPT !.nAttemptCount = @ + 1]
      <4>1. ReplaceBLeg(orq, n) /\ t.nAttemptCount < RetryLimit
        BY <3>2 DEF InviteCrankedBack, MayCrankback
      <4>2. RetryLimit = m_nTerminationRetries - 1 /\ m_nTerminationRetries \in Retries
        BY DEF RetryLimit, TypeOK
      <4>3. m_nTerminationRetries \in 0..UIntMax /\ t.nAttemptCount \in 0..UIntMax
        BY <4>2, <2>2, NumberAssumption DEF TerminationAttempt
      <4>4. /\ n \in TerminationAttempt /\ n.nAttemptCount = t.nAttemptCount + 1
        BY <4>1, <4>2, <4>3, <2>2, NumberAssumption DEF TerminationAttempt
      <4>5. n.nAttemptCount < m_nTerminationRetries
        BY <4>1, <4>2, <4>3, <4>4, NumberAssumption
      <4> HIDE DEF n
      <4> QED
        BY <4>1, <4>2, <4>4, <4>5
    <3> QED
      BY <1>3, <3>1, <3>2
  <2>4. m_mapTerminationAttempts' =
          [m_mapTerminationAttempts EXCEPT ![orq] = NULL, ![New(FreeOrqs)] = n]
    BY <2>1, <2>3, ReplaceEffect
  <2>5. \A o \in Orq : m_mapTerminationAttempts'[o] \in {m_mapTerminationAttempts[o], NULL, n}
    BY <2>4 DEF TypeOK
  <2> QED
    BY <2>3, <2>5 DEF AttemptsWithinRetries, isTermination
<1>4. CASE /\ ~ processTerminationRequest
           /\ ~ \E o \in Orq : InviteRedirected(o) \/ InviteCrankedBack(o)
  <2>1. CASE NewCall
    <3>1. m_mapTerminationAttempts' = m_mapTerminationAttempts
      BY <1>4, <2>1 DEF NewCall, RejectInvite, FailOrigination, FailTermination,
                        processOriginationRequest, maps
    <3> QED
      BY <3>1, <1>1
  <2>2. CASE ~ NewCall /\ LedgerStep
    BY <2>2, <1>1 DEF LedgerStep
  <2>3. ~ NewCall => LedgerStep
    <3> SUFFICES ASSUME ~ NewCall PROVE LedgerStep
      OBVIOUS
    <3>1. ASSUME NEW o \in Orq, InviteResponse(o) PROVE LedgerStep
      BY <3>1, <1>4, RejectedLedger, InviteAnsweredLedger, QuietLedger DEF InviteResponse
    <3>2. ASSUME NEW i \in Irq, CallerStep(i) PROVE LedgerStep
      BY <3>2, CancelLedger, QuietLedger DEF CallerStep
    <3>3. ASSUME NEW l \in Leg, RequestInsideDialog(l) \/ SessionRefreshTimer(l)
          PROVE LedgerStep
      BY <3>3, ByeLedger, SessionRefreshTimerLedger, QuietLedger DEF RequestInsideDialog
    <3> QED
      BY <3>1, <3>2, <3>3, QuietLedger, FarEndLedger DEF Next, FarEndAction
  <2> QED
    BY <2>1, <2>2, <2>3
<1> QED
  BY <1>2, <1>3, <1>4

\* max-termination-attempts bounds the retries of a call, whatever configurations are
\* installed while it is tried, unless one of them says 0 (nAttempt is then compared
\* with the largest unsigned int, processInviteResponseInsideDialog).
THEOREM RetriesBounded ==
    ASSUME 0 \notin Retries
    PROVE Spec => []AttemptsWithinRetries
<1>1. Init => AttemptsWithinRetries
  BY DEF Init, AttemptsWithinRetries, isTermination
<1>2. IInv /\ LedgerInv /\ AttemptsWithinRetries /\ [Next]_vars => AttemptsWithinRetries'
  BY RetriesPreserved
<1> QED
  BY <1>1, <1>2, Invariance, LedgerInvariance, PTL DEF Spec

-----------------------------------------------------------------------------
(* Sessions, without session timers *)

\* A step that forgets only what is of such a call.
ForgottenStep ==
    \A c \in Call : forgotten'[c] # "nothing" =>
        \/ forgotten[c] # "nothing"
        \/ callType[c] # "none" /\ (callType[c] = "origination" => GivenUp(c)')

\* The ledger of a call that was given up is closed, and a closed one stays as it is.
LEMMA ForgottenKept ==
    ASSUME TypeOK, LedgerInv, ForgottenOfKnown, LedgerStep, ForgottenStep
    PROVE ForgottenOfKnown'
<1> SUFFICES ASSUME NEW c \in Call, forgotten'[c] # "nothing"
             PROVE callType[c] # "none" /\ (callType[c] = "origination" => GivenUp(c)')
  BY DEF ForgottenOfKnown, LedgerStep
<1>1. CASE forgotten[c] = "nothing"
  BY <1>1 DEF ForgottenStep
<1>2. CASE forgotten[c] # "nothing"
  <2>1. callType[c] # "none" /\ (callType[c] = "origination" => GivenUp(c))
    BY <1>2 DEF ForgottenOfKnown
  <2> SUFFICES ASSUME callType[c] = "origination" PROVE GivenUp(c)'
    BY <2>1
  <2>2. cdrs[c] \in ClosedLedgers
    BY <2>1, Zenon DEF GivenUp, ClosedLedgers
  <2>3. cdrs[c] \notin KeptLedgers
    BY <2>2, KeptNotClosed
  <2>4. \A l \in Leg : m_mapDialogInfo[l] # NULL => m_mapDialogInfo[l].cdr # c
    BY <2>3, HandleAssumption DEF LedgerInv, KeptIsOpen
  <2>5. \A o \in Orq : isTermination(o) => m_mapTerminationAttempts[o].cdr # c
    BY DEF LedgerInv, AttemptOwnsCdr
  <2>6. cdrs'[c] = cdrs[c]
    BY <2>4, <2>5 DEF LedgerStep
  <2> QED
    BY <2>1, <2>6, Zenon DEF GivenUp
<1> QED
  BY <1>1, <1>2

\* A step that takes dialogs and sessions away keeps the rest, if it closes what goes
\* and leaves no session on a leg it destroys.
LEMMA SessionsShrink ==
    ASSUME IInv, LedgerInv, SessionInv, LedgerStep, ClosesWhatGoes, ForgottenStep,
           \A l \in Leg : m_mapDialogInfo'[l] \in {m_mapDialogInfo[l], NULL},
           m_dialogs' \subseteq m_dialogs,
           \A l \in Leg : established'[l] => established[l] /\ l \in legs'
    PROVE SessionInv'
<1>1. NoTimers'
  BY DEF SessionInv, NoTimers
<1>2. OpenIsKept'
  BY OpenKept DEF SessionInv, IInv
<1>3. SessionHasLeg'
  BY DEF SessionHasLeg
<1>4. NotYetUp'
  <2>1. \A d \in m_dialogs : d[1] \in Leg /\ d[2] \in Leg
    BY DEF IInv, TypeOK
  <2> QED
    BY <2>1 DEF SessionInv, NotYetUp, LedgerStep
<1>5. ForgottenOfKnown'
  BY ForgottenKept DEF SessionInv, IInv
<1> QED
  BY <1>1, <1>2, <1>3, <1>4, <1>5 DEF SessionInv

\* The caller of an INVITE that fails or is cancelled has no session, and its callee's is
\* no longer on the leg that goes.
LEMMA FailedSession ==
    ASSUME IInv, LedgerInv, SessionInv, LedgerStep, ClosesWhatGoes, ForgottenStep,
           NEW a \in Unanswered, NEW b, <<a, b>> \in m_dialogs,
           NEW leg \in {a, b}, clearDialog(leg), NEW I, NEW O,
           Destroy(I, O, {leg, getAssociatedDialog(leg)}),
           \A l \in Leg : established'[l] => established[l] /\ l # b
    PROVE SessionInv'
<1>1. TypeOK /\ Consistent /\ CancelledForgotten
  BY DEF IInv, LedgerInv
<1>2. /\ m_dialogs' = m_dialogs \ {<<a, b>>} /\ legs' = legs \ {a, b}
      /\ \A l \in Leg : m_mapDialogInfo'[l] = IF l \in {a, b} THEN NULL
                                              ELSE m_mapDialogInfo[l]
  <2>1. CASE leg = a
    BY <2>1, <1>1, DropEffect
  <2>2. CASE leg = b
    BY <2>2, <1>1, DropEffect
  <2> QED
    BY <2>1, <2>2
<1>3. ~ established[a]
  BY DEF SessionInv, NotYetUp
<1>4. \A l \in Leg : established'[l] => established[l] /\ l \in legs'
  BY <1>2, <1>3 DEF SessionInv, SessionHasLeg
<1> QED
  BY <1>2, <1>4, SessionsShrink

\* The 200 of a callee that is given up is of a call that is known: an attempt's, or an
\* origination whose ledger now says that it failed.
LEMMA LostCallee ==
    ASSUME IInv, LedgerInv, NEW orq \in Orq, FinalInviteResponse(orq), LoseCallee(orq),
           NEW c, c = getCdrInfo(orq), ~ isTermination(orq) => GivenUp(c)'
    PROVE /\ ForgottenStep
          /\ \A l \in Leg : established'[l] => established[l] /\ l # orqLeg[orq]
<1>1. c \in Call /\ orqLeg[orq] \in Leg /\ irqLeg[getAssociatedIrq(orq)] \in Leg
  BY FoundBridge DEF IInv
<1>2. callType[c] # "none" /\ (callType[c] = "origination" => ~ isTermination(orq))
  <2>1. CASE isTermination(orq)
    BY <2>1, FoundCall DEF LedgerInv, AttemptOwnsCdr
  <2>2. CASE ~ isTermination(orq)
    BY <2>2, <1>1, FoundCall, HandleAssumption DEF LedgerInv, InfoOwnsCdr
  <2> QED
    BY <2>1, <2>2
<1>3. \A x \in Call : x # c => forgotten'[x] = forgotten[x]
  BY DEF LoseCallee, IInv, TypeOK
<1>4. ForgottenStep
  BY <1>2, <1>3 DEF ForgottenStep
<1>5. \A l \in Leg : established'[l] => established[l] /\ l # orqLeg[orq]
  BY <1>1 DEF LoseCallee, IInv, TypeOK
<1> QED
  BY <1>4, <1>5

LEMMA RejectedSession ==
    ASSUME IInv, LedgerInv, SessionInv, NEW orq \in Orq,
           InviteRejected(orq) \/ InviteCrankbackFails(orq)
    PROVE SessionInv'
<1> DEFINE irq == getAssociatedIrq(orq)
           a == irqLeg[irq]
           b == orqLeg[orq]
<1>1. /\ FinalInviteResponse(orq) /\ clearDialog(b)
      /\ Destroy({irq}, {orq}, {b, getAssociatedDialog(b)})
  BY DEF InviteRejected, InviteCrankbackFails, CalleeRefuses
<1>2. <<a, b>> \in m_dialogs /\ getCdrInfo(orq) \in Call
  BY <1>1, FoundBridge DEF IInv
<1>3. a \in Unanswered
  BY <1>1, FoundCall
<1>4. LedgerStep /\ ClosesWhatGoes /\ b \in {a, b}
  BY RejectedLedger
<1>5. ForgottenStep /\ \A l \in Leg : established'[l] => established[l] /\ l # b
  <2>1. CASE InviteCrankbackFails(orq)
    BY <2>1 DEF InviteCrankbackFails, CalleeRefuses, farEnds, ForgottenStep
  <2>2. CASE InviteRejected(orq)
    <3>1. PICK c \in Call : c = getCdrInfo(orq)
      BY <1>2
    <3>2. LoseCallee(orq) /\ postCdr(c, FinalResponseCdr(orq, "failure"))
      BY <2>2, <3>1 DEF InviteRejected
    <3>3. ASSUME ~ isTermination(orq) PROVE GivenUp(c)'
      <4>1. cdrs[c] = <<"request">>
        BY <1>1, <3>1, <3>3, FoundCall
      <4>2. postCdr(c, "failed")
        BY <3>2, <3>3 DEF FinalResponseCdr
      <4>3. cdrs'[c] = Append(cdrs[c], "failed")
        BY <4>2, PostEffect DEF IInv
      <4>4. cdrs'[c] = <<"request", "failed">>
        BY <4>1, <4>3, AppendSecond
      <4> QED
        BY <4>4, Zenon DEF GivenUp
    <3> QED
      BY <1>1, <3>1, <3>2, <3>3, LostCallee
  <2> QED
    BY <2>1, <2>2
<1> HIDE DEF irq, a, b
<1> QED
  BY <1>1, <1>2, <1>3, <1>4, <1>5, FailedSession

LEMMA CancelSession ==
    ASSUME IInv, LedgerInv, SessionInv, NEW irq \in Irq, Cancel(irq)
    PROVE SessionInv'
<1> DEFINE orq == getAssociatedOrq(irq)
           a == irqLeg[irq]
           b == orqLeg[orq]
<1>1. /\ irqState[irq] = "initial" /\ orq # NULL /\ a # NULL
      /\ clearDialog(a) /\ LoseCallee(orq)
      /\ Destroy({irq}, {orq}, {a, getAssociatedDialog(a)})
  BY DEF Cancel
<1>2. orq \in Orq /\ <<irq, orq>> \in m_transactions
  BY <1>1, OrqLookup DEF IInv
<1>3. <<a, b>> \in m_dialogs
  BY <1>1, <1>2 DEF IInv, Consistent, BridgeMatchesDialog
<1>4. a \in Unanswered
  BY <1>1 DEF Unanswered, IInv, TypeOK
<1>5. LedgerStep /\ ClosesWhatGoes /\ a \in {a, b}
  BY CancelLedger
<1>6. FinalInviteResponse(orq)
  <2>1. orqMethod[orq] = "INVITE"
    BY <1>1, <1>2 DEF IInv, Consistent, InvitesPaired
  <2>2. orqLeg[orq] # NULL
    BY <1>3, HandleAssumption DEF IInv, TypeOK
  <2> QED
    BY <2>1, <2>2, <1>2, LookupFinds DEF IInv, FinalInviteResponse, Cancel
<1>7. getAssociatedIrq(orq) = irq
  <2>1. <<getAssociatedIrq(orq), orq>> \in m_transactions
    BY <1>2, <1>6, FoundBridge DEF IInv
  <2> QED
    BY <2>1, <1>2 DEF IInv, Consistent, OneToOne
<1>8. PICK c \in Call : c = getCdrInfo(orq)
  BY <1>2, <1>6, FoundBridge DEF IInv
<1>9. ASSUME ~ isTermination(orq) PROVE GivenUp(c)'
  <2>1. m_mapDialogInfo[a] # NULL /\ m_mapDialogInfo[a].cdr = c /\ cdrs[c] = <<"request">>
    BY <1>2, <1>6, <1>7, <1>8, <1>9, FoundCall
  <2>2. postCdr(c, "cancelled")
    BY <2>1 DEF Cancel
  <2>3. cdrs'[c] = Append(cdrs[c], "cancelled")
    BY <2>2, PostEffect DEF IInv
  <2>4. cdrs'[c] = <<"request", "cancelled">>
    BY <2>1, <2>3, AppendSecond
  <2> QED
    BY <2>4, Zenon DEF GivenUp
<1>10. ForgottenStep /\ \A l \in Leg : established'[l] => established[l] /\ l # b
  BY <1>1, <1>2, <1>6, <1>8, <1>9, LostCallee
<1> HIDE DEF orq, a, b
<1> QED
  BY <1>1, <1>3, <1>4, <1>5, <1>10, FailedSession

\* A hang-up ends the sessions of both legs it destroys.
LEMMA ByeSession ==
    ASSUME IInv, LedgerInv, SessionInv, NEW leg \in Leg, Bye(leg)
    PROVE SessionInv'
<1> DEFINE other == getAssociatedDialog(leg)
<1>1. /\ clearDialog(leg) /\ Destroy({}, {}, {leg, other})
      /\ established' = [l \in Leg |-> established[l] /\ l \notin {leg, other}]
      /\ forgotten' = forgotten
  BY DEF Bye
<1>2. LedgerStep /\ ClosesWhatGoes /\ ForgottenStep
  BY <1>1, ByeLedger DEF ForgottenStep
<1>3. /\ m_dialogs' \subseteq m_dialogs
      /\ \A l \in Leg : m_mapDialogInfo'[l] \in {m_mapDialogInfo[l], NULL}
  BY <1>1 DEF clearDialog
<1>4. legs' = legs \ {leg, other}
  BY <1>1 DEF Destroy
<1> HIDE DEF other
<1>5. \A l \in Leg : established'[l] => established[l] /\ l \in legs'
  BY <1>1, <1>4 DEF SessionInv, SessionHasLeg
<1> QED
  BY <1>2, <1>3, <1>5, SessionsShrink

\* The steps that touch neither sessions nor dialogs.
LEMMA QuietSession ==
    ASSUME IInv, LedgerInv, SessionInv,
           \/ \E o \in Orq : InviteResponseUnexpected(o)
           \/ \E o \in Orq, s \in {"200", "failure"} : ResponseInsideDialog(o, s)
           \/ \E i \in Irq : CancelTooLate(i) \/ TimerH(i)
           \/ \E l \in Leg : \/ \E m \in InDialogMethods : ForwardRequest(l, m)
                             \/ ForwardRequestFails(l)
           \/ ShutDown \/ InstallConfig \/ UNCHANGED vars
    PROVE SessionInv'
<1>1. LedgerStep /\ ClosesWhatGoes
  BY QuietLedger
<1>2. /\ m_mapDialogInfo' = m_mapDialogInfo /\ m_dialogs' = m_dialogs
      /\ legs' = legs /\ established' = established /\ forgotten' = forgotten
  <2>1. ASSUME NEW i \in Irq, CancelTooLate(i)
        PROVE /\ m_mapDialogInfo' = m_mapDialogInfo /\ m_dialogs' = m_dialogs
              /\ legs' = legs /\ farEnds' = farEnds
    BY <2>1, CancelTooLateEffect DEF CancelTooLate, IInv
  <2>2. ASSUME NEW o \in Orq, NEW s, ResponseInsideDialog(o, s)
        PROVE /\ m_mapDialogInfo' = m_mapDialogInfo /\ m_dialogs' = m_dialogs
              /\ legs' = legs /\ farEnds' = farEnds
    BY <2>2 DEF ResponseInsideDialog, Destroy
  <2>3. /\ m_mapDialogInfo' = m_mapDialogInfo /\ m_dialogs' = m_dialogs
        /\ legs' = legs /\ farEnds' = farEnds
    BY <2>1, <2>2 DEF InviteResponseUnexpected, TimerH, Abort, ForwardRequest,
                      ForwardRequestFails, ShutDown, InstallConfig, vars, nta, maps
  <2> QED
    BY <2>3 DEF farEnds
<1>3. ForgottenStep /\ \A l \in Leg : established'[l] => established[l] /\ l \in legs'
  BY <1>2 DEF SessionInv, SessionHasLeg, ForgottenStep
<1> QED
  BY <1>1, <1>2, <1>3, SessionsShrink

\* A callee's 200 is sent on a leg that exists and is no caller's, or stays forgotten.
LEMMA FarEndSession ==
    ASSUME IInv, LedgerInv, SessionInv, FarEndAction
    PROVE SessionInv'
<1>1. UNCHANGED <<legs, irqState, irqLeg, m_dialogs, m_mapDialogInfo, callType, cdrs>>
  BY FarEndStep DEF nta, maps, ledger
<1>2. NoTimers' /\ OpenIsKept'
  BY <1>1 DEF SessionInv, NoTimers, OpenIsKept
<1>3. Unanswered' = Unanswered
  BY <1>1 DEF Unanswered
<1>4. ASSUME NEW o \in Orq, CalleeAnswers(o) PROVE SessionInv'
  <2> DEFINE b == orqLeg[o]
             d == <<irqLeg[getAssociatedIrq(o)], b>>
  <2>1. /\ FinalInviteResponse(o) /\ forgotten' = forgotten
        /\ established' = [established EXCEPT ![b] = TRUE]
    BY <1>4 DEF CalleeAnswers, FinalInviteResponse
  <2>2. d \in m_dialogs /\ d[2] = b /\ b \in Leg
    BY <2>1, FoundBridge DEF IInv
  <2> HIDE DEF b, d
  <2>3. \A l \in Leg : established'[l] => established[l] \/ l = b
    BY <2>1 DEF IInv, TypeOK
  <2>4. SessionHasLeg'
    BY <1>1, <2>2, <2>3 DEF SessionInv, SessionHasLeg, IInv, Consistent, NoDanglingHandle
  <2>5. NotYetUp'
    <3>1. \A e \in m_dialogs : e[1] \in Leg /\ e[1] # b
      BY <2>2 DEF IInv, TypeOK, Consistent, OneToOne
    <3> QED
      BY <3>1, <1>1, <1>3, <2>3 DEF SessionInv, NotYetUp
  <2>6. ForgottenOfKnown'
    BY <1>1, <2>1 DEF SessionInv, ForgottenOfKnown, GivenUp
  <2> QED
    BY <1>2, <2>4, <2>5, <2>6 DEF SessionInv
<1>5. ASSUME NEW c \in Call, processRetransmittedResponse(c) PROVE SessionInv'
  <2>1. /\ established' = established
        /\ \A x \in Call : forgotten'[x] # "nothing" => forgotten[x] # "nothing"
    BY <1>5 DEF processRetransmittedResponse, IInv, TypeOK
  <2>2. SessionHasLeg' /\ NotYetUp'
    BY <1>1, <1>3, <2>1 DEF SessionInv, SessionHasLeg, NotYetUp
  <2>3. ForgottenOfKnown'
    BY <1>1, <2>1 DEF SessionInv, ForgottenOfKnown, GivenUp
  <2> QED
    BY <1>2, <2>2, <2>3 DEF SessionInv
<1> QED
  BY <1>4, <1>5 DEF FarEndAction

\* An answer brings the caller's leg up, whose INVITE is answered with it.
LEMMA AnsweredSession ==
    ASSUME IInv, LedgerInv, SessionInv, NEW orq \in Orq, InviteAnswered(orq)
    PROVE SessionInv'
<1> DEFINE irq == getAssociatedIrq(orq)
           a == irqLeg[irq]
           b == orqLeg[orq]
           d == <<a, b>>
<1>1. /\ FinalInviteResponse(orq) /\ Destroy({irq}, {orq}, {}) /\ m_dialogs' = m_dialogs
      /\ established' = [established EXCEPT ![getALeg(orq)] = TRUE]
      /\ forgotten' = forgotten
  BY DEF InviteAnswered
<1>2. d \in m_dialogs /\ a \in Leg /\ b \in Leg /\ getALeg(orq) = a
  BY <1>1, FoundBridge DEF IInv
<1>3. LedgerStep /\ ClosesWhatGoes /\ a \notin Unanswered'
  BY <1>2, InviteAnsweredLedger
<1>4. legs' = legs
  BY <1>1 DEF Destroy
<1>5. m_mapDialogInfo' = m_mapDialogInfo
  <2>1. m_mapDialogInfo' # m_mapDialogInfo =>
          m_mapDialogInfo[a] # NULL /\ m_mapDialogInfo[a].nSessionTimer
    BY <1>1, <1>2, FoundCall DEF InviteAnswered
  <2> QED
    BY <2>1, <1>2 DEF SessionInv, NoTimers
<1>6. NoTimers' /\ OpenIsKept'
  BY <1>3, <1>5, OpenKept DEF SessionInv, NoTimers, IInv
<1>7. a \in legs
  BY <1>2 DEF IInv, Consistent, NoDanglingHandle
<1> HIDE DEF a, b, irq
<1>8. \A l \in Leg : established'[l] => established[l] \/ l = a
  BY <1>1, <1>2 DEF IInv, TypeOK
<1>9. SessionHasLeg'
  BY <1>4, <1>7, <1>8 DEF SessionInv, SessionHasLeg
<1>10. NotYetUp'
  <2>1. \A e \in m_dialogs : e[1] \in Leg
    BY DEF IInv, TypeOK
  <2> QED
    BY <2>1, <1>1, <1>3, <1>8 DEF SessionInv, NotYetUp, LedgerStep
<1>11. ForgottenOfKnown'
  <2>1. ForgottenStep
    BY <1>1 DEF ForgottenStep
  <2> QED
    BY <2>1, <1>3, ForgottenKept DEF SessionInv, IInv
<1> QED
  BY <1>6, <1>9, <1>10, <1>11 DEF SessionInv

\* A new B leg has no session, and neither had the one it replaces.
LEMMA RetrySession ==
    ASSUME IInv, LedgerInv, SessionInv, NEW orq \in Orq,
           InviteRedirected(orq) \/ InviteCrankedBack(orq)
    PROVE SessionInv'
<1> DEFINE irq == getAssociatedIrq(orq)
           a == irqLeg[irq]
           b == orqLeg[orq]
           b2 == New(FreeLegs)
           t == m_mapTerminationAttempts[orq]
<1>1. /\ FinalInviteResponse(orq) /\ isTermination(orq)
      /\ callType' = callType /\ UNCHANGED farEnds /\ ~ established[b]
      /\ cdrs' = cdrs \/ postCdr(t.cdr, "attempt")
  BY DEF InviteRedirected, InviteCrankedBack, CalleeRefuses, ledger
<1>2. t \in TerminationAttempt
  BY <1>1 DEF isTermination, IInv, TypeOK
<1>3. PICK n \in TerminationAttempt : ReplaceBLeg(orq, n)
  <2>1. CASE InviteRedirected(orq)
    BY <2>1, <1>2 DEF InviteRedirected
  <2>2. CASE InviteCrankedBack(orq)
    <3> DEFINE n == [t EXCEPT !.nAttemptCount = @ + 1]
    <3>1. ReplaceBLeg(orq, n) /\ MayCrankback(orq)
      BY <2>2 DEF InviteCrankedBack
    <3>2. RetryLimit \in 0..UIntMax
      BY NumberAssumption DEF RetryLimit, IInv, TypeOK
    <3>3. n \in TerminationAttempt
      BY <3>1, <3>2, <1>2, NumberAssumption DEF MayCrankback, TerminationAttempt
    <3> QED
      BY <3>1, <3>3
  <2> QED
    BY <2>1, <2>2
<1>4. /\ <<a, b>> \in m_dialogs /\ a \in Leg /\ b \in Leg
  BY <1>1, FoundBridge DEF IInv
<1>5. a \in Unanswered
  BY <1>1, FoundCall
<1>6. /\ b2 \in FreeLegs
      /\ m_dialogs' = (m_dialogs \ {<<a, b>>}) \cup {<<a, b2>>}
      /\ m_mapDialogInfo[b] # NULL /\ ~ m_mapDialogInfo[b].bOrigination
      /\ m_mapDialogInfo' = [m_mapDialogInfo EXCEPT ![b2] = m_mapDialogInfo[b], ![b] = NULL]
  BY <1>1, <1>3, ReplaceEffect DEF IInv
<1>7. b2 \in Leg /\ b2 \notin legs /\ b2 # b /\ m_mapDialogInfo[b2] = NULL
  BY <1>6 DEF FreeLegs, IInv, Consistent, NoDanglingHandle
<1>8. /\ m_mapDialogInfo[b].cdr = NULL
      /\ m_mapDialogInfo'[b2] = m_mapDialogInfo[b] /\ m_mapDialogInfo'[b] = NULL
      /\ \A l \in Leg \ {b, b2} : m_mapDialogInfo'[l] = m_mapDialogInfo[l]
  BY <1>4, <1>6, <1>7 DEF LedgerInv, InfoOwnsCdr, IInv, TypeOK
<1>9. /\ legs' = (legs \ {b}) \cup {b2}
      /\ \A i \in Irq : irqState'[i] = irqState[i] /\ irqLeg'[i] \in {irqLeg[i], NULL}
  BY <1>3 DEF ReplaceBLeg
<1>10. \A c \in Call : callType[c] = "origination" => cdrs'[c] = cdrs[c]
  <2>1. t.cdr \in Call /\ callType[t.cdr] = "termination"
    BY <1>1, <1>2 DEF LedgerInv, AttemptOwnsCdr, TerminationAttempt
  <2> QED
    BY <2>1, <1>1, PostEffect DEF IInv
<1> HIDE DEF irq, a, b, b2, t
<1>11. Unanswered' \subseteq Unanswered
  BY <1>9, HandleAssumption DEF Unanswered
<1>12. NoTimers'
  BY <1>4, <1>6, <1>8 DEF SessionInv, NoTimers
<1>13. OpenIsKept'
  <2> SUFFICES ASSUME NEW c \in Call, callType[c] = "origination", cdrs[c] \in KeptLedgers
               PROVE \E l \in Leg : m_mapDialogInfo'[l] # NULL /\ m_mapDialogInfo'[l].cdr = c
    BY <1>1, <1>10 DEF OpenIsKept
  <2>1. PICK l \in Leg : m_mapDialogInfo[l] # NULL /\ m_mapDialogInfo[l].cdr = c
    BY DEF SessionInv, OpenIsKept
  <2>2. l \notin {b, b2}
    BY <2>1, <1>7, <1>8, HandleAssumption
  <2> QED
    BY <2>1, <2>2, <1>8
<1>14. established' = established /\ forgotten' = forgotten
  BY <1>1 DEF farEnds
<1>15. ~ established[a]
  BY <1>4, <1>5 DEF SessionInv, NotYetUp
<1>16. SessionHasLeg'
  BY <1>1, <1>9, <1>14 DEF SessionInv, SessionHasLeg
<1>17. NotYetUp'
  BY <1>6, <1>11, <1>14, <1>15 DEF SessionInv, NotYetUp
<1>18. ForgottenOfKnown'
  BY <1>1, <1>10, <1>14 DEF SessionInv, ForgottenOfKnown, GivenUp
<1> QED
  BY <1>12, <1>13, <1>16, <1>17, <1>18 DEF SessionInv

\* Nothing is forgotten of a call that is just offered.
LEMMA OfferedForgotten ==
    ASSUME IInv, LedgerInv, SessionInv, NEW type \in {"origination", "termination"},
           Offer(type), UNCHANGED farEnds,
           \A c \in Call : c # OfferedCall => cdrs'[c] = cdrs[c]
    PROVE ForgottenOfKnown'
<1>1. /\ callType[OfferedCall] = "none"
      /\ \A c \in Call : c # OfferedCall => callType'[c] = callType[c]
  BY OfferedIsNew DEF IInv
<1>2. \A c \in Call : forgotten'[c] # "nothing" => forgotten[c] # "nothing" /\ c # OfferedCall
  BY <1>1 DEF farEnds, SessionInv, ForgottenOfKnown
<1> QED
  BY <1>1, <1>2 DEF SessionInv, ForgottenOfKnown, GivenUp

\* An INVITE that is answered at once leaves no open ledger.
LEMMA RefusalSession ==
    ASSUME IInv, LedgerInv, SessionInv, RejectInvite \/ FailOrigination \/ FailTermination
    PROVE SessionInv'
<1> DEFINE c == OfferedCall
<1>1. /\ m_mapDialogInfo' = m_mapDialogInfo /\ m_dialogs' = m_dialogs /\ legs' = legs
      /\ irqState' = irqState /\ irqLeg' = irqLeg /\ UNCHANGED farEnds
  BY DEF RejectInvite, FailOrigination, FailTermination, nta, maps
<1>2. PICK type \in {"origination", "termination"} :
        /\ Offer(type)
        /\ IF type = "origination" THEN postCdr(c, "rejected") ELSE cdrs' = cdrs
  BY DEF RejectInvite, FailOrigination, FailTermination
<1>3. /\ c \in Call /\ cdrs[c] = <<>> /\ callType'[c] = type
      /\ \A x \in Call : x # c => callType'[x] = callType[x]
  BY <1>2, OfferedIsNew DEF IInv
<1> HIDE DEF c
<1>4. /\ \A x \in Call : x # c => cdrs'[x] = cdrs[x]
      /\ type = "origination" => cdrs'[c] \in ClosedLedgers
  <2>1. CASE type = "origination"
    <3>1. /\ cdrs'[c] = Append(cdrs[c], "rejected")
          /\ \A x \in Call : x # c => cdrs'[x] = cdrs[x]
      BY <2>1, <1>2, <1>3, PostEffect DEF IInv
    <3> QED
      BY <3>1, <1>3, LedgerSequences
  <2>2. CASE type # "origination"
    BY <2>2, <1>2
  <2> QED
    BY <2>1, <2>2
<1>5. OpenIsKept'
  BY <1>1, <1>3, <1>4, KeptNotClosed DEF SessionInv, OpenIsKept
<1>6. NoTimers' /\ SessionHasLeg' /\ NotYetUp'
  BY <1>1 DEF SessionInv, NoTimers, SessionHasLeg, NotYetUp, Unanswered, farEnds
<1>7. ForgottenOfKnown'
  BY <1>1, <1>2, <1>4, OfferedForgotten DEF c
<1> QED
  BY <1>5, <1>6, <1>7 DEF SessionInv

\* The legs of a new bridge have no session yet.
LEMMA BridgeSession ==
    ASSUME IInv, LedgerInv, SessionInv, NEW irq \in Irq, NEW orq,
           NEW a \in FreeLegs, NEW b \in FreeLegs, a # b, Bridge(irq, orq, a, b),
           UNCHANGED farEnds
    PROVE SessionHasLeg' /\ NotYetUp'
<1>0. established' = established
  BY DEF farEnds
<1>1. /\ \A d \in m_dialogs : /\ d = <<d[1], d[2]>>
                              /\ d[1] \in legs /\ d[2] \in legs
      /\ a \in Leg /\ b \in Leg /\ a \notin legs /\ b \notin legs
  BY DEF IInv, TypeOK, Consistent, NoDanglingHandle, FreeLegs
<1>2. m_dialogs' = m_dialogs \cup {<<a, b>>}
  <2>1. \A d \in m_dialogs : d[1] # a /\ d[2] # b
    BY <1>1
  <2> QED
    BY <2>1, InsertFresh DEF Bridge, addDialogs
<1>3. Unanswered' \subseteq Unanswered \cup {a}
  BY <1>1, BridgeUnanswered DEF IInv, LedgerInv
<1>4. ~ established[a]
  BY <1>1 DEF SessionInv, SessionHasLeg
<1>5. SessionHasLeg'
  BY <1>0 DEF SessionInv, SessionHasLeg, Bridge
<1>6. NotYetUp'
  BY <1>0, <1>1, <1>2, <1>3, <1>4 DEF SessionInv, NotYetUp
<1> QED
  BY <1>5, <1>6

LEMMA OriginationSession ==
    ASSUME SessionTimers = FALSE, IInv, LedgerInv, SessionInv, processOriginationRequest
    PROVE SessionInv'
<1> DEFINE a == New(FreeLegs)
           b == New(FreeLegs \ {a})
           orq == New(FreeOrqs)
           irq == New(FreeIrqs)
           c == OfferedCall
           new == [bOrigination |-> TRUE, nSessionTimer |-> FALSE, timerSet |-> FALSE,
                   cdr |-> c]
<1>1. /\ Offer("origination") /\ BridgePossible
      /\ Bridge(irq, orq, a, b) /\ postCdr(c, "request")
      /\ UNCHANGED farEnds
  BY DEF processOriginationRequest
<1>2. m_mapDialogInfo' = MapInsert(m_mapDialogInfo, a, new)
  BY DEF processOriginationRequest
<1>3. irq \in Irq /\ a \in FreeLegs /\ b \in FreeLegs /\ a # b
      /\ a \in Leg /\ m_mapDialogInfo[a] = NULL
  BY <1>1, FreshHandles DEF Offer, IInv
<1>4. /\ c \in Call /\ callType'[c] = "origination"
      /\ \A x \in Call : x # c => callType'[x] = callType[x]
  BY <1>1, OfferedIsNew DEF IInv
<1>5. /\ new \in SipDialogInfo /\ ~ new.nSessionTimer /\ ~ new.timerSet /\ new.cdr = c
  BY <1>4 DEF SipDialogInfo
<1> HIDE DEF new, a, b, orq, irq, c
<1>6. /\ m_mapDialogInfo'[a] = new /\ new # NULL
      /\ \A l \in Leg : l # a => m_mapDialogInfo'[l] = m_mapDialogInfo[l]
  BY <1>2, <1>3, <1>5, NullAssumption DEF MapInsert, IInv, TypeOK
<1>7. \A x \in Call : x # c => cdrs'[x] = cdrs[x]
  BY <1>1, <1>4, PostEffect DEF IInv
<1>8. NoTimers'
  BY <1>5, <1>6 DEF SessionInv, NoTimers
<1>9. OpenIsKept'
  <2> SUFFICES ASSUME NEW x \in Call, callType'[x] = "origination", cdrs'[x] \in KeptLedgers
               PROVE \E l \in Leg : m_mapDialogInfo'[l] # NULL /\ m_mapDialogInfo'[l].cdr = x
    BY DEF OpenIsKept
  <2>1. CASE x = c
    BY <2>1, <1>3, <1>5, <1>6
  <2>2. CASE x # c
    <3>1. PICK l \in Leg : m_mapDialogInfo[l] # NULL /\ m_mapDialogInfo[l].cdr = x
      BY <2>2, <1>4, <1>7 DEF SessionInv, OpenIsKept
    <3> QED
      BY <3>1, <1>3, <1>6
  <2> QED
    BY <2>1, <2>2
<1>10. SessionHasLeg' /\ NotYetUp'
  BY <1>1, <1>3, BridgeSession
<1>11. ForgottenOfKnown'
  BY <1>1, <1>7, OfferedForgotten DEF c
<1> QED
  BY <1>8, <1>9, <1>10, <1>11 DEF SessionInv

LEMMA TerminationSession ==
    ASSUME IInv, LedgerInv, SessionInv, processTerminationRequest
    PROVE SessionInv'
<1> DEFINE a == New(FreeLegs)
           b == New(FreeLegs \ {a})
           orq == New(FreeOrqs)
           irq == New(FreeIrqs)
           c == OfferedCall
           new == [bOrigination |-> FALSE, nSessionTimer |-> FALSE,
                   timerSet |-> FALSE, cdr |-> NULL]
<1>1. /\ Offer("termination") /\ BridgePossible /\ Bridge(irq, orq, a, b)
      /\ m_mapDialogInfo' = MapInsert(m_mapDialogInfo, b, new)
      /\ cdrs' = cdrs /\ UNCHANGED farEnds
  BY DEF processTerminationRequest
<1>2. irq \in Irq /\ a \in FreeLegs /\ b \in FreeLegs /\ a # b
      /\ b \in Leg /\ m_mapDialogInfo[b] = NULL
  BY <1>1, FreshHandles DEF Offer, IInv
<1>3. /\ c \in Call /\ callType'[c] = "termination"
      /\ \A x \in Call : x # c => callType'[x] = callType[x]
  BY <1>1, OfferedIsNew DEF IInv
<1>4. ~ new.nSessionTimer /\ ~ new.timerSet
  OBVIOUS
<1> HIDE DEF new, a, b, orq, irq, c
<1>5. /\ m_mapDialogInfo'[b] = new
      /\ \A l \in Leg : l # b => m_mapDialogInfo'[l] = m_mapDialogInfo[l]
  BY <1>1, <1>2 DEF MapInsert, IInv, TypeOK
<1>6. NoTimers'
  BY <1>4, <1>5 DEF SessionInv, NoTimers
<1>7. OpenIsKept'
  <2> SUFFICES ASSUME NEW x \in Call, callType'[x] = "origination", cdrs[x] \in KeptLedgers
               PROVE \E l \in Leg : m_mapDialogInfo'[l] # NULL /\ m_mapDialogInfo'[l].cdr = x
    BY <1>1 DEF OpenIsKept
  <2>1. PICK l \in Leg : m_mapDialogInfo[l] # NULL /\ m_mapDialogInfo[l].cdr = x
    BY <1>3 DEF SessionInv, OpenIsKept
  <2> QED
    BY <2>1, <1>2, <1>5
<1>8. SessionHasLeg' /\ NotYetUp'
  BY <1>1, <1>2, BridgeSession
<1>9. ForgottenOfKnown'
  BY <1>1, OfferedForgotten
<1> QED
  BY <1>6, <1>7, <1>8, <1>9 DEF SessionInv

\* Every handler keeps the sessions; the session timer's needs a timer that was armed.
LEMMA SessionPreserved ==
    ASSUME SessionTimers = FALSE
    PROVE IInv /\ LedgerInv /\ SessionInv /\ [Next]_vars => SessionInv'
<1> SUFFICES ASSUME IInv, LedgerInv, SessionInv, [Next]_vars PROVE SessionInv'
  OBVIOUS
<1>1. CASE NewCall
  BY <1>1, RefusalSession, OriginationSession, TerminationSession DEF NewCall
<1>2. ASSUME NEW o \in Orq, InviteResponse(o) PROVE SessionInv'
  BY <1>2, RetrySession, RejectedSession, AnsweredSession, QuietSession DEF InviteResponse
<1>3. CASE \E o \in Orq, s \in {"200", "failure"} : ResponseInsideDialog(o, s)
  BY <1>3, QuietSession
<1>4. CASE \E i \in Irq : CallerStep(i)
  BY <1>4, CancelSession, QuietSession DEF CallerStep
<1>5. ASSUME NEW l \in Leg, RequestInsideDialog(l) PROVE SessionInv'
  BY <1>5, ByeSession, QuietSession DEF RequestInsideDialog
<1>6. ASSUME NEW l \in Leg, SessionRefreshTimer(l) PROVE FALSE
  BY <1>6 DEF SessionRefreshTimer, SessionInv, NoTimers
<1>7. CASE ShutDown \/ InstallConfig \/ UNCHANGED vars
  BY <1>7, QuietSession
<1>8. CASE FarEndAction
  BY <1>8, FarEndSession
<1> QED
  BY <1>1, <1>2, <1>3, <1>4, <1>5, <1>6, <1>7, <1>8 DEF Next, FarEndAction

\* Without session timers the ledgers and the sessions agree throughout.
THEOREM SessionInvariance ==
    ASSUME SessionTimers = FALSE
    PROVE Spec => []SessionInv
<1>1. Init => SessionInv
  <2> SUFFICES ASSUME Init PROVE SessionInv
    OBVIOUS
  <2> QED
    BY DEF Init, SessionInv, NoTimers, OpenIsKept, SessionHasLeg, NotYetUp, ForgottenOfKnown
<1>2. IInv /\ LedgerInv /\ SessionInv /\ [Next]_vars => SessionInv'
  BY SessionPreserved
<1> QED
  BY <1>1, <1>2, Invariance, LedgerInvariance, PTL DEF Spec

\* Without session timers, a far end in a session is on a leg the controller still has, so
\* that a BYE from the other side reaches it; the only one that is not is a callee whose 200
\* crossed the end of its INVITE (processRetransmittedResponse), and then the CDRs of its
\* call say failed or cancelled, for good.  Only Bye, and the end of an INVITE
\* (InviteRejected, Cancel), destroy a leg with a session, and the second is a callee's.
THEOREM NoSessionOrphaned ==
    ASSUME SessionTimers = FALSE
    PROVE Spec => []NoOrphanSession
<1>1. SessionInv => NoOrphanSession
  BY DEF SessionInv, NoOrphanSession, StraysGivenUp, ForgottenOfKnown
<1> QED
  BY <1>1, SessionInvariance, PTL

\* What LedgerInv and OpenIsKept say of the ledgers is CdrLedger.
LEMMA LedgerAgrees ==
    ASSUME IInv, LedgerInv, OpenIsKept
    PROVE CdrLedger
<1> SUFFICES ASSUME NEW c \in Call, callType[c] = "origination"
             PROVE /\ cdrs[c] \in {<<"rejected">>, <<"request">>,
                        <<"request", "answered">>, <<"request", "failed">>,
                        <<"request", "cancelled">>, <<"request", "cleared">>,
                        <<"request", "answered", "cleared">>}
                   /\ cdrs[c][Len(cdrs[c])] \in Open <=>
                        \E l \in Leg : m_mapDialogInfo[l] # NULL /\ m_mapDialogInfo[l].cdr = c
  BY DEF CdrLedger
<1>1. cdrs[c] \in KeptLedgers \cup ClosedLedgers
  BY DEF LedgerInv, LedgerShape
<1>2. cdrs[c] \in KeptLedgers <=> cdrs[c][Len(cdrs[c])] \in Open
  BY <1>1, LedgerSequences
<1>3. cdrs[c] \in KeptLedgers <=>
        \E l \in Leg : m_mapDialogInfo[l] # NULL /\ m_mapDialogInfo[l].cdr = c
  BY HandleAssumption DEF OpenIsKept, LedgerInv, KeptIsOpen
<1>4. cdrs[c] \in {<<"rejected">>, <<"request">>,
                   <<"request", "answered">>, <<"request", "failed">>,
                   <<"request", "cancelled">>, <<"request", "cleared">>,
                   <<"request", "answered", "cleared">>}
  BY <1>1, Zenon DEF KeptLedgers, ClosedLedgers
<1> QED
  BY <1>2, <1>3, <1>4

\* Without session timers an origination's CDRs are opened once, answered at most once
\* and closed exactly when the controller lets go of the dialog, whichever of the two
\* far ends answers, fails, cancels or hangs up first.
THEOREM LedgerComplete ==
    ASSUME SessionTimers = FALSE
    PROVE Spec => []CdrLedger
<1>1. IInv /\ LedgerInv /\ SessionInv => CdrLedger
  BY LedgerAgrees DEF SessionInv
<1> QED
  BY <1>1, Invariance, LedgerInvariance, SessionInvariance, PTL

\* Only processWatchdogTimer stops the process, with no dialog left, and nothing
\* happens after it.
LEMMA StoppedPreserved == StoppedEmpty /\ [Next]_vars => StoppedEmpty'
<1> SUFFICES ASSUME StoppedEmpty, [Next]_vars PROVE StoppedEmpty'
  OBVIOUS
<1>1. CASE ShutDown
  BY <1>1 DEF ShutDown, StoppedEmpty, maps
<1>2. CASE UNCHANGED vars
  BY <1>2 DEF vars, maps, StoppedEmpty
<1>3. CASE NewCall \/ InstallConfig
  BY <1>3 DEF NewCall, RejectInvite, FailOrigination, FailTermination, Offer,
              processOriginationRequest, processTerminationRequest, InstallConfig, Running,
              StoppedEmpty
<1>4. ASSUME NEW o \in Orq, InviteResponse(o) PROVE process' # "stopped"
  BY <1>4 DEF InviteResponse, InviteResponseUnexpected, InviteLookup, Abort, InviteAnswered,
              InviteRedirected, InviteCrankedBack, InviteRejected, InviteCrankbackFails,
              CalleeRefuses, FinalInviteResponse, Running, Assert
<1>5. ASSUME NEW o \in Orq, NEW s, ResponseInsideDialog(o, s) PROVE process' # "stopped"
  BY <1>5 DEF ResponseInsideDialog, Running
<1>6. ASSUME NEW i \in Irq, CallerStep(i) PROVE process' # "stopped"
  BY <1>6 DEF CallerStep, CancelTooLate, Cancel, TimerH, Abort, Running, Assert
<1>7. ASSUME NEW l \in Leg, RequestInsideDialog(l) \/ SessionRefreshTimer(l)
      PROVE process' # "stopped"
  BY <1>7 DEF RequestInsideDialog, Bye, ForwardRequest, ForwardRequestFails,
              SessionRefreshTimer, Running, Assert
<1>8. CASE FarEndAction
  BY <1>8 DEF FarEndAction, CalleeAnswers, processRetransmittedResponse, Running, StoppedEmpty
<1> QED
  BY <1>1, <1>2, <1>3, <1>4, <1>5, <1>6, <1>7, <1>8 DEF Next, FarEndAction, StoppedEmpty

\* Option -i stops a process that owes nothing: no leg, no dialog info and no open
\* ledger is left behind, although processWatchdogTimer looks at neither of the last two.
THEOREM StopsClean ==
    ASSUME SessionTimers = FALSE
    PROVE Spec => []StoppedClean
<1>1. Init => StoppedEmpty
  BY DEF Init, StoppedEmpty
<1>2. IInv /\ CdrLedger /\ StoppedEmpty => StoppedClean
  <2> SUFFICES ASSUME IInv, CdrLedger, StoppedEmpty, process = "stopped"
               PROVE /\ legs = {}
                     /\ \A l \in Leg : m_mapDialogInfo[l] = NULL
                     /\ \A c \in Call : callType[c] = "origination" =>
                          cdrs[c][Len(cdrs[c])] \notin Open
    BY DEF StoppedClean
  <2>1. legs = {}
    BY DEF IInv, Consistent, NoLostHandle, StoppedEmpty
  <2>2. \A l \in Leg : m_mapDialogInfo[l] = NULL
    BY <2>1 DEF IInv, Consistent, NoDanglingHandle
  <2> QED
    BY <2>1, <2>2 DEF CdrLedger
<1> QED
  BY <1>1, <1>2, StoppedPreserved, Invariance, LedgerComplete, PTL DEF Spec

-----------------------------------------------------------------------------
(* What is posted is what SessionEvents promises *)

Elements(s) == {s[i] : i \in 1..Len(s)}
Ledgers == KeptLedgers \cup ClosedLedgers

\* The events in a sequence that is written out, and after one more.
LEMMA ElementsOf ==
    /\ Elements(<<>>) = {}
    /\ \A x : Elements(<<x>>) = {x}
    /\ \A x, y : Elements(<<x, y>>) = {x, y}
    /\ \A x, y, z : Elements(<<x, y, z>>) = {x, y, z}
<1>1. Elements(<<>>) = {}
  BY DEF Elements
<1>2. ASSUME NEW x PROVE Elements(<<x>>) = {x}
  <2>1. Len(<<x>>) = 1 /\ <<x>>[1] = x
    OBVIOUS
  <2>2. 1..1 = {1}
    OBVIOUS
  <2> QED
    BY <2>1, <2>2 DEF Elements
<1>3. ASSUME NEW x, NEW y PROVE Elements(<<x, y>>) = {x, y}
  <2>1. Len(<<x, y>>) = 2 /\ <<x, y>>[1] = x /\ <<x, y>>[2] = y
    OBVIOUS
  <2>2. 1..2 = {1, 2}
    OBVIOUS
  <2> QED
    BY <2>1, <2>2 DEF Elements
<1>4. ASSUME NEW x, NEW y, NEW z PROVE Elements(<<x, y, z>>) = {x, y, z}
  <2>1. /\ Len(<<x, y, z>>) = 3 /\ <<x, y, z>>[1] = x /\ <<x, y, z>>[2] = y
        /\ <<x, y, z>>[3] = z
    OBVIOUS
  <2>2. 1..3 = {1, 2, 3}
    OBVIOUS
  <2> QED
    BY <2>1, <2>2 DEF Elements
<1> QED
  BY <1>1, <1>2, <1>3, <1>4

LEMMA ElementsNext ==
    ASSUME NEW S, NEW s \in Seq(S), NEW e
    PROVE  Elements(Append(s, e)) = Elements(s) \cup {e}
<1>1. /\ Len(s) \in Nat /\ Len(Append(s, e)) = Len(s) + 1
      /\ Append(s, e)[Len(s) + 1] = e
      /\ \A i \in 1..Len(s) : Append(s, e)[i] = s[i]
  OBVIOUS
<1>2. 1..(Len(s) + 1) = 1..Len(s) \cup {Len(s) + 1}
  BY <1>1
<1> QED
  BY <1>1, <1>2 DEF Elements

\* The shapes of a ledger.
LEMMA LedgerCases ==
    ASSUME NEW q \in Ledgers
    PROVE  \/ \E x \in {"request", "rejected"} : q = <<x>>
           \/ \E y \in {"answered", "failed", "cancelled", "cleared"} : q = <<"request", y>>
           \/ q = <<"request", "answered", "cleared">>
<1>1. \/ q = <<"rejected">> \/ q = <<"request">>
      \/ q = <<"request", "answered">> \/ q = <<"request", "failed">>
      \/ q = <<"request", "cancelled">> \/ q = <<"request", "cleared">>
      \/ q = <<"request", "answered", "cleared">>
  BY Zenon DEF Ledgers, KeptLedgers, ClosedLedgers
<1> QED
  BY <1>1, Zenon

\* Which event can follow which ledger, if the ledger stays one of the possible ones.
LEMMA LedgerOrder ==
    ASSUME NEW s \in Ledgers \cup {<<>>}, NEW e, Append(s, e) \in Ledgers
    PROVE  \/ s = <<>> /\ e \in {"request", "rejected"}
           \/ s = <<"request">> /\ e \in {"answered", "failed", "cancelled", "cleared"}
           \/ s = <<"request", "answered">> /\ e = "cleared"
<1> DEFINE t == Append(s, e)
<1>1. \A q \in Ledgers :
        \/ Len(q) = 1 /\ q[1] \in {"request", "rejected"}
        \/ Len(q) = 2 /\ q[1] = "request" /\ q[2] \in {"answered", "failed", "cancelled", "cleared"}
        \/ Len(q) = 3 /\ q[1] = "request" /\ q[2] = "answered" /\ q[3] = "cleared"
  <2> SUFFICES ASSUME NEW q \in Ledgers
               PROVE  \/ Len(q) = 1 /\ q[1] \in {"request", "rejected"}
                      \/ /\ Len(q) = 2 /\ q[1] = "request"
                         /\ q[2] \in {"answered", "failed", "cancelled", "cleared"}
                      \/ Len(q) = 3 /\ q[1] = "request" /\ q[2] = "answered" /\ q[3] = "cleared"
    BY Zenon
  <2>1. CASE \E x \in {"request", "rejected"} : q = <<x>>
    BY <2>1
  <2>2. CASE \E y \in {"answered", "failed", "cancelled", "cleared"} : q = <<"request", y>>
    BY <2>2
  <2>3. CASE q = <<"request", "answered", "cleared">>
    BY <2>3
  <2> QED
    BY <2>1, <2>2, <2>3, LedgerCases
<1>2. /\ Len(t) = Len(s) + 1 /\ t[Len(s) + 1] = e
      /\ Len(s) \in Nat
      /\ \A i \in 1..Len(s) : t[i] = s[i]
  <2>1. s \in Seq(CdrTypes)
    <3>1. /\ <<>> \in Seq(CdrTypes)
          /\ \A x \in CdrTypes : <<x>> \in Seq(CdrTypes)
          /\ \A x, y \in CdrTypes : <<x, y>> \in Seq(CdrTypes)
          /\ \A x, y, z \in CdrTypes : <<x, y, z>> \in Seq(CdrTypes)
      OBVIOUS
    <3>2. /\ "request" \in CdrTypes /\ "rejected" \in CdrTypes /\ "answered" \in CdrTypes
          /\ "failed" \in CdrTypes /\ "cancelled" \in CdrTypes /\ "cleared" \in CdrTypes
      BY DEF CdrTypes
    <3> QED
      BY <3>1, <3>2, ZenonT(40) DEF Ledgers, KeptLedgers, ClosedLedgers
  <2> QED
    BY <2>1
<1>3. t \in Ledgers
  OBVIOUS
<1>4. CASE s = <<>>
  <2>1. Len(s) = 0
    BY <1>4
  <2> QED
    BY <1>1, <1>2, <1>3, <1>4, <2>1
<1>5. CASE s \in Ledgers
  <2> HIDE DEF t
  <2>1. \/ Len(s) = 1 /\ s[1] = "request" /\ e \in {"answered", "failed", "cancelled", "cleared"}
        \/ Len(s) = 2 /\ s[2] = "answered" /\ e = "cleared"
    <3>1. CASE Len(s) = 1
      <4>1. Len(t) = 2 /\ t[2] = e /\ t[1] = s[1]
        BY <1>2, <3>1
      <4> QED
        BY <1>1, <1>3, <3>1, <4>1
    <3>2. CASE Len(s) = 2
      <4>1. Len(t) = 3 /\ t[3] = e /\ t[2] = s[2]
        BY <1>2, <3>2
      <4> QED
        BY <1>1, <1>3, <3>2, <4>1
    <3>3. CASE Len(s) = 3
      <4>1. Len(t) = 4
        BY <1>2, <3>3
      <4>2. Len(t) \in 1..3
        BY <1>1, <1>3
      <4> QED
        BY <4>1, <4>2
    <3> QED
      BY <1>1, <1>5, <3>1, <3>2, <3>3
  <2>2. \A q \in Ledgers : /\ Len(q) = 1 /\ q[1] = "request" => q = <<"request">>
                           /\ Len(q) = 2 /\ q[2] = "answered" => q = <<"request", "answered">>
    <3> SUFFICES ASSUME NEW q \in Ledgers
                 PROVE  /\ Len(q) = 1 /\ q[1] = "request" => q = <<"request">>
                        /\ Len(q) = 2 /\ q[2] = "answered" => q = <<"request", "answered">>
      BY Zenon
    <3>1. CASE \E x \in {"request", "rejected"} : q = <<x>>
      <4>1. PICK x : q = <<x>>
        BY <3>1
      <4>2. Len(q) = 1 /\ q[1] = x
        BY <4>1
      <4> QED
        BY <4>1, <4>2
    <3>2. CASE \E y \in {"answered", "failed", "cancelled", "cleared"} : q = <<"request", y>>
      <4>1. PICK y : q = <<"request", y>>
        BY <3>2
      <4>2. Len(q) = 2 /\ q[2] = y
        BY <4>1
      <4> QED
        BY <4>1, <4>2
    <3>3. CASE q = <<"request", "answered", "cleared">>
      <4>1. Len(q) = 3
        BY <3>3
      <4> QED
        BY <4>1
    <3> QED
      BY <3>1, <3>2, <3>3, LedgerCases
  <2> QED
    BY <1>5, <2>1, <2>2
<1> QED
  BY <1>4, <1>5

\* The events of every call, before and after a step.
LEMMA EventsValue ==
    /\ \A c \in Call : SessionEventsOf[c] =
         IF callType[c] = "origination" THEN Elements(cdrs[c]) ELSE {}
    /\ \A c \in Call : SessionEventsOf'[c] =
         IF callType'[c] = "origination" THEN Elements(cdrs'[c]) ELSE {}
BY DEF SessionEventsOf, Elements

\* The events of all calls are unchanged, or those of one call are not.
LEMMA EventsSame ==
    ASSUME \A c \in Call : SessionEventsOf'[c] = SessionEventsOf[c]
    PROVE  SessionEventsOf' = SessionEventsOf
<1>1. /\ SessionEventsOf' = [c \in Call |-> SessionEventsOf'[c]]
      /\ SessionEventsOf = [c \in Call |-> SessionEventsOf[c]]
  BY DEF SessionEventsOf
<1> QED
  BY <1>1, Zenon

LEMMA EventsPost ==
    ASSUME NEW c \in Call, NEW e, SessionEventsOf'[c] = SessionEventsOf[c] \cup {e},
           \A x \in Call \ {c} : SessionEventsOf'[x] = SessionEventsOf[x],
           process' = "stopped" <=> process = "stopped"
    PROVE  Accounting!Post(c, e)
<1>1. /\ SessionEventsOf' = [x \in Call |-> SessionEventsOf'[x]]
      /\ SessionEventsOf = [x \in Call |-> SessionEventsOf[x]]
  BY DEF SessionEventsOf
<1>2. SessionEventsOf' = [SessionEventsOf EXCEPT ![c] = @ \cup {e}]
  BY <1>1
<1>3. (process' = "stopped") = (process = "stopped")
  OBVIOUS
<1> QED
  BY <1>2, <1>3 DEF Accounting!Post

\* A handler that posts one CDR, of a call that is new or already known.
LEMMA PostedEvent ==
    ASSUME TypeOK, LedgerInv, LedgerInv', NEW c \in Call, NEW e, postCdr(c, e),
           Running, process' # "stopped",
           \/ callType'[c] = callType[c]
           \/ callType[c] = "none" /\ callType'[c] = "origination",
           \A x \in Call \ {c} : callType'[x] = callType[x]
    PROVE  [Accounting!Next]_(Accounting!vars)
<1>1. /\ cdrs'[c] = Append(cdrs[c], e)
      /\ \A x \in Call \ {c} : cdrs'[x] = cdrs[x]
  BY PostEffect
<1>2. \A x \in Call \ {c} : SessionEventsOf'[x] = SessionEventsOf[x]
  BY <1>1, EventsValue
<1>3. (process' = "stopped") = FALSE /\ (process = "stopped") = FALSE
  BY DEF Running
<1>4. CASE callType'[c] # "origination"
  <2>1. SessionEventsOf'[c] = SessionEventsOf[c]
    BY <1>4, EventsValue
  <2>2. SessionEventsOf' = SessionEventsOf
    BY <1>2, <2>1, EventsSame
  <2> QED
    BY <1>3, <2>2 DEF Accounting!vars
<1>5. CASE callType'[c] = "origination"
  <2>1. cdrs[c] \in Ledgers \cup {<<>>} /\ cdrs'[c] \in Ledgers
    BY <1>5 DEF LedgerInv, LedgerShape, OfferedUnrecorded, Ledgers
  <2>2. cdrs[c] = <<>> <=> SessionEventsOf[c] = {}
    <3>1. cdrs[c] \in Ledgers => Elements(cdrs[c]) # {}
      <4> SUFFICES ASSUME NEW q \in Ledgers PROVE \E x : x \in Elements(q)
        BY Zenon
      <4>1. CASE \E x : q = <<x>>
        BY <4>1, ElementsOf
      <4>2. CASE \E x, y : q = <<x, y>>
        BY <4>2, ElementsOf
      <4>3. CASE \E x, y, z : q = <<x, y, z>>
        BY <4>3, ElementsOf
      <4> QED
        BY <4>1, <4>2, <4>3, LedgerCases, Zenon
    <3>2. Elements(<<>>) = {}
      BY ElementsOf
    <3>3. callType[c] # "origination" => cdrs[c] = <<>>
      BY <1>5 DEF LedgerInv, OfferedUnrecorded
    <3> QED
      BY <2>1, <3>1, <3>2, <3>3, EventsValue
  <2>3. SessionEventsOf[c] = Elements(cdrs[c])
    <3>1. callType[c] # "origination" => cdrs[c] = <<>>
      BY <1>5 DEF LedgerInv, OfferedUnrecorded
    <3> QED
      BY <3>1, ElementsOf, EventsValue
  <2>4. SessionEventsOf'[c] = SessionEventsOf[c] \cup {e}
    <3>1. cdrs[c] \in Seq(CdrTypes)
      BY DEF TypeOK
    <3>2. Elements(cdrs'[c]) = Elements(cdrs[c]) \cup {e}
      BY <1>1, <3>1, ElementsNext
    <3> QED
      BY <1>5, <2>3, <3>2, EventsValue
  <2>5. Accounting!Post(c, e)
    BY <1>2, <1>3, <2>4, EventsPost
  <2>6. \/ cdrs[c] = <<>> /\ e \in {"request", "rejected"}
        \/ cdrs[c] = <<"request">> /\ e \in {"answered", "failed", "cancelled", "cleared"}
        \/ cdrs[c] = <<"request", "answered">> /\ e = "cleared"
    BY <1>1, <2>1, LedgerOrder
  <2>7. CASE cdrs[c] = <<>> /\ e \in {"request", "rejected"}
    <3>1. Accounting!Offer(c)
      BY <2>2, <2>5, <2>7 DEF Accounting!Offer
    <3> QED
      BY <1>3, <3>1 DEF Accounting!Next
  <2>8. CASE cdrs[c] = <<"request">> /\ e \in {"answered", "failed", "cancelled", "cleared"}
    <3>1. SessionEventsOf[c] = {"request"}
      BY <2>3, <2>8, ElementsOf
    <3>2. Accounting!Open(c) /\ Accounting!Ringing(c)
      BY <3>1 DEF Accounting!Open, Accounting!Ringing
    <3>3. Accounting!FinalResponse(c) \/ Accounting!Cancel(c) \/ Accounting!Clear(c)
      BY <2>5, <2>8, <3>2 DEF Accounting!FinalResponse, Accounting!Cancel, Accounting!Clear
    <3> QED
      BY <1>3, <3>3 DEF Accounting!Next
  <2>9. CASE cdrs[c] = <<"request", "answered">> /\ e = "cleared"
    <3>1. SessionEventsOf[c] = {"request", "answered"}
      BY <2>3, <2>9, ElementsOf
    <3>2. Accounting!Open(c)
      BY <3>1 DEF Accounting!Open
    <3>3. Accounting!Clear(c)
      BY <2>5, <2>9, <3>2 DEF Accounting!Clear
    <3> QED
      BY <1>3, <3>3 DEF Accounting!Next
  <2> QED
    BY <2>6, <2>7, <2>8, <2>9
<1> QED
  BY <1>4, <1>5

\* A step that posts nothing, or only for a termination.
LEMMA NothingPosted ==
    ASSUME Running, process' # "stopped", callType' = callType,
           \A c \in Call : callType[c] = "origination" => cdrs'[c] = cdrs[c]
    PROVE  UNCHANGED Accounting!vars
<1>1. SessionEventsOf' = SessionEventsOf
  BY EventsValue, EventsSame
<1>2. (process' = "stopped") = (process = "stopped")
  BY DEF Running
<1> QED
  BY <1>1, <1>2 DEF Accounting!vars

\* A new call.
LEMMA OfferedEvent ==
    ASSUME IInv, LedgerInv, LedgerInv', NewCall
    PROVE  [Accounting!Next]_(Accounting!vars)
<1>1. Running /\ process' # "stopped"
  BY DEF NewCall, RejectInvite, FailOrigination, FailTermination, processOriginationRequest,
         processTerminationRequest, Offer, Running
<1>2. ASSUME NEW type \in {"origination", "termination"}, Offer(type)
      PROVE  /\ OfferedCall \in Call /\ callType[OfferedCall] = "none"
             /\ callType'[OfferedCall] = type
             /\ \A c \in Call \ {OfferedCall} : callType'[c] = callType[c]
  BY <1>2, OfferedIsNew DEF IInv
<1>3. CASE \E e : Offer("origination") /\ postCdr(OfferedCall, e)
  BY <1>1, <1>2, <1>3, PostedEvent DEF IInv
<1>4. CASE Offer("termination") /\ cdrs' = cdrs
  <2>1. \A c \in Call : SessionEventsOf'[c] = SessionEventsOf[c]
    BY <1>2, <1>4, EventsValue
  <2>2. SessionEventsOf' = SessionEventsOf
    BY <2>1, EventsSame
  <2>3. (process' = "stopped") = (process = "stopped")
    BY <1>1 DEF Running
  <2> QED
    BY <2>2, <2>3 DEF Accounting!vars
<1> QED
  BY <1>3, <1>4 DEF NewCall, RejectInvite, FailOrigination, FailTermination,
                    processOriginationRequest, processTerminationRequest

\* A handler posts for a call that it knows, or for none.
LEMMA KnownEvent ==
    ASSUME TypeOK, LedgerInv, LedgerInv', NEW c, NEW e, postCdr(c, e), Running,
           process' # "stopped", callType' = callType
    PROVE  [Accounting!Next]_(Accounting!vars)
<1>1. CASE c \in Call
  BY <1>1, PostedEvent
<1>2. CASE c \notin Call
  <2>1. cdrs' = cdrs
    BY <1>2 DEF postCdr, TypeOK
  <2> QED
    BY <2>1, NothingPosted
<1> QED
  BY <1>1, <1>2

\* Every handler posts what SessionEvents allows next, and the process stops only when
\* nothing is owed.
LEMMA EventStep ==
    IInv /\ IInv' /\ LedgerInv /\ LedgerInv' /\ StoppedClean' /\ [Next]_vars
        => [Accounting!Next]_(Accounting!vars)
<1> SUFFICES ASSUME IInv, LedgerInv, LedgerInv', StoppedClean', [Next]_vars
             PROVE  [Accounting!Next]_(Accounting!vars)
  OBVIOUS
<1>0. TypeOK
  BY DEF IInv
<1>1. CASE NewCall
  BY <1>1, OfferedEvent
<1>2. ASSUME NEW o \in Orq, InviteResponse(o) PROVE [Accounting!Next]_(Accounting!vars)
  <2>1. Running /\ process' # "stopped"
    BY <1>2 DEF InviteResponse, InviteResponseUnexpected, InviteLookup, Abort, InviteAnswered,
                InviteRedirected, InviteCrankedBack, InviteRejected, InviteCrankbackFails,
                CalleeRefuses, FinalInviteResponse, Running, Assert
  <2>2. CASE InviteResponseUnexpected(o) \/ InviteRedirected(o)
    BY <2>1, <2>2, NothingPosted DEF InviteResponseUnexpected, InviteRedirected, Abort, ledger
  <2>3. CASE InviteAnswered(o) \/ InviteRejected(o) \/ InviteCrankedBack(o)
    <3>1. \E c, e : postCdr(c, e) /\ callType' = callType
      BY <2>3 DEF InviteAnswered, InviteRejected, InviteCrankedBack
    <3> QED
      BY <1>0, <2>1, <3>1, KnownEvent
  <2>4. CASE InviteCrankbackFails(o)
    <3>1. isTermination(o) /\ getCdrInfo(o) = m_mapTerminationAttempts[o].cdr
      BY <2>4 DEF InviteCrankbackFails, getCdrInfo
    <3>2. callType[getCdrInfo(o)] = "termination" /\ callType' = callType
      BY <2>4, <3>1 DEF InviteCrankbackFails, LedgerInv, AttemptOwnsCdr
    <3>3. \A c \in Call : c # getCdrInfo(o) => cdrs'[c] = cdrs[c]
      BY <1>0, <2>4 DEF InviteCrankbackFails, TypeOK
    <3> QED
      BY <2>1, <3>2, <3>3, NothingPosted
  <2> QED
    BY <1>2, <2>2, <2>3, <2>4 DEF InviteResponse
<1>3. ASSUME NEW o \in Orq, NEW s, ResponseInsideDialog(o, s)
      PROVE  [Accounting!Next]_(Accounting!vars)
  BY <1>3, NothingPosted DEF ResponseInsideDialog, Running, ledger
<1>4. ASSUME NEW i \in Irq, CallerStep(i) PROVE [Accounting!Next]_(Accounting!vars)
  <2>1. Running /\ process' # "stopped" /\ callType' = callType
    BY <1>4 DEF CallerStep, CancelTooLate, Cancel, TimerH, Abort, Running, Assert, ledger
  <2>2. cdrs' = cdrs \/ \E c, e : postCdr(c, e)
    BY <1>4 DEF CallerStep, CancelTooLate, Cancel, TimerH, Abort, ledger
  <2> QED
    BY <1>0, <2>1, <2>2, KnownEvent, NothingPosted
<1>5. ASSUME NEW l \in Leg, RequestInsideDialog(l) \/ SessionRefreshTimer(l)
      PROVE  [Accounting!Next]_(Accounting!vars)
  <2>1. Running /\ process' # "stopped" /\ callType' = callType
    BY <1>5 DEF RequestInsideDialog, Bye, ForwardRequest, ForwardRequestFails,
                SessionRefreshTimer, Running, Assert, ledger
  <2>2. cdrs' = cdrs \/ \E c, e : postCdr(c, e)
    BY <1>5 DEF RequestInsideDialog, Bye, ForwardRequest, ForwardRequestFails,
                SessionRefreshTimer, ledger
  <2> QED
    BY <1>0, <2>1, <2>2, KnownEvent, NothingPosted
<1>6. CASE InstallConfig
  BY <1>6, NothingPosted DEF InstallConfig, Running, ledger
<1>7. CASE UNCHANGED vars
  <2>1. callType' = callType /\ cdrs' = cdrs /\ process' = process
    BY <1>7 DEF vars, ledger
  <2>2. SessionEventsOf' = SessionEventsOf
    BY <2>1, EventsValue, EventsSame
  <2> QED
    BY <2>1, <2>2 DEF Accounting!vars
<1>8. CASE ShutDown
  <2>1. callType' = callType /\ cdrs' = cdrs /\ process = "running" /\ process' = "stopped"
    BY <1>8 DEF ShutDown, Running, ledger
  <2>2. SessionEventsOf' = SessionEventsOf
    BY <2>1, EventsValue, EventsSame
  <2>3. ASSUME NEW c \in Call PROVE ~Accounting!Open(c)
    <3>1. CASE callType[c] # "origination"
      <4>1. SessionEventsOf[c] = {}
        BY <3>1, EventsValue
      <4> QED
        BY <4>1 DEF Accounting!Open
    <3>2. CASE callType[c] = "origination"
      <4>1. cdrs[c] \in Ledgers /\ cdrs[c][Len(cdrs[c])] \notin Open
        BY <2>1, <3>2 DEF StoppedClean, LedgerInv, LedgerShape, Ledgers
      <4>2. cdrs[c] \in ClosedLedgers
        BY <4>1, LedgerSequences DEF Ledgers
      <4>3. SessionEventsOf[c] = Elements(cdrs[c])
        BY <3>2, EventsValue
      <4>4. \/ cdrs[c] = <<"rejected">>
            \/ \E y \in {"failed", "cancelled", "cleared"} : cdrs[c] = <<"request", y>>
            \/ cdrs[c] = <<"request", "answered", "cleared">>
        BY <4>2, Zenon DEF ClosedLedgers
      <4>5. \/ SessionEventsOf[c] = {"rejected"}
            \/ \E y \in {"failed", "cancelled", "cleared"} : SessionEventsOf[c] = {"request", y}
            \/ SessionEventsOf[c] = {"request", "answered", "cleared"}
        <5>1. CASE cdrs[c] = <<"rejected">>
          BY <4>3, <5>1, ElementsOf
        <5>2. CASE \E y \in {"failed", "cancelled", "cleared"} : cdrs[c] = <<"request", y>>
          <6>1. PICK y \in {"failed", "cancelled", "cleared"} : cdrs[c] = <<"request", y>>
            BY <5>2
          <6>2. SessionEventsOf[c] = {"request", y}
            BY <4>3, <6>1, ElementsOf
          <6> QED
            BY <6>2
        <5>3. CASE cdrs[c] = <<"request", "answered", "cleared">>
          BY <4>3, <5>3, ElementsOf
        <5> QED
          BY <4>4, <5>1, <5>2, <5>3
      <4> QED
        BY <4>5 DEF Accounting!Open
    <3> QED
      BY <3>1, <3>2
  <2>4. (process = "stopped") = FALSE /\ (process' = "stopped") = TRUE
    BY <2>1
  <2>5. Accounting!Stop
    BY <2>2, <2>3, <2>4 DEF Accounting!Stop
  <2> QED
    BY <2>4, <2>5 DEF Accounting!Next
<1>9. CASE FarEndAction
  BY <1>9, NothingPosted
     DEF FarEndAction, CalleeAnswers, processRetransmittedResponse, Running, ledger
<1> QED
  BY <1>1, <1>2, <1>3, <1>4, <1>5, <1>6, <1>7, <1>8, <1>9 DEF Next, FarEndAction

\* Without session timers, what the controller posts for its originations (postCdr) is a
\* behaviour of SessionEvents, for any number of calls and handles: the events of a call
\* come in one of the orders that the CdrWriter is made for, and the watchdog stops the
\* process only when the end of every call has been posted.
THEOREM PostsSessionEvents ==
    ASSUME SessionTimers = FALSE
    PROVE  Spec => ImplementsSessionEvents
<1>1. Init => Accounting!Init
  <2> SUFFICES ASSUME Init PROVE Accounting!Init
    OBVIOUS
  <2>1. SessionEventsOf = [c \in Call |-> {}]
    BY DEF Init, SessionEventsOf
  <2>2. (process = "stopped") = FALSE
    BY DEF Init
  <2> QED
    BY <2>1, <2>2 DEF Accounting!Init
<1>2. IInv /\ IInv' /\ LedgerInv /\ LedgerInv' /\ StoppedClean' /\ [Next]_vars
        => [Accounting!Next]_(Accounting!vars)
  BY EventStep
<1> QED
  BY <1>1, <1>2, Invariance, LedgerInvariance, StopsClean, PTL
     DEF Spec, ImplementsSessionEvents, Accounting!Spec

=============================================================================
