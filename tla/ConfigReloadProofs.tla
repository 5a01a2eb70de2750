------------------------- MODULE ConfigReloadProofs -------------------------
(***************************************************************************)
(* Proofs about ConfigReload, for any files and any number of calls.  The  *)
(* first part holds however many threads take the signal; the second needs *)
(* that only the main thread does, so that the handler is over before the  *)
(* watchdog goes on (with two threads TLC refutes it).                     *)
(***************************************************************************)
EXTENDS ConfigReload, FiniteSetTheorems, WellFoundedInduction, TLAPS

\* Where the main thread has a configuration: everywhere but after a copy of what
\* another thread has discarded.
Configured ==
    Alive /\ pc \in {"idle", "test", "install", "copy", "stats"} => m_Config \in File

CountdownLeft == process = "running" => counter # 0

\* What the parts of the process are made from, also in the middle of an installation.
PartsAgree ==
    process = "running" =>
        /\ pc \in {"idle", "test", "install", "copy", "stats"} =>
             /\ m_nTerminationRetries = TerminationRetries[m_Config]
             /\ getCdrConnectInfo(Content[m_Config]) \in {"", m_cdrWriter}
        /\ pc \in {"idle", "test", "install", "copy"} =>
             m_stats = getStatsPort(Content[m_Config])

\* The watchdog looks at the tables of the agent that runs.
ModeKept == ~modeChanged /\ m_Config \in File => Mode[m_Config] = agent

EndsEmpty == process \in {"stopping", "stopped"} => calls = 0 \/ modeChanged

IInv == TypeOK /\ Configured /\ CountdownLeft /\ PartsAgree /\ ModeKept /\ EndsEmpty

-----------------------------------------------------------------------------
(* What a file is read into *)

\* A set of natural numbers has a least element.
LEMMA LeastOf ==
    ASSUME NEW S, S \subseteq Nat, S # {}
    PROVE  \E i \in S : \A j \in S : i <= j
<1> DEFINE R == OpToRel(<, Nat)
<1>1. IsWellFoundedOn(R, Nat)
  BY NatLessThanWellFounded
<1>2. \A i, j \in Nat : i < j => <<i, j>> \in R
  BY DEF OpToRel
<1> HIDE DEF R
<1>3. PICK x \in S : \A y \in S : ~ (<<y, x>> \in R)
  BY <1>1, WFMin
<1>4. \A y \in S : y \in Nat /\ x \in Nat /\ ~(y < x)
  BY <1>2, <1>3
<1>5. \A y \in S : x <= y
  BY <1>4
<1> QED BY <1>5

\* The images of the members of a finite set.
LEMMA ImagesFinite ==
    ASSUME NEW S, IsFiniteSet(S), NEW g
    PROVE  IsFiniteSet({g[x] : x \in S})
<1> DEFINE T == {g[x] : x \in S}
           h == [x \in S |-> g[x]]
<1>1. h \in Surjection(S, T)
  BY DEF Surjection
<1> HIDE DEF T, h
<1>2. IsFiniteSet(T)
  BY <1>1, FS_Surjection
<1> QED BY <1>2 DEF T

\* A function on 1..n is a sequence of its values.
LEMMA IsSequence ==
    ASSUME NEW U, NEW n \in Nat, NEW g, g = [i \in 1..n |-> g[i]],
           \A i \in 1..n : g[i] \in U
    PROVE  g \in Seq(U)
<1>1. g \in [1..n -> U]
  BY Zenon
<1> QED BY <1>1

\* FlattenSeq is defined: its prefixes can be joined one by one.
LEMMA FlattenDefined ==
    ASSUME NEW T, NEW seqs \in Seq(Seq(T)), Len(seqs) # 0
    PROVE  \E h \in [1..Len(seqs) -> Seq(T)] :
             /\ h = [i \in 1..Len(seqs) |-> IF i = 1 THEN seqs[i] ELSE h[i - 1] \o seqs[i]]
<1> DEFINE Joins(h, n) == \A i \in 1..n : h[i] = IF i = 1 THEN seqs[i] ELSE h[i - 1] \o seqs[i]
           bad == {n \in 1..Len(seqs) : ~\E h \in [1..n -> Seq(T)] : Joins(h, n)}
<1>1. Len(seqs) \in Nat /\ \A i \in 1..Len(seqs) : seqs[i] \in Seq(T)
  OBVIOUS
<1>2. bad = {}
  <2> SUFFICES ASSUME bad # {} PROVE FALSE
    OBVIOUS
  <2>1. PICK n \in bad : \A k \in bad : n <= k
    <3>1. bad \subseteq Nat
      BY <1>1
    <3> HIDE DEF bad
    <3> QED BY <3>1, LeastOf
  <2>2. CASE n = 1
    <3> DEFINE g == [i \in 1..n |-> seqs[1]]
    <3>1. seqs[1] \in Seq(T) /\ \A i \in 1..n : i = 1
      BY <1>1, <2>1, <2>2
    <3>2. g \in [1..n -> Seq(T)] /\ Joins(g, n)
      BY <3>1
    <3> HIDE DEF g
    <3> QED BY <2>1, <3>2
  <2>3. CASE n # 1
    <3>0. n \in 2..Len(seqs) /\ n - 1 \in 1..Len(seqs) /\ ~(n <= n - 1)
      BY <1>1, <2>1, <2>3
    <3>1. n \in 2..Len(seqs) /\ n - 1 \in 1..Len(seqs) /\ n - 1 \notin bad
      <4> HIDE DEF bad
      <4> QED BY <2>1, <3>0
    <3>2. PICK h \in [1..(n - 1) -> Seq(T)] : Joins(h, n - 1)
      BY <3>1
    <3> DEFINE g == [i \in 1..n |-> IF i = n THEN h[n - 1] \o seqs[n] ELSE h[i]]
    <3>3. h[n - 1] \in Seq(T) /\ seqs[n] \in Seq(T)
      BY <1>1, <3>1, <3>2
    <3>4. h[n - 1] \o seqs[n] \in Seq(T)
      BY <3>3
    <3>5. g \in [1..n -> Seq(T)]
      BY <3>1, <3>4
    <3>6. Joins(g, n)
      <4> SUFFICES ASSUME NEW i \in 1..n
                   PROVE  g[i] = IF i = 1 THEN seqs[i] ELSE g[i - 1] \o seqs[i]
        OBVIOUS
      <4>1. CASE i = n
        <5>1. i # 1 /\ i - 1 \in 1..n /\ i - 1 # n
          BY <3>1, <4>1
        <5>2. g[i - 1] = h[n - 1] /\ g[i] = h[n - 1] \o seqs[n]
          BY <4>1, <5>1
        <5> QED BY <4>1, <5>1, <5>2
      <4>2. CASE i # n
        <5>1. i \in 1..(n - 1) /\ g[i] = h[i] /\ (i # 1 => g[i - 1] = h[i - 1])
          BY <3>1, <4>2
        <5> QED BY <3>2, <5>1
      <4> QED BY <4>1, <4>2
    <3> HIDE DEF g
    <3> QED BY <2>1, <3>5, <3>6
  <2> QED BY <2>2, <2>3
<1>3. PICK h \in [1..Len(seqs) -> Seq(T)] : Joins(h, Len(seqs))
  <2>1. Len(seqs) \in 1..Len(seqs)
    BY <1>1
  <2> HIDE DEF Joins
  <2> QED BY <1>2, <2>1
<1> QED BY <1>3

\* The members of a flattened sequence are members of its parts.
LEMMA FlattenMembers ==
    ASSUME NEW T, NEW seqs \in Seq(Seq(T))
    PROVE  FlattenSeq(seqs) \in Seq(T)
<1>1. CASE Len(seqs) = 0
  <2>1. FlattenSeq(seqs) = seqs
    BY <1>1 DEF FlattenSeq
  <2>2. seqs \in Seq(T)
    BY <1>1
  <2> QED BY <2>1, <2>2
<1>2. CASE Len(seqs) # 0
  <2> DEFINE IsFlat(h) == h = [i \in 1..Len(seqs) |-> IF i = 1 THEN seqs[i]
                                                      ELSE h[i - 1] \o seqs[i]]
             flat == CHOOSE h : IsFlat(h)
  <2>1. FlattenSeq(seqs) = flat[Len(seqs)]
    BY <1>2, Zenon DEF FlattenSeq
  <2>2. PICK h \in [1..Len(seqs) -> Seq(T)] : IsFlat(h)
    BY <1>2, FlattenDefined, Zenon
  <2>3. IsFlat(flat)
    BY <2>2, Zenon
  <2> HIDE DEF flat
  <2>4. Len(seqs) \in Nat \ {0} /\ \A i \in 1..Len(seqs) : seqs[i] \in Seq(T)
    BY <1>2
  <2> DEFINE bad == {n \in 1..Len(seqs) : flat[n] \notin Seq(T)}
  <2>5. bad = {}
    <3> SUFFICES ASSUME bad # {} PROVE FALSE
      OBVIOUS
    <3>1. PICK n \in bad : \A k \in bad : n <= k
      <4>1. bad \subseteq Nat
        BY <2>4
      <4> HIDE DEF bad
      <4> QED BY <4>1, LeastOf
    <3>2. flat[n] = IF n = 1 THEN seqs[n] ELSE flat[n - 1] \o seqs[n]
      BY <2>3
    <3>3. n # 1 => flat[n - 1] \in Seq(T)
      BY <2>4, <3>1
    <3>4. flat[n] \in Seq(T)
      <4>1. CASE n = 1
        BY <2>4, <3>2, <4>1
      <4>2. CASE n # 1
        <5>1. seqs[n] \in Seq(T) /\ flat[n] = flat[n - 1] \o seqs[n]
          BY <2>4, <3>2, <4>2
        <5> QED BY <3>3, <4>2, <5>1
      <4> QED BY <4>1, <4>2
    <3> QED BY <3>4
  <2> QED BY <2>1, <2>4, <2>5
<1> QED BY <1>1, <1>2

\* Min of a set of natural numbers is its least element.
LEMMA MinOf ==
    ASSUME NEW S, S \subseteq Nat, S # {}
    PROVE  Min(S) \in S /\ \A j \in S : Min(S) <= j
  BY LeastOf, Zenon DEF Min

\* vecTrunks is a sequence of trunks of the carrier.
LEMMA TrunksKept ==
    ASSUME NEW v, Len(v.outbound) \in Nat
    PROVE  vecTrunks(v) \in Seq({v.outbound[j] : j \in 1..Len(v.outbound)})
<1> DEFINE T == {v.outbound[j] : j \in 1..Len(v.outbound)}
           parts == [j \in 1..Len(v.outbound) |->
                       IF v.outbound[j].status = "inactive" THEN <<>> ELSE <<v.outbound[j]>>]
<1>1. ASSUME NEW j \in 1..Len(v.outbound) PROVE parts[j] \in Seq(T)
  <2>1. v.outbound[j] \in T
    OBVIOUS
  <2> HIDE DEF T
  <2>2. <<>> \in Seq(T) /\ <<v.outbound[j]>> \in Seq(T)
    BY <2>1
  <2> QED BY <2>2
<1>2. parts \in Seq(Seq(T))
  <2>1. parts = [j \in 1..Len(v.outbound) |-> parts[j]]
    BY Zenon
  <2> HIDE DEF T, parts
  <2> QED BY <1>1, <2>1, IsSequence
<1>3. vecTrunks(v) = FlattenSeq(parts)
  BY Zenon DEF vecTrunks
<1> HIDE DEF T, parts
<1>4. FlattenSeq(parts) \in Seq(T)
  BY <1>2, FlattenMembers
<1>5. vecTrunks(v) \in Seq(T)
  BY <1>3, <1>4
<1> QED BY <1>5 DEF T

\* The elements of a file by which calls are routed.
Terminating(c) == {i \in 1..Len(c.carriers) : Terminates(c.carriers[i])}

\* Only carriers with a trunk have turns.
LEMMA TurnsTerminate ==
    ASSUME NEW f \in File
    PROVE  m_vecTerminationCarrier(Content[f])
             \in Seq({Content[f].carriers[i].name : i \in Terminating(Content[f])})
<1> DEFINE c == Content[f]
           T == {c.carriers[i].name : i \in Terminating(c)}
           parts == [i \in 1..Len(c.carriers) |->
                       IF Terminates(c.carriers[i])
                       THEN [j \in 1..c.carriers[i].qty |-> c.carriers[i].name] ELSE <<>>]
<1>1. Len(c.carriers) \in Nat /\ \A i \in 1..Len(c.carriers) : c.carriers[i].qty \in Nat
  BY FileAssumption
<1>2. ASSUME NEW i \in 1..Len(c.carriers) PROVE parts[i] \in Seq(T)
  <2>1. CASE Terminates(c.carriers[i])
    <3>1. c.carriers[i].name \in T
      BY <2>1 DEF Terminating
    <3> HIDE DEF T, c
    <3>2. [j \in 1..c.carriers[i].qty |-> c.carriers[i].name] \in Seq(T)
      BY <1>1, <3>1
    <3> QED BY <2>1, <3>2
  <2>2. CASE ~Terminates(c.carriers[i])
    <3> HIDE DEF T, c
    <3>1. <<>> \in Seq(T)
      OBVIOUS
    <3> QED BY <2>2, <3>1
  <2> QED BY <2>1, <2>2
<1>3. parts \in Seq(Seq(T))
  <2>1. parts = [i \in 1..Len(c.carriers) |-> parts[i]]
    BY Zenon
  <2> HIDE DEF T, parts, c
  <2> QED BY <1>1, <1>2, <2>1, IsSequence
<1>4. m_vecTerminationCarrier(c) = FlattenSeq(parts)
  BY Zenon DEF m_vecTerminationCarrier
<1> HIDE DEF T, parts
<1>5. FlattenSeq(parts) \in Seq(T)
  BY <1>3, FlattenMembers
<1>6. m_vecTerminationCarrier(c) \in Seq(T)
  BY <1>4, <1>5
<1> QED BY <1>6 DEF T

\* The route of a name is that of an element with a trunk.
LEMMA RouteOfName ==
    ASSUME NEW f \in File
    PROVE  LET c == Content[f]
               routes == m_mapTerminationCarrierByName(c)
           IN /\ DOMAIN routes = {c.carriers[i].name : i \in Terminating(c)}
              /\ \A name \in DOMAIN routes :
                   \E i \in Terminating(c) : routes[name] = vecTrunks(c.carriers[i])
<1> DEFINE c == Content[f]
           of(name) == {i \in Terminating(c) : c.carriers[i].name = name}
           routes == m_mapTerminationCarrierByName(c)
<1>1. routes = [name \in {c.carriers[i].name : i \in Terminating(c)} |->
                  vecTrunks(c.carriers[Min(of(name))])]
  BY Zenon DEF m_mapTerminationCarrierByName, Terminating
<1>2. Terminating(c) \subseteq Nat
  BY FileAssumption DEF Terminating
<1>3. ASSUME NEW name \in {c.carriers[i].name : i \in Terminating(c)}
      PROVE Min(of(name)) \in Terminating(c)
  <2>1. of(name) # {} /\ of(name) \subseteq Nat
    BY <1>2
  <2>2. Min(of(name)) \in of(name)
    <3> HIDE DEF of
    <3> QED BY <2>1, MinOf
  <2> QED BY <2>2
<1> HIDE DEF of, routes
<1>4. /\ DOMAIN routes = {c.carriers[i].name : i \in Terminating(c)}
      /\ \A name \in DOMAIN routes : routes[name] = vecTrunks(c.carriers[Min(of(name))])
  BY <1>1, Zenon
<1>5. \A name \in DOMAIN routes :
        \E i \in Terminating(c) : routes[name] = vecTrunks(c.carriers[i])
  BY <1>3, <1>4
<1> QED BY <1>4, <1>5 DEF routes

\* A valid file can route.
LEMMA ValidRoutes == ValidFile \subseteq Routable
<1> SUFFICES ASSUME NEW f \in ValidFile PROVE f \in Routable
  OBVIOUS
<1> DEFINE c == Content[f]
           turns == m_vecTerminationCarrier(c)
           routes == m_mapTerminationCarrierByName(c)
           names == {c.carriers[i].name : i \in Terminating(c)}
<1>1. f \in File /\ turns # <<>>
  BY DEF ValidFile, isValid
<1>2. turns \in Seq(names)
  BY <1>1, TurnsTerminate
<1>3. /\ DOMAIN routes = names
      /\ \A name \in DOMAIN routes :
           \E i \in Terminating(c) : routes[name] = vecTrunks(c.carriers[i])
  BY <1>1, RouteOfName, Zenon
<1>4. \A i \in Terminating(c) : vecTrunks(c.carriers[i]) # <<>>
  BY DEF Terminating, Terminates
<1>5. \A name \in DOMAIN routes : routes[name] # <<>>
  BY <1>3, <1>4, Zenon
<1>6. \A i \in DOMAIN turns : turns[i] \in names
  <2> HIDE DEF turns, names
  <2> QED BY <1>2
<1>7. \A i \in DOMAIN turns : turns[i] \in DOMAIN routes /\ routes[turns[i]] # <<>>
  BY <1>3, <1>5, <1>6, Zenon
<1> QED BY <1>1, <1>7, Zenon DEF Routable

\* getCountOfOutboundTrunks counts, and finds a trunk in a file that can route.
LEMMA TrunksCounted ==
    ASSUME NEW f \in File
    PROVE  /\ getCountOfOutboundTrunks(Content[f]) \in Nat
           /\ f \in ValidFile => getCountOfOutboundTrunks(Content[f]) # 0
<1> DEFINE c == Content[f]
           routes == m_mapTerminationCarrierByName(c)
           of(name) == {name} \X DOMAIN routes[name]
           all == UNION {of(name) : name \in DOMAIN routes}
<1>1. /\ DOMAIN routes = {c.carriers[i].name : i \in Terminating(c)}
      /\ \A name \in DOMAIN routes :
           \E i \in Terminating(c) : routes[name] = vecTrunks(c.carriers[i])
  BY RouteOfName, Zenon
<1>2. IsFiniteSet(DOMAIN routes)
  <2>1. IsFiniteSet(1..Len(c.carriers))
    <3>1. Len(c.carriers) \in Nat
      BY FileAssumption
    <3> HIDE DEF c
    <3> QED BY <3>1, FS_Interval
  <2>2. IsFiniteSet(Terminating(c))
    BY <2>1, FS_Subset DEF Terminating
  <2>3. IsFiniteSet({c.carriers[i].name : i \in Terminating(c)})
    <3> DEFINE g == [i \in Terminating(c) |-> c.carriers[i].name]
    <3>1. {g[i] : i \in Terminating(c)} = {c.carriers[i].name : i \in Terminating(c)}
      OBVIOUS
    <3> HIDE DEF g
    <3> QED BY <2>2, <3>1, ImagesFinite
  <2> QED BY <1>1, <2>3
<1>3. ASSUME NEW name \in DOMAIN routes
      PROVE  /\ \E n \in Nat : DOMAIN routes[name] = 1..n
             /\ DOMAIN routes[name] # {}
  <2>1. PICK i \in Terminating(c) : routes[name] = vecTrunks(c.carriers[i])
    BY <1>1
  <2> DEFINE T == {c.carriers[i].outbound[j] : j \in 1..Len(c.carriers[i].outbound)}
  <2>2. Len(c.carriers[i].outbound) \in Nat
    BY FileAssumption DEF Terminating
  <2>3. vecTrunks(c.carriers[i]) \in Seq(T)
    BY <2>2, TrunksKept
  <2>4. vecTrunks(c.carriers[i]) # <<>>
    BY DEF Terminating, Terminates
  <2> DEFINE trunks == routes[name]
  <2>5. trunks \in Seq(T) /\ trunks # <<>>
    BY <2>1, <2>3, <2>4
  <2> HIDE DEF T, trunks
  <2>6. Len(trunks) \in Nat /\ DOMAIN trunks = 1..Len(trunks) /\ Len(trunks) # 0
    BY <2>5
  <2>7. DOMAIN trunks # {}
    BY <2>6
  <2> QED BY <2>6, <2>7 DEF trunks
<1>4. ASSUME NEW name \in DOMAIN routes PROVE IsFiniteSet(of(name))
  <2>1. IsFiniteSet({name})
    BY FS_Singleton
  <2>2. IsFiniteSet(DOMAIN routes[name])
    BY <1>3, FS_Interval
  <2> QED BY <2>1, <2>2, FS_Product
<1>5. IsFiniteSet(all)
  <2> HIDE DEF of
  <2>1. IsFiniteSet({of(name) : name \in DOMAIN routes})
    <3> DEFINE g == [name \in DOMAIN routes |-> of(name)]
    <3>1. {g[name] : name \in DOMAIN routes} = {of(name) : name \in DOMAIN routes}
      OBVIOUS
    <3> HIDE DEF g
    <3> QED BY <1>2, <3>1, ImagesFinite
  <2>2. \A S \in {of(name) : name \in DOMAIN routes} : IsFiniteSet(S)
    BY <1>4, Zenon
  <2> QED BY <2>1, <2>2, FS_UNION
<1>6. getCountOfOutboundTrunks(c) = Cardinality(all)
  BY Zenon DEF getCountOfOutboundTrunks
<1>7. getCountOfOutboundTrunks(c) \in Nat
  BY <1>5, <1>6, FS_CardinalityType
<1>8. ASSUME f \in ValidFile PROVE all # {}
  <2> DEFINE turns == m_vecTerminationCarrier(c)
  <2>1. f \in Routable
    BY <1>8, ValidRoutes
  <2>2. turns # <<>> /\ \A i \in DOMAIN turns : turns[i] \in DOMAIN routes
    BY <2>1, Zenon DEF Routable
  <2>3. turns \in Seq({c.carriers[i].name : i \in Terminating(c)})
    BY TurnsTerminate
  <2>4. 1 \in DOMAIN turns
    <3> HIDE DEF turns
    <3> QED BY <2>2, <2>3
  <2>5. turns[1] \in DOMAIN routes
    BY <2>2, <2>4
  <2>6. PICK j : j \in DOMAIN routes[turns[1]]
    BY <1>3, <2>5
  <2> HIDE DEF turns, routes
  <2>7. <<turns[1], j>> \in of(turns[1])
    BY <2>6
  <2> HIDE DEF of
  <2> QED BY <2>5, <2>7
<1>9. f \in ValidFile => getCountOfOutboundTrunks(c) # 0
  BY <1>5, <1>6, <1>8, FS_EmptySet, Zenon
<1> QED BY <1>7, <1>9

\* min(trunks, max-termination-attempts), and when it is 0.
LEMMA RetriesOfFile ==
    /\ TerminationRetries \in [File -> Nat]
    /\ \A f \in ValidFile :
         TerminationRetries[f] = 0 => getMaxTerminationAttempts(Content[f]) = 0
<1>1. ASSUME NEW f \in File
      PROVE  LET n == getCountOfOutboundTrunks(Content[f])
                 m == getMaxTerminationAttempts(Content[f])
             IN TerminationRetries[f] \in {n, m} /\ {n, m} \subseteq Nat
  <2> DEFINE n == getCountOfOutboundTrunks(Content[f])
             m == getMaxTerminationAttempts(Content[f])
  <2>1. {n, m} \subseteq Nat /\ {n, m} # {}
    BY TrunksCounted, FileAssumption
  <2>2. TerminationRetries[f] = Min({n, m})
    BY Zenon DEF TerminationRetries
  <2> HIDE DEF n, m
  <2>3. Min({n, m}) \in {n, m}
    BY <2>1, MinOf
  <2> QED BY <2>1, <2>2, <2>3 DEF n, m
<1>2. \A f \in File : TerminationRetries[f] \in Nat
  BY <1>1
<1>3. TerminationRetries \in [File -> Nat]
  BY <1>2, Zenon DEF TerminationRetries
<1>4. \A f \in ValidFile : f \in File /\ getCountOfOutboundTrunks(Content[f]) # 0
  BY TrunksCounted DEF ValidFile
<1> QED BY <1>1, <1>3, <1>4

-----------------------------------------------------------------------------
\* The handler changes nothing of the configuration that is installed.
LEMMA HandlerStep ==
    ASSUME IInv, \E t \in Thread : handleSigHup(t)
    PROVE IInv'
<1> USE DEF IInv
<1>2. ASSUME NEW t \in Thread, Signal(t) PROVE IInv'
  BY <1>2, ZenonT(40) DEF Signal, TypeOK, Configured, CountdownLeft, PartsAgree, ModeKept, EndsEmpty,
              Alive, config, service, history
<1>3. ASSUME NEW t \in Thread, ReadFile(t) PROVE IInv'
  BY <1>3 DEF ReadFile, TypeOK, Configured, CountdownLeft, PartsAgree, ModeKept, EndsEmpty,
              Alive, config, service, history
<1>4. ASSUME NEW t \in Thread, Validate(t) PROVE IInv'
  <2>1. /\ accepted' \in File
        /\ handler' \in [Thread -> {"none", "reading", "validating", "discarding"}]
        /\ process' \in {process, "238 null"}
        /\ UNCHANGED <<m_ConfigNew, config, service, pc, modeChanged>>
    BY <1>4 DEF Validate, TypeOK
  <2>2. TypeOK'
    BY <2>1 DEF TypeOK, config, service
  <2>3. CASE process' = process
    BY <2>1, <2>2, <2>3 DEF Configured, CountdownLeft, PartsAgree, ModeKept, EndsEmpty, Alive,
                            config, service
  <2>4. CASE process' = "238 null"
    BY <2>1, <2>2, <2>4 DEF Configured, CountdownLeft, PartsAgree, ModeKept, EndsEmpty, Alive,
                            config, service
  <2> QED
    BY <2>1, <2>3, <2>4
<1>5. ASSUME NEW t \in Thread, Discard(t) PROVE IInv'
  BY <1>5 DEF Discard, TypeOK, Configured, CountdownLeft, PartsAgree, ModeKept, EndsEmpty,
              Alive, config, service, history
<1> QED
  BY <1>2, <1>3, <1>4, <1>5 DEF handleSigHup

\* What a pass does before it looks for a new configuration.
LEMMA PassEffect ==
    ASSUME IInv, Tick
    PROVE /\ calls' \in 0..MaxCalls /\ counter' \in 0..IdlePasses
          /\ process' \in {"running", "stopping"} /\ m_cdrWriter' \in Databases
          /\ process' = "running" => counter' # 0 /\ m_cdrWriter' = m_cdrWriter
          /\ process' = "stopping" => calls' = 0 \/ modeChanged
<1> USE DEF IInv
<1>1. /\ process = "running" /\ pc = "idle" /\ m_Config \in File
      /\ calls \in 0..MaxCalls /\ counter \in 0..IdlePasses /\ counter # 0
      /\ m_cdrWriter \in Databases /\ agent \in {"stateful", "stateless"}
  BY DEF Tick, TypeOK, Configured, CountdownLeft, Alive
<1>2. MaxCalls \in Nat /\ IdlePasses \in Nat
  BY ReloadAssumption
<1>3. CASE Mode[m_Config] = "stateless"
  <2>1. StatelessPass
    BY <1>3 DEF Tick
  <2>2. calls' \in 0..MaxCalls /\ m_cdrWriter' = m_cdrWriter
    BY <1>1, <1>2, <2>1 DEF StatelessPass
  <2>3. counter' \in {counter, counter - 1} /\ process' \in {"running", "stopping"}
    BY <1>1, <2>1 DEF StatelessPass
  <2>4. process' = "running" => counter' # 0
    BY <1>1, <2>1 DEF StatelessPass
  <2>5. process' = "stopping" => CallsOf("stateless", calls') = 0
    BY <1>1, <2>1 DEF StatelessPass
  <2>6. ~modeChanged => agent = "stateless"
    BY <1>1, <1>3 DEF ModeKept
  <2>7. process' = "stopping" => calls' = 0 \/ modeChanged
    BY <2>5, <2>6 DEF CallsOf, TypeOK
  <2> QED
    BY <1>1, <1>2, <2>2, <2>3, <2>4, <2>7
<1>4. CASE Mode[m_Config] # "stateless"
  <2>1. StatefulPass
    BY <1>4 DEF Tick
  <2>2. ~modeChanged => agent = "stateful"
    BY <1>1, <1>4 DEF ModeKept
  <2>3. UNCHANGED <<calls, counter>> /\ process' \in {"running", "stopping"}
    BY <1>1, <2>1 DEF StatefulPass
  <2>4. /\ m_cdrWriter' \in Databases
        /\ process' = "running" => m_cdrWriter' = m_cdrWriter
    BY <1>1, <2>1 DEF StatefulPass, Databases
  <2>5. process' = "stopping" => calls' = 0 \/ modeChanged
    BY <1>1, <2>1, <2>2 DEF StatefulPass, CallsOf, TypeOK
  <2> QED
    BY <1>1, <2>3, <2>4, <2>5
<1> QED
  BY <1>3, <1>4

\* The pass.
LEMMA TickStep ==
    ASSUME IInv, Tick
    PROVE IInv'
<1> USE DEF IInv
<1>1. /\ calls' \in 0..MaxCalls /\ counter' \in 0..IdlePasses
      /\ process' \in {"running", "stopping"} /\ m_cdrWriter' \in Databases
      /\ process' = "running" => counter' # 0 /\ m_cdrWriter' = m_cdrWriter
      /\ process' = "stopping" => calls' = 0 \/ modeChanged
  BY PassEffect
<1>2. /\ process = "running" /\ pc = "idle" /\ pc' = "test"
      /\ UNCHANGED <<m_ConfigNew, m_Config, m_nTerminationRetries, m_stats, agent,
                     m_nIterationCount, handler, accepted, modeChanged>>
  BY DEF Tick, history
<1>3. TypeOK'
  BY <1>1, <1>2 DEF TypeOK
<1> QED
  BY <1>1, <1>2, <1>3 DEF Configured, CountdownLeft, PartsAgree, ModeKept, EndsEmpty, Alive

\* The end of a pass.
LEMMA ReturnStep ==
    ASSUME IInv, TestNew \/ OpenStats
    PROVE IInv'
<1> USE DEF IInv
<1>1. CASE TestNew
  <2>1. /\ pc = "test" /\ pc' \in {"idle", "install"}
        /\ \/ process = "stopping" /\ process' = "stopped" /\ m_Config' = NULL
           \/ UNCHANGED <<process, m_Config>>
        /\ UNCHANGED <<m_ConfigNew, m_nTerminationRetries, m_stats, m_cdrWriter, service,
                       handler, history>>
    BY <1>1 DEF TestNew, Return
  <2>2. TypeOK'
    BY <2>1 DEF TypeOK, service, history
  <2>3. NULL \notin File
    BY ReloadAssumption
  <2> QED
    BY <2>1, <2>2, <2>3 DEF Configured, CountdownLeft, PartsAgree, ModeKept, EndsEmpty, Alive,
                            service, history
<1>2. CASE OpenStats
  <2>1. /\ MainRuns /\ pc = "stats" /\ m_stats' = getStatsPort(Content[m_Config])
        /\ pc' = "idle"
        /\ \/ process = "stopping" /\ process' = "stopped" /\ m_Config' = NULL
           \/ process # "stopping" /\ UNCHANGED <<process, m_Config>>
        /\ UNCHANGED <<m_ConfigNew, m_nTerminationRetries, m_cdrWriter, service, handler,
                       history>>
    BY <1>2 DEF OpenStats, Return
  <2>2. m_Config \in File
    BY <2>1 DEF MainRuns, Configured
  <2>3. m_stats' \in Ports
    BY <2>1, <2>2 DEF Ports
  <2>4. TypeOK'
    BY <2>1, <2>2, <2>3 DEF TypeOK, service, history
  <2>5. NULL \notin File
    BY ReloadAssumption
  <2> QED
    BY <2>1, <2>2, <2>4, <2>5 DEF Configured, CountdownLeft, PartsAgree, ModeKept, EndsEmpty,
                                  Alive, service, history
<1> QED
  BY <1>1, <1>2

\* Within the installation.
LEMMA InstallStep ==
    ASSUME IInv, TestInstall \/ Copy \/ Reset \/ Rest \/ BindFails
    PROVE IInv'
<1> USE DEF IInv
<1>1. CASE TestInstall
  BY <1>1 DEF TestInstall, TypeOK, Configured, CountdownLeft, PartsAgree, ModeKept, EndsEmpty,
              Alive, config, service, history
<1>2. CASE Copy
  <2>1. /\ m_Config' = m_ConfigNew /\ pc' = "reset"
        /\ modeChanged' \in BOOLEAN /\ (modeChanged => modeChanged')
        /\ ~modeChanged' /\ m_ConfigNew # NULL => Mode[m_ConfigNew] = agent
        /\ UNCHANGED <<process, m_ConfigNew, m_nTerminationRetries, m_stats, m_cdrWriter,
                       service, handler, accepted>>
    BY <1>2 DEF Copy, TypeOK
  <2>2. NULL \notin File
    BY ReloadAssumption
  <2>3. TypeOK'
    BY <2>1 DEF TypeOK, service
  <2> QED
    BY <2>1, <2>2, <2>3 DEF Configured, CountdownLeft, PartsAgree, ModeKept, EndsEmpty, Alive,
                            service
<1>3. CASE Reset
  BY <1>3 DEF Reset, TypeOK, Configured, CountdownLeft, PartsAgree, ModeKept, EndsEmpty,
              Alive, config, service, history
<1>4. CASE Rest /\ m_Config = NULL
  <2>1. process' = "206 null" /\ UNCHANGED <<m_nTerminationRetries, m_cdrWriter, pc,
            m_Config, m_ConfigNew, m_stats, service, handler, history>>
    BY <1>4 DEF Rest
  <2> QED
    BY <2>1 DEF TypeOK, Configured, CountdownLeft, PartsAgree, ModeKept, EndsEmpty, Alive,
                service, history
<1>5. CASE Rest /\ m_Config # NULL
  <2>1. /\ m_Config \in File /\ pc' = "stats"
        /\ m_nTerminationRetries' = TerminationRetries[m_Config]
        /\ m_cdrWriter' = IF getCdrConnectInfo(Content[m_Config]) # ""
                          THEN getCdrConnectInfo(Content[m_Config]) ELSE m_cdrWriter
        /\ UNCHANGED <<process, m_Config, m_ConfigNew, m_stats, service, handler, history>>
    BY <1>5 DEF Rest, TypeOK
  <2>2. m_nTerminationRetries' \in Nat
    BY <2>1, RetriesOfFile
  <2>3. m_cdrWriter' \in Databases
    <3>1. getCdrConnectInfo(Content[m_Config]) \in Databases /\ m_cdrWriter \in Databases
      BY <2>1 DEF Databases, TypeOK
    <3> QED
      BY <2>1, <3>1
  <2>4. TypeOK'
    BY <2>1, <2>2, <2>3 DEF TypeOK, service, history
  <2> QED
    BY <2>1, <2>4 DEF Configured, CountdownLeft, PartsAgree, ModeKept, EndsEmpty, Alive,
                      service, history
<1>6. CASE BindFails
  <2>1. 0 \in Ports
    BY DEF Ports
  <2> QED
    BY <1>6, <2>1 DEF BindFails, TypeOK, Configured, CountdownLeft, PartsAgree, ModeKept,
                      EndsEmpty, Alive, service, history
<1> QED
  BY <1>1, <1>2, <1>3, <1>4, <1>5, <1>6

\* Calls come and go, and the process that has ended stays so.
LEMMA CallStep ==
    ASSUME IInv, NewCall \/ EndCall \/ UNCHANGED vars
    PROVE IInv'
<1> USE DEF IInv
<1>1. CASE NewCall \/ EndCall
  <2>1. /\ process = "running" /\ calls \in 0..MaxCalls /\ MaxCalls \in Nat
        /\ m_nIterationCount \in Nat \cup {-1}
    BY <1>1, ReloadAssumption DEF NewCall, EndCall, TypeOK
  <2>2. calls' \in 0..MaxCalls /\ m_nIterationCount' \in Nat \cup {-1}
    BY <1>1, <2>1 DEF NewCall, EndCall
  <2>3. UNCHANGED <<process, m_ConfigNew, config, agent, counter, handler, pc, history>>
    BY <1>1 DEF NewCall, EndCall
  <2>4. TypeOK'
    BY <2>2, <2>3 DEF TypeOK, config, history
  <2> QED
    BY <2>1, <2>3, <2>4 DEF Configured, CountdownLeft, PartsAgree, ModeKept, EndsEmpty, Alive,
                            config, history
<1>2. CASE UNCHANGED vars
  <2>1. TypeOK'
    BY <1>2 DEF vars, TypeOK, config, service, history
  <2> QED
    BY <1>2, <2>1 DEF vars, Configured, CountdownLeft, PartsAgree, ModeKept, EndsEmpty, Alive,
                      config, service, history
<1> QED
  BY <1>1, <1>2

\* The process starts with one valid file.
LEMMA InitInvariant == Init => IInv
<1> SUFFICES ASSUME Init PROVE IInv
  OBVIOUS
<1>1. m_Config \in File
  BY DEF Init, ValidFile
<1>2. TerminationRetries[m_Config] \in Nat /\ getStatsPort(Content[m_Config]) \in Ports
      /\ getCdrConnectInfo(Content[m_Config]) \in Databases
  BY <1>1, RetriesOfFile DEF Ports, Databases
<1>3. agent = Mode[m_Config] /\ agent \in {"stateful", "stateless"}
  <2>1. agent = Mode[m_Config]
    BY <1>1 DEF Init, Mode
  <2>2. Mode[m_Config] \in {"stateful", "stateless"}
    BY <1>1 DEF Mode, getAgentMode
  <2> QED
    BY <2>1, <2>2
<1>4. IdlePasses \in 0..IdlePasses /\ IdlePasses # 0 /\ 0 \in 0..MaxCalls
  BY ReloadAssumption
<1>5. TypeOK
  BY <1>1, <1>2, <1>3, <1>4, ReloadAssumption DEF Init, TypeOK
<1> QED
  BY <1>1, <1>3, <1>4, <1>5 DEF Init, IInv, Configured, CountdownLeft, PartsAgree, ModeKept,
                                EndsEmpty, Alive

\* The invariant of the first part holds throughout.
THEOREM Invariance == Spec => []IInv
<1>1. IInv /\ [Next]_vars => IInv'
  BY HandlerStep, TickStep, ReturnStep, InstallStep, CallStep DEF Next, Watchdog, Ended
<1> QED
  BY <1>1, InitInvariant, PTL DEF Spec

\* Every variable keeps its type.
THEOREM TypeCorrect == Spec => []TypeOK
<1>1. IInv => TypeOK
  BY DEF IInv
<1> QED
  BY <1>1, Invariance, PTL

\* Between passes of the watchdog the retries, the statistics port and the CDR writer
\* are all of the configuration that is installed, whichever threads take the signal.
THEOREM PartsOfOneConfiguration == Spec => []OneConfiguration
<1>1. IInv => OneConfiguration
  BY DEF IInv, PartsAgree, OneConfiguration
<1> QED
  BY <1>1, Invariance, PTL

\* The process stops without calls unless a reload has changed the mode.
THEOREM StopsEmpty == Spec => []StopsOnlyEmpty
<1>1. IInv => StopsOnlyEmpty
  BY DEF IInv, EndsEmpty, StopsOnlyEmpty
<1> QED
  BY <1>1, Invariance, PTL

-----------------------------------------------------------------------------
(* Only the main thread takes the signal *)

ValidInstalled == m_Config \in ValidFile \/ (m_Config = NULL /\ ~Alive)

\* m_ConfigNew, by where the handler is: what waits to be installed outside of it is
\* what was accepted.
NewFollowsHandler ==
    Alive =>
        /\ handler[main] = "none" => m_ConfigNew \in {NULL, accepted}
        /\ handler[main] = "reading" => m_ConfigNew = NULL
        /\ handler[main] \in {"validating", "discarding"} => m_ConfigNew \in File

\* While the watchdog installs a configuration, the signal is ignored.
InstallingAlone ==
    Alive =>
        /\ pc \in {"install", "copy", "reset"} =>
             handler[main] = "none" /\ m_ConfigNew # NULL
        /\ pc = "reset" => m_Config = accepted

\* Unless the accepted configuration waits, it is the one installed.
AcceptedOrWaiting ==
    Alive /\ (m_ConfigNew = NULL \/ handler[main] # "none") => m_Config = accepted

SInv ==
    /\ accepted \in ValidFile /\ ValidInstalled
    /\ NewFollowsHandler /\ InstallingAlone /\ AcceptedOrWaiting

\* One case per action of the handler, of the watchdog, and of the rest.
LEMMA SingleStep ==
    ASSUME Thread = {main}, IInv, SInv, [Next]_vars
    PROVE SInv'
<1> USE DEF SInv
<1>0. /\ ValidFile \subseteq File /\ NULL \notin File
      /\ handler \in [Thread -> {"none", "reading", "validating", "discarding"}]
      /\ m_ConfigNew \in File \cup {NULL}
  BY ReloadAssumption DEF IInv, TypeOK, ValidFile
<1>1. CASE UNCHANGED <<process, m_Config, m_ConfigNew, handler, pc, accepted>>
  BY <1>1 DEF ValidInstalled, NewFollowsHandler, InstallingAlone, AcceptedOrWaiting, Alive
<1>2. ASSUME NEW t \in Thread, Signal(t) PROVE SInv'
  <2>1. /\ m_ConfigNew = NULL /\ handler[main] = "none" /\ handler'[main] = "reading"
        /\ Alive /\ UNCHANGED <<process, m_Config, m_ConfigNew, pc, accepted>>
    BY <1>0, <1>2 DEF Signal, Delivered, config, history
  <2> QED
    BY <1>0, <2>1 DEF ValidInstalled, NewFollowsHandler, InstallingAlone, AcceptedOrWaiting, Alive
<1>3. ASSUME NEW t \in Thread, ReadFile(t) PROVE SInv'
  <2>1. /\ handler[main] = "reading" /\ handler'[main] = "validating" /\ m_ConfigNew' \in File
        /\ Alive /\ UNCHANGED <<process, m_Config, pc, accepted>>
    BY <1>0, <1>3 DEF ReadFile, config, history
  <2> QED
    BY <1>0, <2>1 DEF ValidInstalled, NewFollowsHandler, InstallingAlone, AcceptedOrWaiting, Alive
<1>4. ASSUME NEW t \in Thread, Validate(t) PROVE SInv'
  <2>1. /\ handler[main] = "validating" /\ Alive /\ m_ConfigNew \in File
        /\ UNCHANGED <<m_Config, m_ConfigNew, pc>>
    BY <1>0, <1>4 DEF Validate, config, NewFollowsHandler
  <2>2. CASE m_ConfigNew \in ValidFile
    <3>1. accepted' = m_ConfigNew /\ handler'[main] = "none" /\ UNCHANGED process
      BY <1>0, <1>4, <2>1, <2>2 DEF Validate
    <3> QED
      BY <1>0, <2>1, <2>2, <3>1
         DEF ValidInstalled, NewFollowsHandler, InstallingAlone, AcceptedOrWaiting, Alive
  <2>3. CASE m_ConfigNew \notin ValidFile
    <3>1. handler'[main] = "discarding" /\ UNCHANGED <<process, accepted>>
      BY <1>0, <1>4, <2>1, <2>3 DEF Validate
    <3> QED
      BY <1>0, <2>1, <2>3, <3>1
         DEF ValidInstalled, NewFollowsHandler, InstallingAlone, AcceptedOrWaiting, Alive
  <2> QED
    BY <2>2, <2>3
<1>5. ASSUME NEW t \in Thread, Discard(t) PROVE SInv'
  <2>1. /\ handler[main] = "discarding" /\ handler'[main] = "none" /\ m_ConfigNew' = NULL
        /\ Alive /\ UNCHANGED <<process, m_Config, pc, accepted>>
    BY <1>0, <1>5 DEF Discard, config, history
  <2> QED
    BY <1>0, <2>1 DEF ValidInstalled, NewFollowsHandler, InstallingAlone, AcceptedOrWaiting, Alive
<1>6. ASSUME Tick PROVE SInv'
  <2>1. /\ Alive /\ process' \in {"running", "stopping"} /\ pc' = "test"
        /\ UNCHANGED <<m_Config, m_ConfigNew, handler, accepted>>
    BY <1>6, PassEffect DEF Tick, MainRuns, history
  <2> QED
    BY <1>0, <2>1 DEF ValidInstalled, NewFollowsHandler, InstallingAlone, AcceptedOrWaiting, Alive
<1>7. ASSUME TestNew \/ OpenStats PROVE SInv'
  <2>1. /\ Alive /\ handler[main] = "none"
        /\ UNCHANGED <<m_ConfigNew, handler, accepted>>
        /\ \/ process' = "stopped" /\ m_Config' = NULL
           \/ UNCHANGED <<process, m_Config>> /\ pc' = "idle"
           \/ UNCHANGED <<process, m_Config>> /\ pc' = "install" /\ m_ConfigNew # NULL
    BY <1>7 DEF TestNew, OpenStats, Return, MainRuns, history
  <2> QED
    BY <1>0, <2>1 DEF ValidInstalled, NewFollowsHandler, InstallingAlone, AcceptedOrWaiting, Alive
<1>8. ASSUME TestInstall \/ Copy \/ Reset PROVE SInv'
  <2>1. /\ Alive /\ handler[main] = "none" /\ UNCHANGED <<process, handler, accepted>>
        /\ \/ pc = "install" /\ pc' = "copy" /\ UNCHANGED <<m_Config, m_ConfigNew>>
           \/ /\ pc = "copy" /\ pc' = "reset" /\ m_Config' = m_ConfigNew
              /\ UNCHANGED m_ConfigNew
           \/ pc = "reset" /\ pc' = "rest" /\ m_ConfigNew' = NULL /\ UNCHANGED m_Config
    BY <1>8 DEF TestInstall, Copy, Reset, MainRuns, InstallingAlone, config, history
  <2> QED
    BY <1>0, <2>1 DEF ValidInstalled, NewFollowsHandler, InstallingAlone, AcceptedOrWaiting, Alive
<1>9. ASSUME Rest \/ BindFails PROVE SInv'
  <2>1. /\ Alive /\ handler[main] = "none"
        /\ UNCHANGED <<m_Config, m_ConfigNew, handler, accepted>>
        /\ \/ process' \in {"206 null", "720 bind"}
           \/ UNCHANGED process /\ pc' = "stats"
    BY <1>9 DEF Rest, BindFails, MainRuns, history
  <2> QED
    BY <1>0, <2>1 DEF ValidInstalled, NewFollowsHandler, InstallingAlone, AcceptedOrWaiting, Alive
<1>10. ASSUME NewCall \/ EndCall \/ UNCHANGED vars PROVE SInv'
  <2>1. UNCHANGED <<process, m_Config, m_ConfigNew, handler, pc, accepted>>
    BY <1>10 DEF NewCall, EndCall, vars, config, history
  <2> QED
    BY <1>1, <2>1
<1> QED
  BY <1>2, <1>3, <1>4, <1>5, <1>6, <1>7, <1>8, <1>9, <1>10 DEF Next, handleSigHup, Watchdog, Ended

\* The invariant of the second part holds throughout.
LEMMA SingleInvariance ==
    ASSUME Thread = {main}
    PROVE Spec => []SInv
<1>1. Init => SInv
  BY DEF Init, SInv, ValidInstalled, NewFollowsHandler, InstallingAlone, AcceptedOrWaiting
<1>2. IInv /\ SInv /\ [Next]_vars => SInv'
  BY SingleStep
<1> QED
  BY <1>1, <1>2, Invariance, PTL DEF Spec

\* What is installed is a valid file at all times.
THEOREM NoInvalidConfiguration ==
    ASSUME Thread = {main}
    PROVE Spec => []NoChangesIfInvalid
<1>1. SInv => NoChangesIfInvalid
  BY DEF SInv, ValidInstalled, NoChangesIfInvalid
<1> QED
  BY <1>1, SingleInvariance, PTL

\* An accepted configuration is installed: no signal, at whatever point of the
\* watchdog's pass it comes, makes it be forgotten.
THEOREM NoAcceptedLost ==
    ASSUME Thread = {main}
    PROVE Spec => []AcceptedInstalled
<1>1. SInv => AcceptedInstalled
  BY DEF SInv, AcceptedOrWaiting, AcceptedInstalled
<1> QED
  BY <1>1, SingleInvariance, PTL

\* Routing with the installed configuration always finds a route with a trunk, and has
\* an attempt unless the file says 0: every turn that parsing makes is of a carrier with
\* a trunk, whatever other carriers the file has and however often it names one.
THEOREM InstalledRoutes ==
    ASSUME Thread = {main}
    PROVE Spec => []RoutesExist
<1>1. IInv /\ SInv => RoutesExist
  <2> SUFFICES ASSUME IInv, SInv, m_Config # NULL PROVE RoutesExist
    BY DEF RoutesExist
  <2>1. m_Config \in ValidFile /\ m_Config \in Routable
    BY ValidRoutes DEF SInv, ValidInstalled
  <2>2. process = "running" /\ pc = "idle" =>
          m_nTerminationRetries = TerminationRetries[m_Config]
    BY DEF IInv, PartsAgree
  <2> QED BY <2>1, <2>2, RetriesOfFile DEF RoutesExist
<1> QED
  BY <1>1, Invariance, SingleInvariance, PTL

=============================================================================
