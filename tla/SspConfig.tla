----------------------------- MODULE SspConfig ------------------------------
(***************************************************************************)
(* What SspConfig makes of a configuration file (ssp-config.cpp): whether  *)
(* it is valid, and what the controller asks of it.  A file is a record of *)
(* its elements in document order, attributes with their defaults; "" is a *)
(* name that is missing.  The constructor returns at the first error, and  *)
(* the object is then not valid, whatever was read before.                 *)
(***************************************************************************)
EXTENDS Integers, Sequences, SequencesExt, FiniteSetsExt, Functions

CONSTANTS
    File,            \* the versions of the file
    Content          \* what a version says

-----------------------------------------------------------------------------
(* ssp.inbound: application servers and groups of them *)

appservers(c) == SelectSeq(c.inbound, LAMBDA v : v.kind = "appserver")
groups(c) == SelectSeq(c.inbound, LAMBDA v : v.kind = "appserver-group")

\* An application server without a name goes by its address.
appserverName(v) == IF v.name = "" THEN v.address ELSE v.name

\* The keys of m_mapAppserver when element i is read.
m_mapAppserver(c, i) ==
    {appserverName(c.inbound[j]) : j \in {k \in 1..(i - 1) : c.inbound[k].kind = "appserver"}}

\* insert fails for a name that is in the map; a group has a name of its own and lists
\* servers that come before it.
InboundValid(c) ==
    /\ IsInjective([i \in 1..Len(appservers(c)) |-> appserverName(appservers(c)[i])])
    /\ IsInjective([i \in 1..Len(groups(c)) |-> groups(c)[i].name])
    /\ \A i \in 1..Len(c.inbound) : c.inbound[i].kind = "appserver-group" =>
         c.inbound[i].name # "" /\ c.inbound[i].members \subseteq m_mapAppserver(c, i)

-----------------------------------------------------------------------------
(* ssp.dnis-list and ssp.carrier *)

ListsValid(c) == IsInjective(c.lists) /\ \A i \in DOMAIN c.lists : c.lists[i] # ""

\* m_mapInboundCarrier is keyed by the address alone, for all carriers.
OriginationsValid(c) == IsInjective(FlattenSeq([i \in 1..Len(c.carriers) |-> c.carriers[i].inbound]))

\* The trunks that are not inactive, in document order.
vecTrunks(v) ==
    FlattenSeq([j \in 1..Len(v.outbound) |->
        IF v.outbound[j].status = "inactive" THEN <<>> ELSE <<v.outbound[j]>>])

\* A carrier that is active and has a trunk that is not inactive.
Terminates(v) == v.status = "active" /\ vecTrunks(v) # <<>>

\* Mutant of m_vecTerminationCarrier: a carrier without trunks takes turns, too.
m_vecTerminationCarrierAll(c) ==
    FlattenSeq([i \in 1..Len(c.carriers) |-> [j \in 1..c.carriers[i].qty |-> c.carriers[i].name]])

\* The carriers' turns: each as often as its quantity.
m_vecTerminationCarrier(c) ==
    FlattenSeq([i \in 1..Len(c.carriers) |->
        IF Terminates(c.carriers[i]) THEN [j \in 1..c.carriers[i].qty |-> c.carriers[i].name]
                                     ELSE <<>>])

\* insert leaves the first entry of a name in place.
m_mapTerminationCarrierByName(c) ==
    LET entries == {i \in 1..Len(c.carriers) : Terminates(c.carriers[i])}
        of(name) == {i \in entries : c.carriers[i].name = name}
    IN [name \in {c.carriers[i].name : i \in entries} |-> vecTrunks(c.carriers[Min(of(name))])]

CarriersValid(c) ==
    /\ \A i \in 1..Len(c.carriers) : c.carriers[i].name # ""
    /\ OriginationsValid(c)

-----------------------------------------------------------------------------
\* The constructor: a file that cannot be opened or parsed, or lacks ssp.inbound, is not
\* readable.  (A value that does not convert is no error: get returns its default.)
isValid(c) ==
    /\ c.readable
    /\ InboundValid(c) /\ ListsValid(c) /\ CarriersValid(c)
    /\ m_vecTerminationCarrier(c) # <<>>
    /\ appservers(c) # <<>>

\* Only "stateful", which is also the default, selects the stateful agent.
getAgentMode(c) == IF c.agentMode = "stateful" THEN "stateful" ELSE "stateless"
isActive(c) == c.status # "inactive"
getMaxTerminationAttempts(c) == c.maxTerminationAttempts

getCountOfOutboundTrunks(c) ==
    LET trunks == m_mapTerminationCarrierByName(c)
    IN Cardinality(UNION {{name} \X DOMAIN trunks[name] : name \in DOMAIN trunks})

\* 0 without the stats element.
getStatsPort(c) == c.statsPort

\* "" unless host, user, password and schema are given.
getCdrConnectInfo(c) == c.cdr

=============================================================================
