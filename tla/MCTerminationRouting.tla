------------------------ MODULE MCTerminationRouting ------------------------
EXTENDS TerminationRouting

\* Three carriers: weighted trunks, a trunk of quantity 0, a single trunk; one carrier
\* has a double share, one is only an alternative (quantity 0).
ThreeCarriers == [a |-> <<2, 1>>, b |-> <<1, 0, 1>>, c |-> <<1>>]
Weighted == <<"a", "a", "b">>
ABC == <<"a", "b", "c">>

\* The file that says so, with a trunk and a carrier that are not in use.
Trunk(status, qty) == [status |-> status, qty |-> qty]
Carrier(name, status, qty, trunks) ==
    [name |-> name, status |-> status, qty |-> qty, outbound |-> trunks]
Conf ==
    [carriers |->
        <<Carrier("a", "active", 2, <<Trunk("active", 2), Trunk("inactive", 3), Trunk("active", 1)>>),
          Carrier("d", "inactive", 1, <<Trunk("active", 1)>>),
          Carrier("b", "active", 1, <<Trunk("active", 1), Trunk("active", 0), Trunk("active", 1)>>),
          Carrier("c", "active", 0, <<Trunk("active", 1)>>)>>]
Parsed == INSTANCE SspConfig WITH File <- {"conf"}, Content <- [conf |-> Conf]

\* What SspConfig makes of the file.
ASSUME ParsedAssumption ==
    /\ Weighted = Parsed!m_vecTerminationCarrier(Conf)
    /\ LET routes == Parsed!m_mapTerminationCarrierByName(Conf)
       IN ThreeCarriers = [carrier \in DOMAIN routes |->
                              [i \in DOMAIN routes[carrier] |-> routes[carrier][i].qty]]

=============================================================================
