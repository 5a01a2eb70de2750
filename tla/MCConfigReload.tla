--------------------------- MODULE MCConfigReload ---------------------------
EXTENDS ConfigReload

Server(name) == [kind |-> "appserver", name |-> name, address |-> "as1"]
Group(name, members) == [kind |-> "appserver-group", name |-> name, members |-> members]
Trunk(address, status) == [address |-> address, status |-> status]
Carrier(name, addresses, status, qty, trunks) ==
    [name |-> name, inbound |-> addresses, status |-> status, qty |-> qty, outbound |-> trunks]

\* Two carriers, one with an inactive trunk; statistics and a database.
Full ==
    [readable |-> TRUE,
     inbound |-> <<Server(""), Server("s2"), Group("g", {"as1", "s2"})>>,
     lists |-> <<"customer">>,
     carriers |-> <<Carrier("a", <<"x1">>, "active", 2, <<Trunk("t1", "active"), Trunk("t2", "inactive")>>),
                    Carrier("b", <<"x2">>, "active", 1, <<Trunk("t3", "active")>>)>>,
     agentMode |-> "stateful", status |-> "active", statsPort |-> 8022, cdr |-> "db1",
     maxTerminationAttempts |-> 3]

Contents ==
    [full      |-> Full,
     \* the other mode, another port and database, one attempt, inactive
     other     |-> [Full EXCEPT !.agentMode = "stateless", !.status = "inactive",
                                !.statsPort = 8023, !.cdr = "db2", !.maxTerminationAttempts = 1],
     \* no statistics, no database; a carrier named twice, one without a turn and one
     \* whose trunks are all inactive
     bare      |-> [Full EXCEPT !.statsPort = 0, !.cdr = "", !.agentMode = "stateless",
                      !.carriers = <<Carrier("a", <<>>, "active", 1, <<Trunk("t1", "active")>>),
                                     Carrier("a", <<>>, "active", 1, <<Trunk("t2", "active")>>),
                                     Carrier("b", <<>>, "active", 0, <<Trunk("t3", "active")>>),
                                     Carrier("c", <<>>, "active", 2, <<Trunk("t4", "inactive")>>)>>],
     \* every way to be invalid but the last two are errors in an element
     unreadable |-> [Full EXCEPT !.readable = FALSE],
     forward   |-> [Full EXCEPT !.inbound = <<Group("g", {"as1"}), Server("")>>],
     address   |-> [Full EXCEPT !.carriers[2].inbound = <<"x1">>],
     inactive  |-> [Full EXCEPT !.carriers = <<Carrier("a", <<>>, "inactive", 1, <<Trunk("t1", "active")>>)>>],
     serverless |-> [Full EXCEPT !.inbound = <<>>]]

Files == DOMAIN Contents

=============================================================================
