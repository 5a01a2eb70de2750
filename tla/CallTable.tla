----------------------------- MODULE CallTable ------------------------------
(***************************************************************************)
(* What the stateless proxy promises about the calls it knows: a call is   *)
(* known from its INVITE on, is done with its final response, stays known  *)
(* for the retransmission wait after the last request, and only then is    *)
(* forgotten; the process stops with no call left.  The only way to fail   *)
(* is the ACK of a call it does not know.                                  *)
(***************************************************************************)
CONSTANT CallId

VARIABLES
    state,           \* per call: "unknown", "open", "done" or "expired"
    process

vars == <<state, process>>

Init ==
    /\ state = [c \in CallId |-> "unknown"]
    /\ process = "running"

\* Calls of a set change their state together.
Move(S, from, to) ==
    /\ \A c \in S : state[c] = from
    /\ state' = [c \in CallId |-> IF c \in S THEN to ELSE state[c]]

Enter(c) == Move({c}, "unknown", "open") /\ UNCHANGED process
Complete(c) == Move({c}, "open", "done") /\ UNCHANGED process

\* Time passes for some calls; a straggler makes one of them wait again.
Expire == \E S \in SUBSET CallId : Move(S, "done", "expired") /\ UNCHANGED process
Renew(c) == Move({c}, "expired", "done") /\ UNCHANGED process

\* A pass of the watchdog forgets some of the calls, and may stop the process.
Pass ==
    /\ \E S \in SUBSET CallId : Move(S, "expired", "unknown")
    /\ process' \in {"running", "stopped"}
    /\ process' = "stopped" => \A c \in CallId : state'[c] = "unknown"

UnknownAck ==
    /\ \E c \in CallId : state[c] = "unknown"
    /\ process' = "821 end iterator"
    /\ UNCHANGED state

Next ==
    /\ process = "running"
    /\ \/ \E c \in CallId : Enter(c) \/ Complete(c) \/ Renew(c)
       \/ Expire
       \/ Pass
       \/ UnknownAck

Spec == Init /\ [][Next]_vars

=============================================================================
