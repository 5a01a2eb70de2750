--------------------------- MODULE SessionEvents ----------------------------
(***************************************************************************)
(* What is accounted of an origination, between the controller that posts  *)
(* it and the CdrWriter that records it: a call is refused, or taken on    *)
(* and then answered, failed, cancelled or cleared; an answered call can   *)
(* only be cleared; nothing follows the end of a call, and the process     *)
(* stops with no call open.                                                *)
(***************************************************************************)
CONSTANT Call

VARIABLES
    events,          \* per call: the events that have been posted
    stopped

vars == <<events, stopped>>

Init ==
    /\ events = [c \in Call |-> {}]
    /\ stopped = FALSE

Open(c) ==
    /\ "request" \in events[c]
    /\ events[c] \cap {"failed", "cancelled", "cleared"} = {}
Ringing(c) == Open(c) /\ "answered" \notin events[c]

Post(c, event) ==
    /\ events' = [events EXCEPT ![c] = @ \cup {event}]
    /\ UNCHANGED stopped

Offer(c) == events[c] = {} /\ (Post(c, "request") \/ Post(c, "rejected"))
FinalResponse(c) == Ringing(c) /\ (Post(c, "answered") \/ Post(c, "failed"))
Cancel(c) == Ringing(c) /\ Post(c, "cancelled")
Clear(c) == Open(c) /\ Post(c, "cleared")

Stop ==
    /\ \A c \in Call : ~Open(c)
    /\ stopped' = TRUE
    /\ UNCHANGED events

Next ==
    /\ ~stopped
    /\ \/ \E c \in Call : Offer(c) \/ FinalResponse(c) \/ Cancel(c) \/ Clear(c)
       \/ Stop

Spec == Init /\ [][Next]_vars

=============================================================================
