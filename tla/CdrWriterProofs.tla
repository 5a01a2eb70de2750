--------------------------- MODULE CdrWriterProofs ---------------------------
(***************************************************************************)
(* What CdrWriter promises for any number of sessions, attempts and        *)
(* writers, and whatever the database does: a lost connection costs every  *)
(* type of CDR at most one record in a row, no origination is inserted     *)
(* twice, and the tables tell what happened to a session that has a row    *)
(* and lost no CDR.                                                        *)
(***************************************************************************)
EXTENDS CdrWriter, FiniteSetTheorems, TLAPS

\* writeCdr dispatches a CDR only with a connection in hand, and keeps it until the CDR is
\* written or lost.
JobConnected == \A w \in Writer : job[w] # NULL => connection[w] # "none"

\* The strengthening of OneLossPerType: while CDRs are being lost in a row to error 2013,
\* no statement has been prepared since, the new connection has not been lost, and the
\* statements of the types that had their loss have been reset.
LossInv ==
    \A w \in Writer : streak[w] # <<>> =>
        /\ prepared[w] = {}
        /\ connection[w] # "lost"
        /\ \A i \in 1..Len(streak[w]) : StatementsOf(streak[w][i]) \cap stale[w] = {}

\* The i-th entry of the queue of w is the shared object of c.
Queued(c, w, i) ==
    /\ w \in Writer /\ i \in 1..Len(m_io_service[w])
    /\ m_io_service[w][i].session = c /\ m_io_service[w][i].cdr = "shared"

\* Worker w is about to insert the row of c.
Inserting(c, w) ==
    /\ w \in Writer /\ job[w] # NULL
    /\ job[w].session = c /\ job[w].type = "origination_request"

\* The strengthening of InsertedOnce.  Until the type of the shared object is changed,
\* it has been posted once at most; so it is in one queue, or being inserted by one
\* worker, or its row may be there.  Once the type is changed, no queue leads to an
\* INSERT any more.
InsertOnce(c) ==
    /\ posted[c] = <<>> =>
         /\ \A w \in Writer : ~Inserting(c, w) /\ \A i \in Nat : ~Queued(c, w, i)
         /\ cdr_session[c] = NULL
    /\ m_cdrType[c] = "origination_request" =>
         /\ \A w, v \in Writer : \A i, k \in Nat :
              Queued(c, w, i) /\ Queued(c, v, k) => w = v /\ i = k
         /\ \A w \in Writer : \A i \in Nat : Queued(c, w, i) =>
              cdr_session[c] = NULL /\ \A v \in Writer : ~Inserting(c, v)
    /\ \A w, v \in Writer : Inserting(c, w) /\ Inserting(c, v) => w = v
    /\ \A w \in Writer : Inserting(c, w) => cdr_session[c] = NULL

InsertInv == \A c \in Session : InsertOnce(c)

LossesInv == TypeOK /\ JobConnected /\ LossInv /\ OneLossPerType

-----------------------------------------------------------------------------
(* The operators *)

\* The types of CDR.
LEMMA EventTypes ==
    CdrEvent_t = {"origination_request", "origination_final_response",
                  "origination_cancel", "termination_attempt", "call_cleared"}
BY DEF CdrEvent_t, Statements

\* Every type of CDR is written with one or two statements.
LEMMA StatementFacts ==
    ASSUME NEW type \in CdrEvent_t
    PROVE  /\ Len(Statements[type]) \in {1, 2}
           /\ \A i \in 1..Len(Statements[type]) : Statements[type][i] \in StatementsOf(type)
           /\ StatementsOf(type) \subseteq AllStatements
<1>1. Len(Statements[type]) \in {1, 2}
  <2>1. CASE type \in {"origination_request", "origination_final_response",
                       "origination_cancel"}
    <3>1. Len(Statements[type]) = 1
      BY <2>1 DEF Statements
    <3> QED BY <3>1
  <2>2. CASE type \in {"termination_attempt", "call_cleared"}
    <3>1. Len(Statements[type]) = 2
      BY <2>2 DEF Statements
    <3> QED BY <3>1
  <2> QED BY <2>1, <2>2, EventTypes
<1>2. \A i \in 1..Len(Statements[type]) : Statements[type][i] \in StatementsOf(type)
  BY DEF StatementsOf
<1>3. StatementsOf(type) \subseteq AllStatements
  BY DEF AllStatements
<1> QED BY <1>1, <1>2, <1>3

\* The type an object has when it is dispatched.
LEMMA CdrTypes ==
    ASSUME TypeOK, NEW cdr \in Cdr
    PROVE  /\ getCdrType(cdr) \in CdrEvent_t
           /\ getCdrType(cdr) = "origination_request" =>
                cdr.cdr = "shared" /\ m_cdrType[cdr.session] = "origination_request"
<1>1. cdr.session \in Session /\ cdr.cdr \in Copies \cup {"shared"}
  BY DEF Cdr
<1>2. m_cdrType[cdr.session] \in {"origination_request", "origination_cancel", "call_cleared"}
  BY <1>1 DEF TypeOK
<1>3. CASE cdr.cdr = "shared"
  BY <1>2, <1>3, EventTypes DEF getCdrType
<1>4. CASE cdr.cdr \in {"answered", "failed"}
  BY <1>4, EventTypes DEF getCdrType
<1>5. CASE cdr.cdr \in {"attempt 200", "attempt failed"}
  BY <1>5, EventTypes DEF getCdrType
<1> QED BY <1>1, <1>3, <1>4, <1>5 DEF Copies

\* What the statements of a CDR make of the row: an UPDATE does not create one.
LEMMA RowTypes ==
    ASSUME TypeOK, NEW j \in Job, NEW n \in 0..2
    PROVE  /\ RowAfter(j, n) \in Row \cup {NULL}
           /\ cdr_session[j.session] = NULL /\ j.type # "origination_request" =>
                RowAfter(j, n) = NULL
<1> DEFINE row == cdr_session[j.session]
<1>1. j.session \in Session /\ j.type \in CdrEvent_t
  BY DEF Job
<1>2. row \in Row \cup {NULL}
  BY <1>1 DEF TypeOK
<1>3. CASE n = 0
  BY <1>2, <1>3 DEF RowAfter
<1>4. CASE n > 0 /\ j.type = "origination_request"
  <2>1. RowAfter(j, n) =
          [status |-> IF Has(j.session, "rejected") THEN "rejected" ELSE NULL,
           connect_time |-> FALSE,
           end_time |-> m_cdrType[j.session] # "origination_request",
           carrier |-> FALSE]
    BY <1>4 DEF RowAfter
  <2> QED BY <1>4, <2>1 DEF Row
<1>5. CASE n > 0 /\ j.type # "origination_request" /\ row = NULL
  BY <1>5 DEF RowAfter
<1>6. CASE n > 0 /\ j.type # "origination_request" /\ row # NULL
  <2>1. row \in Row
    BY <1>2, <1>6
  <2> HIDE DEF row
  <2>2. CASE j.type = "origination_final_response"
    <3>1. RowAfter(j, n) =
            [row EXCEPT !.status = IF j.cdr = "answered" THEN "200" ELSE "failed",
                        !.connect_time = (j.cdr = "answered"),
                        !.end_time = (j.cdr # "answered")]
      BY <1>6, <2>2 DEF RowAfter, row
    <3> QED BY <1>6, <2>1, <3>1 DEF Row, row
  <2>3. CASE j.type = "origination_cancel"
    <3>1. RowAfter(j, n) = [row EXCEPT !.status = "487", !.end_time = TRUE]
      BY <1>6, <2>3 DEF RowAfter, row
    <3> QED BY <1>6, <2>1, <3>1 DEF Row, row
  <2>4. CASE j.type = "call_cleared"
    <3>1. RowAfter(j, n) = [row EXCEPT !.end_time = TRUE]
      BY <1>6, <2>4 DEF RowAfter, row
    <3> QED BY <1>6, <2>1, <3>1 DEF Row, row
  <2>5. CASE j.type = "termination_attempt"
    <3>1. RowAfter(j, n) = [row EXCEPT !.carrier = @ \/ n = 2]
      BY <1>6, <2>5 DEF RowAfter, row
    <3> QED BY <1>6, <2>1, <3>1 DEF Row, row
  <2> QED BY <1>1, <1>6, <2>2, <2>3, <2>4, <2>5, EventTypes
<1> QED BY <1>3, <1>4, <1>5, <1>6

\* The rows of termination_attempt are counted in natural numbers.
LEMMA AttemptTypes ==
    ASSUME TypeOK, NEW j \in Job, NEW n \in 0..2
    PROVE  AttemptsAfter(j, n) \in [failed: Nat, connected: Nat, ended: Nat]
<1> DEFINE rows == termination_attempt[j.session]
<1>1. rows \in [failed: Nat, connected: Nat, ended: Nat]
  BY DEF TypeOK, Job
<1> HIDE DEF rows
<1>2. rows.failed \in Nat /\ rows.connected \in Nat /\ rows.ended \in Nat
  BY <1>1
<1>3. CASE j.type = "termination_attempt" /\ n > 0
  <2>1. AttemptsAfter(j, n) = [rows EXCEPT !.connected = rows.connected + 1]
        \/ AttemptsAfter(j, n) = [rows EXCEPT !.failed = rows.failed + 1]
    BY <1>3 DEF AttemptsAfter, rows
  <2>2. rows.connected + 1 \in Nat /\ rows.failed + 1 \in Nat
    BY <1>2
  <2> QED BY <1>1, <2>1, <2>2
<1>4. CASE j.type = "call_cleared" /\ n = 2
  <2>1. AttemptsAfter(j, n) = [rows EXCEPT !.ended = rows.ended + rows.connected,
                                           !.connected = 0]
    BY <1>4 DEF AttemptsAfter, rows
  <2>2. rows.ended + rows.connected \in Nat
    BY <1>2
  <2>3. \A e \in Nat : [rows EXCEPT !.ended = e, !.connected = 0]
                        \in [failed: Nat, connected: Nat, ended: Nat]
    BY <1>1
  <2> QED BY <2>1, <2>2, <2>3
<1>5. CASE ~(j.type = "termination_attempt" /\ n > 0) /\ ~(j.type = "call_cleared" /\ n = 2)
  BY <1>1, <1>5 DEF AttemptsAfter, rows
<1> QED BY <1>3, <1>4, <1>5

-----------------------------------------------------------------------------
(* Types and losses *)

\* At first no writer has lost a connection.
LEMMA InitLosses == Init => LossesInv
<1> SUFFICES ASSUME Init PROVE LossesInv
  OBVIOUS
<1>1. TypeOK
  <2>1. posted \in [Session -> Seq(Events)] /\ m_io_service \in [Writer -> Seq(Cdr)]
    BY DEF Init
  <2>2. streak \in [Writer -> Seq(CdrEvent_t)]
    BY DEF Init
  <2>3. m_cdrWriter \in Writer
    BY BoundAssumption DEF Init, Writer
  <2>4. termination_attempt \in [Session -> [failed: Nat, connected: Nat, ended: Nat]]
    BY DEF Init
  <2>5. prepared \in [Writer -> SUBSET AllStatements] /\ stale \in [Writer -> SUBSET AllStatements]
    BY DEF Init
  <2> QED BY <2>1, <2>2, <2>3, <2>4, <2>5 DEF Init, TypeOK
<1>2. JobConnected /\ LossInv
  BY DEF Init, JobConnected, LossInv
<1>3. OneLossPerType
  <2>1. \A w \in Writer : Len(streak[w]) = 0
    BY DEF Init
  <2> QED BY <2>1 DEF OneLossPerType
<1> QED BY <1>1, <1>2, <1>3 DEF LossesInv

\* postCdr.
LEMMA PostEffect ==
    ASSUME TypeOK, NEW c \in Session, NEW event \in Events,
           NEW cdr \in Copies \cup {"shared"}, Post(c, event, cdr)
    PROVE  /\ posted' \in [Session -> Seq(Events)]
           /\ posted' = [posted EXCEPT ![c] = Append(@, event)]
           /\ m_io_service' \in [Writer -> Seq(Cdr)]
           /\ m_io_service' = [m_io_service EXCEPT ![m_cdrWriter] =
                                 Append(@, [session |-> c, cdr |-> cdr])]
           /\ UNCHANGED <<process, m_cdrWriter, job, connection, prepared, stale,
                          cdr_session, termination_attempt, streak, lost>>
<1>1. [session |-> c, cdr |-> cdr] \in Cdr
  BY DEF Cdr
<1>2. /\ posted' = [posted EXCEPT ![c] = Append(@, event)]
      /\ m_io_service' = [m_io_service EXCEPT ![m_cdrWriter] =
                            Append(@, [session |-> c, cdr |-> cdr])]
      /\ UNCHANGED <<process, m_cdrWriter, job, connection, prepared, stale,
                     cdr_session, termination_attempt, streak, lost>>
  BY DEF Post, postCdr, statements, tables, history
<1>3. posted' \in [Session -> Seq(Events)]
  BY <1>2 DEF TypeOK
<1>4. m_io_service' \in [Writer -> Seq(Cdr)]
  BY <1>1, <1>2 DEF TypeOK
<1> QED BY <1>2, <1>3, <1>4

\* The controller's steps.
ControllerStep ==
    \/ \E c \in Session : Request(c) \/ FinalResponse(c) \/ Cancel(c) \/ Bye(c) \/ Attempt(c)
    \/ Reload \/ ShutDown

\* What the controller does to the CDRs of a session, and to no other: it posts a CDR of
\* it, whose object it has maybe changed.
LEMMA ControllerEffect ==
    ASSUME TypeOK, NEW c \in Session,
           Request(c) \/ FinalResponse(c) \/ Cancel(c) \/ Bye(c) \/ Attempt(c)
    PROVE  \E event \in Events, cdr \in Copies \cup {"shared"} :
             /\ Post(c, event, cdr)
             /\ \/ m_cdrType' = m_cdrType /\ (cdr = "shared" => posted[c] = <<>>)
                \/ \E type \in {"origination_cancel", "call_cleared"} :
                     m_cdrType' = [m_cdrType EXCEPT ![c] = type]
<1>1. CASE Request(c)
  BY <1>1 DEF Request, Events
<1>2. CASE FinalResponse(c)
  <2>1. PICK event \in {"answered", "failed"} : Post(c, event, event)
    BY <1>2 DEF FinalResponse
  <2>2. event \in Events /\ event \in Copies /\ event # "shared"
    BY DEF Events, Copies
  <2> QED BY <1>2, <2>1, <2>2 DEF FinalResponse
<1>3. CASE Cancel(c)
  BY <1>3 DEF Cancel, Events
<1>4. CASE Bye(c)
  BY <1>4 DEF Bye, Events
<1>5. CASE Attempt(c)
  <2>1. PICK event \in {"attempt 200", "attempt failed"} : Post(c, event, event)
    BY <1>5 DEF Attempt
  <2>2. event \in Events /\ event \in Copies /\ event # "shared"
    BY DEF Events, Copies
  <2> QED BY <1>5, <2>1, <2>2 DEF Attempt
<1> QED BY <1>1, <1>2, <1>3, <1>4, <1>5

\* The controller's steps change the records and the queues, never the database's side.
LEMMA ControllerTypes ==
    ASSUME TypeOK, ControllerStep
    PROVE  /\ TypeOK'
           /\ UNCHANGED <<job, connection, prepared, stale, cdr_session, streak>>
<1>1. ASSUME NEW c \in Session,
             Request(c) \/ FinalResponse(c) \/ Cancel(c) \/ Bye(c) \/ Attempt(c)
      PROVE  /\ TypeOK'
             /\ UNCHANGED <<job, connection, prepared, stale, cdr_session, streak>>
  <2>1. PICK event \in Events, cdr \in Copies \cup {"shared"} :
             /\ Post(c, event, cdr)
             /\ \/ m_cdrType' = m_cdrType
                \/ \E type \in {"origination_cancel", "call_cleared"} :
                     m_cdrType' = [m_cdrType EXCEPT ![c] = type]
    BY <1>1, ControllerEffect
  <2>2. /\ posted' \in [Session -> Seq(Events)]
        /\ m_io_service' \in [Writer -> Seq(Cdr)]
        /\ UNCHANGED <<process, m_cdrWriter, job, connection, prepared, stale,
                       cdr_session, termination_attempt, streak, lost>>
    BY <2>1, PostEffect
  <2>3. m_cdrType' \in [Session -> {"origination_request", "origination_cancel", "call_cleared"}]
    BY <2>1 DEF TypeOK
  <2> QED BY <2>2, <2>3 DEF TypeOK
<1>2. CASE Reload
  <2>1. m_cdrWriter' \in Writer
    BY <1>2, BoundAssumption DEF Reload, TypeOK, Writer
  <2> QED BY <1>2, <2>1 DEF Reload, TypeOK, statements, tables, history
<1>3. CASE ShutDown
  BY <1>3 DEF ShutDown, TypeOK, statements, tables, history
<1> QED BY <1>1, <1>2, <1>3 DEF ControllerStep

\* The part of a job that is executed.
LEMMA ExecuteEffect ==
    ASSUME TypeOK, NEW w \in Writer, NEW n \in Nat, Execute(w, n)
    PROVE  /\ job[w] # NULL /\ job[w] \in Job /\ job[w].session \in Session
           /\ job[w].type \in CdrEvent_t
           /\ n \in 0..2 /\ n \in 0..Len(Statements[job[w].type])
           /\ \A i \in 1..n : Works(w, Statements[job[w].type][i])
           /\ cdr_session' = [cdr_session EXCEPT ![job[w].session] = RowAfter(job[w], n)]
           /\ cdr_session' \in [Session -> Row \cup {NULL}]
           /\ termination_attempt' \in [Session -> [failed: Nat, connected: Nat, ended: Nat]]
           /\ job' = [job EXCEPT ![w] = NULL]
           /\ job' \in [Writer -> Job \cup {NULL}]
           /\ UNCHANGED <<process, posted, m_cdrType, m_cdrWriter, m_io_service>>
<1>1. job[w] # NULL /\ job[w] \in Job
  BY DEF Execute, TypeOK
<1>2. job[w].session \in Session /\ job[w].type \in CdrEvent_t
  BY <1>1 DEF Job
<1>3. n \in 0..Len(Statements[job[w].type])
  BY DEF Execute
<1>4. n \in 0..2
  <2> DEFINE len == Len(Statements[job[w].type])
  <2>1. len \in {1, 2} /\ n \in 0..len
    BY <1>2, <1>3, StatementFacts
  <2> HIDE DEF len
  <2> QED BY <2>1
<1>5. RowAfter(job[w], n) \in Row \cup {NULL}
  BY <1>1, <1>4, RowTypes
<1>6. AttemptsAfter(job[w], n) \in [failed: Nat, connected: Nat, ended: Nat]
  BY <1>1, <1>4, AttemptTypes
<1>7. /\ cdr_session' = [cdr_session EXCEPT ![job[w].session] = RowAfter(job[w], n)]
      /\ termination_attempt' =
           [termination_attempt EXCEPT ![job[w].session] = AttemptsAfter(job[w], n)]
      /\ job' = [job EXCEPT ![w] = NULL]
      /\ UNCHANGED <<process, posted, m_cdrType, m_cdrWriter, m_io_service>>
      /\ \A i \in 1..n : Works(w, Statements[job[w].type][i])
  BY DEF Execute, controller
<1>8. cdr_session' \in [Session -> Row \cup {NULL}]
  BY <1>2, <1>5, <1>7 DEF TypeOK
<1>9. termination_attempt' \in [Session -> [failed: Nat, connected: Nat, ended: Nat]]
  BY <1>2, <1>6, <1>7 DEF TypeOK
<1>10. job' \in [Writer -> Job \cup {NULL}]
  BY <1>7 DEF TypeOK
<1> QED BY <1>1, <1>2, <1>3, <1>4, <1>7, <1>8, <1>9, <1>10

\* What LossesInv says of one writer.
Calm(w) ==
    /\ prepared[w] \cap stale[w] = {}
    /\ connection[w] = "none" => prepared[w] = {}
    /\ job[w] # NULL => connection[w] # "none"
    /\ streak[w] # <<>> =>
         /\ prepared[w] = {}
         /\ connection[w] # "lost"
         /\ \A i \in 1..Len(streak[w]) : StatementsOf(streak[w][i]) \cap stale[w] = {}
    /\ \A i, j \in 1..Len(streak[w]) : streak[w][i] = streak[w][j] => i = j

\* LossesInv says it of all of them.
LEMMA AllCalm == LossesInv => TypeOK /\ \A w \in Writer : Calm(w)
BY DEF LossesInv, JobConnected, LossInv, OneLossPerType, Calm, TypeOK

\* And all of them say LossesInv, after a step.
LEMMA CalmSuffices == TypeOK' /\ (\A w \in Writer : Calm(w)') => LossesInv'
BY DEF LossesInv, JobConnected, LossInv, OneLossPerType, Calm, TypeOK

\* A step of writer w, seen from the others.
Elsewhere(w) ==
    \A v \in Writer \ {w} :
        /\ job'[v] = job[v] /\ connection'[v] = connection[v]
        /\ prepared'[v] = prepared[v] /\ stale'[v] = stale[v] /\ streak'[v] = streak[v]

\* A step of one worker leaves the others as they are.
LEMMA OneWriter ==
    ASSUME LossesInv, NEW w \in Writer, Elsewhere(w), Calm(w)'
    PROVE  \A v \in Writer : Calm(v)'
<1> SUFFICES ASSUME NEW v \in Writer \ {w} PROVE Calm(v)'
  OBVIOUS
<1>1. Calm(v)
  BY AllCalm
<1> QED BY <1>1 DEF Calm, Elsewhere

\* A CDR that is dropped without a connection, or dispatched with one.
LEMMA TakeLosses ==
    ASSUME LossesInv, NEW w \in Writer, NoConnection(w) \/ Dispatch(w)
    PROVE  LossesInv'
<1> DEFINE queue == m_io_service[w]
<1>1. TypeOK /\ Calm(w)
  BY AllCalm
<1>2. /\ queue # <<>> /\ queue \in Seq(Cdr)
      /\ m_io_service' = [m_io_service EXCEPT ![w] = Tail(queue)]
      /\ UNCHANGED <<process, posted, m_cdrType, m_cdrWriter, prepared, stale, cdr_session,
                     termination_attempt, streak>>
  BY <1>1 DEF NoConnection, Dispatch, TypeOK, controller, statements, tables, history
<1>3. Head(queue) \in Cdr /\ Tail(queue) \in Seq(Cdr)
  BY <1>2
<1>4. m_io_service' \in [Writer -> Seq(Cdr)]
  BY <1>1, <1>2, <1>3 DEF TypeOK
<1>5. CASE NoConnection(w)
  <2>1. UNCHANGED <<job, connection>> /\ lost' = lost \cup {Head(queue).session}
    BY <1>5 DEF NoConnection
  <2>2. lost' \subseteq Session
    BY <1>1, <1>3, <2>1 DEF TypeOK, Cdr
  <2>3. TypeOK'
    BY <1>1, <1>2, <1>4, <2>1, <2>2 DEF TypeOK
  <2>4. \A v \in Writer : Calm(v)'
    BY <1>2, <2>1, AllCalm DEF Calm
  <2> QED BY <2>3, <2>4, CalmSuffices
<1>6. CASE Dispatch(w)
  <2> DEFINE cdr == Head(queue)
             new == [session |-> cdr.session, cdr |-> cdr.cdr, type |-> getCdrType(cdr)]
  <2>1. /\ job' = [job EXCEPT ![w] = new] /\ lost' = lost
        /\ connection' = [connection EXCEPT ![w] = IF @ = "none" THEN "live" ELSE @]
    BY <1>6 DEF Dispatch, history
  <2>2. new \in Job
    <3>1. getCdrType(cdr) \in CdrEvent_t
      BY <1>1, <1>3, CdrTypes
    <3>2. cdr.session \in Session /\ cdr.cdr \in Copies \cup {"shared"}
      BY <1>3 DEF Cdr
    <3> QED BY <3>1, <3>2 DEF Job
  <2> HIDE DEF new
  <2>3. job' \in [Writer -> Job \cup {NULL}]
    BY <1>1, <2>1, <2>2 DEF TypeOK
  <2>4. /\ connection' \in [Writer -> {"none", "live", "lost"}]
        /\ connection'[w] = IF connection[w] = "none" THEN "live" ELSE connection[w]
    BY <1>1, <2>1 DEF TypeOK
  <2>5. Elsewhere(w)
    BY <1>1, <1>2, <2>1 DEF Elsewhere, TypeOK
  <2>6. Calm(w)'
    BY <1>1, <1>2, <2>4 DEF Calm
  <2>7. \A v \in Writer : Calm(v)'
    BY <2>5, <2>6, OneWriter
  <2>8. TypeOK'
    BY <1>1, <1>2, <1>4, <2>1, <2>3, <2>4, <2>7 DEF TypeOK, Calm
  <2> QED BY <2>7, <2>8, CalmSuffices
<1> QED BY <1>5, <1>6

\* A CDR that is written, or lost to an error that leaves the connection: the losses in a
\* row end, and the statements that were prepared are not stale.
LEMMA WriteLosses ==
    ASSUME LossesInv, NEW w \in Writer, Write(w) \/ OtherError(w)
    PROVE  LossesInv'
<1>1. TypeOK /\ Calm(w)
  BY AllCalm
<1> DEFINE type == job[w].type
<1>2. PICK n \in Nat, P \in SUBSET AllStatements :
        /\ Execute(w, n)
        /\ prepared' = [prepared EXCEPT ![w] = @ \cup P]
        /\ \A s \in P : Works(w, s)
  <2>1. CASE Write(w)
    <3> DEFINE n == Len(Statements[type])
    <3>1. Execute(w, n) /\ prepared' = [prepared EXCEPT ![w] = @ \cup StatementsOf(type)]
      BY <2>1 DEF Write
    <3>2. type \in CdrEvent_t
      BY <1>1, <2>1 DEF Write, TypeOK, Job
    <3>3. n \in Nat /\ StatementsOf(type) \subseteq AllStatements
      BY <3>2, StatementFacts
    <3>4. \A i \in 1..n : Works(w, Statements[type][i])
      BY <3>1 DEF Execute
    <3>5. \A s \in StatementsOf(type) : Works(w, s)
      BY <3>4 DEF StatementsOf
    <3> QED BY <3>1, <3>3, <3>5
  <2>2. CASE OtherError(w)
    <3>1. PICK n \in 0..(Len(Statements[type]) - 1) :
            /\ Execute(w, n)
            /\ Works(w, Statements[type][n + 1])
            /\ prepared' = [prepared EXCEPT ![w] = @ \cup
                              {Statements[type][i] : i \in 1..(n + 1)}]
      BY <2>2 DEF OtherError
    <3>2. type \in CdrEvent_t
      BY <1>1, <2>2 DEF OtherError, TypeOK, Job
    <3> DEFINE len == Len(Statements[type])
               P == {Statements[type][i] : i \in 1..(n + 1)}
    <3>3. len \in {1, 2} /\ n \in 0..(len - 1)
      BY <3>1, <3>2, StatementFacts
    <3>4. \A i \in 1..n : Works(w, Statements[type][i])
      BY <3>1 DEF Execute
    <3>5. \A i \in 1..len : Statements[type][i] \in AllStatements
      BY <3>2, StatementFacts
    <3> HIDE DEF len
    <3>6. n \in Nat /\ \A i \in 1..(n + 1) : i \in 1..len /\ (i \in 1..n \/ i = n + 1)
      BY <3>3
    <3>7. \A s \in P : Works(w, s)
      BY <3>1, <3>4, <3>6
    <3>8. P \in SUBSET AllStatements
      BY <3>5, <3>6
    <3> QED BY <3>1, <3>6, <3>7, <3>8
  <2> QED BY <2>1, <2>2
<1>3. /\ streak' = [streak EXCEPT ![w] = <<>>] /\ UNCHANGED <<connection, stale>>
      /\ lost' \subseteq lost \cup {job[w].session}
  BY DEF Write, OtherError
<1>4. /\ job[w] # NULL /\ job[w].session \in Session
      /\ cdr_session' \in [Session -> Row \cup {NULL}]
      /\ termination_attempt' \in [Session -> [failed: Nat, connected: Nat, ended: Nat]]
      /\ job' = [job EXCEPT ![w] = NULL]
      /\ job' \in [Writer -> Job \cup {NULL}]
      /\ UNCHANGED <<process, posted, m_cdrType, m_cdrWriter, m_io_service>>
  BY <1>1, <1>2, ExecuteEffect
<1>5. /\ prepared' \in [Writer -> SUBSET AllStatements]
      /\ prepared'[w] = prepared[w] \cup P
  BY <1>1, <1>2 DEF TypeOK
<1>6. streak' \in [Writer -> Seq(CdrEvent_t)] /\ streak'[w] = <<>>
  <2>1. <<>> \in Seq(CdrEvent_t)
    OBVIOUS
  <2> QED BY <1>1, <1>3, <2>1 DEF TypeOK
<1>7. P \cap stale[w] = {} /\ job'[w] = NULL /\ connection'[w] = connection[w]
      /\ stale'[w] = stale[w]
  BY <1>1, <1>2, <1>3, <1>4 DEF Works, TypeOK
<1>8. Elsewhere(w)
  BY <1>1, <1>2, <1>3, <1>4 DEF Elsewhere, TypeOK
<1>9. Calm(w)'
  <2>1. Len(streak'[w]) = 0
    BY <1>6
  <2>2. connection[w] # "none"
    BY <1>1, <1>4 DEF Calm
  <2> QED BY <1>1, <1>5, <1>6, <1>7, <2>1, <2>2 DEF Calm
<1>10. \A v \in Writer : Calm(v)'
  BY <1>8, <1>9, OneWriter
<1>11. TypeOK'
  BY <1>1, <1>3, <1>4, <1>5, <1>6, <1>10 DEF TypeOK, Calm
<1> QED BY <1>10, <1>11, CalmSuffices

\* A sequence without repetitions stays so when something new is appended.
LEMMA AppendDistinct ==
    ASSUME NEW S, NEW seq \in Seq(S), NEW x \in S,
           \A i \in 1..Len(seq) : seq[i] # x,
           \A i, j \in 1..Len(seq) : seq[i] = seq[j] => i = j
    PROVE  /\ \A i, j \in 1..Len(Append(seq, x)) :
                Append(seq, x)[i] = Append(seq, x)[j] => i = j
           /\ \A i \in 1..Len(Append(seq, x)) :
                Append(seq, x)[i] = x \/ \E k \in 1..Len(seq) : Append(seq, x)[i] = seq[k]
<1> DEFINE new == Append(seq, x)
           len == Len(seq)
<1>1. len \in Nat /\ Len(new) = len + 1
  OBVIOUS
<1>2. (\A i \in 1..len : new[i] = seq[i]) /\ new[len + 1] = x
  OBVIOUS
<1>3. \A i \in 1..len : seq[i] # x
  OBVIOUS
<1>4. \A i, j \in 1..len : seq[i] = seq[j] => i = j
  OBVIOUS
<1> HIDE DEF new, len
<1>5. \A i \in 1..(len + 1) : i \in 1..len \/ i = len + 1
  BY <1>1
<1>6. \A i, j \in 1..(len + 1) : new[i] = new[j] => i = j
  BY <1>2, <1>3, <1>4, <1>5
<1>7. \A i \in 1..(len + 1) : new[i] = x \/ \E k \in 1..len : new[i] = seq[k]
  BY <1>2, <1>5
<1> QED BY <1>1, <1>6, <1>7 DEF new, len

\* A CDR that is lost to error 2013: its type has not had its loss in this row, because
\* the statements of those that had are not stale and the connection is not lost.
LEMMA ConnectionLosses ==
    ASSUME LossesInv, NEW w \in Writer, ConnectionLost(w)
    PROVE  LossesInv'
<1>1. TypeOK /\ Calm(w)
  BY AllCalm
<1> DEFINE type == job[w].type
           old == streak[w]
<1>2. PICK n \in 0..(Len(Statements[type]) - 1) :
        /\ Execute(w, n)
        /\ ~Works(w, Statements[type][n + 1]) \/ (n > 0 /\ "lost" \in Faults)
        /\ Reset(w, type)
        /\ streak' = [streak EXCEPT ![w] = IF n = 0 THEN Append(@, type) ELSE <<type>>]
  BY DEF ConnectionLost
<1>3. connection' = [connection EXCEPT ![w] = "none"] /\ lost' = lost \cup {job[w].session}
  BY DEF ConnectionLost
<1>4. type \in CdrEvent_t /\ job[w] # NULL
  BY <1>1 DEF ConnectionLost, TypeOK, Job
<1>5. /\ n \in Nat /\ Statements[type][1] \in StatementsOf(type)
      /\ StatementsOf(type) \subseteq AllStatements
  <2> DEFINE len == Len(Statements[type])
  <2>1. /\ len \in {1, 2} /\ n \in 0..(len - 1)
        /\ \A i \in 1..len : Statements[type][i] \in StatementsOf(type)
        /\ StatementsOf(type) \subseteq AllStatements
    BY <1>4, StatementFacts
  <2> HIDE DEF len
  <2>2. n \in Nat /\ 1 \in 1..len
    BY <2>1
  <2> QED BY <2>1, <2>2
<1>6. /\ job[w].session \in Session
      /\ cdr_session' \in [Session -> Row \cup {NULL}]
      /\ termination_attempt' \in [Session -> [failed: Nat, connected: Nat, ended: Nat]]
      /\ job' = [job EXCEPT ![w] = NULL]
      /\ job' \in [Writer -> Job \cup {NULL}]
      /\ UNCHANGED <<process, posted, m_cdrType, m_cdrWriter, m_io_service>>
  BY <1>1, <1>2, <1>5, ExecuteEffect
<1>7. /\ prepared' = [prepared EXCEPT ![w] = {}]
      /\ stale' = [stale EXCEPT ![w] = (@ \cup prepared[w]) \ StatementsOf(type)]
  BY <1>2 DEF Reset
<1>8. /\ prepared' \in [Writer -> SUBSET AllStatements]
      /\ stale' \in [Writer -> SUBSET AllStatements]
      /\ prepared'[w] = {}
      /\ stale'[w] = (stale[w] \cup prepared[w]) \ StatementsOf(type)
      /\ connection' \in [Writer -> {"none", "live", "lost"}]
      /\ connection'[w] = "none"
      /\ job'[w] = NULL
  BY <1>1, <1>3, <1>6, <1>7 DEF TypeOK
<1>9. old \in Seq(CdrEvent_t) /\ streak \in [Writer -> Seq(CdrEvent_t)]
  BY <1>1 DEF TypeOK
<1>10. /\ streak'[w] \in Seq(CdrEvent_t)
       /\ \A i, j \in 1..Len(streak'[w]) : streak'[w][i] = streak'[w][j] => i = j
       /\ \A i \in 1..Len(streak'[w]) : StatementsOf(streak'[w][i]) \cap stale'[w] = {}
  <2>1. CASE n = 0
    <3>1. streak'[w] = Append(old, type)
      BY <1>2, <1>9, <2>1
    <3>2. \A i \in 1..Len(old) : old # <<>> /\ StatementsOf(old[i]) \cap stale[w] = {}
                                 /\ prepared[w] = {} /\ connection[w] = "live"
      <4> SUFFICES ASSUME NEW i \in 1..Len(old)
                   PROVE  old # <<>> /\ StatementsOf(old[i]) \cap stale[w] = {}
                          /\ prepared[w] = {} /\ connection[w] = "live"
        OBVIOUS
      <4>1. old # <<>>
        BY <1>9
      <4>2. connection[w] \in {"none", "live", "lost"}
        BY <1>1 DEF TypeOK
      <4> QED BY <1>1, <1>4, <4>1, <4>2 DEF Calm
    <3>3. \A i \in 1..Len(old) : old[i] # type
      <4> SUFFICES ASSUME NEW i \in 1..Len(old), old[i] = type PROVE FALSE
        OBVIOUS
      <4>1. ~Works(w, Statements[type][1])
        BY <1>2, <2>1
      <4>2. Statements[type][1] \in stale[w]
        BY <3>2, <4>1 DEF Works
      <4> QED BY <1>5, <3>2, <4>2
    <3>4. \A i, j \in 1..Len(old) : old[i] = old[j] => i = j
      BY <1>1 DEF Calm
    <3> HIDE DEF old, type
    <3>5. /\ \A i, j \in 1..Len(streak'[w]) : streak'[w][i] = streak'[w][j] => i = j
          /\ \A i \in 1..Len(streak'[w]) :
               streak'[w][i] = type \/ \E k \in 1..Len(old) : streak'[w][i] = old[k]
      <4>1. type \in CdrEvent_t
        BY <1>4
      <4>2. old \in Seq(CdrEvent_t)
        BY <1>9
      <4>3. /\ \A i, j \in 1..Len(Append(old, type)) :
                 Append(old, type)[i] = Append(old, type)[j] => i = j
            /\ \A i \in 1..Len(Append(old, type)) :
                 \/ Append(old, type)[i] = type
                 \/ \E k \in 1..Len(old) : Append(old, type)[i] = old[k]
        BY <3>3, <3>4, <4>1, <4>2, AppendDistinct
      <4> QED BY <3>1, <4>3, Zenon
    <3>6. ASSUME NEW i \in 1..Len(streak'[w])
          PROVE  StatementsOf(streak'[w][i]) \cap stale'[w] = {}
      <4>1. CASE streak'[w][i] = type
        BY <1>8, <4>1
      <4>2. ASSUME NEW k \in 1..Len(old), streak'[w][i] = old[k]
            PROVE  StatementsOf(streak'[w][i]) \cap stale'[w] = {}
        BY <1>8, <3>2, <4>2
      <4> QED BY <3>5, <4>1, <4>2
    <3>7. streak'[w] \in Seq(CdrEvent_t)
      BY <1>4, <1>9, <3>1
    <3> QED BY <3>5, <3>6, <3>7
  <2>2. CASE n # 0
    <3>1. streak'[w] = <<type>>
      BY <1>2, <1>9, <2>2
    <3> HIDE DEF type
    <3>2. Len(streak'[w]) = 1 /\ streak'[w][1] = type /\ streak'[w] \in Seq(CdrEvent_t)
      BY <1>4, <3>1
    <3>3. \A i \in 1..1 : i = 1
      OBVIOUS
    <3>4. StatementsOf(type) \cap stale'[w] = {}
      BY <1>8
    <3> QED BY <3>2, <3>3, <3>4
  <2> QED BY <2>1, <2>2
<1>11. streak' \in [Writer -> Seq(CdrEvent_t)]
  BY <1>2, <1>9, <1>10
<1>12. Elsewhere(w)
  BY <1>1, <1>2, <1>3, <1>6, <1>7 DEF Elsewhere, TypeOK
<1>13. Calm(w)'
  BY <1>8, <1>10 DEF Calm
<1>14. \A v \in Writer : Calm(v)'
  BY <1>12, <1>13, OneWriter
<1>15. lost' \subseteq Session
  BY <1>1, <1>3, <1>6 DEF TypeOK
<1>16. TypeOK'
  BY <1>1, <1>6, <1>8, <1>11, <1>14, <1>15 DEF TypeOK, Calm
<1> QED BY <1>14, <1>16, CalmSuffices

\* The timer gives up a connection that was lost, or makes a new one; the database closes
\* one.
LEMMA LinkLosses ==
    ASSUME LossesInv, NEW w \in Writer, timer_handler(w) \/ Lose(w)
    PROVE  LossesInv'
<1>1. TypeOK /\ Calm(w)
  BY AllCalm
<1>2. UNCHANGED <<process, posted, m_cdrType, m_cdrWriter, m_io_service, job, cdr_session,
                  termination_attempt, lost>>
  BY DEF timer_handler, Lose, controller, tables
<1>3. <<>> \in Seq(CdrEvent_t) /\ Len(<<>>) = 0
  OBVIOUS
<1>4. CASE timer_handler(w) /\ connection[w] = "none"
  <2>1. /\ connection' = [connection EXCEPT ![w] = "live"]
        /\ UNCHANGED <<prepared, stale, streak>> /\ job[w] = NULL
    BY <1>4 DEF timer_handler, statements
  <2>2. connection' \in [Writer -> {"none", "live", "lost"}] /\ connection'[w] = "live"
    BY <1>1, <2>1 DEF TypeOK
  <2>3. Elsewhere(w) /\ Calm(w)'
    BY <1>1, <1>2, <2>1, <2>2 DEF Elsewhere, Calm, TypeOK
  <2>4. \A v \in Writer : Calm(v)'
    BY <2>3, OneWriter
  <2>5. TypeOK'
    BY <1>1, <1>2, <2>1, <2>2, <2>4 DEF TypeOK, Calm
  <2> QED BY <2>4, <2>5, CalmSuffices
<1>5. CASE timer_handler(w) /\ connection[w] # "none"
  <2>1. /\ connection' = [connection EXCEPT ![w] = "none"]
        /\ stale' = [stale EXCEPT ![w] = @ \cup prepared[w]]
        /\ prepared' = [prepared EXCEPT ![w] = {}]
        /\ streak' = [streak EXCEPT ![w] = IF connection[w] = "live" THEN <<>> ELSE @]
        /\ job[w] = NULL /\ connection[w] \in {"live", "lost"}
    BY <1>5 DEF timer_handler
  <2>2. /\ connection' \in [Writer -> {"none", "live", "lost"}] /\ connection'[w] = "none"
        /\ prepared' \in [Writer -> SUBSET AllStatements] /\ prepared'[w] = {}
        /\ stale' \in [Writer -> SUBSET AllStatements]
    BY <1>1, <2>1 DEF TypeOK
  <2>3. streak[w] # <<>> => connection[w] = "live"
    BY <1>1, <2>1 DEF Calm
  <2>4. streak'[w] = <<>> /\ streak' \in [Writer -> Seq(CdrEvent_t)]
    BY <1>1, <1>3, <2>1, <2>3 DEF TypeOK
  <2>5. Elsewhere(w) /\ Calm(w)'
    BY <1>1, <1>2, <1>3, <2>1, <2>2, <2>4 DEF Elsewhere, Calm, TypeOK
  <2>6. \A v \in Writer : Calm(v)'
    BY <2>5, OneWriter
  <2>7. TypeOK'
    BY <1>1, <1>2, <2>2, <2>4, <2>6 DEF TypeOK, Calm
  <2> QED BY <2>6, <2>7, CalmSuffices
<1>6. CASE Lose(w)
  <2>1. /\ connection' = [connection EXCEPT ![w] = "lost"]
        /\ streak' = [streak EXCEPT ![w] = <<>>]
        /\ UNCHANGED <<prepared, stale>> /\ connection[w] = "live"
    BY <1>6 DEF Lose, statements
  <2>2. connection' \in [Writer -> {"none", "live", "lost"}] /\ connection'[w] = "lost"
    BY <1>1, <2>1 DEF TypeOK
  <2>3. streak'[w] = <<>> /\ streak' \in [Writer -> Seq(CdrEvent_t)]
    BY <1>1, <1>3, <2>1 DEF TypeOK
  <2>4. Elsewhere(w) /\ Calm(w)'
    BY <1>1, <1>2, <1>3, <2>1, <2>2, <2>3 DEF Elsewhere, Calm, TypeOK
  <2>5. \A v \in Writer : Calm(v)'
    BY <2>4, OneWriter
  <2>6. TypeOK'
    BY <1>1, <1>2, <2>1, <2>2, <2>3, <2>5 DEF TypeOK, Calm
  <2> QED BY <2>5, <2>6, CalmSuffices
<1> QED BY <1>4, <1>5, <1>6

\* Every step of the controller, of a worker and of the database preserves it.
LEMMA NextLosses == LossesInv /\ [Next]_vars => LossesInv'
<1> SUFFICES ASSUME LossesInv, [Next]_vars PROVE LossesInv'
  OBVIOUS
<1>1. CASE ControllerStep
  <2>1. TypeOK' /\ UNCHANGED <<job, connection, prepared, stale, streak>>
    BY <1>1, ControllerTypes DEF LossesInv
  <2> QED BY <2>1 DEF LossesInv, JobConnected, LossInv, OneLossPerType
<1>2. ASSUME NEW w \in 1..m_cdrWriter,
             \/ NoConnection(w) \/ Dispatch(w) \/ Write(w) \/ ConnectionLost(w)
             \/ OtherError(w) \/ timer_handler(w) \/ Lose(w)
      PROVE  LossesInv'
  <2>1. w \in Writer
    BY BoundAssumption DEF LossesInv, TypeOK, Writer
  <2> QED BY <1>2, <2>1, TakeLosses, WriteLosses, ConnectionLosses, LinkLosses
<1>3. CASE UNCHANGED vars
  BY <1>3 DEF vars, controller, statements, tables, history, LossesInv, TypeOK,
              JobConnected, LossInv, OneLossPerType
<1> QED BY <1>1, <1>2, <1>3 DEF Next, ControllerStep

\* The statements, the connection and the losses of every writer agree, in every
\* reachable state.
THEOREM LossesInvariance == Spec => []LossesInv
BY InitLosses, NextLosses, PTL DEF Spec

\* A lost connection costs every type of CDR at most one record in a row (the write*Cdr
\* functions reset their own statements only, and give the connection up).
THEOREM OneLoss == Spec => []OneLossPerType
<1>1. LossesInv => OneLossPerType
  BY DEF LossesInv
<1> QED BY <1>1, LossesInvariance, PTL

-----------------------------------------------------------------------------
(* Insertions *)

\* At first nothing has been posted.
LEMMA InitInserts == Init => InsertInv
<1> SUFFICES ASSUME Init, NEW c \in Session PROVE InsertOnce(c)
  BY DEF InsertInv
<1>1. \A w \in Writer : job[w] = NULL /\ Len(m_io_service[w]) = 0
  BY DEF Init
<1>2. \A w \in Writer : ~Inserting(c, w) /\ \A i \in Nat : ~Queued(c, w, i)
  BY <1>1 DEF Inserting, Queued
<1>3. cdr_session[c] = NULL
  BY DEF Init
<1> QED BY <1>2, <1>3 DEF InsertOnce

\* postCdr puts the object behind all others.
LEMMA QueueAfterPost ==
    ASSUME TypeOK, NEW c \in Session, NEW event \in Events,
           NEW cdr \in Copies \cup {"shared"}, Post(c, event, cdr),
           NEW d \in Session, NEW v \in Writer, NEW i \in Nat, Queued(d, v, i)'
    PROVE  \/ Queued(d, v, i)
           \/ d = c /\ cdr = "shared" /\ v = m_cdrWriter /\ i = Len(m_io_service[v]) + 1
<1> DEFINE queue == m_io_service[v]
           new == [session |-> c, cdr |-> cdr]
<1>1. queue \in Seq(Cdr) /\ m_io_service \in [Writer -> Seq(Cdr)] /\ m_cdrWriter \in Writer
  BY DEF TypeOK
<1>2. new \in Cdr /\ new.session = c /\ new.cdr = cdr
  BY DEF Cdr
<1>3. m_io_service' = [m_io_service EXCEPT ![m_cdrWriter] = Append(@, new)]
  BY PostEffect
<1>4. /\ i \in 1..Len(m_io_service'[v])
      /\ m_io_service'[v][i].session = d /\ m_io_service'[v][i].cdr = "shared"
  BY DEF Queued
<1> HIDE DEF new
<1>5. CASE v # m_cdrWriter
  <2>1. m_io_service'[v] = queue
    BY <1>1, <1>3, <1>5
  <2> QED BY <1>4, <2>1 DEF Queued
<1>6. CASE v = m_cdrWriter
  <2>1. m_io_service'[v] = Append(queue, new)
    BY <1>1, <1>3, <1>6
  <2> HIDE DEF queue
  <2>2. /\ Len(queue) \in Nat /\ Len(m_io_service'[v]) = Len(queue) + 1
        /\ m_io_service'[v][Len(queue) + 1] = new
        /\ \A k \in 1..Len(queue) : m_io_service'[v][k] = queue[k]
    BY <1>1, <1>2, <2>1
  <2>3. CASE i = Len(queue) + 1
    BY <1>2, <1>4, <1>6, <2>2, <2>3 DEF queue
  <2>4. CASE i # Len(queue) + 1
    <3>1. i \in 1..Len(queue)
      BY <1>4, <2>2, <2>4
    <3> QED BY <1>4, <2>2, <3>1 DEF Queued, queue
  <2> QED BY <2>3, <2>4
<1> QED BY <1>5, <1>6

\* The object of an origination is posted for an INSERT only by Request, once.
LEMMA ControllerInserts ==
    ASSUME TypeOK, InsertInv, ControllerStep
    PROVE  InsertInv'
<1>1. UNCHANGED <<job, cdr_session>>
  BY ControllerTypes
<1>2. \A d \in Session, v \in Writer : Inserting(d, v)' <=> Inserting(d, v)
  BY <1>1 DEF Inserting
<1>3. ASSUME NEW c \in Session,
             Request(c) \/ FinalResponse(c) \/ Cancel(c) \/ Bye(c) \/ Attempt(c),
             NEW d \in Session
      PROVE  InsertOnce(d)'
  <2>1. PICK event \in Events, cdr \in Copies \cup {"shared"} :
             /\ Post(c, event, cdr)
             /\ \/ m_cdrType' = m_cdrType /\ (cdr = "shared" => posted[c] = <<>>)
                \/ \E type \in {"origination_cancel", "call_cleared"} :
                     m_cdrType' = [m_cdrType EXCEPT ![c] = type]
    BY <1>3, ControllerEffect
  <2>2. \A v \in Writer, i \in Nat : Queued(d, v, i)' =>
          \/ Queued(d, v, i)
          \/ d = c /\ cdr = "shared" /\ v = m_cdrWriter /\ i = Len(m_io_service[v]) + 1
    BY <2>1, QueueAfterPost
  <2>3. posted' = [posted EXCEPT ![c] = Append(@, event)] /\ posted \in [Session -> Seq(Events)]
    BY <2>1, PostEffect DEF TypeOK
  <2>4. m_cdrType \in [Session -> {"origination_request", "origination_cancel", "call_cleared"}]
    BY DEF TypeOK
  <2>5. InsertOnce(d)
    BY DEF InsertInv
  <2>6. CASE d # c
    <3>1. posted'[d] = posted[d] /\ m_cdrType'[d] = m_cdrType[d]
      BY <2>1, <2>3, <2>4, <2>6
    <3>2. \A v \in Writer, i \in Nat : Queued(d, v, i)' => Queued(d, v, i)
      BY <2>2, <2>6
    <3> QED BY <1>1, <1>2, <2>5, <3>1, <3>2 DEF InsertOnce
  <2>7. CASE d = c
    <3>1. posted'[d] # <<>>
      <4>1. posted[d] \in Seq(Events) /\ posted'[d] = Append(posted[d], event)
        BY <2>3, <2>7
      <4> QED BY <4>1
    <3>2. CASE m_cdrType'[d] = "origination_request" /\ cdr = "shared"
      <4>1. posted[d] = <<>>
        BY <2>1, <2>4, <2>7, <3>2
      <4>2. /\ \A v \in Writer, i \in Nat : Queued(d, v, i)' =>
                 v = m_cdrWriter /\ i = Len(m_io_service[v]) + 1
            /\ cdr_session[d] = NULL /\ \A v \in Writer : ~Inserting(d, v)
        BY <2>2, <2>5, <4>1 DEF InsertOnce
      <4> QED BY <1>1, <1>2, <3>1, <4>2 DEF InsertOnce
    <3>3. CASE m_cdrType'[d] = "origination_request" /\ cdr # "shared"
      <4>1. m_cdrType[d] = "origination_request"
        BY <2>1, <2>4, <2>7, <3>3
      <4>2. \A v \in Writer, i \in Nat : Queued(d, v, i)' => Queued(d, v, i)
        BY <2>2, <3>3
      <4> QED BY <1>1, <1>2, <2>5, <3>1, <4>1, <4>2 DEF InsertOnce
    <3>4. CASE m_cdrType'[d] # "origination_request"
      BY <1>1, <1>2, <2>5, <3>1, <3>4 DEF InsertOnce
    <3> QED BY <3>2, <3>3, <3>4
  <2> QED BY <2>6, <2>7
<1>4. CASE Reload \/ ShutDown
  <2>1. UNCHANGED <<posted, m_cdrType, m_io_service>>
    BY <1>4 DEF Reload, ShutDown
  <2> QED BY <1>1, <2>1 DEF InsertInv, InsertOnce, Queued, Inserting
<1> QED BY <1>3, <1>4 DEF ControllerStep, InsertInv

\* What a queue holds without its first entry.
LEMMA TailOfQueue ==
    ASSUME NEW S, NEW seq \in Seq(S), seq # <<>>
    PROVE  /\ Len(seq) \in Nat /\ Len(Tail(seq)) = Len(seq) - 1
           /\ \A k \in 1..(Len(seq) - 1) : Tail(seq)[k] = seq[k + 1]
OBVIOUS

\* A worker takes the first entry of its queue.
LEMMA QueueAfterTake ==
    ASSUME TypeOK, NEW w \in Writer, m_io_service[w] # <<>>,
           m_io_service' = [m_io_service EXCEPT ![w] = Tail(@)],
           NEW d \in Session, NEW v \in Writer, NEW i \in Nat, Queued(d, v, i)'
    PROVE  IF v = w THEN i > 0 /\ Queued(d, v, i + 1) ELSE Queued(d, v, i)
<1> DEFINE queue == m_io_service[v]
<1>1. queue \in Seq(Cdr) /\ m_io_service \in [Writer -> Seq(Cdr)]
  BY DEF TypeOK
<1>2. /\ i \in 1..Len(m_io_service'[v])
      /\ m_io_service'[v][i].session = d /\ m_io_service'[v][i].cdr = "shared"
  BY DEF Queued
<1>3. CASE v # w
  <2>1. m_io_service'[v] = queue
    BY <1>1, <1>3
  <2> QED BY <1>2, <1>3, <2>1 DEF Queued
<1>4. CASE v = w
  <2>1. m_io_service'[v] = Tail(queue) /\ queue # <<>>
    BY <1>1, <1>4
  <2> HIDE DEF queue
  <2>2. /\ Len(queue) \in Nat /\ Len(m_io_service'[v]) = Len(queue) - 1
        /\ \A k \in 1..(Len(queue) - 1) : m_io_service'[v][k] = queue[k + 1]
    <3>1. /\ Len(queue) \in Nat /\ Len(Tail(queue)) = Len(queue) - 1
          /\ \A k \in 1..(Len(queue) - 1) : Tail(queue)[k] = queue[k + 1]
      BY <1>1, <2>1, TailOfQueue
    <3> QED BY <2>1, <3>1
  <2>3. i > 0 /\ i + 1 \in 1..Len(queue) /\ m_io_service'[v][i] = queue[i + 1]
    BY <1>2, <2>2
  <2> QED BY <1>2, <1>4, <2>3 DEF Queued, queue
<1> QED BY <1>3, <1>4

\* Taking an entry: an object whose INSERT is due is in no other place.
LEMMA TakeInserts ==
    ASSUME TypeOK, InsertInv, NEW w \in Writer, NoConnection(w) \/ Dispatch(w)
    PROVE  InsertInv'
<1> DEFINE queue == m_io_service[w]
<1>1. /\ queue # <<>> /\ queue \in Seq(Cdr)
      /\ m_io_service' = [m_io_service EXCEPT ![w] = Tail(@)]
      /\ UNCHANGED <<posted, m_cdrType, cdr_session>>
  BY DEF NoConnection, Dispatch, TypeOK, controller, tables
<1>2. Head(queue) \in Cdr /\ Head(queue) = queue[1] /\ 1 \in 1..Len(queue)
  BY <1>1
<1>3. ASSUME NEW d \in Session, NEW v \in Writer, Inserting(d, v)'
      PROVE  \/ Inserting(d, v)
             \/ v = w /\ Queued(d, w, 1) /\ m_cdrType[d] = "origination_request"
  <2>1. CASE NoConnection(w)
    BY <1>3, <2>1 DEF NoConnection, Inserting
  <2>2. CASE Dispatch(w)
    <3> DEFINE cdr == Head(queue)
               new == [session |-> cdr.session, cdr |-> cdr.cdr, type |-> getCdrType(cdr)]
    <3>1. job' = [job EXCEPT ![w] = new] /\ job \in [Writer -> Job \cup {NULL}]
      BY <2>2 DEF Dispatch, TypeOK
    <3>2. CASE v # w
      <4>1. job'[v] = job[v]
        BY <3>1, <3>2
      <4> QED BY <1>3, <4>1 DEF Inserting
    <3>3. CASE v = w
      <4>1. job'[v] = new
        BY <3>1, <3>3
      <4>2. new.session = cdr.session /\ new.type = getCdrType(cdr)
        OBVIOUS
      <4> HIDE DEF new
      <4>3. cdr.session = d /\ getCdrType(cdr) = "origination_request"
        BY <1>3, <4>1, <4>2 DEF Inserting
      <4>4. cdr.cdr = "shared" /\ m_cdrType[d] = "origination_request"
        BY <1>2, <4>3, CdrTypes
      <4> QED BY <1>2, <3>3, <4>3, <4>4 DEF Queued
    <3> QED BY <3>2, <3>3
  <2> QED BY <2>1, <2>2
<1>4. ASSUME NEW d \in Session, NEW v \in Writer, NEW i \in Nat, Queued(d, v, i)'
      PROVE  IF v = w THEN i > 0 /\ Queued(d, v, i + 1) ELSE Queued(d, v, i)
  BY <1>1, <1>4, QueueAfterTake
<1> SUFFICES ASSUME NEW d \in Session PROVE InsertOnce(d)'
  BY DEF InsertInv
<1>5. InsertOnce(d)
  BY DEF InsertInv
<1>6. CASE Queued(d, w, 1) /\ m_cdrType[d] = "origination_request"
  <2>1. posted[d] # <<>> /\ cdr_session[d] = NULL /\ \A v \in Writer : ~Inserting(d, v)
    BY <1>5, <1>6 DEF InsertOnce
  <2>2. \A v \in Writer, i \in Nat : ~Queued(d, v, i)'
    <3> SUFFICES ASSUME NEW v \in Writer, NEW i \in Nat, Queued(d, v, i)' PROVE FALSE
      OBVIOUS
    <3>1. \A u \in Writer, k \in Nat : Queued(d, u, k) => u = w /\ k = 1
      BY <1>5, <1>6 DEF InsertOnce
    <3>2. CASE v = w
      <4>1. i > 0 /\ Queued(d, v, i + 1)
        BY <1>4, <3>2
      <4> QED BY <3>1, <4>1
    <3>3. CASE v # w
      BY <1>4, <3>1, <3>3
    <3> QED BY <3>2, <3>3
  <2>3. \A v \in Writer : Inserting(d, v)' => v = w
    BY <1>3, <2>1
  <2> QED BY <1>1, <2>1, <2>2, <2>3 DEF InsertOnce
<1>7. CASE ~(Queued(d, w, 1) /\ m_cdrType[d] = "origination_request")
  <2>1. \A v \in Writer : Inserting(d, v)' => Inserting(d, v)
    BY <1>3, <1>7
  <2> DEFINE Before(v, i) == IF v = w THEN i + 1 ELSE i
  <2>2. \A v \in Writer, i \in Nat : Queued(d, v, i)' =>
          Before(v, i) \in Nat /\ Queued(d, v, Before(v, i))
    BY <1>4
  <2>3. \A v \in Writer : \A i, k \in Nat : Before(v, i) = Before(v, k) => i = k
    OBVIOUS
  <2> HIDE DEF Before
  <2>4. posted'[d] = <<>> =>
           /\ \A v \in Writer : ~Inserting(d, v)' /\ \A i \in Nat : ~Queued(d, v, i)'
           /\ cdr_session'[d] = NULL
    BY <1>1, <1>5, <2>1, <2>2 DEF InsertOnce
  <2>5. ASSUME m_cdrType'[d] = "origination_request",
               NEW v \in Writer, NEW u \in Writer, NEW i \in Nat, NEW k \in Nat,
               Queued(d, v, i)', Queued(d, u, k)'
        PROVE  v = u /\ i = k
    <3>1. /\ Queued(d, v, Before(v, i)) /\ Before(v, i) \in Nat
          /\ Queued(d, u, Before(u, k)) /\ Before(u, k) \in Nat
      BY <2>2, <2>5
    <3>2. v = u /\ Before(v, i) = Before(u, k)
      BY <1>1, <1>5, <2>5, <3>1 DEF InsertOnce
    <3> QED BY <2>3, <3>2
  <2>6. ASSUME m_cdrType'[d] = "origination_request",
               NEW v \in Writer, NEW i \in Nat, Queued(d, v, i)'
        PROVE  cdr_session'[d] = NULL /\ \A u \in Writer : ~Inserting(d, u)'
    BY <1>1, <1>5, <2>1, <2>2, <2>6 DEF InsertOnce
  <2>7. /\ \A v, u \in Writer : Inserting(d, v)' /\ Inserting(d, u)' => v = u
        /\ \A v \in Writer : Inserting(d, v)' => cdr_session'[d] = NULL
    BY <1>1, <1>5, <2>1 DEF InsertOnce
  <2> QED BY <2>4, <2>5, <2>6, <2>7 DEF InsertOnce
<1> QED BY <1>6, <1>7

\* The end of a job: only the one job that may INSERT the row makes one.
LEMMA ExecuteInserts ==
    ASSUME TypeOK, InsertInv, NEW w \in Writer, NEW n \in Nat, Execute(w, n)
    PROVE  InsertInv'
<1> DEFINE j == job[w]
<1>1. /\ j # NULL /\ j \in Job /\ j.session \in Session /\ n \in 0..2
      /\ cdr_session' = [cdr_session EXCEPT ![j.session] = RowAfter(j, n)]
      /\ job' = [job EXCEPT ![w] = NULL]
      /\ UNCHANGED <<posted, m_cdrType, m_io_service>>
  BY ExecuteEffect
<1>2. job \in [Writer -> Job \cup {NULL}] /\ cdr_session \in [Session -> Row \cup {NULL}]
  BY DEF TypeOK
<1>3. cdr_session[j.session] = NULL /\ j.type # "origination_request" =>
        RowAfter(j, n) = NULL
  BY <1>1, RowTypes
<1>4. \A d \in Session, v \in Writer : Inserting(d, v)' => Inserting(d, v) /\ v # w
  <2> SUFFICES ASSUME NEW d \in Session, NEW v \in Writer, Inserting(d, v)'
               PROVE  Inserting(d, v) /\ v # w
    OBVIOUS
  <2>1. v # w
    BY <1>1, <1>2 DEF Inserting
  <2>2. job'[v] = job[v]
    BY <1>1, <1>2, <2>1
  <2> QED BY <2>1, <2>2 DEF Inserting
<1>5. \A d \in Session, v \in Writer, i \in Nat : Queued(d, v, i)' <=> Queued(d, v, i)
  BY <1>1 DEF Queued
<1> SUFFICES ASSUME NEW d \in Session PROVE InsertOnce(d)'
  BY DEF InsertInv
<1>6. InsertOnce(d)
  BY DEF InsertInv
<1>7. cdr_session[d] = NULL /\ cdr_session'[d] # NULL => Inserting(d, w)
  <2> SUFFICES ASSUME cdr_session[d] = NULL, cdr_session'[d] # NULL PROVE Inserting(d, w)
    OBVIOUS
  <2>1. d = j.session
    BY <1>1, <1>2
  <2>2. cdr_session'[d] = RowAfter(j, n)
    BY <1>1, <1>2, <2>1
  <2>3. j.type = "origination_request"
    BY <1>3, <2>1, <2>2
  <2> QED BY <1>1, <2>1, <2>3 DEF Inserting
<1>8. CASE Inserting(d, w)
  <2>1. /\ posted[d] # <<>>
        /\ \A v \in Writer : ~Inserting(d, v)'
        /\ m_cdrType[d] = "origination_request" =>
             \A v \in Writer, i \in Nat : ~Queued(d, v, i)
    BY <1>4, <1>6, <1>8 DEF InsertOnce
  <2> QED BY <1>1, <1>5, <2>1 DEF InsertOnce
<1>9. CASE ~Inserting(d, w)
  <2>1. cdr_session[d] = NULL => cdr_session'[d] = NULL
    BY <1>7, <1>9
  <2> QED BY <1>1, <1>4, <1>5, <1>6, <2>1 DEF InsertOnce
<1> QED BY <1>8, <1>9

\* Every step preserves it.
LEMMA NextInserts == LossesInv /\ InsertInv /\ [Next]_vars => InsertInv'
<1> SUFFICES ASSUME LossesInv, InsertInv, [Next]_vars PROVE InsertInv'
  OBVIOUS
<1>1. TypeOK
  BY DEF LossesInv
<1>2. CASE ControllerStep
  BY <1>1, <1>2, ControllerInserts
<1>3. ASSUME NEW w \in 1..m_cdrWriter,
             \/ NoConnection(w) \/ Dispatch(w) \/ Write(w) \/ ConnectionLost(w)
             \/ OtherError(w) \/ timer_handler(w) \/ Lose(w)
      PROVE  InsertInv'
  <2>1. w \in Writer
    BY <1>1, BoundAssumption DEF TypeOK, Writer
  <2>2. CASE NoConnection(w) \/ Dispatch(w)
    BY <1>1, <2>1, <2>2, TakeInserts
  <2>3. CASE Write(w) \/ ConnectionLost(w) \/ OtherError(w)
    <3>1. job[w] # NULL /\ job[w].type \in CdrEvent_t
      BY <1>1, <2>1, <2>3 DEF Write, ConnectionLost, OtherError, TypeOK, Job
    <3> DEFINE len == Len(Statements[job[w].type])
    <3>2. len \in {1, 2}
      BY <3>1, StatementFacts
    <3>3. Execute(w, len) \/ \E n \in 0..(len - 1) : Execute(w, n)
      BY <2>3 DEF Write, ConnectionLost, OtherError
    <3> HIDE DEF len
    <3>4. len \in Nat /\ \A n \in 0..(len - 1) : n \in Nat
      BY <3>2
    <3> QED BY <1>1, <2>1, <3>3, <3>4, ExecuteInserts
  <2>4. CASE timer_handler(w) \/ Lose(w)
    <3>1. UNCHANGED <<posted, m_cdrType, m_io_service, job, cdr_session>>
      BY <2>4 DEF timer_handler, Lose, controller, tables
    <3> QED BY <3>1 DEF InsertInv, InsertOnce, Queued, Inserting
  <2> QED BY <1>3, <2>2, <2>3, <2>4
<1>4. CASE UNCHANGED vars
  <2>1. UNCHANGED <<posted, m_cdrType, m_io_service, job, cdr_session>>
    BY <1>4 DEF vars, controller, tables
  <2> QED BY <2>1 DEF InsertInv, InsertOnce, Queued, Inserting
<1> QED BY <1>2, <1>3, <1>4 DEF Next, ControllerStep

\* The object of an origination is queued for its INSERT, being inserted or inserted, and
\* only one of these, in every reachable state.
THEOREM InsertInvariance == Spec => []InsertInv
BY InitInserts, NextInserts, LossesInvariance, PTL DEF Spec

\* No origination is inserted twice, whatever the controller does to the shared object
\* meanwhile and however many writers there are.
THEOREM InsertedOnceOnly == Spec => []InsertedOnce
<1>1. LossesInv /\ InsertInv => InsertedOnce
  <2> SUFFICES ASSUME LossesInv, InsertInv, NEW w \in Writer, job[w] # NULL,
                      job[w].type = "origination_request"
               PROVE  cdr_session[job[w].session] = NULL
    BY DEF InsertedOnce
  <2>1. job[w].session \in Session
    BY DEF LossesInv, TypeOK, Job
  <2>2. Inserting(job[w].session, w)
    BY DEF Inserting
  <2> QED BY <2>1, <2>2 DEF InsertInv, InsertOnce
<1> QED BY <1>1, LossesInvariance, InsertInvariance, PTL

-----------------------------------------------------------------------------
(* What the tables tell *)

\* What is posted for an event.
Shown(event) == IF event \in Copies THEN event ELSE "shared"

\* The outcomes of an attempt.
Tried == {"attempt 200", "attempt failed"}

\* The events of a session come in this order, and the type of its shared object tells
\* the last change.
Story(c) ==
    /\ \A i \in 1..Len(posted[c]) :
         i = 1 <=> posted[c][i] \in {"request", "rejected"}
    /\ \A i, k \in 1..Len(posted[c]) : i < k =>
         /\ posted[c][i] # "rejected"
         /\ posted[c][i] \in {"failed", "cancelled", "cleared"} => posted[c][k] \in Tried
         /\ posted[c][i] = "answered" => posted[c][k] \in Tried \cup {"cleared"}
    /\ m_cdrType[c] = IF Has(c, "cancelled") THEN "origination_cancel"
                      ELSE IF Has(c, "cleared") THEN "call_cleared" ELSE "origination_request"

\* A CDR of c is being written (place 0), or is at place i of the queue of the only writer.
Stands(c, i) ==
    \/ i = 0 /\ job[1] # NULL /\ job[1].session = c
    \/ i \in 1..Len(m_io_service[1]) /\ m_io_service[1][i].session = c

CdrAt(i) == IF i = 0 THEN job[1].cdr ELSE m_io_service[1][i].cdr

\* Where the events of c after the first n may wait.
Places(c, n) == [(n + 1)..Len(posted[c]) -> 0..Len(m_io_service[1])]

\* The first n events of c have been written, and place[k] is where event k waits.
InOrder(c, n, place) ==
    /\ \A k \in (n + 1)..Len(posted[c]) :
         Stands(c, place[k]) /\ CdrAt(place[k]) = Shown(posted[c][k])
    /\ \A k, m \in (n + 1)..Len(posted[c]) : k < m => place[k] < place[m]
    /\ \A i \in 0..Len(m_io_service[1]) :
         Stands(c, i) => \E k \in (n + 1)..Len(posted[c]) : place[k] = i

\* The type an event may be written as: the request's object may have changed since.
Fits(type, event) ==
    CASE event = "request" -> type \in {"origination_request", "origination_cancel", "call_cleared"}
      [] event = "rejected" -> type = "origination_request"
      [] event \in {"answered", "failed"} -> type = "origination_final_response"
      [] event \in Tried -> type = "termination_attempt"
      [] event = "cancelled" -> type = "origination_cancel"
      [] event = "cleared" -> type = "call_cleared"

\* Among the first n events.
HasBy(c, event, n) == \E i \in 1..n : posted[c][i] = event
CountBy(c, event, n) == Cardinality({i \in 1..n : posted[c][i] = event})
EndedBy(c, n) == {i \in 1..n : /\ posted[c][i] = "attempt 200"
                               /\ \E k \in i..n : posted[c][k] = "cleared"}

\* The tables tell the first n events, if there is a row.
RowTells(c, n) ==
    LET row == cdr_session[c]
    IN /\ row.connect_time <=> HasBy(c, "answered", n)
       /\ (\E event \in {"failed", "cancelled", "cleared"} : HasBy(c, event, n)) => row.end_time
       /\ row.end_time => \E event \in {"failed", "cancelled", "cleared"} : Has(c, event)
       /\ row.status = CASE HasBy(c, "rejected", n) -> "rejected"
                         [] HasBy(c, "answered", n) -> "200"
                         [] HasBy(c, "failed", n) -> "failed"
                         [] HasBy(c, "cancelled", n) -> "487"
                         [] OTHER -> NULL
       /\ row.carrier <=> \E event \in Tried : HasBy(c, event, n)
AttemptsTell(c, n) ==
    termination_attempt[c] =
        [failed    |-> CountBy(c, "attempt failed", n),
         connected |-> CountBy(c, "attempt 200", n) - Cardinality(EndedBy(c, n)),
         ended     |-> Cardinality(EndedBy(c, n))]
Told(c, n) ==
    IF cdr_session[c] = NULL
    THEN termination_attempt[c] = [failed |-> 0, connected |-> 0, ended |-> 0]
    ELSE n > 0 /\ RowTells(c, n) /\ AttemptsTell(c, n)

\* The first n events of c are told, and the others wait in their order; the one being
\* written is of a type that fits it.
Progress(c, n, place) ==
    /\ InOrder(c, n, place)
    /\ job[1] # NULL /\ job[1].session = c =>
         n < Len(posted[c]) /\ Fits(job[1].type, posted[c][n + 1])
    /\ Told(c, n)

\* The strengthening of TablesTellEvents: with one writer, the CDRs of a session that lost
\* none are told up to some event, and the rest of them wait in order.
TableInv ==
    m_cdrWriter = 1 => \A c \in Session \ lost :
        \E n \in 0..Len(posted[c]) :
            \E place \in Places(c, n) : Progress(c, n, place)

\* Every session has its events in order.
StoryInv == \A c \in Session : Story(c)

\* Writer 1 is the one the process starts with.
LEMMA OneIsWriter == 1 \in Writer
BY BoundAssumption DEF Writer

\* One more event.
LEMMA HasByNext ==
    ASSUME NEW c, NEW n \in Nat, NEW event
    PROVE  HasBy(c, event, n + 1) <=> HasBy(c, event, n) \/ posted[c][n + 1] = event
<1>1. \A i \in 1..(n + 1) : i \in 1..n \/ i = n + 1
  OBVIOUS
<1>2. n + 1 \in 1..(n + 1) /\ \A i \in 1..n : i \in 1..(n + 1)
  OBVIOUS
<1> QED BY <1>1, <1>2 DEF HasBy

\* Sets of places among the first n.
LEMMA PlacesFinite ==
    ASSUME NEW n \in Nat, NEW S \in SUBSET (1..n)
    PROVE  IsFiniteSet(S) /\ Cardinality(S) \in Nat /\ n + 1 \notin S
           /\ Cardinality(S \cup {n + 1}) = Cardinality(S) + 1
<1>1. IsFiniteSet(1..n)
  BY FS_Interval
<1>2. IsFiniteSet(S)
  BY <1>1, FS_Subset
<1>3. Cardinality(S) \in Nat
  BY <1>2, FS_CardinalityType
<1>4. n + 1 \notin S
  OBVIOUS
<1> QED BY <1>2, <1>3, <1>4, FS_AddElement

\* How often an event occurs among one more.
LEMMA CountByNext ==
    ASSUME NEW c, NEW n \in Nat, NEW event
    PROVE  /\ CountBy(c, event, n) \in Nat
           /\ CountBy(c, event, n + 1) =
                IF posted[c][n + 1] = event THEN CountBy(c, event, n) + 1
                                            ELSE CountBy(c, event, n)
<1> DEFINE S == {i \in 1..n : posted[c][i] = event}
           T == {i \in 1..(n + 1) : posted[c][i] = event}
<1>1. Cardinality(S) \in Nat /\ Cardinality(S \cup {n + 1}) = Cardinality(S) + 1
  <2>1. S \in SUBSET (1..n)
    OBVIOUS
  <2> QED BY <2>1, PlacesFinite
<1>2. \A i : i \in 1..(n + 1) <=> i \in 1..n \/ i = n + 1
  OBVIOUS
<1>3. T = IF posted[c][n + 1] = event THEN S \cup {n + 1} ELSE S
  BY <1>2
<1>4. CountBy(c, event, n) = Cardinality(S) /\ CountBy(c, event, n + 1) = Cardinality(T)
  BY DEF CountBy
<1> QED BY <1>1, <1>3, <1>4

\* A BYE ends the attempts that were connected before it.
LEMMA EndedByNext ==
    ASSUME NEW c, NEW n \in Nat
    PROVE  /\ Cardinality(EndedBy(c, n)) \in Nat
           /\ Cardinality(EndedBy(c, n + 1)) =
                IF posted[c][n + 1] = "cleared" THEN CountBy(c, "attempt 200", n)
                                                ELSE Cardinality(EndedBy(c, n))
<1>1. Cardinality(EndedBy(c, n)) \in Nat
  <2>1. EndedBy(c, n) \in SUBSET (1..n)
    BY DEF EndedBy
  <2> QED BY <2>1, PlacesFinite
<1>2. \A i : i \in 1..(n + 1) <=> i \in 1..n \/ i = n + 1
  OBVIOUS
<1>3. CASE posted[c][n + 1] = "cleared"
  <2>1. \A i \in 1..n : n + 1 \in i..(n + 1)
    OBVIOUS
  <2>2. EndedBy(c, n + 1) = {i \in 1..n : posted[c][i] = "attempt 200"}
    BY <1>2, <1>3, <2>1 DEF EndedBy
  <2> QED BY <1>1, <1>3, <2>2 DEF CountBy
<1>4. CASE posted[c][n + 1] # "cleared"
  <2>1. \A i \in 1..(n + 1) : \A k : k \in i..(n + 1) <=> (k \in i..n \/ k = n + 1)
    OBVIOUS
  <2>2. \A k : k \notin (n + 1)..n
    OBVIOUS
  <2>3. EndedBy(c, n + 1) = EndedBy(c, n)
    BY <1>2, <1>4, <2>1, <2>2 DEF EndedBy
  <2> QED BY <1>1, <1>4, <2>3
<1> QED BY <1>1, <1>3, <1>4

\* What postCdr adds to the events of a session.
LEMMA PostedNext ==
    ASSUME TypeOK, NEW c \in Session, NEW event \in Events,
           NEW cdr \in Copies \cup {"shared"}, Post(c, event, cdr)
    PROVE  /\ Len(posted[c]) \in Nat /\ Len(posted'[c]) = Len(posted[c]) + 1
           /\ posted'[c][Len(posted[c]) + 1] = event
           /\ \A i \in 1..Len(posted[c]) : posted'[c][i] = posted[c][i]
           /\ \A e : Has(c, e)' <=> Has(c, e) \/ e = event
           /\ \A d \in Session \ {c} : posted'[d] = posted[d]
<1> DEFINE p == posted[c]
<1>1. posted \in [Session -> Seq(Events)] /\ p \in Seq(Events)
  BY DEF TypeOK
<1>2. posted' = [posted EXCEPT ![c] = Append(@, event)]
  BY PostEffect
<1>3. posted'[c] = Append(p, event) /\ \A d \in Session \ {c} : posted'[d] = posted[d]
  BY <1>1, <1>2
<1> HIDE DEF p
<1>4. /\ Len(p) \in Nat /\ Len(posted'[c]) = Len(p) + 1
      /\ posted'[c][Len(p) + 1] = event
      /\ \A i \in 1..Len(p) : posted'[c][i] = p[i]
  BY <1>1, <1>3
<1>5. \A i : i \in 1..(Len(p) + 1) <=> i \in 1..Len(p) \/ i = Len(p) + 1
  BY <1>4
<1>6. \A e : Has(c, e)' <=> Has(c, e) \/ e = event
  BY <1>4, <1>5 DEF Has, p
<1> QED BY <1>3, <1>4, <1>6 DEF p

\* What a session may post next.
MayFollow(c, event) ==
    /\ event \in {"request", "rejected"} <=> posted[c] = <<>>
    /\ event \notin {"request", "rejected"} => Has(c, "request")
    /\ event \notin Tried => ~Over(c)
    /\ event \in {"answered", "failed", "cancelled"} => ~Has(c, "answered")

\* What the controller posts for which event, and the type it leaves.
LEMMA StoryStep ==
    ASSUME TypeOK, NEW c \in Session,
           Request(c) \/ FinalResponse(c) \/ Cancel(c) \/ Bye(c) \/ Attempt(c)
    PROVE  \E event \in Events :
             /\ Post(c, event, Shown(event))
             /\ MayFollow(c, event)
             /\ m_cdrType' = IF event = "cancelled"
                             THEN [m_cdrType EXCEPT ![c] = "origination_cancel"]
                             ELSE IF event = "cleared"
                                  THEN [m_cdrType EXCEPT ![c] = "call_cleared"] ELSE m_cdrType
<1>1. Len(posted[c]) = 0 <=> posted[c] = <<>>
  <2>1. posted[c] \in Seq(Events)
    BY DEF TypeOK
  <2> QED BY <2>1
<1>2. \A e : Has(c, e) => posted[c] # <<>>
  BY <1>1 DEF Has
<1>3. CASE Request(c)
  <2>1. PICK event \in {"request", "rejected"} : Post(c, event, "shared")
    BY <1>3 DEF Request
  <2>2. /\ event \in Events /\ Shown(event) = "shared" /\ event \notin Tried
        /\ event \notin {"answered", "failed", "cancelled", "cleared"}
    BY DEF Events, Shown, Copies, Tried
  <2>3. posted[c] = <<>> /\ m_cdrType' = m_cdrType
    BY <1>3 DEF Request
  <2>4. MayFollow(c, event)
    BY <1>2, <2>2, <2>3 DEF MayFollow, Over
  <2> QED BY <2>1, <2>2, <2>3, <2>4
<1>4. CASE FinalResponse(c)
  <2>1. PICK event \in {"answered", "failed"} : Post(c, event, event)
    BY <1>4 DEF FinalResponse
  <2>2. /\ event \in Events /\ Shown(event) = event
        /\ event \notin {"request", "rejected", "cancelled", "cleared"}
    BY DEF Events, Shown, Copies
  <2>3. m_cdrType' = m_cdrType /\ Has(c, "request") /\ ~Has(c, "answered") /\ ~Over(c)
    BY <1>4 DEF FinalResponse, Ringing
  <2>4. MayFollow(c, event)
    BY <1>2, <2>2, <2>3 DEF MayFollow
  <2> QED BY <2>1, <2>2, <2>3, <2>4
<1>5. CASE Cancel(c)
  <2>1. "cancelled" \in Events /\ Shown("cancelled") = "shared"
    BY DEF Events, Shown, Copies
  <2>2. /\ Has(c, "request") /\ ~Has(c, "answered") /\ ~Over(c)
        /\ Post(c, "cancelled", "shared")
        /\ m_cdrType' = [m_cdrType EXCEPT ![c] = "origination_cancel"]
    BY <1>5 DEF Cancel, Ringing
  <2>3. MayFollow(c, "cancelled")
    BY <1>2, <2>2 DEF MayFollow
  <2> QED BY <2>1, <2>2, <2>3
<1>6. CASE Bye(c)
  <2>1. "cleared" \in Events /\ Shown("cleared") = "shared"
    BY DEF Events, Shown, Copies
  <2>2. /\ Has(c, "request") /\ ~Over(c) /\ Post(c, "cleared", "shared")
        /\ m_cdrType' = [m_cdrType EXCEPT ![c] = "call_cleared"]
    BY <1>6 DEF Bye
  <2>3. MayFollow(c, "cleared")
    BY <1>2, <2>2 DEF MayFollow
  <2> QED BY <2>1, <2>2, <2>3
<1>7. CASE Attempt(c)
  <2>1. PICK event \in Tried : Post(c, event, event)
    BY <1>7 DEF Attempt, Tried
  <2>2. /\ event \in Events /\ Shown(event) = event
        /\ event \notin {"request", "rejected", "answered", "failed", "cancelled", "cleared"}
    BY DEF Events, Shown, Copies, Tried
  <2>3. m_cdrType' = m_cdrType /\ Has(c, "request")
    BY <1>7 DEF Attempt
  <2>4. MayFollow(c, event)
    BY <1>2, <2>2, <2>3 DEF MayFollow
  <2> QED BY <2>1, <2>2, <2>3, <2>4
<1> QED BY <1>3, <1>4, <1>5, <1>6, <1>7

\* The order of the events.
LEMMA StoryAfterPost ==
    ASSUME TypeOK, NEW c \in Session, Story(c), NEW event \in Events,
           Post(c, event, Shown(event)), MayFollow(c, event),
           m_cdrType' = IF event = "cancelled"
                        THEN [m_cdrType EXCEPT ![c] = "origination_cancel"]
                        ELSE IF event = "cleared"
                             THEN [m_cdrType EXCEPT ![c] = "call_cleared"] ELSE m_cdrType
    PROVE  Story(c)'
<1> DEFINE p == posted[c]
           len == Len(p)
<1>1. Shown(event) \in Copies \cup {"shared"}
  BY DEF Shown
<1>2. /\ len \in Nat /\ Len(posted'[c]) = len + 1
      /\ posted'[c][len + 1] = event
      /\ \A i \in 1..len : posted'[c][i] = p[i]
      /\ \A e : Has(c, e)' <=> Has(c, e) \/ e = event
  BY <1>1, PostedNext
<1>3. len = 0 <=> p = <<>>
  <2>1. p \in Seq(Events)
    BY DEF TypeOK
  <2> QED BY <2>1
<1>4. /\ \A i \in 1..len : i = 1 <=> p[i] \in {"request", "rejected"}
      /\ \A i, k \in 1..len : i < k =>
           /\ p[i] # "rejected"
           /\ p[i] \in {"failed", "cancelled", "cleared"} => p[k] \in Tried
           /\ p[i] = "answered" => p[k] \in Tried \cup {"cleared"}
  BY DEF Story
<1>5. \A e : Has(c, e) <=> \E i \in 1..len : p[i] = e
  BY DEF Has
<1> HIDE DEF p, len
<1>6. \A i \in 1..(len + 1) : i = 1 <=> posted'[c][i] \in {"request", "rejected"}
  <2>1. \A i \in 1..len : i = 1 <=> posted'[c][i] \in {"request", "rejected"}
    BY <1>2, <1>4
  <2>2. len + 1 = 1 <=> event \in {"request", "rejected"}
    BY <1>2, <1>3 DEF MayFollow, p
  <2>3. \A i \in 1..(len + 1) : i \in 1..len \/ i = len + 1
    BY <1>2
  <2> QED BY <1>2, <2>1, <2>2, <2>3
<1>7. ASSUME NEW i \in 1..len
      PROVE  /\ p[i] # "rejected"
             /\ p[i] \in {"failed", "cancelled", "cleared"} => event \in Tried
             /\ p[i] = "answered" => event \in Tried \cup {"cleared"}
  <2>1. p # <<>>
    BY <1>2, <1>3
  <2>2. event \notin {"request", "rejected"} /\ Has(c, "request")
    BY <2>1 DEF MayFollow, p
  <2>3. p[i] # "rejected"
    <3>1. PICK h \in 1..len : p[h] = "request"
      BY <1>5, <2>2
    <3> QED BY <1>4, <3>1
  <2>4. p[i] \in {"failed", "cancelled", "cleared"} => event \in Tried
    BY <1>5 DEF MayFollow, Over
  <2>5. p[i] = "answered" => event \notin {"answered", "failed", "cancelled"}
    BY <1>5 DEF MayFollow
  <2>6. event \in Tried \cup {"answered", "failed", "cancelled", "cleared"}
    BY <2>2 DEF Events, Copies, Tried
  <2> QED BY <2>3, <2>4, <2>5, <2>6
<1>8. ASSUME NEW i \in 1..(len + 1), NEW k \in 1..(len + 1), i < k
      PROVE  /\ posted'[c][i] # "rejected"
             /\ posted'[c][i] \in {"failed", "cancelled", "cleared"} => posted'[c][k] \in Tried
             /\ posted'[c][i] = "answered" => posted'[c][k] \in Tried \cup {"cleared"}
  <2>1. i \in 1..len /\ posted'[c][i] = p[i]
    BY <1>2, <1>8
  <2>2. CASE k = len + 1
    BY <1>2, <1>7, <2>1, <2>2
  <2>3. CASE k \in 1..len
    BY <1>2, <1>4, <1>8, <2>1, <2>3
  <2> QED BY <1>2, <2>2, <2>3
<1>9. m_cdrType'[c] = IF Has(c, "cancelled")' THEN "origination_cancel"
                      ELSE IF Has(c, "cleared")' THEN "call_cleared" ELSE "origination_request"
  <2>1. m_cdrType[c] = IF Has(c, "cancelled") THEN "origination_cancel"
                       ELSE IF Has(c, "cleared") THEN "call_cleared" ELSE "origination_request"
    BY DEF Story
  <2>2. c \in DOMAIN m_cdrType
    BY DEF TypeOK
  <2>3. CASE event = "cancelled"
    BY <1>2, <2>2, <2>3
  <2>4. CASE event = "cleared"
    <3>1. ~Has(c, "cancelled")
      BY <2>4 DEF MayFollow, Over, Tried
    <3> QED BY <1>2, <2>2, <2>4, <3>1
  <2>5. CASE event \notin {"cancelled", "cleared"}
    BY <1>2, <2>1, <2>5
  <2> QED BY <2>3, <2>4, <2>5
<1> QED BY <1>2, <1>6, <1>8, <1>9 DEF Story

\* Other sessions.
LEMMA StoryElsewhere ==
    ASSUME NEW d \in Session, Story(d), posted'[d] = posted[d], m_cdrType'[d] = m_cdrType[d]
    PROVE  Story(d)'
BY DEF Story, Has

-----------------------------------------------------------------------------
(* The order of the CDRs *)

\* postCdr, for the session it is called for.
LEMMA OrderAfterPost ==
    ASSUME TypeOK, m_cdrWriter = 1, NEW c \in Session, NEW event \in Events,
           Post(c, event, Shown(event)),
           NEW n \in 0..Len(posted[c]), NEW place \in Places(c, n), InOrder(c, n, place)
    PROVE  \E new \in Places(c, n)' : InOrder(c, n, new)'
<1> DEFINE p == posted[c]
           q == m_io_service[1]
           cdr == [session |-> c, cdr |-> Shown(event)]
<1>1. Shown(event) \in Copies \cup {"shared"}
  BY DEF Shown
<1>2. /\ Len(p) \in Nat /\ Len(posted'[c]) = Len(p) + 1
      /\ posted'[c][Len(p) + 1] = event
      /\ \A i \in 1..Len(p) : posted'[c][i] = p[i]
  BY <1>1, PostedNext
<1>3. cdr.session = c /\ cdr.cdr = Shown(event) /\ cdr \in Cdr
  BY <1>1 DEF Cdr
<1>4. q \in Seq(Cdr) /\ m_io_service'[1] = Append(q, cdr) /\ job' = job
  <2>1. /\ m_io_service' = [m_io_service EXCEPT ![m_cdrWriter] = Append(@, cdr)]
        /\ job' = job
    BY <1>1, PostEffect
  <2>2. m_io_service \in [Writer -> Seq(Cdr)]
    BY DEF TypeOK
  <2> HIDE DEF cdr
  <2> QED BY <2>1, <2>2, OneIsWriter
<1> HIDE DEF p, q, cdr
<1>5. /\ Len(q) \in Nat /\ Len(m_io_service'[1]) = Len(q) + 1
      /\ m_io_service'[1][Len(q) + 1] = cdr
      /\ \A i \in 1..Len(q) : m_io_service'[1][i] = q[i]
  BY <1>3, <1>4
<1>6. PICK lp \in Nat, lq \in Nat : lp = Len(p) /\ lq = Len(q)
  BY <1>2, <1>5
<1>7. n \in Nat /\ n <= lp
  BY <1>6 DEF p
<1>8. /\ place \in [(n + 1)..lp -> 0..lq]
      /\ \A k \in (n + 1)..lp : Stands(c, place[k]) /\ CdrAt(place[k]) = Shown(p[k])
      /\ \A k, m \in (n + 1)..lp : k < m => place[k] < place[m]
      /\ \A i \in 0..lq : Stands(c, i) => \E k \in (n + 1)..lp : place[k] = i
  BY <1>6 DEF InOrder, Places, p, q
<1>9. \A i \in 0..lq : (Stands(c, i)' <=> Stands(c, i)) /\ (Stands(c, i) => CdrAt(i)' = CdrAt(i))
  BY <1>4, <1>5, <1>6 DEF Stands, CdrAt, q
<1>10. Stands(c, lq + 1)' /\ CdrAt(lq + 1)' = Shown(event)
  BY <1>3, <1>5, <1>6 DEF Stands, CdrAt
<1>11. \A k \in (n + 1)..(lp + 1) : k \in (n + 1)..lp \/ k = lp + 1
  BY <1>7
<1>12. PICK new \in [(n + 1)..(lp + 1) -> 0..(lq + 1)] :
         /\ \A k \in (n + 1)..lp : new[k] = place[k]
         /\ new[lp + 1] = lq + 1
  <2> DEFINE f == [k \in (n + 1)..(lp + 1) |-> IF k = lp + 1 THEN lq + 1 ELSE place[k]]
  <2>1. \A k \in (n + 1)..(lp + 1) : f[k] \in 0..(lq + 1)
    BY <1>8, <1>11
  <2>2. f \in [(n + 1)..(lp + 1) -> 0..(lq + 1)]
    BY <2>1
  <2>3. \A k \in (n + 1)..lp : k \in (n + 1)..(lp + 1) /\ k # lp + 1
    BY <1>7
  <2>4. lp + 1 \in (n + 1)..(lp + 1)
    BY <1>7
  <2>5. \A k \in (n + 1)..lp : f[k] = place[k]
    BY <2>3
  <2>6. f[lp + 1] = lq + 1
    BY <2>4
  <2> HIDE DEF f
  <2> QED BY <2>2, <2>5, <2>6
<1>13. ASSUME NEW k \in (n + 1)..(lp + 1)
       PROVE  Stands(c, new[k])' /\ CdrAt(new[k])' = Shown(posted'[c][k])
  <2>1. CASE k = lp + 1
    <3>1. new[k] = lq + 1 /\ posted'[c][k] = event
      BY <1>2, <1>6, <1>12, <2>1
    <3> QED BY <1>10, <3>1
  <2>2. CASE k \in (n + 1)..lp
    <3>1. new[k] = place[k] /\ place[k] \in 0..lq /\ posted'[c][k] = p[k]
      BY <1>2, <1>6, <1>7, <1>8, <1>12, <2>2
    <3>2. Stands(c, place[k]) /\ CdrAt(place[k]) = Shown(p[k])
      BY <1>8, <2>2
    <3> QED BY <1>9, <3>1, <3>2
  <2> QED BY <1>11, <2>1, <2>2
<1>14. ASSUME NEW k \in (n + 1)..(lp + 1), NEW m \in (n + 1)..(lp + 1), k < m
       PROVE  new[k] < new[m]
  <2>1. k \in (n + 1)..lp /\ place[k] \in 0..lq
    BY <1>7, <1>8, <1>14
  <2>2. CASE m = lp + 1
    BY <1>12, <2>1, <2>2
  <2>3. CASE m \in (n + 1)..lp
    BY <1>8, <1>12, <1>14, <2>1, <2>3
  <2> QED BY <1>11, <2>2, <2>3
<1>15. ASSUME NEW i \in 0..(lq + 1), Stands(c, i)'
       PROVE  \E k \in (n + 1)..(lp + 1) : new[k] = i
  <2>1. CASE i = lq + 1
    <3>1. lp + 1 \in (n + 1)..(lp + 1)
      BY <1>7
    <3> QED BY <1>12, <2>1, <3>1
  <2>2. CASE i \in 0..lq
    <3>1. PICK k \in (n + 1)..lp : place[k] = i
      BY <1>8, <1>9, <1>15, <2>2
    <3>2. k \in (n + 1)..(lp + 1) /\ new[k] = i
      BY <1>7, <1>12, <3>1
    <3> QED BY <3>2
  <2> QED BY <2>1, <2>2
<1>16. Len(posted'[c]) = lp + 1 /\ Len(m_io_service'[1]) = lq + 1
  BY <1>2, <1>5, <1>6
<1>17. new \in Places(c, n)'
  BY <1>12, <1>16 DEF Places
<1>18. InOrder(c, n, new)'
  BY <1>13, <1>14, <1>15, <1>16 DEF InOrder
<1> QED BY <1>17, <1>18

\* postCdr, for another session.
LEMMA OrderAfterOther ==
    ASSUME TypeOK, m_cdrWriter = 1, NEW c \in Session, NEW event \in Events,
           Post(c, event, Shown(event)),
           NEW d \in Session \ {c},
           NEW n \in 0..Len(posted[d]), NEW place \in Places(d, n), InOrder(d, n, place)
    PROVE  place \in Places(d, n)' /\ InOrder(d, n, place)'
<1> DEFINE q == m_io_service[1]
           cdr == [session |-> c, cdr |-> Shown(event)]
<1>1. Shown(event) \in Copies \cup {"shared"}
  BY DEF Shown
<1>2. posted'[d] = posted[d]
  BY <1>1, PostedNext
<1>3. cdr.session = c /\ cdr \in Cdr
  BY <1>1 DEF Cdr
<1>4. q \in Seq(Cdr) /\ m_io_service'[1] = Append(q, cdr) /\ job' = job
  <2>1. /\ m_io_service' = [m_io_service EXCEPT ![m_cdrWriter] = Append(@, cdr)]
        /\ job' = job
    BY <1>1, PostEffect
  <2>2. m_io_service \in [Writer -> Seq(Cdr)]
    BY DEF TypeOK
  <2> HIDE DEF cdr
  <2> QED BY <2>1, <2>2, OneIsWriter
<1> HIDE DEF q, cdr
<1>5. /\ Len(q) \in Nat /\ Len(m_io_service'[1]) = Len(q) + 1
      /\ m_io_service'[1][Len(q) + 1] = cdr
      /\ \A i \in 1..Len(q) : m_io_service'[1][i] = q[i]
  BY <1>3, <1>4
<1>6. PICK lq \in Nat : lq = Len(q)
  BY <1>5
<1>7. \A i \in 0..lq : (Stands(d, i)' <=> Stands(d, i)) /\ (Stands(d, i) => CdrAt(i)' = CdrAt(i))
  BY <1>4, <1>5, <1>6 DEF Stands, CdrAt, q
<1>8. ~Stands(d, lq + 1)'
  BY <1>3, <1>5, <1>6 DEF Stands
<1>9. \A i \in 0..(lq + 1) : i \in 0..lq \/ i = lq + 1
  OBVIOUS
<1>10. /\ place \in [(n + 1)..Len(posted[d]) -> 0..lq]
       /\ \A k \in (n + 1)..Len(posted[d]) :
            Stands(d, place[k]) /\ CdrAt(place[k]) = Shown(posted[d][k])
       /\ \A k, m \in (n + 1)..Len(posted[d]) : k < m => place[k] < place[m]
       /\ \A i \in 0..lq : Stands(d, i) => \E k \in (n + 1)..Len(posted[d]) : place[k] = i
  BY <1>6 DEF InOrder, Places, q
<1>11. \A k \in (n + 1)..Len(posted[d]) : place[k] \in 0..lq
  BY <1>10
<1>12. place \in [(n + 1)..Len(posted[d]) -> 0..(lq + 1)]
  <2>1. \A i \in 0..lq : i \in 0..(lq + 1)
    OBVIOUS
  <2> QED BY <1>10, <2>1
<1>13. \A k \in (n + 1)..Len(posted[d]) :
         Stands(d, place[k])' /\ CdrAt(place[k])' = Shown(posted[d][k])
  BY <1>7, <1>10, <1>11
<1>14. \A i \in 0..(lq + 1) : Stands(d, i)' => \E k \in (n + 1)..Len(posted[d]) : place[k] = i
  BY <1>7, <1>8, <1>9, <1>10
<1>15. Len(m_io_service'[1]) = lq + 1
  BY <1>5, <1>6
<1> QED BY <1>2, <1>10, <1>12, <1>13, <1>14, <1>15 DEF InOrder, Places

\* The worker takes the first entry of the queue: all move up by one place.  The entry is
\* dispatched (and stands at place 0 from then on), or its session has lost a CDR.
LEMMA OrderAfterTake ==
    ASSUME TypeOK, NEW c \in Session, job[1] = NULL, m_io_service[1] # <<>>,
           m_io_service'[1] = Tail(m_io_service[1]), posted'[c] = posted[c],
           \/ /\ job'[1] # NULL /\ job'[1].session = m_io_service[1][1].session
              /\ job'[1].cdr = m_io_service[1][1].cdr
           \/ job'[1] = NULL /\ m_io_service[1][1].session # c,
           NEW n \in 0..Len(posted[c]), NEW place \in Places(c, n), InOrder(c, n, place)
    PROVE  \E new \in Places(c, n)' : InOrder(c, n, new)'
<1> DEFINE p == posted[c]
           q == m_io_service[1]
<1>1. q \in Seq(Cdr) /\ q # <<>> /\ p \in Seq(Events)
  BY OneIsWriter DEF TypeOK
<1>2. m_io_service'[1] = Tail(q)
  OBVIOUS
<1> HIDE DEF p, q
<1>3. /\ Len(q) \in Nat /\ Len(q) > 0 /\ Len(m_io_service'[1]) = Len(q) - 1
      /\ \A i \in 1..(Len(q) - 1) : m_io_service'[1][i] = q[i + 1]
  <2>1. /\ Len(q) \in Nat /\ Len(Tail(q)) = Len(q) - 1
        /\ \A k \in 1..(Len(q) - 1) : Tail(q)[k] = q[k + 1]
    BY <1>1, TailOfQueue
  <2>2. Len(q) > 0
    BY <1>1
  <2> QED BY <1>2, <2>1, <2>2
<1>4. ~Stands(c, 0)
  BY DEF Stands
<1>5. \A i \in 0..(Len(q) - 1) :
        /\ i + 1 \in 0..Len(q)
        /\ Stands(c, i)' <=> Stands(c, i + 1)
        /\ Stands(c, i + 1) => CdrAt(i)' = CdrAt(i + 1)
  <2> SUFFICES ASSUME NEW i \in 0..(Len(q) - 1)
               PROVE  /\ i + 1 \in 0..Len(q)
                      /\ Stands(c, i)' <=> Stands(c, i + 1)
                      /\ Stands(c, i + 1) => CdrAt(i)' = CdrAt(i + 1)
    OBVIOUS
  <2>1. i + 1 \in 1..Len(q) /\ i + 1 \in 0..Len(q) /\ i + 1 # 0
    BY <1>3
  <2>2. (Stands(c, i + 1) <=> q[i + 1].session = c) /\ CdrAt(i + 1) = q[i + 1].cdr
    BY <2>1 DEF Stands, CdrAt, q
  <2>3. CASE i = 0
    <3>1. Stands(c, i)' <=> job'[1] # NULL /\ job'[1].session = c
      BY <1>3, <2>3 DEF Stands
    <3>2. CdrAt(i)' = job'[1].cdr
      BY <2>3 DEF CdrAt
    <3>3. i + 1 = 1
      BY <2>3
    <3> QED BY <2>1, <2>2, <3>1, <3>2, <3>3 DEF q
  <2>4. CASE i # 0
    <3>1. i \in 1..(Len(q) - 1) /\ m_io_service'[1][i] = q[i + 1]
      BY <1>3, <2>4
    <3>2. Stands(c, i)' <=> m_io_service'[1][i].session = c
      BY <1>3, <2>4, <3>1 DEF Stands
    <3>3. CdrAt(i)' = m_io_service'[1][i].cdr
      BY <2>4 DEF CdrAt
    <3> QED BY <2>1, <2>2, <3>1, <3>2, <3>3
  <2> QED BY <2>3, <2>4
<1>6. /\ place \in [(n + 1)..Len(p) -> 0..Len(q)]
      /\ \A k \in (n + 1)..Len(p) : Stands(c, place[k]) /\ CdrAt(place[k]) = Shown(p[k])
      /\ \A k, m \in (n + 1)..Len(p) : k < m => place[k] < place[m]
      /\ \A i \in 0..Len(q) : Stands(c, i) => \E k \in (n + 1)..Len(p) : place[k] = i
  BY DEF InOrder, Places, p, q
<1>7. \A k \in (n + 1)..Len(p) : place[k] - 1 \in 0..(Len(q) - 1) /\ place[k] \in 1..Len(q)
  <2> SUFFICES ASSUME NEW k \in (n + 1)..Len(p)
               PROVE  place[k] - 1 \in 0..(Len(q) - 1) /\ place[k] \in 1..Len(q)
    OBVIOUS
  <2>1. place[k] \in 0..Len(q) /\ Stands(c, place[k])
    BY <1>6
  <2>2. place[k] # 0
    BY <1>4, <2>1
  <2> QED BY <1>3, <2>1, <2>2
<1>8. PICK new \in [(n + 1)..Len(p) -> 0..(Len(q) - 1)] :
        \A k \in (n + 1)..Len(p) : new[k] = place[k] - 1
  <2> DEFINE f == [k \in (n + 1)..Len(p) |-> place[k] - 1]
  <2>1. f \in [(n + 1)..Len(p) -> 0..(Len(q) - 1)]
    BY <1>7
  <2>2. \A k \in (n + 1)..Len(p) : f[k] = place[k] - 1
    OBVIOUS
  <2> HIDE DEF f
  <2> QED BY <2>1, <2>2
<1>9. ASSUME NEW k \in (n + 1)..Len(p)
      PROVE  Stands(c, new[k])' /\ CdrAt(new[k])' = Shown(p[k])
  <2>1. new[k] \in 0..(Len(q) - 1) /\ new[k] + 1 = place[k]
    BY <1>3, <1>7, <1>8
  <2>2. Stands(c, new[k] + 1) /\ CdrAt(new[k] + 1) = Shown(p[k])
    BY <1>6, <2>1
  <2> QED BY <1>5, <2>1, <2>2
<1>10. \A k, m \in (n + 1)..Len(p) : k < m => new[k] < new[m]
  BY <1>3, <1>6, <1>7, <1>8
<1>11. ASSUME NEW i \in 0..(Len(q) - 1), Stands(c, i)'
       PROVE  \E k \in (n + 1)..Len(p) : new[k] = i
  <2>1. i + 1 \in 0..Len(q) /\ Stands(c, i + 1)
    BY <1>5, <1>11
  <2>2. PICK k \in (n + 1)..Len(p) : place[k] = i + 1
    BY <1>6, <2>1
  <2>3. new[k] = (i + 1) - 1
    BY <1>8, <2>2
  <2>4. i \in Int
    BY <1>3
  <2>5. new[k] = i
    BY <2>3, <2>4
  <2> QED BY <2>5
<1>12. new \in Places(c, n)'
  BY <1>3, <1>8 DEF Places, p
<1>13. InOrder(c, n, new)'
  BY <1>3, <1>9, <1>10, <1>11 DEF InOrder, p
<1> QED BY <1>12, <1>13

\* The job of the worker is of event n + 1 of its session.
LEMMA JobIsNext ==
    ASSUME TypeOK, NEW c \in Session, job[1] # NULL, job[1].session = c,
           NEW n \in 0..Len(posted[c]), NEW place \in Places(c, n), InOrder(c, n, place)
    PROVE  /\ n + 1 \in (n + 1)..Len(posted[c]) /\ n + 1 \in 1..Len(posted[c])
           /\ place[n + 1] = 0 /\ job[1].cdr = Shown(posted[c][n + 1])
<1>1. Len(m_io_service[1]) \in Nat /\ Len(posted[c]) \in Nat
  BY OneIsWriter DEF TypeOK
<1>2. Stands(c, 0) /\ 0 \in 0..Len(m_io_service[1])
  BY <1>1 DEF Stands
<1>3. PICK k \in (n + 1)..Len(posted[c]) : place[k] = 0
  BY <1>2 DEF InOrder
<1>4. n + 1 \in (n + 1)..Len(posted[c]) /\ n + 1 \in 1..Len(posted[c])
  BY <1>1, <1>3
<1>5. place[n + 1] \in 0..Len(m_io_service[1])
  BY <1>4 DEF Places
<1>6. place[n + 1] = 0
  <2>1. n + 1 < k => place[n + 1] < place[k]
    BY <1>3, <1>4 DEF InOrder
  <2> QED BY <1>1, <1>3, <1>5, <2>1
<1>7. job[1].cdr = Shown(posted[c][n + 1])
  BY <1>4, <1>6 DEF InOrder, CdrAt
<1> QED BY <1>4, <1>6, <1>7

\* The job is done.
LEMMA OrderAfterWrite ==
    ASSUME TypeOK, NEW c \in Session, job[1] # NULL, job[1].session = c, job'[1] = NULL,
           m_io_service'[1] = m_io_service[1], posted'[c] = posted[c],
           NEW n \in 0..Len(posted[c]), NEW place \in Places(c, n), InOrder(c, n, place)
    PROVE  \E new \in Places(c, n + 1)' : InOrder(c, n + 1, new)'
<1> DEFINE p == posted[c]
           q == m_io_service[1]
<1>1. Len(q) \in Nat /\ Len(p) \in Nat
  BY OneIsWriter DEF TypeOK
<1>2. n + 1 \in (n + 1)..Len(p) /\ place[n + 1] = 0
  BY JobIsNext
<1>3. /\ place \in [(n + 1)..Len(p) -> 0..Len(q)]
      /\ \A k \in (n + 1)..Len(p) : Stands(c, place[k]) /\ CdrAt(place[k]) = Shown(p[k])
      /\ \A k, m \in (n + 1)..Len(p) : k < m => place[k] < place[m]
      /\ \A i \in 0..Len(q) : Stands(c, i) => \E k \in (n + 1)..Len(p) : place[k] = i
  BY DEF InOrder, Places
<1>4. n \in Nat
  OBVIOUS
<1>5. /\ Len(posted'[c]) = Len(p) /\ Len(m_io_service'[1]) = Len(q)
      /\ (n + 1) + 1 = n + 2
  OBVIOUS
<1>6. /\ ~Stands(c, 0)'
      /\ \A i \in 1..Len(q) : (Stands(c, i)' <=> Stands(c, i)) /\ CdrAt(i)' = CdrAt(i)
  BY <1>1 DEF Stands, CdrAt
<1> HIDE DEF p, q
<1>7. ASSUME NEW k \in (n + 2)..Len(p)
      PROVE  k \in (n + 1)..Len(p) /\ place[k] \in 1..Len(q) /\ place[k] \in 0..Len(q)
  <2>1. k \in (n + 1)..Len(p) /\ n + 1 < k
    BY <1>1, <1>4
  <2>2. place[k] \in 0..Len(q) /\ place[n + 1] < place[k]
    BY <1>2, <1>3, <2>1
  <2> QED BY <1>1, <1>2, <2>1, <2>2
<1>8. PICK new \in [(n + 2)..Len(p) -> 0..Len(q)] : \A k \in (n + 2)..Len(p) : new[k] = place[k]
  <2> DEFINE f == [k \in (n + 2)..Len(p) |-> place[k]]
  <2>1. f \in [(n + 2)..Len(p) -> 0..Len(q)] /\ \A k \in (n + 2)..Len(p) : f[k] = place[k]
    BY <1>7
  <2> HIDE DEF f
  <2> QED BY <2>1
<1>9. ASSUME NEW k \in (n + 2)..Len(p)
      PROVE  Stands(c, new[k])' /\ CdrAt(new[k])' = Shown(p[k])
  <2>1. new[k] = place[k] /\ place[k] \in 1..Len(q) /\ k \in (n + 1)..Len(p)
    BY <1>7, <1>8
  <2>2. Stands(c, new[k]) /\ CdrAt(new[k]) = Shown(p[k])
    BY <1>3, <2>1
  <2> QED BY <1>6, <2>1, <2>2
<1>10. \A k, m \in (n + 2)..Len(p) : k < m => new[k] < new[m]
  BY <1>3, <1>7, <1>8
<1>11. ASSUME NEW i \in 0..Len(q), Stands(c, i)'
       PROVE  \E k \in (n + 2)..Len(p) : new[k] = i
  <2>1. i # 0 /\ i \in 1..Len(q)
    BY <1>1, <1>6, <1>11
  <2>2. PICK k \in (n + 1)..Len(p) : place[k] = i
    BY <1>3, <1>6, <1>11, <2>1
  <2>3. k \in (n + 2)..Len(p)
    BY <1>1, <1>2, <1>4, <2>1, <2>2
  <2> QED BY <1>8, <2>2, <2>3
<1>12. new \in Places(c, n + 1)'
  BY <1>5, <1>8 DEF Places
<1>13. InOrder(c, n + 1, new)'
  <2>1. \A k \in (n + 2)..Len(p) : Shown(p[k]) = Shown(posted'[c][k])
    BY DEF p
  <2> QED BY <1>5, <1>9, <1>10, <1>11, <2>1 DEF InOrder
<1> QED BY <1>12, <1>13

\* The job was of another session.
LEMMA OrderAfterOthersJob ==
    ASSUME TypeOK, NEW c \in Session, job[1] # NULL, job[1].session # c, job'[1] = NULL,
           m_io_service'[1] = m_io_service[1], posted'[c] = posted[c],
           NEW n \in 0..Len(posted[c]), NEW place \in Places(c, n), InOrder(c, n, place)
    PROVE  place \in Places(c, n)' /\ InOrder(c, n, place)'
<1>1. \A i : /\ Stands(c, i)' <=> Stands(c, i)
             /\ Stands(c, i) => CdrAt(i)' = CdrAt(i)
  BY DEF Stands, CdrAt
<1> QED BY <1>1 DEF InOrder, Places

\* The columns of a new row.
LEMMA NewRow ==
    ASSUME NEW st \in {NULL, "rejected"}, NEW end \in BOOLEAN, NEW row,
           row = [status |-> st, connect_time |-> FALSE, end_time |-> end, carrier |-> FALSE]
    PROVE  /\ row \in Row /\ row # NULL
           /\ row.status = st /\ row.connect_time = FALSE /\ row.end_time = end
           /\ row.carrier = FALSE
<1>1. row \in Row
  BY DEF Row
<1> QED BY <1>1, NullAssumption

\* What the statements of a CDR add to the counts of termination_attempt.
LEMMA CountsAfter ==
    ASSUME TypeOK, NEW j \in Job, NEW n \in 0..2
    PROVE  LET rows == termination_attempt[j.session]
               new  == AttemptsAfter(j, n)
           IN /\ rows \in [failed: Nat, connected: Nat, ended: Nat]
              /\ new \in [failed: Nat, connected: Nat, ended: Nat]
              /\ j.type = "termination_attempt" /\ n > 0 /\ j.cdr = "attempt 200" =>
                   /\ new.failed = rows.failed /\ new.connected = rows.connected + 1
                   /\ new.ended = rows.ended
              /\ j.type = "termination_attempt" /\ n > 0 /\ j.cdr # "attempt 200" =>
                   /\ new.failed = rows.failed + 1 /\ new.connected = rows.connected
                   /\ new.ended = rows.ended
              /\ j.type = "call_cleared" /\ n = 2 =>
                   /\ new.failed = rows.failed /\ new.connected = 0
                   /\ new.ended = rows.ended + rows.connected
              /\ ~(j.type = "termination_attempt" /\ n > 0) /\ ~(j.type = "call_cleared" /\ n = 2)
                   => new = rows
<1> DEFINE rows == termination_attempt[j.session]
           new  == AttemptsAfter(j, n)
<1>1. rows \in [failed: Nat, connected: Nat, ended: Nat]
  BY DEF TypeOK, Job
<1>2. new \in [failed: Nat, connected: Nat, ended: Nat]
  BY AttemptTypes
<1> HIDE DEF rows, new
<1>3. ASSUME j.type = "termination_attempt", n > 0, j.cdr = "attempt 200"
      PROVE  /\ new.failed = rows.failed /\ new.connected = rows.connected + 1
             /\ new.ended = rows.ended
  <2>1. new = [rows EXCEPT !.connected = rows.connected + 1]
    BY <1>3 DEF AttemptsAfter, rows, new
  <2> QED BY <1>1, <2>1
<1>4. ASSUME j.type = "termination_attempt", n > 0, j.cdr # "attempt 200"
      PROVE  /\ new.failed = rows.failed + 1 /\ new.connected = rows.connected
             /\ new.ended = rows.ended
  <2>1. new = [rows EXCEPT !.failed = rows.failed + 1]
    BY <1>4 DEF AttemptsAfter, rows, new
  <2> QED BY <1>1, <2>1
<1>5. ASSUME j.type = "call_cleared", n = 2
      PROVE  /\ new.failed = rows.failed /\ new.connected = 0
             /\ new.ended = rows.ended + rows.connected
  <2>1. new = [rows EXCEPT !.ended = rows.ended + rows.connected, !.connected = 0]
    BY <1>5 DEF AttemptsAfter, rows, new
  <2> QED BY <1>1, <2>1
<1>6. ASSUME ~(j.type = "termination_attempt" /\ n > 0), ~(j.type = "call_cleared" /\ n = 2)
      PROVE  new = rows
  BY <1>6 DEF AttemptsAfter, rows, new
<1> QED BY <1>1, <1>2, <1>3, <1>4, <1>5, <1>6 DEF rows, new

\* Counts are equal if their parts are.
LEMMA SameCounts ==
    ASSUME NEW rows \in [failed: Nat, connected: Nat, ended: Nat],
           NEW f, NEW x, NEW e, rows.failed = f, rows.connected = x, rows.ended = e
    PROVE  rows = [failed |-> f, connected |-> x, ended |-> e]
OBVIOUS

\* An event that is posted changes nothing that has been told.
LEMMA ToldKept ==
    ASSUME NEW c \in Session, NEW n \in 0..Len(posted[c]), Len(posted[c]) \in Nat,
           \A i \in 1..Len(posted[c]) : posted'[c][i] = posted[c][i],
           \A event : Has(c, event) => Has(c, event)',
           cdr_session'[c] = cdr_session[c], termination_attempt'[c] = termination_attempt[c],
           Told(c, n)
    PROVE  Told(c, n)'
<1>1. \A i \in 1..n : posted'[c][i] = posted[c][i]
  OBVIOUS
<1>2. \A event : HasBy(c, event, n)' <=> HasBy(c, event, n)
  BY <1>1 DEF HasBy
<1>3. \A event : CountBy(c, event, n)' = CountBy(c, event, n)
  <2> SUFFICES ASSUME NEW event PROVE CountBy(c, event, n)' = CountBy(c, event, n)
    OBVIOUS
  <2>1. {i \in 1..n : posted'[c][i] = event} = {i \in 1..n : posted[c][i] = event}
    BY <1>1
  <2> QED BY <2>1 DEF CountBy
<1>4. EndedBy(c, n)' = EndedBy(c, n)
  <2>1. \A i \in 1..n : \A k \in i..n : k \in 1..n
    OBVIOUS
  <2> QED BY <1>1, <2>1 DEF EndedBy
<1>5. cdr_session[c] # NULL => RowTells(c, n)'
  BY <1>2 DEF Told, RowTells
<1>6. cdr_session[c] # NULL => AttemptsTell(c, n)'
  <2> SUFFICES ASSUME cdr_session[c] # NULL PROVE AttemptsTell(c, n)'
    OBVIOUS
  <2>1. termination_attempt[c] =
          [failed    |-> CountBy(c, "attempt failed", n),
           connected |-> CountBy(c, "attempt 200", n) - Cardinality(EndedBy(c, n)),
           ended     |-> Cardinality(EndedBy(c, n))]
    BY DEF Told, AttemptsTell
  <2>2. /\ CountBy(c, "attempt failed", n)' = CountBy(c, "attempt failed", n)
        /\ CountBy(c, "attempt 200", n)' = CountBy(c, "attempt 200", n)
        /\ Cardinality(EndedBy(c, n)') = Cardinality(EndedBy(c, n))
    BY <1>3, <1>4
  <2> QED BY <2>1, <2>2 DEF AttemptsTell
<1> QED BY <1>5, <1>6 DEF Told

\* A CDR is written.
LEMMA WriteEffect ==
    ASSUME TypeOK, Write(1)
    PROVE  /\ job[1] # NULL /\ job[1] \in Job /\ job[1].session \in Session
           /\ job[1].type \in CdrEvent_t /\ Admitted(job[1])
           /\ cdr_session' = [cdr_session EXCEPT ![job[1].session] =
                                RowAfter(job[1], Len(Statements[job[1].type]))]
           /\ termination_attempt' = [termination_attempt EXCEPT ![job[1].session] =
                                        AttemptsAfter(job[1], Len(Statements[job[1].type]))]
           /\ job'[1] = NULL
           /\ UNCHANGED <<process, posted, m_cdrType, m_cdrWriter, m_io_service, lost>>
<1> DEFINE len == Len(Statements[job[1].type])
<1>1. Execute(1, len) /\ lost' = lost
  BY DEF Write
<1>2. job[1] # NULL /\ job[1] \in Job /\ job \in [Writer -> Job \cup {NULL}]
  BY OneIsWriter DEF Write, TypeOK
<1>3. job[1].session \in Session /\ job[1].type \in CdrEvent_t
  BY <1>2 DEF Job
<1>4. len \in {1, 2}
  BY <1>3, StatementFacts
<1>5. /\ len > 0 => Admitted(job[1])
      /\ cdr_session' = [cdr_session EXCEPT ![job[1].session] = RowAfter(job[1], len)]
      /\ termination_attempt' =
           [termination_attempt EXCEPT ![job[1].session] = AttemptsAfter(job[1], len)]
      /\ job' = [job EXCEPT ![1] = NULL]
      /\ UNCHANGED <<process, posted, m_cdrType, m_cdrWriter, m_io_service>>
  BY <1>1 DEF Execute, controller
<1>6. job'[1] = NULL
  BY <1>2, <1>5, OneIsWriter
<1> HIDE DEF len
<1>7. Admitted(job[1])
  BY <1>4, <1>5
<1> QED BY <1>1, <1>2, <1>3, <1>5, <1>6, <1>7 DEF len

\* The first event that is told is the request, and its INSERT makes the row.
LEMMA ToldFirst ==
    ASSUME TypeOK, NEW c \in Session, Story(c), job[1].session = c,
           job[1].type = "origination_request", posted[c][1] \in {"request", "rejected"},
           1 \in 1..Len(posted[c]), cdr_session[c] = NULL, Told(c, 0), Write(1)
    PROVE  Told(c, 1)'
<1> DEFINE j == job[1]
           row == cdr_session'[c]
<1>1. /\ j \in Job /\ Len(Statements[j.type]) = 1
      /\ cdr_session' = [cdr_session EXCEPT ![c] = RowAfter(j, 1)]
      /\ termination_attempt' = [termination_attempt EXCEPT ![c] = AttemptsAfter(j, 1)]
      /\ UNCHANGED <<posted, m_cdrType>>
  <2>1. Len(Statements[j.type]) = 1
    BY DEF Statements
  <2> QED BY <2>1, WriteEffect
<1>2. /\ cdr_session \in [Session -> Row \cup {NULL}]
      /\ termination_attempt \in [Session -> [failed: Nat, connected: Nat, ended: Nat]]
  BY DEF TypeOK
<1>3. row = RowAfter(j, 1) /\ termination_attempt'[c] = AttemptsAfter(j, 1)
  BY <1>1, <1>2
<1>4. RowAfter(j, 1) = [status |-> IF Has(c, "rejected") THEN "rejected" ELSE NULL,
                        connect_time |-> FALSE,
                        end_time |-> m_cdrType[c] # "origination_request",
                        carrier |-> FALSE]
  BY DEF RowAfter
<1>6. /\ row \in Row /\ row # NULL
      /\ row.status = IF Has(c, "rejected") THEN "rejected" ELSE NULL
      /\ row.connect_time = FALSE /\ row.carrier = FALSE
      /\ row.end_time <=> m_cdrType[c] # "origination_request"
  <2>1. PICK st \in {NULL, "rejected"}, end \in BOOLEAN :
          /\ st = IF Has(c, "rejected") THEN "rejected" ELSE NULL
          /\ end = (m_cdrType[c] # "origination_request")
    OBVIOUS
  <2>2. row = [status |-> st, connect_time |-> FALSE, end_time |-> end, carrier |-> FALSE]
    BY <1>3, <1>4, <2>1
  <2> HIDE DEF row
  <2> QED BY <2>1, <2>2, NewRow
<1>7. \A event : HasBy(c, event, 1)' <=> posted[c][1] = event
  <2>1. \A i \in 1..1 : i = 1
    OBVIOUS
  <2>2. 1 \in 1..1
    OBVIOUS
  <2> QED BY <1>1, <2>1, <2>2 DEF HasBy
<1>8. Has(c, "rejected") <=> posted[c][1] = "rejected"
  <2>1. \A i \in 1..Len(posted[c]) : posted[c][i] = "rejected" => i = 1
    BY DEF Story
  <2> QED BY <2>1 DEF Has
<1>9. m_cdrType[c] # "origination_request" => Has(c, "cancelled") \/ Has(c, "cleared")
  BY DEF Story
<1>10. \A event : Has(c, event)' <=> Has(c, event)
  BY <1>1 DEF Has
<1>13. \A i \in 1..1 : posted[c][i] \in {"request", "rejected"}
  OBVIOUS
<1> HIDE DEF row
<1>11. RowTells(c, 1)'
  <2>1. row.connect_time <=> HasBy(c, "answered", 1)'
    BY <1>6, <1>7
  <2>2. ~\E event \in {"failed", "cancelled", "cleared"} : HasBy(c, event, 1)'
    BY <1>7
  <2>3. row.end_time => \E event \in {"failed", "cancelled", "cleared"} : Has(c, event)'
    BY <1>6, <1>9, <1>10
  <2>4. row.status = CASE HasBy(c, "rejected", 1)' -> "rejected"
                       [] HasBy(c, "answered", 1)' -> "200"
                       [] HasBy(c, "failed", 1)' -> "failed"
                       [] HasBy(c, "cancelled", 1)' -> "487"
                       [] OTHER -> NULL
    BY <1>6, <1>7, <1>8
  <2>5. row.carrier <=> \E event \in Tried : HasBy(c, event, 1)'
    BY <1>6, <1>7 DEF Tried
  <2> QED BY <2>1, <2>2, <2>3, <2>4, <2>5 DEF RowTells, row
<1>12. AttemptsTell(c, 1)'
  <2>1. termination_attempt'[c] = [failed |-> 0, connected |-> 0, ended |-> 0]
    BY <1>3 DEF Told, AttemptsAfter
  <2>2. \A event \in {"attempt failed", "attempt 200"} : CountBy(c, event, 1)' = 0
    <3> SUFFICES ASSUME NEW event \in {"attempt failed", "attempt 200"}
                 PROVE  CountBy(c, event, 1)' = 0
      OBVIOUS
    <3>1. {i \in 1..1 : posted'[c][i] = event} = {}
      BY <1>1, <1>13
    <3> QED BY <3>1, FS_EmptySet DEF CountBy
  <2>3. Cardinality(EndedBy(c, 1)') = 0
    <3>1. EndedBy(c, 1)' = {}
      BY <1>1, <1>13 DEF EndedBy
    <3> QED BY <3>1, FS_EmptySet
  <2>4. CountBy(c, "attempt 200", 1)' - Cardinality(EndedBy(c, 1)') = 0
    <3>1. CountBy(c, "attempt 200", 1)' = 0
      BY <2>2
    <3>2. 0 - 0 = 0
      OBVIOUS
    <3> QED BY <2>3, <3>1, <3>2
  <2> QED BY <2>1, <2>2, <2>3, <2>4 DEF AttemptsTell
<1> QED BY <1>6, <1>11, <1>12 DEF Told, row

\* Without a row nothing is told: the request's object had changed before it was written.
LEMMA ToldNothing ==
    ASSUME TypeOK, NEW c \in Session, NEW n \in Nat, job[1].session = c,
           job[1].type # "origination_request", cdr_session[c] = NULL, Told(c, n), Write(1)
    PROVE  Told(c, n + 1)'
<1> DEFINE j == job[1]
           zero == [failed |-> 0, connected |-> 0, ended |-> 0]
           len == Len(Statements[j.type])
<1>1. /\ j \in Job /\ j.type \in CdrEvent_t /\ Admitted(j)
      /\ cdr_session' = [cdr_session EXCEPT ![c] = RowAfter(j, len)]
      /\ termination_attempt' = [termination_attempt EXCEPT ![c] = AttemptsAfter(j, len)]
  BY WriteEffect
<1>2. len \in 0..2
  <2>1. len \in {1, 2}
    BY <1>1, StatementFacts
  <2> HIDE DEF len
  <2> QED BY <2>1
<1> HIDE DEF len
<1>3. RowAfter(j, len) = NULL
  BY <1>1, <1>2, RowTypes
<1>4. /\ cdr_session \in [Session -> Row \cup {NULL}]
      /\ termination_attempt \in [Session -> [failed: Nat, connected: Nat, ended: Nat]]
  BY DEF TypeOK
<1>5. cdr_session'[c] = NULL /\ termination_attempt'[c] = AttemptsAfter(j, len)
  BY <1>1, <1>3, <1>4
<1>6. termination_attempt[c] = zero
  BY DEF Told
<1>7. j.type # "termination_attempt"
  BY <1>1 DEF Admitted
<1>8. AttemptsAfter(j, len) = zero
  <2>1. PICK new, rows : /\ new = AttemptsAfter(j, len) /\ rows = termination_attempt[j.session]
                         /\ rows = termination_attempt[c]
    OBVIOUS
  <2> HIDE DEF j
  <2>2. CASE j.type = "call_cleared" /\ len = 2
    <3>1. rows.failed = 0 /\ rows.connected = 0 /\ rows.ended = 0
      BY <1>6, <2>1
    <3>2. /\ new \in [failed: Nat, connected: Nat, ended: Nat]
          /\ new.failed = rows.failed /\ new.connected = 0
          /\ new.ended = rows.ended + rows.connected
      BY <1>1, <1>2, <2>1, <2>2, CountsAfter
    <3>3. new.failed = 0 /\ new.connected = 0 /\ new.ended = 0
      BY <3>1, <3>2
    <3>4. new = zero
      BY <3>2, <3>3, SameCounts
    <3> QED BY <2>1, <3>4
  <2>3. CASE ~(j.type = "call_cleared" /\ len = 2)
    <3>1. new = rows
      BY <1>1, <1>2, <1>7, <2>1, <2>3, CountsAfter
    <3> QED BY <1>6, <2>1, <3>1
  <2> QED BY <2>2, <2>3
<1> QED BY <1>5, <1>8 DEF Told

\* What the order of the events says of the next one and of those told.
LEMMA NextInStory ==
    ASSUME NEW c \in Session, Story(c), NEW n \in Nat, n > 0, n + 1 \in 1..Len(posted[c]),
           Len(posted[c]) \in Nat, NEW event, posted[c][n + 1] = event
    PROVE  /\ event \notin {"request", "rejected"} /\ Has(c, event)
           /\ ~HasBy(c, "rejected", n)
           /\ event \notin Tried =>
                ~\E e \in {"failed", "cancelled", "cleared"} : HasBy(c, e, n)
           /\ event \in {"answered", "failed", "cancelled"} => ~HasBy(c, "answered", n)
<1>1. \A i \in 1..n : i \in 1..Len(posted[c]) /\ i < n + 1
  OBVIOUS
<1>2. n + 1 # 1
  OBVIOUS
<1>3. event \notin {"request", "rejected"} /\ Has(c, event)
  BY <1>2 DEF Story, Has
<1>4. \A i \in 1..n :
        /\ posted[c][i] # "rejected"
        /\ posted[c][i] \in {"failed", "cancelled", "cleared"} => event \in Tried
        /\ posted[c][i] = "answered" => event \in Tried \cup {"cleared"}
  BY <1>1 DEF Story
<1>5. \A e \in {"answered", "failed", "cancelled"} : e \notin Tried \cup {"cleared"}
  BY DEF Tried
<1> QED BY <1>3, <1>4, <1>5 DEF HasBy

\* The row after the CDR of the next event.
LEMMA RowToldNext ==
    ASSUME TypeOK, NEW c \in Session, Story(c), NEW n \in Nat, n > 0,
           n + 1 \in 1..Len(posted[c]), NEW event \in Events, posted[c][n + 1] = event,
           NEW j \in Job, j.session = c, j.cdr = Shown(event), Fits(j.type, event),
           cdr_session[c] # NULL, RowTells(c, n),
           NEW new, new = RowAfter(j, Len(Statements[j.type]))
    PROVE  /\ new # NULL
           /\ new.connect_time <=> HasBy(c, "answered", n + 1)
           /\ (\E e \in {"failed", "cancelled", "cleared"} : HasBy(c, e, n + 1)) => new.end_time
           /\ new.end_time => \E e \in {"failed", "cancelled", "cleared"} : Has(c, e)
           /\ new.status = CASE HasBy(c, "rejected", n + 1) -> "rejected"
                             [] HasBy(c, "answered", n + 1) -> "200"
                             [] HasBy(c, "failed", n + 1) -> "failed"
                             [] HasBy(c, "cancelled", n + 1) -> "487"
                             [] OTHER -> NULL
           /\ new.carrier <=> \E e \in Tried : HasBy(c, e, n + 1)
<1>1. PICK row \in Row : row = cdr_session[c]
  BY DEF TypeOK
<1>2. row # NULL /\ cdr_session[j.session] = row
  BY <1>1
<1>3. Len(posted[c]) \in Nat
  BY DEF TypeOK
<1>4. /\ event \notin {"request", "rejected"} /\ Has(c, event)
      /\ ~HasBy(c, "rejected", n)
      /\ event \notin Tried => ~\E e \in {"failed", "cancelled", "cleared"} : HasBy(c, e, n)
      /\ event \in {"answered", "failed", "cancelled"} => ~HasBy(c, "answered", n)
  BY <1>3, NextInStory
<1>5. \A e : HasBy(c, e, n + 1) <=> HasBy(c, e, n) \/ event = e
  BY HasByNext
<1>6. /\ row.connect_time <=> HasBy(c, "answered", n)
      /\ (\E e \in {"failed", "cancelled", "cleared"} : HasBy(c, e, n)) => row.end_time
      /\ row.end_time => \E e \in {"failed", "cancelled", "cleared"} : Has(c, e)
      /\ row.status = CASE HasBy(c, "rejected", n) -> "rejected"
                        [] HasBy(c, "answered", n) -> "200"
                        [] HasBy(c, "failed", n) -> "failed"
                        [] HasBy(c, "cancelled", n) -> "487"
                        [] OTHER -> NULL
      /\ row.carrier <=> \E e \in Tried : HasBy(c, e, n)
  BY <1>1 DEF RowTells
<1>7. new \in Row \/ new = NULL
  <2>1. j.type \in CdrEvent_t
    BY DEF Job
  <2>2. Len(Statements[j.type]) \in {1, 2}
    BY <2>1, StatementFacts
  <2>3. Len(Statements[j.type]) \in 0..2
    BY <2>2
  <2> QED BY <2>3, RowTypes
<1>8. CASE event \in {"answered", "failed"}
  <2>1. j.type = "origination_final_response" /\ j.cdr = event
    BY <1>8 DEF Fits, Shown, Copies, Tried
  <2>2. Len(Statements[j.type]) = 1
    BY <2>1 DEF Statements
  <2>3. event \notin Tried
    BY <1>8 DEF Tried
  <2>4. CASE event = "answered"
    <3>1. new = [row EXCEPT !.status = "200", !.connect_time = TRUE, !.end_time = FALSE]
      <4>1. new = [row EXCEPT !.status = IF j.cdr = "answered" THEN "200" ELSE "failed",
                              !.connect_time = (j.cdr = "answered"),
                              !.end_time = (j.cdr # "answered")]
        BY <1>2, <2>1, <2>2 DEF RowAfter
      <4>2. /\ (IF j.cdr = "answered" THEN "200" ELSE "failed") = "200"
            /\ (j.cdr = "answered") = TRUE /\ (j.cdr # "answered") = FALSE
        BY <2>1, <2>4
      <4> QED BY <4>1, <4>2, Zenon
    <3>2. new \in Row
      BY <3>1 DEF Row
    <3>3. /\ new # NULL /\ new.status = "200" /\ new.connect_time = TRUE
          /\ new.end_time = FALSE /\ new.carrier = row.carrier
      BY <3>1, <3>2, NullAssumption DEF Row
    <3> QED BY <1>4, <1>5, <1>6, <2>3, <2>4, <3>3
  <2>5. CASE event = "failed"
    <3>1. new = [row EXCEPT !.status = "failed", !.connect_time = FALSE, !.end_time = TRUE]
      <4>1. new = [row EXCEPT !.status = IF j.cdr = "answered" THEN "200" ELSE "failed",
                              !.connect_time = (j.cdr = "answered"),
                              !.end_time = (j.cdr # "answered")]
        BY <1>2, <2>1, <2>2 DEF RowAfter
      <4>2. /\ (IF j.cdr = "answered" THEN "200" ELSE "failed") = "failed"
            /\ (j.cdr = "answered") = FALSE /\ (j.cdr # "answered") = TRUE
        BY <2>1, <2>5
      <4> QED BY <4>1, <4>2, Zenon
    <3>2. new \in Row
      BY <3>1 DEF Row
    <3>3. /\ new # NULL /\ new.status = "failed" /\ new.connect_time = FALSE
          /\ new.end_time = TRUE /\ new.carrier = row.carrier
      BY <3>1, <3>2, NullAssumption DEF Row
    <3> QED BY <1>4, <1>5, <1>6, <2>3, <2>5, <3>3
  <2> QED BY <1>8, <2>4, <2>5
<1>9. CASE event \in Tried
  <2>1. j.type = "termination_attempt"
    BY <1>9 DEF Fits, Tried
  <2>2. Len(Statements[j.type]) = 2
    BY <2>1 DEF Statements
  <2>3. new = [row EXCEPT !.carrier = row.carrier \/ 2 = 2]
    BY <1>2, <2>1, <2>2 DEF RowAfter
  <2>4. (row.carrier \/ 2 = 2) = TRUE
    OBVIOUS
  <2>5. new = [row EXCEPT !.carrier = TRUE]
    BY <2>3, <2>4
  <2>6. new \in Row
    BY <2>5 DEF Row
  <2>7. /\ new # NULL /\ new.status = row.status /\ new.connect_time = row.connect_time
        /\ new.end_time = row.end_time /\ new.carrier = TRUE
    BY <2>5, <2>6, NullAssumption DEF Row
  <2>8. event \notin {"answered", "failed", "cancelled", "cleared"}
    BY <1>9 DEF Tried
  <2> QED BY <1>4, <1>5, <1>6, <1>9, <2>7, <2>8
<1>10. CASE event = "cancelled"
  <2>1. j.type = "origination_cancel"
    BY <1>10 DEF Fits, Tried
  <2>2. Len(Statements[j.type]) = 1
    BY <2>1 DEF Statements
  <2>3. new = [row EXCEPT !.status = "487", !.end_time = TRUE]
    BY <1>2, <2>1, <2>2 DEF RowAfter
  <2>4. new \in Row
    BY <2>3 DEF Row
  <2>5. /\ new # NULL /\ new.status = "487" /\ new.connect_time = row.connect_time
        /\ new.end_time = TRUE /\ new.carrier = row.carrier
    BY <2>3, <2>4, NullAssumption DEF Row
  <2>6. event \notin Tried
    BY <1>10 DEF Tried
  <2> QED BY <1>4, <1>5, <1>6, <1>10, <2>5, <2>6
<1>11. CASE event = "cleared"
  <2>1. j.type = "call_cleared"
    BY <1>11 DEF Fits, Tried
  <2>2. Len(Statements[j.type]) = 2
    BY <2>1 DEF Statements
  <2>3. new = [row EXCEPT !.end_time = TRUE]
    BY <1>2, <2>1, <2>2 DEF RowAfter
  <2>4. new \in Row
    BY <2>3 DEF Row
  <2>5. /\ new # NULL /\ new.status = row.status /\ new.connect_time = row.connect_time
        /\ new.end_time = TRUE /\ new.carrier = row.carrier
    BY <2>3, <2>4, NullAssumption DEF Row
  <2>6. event \notin Tried
    BY <1>11 DEF Tried
  <2> QED BY <1>4, <1>5, <1>6, <1>11, <2>5, <2>6
<1>12. event \in {"answered", "failed", "cancelled", "cleared"} \cup Tried
  BY <1>4 DEF Events, Copies, Tried
<1> QED BY <1>8, <1>9, <1>10, <1>11, <1>12

\* The counts after the CDR of the next event.
LEMMA AttemptsToldNext ==
    ASSUME TypeOK, NEW c \in Session, NEW n \in Nat,
           NEW event \in Events, posted[c][n + 1] = event, event \notin {"request", "rejected"},
           NEW j \in Job, j.session = c, j.cdr = Shown(event), Fits(j.type, event),
           AttemptsTell(c, n)
    PROVE  AttemptsAfter(j, Len(Statements[j.type])) =
               [failed    |-> CountBy(c, "attempt failed", n + 1),
                connected |-> CountBy(c, "attempt 200", n + 1) - Cardinality(EndedBy(c, n + 1)),
                ended     |-> Cardinality(EndedBy(c, n + 1))]
<1>1. PICK f \in Nat, x \in Nat, e \in Nat :
        /\ f = CountBy(c, "attempt failed", n) /\ x = CountBy(c, "attempt 200", n)
        /\ e = Cardinality(EndedBy(c, n))
  BY CountByNext, EndedByNext
<1>2. PICK f2, x2, e2 :
        /\ f2 = CountBy(c, "attempt failed", n + 1) /\ x2 = CountBy(c, "attempt 200", n + 1)
        /\ e2 = Cardinality(EndedBy(c, n + 1))
  OBVIOUS
<1>3. /\ f2 = IF event = "attempt failed" THEN f + 1 ELSE f
      /\ x2 = IF event = "attempt 200" THEN x + 1 ELSE x
      /\ e2 = IF event = "cleared" THEN x ELSE e
  <2>1. CountBy(c, "attempt failed", n + 1) = IF event = "attempt failed" THEN f + 1 ELSE f
    <3>1. PICK it : it = "attempt failed"
      OBVIOUS
    <3>2. CountBy(c, it, n + 1) = IF posted[c][n + 1] = it THEN CountBy(c, it, n) + 1
                                                         ELSE CountBy(c, it, n)
      BY CountByNext
    <3> QED BY <1>1, <3>1, <3>2
  <2>2. CountBy(c, "attempt 200", n + 1) = IF event = "attempt 200" THEN x + 1 ELSE x
    <3>1. PICK it : it = "attempt 200"
      OBVIOUS
    <3>2. CountBy(c, it, n + 1) = IF posted[c][n + 1] = it THEN CountBy(c, it, n) + 1
                                                         ELSE CountBy(c, it, n)
      BY CountByNext
    <3> QED BY <1>1, <3>1, <3>2
  <2>3. Cardinality(EndedBy(c, n + 1)) = IF event = "cleared" THEN x ELSE e
    BY <1>1, EndedByNext
  <2> QED BY <1>2, <2>1, <2>2, <2>3
<1> DEFINE rows == termination_attempt[j.session]
           len == Len(Statements[j.type])
           new == AttemptsAfter(j, len)
<1>4. rows.failed = f /\ rows.connected = x - e /\ rows.ended = e
  <2>1. rows = [failed |-> f, connected |-> x - e, ended |-> e]
    BY <1>1 DEF AttemptsTell
  <2> QED BY <2>1
<1>5. len \in {1, 2} /\ len \in 0..2 /\ (j.type \in {"termination_attempt", "call_cleared"} => len = 2)
  <2>1. j.type \in CdrEvent_t
    BY DEF Job
  <2>2. len \in {1, 2}
    BY <2>1, StatementFacts
  <2>3. j.type \in {"termination_attempt", "call_cleared"} => len = 2
    BY DEF Statements
  <2> HIDE DEF len
  <2> QED BY <2>2, <2>3
<1> HIDE DEF len
<1>6. /\ new \in [failed: Nat, connected: Nat, ended: Nat]
      /\ j.type = "termination_attempt" /\ len > 0 /\ j.cdr = "attempt 200" =>
           /\ new.failed = rows.failed /\ new.connected = rows.connected + 1
           /\ new.ended = rows.ended
      /\ j.type = "termination_attempt" /\ len > 0 /\ j.cdr # "attempt 200" =>
           /\ new.failed = rows.failed + 1 /\ new.connected = rows.connected
           /\ new.ended = rows.ended
      /\ j.type = "call_cleared" /\ len = 2 =>
           /\ new.failed = rows.failed /\ new.connected = 0
           /\ new.ended = rows.ended + rows.connected
      /\ ~(j.type = "termination_attempt" /\ len > 0) /\ ~(j.type = "call_cleared" /\ len = 2)
           => new = rows
  BY <1>5, CountsAfter
<1> HIDE DEF new, rows
<1>7. new.failed = f2 /\ new.connected = x2 - e2 /\ new.ended = e2
  <2>1. CASE event = "attempt 200"
    <3>1. j.type = "termination_attempt" /\ j.cdr = "attempt 200" /\ len > 0
      <4>1. j.type = "termination_attempt"
        BY <2>1 DEF Fits, Tried
      <4>2. j.cdr = "attempt 200"
        BY <2>1 DEF Shown, Copies
      <4>3. len = 2
        BY <1>5, <4>1
      <4>4. len > 0
        BY <4>3
      <4> QED BY <4>1, <4>2, <4>4
    <3>2. new.failed = f /\ new.connected = (x - e) + 1 /\ new.ended = e
      BY <1>4, <1>6, <3>1
    <3>3. f2 = f /\ x2 = x + 1 /\ e2 = e
      BY <1>3, <2>1
    <3>4. (x - e) + 1 = (x + 1) - e
      OBVIOUS
    <3> QED BY <3>2, <3>3, <3>4
  <2>2. CASE event = "attempt failed"
    <3>1. j.type = "termination_attempt" /\ j.cdr # "attempt 200" /\ len > 0
      <4>1. j.type = "termination_attempt"
        BY <2>2 DEF Fits, Tried
      <4>2. j.cdr # "attempt 200"
        BY <2>2 DEF Shown, Copies
      <4>3. len = 2
        BY <1>5, <4>1
      <4>4. len > 0
        BY <4>3
      <4> QED BY <4>1, <4>2, <4>4
    <3>2. new.failed = f + 1 /\ new.connected = x - e /\ new.ended = e
      BY <1>4, <1>6, <3>1
    <3> QED BY <1>3, <2>2, <3>2
  <2>3. CASE event = "cleared"
    <3>1. j.type = "call_cleared" /\ len = 2
      BY <1>5, <2>3 DEF Fits, Tried
    <3>2. new.failed = f /\ new.connected = 0 /\ new.ended = e + (x - e)
      BY <1>4, <1>6, <3>1
    <3>3. f2 = f /\ x2 = x /\ e2 = x
      BY <1>3, <2>3
    <3>4. x - x = 0 /\ e + (x - e) = x
      OBVIOUS
    <3> QED BY <3>2, <3>3, <3>4
  <2>4. CASE event \in {"answered", "failed", "cancelled"}
    <3>1. j.type \in {"origination_final_response", "origination_cancel"}
      BY <2>4 DEF Fits, Tried
    <3>2. new = rows
      BY <1>6, <3>1
    <3>3. event \notin {"attempt failed", "attempt 200", "cleared"}
      BY <2>4
    <3> QED BY <1>3, <1>4, <3>2, <3>3
  <2> QED BY <2>1, <2>2, <2>3, <2>4 DEF Events, Copies
<1>8. new = [failed |-> f2, connected |-> x2 - e2, ended |-> e2]
  BY <1>6, <1>7, SameCounts
<1> QED BY <1>2, <1>8 DEF new, len

\* A CDR that is written tells one more event.
LEMMA ToldAfterWrite ==
    ASSUME TypeOK, NEW c \in Session, Story(c), NEW n \in Nat, n + 1 \in 1..Len(posted[c]),
           job[1].session = c, job[1].cdr = Shown(posted[c][n + 1]),
           Fits(job[1].type, posted[c][n + 1]), Told(c, n), Write(1)
    PROVE  Told(c, n + 1)'
<1>1. PICK event \in Events : event = posted[c][n + 1]
  BY DEF TypeOK
<1>2. PICK j \in Job : j = job[1]
  BY WriteEffect
<1>3. /\ cdr_session' = [cdr_session EXCEPT ![c] = RowAfter(j, Len(Statements[j.type]))]
      /\ termination_attempt' =
           [termination_attempt EXCEPT ![c] = AttemptsAfter(j, Len(Statements[j.type]))]
      /\ posted' = posted /\ Admitted(j)
  BY <1>2, WriteEffect
<1>4. c \in DOMAIN cdr_session /\ c \in DOMAIN termination_attempt
  BY DEF TypeOK
<1>5. /\ cdr_session'[c] = RowAfter(j, Len(Statements[j.type]))
      /\ termination_attempt'[c] = AttemptsAfter(j, Len(Statements[j.type]))
  BY <1>3, <1>4
<1>6. CASE cdr_session[c] = NULL /\ j.type = "origination_request"
  <2>1. event \in {"request", "rejected"}
    BY <1>1, <1>2, <1>6 DEF Fits, Tried, Events, Copies
  <2>2. n + 1 = 1
    BY <1>1, <2>1 DEF Story
  <2>3. n = 0
    BY <2>2
  <2>4. posted[c][1] \in {"request", "rejected"} /\ 1 \in 1..Len(posted[c])
    BY <1>1, <2>1, <2>2
  <2>5. Told(c, 1)'
    BY <1>2, <1>6, <2>3, <2>4, ToldFirst
  <2> QED BY <2>2, <2>5
<1>7. CASE cdr_session[c] = NULL /\ j.type # "origination_request"
  BY <1>2, <1>7, ToldNothing
<1>8. CASE cdr_session[c] # NULL
  <2>1. n > 0 /\ RowTells(c, n) /\ AttemptsTell(c, n)
    BY <1>8 DEF Told
  <2>2. Len(posted[c]) \in Nat
    BY DEF TypeOK
  <2>3. event \notin {"request", "rejected"}
    BY <1>1, <2>1, <2>2, NextInStory
  <2>4. j.session = c /\ j.cdr = Shown(event) /\ Fits(j.type, event)
    BY <1>1, <1>2
  <2>5. PICK new : new = RowAfter(j, Len(Statements[j.type]))
    OBVIOUS
  <2>6. /\ new # NULL
        /\ new.connect_time <=> HasBy(c, "answered", n + 1)
        /\ (\E e \in {"failed", "cancelled", "cleared"} : HasBy(c, e, n + 1)) => new.end_time
        /\ new.end_time => \E e \in {"failed", "cancelled", "cleared"} : Has(c, e)
        /\ new.status = CASE HasBy(c, "rejected", n + 1) -> "rejected"
                          [] HasBy(c, "answered", n + 1) -> "200"
                          [] HasBy(c, "failed", n + 1) -> "failed"
                          [] HasBy(c, "cancelled", n + 1) -> "487"
                          [] OTHER -> NULL
        /\ new.carrier <=> \E e \in Tried : HasBy(c, e, n + 1)
    BY <1>1, <1>8, <2>1, <2>4, <2>5, RowToldNext
  <2>7. AttemptsAfter(j, Len(Statements[j.type])) =
          [failed    |-> CountBy(c, "attempt failed", n + 1),
           connected |-> CountBy(c, "attempt 200", n + 1) - Cardinality(EndedBy(c, n + 1)),
           ended     |-> Cardinality(EndedBy(c, n + 1))]
    BY <1>1, <2>1, <2>3, <2>4, AttemptsToldNext
  <2>8. /\ \A e : HasBy(c, e, n + 1)' <=> HasBy(c, e, n + 1)
        /\ \A e : Has(c, e)' <=> Has(c, e)
    BY <1>3 DEF HasBy, Has
  <2>9. /\ CountBy(c, "attempt failed", n + 1)' = CountBy(c, "attempt failed", n + 1)
        /\ CountBy(c, "attempt 200", n + 1)' = CountBy(c, "attempt 200", n + 1)
        /\ EndedBy(c, n + 1)' = EndedBy(c, n + 1)
    BY <1>3 DEF CountBy, EndedBy
  <2>10. RowTells(c, n + 1)'
    BY <1>5, <2>5, <2>6, <2>8 DEF RowTells
  <2>11. AttemptsTell(c, n + 1)'
    BY <1>5, <2>7, <2>9 DEF AttemptsTell
  <2>12. cdr_session'[c] # NULL /\ n + 1 > 0
    BY <1>5, <2>5, <2>6
  <2> QED BY <2>10, <2>11, <2>12 DEF Told
<1> QED BY <1>6, <1>7, <1>8

\* A step that changes neither the CDRs nor the tables.
LEMMA QuietTables ==
    ASSUME StoryInv, TableInv,
           UNCHANGED <<posted, m_cdrType, m_cdrWriter, m_io_service, job, cdr_session,
                       termination_attempt, lost>>
    PROVE  StoryInv' /\ TableInv'
<1>1. StoryInv'
  BY DEF StoryInv, Story, Has
<1>2. \A c, n, place : Progress(c, n, place)' <=> Progress(c, n, place)
  <2> SUFFICES ASSUME NEW c, NEW n, NEW place
               PROVE  Progress(c, n, place)' <=> Progress(c, n, place)
    OBVIOUS
  <2>1. InOrder(c, n, place)' <=> InOrder(c, n, place)
    BY DEF InOrder, Stands, CdrAt
  <2>2. Told(c, n)' <=> Told(c, n)
    BY DEF Told, RowTells, AttemptsTell, HasBy, CountBy, EndedBy, Has
  <2> QED BY <2>1, <2>2 DEF Progress
<1>3. TableInv'
  BY <1>2 DEF TableInv, Places
<1> QED BY <1>1, <1>3

\* At first nothing has been posted or written.
LEMMA InitTables == Init => StoryInv /\ TableInv
<1> SUFFICES ASSUME Init PROVE StoryInv /\ TableInv
  OBVIOUS
<1>1. ASSUME NEW c \in Session
      PROVE  /\ Story(c)
             /\ \E n \in 0..Len(posted[c]) : \E place \in Places(c, n) : Progress(c, n, place)
  <2>1. posted[c] = <<>> /\ Len(posted[c]) = 0 /\ m_cdrType[c] = "origination_request"
    BY DEF Init
  <2>2. job[1] = NULL /\ Len(m_io_service[1]) = 0
    BY OneIsWriter DEF Init
  <2>3. \A i \in 1..0 : FALSE
    OBVIOUS
  <2>4. Story(c)
    BY <2>1, <2>3 DEF Story, Has
  <2>5. PICK place : place \in Places(c, 0)
    <3>1. [k \in 1..0 |-> 0] \in [(0 + 1)..0 -> 0..0]
      OBVIOUS
    <3> QED BY <2>1, <2>2, <3>1 DEF Places
  <2>6. InOrder(c, 0, place)
    <3>1. \A k \in (0 + 1)..0 : FALSE
      OBVIOUS
    <3>2. \A i : ~Stands(c, i)
      BY <2>2, <2>3 DEF Stands
    <3> QED BY <2>1, <3>1, <3>2 DEF InOrder
  <2>7. Told(c, 0)
    BY DEF Init, Told
  <2>8. Progress(c, 0, place)
    BY <2>2, <2>6, <2>7 DEF Progress
  <2>9. 0 \in 0..Len(posted[c])
    BY <2>1
  <2> QED BY <2>4, <2>5, <2>8, <2>9
<1> QED BY <1>1 DEF StoryInv, TableInv, Places

\* Events and tables through a step of the controller.
LEMMA ControllerTables ==
    ASSUME TypeOK, StoryInv, TableInv, ControllerStep
    PROVE  StoryInv' /\ TableInv'
<1>1. ASSUME NEW c \in Session,
             Request(c) \/ FinalResponse(c) \/ Cancel(c) \/ Bye(c) \/ Attempt(c)
      PROVE  StoryInv' /\ TableInv'
  <2>1. PICK event \in Events :
             /\ Post(c, event, Shown(event))
             /\ MayFollow(c, event)
             /\ m_cdrType' = IF event = "cancelled"
                             THEN [m_cdrType EXCEPT ![c] = "origination_cancel"]
                             ELSE IF event = "cleared"
                                  THEN [m_cdrType EXCEPT ![c] = "call_cleared"] ELSE m_cdrType
    BY <1>1, StoryStep
  <2>2. Shown(event) \in Copies \cup {"shared"}
    BY DEF Shown
  <2>3. /\ Len(posted[c]) \in Nat /\ Len(posted'[c]) = Len(posted[c]) + 1
        /\ \A i \in 1..Len(posted[c]) : posted'[c][i] = posted[c][i]
        /\ \A e : Has(c, e) => Has(c, e)'
        /\ \A d \in Session \ {c} : posted'[d] = posted[d]
    BY <2>1, <2>2, PostedNext
  <2>4. UNCHANGED <<m_cdrWriter, job, cdr_session, termination_attempt, lost>>
    BY <2>1, <2>2, PostEffect
  <2>5. StoryInv'
    <3> SUFFICES ASSUME NEW d \in Session PROVE Story(d)'
      BY DEF StoryInv
    <3>1. Story(d)
      BY DEF StoryInv
    <3>2. CASE d = c
      BY <2>1, <3>1, <3>2, StoryAfterPost
    <3>3. CASE d # c
      <4>1. posted'[d] = posted[d] /\ m_cdrType'[d] = m_cdrType[d]
        BY <2>1, <2>3, <3>3 DEF TypeOK
      <4> QED BY <3>1, <4>1, StoryElsewhere
    <3> QED BY <3>2, <3>3
  <2>6. TableInv'
    <3> SUFFICES ASSUME m_cdrWriter' = 1, NEW d \in Session \ lost'
                 PROVE  \E n \in 0..Len(posted'[d]) : \E place \in Places(d, n)' :
                          Progress(d, n, place)'
      BY DEF TableInv, Places
    <3>1. m_cdrWriter = 1 /\ d \in Session \ lost
      BY <2>4
    <3>2. PICK n \in 0..Len(posted[d]) : \E place \in Places(d, n) : Progress(d, n, place)
      BY <3>1 DEF TableInv, Places
    <3>3. PICK place \in Places(d, n) : Progress(d, n, place)
      BY <3>2
    <3>4. /\ Len(posted[d]) \in Nat /\ Len(posted'[d]) \in Nat /\ Len(posted[d]) <= Len(posted'[d])
          /\ \A i \in 1..Len(posted[d]) : posted'[d][i] = posted[d][i]
          /\ \A e : Has(d, e) => Has(d, e)'
      <4>1. CASE d = c
        BY <2>3, <4>1
      <4>2. CASE d # c
        <5>1. posted'[d] = posted[d] /\ Len(posted[d]) \in Nat
          BY <2>3, <4>2 DEF TypeOK
        <5> QED BY <5>1 DEF Has
      <4> QED BY <4>1, <4>2
    <3>5. n \in 0..Len(posted'[d])
      BY <3>4
    <3>6. PICK new \in Places(d, n)' : InOrder(d, n, new)'
      <4>1. InOrder(d, n, place)
        BY <3>3 DEF Progress
      <4>2. CASE d = c
        BY <2>1, <3>1, <4>1, <4>2, OrderAfterPost
      <4>3. CASE d # c
        BY <2>1, <3>1, <4>1, <4>3, OrderAfterOther
      <4> QED BY <4>2, <4>3
    <3>7. Told(d, n)'
      <4>1. Told(d, n)
        BY <3>3 DEF Progress
      <4>2. cdr_session'[d] = cdr_session[d] /\ termination_attempt'[d] = termination_attempt[d]
        BY <2>4
      <4> QED BY <3>4, <4>1, <4>2, ToldKept
    <3>8. job'[1] # NULL /\ job'[1].session = d =>
            n < Len(posted'[d]) /\ Fits(job'[1].type, posted'[d][n + 1])
      <4> SUFFICES ASSUME job'[1] # NULL, job'[1].session = d
                   PROVE  n < Len(posted'[d]) /\ Fits(job'[1].type, posted'[d][n + 1])
        OBVIOUS
      <4>1. n < Len(posted[d]) /\ Fits(job[1].type, posted[d][n + 1])
        BY <2>4, <3>3 DEF Progress
      <4>2. n + 1 \in 1..Len(posted[d]) /\ n < Len(posted'[d])
        BY <3>4, <4>1
      <4>3. posted'[d][n + 1] = posted[d][n + 1] /\ job' = job
        BY <2>4, <3>4, <4>2
      <4> QED BY <4>1, <4>2, <4>3
    <3>9. Progress(d, n, new)'
      BY <3>6, <3>7, <3>8 DEF Progress, Fits
    <3> QED BY <3>5, <3>6, <3>9
  <2> QED BY <2>5, <2>6
<1>2. CASE Reload
  <2>1. UNCHANGED <<posted, m_cdrType>> /\ m_cdrWriter' = m_cdrWriter + 1
    BY <1>2 DEF Reload
  <2>2. m_cdrWriter' # 1
    BY <2>1, BoundAssumption DEF TypeOK, Writer
  <2>3. StoryInv'
    BY <2>1 DEF StoryInv, Story, Has
  <2> QED BY <2>2, <2>3 DEF TableInv
<1>3. CASE ShutDown
  BY <1>3, QuietTables DEF ShutDown, tables, history
<1> QED BY <1>1, <1>2, <1>3 DEF ControllerStep

\* The type with which the CDR of event k is dispatched.
LEMMA DispatchFits ==
    ASSUME TypeOK, NEW c \in Session, Story(c), NEW k \in 1..Len(posted[c]),
           NEW cdr \in Cdr, cdr.session = c, cdr.cdr = Shown(posted[c][k])
    PROVE  Fits(getCdrType(cdr), posted[c][k])
<1>1. PICK event \in Events : event = posted[c][k]
  BY DEF TypeOK
<1>2. Has(c, event)
  BY <1>1 DEF Has
<1>3. m_cdrType[c] = IF Has(c, "cancelled") THEN "origination_cancel"
                     ELSE IF Has(c, "cleared") THEN "call_cleared" ELSE "origination_request"
  BY DEF Story
<1>4. \A i, m \in 1..Len(posted[c]) : i # m => i < m \/ m < i
  OBVIOUS
<1>5. \A i, m \in 1..Len(posted[c]) : i < m =>
        /\ posted[c][i] # "rejected"
        /\ posted[c][i] \in {"failed", "cancelled", "cleared"} => posted[c][m] \in Tried
  BY DEF Story
<1>6. CASE event \in {"answered", "failed"}
  <2>1. cdr.cdr = event
    BY <1>1, <1>6 DEF Shown, Copies
  <2>2. getCdrType(cdr) = "origination_final_response"
    BY <1>6, <2>1 DEF getCdrType
  <2> QED BY <1>1, <1>6, <2>2 DEF Fits, Tried
<1>7. CASE event \in Tried
  <2>1. cdr.cdr = event
    BY <1>1, <1>7 DEF Shown, Copies, Tried
  <2>2. getCdrType(cdr) = "termination_attempt"
    BY <1>7, <2>1 DEF getCdrType, Tried
  <2> QED BY <1>1, <1>7, <2>2 DEF Fits, Tried
<1>8. CASE event \in {"request", "rejected", "cancelled", "cleared"}
  <2>1. cdr.cdr = "shared"
    BY <1>1, <1>8 DEF Shown, Copies
  <2>2. getCdrType(cdr) = m_cdrType[c]
    BY <2>1 DEF getCdrType
  <2>3. CASE event = "request"
    BY <1>1, <1>3, <2>2, <2>3 DEF Fits, Tried
  <2>4. CASE event = "rejected"
    <3>1. ~Has(c, "cancelled") /\ ~Has(c, "cleared")
      <4> SUFFICES ASSUME NEW i \in 1..Len(posted[c]), posted[c][i] \in {"cancelled", "cleared"}
                   PROVE  FALSE
        BY DEF Has
      <4>1. i # k
        BY <1>1, <2>4
      <4>2. ~(k < i)
        BY <1>1, <1>5, <2>4
      <4>3. ~(i < k)
        <5>1. "rejected" \notin Tried
          BY DEF Tried
        <5> QED BY <1>1, <1>5, <2>4, <5>1
      <4> QED BY <1>4, <4>1, <4>2, <4>3
    <3>2. m_cdrType[c] = "origination_request"
      BY <1>3, <3>1
    <3> QED BY <1>1, <2>2, <2>4, <3>2 DEF Fits, Tried
  <2>5. CASE event = "cancelled"
    BY <1>1, <1>2, <1>3, <2>2, <2>5 DEF Fits, Tried
  <2>6. CASE event = "cleared"
    <3>1. ~Has(c, "cancelled")
      <4> SUFFICES ASSUME NEW i \in 1..Len(posted[c]), posted[c][i] = "cancelled"
                   PROVE  FALSE
        BY DEF Has
      <4>1. i # k /\ "cancelled" \notin Tried /\ "cleared" \notin Tried
        BY <1>1, <2>6 DEF Tried
      <4>2. ~(k < i) /\ ~(i < k)
        BY <1>1, <1>5, <2>6, <4>1
      <4> QED BY <1>4, <4>1, <4>2
    <3>2. m_cdrType[c] = "call_cleared"
      BY <1>2, <1>3, <2>6, <3>1
    <3> QED BY <1>1, <2>2, <2>6, <3>2 DEF Fits, Tried
  <2> QED BY <1>8, <2>3, <2>4, <2>5, <2>6
<1> QED BY <1>6, <1>7, <1>8 DEF Events, Copies, Tried

\* The worker takes a CDR from the queue.
LEMMA TakeTables ==
    ASSUME TypeOK, StoryInv, TableInv, m_cdrWriter = 1, NoConnection(1) \/ Dispatch(1)
    PROVE  TableInv'
<1> DEFINE q == m_io_service[1]
           head == m_io_service[1][1]
<1>1. /\ job[1] = NULL /\ q # <<>> /\ q \in Seq(Cdr)
      /\ m_io_service' = [m_io_service EXCEPT ![1] = Tail(@)]
      /\ UNCHANGED <<posted, cdr_session, termination_attempt, m_cdrWriter>>
  BY OneIsWriter DEF NoConnection, Dispatch, TypeOK, controller, tables
<1>2. Head(q) = head /\ head \in Cdr /\ Len(q) \in Nat /\ 1 \in 1..Len(q)
  BY <1>1
<1>3. m_io_service'[1] = Tail(q)
  BY <1>1, OneIsWriter DEF TypeOK
<1>4. /\ lost \subseteq lost'
      /\ \/ NoConnection(1) /\ job'[1] = NULL /\ head.session \in lost'
         \/ /\ Dispatch(1) /\ job'[1] # NULL /\ job'[1].session = head.session
            /\ job'[1].cdr = head.cdr /\ job'[1].type = getCdrType(head)
  <2>1. CASE NoConnection(1)
    BY <1>1, <1>2, <2>1 DEF NoConnection
  <2>2. CASE Dispatch(1)
    <3> DEFINE new == [session |-> head.session, cdr |-> head.cdr, type |-> getCdrType(head)]
    <3>1. job' = [job EXCEPT ![1] = new] /\ lost' = lost
      BY <1>2, <2>2 DEF Dispatch, history
    <3>2. job'[1] = new
      BY <3>1, OneIsWriter DEF TypeOK
    <3>3. head.session \in Session /\ head.cdr \in Copies \cup {"shared"}
      BY <1>2 DEF Cdr
    <3>4. getCdrType(head) \in CdrEvent_t
      BY <1>2, CdrTypes
    <3>5. new \in Job
      BY <3>3, <3>4 DEF Job
    <3>6. new # NULL
      BY <3>5, NullAssumption
    <3>7. new.session = head.session /\ new.cdr = head.cdr /\ new.type = getCdrType(head)
      OBVIOUS
    <3> HIDE DEF new
    <3> QED BY <2>2, <3>1, <3>2, <3>6, <3>7
  <2> QED BY <2>1, <2>2
<1> HIDE DEF q, head
<1> SUFFICES ASSUME NEW c \in Session \ lost'
             PROVE  \E n \in 0..Len(posted'[c]) : \E place \in Places(c, n)' :
                      Progress(c, n, place)'
  BY DEF TableInv, Places
<1>5. c \in Session \ lost
  BY <1>4
<1>6. PICK n \in 0..Len(posted[c]) : \E place \in Places(c, n) : Progress(c, n, place)
  BY <1>5 DEF TableInv, Places
<1>7. PICK place \in Places(c, n) : Progress(c, n, place)
  BY <1>6
<1>8. InOrder(c, n, place) /\ Told(c, n)
  BY <1>7 DEF Progress
<1>9. \/ /\ job'[1] # NULL /\ job'[1].session = head.session /\ job'[1].cdr = head.cdr
      \/ job'[1] = NULL /\ head.session # c
  BY <1>4
<1>10. PICK new \in Places(c, n)' : InOrder(c, n, new)'
  BY <1>1, <1>3, <1>5, <1>8, <1>9, OrderAfterTake DEF q, head
<1>11. Told(c, n)'
  BY <1>1, <1>8 DEF Told, RowTells, AttemptsTell, HasBy, CountBy, EndedBy, Has
<1>12. ASSUME job'[1] # NULL, job'[1].session = c
       PROVE  n < Len(posted'[c]) /\ Fits(job'[1].type, posted'[c][n + 1])
  <2>1. head.session = c /\ job'[1].type = getCdrType(head)
    BY <1>4, <1>12
  <2>2. Len(posted[c]) \in Nat
    BY DEF TypeOK
  <2>3. Stands(c, 1) /\ 1 \in 0..Len(m_io_service[1]) /\ ~Stands(c, 0)
    BY <1>1, <1>2, <2>1 DEF Stands, q, head
  <2>4. PICK k \in (n + 1)..Len(posted[c]) : place[k] = 1
    BY <1>8, <2>3 DEF InOrder
  <2>5. n + 1 \in (n + 1)..Len(posted[c]) /\ n + 1 \in 1..Len(posted[c]) /\ n < Len(posted[c])
    BY <2>2, <2>4
  <2>6. place[n + 1] \in 0..Len(m_io_service[1]) /\ Stands(c, place[n + 1])
    BY <1>8, <2>5 DEF InOrder, Places
  <2>7. place[n + 1] # 0
    BY <2>3, <2>6
  <2>8. n + 1 < k => place[n + 1] < place[k]
    BY <1>8, <2>4, <2>5 DEF InOrder
  <2>9. place[n + 1] = 1
    <3>1. n + 1 = k \/ n + 1 < k
      BY <2>2, <2>4
    <3>2. Len(m_io_service[1]) \in Nat
      BY <1>2 DEF q
    <3> QED BY <2>4, <2>6, <2>7, <2>8, <3>1, <3>2
  <2>10. CdrAt(1) = Shown(posted[c][n + 1])
    BY <1>8, <2>5, <2>9 DEF InOrder
  <2>11. head.cdr = Shown(posted[c][n + 1])
    BY <2>10 DEF CdrAt, head
  <2>12. Fits(getCdrType(head), posted[c][n + 1])
    <3>1. Story(c)
      BY DEF StoryInv
    <3> QED BY <1>2, <2>1, <2>5, <2>11, <3>1, DispatchFits
  <2> QED BY <1>1, <2>1, <2>5, <2>12
<1>13. Progress(c, n, new)'
  BY <1>10, <1>11, <1>12 DEF Progress, Fits
<1>14. n \in 0..Len(posted'[c])
  BY <1>1
<1> QED BY <1>10, <1>13, <1>14

\* A CDR is written.
LEMMA WriteTables ==
    ASSUME TypeOK, StoryInv, TableInv, m_cdrWriter = 1, Write(1)
    PROVE  TableInv'
<1>1. /\ job[1] # NULL /\ job[1].session \in Session /\ job'[1] = NULL
      /\ UNCHANGED <<posted, m_cdrType, m_cdrWriter, m_io_service, lost>>
      /\ \E row, rows :
           /\ cdr_session' = [cdr_session EXCEPT ![job[1].session] = row]
           /\ termination_attempt' = [termination_attempt EXCEPT ![job[1].session] = rows]
  BY WriteEffect
<1> SUFFICES ASSUME NEW c \in Session \ lost
             PROVE  \E n \in 0..Len(posted'[c]) : \E place \in Places(c, n)' :
                      Progress(c, n, place)'
  BY <1>1 DEF TableInv, Places
<1>2. PICK n \in 0..Len(posted[c]) : \E place \in Places(c, n) : Progress(c, n, place)
  BY DEF TableInv, Places
<1>3. PICK place \in Places(c, n) : Progress(c, n, place)
  BY <1>2
<1>4. InOrder(c, n, place) /\ Told(c, n)
  BY <1>3 DEF Progress
<1>5. m_io_service'[1] = m_io_service[1] /\ posted'[c] = posted[c]
  BY <1>1
<1>6. CASE job[1].session = c
  <2>1. PICK new \in Places(c, n + 1)' : InOrder(c, n + 1, new)'
    BY <1>1, <1>4, <1>5, <1>6, OrderAfterWrite
  <2>2. n + 1 \in 1..Len(posted[c]) /\ job[1].cdr = Shown(posted[c][n + 1])
    BY <1>1, <1>4, <1>6, JobIsNext
  <2>3. Fits(job[1].type, posted[c][n + 1])
    BY <1>1, <1>3, <1>6 DEF Progress
  <2>4. Told(c, n + 1)'
    <3>1. Story(c) /\ n \in Nat
      BY DEF StoryInv
    <3> QED BY <1>4, <1>6, <2>2, <2>3, <3>1, ToldAfterWrite
  <2>5. Progress(c, n + 1, new)'
    BY <1>1, <2>1, <2>4 DEF Progress
  <2>6. n + 1 \in 0..Len(posted'[c])
    <3>1. Len(posted[c]) \in Nat
      BY DEF TypeOK
    <3> QED BY <1>5, <2>2, <3>1
  <2> QED BY <2>1, <2>5, <2>6
<1>7. CASE job[1].session # c
  <2>1. place \in Places(c, n)' /\ InOrder(c, n, place)'
    BY <1>1, <1>4, <1>5, <1>7, OrderAfterOthersJob
  <2>2. cdr_session'[c] = cdr_session[c] /\ termination_attempt'[c] = termination_attempt[c]
    BY <1>1, <1>7 DEF TypeOK
  <2>3. Told(c, n)'
    <3>1. \A event : Has(c, event) => Has(c, event)'
      BY <1>5 DEF Has
    <3>2. Len(posted[c]) \in Nat
      BY DEF TypeOK
    <3> QED BY <1>4, <1>5, <2>2, <3>1, <3>2, ToldKept
  <2>4. Progress(c, n, place)'
    BY <1>1, <2>1, <2>3 DEF Progress
  <2>5. n \in 0..Len(posted'[c])
    BY <1>5
  <2> QED BY <2>1, <2>4, <2>5
<1> QED BY <1>6, <1>7

\* A CDR is lost: nothing is said of its session any more.
LEMMA LostTables ==
    ASSUME TypeOK, TableInv, m_cdrWriter = 1, ConnectionLost(1) \/ OtherError(1)
    PROVE  TableInv'
<1>1. job[1] # NULL /\ lost' = lost \cup {job[1].session}
  BY DEF ConnectionLost, OtherError
<1>2. PICK m \in Nat : Execute(1, m)
  <2>1. job[1].type \in CdrEvent_t
    BY <1>1, OneIsWriter DEF TypeOK, Job
  <2> DEFINE len == Len(Statements[job[1].type])
  <2>2. len \in {1, 2}
    BY <2>1, StatementFacts
  <2>3. \E m \in 0..(len - 1) : Execute(1, m)
    BY DEF ConnectionLost, OtherError
  <2> HIDE DEF len
  <2>4. \A m \in 0..(len - 1) : m \in Nat
    BY <2>2
  <2> QED BY <2>3, <2>4
<1>3. /\ job'[1] = NULL
      /\ UNCHANGED <<posted, m_cdrWriter, m_io_service>>
      /\ \E row, rows :
           /\ cdr_session' = [cdr_session EXCEPT ![job[1].session] = row]
           /\ termination_attempt' = [termination_attempt EXCEPT ![job[1].session] = rows]
  BY <1>2, OneIsWriter DEF Execute, TypeOK, controller
<1> SUFFICES ASSUME NEW c \in Session \ lost'
             PROVE  \E n \in 0..Len(posted'[c]) : \E place \in Places(c, n)' :
                      Progress(c, n, place)'
  BY <1>3 DEF TableInv, Places
<1>4. c \in Session \ lost /\ job[1].session # c
  BY <1>1
<1>5. PICK n \in 0..Len(posted[c]) : \E place \in Places(c, n) : Progress(c, n, place)
  BY <1>4 DEF TableInv, Places
<1>6. PICK place \in Places(c, n) : Progress(c, n, place)
  BY <1>5
<1>7. InOrder(c, n, place) /\ Told(c, n)
  BY <1>6 DEF Progress
<1>8. m_io_service'[1] = m_io_service[1] /\ posted'[c] = posted[c]
  BY <1>3
<1>9. place \in Places(c, n)' /\ InOrder(c, n, place)'
  BY <1>1, <1>3, <1>4, <1>7, <1>8, OrderAfterOthersJob
<1>10. cdr_session'[c] = cdr_session[c] /\ termination_attempt'[c] = termination_attempt[c]
  BY <1>3, <1>4 DEF TypeOK
<1>11. Told(c, n)'
  <2>1. \A event : Has(c, event) => Has(c, event)'
    BY <1>8 DEF Has
  <2>2. Len(posted[c]) \in Nat
    BY <1>4 DEF TypeOK
  <2> QED BY <1>4, <1>7, <1>8, <1>10, <2>1, <2>2, ToldKept
<1>12. Progress(c, n, place)'
  BY <1>3, <1>9, <1>11 DEF Progress
<1>13. n \in 0..Len(posted'[c])
  BY <1>8
<1> QED BY <1>9, <1>12, <1>13

\* Every step preserves the order of the events and of their CDRs, and what the tables tell.
LEMMA NextTables == TypeOK /\ StoryInv /\ TableInv /\ [Next]_vars => StoryInv' /\ TableInv'
<1> SUFFICES ASSUME TypeOK, StoryInv, TableInv, [Next]_vars PROVE StoryInv' /\ TableInv'
  OBVIOUS
<1>1. CASE ControllerStep
  BY <1>1, ControllerTables
<1>2. ASSUME NEW w \in 1..m_cdrWriter,
             \/ NoConnection(w) \/ Dispatch(w) \/ Write(w) \/ ConnectionLost(w)
             \/ OtherError(w) \/ timer_handler(w) \/ Lose(w)
      PROVE  StoryInv' /\ TableInv'
  <2>1. UNCHANGED <<posted, m_cdrType, m_cdrWriter>>
    BY <1>2 DEF NoConnection, Dispatch, Write, ConnectionLost, OtherError, timer_handler, Lose,
                Execute, controller
  <2>2. StoryInv'
    BY <2>1 DEF StoryInv, Story, Has
  <2>3. CASE m_cdrWriter # 1
    BY <2>1, <2>2, <2>3 DEF TableInv
  <2>4. CASE m_cdrWriter = 1
    <3>1. w = 1
      BY <2>4
    <3>2. CASE NoConnection(w) \/ Dispatch(w)
      BY <2>2, <2>4, <3>1, <3>2, TakeTables
    <3>3. CASE Write(w)
      BY <2>2, <2>4, <3>1, <3>3, WriteTables
    <3>4. CASE ConnectionLost(w) \/ OtherError(w)
      BY <2>2, <2>4, <3>1, <3>4, LostTables
    <3>5. CASE timer_handler(w) \/ Lose(w)
      <4>1. UNCHANGED <<posted, m_cdrType, m_cdrWriter, m_io_service, job, cdr_session,
                        termination_attempt, lost>>
        BY <3>5 DEF timer_handler, Lose, controller, tables
      <4> QED BY <4>1, QuietTables
    <3> QED BY <1>2, <3>2, <3>3, <3>4, <3>5
  <2> QED BY <2>3, <2>4
<1>3. CASE UNCHANGED vars
  <2>1. UNCHANGED <<posted, m_cdrType, m_cdrWriter, m_io_service, job, cdr_session,
                    termination_attempt, lost>>
    BY <1>3 DEF vars, controller, tables, history
  <2> QED BY <2>1, QuietTables
<1> QED BY <1>1, <1>2, <1>3 DEF Next, ControllerStep

\* The CDRs of a session wait in the order of its events, and the tables tell those that
\* have been written, in every reachable state.
THEOREM TablesInvariance == Spec => [](StoryInv /\ TableInv)
<1>1. LossesInv => TypeOK
  BY DEF LossesInv
<1> QED BY <1>1, InitTables, NextTables, LossesInvariance, PTL DEF Spec

\* Of a session that has a row and lost no CDR the tables tell what happened: attempts,
\* answer and end, for any number of sessions and attempts and whatever happens to the
\* connections, although the worker reads the shared object while the controller changes
\* it (writeCdr, populateCancelCdr, populateByeCdr).
THEOREM TablesTell == Spec => []TablesTellEvents
<1>1. LossesInv /\ StoryInv /\ TableInv => TablesTellEvents
  <2> SUFFICES ASSUME LossesInv, StoryInv, TableInv, NEW c \in Session \ lost,
                      m_cdrWriter = 1, Drained(c), cdr_session[c] # NULL
               PROVE  LET row == cdr_session[c]
                          answeredBefore == {i \in Attempts(c) :
                                               /\ posted[c][i] = "attempt 200"
                                               /\ \E j \in i..Len(posted[c]) :
                                                    posted[c][j] = "cleared"}
                      IN /\ row.connect_time <=> Has(c, "answered")
                         /\ row.end_time <=> Over(c) /\ ~Has(c, "rejected")
                         /\ row.status = CASE Has(c, "rejected") -> "rejected"
                                           [] Has(c, "answered") -> "200"
                                           [] Has(c, "failed") -> "failed"
                                           [] Has(c, "cancelled") -> "487"
                                           [] OTHER -> NULL
                         /\ row.carrier <=> Attempts(c) # {}
                         /\ termination_attempt[c] =
                              [failed |-> Count(c, "attempt failed"),
                               connected |-> Count(c, "attempt 200") - Cardinality(answeredBefore),
                               ended |-> Cardinality(answeredBefore)]
    BY DEF TablesTellEvents
  <2>1. TypeOK /\ Len(posted[c]) \in Nat
    <3>1. TypeOK
      BY Zenon DEF LossesInv
    <3>2. posted \in [Session -> Seq(Events)] /\ c \in Session
      BY <3>1, Zenon DEF TypeOK
    <3>3. posted[c] \in Seq(Events)
      BY <3>2, Zenon
    <3> QED BY <3>1, <3>3
  <2>2. PICK n \in 0..Len(posted[c]) : \E place \in Places(c, n) : Progress(c, n, place)
    BY DEF TableInv, Places
  <2>3. PICK place \in Places(c, n) : Progress(c, n, place)
    BY <2>2
  <2>4. n = Len(posted[c])
    <3>1. \A i : ~Stands(c, i)
      BY OneIsWriter DEF Drained, Stands
    <3>2. n + 1 \notin (n + 1)..Len(posted[c])
      BY <2>3, <3>1 DEF Progress, InOrder
    <3> QED BY <2>1, <3>2
  <2>5. RowTells(c, n) /\ AttemptsTell(c, n)
    BY <2>3 DEF Progress, Told
  <2>6. \A event : HasBy(c, event, n) <=> Has(c, event)
    BY <2>4 DEF HasBy, Has
  <2>7. Has(c, "rejected") =>
          ~\E event \in {"failed", "cancelled", "cleared"} : Has(c, event)
    <3> SUFFICES ASSUME NEW i \in 1..Len(posted[c]), posted[c][i] = "rejected",
                        NEW k \in 1..Len(posted[c]),
                        posted[c][k] \in {"failed", "cancelled", "cleared"}
                 PROVE  FALSE
      BY DEF Has
    <3>1. Story(c)
      BY DEF StoryInv
    <3>2. i = 1 /\ k # 1
      BY <3>1 DEF Story
    <3>3. i < k
      BY <3>2
    <3> QED BY <3>1, <3>3 DEF Story
  <2>8. Attempts(c) # {} <=> \E event \in Tried : Has(c, event)
    BY DEF Attempts, Has, Tried
  <2>9. {i \in Attempts(c) : /\ posted[c][i] = "attempt 200"
                             /\ \E j \in i..Len(posted[c]) : posted[c][j] = "cleared"}
        = EndedBy(c, n)
    BY <2>4 DEF Attempts, EndedBy
  <2>10. /\ Count(c, "attempt failed") = CountBy(c, "attempt failed", n)
         /\ Count(c, "attempt 200") = CountBy(c, "attempt 200", n)
    BY <2>4 DEF Count, CountBy
  <2>11. PICK row \in Row : row = cdr_session[c]
    BY <2>1 DEF TypeOK
  <2>12. row.end_time <=> Over(c) /\ ~Has(c, "rejected")
    BY <2>5, <2>6, <2>7, <2>11 DEF RowTells, Over
  <2>13. /\ row.connect_time <=> Has(c, "answered")
         /\ row.status = CASE Has(c, "rejected") -> "rejected"
                           [] Has(c, "answered") -> "200"
                           [] Has(c, "failed") -> "failed"
                           [] Has(c, "cancelled") -> "487"
                           [] OTHER -> NULL
         /\ row.carrier <=> Attempts(c) # {}
    BY <2>5, <2>6, <2>8, <2>11 DEF RowTells
  <2>14. termination_attempt[c] =
           [failed |-> Count(c, "attempt failed"),
            connected |-> Count(c, "attempt 200") - Cardinality(EndedBy(c, n)),
            ended |-> Cardinality(EndedBy(c, n))]
    BY <2>5, <2>10 DEF AttemptsTell
  <2> QED BY <2>9, <2>11, <2>12, <2>13, <2>14
<1> QED BY <1>1, LossesInvariance, TablesInvariance, PTL

-----------------------------------------------------------------------------
(* The events of SessionEvents *)

\* The events of a session but for its attempts, which are accounted to the terminations.
SessionEventsOf == [c \in Session |-> {event \in Events \ Tried : Has(c, event)}]

Accounting == INSTANCE SessionEvents WITH Call <- Session, events <- SessionEventsOf,
                                          stopped <- (process = "exited")

\* What the guards of Request, FinalResponse, Cancel and Bye ask for is what SessionEvents
\* asks for.
GuardsAgree ==
    \A c \in Session :
        /\ posted[c] = <<>> <=> SessionEventsOf[c] = {}
        /\ Ringing(c) <=> Accounting!Ringing(c)
        /\ Has(c, "request") /\ ~Over(c) <=> Accounting!Open(c)

LEMMA EventsValue ==
    /\ \A c \in Session, e \in Events \ Tried : e \in SessionEventsOf[c] <=> Has(c, e)
    /\ \A c \in Session, e \in Events \ Tried : e \in SessionEventsOf'[c] <=> Has(c, e)'
    /\ \A c \in Session : SessionEventsOf[c] \subseteq Events \ Tried
    /\ \A c \in Session : SessionEventsOf'[c] \subseteq Events \ Tried
BY DEF SessionEventsOf

LEMMA NotTried ==
    {"request", "rejected", "answered", "failed", "cancelled", "cleared"} = Events \ Tried
BY DEF Events, Copies, Tried

LEMMA StoryGuards == TypeOK /\ StoryInv => GuardsAgree
<1> SUFFICES ASSUME TypeOK, StoryInv, NEW c \in Session
             PROVE  /\ posted[c] = <<>> <=> SessionEventsOf[c] = {}
                    /\ Ringing(c) <=> Accounting!Ringing(c)
                    /\ Has(c, "request") /\ ~Over(c) <=> Accounting!Open(c)
  BY DEF GuardsAgree
<1>1. Story(c) /\ posted[c] \in Seq(Events)
  BY DEF StoryInv, TypeOK
<1>2. posted[c] # <<>> => Has(c, "request") \/ Has(c, "rejected")
  <2> SUFFICES ASSUME posted[c] # <<>> PROVE Has(c, "request") \/ Has(c, "rejected")
    OBVIOUS
  <2>1. 1 \in 1..Len(posted[c])
    BY <1>1
  <2> QED BY <1>1, <2>1 DEF Story, Has
<1>3. posted[c] = <<>> => \A e : ~Has(c, e)
  BY DEF Has
<1>4. Has(c, "request") => ~Has(c, "rejected")
  BY <1>1 DEF Story, Has
<1>5. \A e \in {"request", "rejected", "answered", "failed", "cancelled", "cleared"} :
        e \in SessionEventsOf[c] <=> Has(c, e)
  BY EventsValue, NotTried
<1>6. posted[c] = <<>> <=> SessionEventsOf[c] = {}
  BY <1>2, <1>3, <1>5, EventsValue
<1>7. Has(c, "request") /\ ~Over(c) <=> Accounting!Open(c)
  BY <1>4, <1>5 DEF Accounting!Open, Over
<1>8. Ringing(c) <=> Accounting!Ringing(c)
  BY <1>5, <1>7 DEF Ringing, Accounting!Ringing
<1> QED BY <1>6, <1>7, <1>8

\* The events of all sessions stay, or those of one change.
LEMMA EventsSame ==
    ASSUME \A c \in Session : SessionEventsOf'[c] = SessionEventsOf[c]
    PROVE  SessionEventsOf' = SessionEventsOf
<1>1. /\ SessionEventsOf' = [c \in Session |-> SessionEventsOf'[c]]
      /\ SessionEventsOf = [c \in Session |-> SessionEventsOf[c]]
  BY DEF SessionEventsOf
<1> QED BY <1>1, Zenon

\* What the controller posts for a session is a step of SessionEvents, or an attempt.
LEMMA PostedEvent ==
    ASSUME TypeOK, GuardsAgree, NEW c \in Session,
           Request(c) \/ FinalResponse(c) \/ Cancel(c) \/ Bye(c) \/ Attempt(c)
    PROVE  [Accounting!Next]_(Accounting!vars)
<1>1. PICK event \in Events : Post(c, event, Shown(event)) /\ MayFollow(c, event)
  BY StoryStep
<1>2. Shown(event) \in Copies \cup {"shared"}
  BY DEF Shown
<1>3. /\ \A e : Has(c, e)' <=> Has(c, e) \/ e = event
      /\ \A d \in Session \ {c} : posted'[d] = posted[d]
  BY <1>1, <1>2, PostedNext
<1>4. \A d \in Session \ {c} : SessionEventsOf'[d] = SessionEventsOf[d]
  BY <1>3 DEF SessionEventsOf, Has
<1>5. (process' = "exited") = FALSE /\ (process = "exited") = FALSE
  BY <1>1 DEF Post
<1>6. CASE event \in Tried
  <2>1. SessionEventsOf'[c] = SessionEventsOf[c]
    BY <1>3, <1>6, EventsValue
  <2>2. SessionEventsOf' = SessionEventsOf
    BY <1>4, <2>1, EventsSame
  <2> QED BY <1>5, <2>2 DEF Accounting!vars
<1>7. CASE event \notin Tried
  <2>1. SessionEventsOf'[c] = SessionEventsOf[c] \cup {event}
    BY <1>3, <1>7, EventsValue
  <2>2. /\ SessionEventsOf' = [x \in Session |-> SessionEventsOf'[x]]
        /\ SessionEventsOf = [x \in Session |-> SessionEventsOf[x]]
    BY DEF SessionEventsOf
  <2>3. SessionEventsOf' = [SessionEventsOf EXCEPT ![c] = @ \cup {event}]
    BY <1>4, <2>1, <2>2
  <2>4. Accounting!Post(c, event)
    BY <1>5, <2>3 DEF Accounting!Post
  <2>5. event \in {"request", "rejected", "answered", "failed", "cancelled", "cleared"}
    BY <1>7, NotTried
  <2>6. /\ event \in {"request", "rejected"} => SessionEventsOf[c] = {}
        /\ event \notin {"request", "rejected"} => Accounting!Open(c)
        /\ event \in {"answered", "failed", "cancelled"} => Accounting!Ringing(c)
    BY <1>1, <1>7, <2>5 DEF MayFollow, GuardsAgree, Ringing
  <2>7. Accounting!Offer(c) \/ Accounting!FinalResponse(c) \/ Accounting!Cancel(c)
        \/ Accounting!Clear(c)
    BY <2>4, <2>5, <2>6 DEF Accounting!Offer, Accounting!FinalResponse, Accounting!Cancel,
                            Accounting!Clear
  <2> QED BY <1>5, <2>7 DEF Accounting!Next
<1> QED BY <1>6, <1>7

LEMMA EventStep ==
    TypeOK /\ GuardsAgree /\ [Next]_vars => [Accounting!Next]_(Accounting!vars)
<1> SUFFICES ASSUME TypeOK, GuardsAgree, [Next]_vars
             PROVE  [Accounting!Next]_(Accounting!vars)
  OBVIOUS
<1>1. CASE \E c \in Session : Request(c) \/ FinalResponse(c) \/ Cancel(c) \/ Bye(c) \/ Attempt(c)
  BY <1>1, PostedEvent
<1>2. posted' = posted => SessionEventsOf' = SessionEventsOf
  BY DEF SessionEventsOf, Has
<1>3. CASE ShutDown
  <2>1. (process = "exited") = FALSE /\ (process' = "exited") = TRUE /\ posted' = posted
    BY <1>3 DEF ShutDown
  <2>2. \A c \in Session : ~Accounting!Open(c)
    BY <1>3 DEF ShutDown, GuardsAgree
  <2>3. Accounting!Stop
    BY <1>2, <2>1, <2>2 DEF Accounting!Stop
  <2> QED BY <2>1, <2>3 DEF Accounting!Next
<1>4. CASE posted' = posted /\ process' = process
  BY <1>2, <1>4 DEF Accounting!vars
<1>5. ASSUME NEW w \in 1..m_cdrWriter,
             \/ NoConnection(w) \/ Dispatch(w) \/ Write(w) \/ ConnectionLost(w)
             \/ OtherError(w) \/ timer_handler(w) \/ Lose(w)
      PROVE  posted' = posted /\ process' = process
  BY <1>5 DEF NoConnection, Dispatch, Write, ConnectionLost, OtherError, timer_handler, Lose,
              Execute, controller
<1>6. Reload \/ UNCHANGED vars => posted' = posted /\ process' = process
  BY DEF Reload, vars, controller
<1> QED BY <1>1, <1>3, <1>4, <1>5, <1>6 DEF Next

\* The writer's view of the accounting: what is posted to it (postCdr) is, but for the
\* attempts, a behaviour of SessionEvents, the specification that StatefulController is
\* proved to implement.
THEOREM TakesSessionEvents == Spec => Accounting!Spec
<1>1. Init => Accounting!Init
  <2> SUFFICES ASSUME Init PROVE Accounting!Init
    OBVIOUS
  <2>1. \A c \in Session : \A e : ~Has(c, e)
    BY DEF Init, Has
  <2>2. SessionEventsOf = [c \in Session |-> {}]
    BY <2>1 DEF SessionEventsOf
  <2>3. (process = "exited") = FALSE
    BY DEF Init
  <2> QED BY <2>2, <2>3 DEF Accounting!Init
<1>2. LossesInv /\ StoryInv => TypeOK /\ GuardsAgree
  BY StoryGuards DEF LossesInv
<1> QED BY <1>1, <1>2, EventStep, LossesInvariance, TablesInvariance, PTL
           DEF Spec, Accounting!Spec

\* And it is every such behaviour: whenever SessionEvents allows an event, the guard of the
\* action that posts it holds, so that what is proved of the tables covers every order in
\* which the controller may post.
THEOREM TakesEverySession == Spec => []GuardsAgree
<1>1. LossesInv /\ StoryInv => GuardsAgree
  BY StoryGuards DEF LossesInv
<1> QED BY <1>1, LossesInvariance, TablesInvariance, PTL

=============================================================================
