------------------------------ MODULE CdrWriter ------------------------------
(***************************************************************************)
(* The call detail records (cdr-writer.cpp): the controller posts CdrInfo  *)
(* objects to a queue, and one worker thread per CdrWriter writes them to  *)
(* the tables cdr_session and termination_attempt.  The object of an       *)
(* origination is shared: the controller changes its type when the call is *)
(* cancelled or cleared and posts it again, maybe before the worker has    *)
(* come to it the first time.  A new configuration brings a new CdrWriter, *)
(* the old one writes on.                                                  *)
(*                                                                         *)
(* The database is external.  A connection may be lost at any time; the    *)
(* statements prepared on a connection that was lost or closed fail with   *)
(* error 2013.                                                             *)
(***************************************************************************)
EXTENDS Integers, Sequences, FiniteSets

CONSTANTS
    Session,         \* bound: originations
    MaxAttempts,     \* bound: termination attempts of a session
    ReloadAttempts,  \* bound: the same, for a session that sees a reload
    MaxWriters,      \* bound: 1 + the number of reloads
    Faults,          \* what the database does wrong
    NULL

FaultKinds == {"lost", "refused", "error"}
ASSUME FaultAssumption == Faults \subseteq FaultKinds
ASSUME BoundAssumption ==
    /\ MaxAttempts \in Nat /\ ReloadAttempts \in 0..MaxAttempts
    /\ MaxWriters \in Nat \ {0}

Writer == 1..MaxWriters

\* CdrEvent_t, and the prepared statements each is written with.
Statements ==
    [origination_request        |-> <<"m_stmtOrig">>,
     origination_final_response |-> <<"m_stmtFinal">>,
     origination_cancel         |-> <<"m_stmtCancel">>,
     termination_attempt        |-> <<"m_stmtTerm1", "m_stmtTerm2">>,
     call_cleared               |-> <<"m_stmtBye1", "m_stmtBye2">>]
CdrEvent_t == DOMAIN Statements
StatementsOf(type) == {Statements[type][i] : i \in 1..Len(Statements[type])}
AllStatements == UNION {StatementsOf(type) : type \in CdrEvent_t}

\* What the controller posts: the shared object of the origination, or a copy.
Copies == {"answered", "failed", "attempt 200", "attempt failed"}
Cdr == [session: Session, cdr: Copies \cup {"shared"}]
Job == [session: Session, cdr: Copies \cup {"shared"}, type: CdrEvent_t]
Events == Copies \cup {"request", "rejected", "cancelled", "cleared"}

Row == [status: {NULL, "rejected", "200", "487", "failed"},
        connect_time: BOOLEAN, end_time: BOOLEAN, carrier: BOOLEAN]

ASSUME NullAssumption == NULL \notin Row /\ NULL \notin Job

VARIABLES
    process,
    posted,          \* the events of each session, in the order they were posted
    m_cdrType,       \* of the shared object
    m_cdrWriter,     \* the writer the controller posts to
    m_io_service,    \* each writer's queue
    job,             \* the CDR a worker has dispatched and not yet written
    connection,      \* the one connection, in m_vecConnection or in use
    prepared, stale, \* statements prepared on that connection, and on an earlier one
    cdr_session,     \* the tables
    termination_attempt,
    streak,          \* history: the CDRs lost in a row to error 2013
    lost             \* history: the sessions that lost a CDR, or a part of one

controller == <<process, posted, m_cdrType, m_cdrWriter>>
statements == <<prepared, stale>>
tables == <<cdr_session, termination_attempt>>
history == <<streak, lost>>
vars == <<controller, m_io_service, job, connection, statements, tables, history>>

\* What the variables hold.
TypeOK ==
    /\ process \in {"running", "exited"}
    /\ posted \in [Session -> Seq(Events)]
    /\ m_cdrType \in [Session -> {"origination_request", "origination_cancel", "call_cleared"}]
    /\ m_cdrWriter \in Writer
    /\ m_io_service \in [Writer -> Seq(Cdr)]
    /\ job \in [Writer -> Job \cup {NULL}]
    /\ connection \in [Writer -> {"none", "live", "lost"}]
    /\ prepared \in [Writer -> SUBSET AllStatements]
    /\ stale \in [Writer -> SUBSET AllStatements]
    /\ \A w \in Writer : /\ prepared[w] \cap stale[w] = {}
                         /\ connection[w] = "none" => prepared[w] = {}
    /\ cdr_session \in [Session -> Row \cup {NULL}]
    /\ termination_attempt \in [Session -> [failed: Nat, connected: Nat, ended: Nat]]
    /\ streak \in [Writer -> Seq(CdrEvent_t)]
    /\ lost \subseteq Session

Init ==
    /\ process = "running"
    /\ posted = [c \in Session |-> <<>>]
    /\ m_cdrType = [c \in Session |-> "origination_request"]
    /\ m_cdrWriter = 1
    /\ m_io_service = [w \in Writer |-> <<>>]
    /\ job = [w \in Writer |-> NULL]
    /\ connection = [w \in Writer |-> "none"]
    /\ prepared = [w \in Writer |-> {}] /\ stale = [w \in Writer |-> {}]
    /\ cdr_session = [c \in Session |-> NULL]
    /\ termination_attempt = [c \in Session |-> [failed |-> 0, connected |-> 0, ended |-> 0]]
    /\ streak = [w \in Writer |-> <<>>]
    /\ lost = {}

-----------------------------------------------------------------------------
(* The controller *)

Has(c, event) == \E i \in 1..Len(posted[c]) : posted[c][i] = event
Over(c) == \E event \in {"rejected", "failed", "cancelled", "cleared"} : Has(c, event)
Ringing(c) == Has(c, "request") /\ ~Has(c, "answered") /\ ~Over(c)
Attempts(c) == {i \in 1..Len(posted[c]) : posted[c][i] \in {"attempt 200", "attempt failed"}}

\* Mutant of postCdr: the queue is a stack.
postCdrFront(c, cdr) ==
    m_io_service' = [m_io_service EXCEPT ![m_cdrWriter] =
        <<[session |-> c, cdr |-> cdr]>> \o @]

postCdr(c, cdr) ==
    m_io_service' = [m_io_service EXCEPT ![m_cdrWriter] =
        Append(@, [session |-> c, cdr |-> cdr])]

Post(c, event, cdr) ==
    /\ process = "running"
    /\ postCdr(c, cdr)
    /\ posted' = [posted EXCEPT ![c] = Append(@, event)]
    /\ UNCHANGED <<process, m_cdrWriter, job, connection, statements, tables, history>>

\* A call is taken on, or refused.
Request(c) ==
    /\ posted[c] = <<>>
    /\ \E event \in {"request", "rejected"} : Post(c, event, "shared")
    /\ UNCHANGED m_cdrType

\* The final response to the INVITE: a copy is posted.
FinalResponse(c) ==
    /\ Ringing(c)
    /\ \E event \in {"answered", "failed"} : Post(c, event, event)
    /\ UNCHANGED m_cdrType

\* Mutant of Cancel: the type is not set.
CancelKeepsType(c) ==
    /\ Ringing(c)
    /\ Post(c, "cancelled", "shared")
    /\ UNCHANGED m_cdrType

\* populateCancelCdr changes the shared object.
Cancel(c) ==
    /\ Ringing(c)
    /\ m_cdrType' = [m_cdrType EXCEPT ![c] = "origination_cancel"]
    /\ Post(c, "cancelled", "shared")

\* populateByeCdr changes the shared object.
Bye(c) ==
    /\ Has(c, "request") /\ ~Over(c)
    /\ m_cdrType' = [m_cdrType EXCEPT ![c] = "call_cleared"]
    /\ Post(c, "cleared", "shared")

\* An attempt to terminate the session ends: a copy is posted.
Attempt(c) ==
    /\ Has(c, "request")
    /\ Cardinality(Attempts(c)) < IF m_cdrWriter = 1 THEN MaxAttempts ELSE ReloadAttempts
    /\ \E event \in {"attempt 200", "attempt failed"} : Post(c, event, event)
    /\ UNCHANGED m_cdrType

\* installConfig: the old writer is kept alive by its timer.
Reload ==
    /\ process = "running"
    /\ m_cdrWriter < MaxWriters
    /\ \A c \in Session : Cardinality(Attempts(c)) <= ReloadAttempts
    /\ m_cdrWriter' = m_cdrWriter + 1
    /\ UNCHANGED <<process, posted, m_cdrType, m_io_service, job, connection, statements,
                   tables, history>>

\* processWatchdogTimer stops when no call is left; its m_cdrWriter.reset() does not end
\* the writer, whose timer holds it too, and the process exits.
ShutDown ==
    /\ process = "running"
    /\ \A c \in Session : Has(c, "request") => Over(c)
    /\ process' = "exited"
    /\ UNCHANGED <<posted, m_cdrType, m_cdrWriter, m_io_service, job, connection, statements,
                   tables, history>>

-----------------------------------------------------------------------------
(* The worker of writer w *)

\* writeCdr: without a connection the CDR is dropped.
NoConnection(w) ==
    /\ process = "running"
    /\ job[w] = NULL /\ m_io_service[w] # <<>>
    /\ connection[w] = "none" /\ "refused" \in Faults
    /\ m_io_service' = [m_io_service EXCEPT ![w] = Tail(@)]
    /\ lost' = lost \cup {Head(m_io_service[w]).session}
    /\ UNCHANGED <<controller, job, connection, statements, tables, streak>>

\* The type the object has now.
getCdrType(cdr) ==
    CASE cdr.cdr = "shared" -> m_cdrType[cdr.session]
      [] cdr.cdr \in {"answered", "failed"} -> "origination_final_response"
      [] cdr.cdr \in {"attempt 200", "attempt failed"} -> "termination_attempt"

\* writeCdr, up to the switch.
Dispatch(w) ==
    /\ process = "running"
    /\ job[w] = NULL /\ m_io_service[w] # <<>>
    /\ LET cdr == Head(m_io_service[w])
       IN job' = [job EXCEPT ![w] = [session |-> cdr.session, cdr |-> cdr.cdr,
                                     type |-> getCdrType(cdr)]]
    /\ m_io_service' = [m_io_service EXCEPT ![w] = Tail(@)]
    /\ connection' = [connection EXCEPT ![w] = IF @ = "none" THEN "live" ELSE @]
    /\ UNCHANGED <<controller, statements, tables, history>>

\* Whether statement s can be executed.
Works(w, s) == connection[w] = "live" /\ s \notin stale[w]

\* The unique index on session_uuid, and the foreign key of termination_attempt.
Admitted(j) ==
    /\ j.type = "origination_request" => cdr_session[j.session] = NULL
    /\ j.type = "termination_attempt" => cdr_session[j.session] # NULL

\* The row of cdr_session after the first n statements of job j; an UPDATE of a row
\* that is not there does nothing.
RowAfter(j, n) ==
    LET row == cdr_session[j.session]
    IN CASE n = 0 -> row
         [] n > 0 /\ j.type = "origination_request" ->
              [status |-> IF Has(j.session, "rejected") THEN "rejected" ELSE NULL,
               connect_time |-> FALSE,
               end_time |-> m_cdrType[j.session] # "origination_request",
               carrier |-> FALSE]
         [] n > 0 /\ j.type # "origination_request" /\ row = NULL -> NULL
         [] n > 0 /\ j.type = "origination_final_response" /\ row # NULL ->
              [row EXCEPT !.status = IF j.cdr = "answered" THEN "200" ELSE "failed",
                          !.connect_time = (j.cdr = "answered"),
                          !.end_time = (j.cdr # "answered")]
         [] n > 0 /\ j.type = "origination_cancel" /\ row # NULL ->
              [row EXCEPT !.status = "487", !.end_time = TRUE]
         [] n > 0 /\ j.type = "call_cleared" /\ row # NULL -> [row EXCEPT !.end_time = TRUE]
         [] n > 0 /\ j.type = "termination_attempt" /\ row # NULL ->
              [row EXCEPT !.carrier = @ \/ n = 2]

\* The rows of termination_attempt.
AttemptsAfter(j, n) ==
    LET rows == termination_attempt[j.session]
    IN CASE j.type = "termination_attempt" /\ n > 0 ->
              IF j.cdr = "attempt 200" THEN [rows EXCEPT !.connected = @ + 1]
                                       ELSE [rows EXCEPT !.failed = @ + 1]
         [] j.type = "call_cleared" /\ n = 2 ->
              [rows EXCEPT !.ended = @ + rows.connected, !.connected = 0]
         [] OTHER -> rows

\* The first n statements of the job of w have been executed.
Execute(w, n) ==
    LET j == job[w]
    IN /\ process = "running"
       /\ j # NULL
       /\ n \in 0..Len(Statements[j.type])
       /\ \A i \in 1..n : Works(w, Statements[j.type][i])
       /\ n > 0 => Admitted(j)
       /\ cdr_session' = [cdr_session EXCEPT ![j.session] = RowAfter(j, n)]
       /\ termination_attempt' = [termination_attempt EXCEPT ![j.session] = AttemptsAfter(j, n)]
       /\ job' = [job EXCEPT ![w] = NULL]
       /\ UNCHANGED <<controller, m_io_service>>

\* The write*Cdr functions; the connection is released.
Write(w) ==
    /\ job[w] # NULL
    /\ Execute(w, Len(Statements[job[w].type]))
    /\ prepared' = [prepared EXCEPT ![w] = @ \cup StatementsOf(job[w].type)]
    /\ streak' = [streak EXCEPT ![w] = <<>>]
    /\ UNCHANGED <<connection, stale, lost>>

\* Mutant of Reset: the statements are not reset.
ResetNothing(w, type) ==
    /\ stale' = [stale EXCEPT ![w] = @ \cup prepared[w]]
    /\ prepared' = [prepared EXCEPT ![w] = {}]

\* Error 2013 or 2006: the statements of this type of CDR are reset, the connection is
\* given up, and the other statements prepared on it with it.
Reset(w, type) ==
    /\ stale' = [stale EXCEPT ![w] = (@ \cup prepared[w]) \ StatementsOf(type)]
    /\ prepared' = [prepared EXCEPT ![w] = {}]

\* A statement fails with error 2013 or 2006; the CDR is lost.
ConnectionLost(w) ==
    /\ job[w] # NULL
    /\ LET type == job[w].type
       IN \E n \in 0..(Len(Statements[type]) - 1) :
            /\ Execute(w, n)
            /\ ~Works(w, Statements[type][n + 1]) \/ (n > 0 /\ "lost" \in Faults)
            /\ Reset(w, type)
            /\ streak' = [streak EXCEPT ![w] = IF n = 0 THEN Append(@, type) ELSE <<type>>]
    /\ connection' = [connection EXCEPT ![w] = "none"]
    /\ lost' = lost \cup {job[w].session}

\* A statement fails with another error, which is only logged; the CDR is lost.
OtherError(w) ==
    /\ job[w] # NULL
    /\ LET s == Statements[job[w].type]
       IN \E n \in 0..(Len(s) - 1) :
            /\ Execute(w, n)
            /\ Works(w, s[n + 1])
            /\ "error" \in Faults \/ ~Admitted(job[w])
            /\ prepared' = [prepared EXCEPT ![w] = @ \cup {s[i] : i \in 1..(n + 1)}]
    /\ streak' = [streak EXCEPT ![w] = <<>>]
    /\ lost' = lost \cup {job[w].session}
    /\ UNCHANGED <<connection, stale>>

\* The connection is tested every 180 seconds; one that fails is not released.
timer_handler(w) ==
    /\ process = "running"
    /\ job[w] = NULL
    /\ \/ /\ connection[w] = "none"
          /\ connection' = [connection EXCEPT ![w] = "live"]
          /\ UNCHANGED <<statements, streak>>
       \/ /\ connection[w] = "lost" \/ (connection[w] = "live" /\ "error" \in Faults)
          /\ connection' = [connection EXCEPT ![w] = "none"]
          /\ stale' = [stale EXCEPT ![w] = @ \cup prepared[w]]
          /\ prepared' = [prepared EXCEPT ![w] = {}]
          /\ streak' = [streak EXCEPT ![w] = IF connection[w] = "live" THEN <<>> ELSE @]
    /\ UNCHANGED <<controller, m_io_service, job, tables, lost>>

\* The database closes the connection.
Lose(w) ==
    /\ process = "running"
    /\ "lost" \in Faults /\ connection[w] = "live"
    /\ connection' = [connection EXCEPT ![w] = "lost"]
    /\ streak' = [streak EXCEPT ![w] = <<>>]
    /\ UNCHANGED <<controller, m_io_service, job, statements, tables, lost>>

Next ==
    \/ \E c \in Session : Request(c) \/ FinalResponse(c) \/ Cancel(c) \/ Bye(c) \/ Attempt(c)
    \/ Reload \/ ShutDown
    \/ \E w \in 1..m_cdrWriter :
         \/ NoConnection(w) \/ Dispatch(w) \/ Write(w) \/ ConnectionLost(w)
         \/ OtherError(w) \/ timer_handler(w) \/ Lose(w)

Spec == Init /\ [][Next]_vars

-----------------------------------------------------------------------------
\* No origination is inserted twice, although its one object is posted twice and read
\* and changed by two threads: when an INSERT is about to be made, there is no row.
InsertedOnce ==
    \A w \in Writer : job[w] # NULL /\ job[w].type = "origination_request" =>
        cdr_session[job[w].session] = NULL

\* A lost connection costs every type of CDR at most one record in a row: until a write
\* succeeds (or the connection is lost again), no type is lost twice.
OneLossPerType ==
    \A w \in Writer : \A i, j \in 1..Len(streak[w]) : streak[w][i] = streak[w][j] => i = j

\* All that was posted for c has been written (or lost).
Drained(c) ==
    \A w \in Writer :
        /\ job[w] # NULL => job[w].session # c
        /\ \A i \in 1..Len(m_io_service[w]) : m_io_service[w][i].session # c

Count(c, event) == Cardinality({i \in 1..Len(posted[c]) : posted[c][i] = event})

\* Of a session that has a row and lost no CDR the tables tell what happened: which
\* attempts there were, how it was answered and whether it is over, whatever the worker
\* had or had not written when the shared object was changed, and however many
\* connections it took.  (A second writer may overtake the first.)
TablesTellEvents ==
    \A c \in Session \ lost : m_cdrWriter = 1 /\ Drained(c) /\ cdr_session[c] # NULL =>
        LET row == cdr_session[c]
            answeredBefore == {i \in Attempts(c) : /\ posted[c][i] = "attempt 200"
                                                   /\ \E j \in i..Len(posted[c]) :
                                                        posted[c][j] = "cleared"}
        IN /\ row.connect_time <=> Has(c, "answered")
           /\ row.end_time <=> Over(c) /\ ~Has(c, "rejected")
           /\ row.status = CASE Has(c, "rejected") -> "rejected"
                             [] Has(c, "answered") -> "200"
                             [] Has(c, "failed") -> "failed"
                             [] Has(c, "cancelled") -> "487"
                             [] OTHER -> NULL
           /\ row.carrier <=> Attempts(c) # {}
           /\ termination_attempt[c] = [failed |-> Count(c, "attempt failed"),
                connected |-> Count(c, "attempt 200") - Cardinality(answeredBefore),
                ended |-> Cardinality(answeredBefore)]

\* special_programs.sql counts the rows of cdr_session as the calls received: every
\* origination gets its row.
EveryCallRecorded ==
    \A c \in Session : posted[c] # <<>> /\ Drained(c) => cdr_session[c] # NULL

=============================================================================
