--------------------------- MODULE FsInstanceProofs ---------------------------
(***************************************************************************)
(* What FsInstance promises whatever the server reports, whenever it goes  *)
(* down, however TCP cuts its messages and however many reloads there are. *)
(*                                                                         *)
(* Three inductive invariants: InstanceInv holds of every behaviour,       *)
(* SurviveInv of those in which a server never goes without its notice and *)
(* no reload is asked for, LiveInv of those in which no shutdown cuts a    *)
(* reload off.                                                             *)
(***************************************************************************)
EXTENDS FsInstance, TLAPS

\* One, if b.
One(b) == IF b THEN 1 ELSE 0

\* The states in which FsInstance has no connection.
Offline == {"starting", "resolving", "resolve_failed", "connecting", "connect_failed"}

\* The socket is closed exactly in those states, with nothing read and nothing to read;
\* the timer is not armed while a connection is being made; and the monitor's thread
\* can only end by a write to a server that is gone.
LinkState ==
    /\ link = "closed" <=> m_state \in Offline
    /\ link = "closed" => reads = 0 /\ wire = <<>>
    /\ m_state \in {"resolving", "connecting"} => ~timer
    /\ link = "open" => monitor = "running"

\* Of a read for the poll and the timer that starts the next poll there is at most one,
\* and beside it at most one read for each reload.
ReadsBound ==
    /\ nagios = "reloading" => reloads > 0
    /\ reads + One(timer) <= 1 + reloads - One(nagios = "reloading")

\* EveryReplyAwaited, for a message that is spoiled too.
ReplyBound == link = "open" => Len(wire) <= reads + One(nagios = "reloading")

InstanceInv == TypeOK /\ LinkState /\ ReadsBound /\ ReplyBound

IsNotice(msg) == msg.kind = "notice"

\* The server that is gone has sent its notice, and it has not been read.
NoticeSent == Lost => \E i \in 1..Len(wire) : IsNotice(wire[i])

\* While no reload is asked for: at most one message precedes the notice of a server
\* that is gone, so that at most one write can come before it is read; after that one
\* (link is "reset") only the notice is left, and the timer is not armed.
SurviveInv ==
    /\ monitor = "running"
    /\ link = "open" => \A i \in 1..Len(wire) : ~IsNotice(wire[i])
    /\ link = "fin" => Len(wire) <= reads + 1
    /\ link = "reset" => Len(wire) = 1 /\ ~timer

\* No reload is under way when the server goes down.
NoReloadCutOff == m_bReloadingXml \/ nagios = "reloading" => link = "open"

\* While no shutdown cuts a reload off: whatever state FsInstance is in, the handler is
\* under way that will leave it, or the log-in has failed.  A response that is taken for
\* the one to reloadxml sets no timer, so a second read must be under way then.
LiveInv ==
    /\ m_state \in {"starting", "connect_failed"} => timer
    /\ m_state # "querying_status" => ~m_bReloadingXml /\ nagios # "reloading"
    /\ link = "open" /\ m_state \in {"authenticating", "obtaining_sip_configuration"} =>
         reads > 0
    /\ link = "open" /\ m_state = "querying_status" =>
         reads >= One(m_bReloadingXml) + One(~timer)

-----------------------------------------------------------------------------
(* The operators *)

Commands == {"auth", "sofia", "reloadxml", "status"}

\* The server answers every command, and never with a notice.
LEMMA AnswersAreMessages ==
    ASSUME NEW command \in Commands, NEW a \in Answers(command)
    PROVE  a \in Message /\ ~IsNotice(a)
<1>1. "" \notin Faults
  BY InstanceAssumption DEF FaultKinds
<1>2. CASE command = "auth"
  <2>1. a \in {[kind |-> "ok"], [kind |-> "err"]}
    BY <1>2 DEF Answers, Reply
  <2> QED BY <2>1 DEF Message, IsNotice
<1>3. CASE command = "sofia"
  <2>1. a \in {[kind |-> "profile"], [kind |-> "noprofile"]}
    BY <1>3 DEF Answers, Reply
  <2> QED BY <2>1 DEF Message, IsNotice
<1>4. CASE command = "reloadxml"
  <2>1. a = [kind |-> "reloaded"]
    BY <1>1, <1>4 DEF Answers, Reply
  <2> QED BY <2>1 DEF Message, IsNotice
<1>5. CASE command = "status"
  <2>1. a \in [kind: {"status"}, cur: Sessions, max: Limits]
    BY <1>5 DEF Answers
  <2> QED BY <2>1 DEF Message, IsNotice
<1> QED BY <1>2, <1>3, <1>4, <1>5 DEF Commands

\* A write to a server that is there adds its answer at the end; one to a server that is
\* gone adds nothing.
LEMMA WriteEffect ==
    ASSUME NEW command \in Commands, NEW rest \in Seq(Message), Write(command, rest)
    PROVE  /\ wire' \in Seq(Message)
           /\ \/ /\ link = "open" /\ link' = "open"
                 /\ Len(wire') = Len(rest) + 1
                 /\ \A i \in 1..Len(rest) : wire'[i] = rest[i]
                 /\ ~IsNotice(wire'[Len(wire')])
              \/ Lost /\ link' = "reset" /\ wire' = rest
<1>1. CASE link = "open"
  <2>1. PICK a \in Answers(command) : wire' = Append(rest, a)
    BY <1>1 DEF Write, Lost
  <2>2. a \in Message /\ ~IsNotice(a)
    BY AnswersAreMessages
  <2>3. link' = "open"
    BY <1>1 DEF Write, Lost
  <2>4. /\ wire' \in Seq(Message) /\ Len(wire') = Len(rest) + 1
        /\ \A i \in 1..Len(rest) : wire'[i] = rest[i]
        /\ wire'[Len(rest) + 1] = a
    BY <2>1, <2>2
  <2> QED BY <1>1, <2>2, <2>3, <2>4
<1>2. CASE link # "open"
  BY <1>2 DEF Write
<1> QED BY <1>1, <1>2

\* The three steps of the log-in.
LEMMA LogInSteps ==
    ASSUME NEW msg, LogInStep(msg)[1] # "none"
    PROVE  \/ /\ m_state = "waiting_for_greeting"
              /\ LogInStep(msg) = <<"authenticating", "auth">>
           \/ /\ m_state = "authenticating"
              /\ LogInStep(msg) = <<"obtaining_sip_configuration", "sofia">>
           \/ /\ m_state = "obtaining_sip_configuration"
              /\ LogInStep(msg) = <<"querying_status", "status">>
BY DEF LogInStep

\* The three ways in which it fails.
LEMMA LogInFailures ==
    ASSUME NEW msg, LogInFailure(msg) # "none"
    PROVE  \/ /\ m_state = "waiting_for_greeting"
              /\ LogInFailure(msg) = "waiting_for_greeting"
           \/ /\ m_state = "authenticating"
              /\ LogInFailure(msg) = "authentication_failed"
           \/ /\ m_state = "obtaining_sip_configuration"
              /\ LogInFailure(msg) = "obtaining_sip_configuration_failed"
BY DEF LogInFailure

\* What reading the first message leaves.
LEMMA TailOfWire ==
    ASSUME wire \in Seq(Message), wire # <<>>
    PROVE  /\ Head(wire) \in Message /\ Head(wire) = wire[1]
           /\ Tail(wire) \in Seq(Message)
           /\ Len(wire) \in Nat /\ Len(wire) > 0 /\ Len(Tail(wire)) = Len(wire) - 1
           /\ \A i \in 1..(Len(wire) - 1) : Tail(wire)[i] = wire[i + 1]
OBVIOUS

-----------------------------------------------------------------------------
(* InstanceInv *)

\* At first nothing is connected, read or awaited.
LEMMA InitInstanceInv == Init => InstanceInv
<1> SUFFICES ASSUME Init PROVE InstanceInv
  OBVIOUS
<1>1. TypeOK
  <2>1. wire \in Seq(Message)
    BY DEF Init
  <2>2. 0 \in 0..UIntMax /\ 0 \in 0..(1 + MaxReloads) /\ 0 \in 0..MaxReloads
    BY InstanceAssumption
  <2> QED BY <2>1, <2>2 DEF Init, TypeOK, CONNECTION_STATE
<1>2. LinkState /\ ReadsBound /\ ReplyBound
  BY DEF Init, LinkState, ReadsBound, ReplyBound, Offline, One
<1> QED BY <1>1, <1>2 DEF InstanceInv

\* Resolving and connecting.
LEMMA ConnectInstanceInv ==
    ASSUME InstanceInv, resolve_handler \/ Connected \/ ConnectFails
    PROVE  InstanceInv'
<1> USE DEF InstanceInv
<1>1. CASE resolve_handler
  <2>1. /\ m_state = "resolving"
        /\ \/ m_state' = "connecting" /\ timer' = timer
           \/ m_state' = "resolve_failed" /\ timer' = TRUE
        /\ UNCHANGED <<m_bDisconnected, m_bReloadingXml, m_nCurrentSessions, m_nMaxSessions,
                       m_fsMsg, link, wire, reads, monitor, nagios, reloads>>
    BY <1>1 DEF resolve_handler, flags, counts, socket, threads
  <2>2. TypeOK'
    BY <2>1 DEF TypeOK, CONNECTION_STATE
  <2>3. LinkState' /\ ReplyBound'
    BY <2>1 DEF LinkState, ReplyBound, Offline
  <2>4. ReadsBound'
    BY <2>1 DEF ReadsBound, LinkState, Offline, One, TypeOK
  <2> QED BY <2>2, <2>3, <2>4
<1>2. CASE Connected
  <2>1. wire' \in Seq(Message) /\ Len(wire') = 1
    <3>1. PICK greeting \in {[kind |-> "auth"], [kind |-> "ok"]} : wire' = <<greeting>>
      BY <1>2 DEF Connected, Reply
    <3>2. greeting \in Message
      BY DEF Message
    <3> QED BY <3>1, <3>2
  <2> QED BY <1>2, <2>1, InstanceAssumption DEF Connected, TypeOK, LinkState, ReadsBound,
     ReplyBound, Offline, One, CONNECTION_STATE, flags, counts, threads
<1>3. CASE ConnectFails
  <2>1. /\ m_state = "connecting" /\ m_state' = "connect_failed" /\ timer' = TRUE
        /\ UNCHANGED <<m_bDisconnected, m_bReloadingXml, m_nCurrentSessions, m_nMaxSessions,
                       m_fsMsg, link, wire, reads, monitor, nagios, reloads>>
    BY <1>3 DEF ConnectFails, flags, counts, socket, threads
  <2>2. TypeOK'
    BY <2>1 DEF TypeOK, CONNECTION_STATE
  <2>3. LinkState' /\ ReplyBound'
    BY <2>1 DEF LinkState, ReplyBound, Offline
  <2>4. ReadsBound'
    BY <2>1 DEF ReadsBound, LinkState, Offline, One, TypeOK
  <2> QED BY <2>2, <2>3, <2>4
<1> QED BY <1>1, <1>2, <1>3

\* Data that only spoil m_fsMsg.
LEMMA ReadPartInstanceInv ==
    ASSUME InstanceInv, ReadPart
    PROVE  InstanceInv'
<1> USE DEF InstanceInv
<1>1. PICK n \in 1..Len(wire) : wire' = SubSeq(wire, n + 1, Len(wire))
  BY DEF ReadPart
<1>2. wire' \in Seq(Message) /\ Len(wire') <= Len(wire) /\ Len(wire) \in Nat
      /\ Len(wire') \in Nat
  BY <1>1 DEF TypeOK
<1>3. link # "closed"
  BY DEF LinkState, ReadPart, Reading, TypeOK
<1>4. UNCHANGED <<m_state, m_bDisconnected, m_bReloadingXml, m_nCurrentSessions,
                  m_nMaxSessions, timer, link, reads, monitor, nagios, reloads>>
      /\ m_fsMsg' = "spoiled"
  BY DEF ReadPart, flags, counts, threads
<1>5. TypeOK'
  BY <1>2, <1>4 DEF TypeOK
<1>6. LinkState' /\ ReadsBound'
  BY <1>3, <1>4 DEF LinkState, ReadsBound, One
<1>7. ReplyBound'
  BY <1>2, <1>4 DEF ReplyBound, One, TypeOK
<1> QED BY <1>5, <1>6, <1>7

\* The shutdown notice.
LEMMA ReadNoticeInstanceInv ==
    ASSUME InstanceInv, ReadNotice
    PROVE  InstanceInv'
BY InstanceAssumption DEF InstanceInv, ReadNotice, ReadWhole, Reading, TypeOK, LinkState,
   ReadsBound, ReplyBound, Offline, One, CONNECTION_STATE, counts, threads

\* A step of the log-in: the answer it sends for takes the place of the message read.
LEMMA LogInInstanceInv ==
    ASSUME InstanceInv, LogIn
    PROVE  InstanceInv'
<1> USE DEF InstanceInv
<1> DEFINE step == LogInStep(Head(wire))
<1>1. /\ monitor = "running" /\ reads > 0 /\ wire # <<>> /\ wire \in Seq(Message)
      /\ m_state' = step[1] /\ step[1] # "none"
      /\ UNCHANGED <<m_bDisconnected, m_bReloadingXml, m_nCurrentSessions, m_nMaxSessions,
                     m_fsMsg, timer>>
  BY DEF LogIn, ReadWhole, Reading, TypeOK, flags, counts
<1>2. /\ m_state \in CONNECTION_STATE \ Offline /\ m_state' \in CONNECTION_STATE \ Offline
      /\ step[2] \in Commands
  BY <1>1, LogInSteps DEF CONNECTION_STATE, Offline, Commands
<1>3. link # "closed"
  BY <1>2 DEF LinkState
<1>4. /\ Tail(wire) \in Seq(Message) /\ Len(Tail(wire)) = Len(wire) - 1
      /\ Len(wire) \in Nat
  BY <1>1, TailOfWire
<1>5. CASE Write(step[2], Tail(wire)) /\ UNCHANGED <<reads, threads>>
  <2>1. /\ wire' \in Seq(Message)
        /\ \/ link = "open" /\ link' = "open" /\ Len(wire') = Len(wire)
           \/ link' = "reset"
    <3> DEFINE rest == Tail(wire)
               command == step[2]
    <3>1. rest \in Seq(Message) /\ command \in Commands /\ Write(command, rest)
      BY <1>2, <1>4, <1>5
    <3>2. Len(rest) = Len(wire) - 1 /\ Len(wire) \in Nat
      BY <1>4
    <3> HIDE DEF rest, command
    <3>3. /\ wire' \in Seq(Message)
          /\ \/ link = "open" /\ link' = "open" /\ Len(wire') = Len(rest) + 1
             \/ link' = "reset"
      BY <3>1, WriteEffect
    <3> QED BY <3>2, <3>3
  <2>2. UNCHANGED <<reads, monitor, nagios, reloads>>
    BY <1>5 DEF threads
  <2>3. TypeOK'
    BY <1>1, <1>2, <2>1, <2>2 DEF TypeOK
  <2>4. LinkState'
    BY <1>1, <1>2, <2>1, <2>2 DEF LinkState, CONNECTION_STATE, Offline
  <2>5. ReadsBound' /\ ReplyBound'
    BY <1>1, <2>1, <2>2 DEF ReadsBound, ReplyBound, One
  <2> QED BY <2>3, <2>4, <2>5
<1>6. CASE WriteThrows(Tail(wire)) /\ EndThread /\ reads' = reads - 1
  <2>1. /\ wire' = Tail(wire) /\ link = "reset" /\ link' = "reset"
        /\ monitor' = "ended" /\ UNCHANGED <<nagios, reloads>>
    BY <1>6 DEF WriteThrows, EndThread
  <2>2. TypeOK'
    BY <1>1, <1>2, <1>4, <1>6, <2>1, InstanceAssumption DEF TypeOK
  <2>3. LinkState'
    BY <1>2, <2>1 DEF LinkState, CONNECTION_STATE, Offline
  <2>4. ReadsBound' /\ ReplyBound'
    BY <1>1, <1>6, <2>1 DEF ReadsBound, ReplyBound, One, TypeOK
  <2> QED BY <2>2, <2>3, <2>4
<1> QED BY <1>5, <1>6 DEF LogIn

\* A log-in that fails, a response while polling: a message and its read go, and at most
\* the timer comes.
LEMMA ReadOneInstanceInv ==
    ASSUME InstanceInv, LogInFails \/ ReadResponse
    PROVE  InstanceInv'
<1> USE DEF InstanceInv
<1>1. /\ reads > 0 /\ wire # <<>> /\ wire \in Seq(Message)
      /\ wire' = Tail(wire) /\ reads' = reads - 1
      /\ UNCHANGED <<m_fsMsg, link, monitor, nagios, reloads>>
      /\ timer' \in BOOLEAN
      /\ m_bReloadingXml' \in BOOLEAN /\ m_bDisconnected' \in BOOLEAN
  BY DEF LogInFails, ReadResponse, ReadWhole, Reading, TypeOK, flags, counts, threads
<1>2. m_state \in CONNECTION_STATE \ Offline /\ m_state' \in CONNECTION_STATE \ Offline
  BY LogInFailures DEF LogInFails, ReadResponse, CONNECTION_STATE, Offline
<1>3. m_nCurrentSessions' \in 0..UIntMax /\ m_nMaxSessions' \in 0..UIntMax
  <2>1. CASE Head(wire).kind = "status"
    <3>1. Head(wire) \in [kind: {"status"}, cur: Sessions, max: Limits]
      BY <1>1, <2>1, TailOfWire DEF Message
    <3>2. Head(wire).cur \in 0..UIntMax /\ Head(wire).max \in 0..UIntMax
      BY <3>1, InstanceAssumption
    <3> QED BY <3>2 DEF LogInFails, ReadResponse, TypeOK, flags, counts
  <2>2. CASE Head(wire).kind # "status"
    BY <2>2 DEF LogInFails, ReadResponse, TypeOK, flags, counts
  <2> QED BY <2>1, <2>2
<1>4. /\ Tail(wire) \in Seq(Message) /\ Len(Tail(wire)) = Len(wire) - 1
      /\ Len(wire) \in Nat
  BY <1>1, TailOfWire
<1>5. TypeOK'
  BY <1>1, <1>2, <1>3, <1>4, InstanceAssumption DEF TypeOK
<1>6. LinkState'
  BY <1>1, <1>2 DEF LinkState, CONNECTION_STATE, Offline
<1>7. ReadsBound' /\ ReplyBound'
  BY <1>1, <1>4 DEF ReadsBound, ReplyBound, One, TypeOK
<1> QED BY <1>5, <1>6, <1>7

\* The timer, where nothing is written, and a read that fails.
LEMMA TimerInstanceInv ==
    ASSUME InstanceInv, ReadError \/ Restart \/ GiveUp
    PROVE  InstanceInv'
<1> USE DEF InstanceInv
<1>1. CASE ReadError
  <2>1. /\ Lost /\ reads > 0 /\ reads' = reads - 1
        /\ UNCHANGED <<m_state, m_bDisconnected, m_bReloadingXml, m_nCurrentSessions,
                       m_nMaxSessions, m_fsMsg, timer, link, wire, monitor, nagios, reloads>>
    BY <1>1 DEF ReadError, flags, counts, threads
  <2>2. TypeOK'
    BY <2>1, InstanceAssumption DEF TypeOK
  <2>3. LinkState' /\ ReplyBound'
    BY <2>1 DEF LinkState, ReplyBound, Lost
  <2>4. ReadsBound'
    BY <2>1 DEF ReadsBound, One, TypeOK
  <2> QED BY <2>2, <2>3, <2>4
<1>2. CASE Restart
  <2>1. /\ m_state \in {"starting", "connect_failed"} /\ m_state' = "resolving"
        /\ timer' = FALSE /\ m_fsMsg' = "empty"
        /\ UNCHANGED <<m_bDisconnected, m_bReloadingXml, m_nCurrentSessions, m_nMaxSessions,
                       link, wire, reads, monitor, nagios, reloads>>
    BY <1>2 DEF Restart, flags, counts, socket, threads
  <2>2. TypeOK'
    BY <2>1 DEF TypeOK, CONNECTION_STATE
  <2>3. LinkState' /\ ReplyBound'
    BY <2>1 DEF LinkState, ReplyBound, Offline
  <2>4. ReadsBound'
    BY <2>1 DEF ReadsBound, One, TypeOK
  <2> QED BY <2>2, <2>3, <2>4
<1>3. CASE GiveUp
  <2>1. /\ timer' = FALSE
        /\ UNCHANGED <<m_state, m_bDisconnected, m_bReloadingXml, m_nCurrentSessions,
                       m_nMaxSessions, m_fsMsg, link, wire, reads, monitor, nagios, reloads>>
    BY <1>3 DEF GiveUp, flags, counts, socket, threads
  <2>2. TypeOK'
    BY <2>1 DEF TypeOK
  <2>3. LinkState' /\ ReplyBound'
    BY <2>1 DEF LinkState, ReplyBound
  <2>4. ReadsBound'
    BY <2>1 DEF ReadsBound, One, TypeOK
  <2> QED BY <2>2, <2>3, <2>4
<1> QED BY <1>1, <1>2, <1>3

\* A poll: the read for its answer takes the place of the timer.
LEMMA PollInstanceInv ==
    ASSUME InstanceInv, Poll
    PROVE  InstanceInv'
<1> USE DEF InstanceInv
<1>1. /\ monitor = "running" /\ timer /\ m_state = "querying_status"
      /\ timer' = FALSE
      /\ UNCHANGED <<m_state, m_bDisconnected, m_bReloadingXml, m_nCurrentSessions,
                     m_nMaxSessions, m_fsMsg>>
  BY DEF Poll, flags, counts
<1>2. wire \in Seq(Message) /\ Len(wire) \in Nat /\ reads \in Nat
  BY DEF TypeOK
<1>3. CASE Write("status", wire) /\ reads' = reads + 1 /\ UNCHANGED threads
  <2>1. /\ wire' \in Seq(Message)
        /\ \/ link = "open" /\ link' = "open" /\ Len(wire') = Len(wire) + 1
           \/ link' = "reset"
    BY <1>2, <1>3, WriteEffect DEF Commands
  <2>2. UNCHANGED <<monitor, nagios, reloads>>
    BY <1>3 DEF threads
  <2>3. ReadsBound'
    BY <1>1, <1>2, <1>3, <2>2 DEF ReadsBound, One
  <2>4. reads' \in 0..(1 + MaxReloads)
    BY <1>2, <1>3, <2>2, <2>3, InstanceAssumption DEF ReadsBound, One, TypeOK
  <2>5. TypeOK'
    BY <1>1, <2>1, <2>2, <2>4 DEF TypeOK
  <2>6. LinkState'
    BY <1>1, <2>1, <2>2 DEF LinkState, Offline
  <2>7. ReplyBound'
    BY <1>2, <1>3, <2>1, <2>2 DEF ReplyBound, One
  <2> QED BY <2>3, <2>5, <2>6, <2>7
<1>4. CASE WriteThrows(wire) /\ EndThread /\ UNCHANGED reads
  <2>1. /\ wire' = wire /\ link = "reset" /\ link' = "reset"
        /\ monitor' = "ended" /\ UNCHANGED <<nagios, reloads>>
    BY <1>4 DEF WriteThrows, EndThread
  <2>2. TypeOK'
    BY <1>1, <1>4, <2>1 DEF TypeOK
  <2>3. LinkState' /\ ReplyBound'
    BY <1>1, <1>4, <2>1 DEF LinkState, ReplyBound, Offline
  <2>4. ReadsBound'
    BY <1>1, <1>2, <1>4, <2>1 DEF ReadsBound, One, TypeOK
  <2> QED BY <2>2, <2>3, <2>4
<1> QED BY <1>3, <1>4 DEF Poll

\* reloadxml, from the other thread: its answer counts as awaited until its read is
\* posted.
LEMMA ReloadInstanceInv ==
    ASSUME InstanceInv, reloadxml \/ AwaitReload
    PROVE  InstanceInv'
<1> USE DEF InstanceInv
<1>1. CASE reloadxml
  <2>1. /\ nagios = "idle" /\ m_state = "querying_status"
        /\ reloads < MaxReloads /\ reloads' = reloads + 1
        /\ UNCHANGED <<m_state, m_bDisconnected, m_bReloadingXml, m_nCurrentSessions,
                       m_nMaxSessions, m_fsMsg, timer, reads, monitor>>
    BY <1>1 DEF reloadxml, flags, counts
  <2>2. wire \in Seq(Message) /\ Len(wire) \in Nat /\ reads \in Nat
    BY DEF TypeOK
  <2>3. CASE Write("reloadxml", wire) /\ nagios' = "reloading"
    <3>1. /\ wire' \in Seq(Message)
          /\ \/ link = "open" /\ link' = "open" /\ Len(wire') = Len(wire) + 1
             \/ link' = "reset"
      BY <2>2, <2>3, WriteEffect DEF Commands
    <3>2. TypeOK'
      BY <2>1, <2>3, <3>1, InstanceAssumption DEF TypeOK
    <3>3. LinkState'
      BY <2>1, <3>1 DEF LinkState, Offline
    <3>4. ReadsBound' /\ ReplyBound'
      BY <2>1, <2>2, <2>3, <3>1 DEF ReadsBound, ReplyBound, One, TypeOK
    <3> QED BY <3>2, <3>3, <3>4
  <2>4. CASE WriteThrows(wire) /\ nagios' = "ended"
    <3>1. wire' = wire /\ link = "reset" /\ link' = "reset"
      BY <2>4 DEF WriteThrows
    <3> QED BY <2>1, <2>2, <2>4, <3>1, InstanceAssumption DEF TypeOK, LinkState, ReadsBound,
          ReplyBound, Offline, One
  <2> QED BY <1>1, <2>3, <2>4 DEF reloadxml
<1>2. CASE AwaitReload
  <2>1. /\ nagios = "reloading" /\ nagios' = "idle" /\ m_bReloadingXml' = TRUE
        /\ reads' = IF link = "closed" THEN reads ELSE reads + 1
        /\ UNCHANGED <<m_state, m_bDisconnected, m_nCurrentSessions, m_nMaxSessions, m_fsMsg,
                       timer, link, wire, monitor, reloads>>
    BY <1>2 DEF AwaitReload, counts
  <2>2. ReadsBound'
    BY <2>1 DEF ReadsBound, One, TypeOK
  <2>3. reads' \in 0..(1 + MaxReloads)
    BY <2>1, <2>2, InstanceAssumption DEF ReadsBound, One, TypeOK
  <2>4. TypeOK'
    BY <2>1, <2>3 DEF TypeOK
  <2>5. LinkState'
    BY <2>1 DEF LinkState, Offline
  <2>6. ReplyBound'
    BY <2>1 DEF ReplyBound, One, TypeOK
  <2> QED BY <2>2, <2>4, <2>5, <2>6
<1> QED BY <1>1, <1>2

\* The server goes.
LEMMA ServerInstanceInv ==
    ASSUME InstanceInv, Shutdown \/ Crash
    PROVE  InstanceInv'
<1> USE DEF InstanceInv
<1>1. /\ link = "open" /\ link' \in {"fin", "reset"}
      /\ UNCHANGED <<m_state, m_bDisconnected, m_bReloadingXml, m_nCurrentSessions,
                     m_nMaxSessions, m_fsMsg, timer, reads, monitor, nagios, reloads>>
  BY DEF Shutdown, Crash, flags, counts, threads
<1>2. wire' \in Seq(Message)
  <2>1. [kind |-> "notice"] \in Message
    BY DEF Message
  <2>2. CASE Shutdown
    BY <2>1, <2>2 DEF Shutdown, TypeOK
  <2>3. CASE Crash
    <3>1. wire' = wire \/ wire' = <<>>
      BY <2>3 DEF Crash
    <3>2. <<>> \in Seq(Message)
      OBVIOUS
    <3>3. wire \in Seq(Message)
      BY DEF TypeOK
    <3> QED BY <3>1, <3>2, <3>3
  <2> QED BY <2>2, <2>3
<1>3. TypeOK'
  BY <1>1, <1>2 DEF TypeOK
<1>4. LinkState' /\ ReadsBound' /\ ReplyBound'
  BY <1>1 DEF LinkState, ReadsBound, ReplyBound, Offline, One
<1> QED BY <1>3, <1>4

\* Every step of either thread and of the server preserves it.
LEMMA NextInstanceInv == InstanceInv /\ [Next]_vars => InstanceInv'
<1> SUFFICES ASSUME InstanceInv, [Next]_vars PROVE InstanceInv'
  OBVIOUS
<1>1. CASE UNCHANGED vars
  BY <1>1 DEF vars, flags, counts, socket, threads, InstanceInv, TypeOK, LinkState,
              ReadsBound, ReplyBound
<1> QED BY <1>1, ConnectInstanceInv, ReadPartInstanceInv, ReadNoticeInstanceInv,
           LogInInstanceInv, ReadOneInstanceInv, TimerInstanceInv, PollInstanceInv,
           ReloadInstanceInv, ServerInstanceInv DEF Next, Handler

\* The state of the socket agrees with the state of the log-in, and reads, messages and
\* the timer are in balance, in every reachable state.
THEOREM InstanceInvariance == Spec => []InstanceInv
BY InitInstanceInv, NextInstanceInv, PTL DEF Spec

\* FsInstance keeps its variables in range; in particular at most one read per reload is
\* under way beside the one for the polls.
THEOREM InstanceTypes == Spec => []TypeOK
<1>1. InstanceInv => TypeOK
  BY DEF InstanceInv
<1> QED BY <1>1, InstanceInvariance, PTL

\* A server that has announced its shutdown gets no calls until it has been connected to
\* and logged in to again.
THEOREM AvailableConnected == Spec => []AvailableIsConnected
<1>1. InstanceInv => AvailableIsConnected
  BY DEF InstanceInv, LinkState, AvailableIsConnected, isAvailable, Offline
<1> QED BY <1>1, InstanceInvariance, PTL

\* Every message of the server finds a read waiting for it, or about to be posted by
\* reloadxml.
THEOREM RepliesAwaited == Spec => []EveryReplyAwaited
<1>1. InstanceInv => EveryReplyAwaited
  BY DEF InstanceInv, ReplyBound, EveryReplyAwaited, One
<1> QED BY <1>1, InstanceInvariance, PTL

-----------------------------------------------------------------------------
(* SurviveInv *)

\* Without a reload there is at most one read, and none while the timer is armed.
LEMMA NoReload ==
    ASSUME InstanceInv, reloads = 0
    PROVE  /\ nagios # "reloading" /\ reads \in {0, 1}
           /\ timer => reads = 0
           /\ link = "open" => Len(wire) <= reads
           /\ wire \in Seq(Message) /\ Len(wire) \in Nat
<1>1. reads \in Nat /\ wire \in Seq(Message) /\ Len(wire) \in Nat
  BY DEF InstanceInv, TypeOK
<1>2. nagios # "reloading"
  BY DEF InstanceInv, ReadsBound
<1>3. One(nagios = "reloading") = 0
  BY <1>2 DEF One
<1>4. reads + One(timer) <= 1
  BY <1>3 DEF InstanceInv, ReadsBound
<1>5. CASE timer
  BY <1>1, <1>2, <1>3, <1>4, <1>5 DEF One, InstanceInv, ReplyBound
<1>6. CASE ~timer
  BY <1>1, <1>2, <1>3, <1>4, <1>6 DEF One, InstanceInv, ReplyBound
<1> QED BY <1>5, <1>6

\* The only message that is left to a server that is gone is its notice.
LEMMA OnlyNotice ==
    ASSUME wire \in Seq(Message), Len(wire) = 1, Lost, NoticeSent
    PROVE  wire # <<>> /\ IsNotice(Head(wire))
<1>1. wire # <<>> /\ Head(wire) = wire[1]
  BY TailOfWire
<1> QED BY <1>1 DEF NoticeSent

\* The completions of a read: what they write is written to an open connection.
LEMMA ReadSurvives ==
    ASSUME InstanceInv, reloads = 0, SurviveInv, NoticeSent, NoticeSent', TypeOK',
           ReadPart \/ ReadNotice \/ LogInFails \/ ReadResponse \/ ReadError
    PROVE  SurviveInv'
<1>1. /\ reads \in {0, 1} /\ wire \in Seq(Message) /\ Len(wire) \in Nat
      /\ link = "open" => Len(wire) <= reads
  BY NoReload
<1>2. CASE ReadPart
  <2>1. PICK n \in 1..Len(wire) : wire' = SubSeq(wire, n + 1, Len(wire))
    BY <1>2 DEF ReadPart
  <2>2. /\ wire' \in Seq(Message) /\ Len(wire') = Len(wire) - n
        /\ \A i \in 1..Len(wire') : wire'[i] = wire[i + n]
    BY <1>1, <2>1
  <2>3. UNCHANGED <<link, reads, timer, monitor>>
    BY <1>2 DEF ReadPart, threads
  <2>4. link # "reset"
    <3> SUFFICES ASSUME link = "reset" PROVE FALSE
      OBVIOUS
    <3>1. Len(wire') = 0
      BY <1>1, <2>2 DEF SurviveInv
    <3> QED BY <3>1, <2>3 DEF NoticeSent, Lost
  <2>5. link = "open" => \A i \in 1..Len(wire') : ~IsNotice(wire'[i])
    BY <1>1, <2>2 DEF SurviveInv
  <2>6. link = "fin" => Len(wire') <= reads + 1
    BY <1>1, <2>2 DEF SurviveInv
  <2> QED BY <2>3, <2>4, <2>5, <2>6 DEF SurviveInv
<1>3. CASE ReadNotice
  BY <1>3 DEF ReadNotice, ReadWhole, Reading, threads, SurviveInv
<1>4. CASE LogInFails \/ ReadResponse
  <2>1. /\ wire # <<>> /\ ~IsNotice(Head(wire))
        /\ wire' = Tail(wire) /\ reads' = reads - 1 /\ UNCHANGED <<link, monitor>>
    BY <1>4 DEF LogInFails, ReadResponse, ReadWhole, Reading, Api, IsNotice, threads
  <2>2. link # "reset"
    BY <1>1, <2>1, OnlyNotice DEF SurviveInv, Lost
  <2>3. /\ Len(wire') = Len(wire) - 1
        /\ \A i \in 1..(Len(wire) - 1) : wire'[i] = wire[i + 1]
    BY <1>1, <2>1, TailOfWire
  <2>4. link = "open" => \A i \in 1..Len(wire') : ~IsNotice(wire'[i])
    BY <1>1, <2>3 DEF SurviveInv
  <2>5. link = "fin" => Len(wire') <= reads' + 1
    BY <1>1, <2>1, <2>3 DEF SurviveInv
  <2> QED BY <2>1, <2>2, <2>4, <2>5 DEF SurviveInv
<1>5. CASE ReadError
  BY <1>5 DEF ReadError, NoticeSent
<1> QED BY <1>2, <1>3, <1>4, <1>5

\* A write: to a server that is there, or the first to one that is gone; a second one
\* finds no message to answer and no timer.
LEMMA WriteSurvives ==
    ASSUME InstanceInv, reloads = 0, SurviveInv, NoticeSent, LogIn \/ Poll
    PROVE  SurviveInv'
<1>1. /\ reads \in {0, 1} /\ wire \in Seq(Message) /\ Len(wire) \in Nat
      /\ timer => reads = 0
      /\ link = "open" => Len(wire) <= reads
  BY NoReload
<1>2. CASE LogIn
  <2> DEFINE rest == Tail(wire)
             command == LogInStep(Head(wire))[2]
  <2>1. /\ wire # <<>> /\ ~IsNotice(Head(wire)) /\ reads > 0 /\ timer' = timer
        /\ \/ Write(command, rest) /\ UNCHANGED <<reads, threads>>
           \/ WriteThrows(rest)
    BY <1>2 DEF LogIn, ReadWhole, Reading, IsNotice
  <2>2. link # "reset"
    BY <1>1, <2>1, OnlyNotice DEF SurviveInv, Lost
  <2>3. command \in Commands
    BY <1>2, LogInSteps DEF LogIn, Commands
  <2>4. /\ rest \in Seq(Message) /\ Len(rest) = Len(wire) - 1
        /\ \A i \in 1..(Len(wire) - 1) : rest[i] = wire[i + 1]
    BY <1>1, <2>1, TailOfWire
  <2> HIDE DEF rest, command
  <2>5. Write(command, rest) /\ UNCHANGED <<reads, monitor>>
    BY <2>1, <2>2 DEF WriteThrows, threads
  <2>6. CASE link = "open"
    <3>1. /\ link' = "open" /\ Len(wire') = Len(rest) + 1
          /\ \A i \in 1..Len(rest) : wire'[i] = rest[i]
          /\ ~IsNotice(wire'[Len(wire')])
      BY <2>3, <2>4, <2>5, <2>6, WriteEffect DEF Lost
    <3>2. Len(wire') = Len(wire)
      BY <3>1, <2>4, <1>1
    <3>3. \A i \in 1..Len(wire') : ~IsNotice(wire'[i])
      <4> SUFFICES ASSUME NEW i \in 1..Len(wire') PROVE ~IsNotice(wire'[i])
        OBVIOUS
      <4>1. CASE i = Len(wire')
        BY <4>1, <3>1
      <4>2. CASE i # Len(wire')
        <5>1. i \in 1..(Len(wire) - 1) /\ i + 1 \in 1..Len(wire)
          BY <4>2, <3>2, <1>1
        <5>2. wire'[i] = wire[i + 1]
          BY <5>1, <3>1, <2>4
        <5> QED BY <5>1, <5>2, <2>6 DEF SurviveInv
      <4> QED BY <4>1, <4>2
    <3> QED BY <3>1, <3>3, <2>5 DEF SurviveInv
  <2>7. CASE link # "open"
    <3>1. link' = "reset" /\ wire' = rest /\ Lost
      BY <2>3, <2>4, <2>5, <2>7, WriteEffect
    <3>2. link = "fin" /\ Len(wire) <= 2
      BY <3>1, <2>2, <1>1 DEF Lost, SurviveInv
    <3>3. Len(wire) # 1
      BY <2>1, <3>1, <1>1, OnlyNotice
    <3>4. Len(wire) # 0
      BY <2>1, <1>1, TailOfWire
    <3>5. Len(wire') = 1
      BY <3>1, <3>2, <3>3, <3>4, <2>4, <1>1
    <3>6. ~timer'
      BY <2>1, <1>1
    <3> QED BY <3>1, <3>5, <3>6, <2>5 DEF SurviveInv
  <2> QED BY <2>6, <2>7
<1>3. CASE Poll
  <2>1. timer /\ ~timer' /\ reads = 0
    BY <1>1, <1>3 DEF Poll
  <2>2. link # "reset"
    BY <2>1 DEF SurviveInv
  <2>3. Write("status", wire) /\ reads' = 1 /\ UNCHANGED monitor
    BY <1>3, <2>1, <2>2 DEF Poll, WriteThrows, threads
  <2>4. CASE link = "open"
    <3>1. /\ link' = "open" /\ Len(wire') = Len(wire) + 1
          /\ ~IsNotice(wire'[Len(wire')])
      BY <1>1, <2>3, <2>4, WriteEffect DEF Lost, Commands
    <3>2. Len(wire') = 1
      BY <3>1, <2>1, <2>4, <1>1
    <3>3. \A i \in 1..Len(wire') : ~IsNotice(wire'[i])
      <4>1. ~IsNotice(wire'[1])
        BY <3>1, <3>2
      <4>2. \A i \in 1..1 : i = 1
        OBVIOUS
      <4> QED BY <3>2, <4>1, <4>2
    <3> QED BY <3>1, <3>3, <2>3 DEF SurviveInv
  <2>5. CASE link # "open"
    <3>1. link' = "reset" /\ wire' = wire /\ Lost
      BY <1>1, <2>3, <2>5, WriteEffect DEF Commands
    <3>2. Len(wire) <= 1
      BY <3>1, <2>1, <2>2 DEF Lost, SurviveInv
    <3>3. Len(wire) # 0
      BY <3>1 DEF NoticeSent
    <3>4. Len(wire) = 1
      <4> DEFINE n == Len(wire)
      <4>1. n \in Nat /\ n <= 1 /\ n # 0
        BY <1>1, <3>2, <3>3
      <4> HIDE DEF n
      <4>2. n = 1
        BY <4>1
      <4> QED BY <4>2 DEF n
    <3> QED BY <3>1, <3>4, <2>1, <2>3 DEF SurviveInv
  <2> QED BY <2>4, <2>5
<1> QED BY <1>2, <1>3

\* Steps that complete no read.
LEMMA OthersSurvive ==
    ASSUME InstanceInv, reloads = 0, reloads' = 0, SurviveInv, NoticeSent, NoticeSent',
           \/ resolve_handler \/ Connected \/ ConnectFails \/ Restart \/ GiveUp
           \/ reloadxml \/ AwaitReload \/ Shutdown \/ Crash
    PROVE  SurviveInv'
<1>1. /\ reads \in {0, 1} /\ wire \in Seq(Message) /\ Len(wire) \in Nat
      /\ link = "open" => Len(wire) <= reads
      /\ nagios # "reloading"
  BY NoReload
<1>2. CASE resolve_handler \/ ConnectFails \/ Restart \/ GiveUp
  <2>1. UNCHANGED <<link, wire, reads, monitor>>
    BY <1>2 DEF resolve_handler, ConnectFails, Restart, GiveUp, socket, threads
  <2>2. link # "reset" \/ ~timer'
    BY <1>2 DEF resolve_handler, ConnectFails, Restart, GiveUp, InstanceInv, LinkState,
                Offline, SurviveInv
  <2> QED BY <2>1, <2>2 DEF SurviveInv
<1>3. CASE Connected
  <2>1. PICK greeting \in {[kind |-> "auth"], [kind |-> "ok"]} : wire' = <<greeting>>
    BY <1>3 DEF Connected, Reply
  <2>2. Len(wire') = 1 /\ wire'[1] = greeting /\ ~IsNotice(greeting)
    BY <2>1 DEF IsNotice
  <2> QED BY <1>3, <2>2 DEF Connected, threads, SurviveInv
<1>4. CASE reloadxml
  BY <1>4 DEF reloadxml
<1>5. CASE AwaitReload
  BY <1>1, <1>5 DEF AwaitReload
<1>6. CASE Shutdown
  <2>1. Len(wire') = Len(wire) + 1
    BY <1>1, <1>6 DEF Shutdown
  <2> QED BY <1>1, <1>6, <2>1 DEF Shutdown, threads, SurviveInv
<1>7. CASE Crash
  <2>1. \A i \in 1..Len(wire) : ~IsNotice(wire[i])
    BY <1>7 DEF Crash, SurviveInv
  <2>2. wire' = wire \/ wire' = <<>>
    BY <1>7 DEF Crash
  <2>3. \A i \in 1..Len(wire') : ~IsNotice(wire'[i])
    BY <2>1, <2>2
  <2>4. Lost'
    BY <1>7 DEF Crash, Lost
  <2> QED BY <2>3, <2>4 DEF NoticeSent
<1> QED BY <1>2, <1>3, <1>4, <1>5, <1>6, <1>7

\* The thread that serves all servers outlives every announced shutdown: a write throws
\* only when another one has been made since the server went, and before that second
\* write the notice is read.
THEOREM MonitorSurvives == Spec => MonitorSurvivesShutdowns
<1>1. Init => SurviveInv
  BY DEF Init, SurviveInv
<1>2. /\ InstanceInv /\ InstanceInv' /\ reloads = 0 /\ (reloads = 0)'
      /\ NoticeSent /\ NoticeSent' /\ SurviveInv /\ [Next]_vars
      => SurviveInv'
  <2> SUFFICES ASSUME InstanceInv, InstanceInv', reloads = 0, reloads' = 0,
                      NoticeSent, NoticeSent', SurviveInv, [Next]_vars
               PROVE  SurviveInv'
    OBVIOUS
  <2>1. CASE UNCHANGED vars
    BY <2>1 DEF vars, socket, threads, SurviveInv
  <2> QED BY <2>1, ReadSurvives, WriteSurvives, OthersSurvive DEF Next, Handler, InstanceInv
<1>3. (Lost => \E i \in 1..Len(wire) : wire[i].kind = "notice") => NoticeSent
  BY DEF NoticeSent, IsNotice
<1>4. SurviveInv => monitor = "running"
  BY DEF SurviveInv
<1> QED BY <1>1, <1>2, <1>3, <1>4, InstanceInvariance, PTL
     DEF Spec, MonitorSurvivesShutdowns, Announced

-----------------------------------------------------------------------------
(* LiveInv *)

\* Offline nothing is being reloaded, if no shutdown cuts a reload off.
LEMMA OfflineNoReload ==
    ASSUME NoReloadCutOff, link = "closed"
    PROVE  ~m_bReloadingXml /\ nagios # "reloading"
BY DEF NoReloadCutOff

\* Resolving, connecting, and the timer of a server that is off-line.
LEMMA ConnectLive ==
    ASSUME InstanceInv, NoReloadCutOff, LiveInv,
           resolve_handler \/ Connected \/ ConnectFails \/ Restart \/ GiveUp
    PROVE  LiveInv'
<1>1. UNCHANGED <<m_bReloadingXml, nagios>>
  BY DEF resolve_handler, Connected, ConnectFails, Restart, GiveUp, flags, threads
<1>2. CASE resolve_handler \/ ConnectFails \/ Restart
  <2>1. link' = link /\ m_state \in Offline
    BY <1>2 DEF resolve_handler, ConnectFails, Restart, socket, Offline
  <2>2. link = "closed"
    BY <2>1 DEF InstanceInv, LinkState
  <2>3. m_state' \in {"starting", "connect_failed"} => timer'
    BY <1>2 DEF resolve_handler, ConnectFails, Restart
  <2> QED BY <1>1, <2>1, <2>2, <2>3, OfflineNoReload DEF LiveInv
<1>3. CASE Connected
  BY <1>1, <1>3 DEF Connected, LiveInv
<1>4. CASE GiveUp
  BY <1>1, <1>4 DEF GiveUp, GaveUp, LiveInv, socket
<1> QED BY <1>2, <1>3, <1>4

\* The reads.
LEMMA ReadLive ==
    ASSUME InstanceInv, NoReloadCutOff', LiveInv,
           ReadPart \/ ReadNotice \/ LogInFails \/ ReadResponse \/ ReadError
    PROVE  LiveInv'
<1>1. reads \in Nat /\ m_bReloadingXml \in BOOLEAN /\ timer \in BOOLEAN
  BY DEF InstanceInv, TypeOK
<1>2. CASE ReadPart
  BY <1>2 DEF ReadPart, flags, threads, LiveInv
<1>3. CASE ReadNotice
  <2>1. /\ m_state' = "starting" /\ timer' = TRUE /\ link' = "closed"
    BY <1>3 DEF ReadNotice
  <2>2. ~m_bReloadingXml' /\ nagios' # "reloading"
    BY <2>1 DEF NoReloadCutOff
  <2> QED BY <2>1, <2>2 DEF LiveInv
<1>4. CASE LogInFails
  <2>1. /\ m_state \notin {"querying_status"} /\ timer' = TRUE
        /\ m_state' \in {"waiting_for_greeting", "authentication_failed",
                         "obtaining_sip_configuration_failed"}
        /\ UNCHANGED <<m_bReloadingXml, nagios>>
    BY <1>4, LogInFailures DEF LogInFails, flags, threads
  <2> QED BY <2>1 DEF LiveInv
<1>5. CASE ReadResponse
  <2>1. /\ m_state = "querying_status" /\ m_state' = m_state /\ reads' = reads - 1
        /\ reads > 0 /\ link' = link
    BY <1>5 DEF ReadResponse, ReadWhole, Reading
  <2>2. CASE m_bReloadingXml
    <3>1. m_bReloadingXml' = FALSE /\ timer' = timer
      BY <1>5, <2>2 DEF ReadResponse
    <3>2. link = "open" => reads >= 1 + One(~timer)
      BY <2>1, <2>2 DEF LiveInv, One
    <3>3. link = "open" => reads' >= One(~timer')
      BY <1>1, <2>1, <3>1, <3>2 DEF One
    <3> QED BY <1>1, <2>1, <3>1, <3>3 DEF LiveInv, One
  <2>3. CASE ~m_bReloadingXml
    <3>1. m_bReloadingXml' = FALSE /\ timer' = TRUE
      BY <1>1, <1>5, <2>3 DEF ReadResponse, flags
    <3> QED BY <1>1, <2>1, <3>1 DEF LiveInv, One
  <2> QED BY <2>2, <2>3
<1>6. CASE ReadError
  BY <1>6 DEF ReadError, Lost, flags, threads, LiveInv
<1> QED BY <1>2, <1>3, <1>4, <1>5, <1>6

\* The writes: the log-in keeps its read, a poll gets one, and so does a reload.
LEMMA WriteLive ==
    ASSUME InstanceInv, NoReloadCutOff, LiveInv, LogIn \/ Poll \/ reloadxml \/ AwaitReload
    PROVE  LiveInv'
<1>1. /\ reads \in Nat /\ m_bReloadingXml \in BOOLEAN /\ timer \in BOOLEAN
      /\ wire \in Seq(Message)
  BY DEF InstanceInv, TypeOK
<1>2. CASE LogIn
  <2>1. /\ reads > 0 /\ wire # <<>> /\ UNCHANGED <<m_bReloadingXml, timer, nagios>>
        /\ m_state \in {"waiting_for_greeting", "authenticating",
                        "obtaining_sip_configuration"}
        /\ m_state' \in {"authenticating", "obtaining_sip_configuration",
                         "querying_status"}
    BY <1>2, LogInSteps DEF LogIn, ReadWhole, Reading, flags, threads, EndThread
  <2>2. ~m_bReloadingXml /\ nagios # "reloading"
    BY <2>1 DEF LiveInv
  <2>3. link' = "open" => reads' = reads
    BY <1>2 DEF LogIn, WriteThrows
  <2>4. m_state' = "querying_status" /\ link' = "open" =>
          reads' >= One(m_bReloadingXml') + One(~timer')
    BY <1>1, <2>1, <2>2, <2>3 DEF One
  <2> QED BY <2>1, <2>2, <2>3, <2>4 DEF LiveInv
<1>3. CASE Poll
  <2>1. /\ m_state = "querying_status" /\ timer /\ ~timer'
        /\ UNCHANGED <<m_state, m_bReloadingXml>>
    BY <1>3 DEF Poll, flags
  <2>2. link' = "open" => link = "open" /\ reads' = reads + 1
    BY <1>3 DEF Poll, Write, WriteThrows
  <2>3. link = "open" => reads >= One(m_bReloadingXml)
    BY <1>1, <2>1 DEF LiveInv, One
  <2>4. link' = "open" => reads' >= One(m_bReloadingXml') + One(~timer')
    BY <1>1, <2>1, <2>2, <2>3 DEF One
  <2> QED BY <2>1, <2>4 DEF LiveInv
<1>4. CASE reloadxml
  <2>1. /\ m_state = "querying_status"
        /\ UNCHANGED <<m_state, m_bReloadingXml, timer, reads>>
    BY <1>4 DEF reloadxml, flags
  <2>2. link' = "open" => link = "open"
    BY <1>4 DEF reloadxml, Write, WriteThrows
  <2> QED BY <2>1, <2>2 DEF LiveInv
<1>5. CASE AwaitReload
  <2>1. nagios = "reloading" /\ nagios' = "idle" /\ m_bReloadingXml' = TRUE
        /\ UNCHANGED <<m_state, timer, link>>
    BY <1>5 DEF AwaitReload
  <2>2. m_state = "querying_status" /\ link = "open"
    BY <2>1 DEF LiveInv, NoReloadCutOff
  <2>3. reads' = reads + 1
    BY <1>5, <2>2 DEF AwaitReload
  <2>4. reads >= One(~timer)
    BY <1>1, <2>2 DEF LiveInv, One
  <2>5. reads' >= One(m_bReloadingXml') + One(~timer')
    BY <1>1, <2>1, <2>3, <2>4 DEF One
  <2> QED BY <2>1, <2>2, <2>5 DEF LiveInv
<1> QED BY <1>2, <1>3, <1>4, <1>5

\* A server is left alone for good only after a failed log-in or when it has vanished
\* without a notice, unless a shutdown cut a reload off.
THEOREM LeftAlone == Spec => LeftAloneOnlyAfterFailure
<1>1. Init => LiveInv
  BY DEF Init, LiveInv
<1>2. /\ InstanceInv /\ NoReloadCutOff /\ NoReloadCutOff' /\ LiveInv /\ [Next]_vars
      => LiveInv'
  <2> SUFFICES ASSUME InstanceInv, NoReloadCutOff, NoReloadCutOff', LiveInv, [Next]_vars
               PROVE  LiveInv'
    OBVIOUS
  <2>1. CASE UNCHANGED vars
    BY <2>1 DEF vars, flags, socket, threads, LiveInv
  <2>2. CASE Shutdown \/ Crash
    <3>1. link' # "open" /\ UNCHANGED <<m_state, m_bReloadingXml, timer, nagios>>
      BY <2>2 DEF Shutdown, Crash, flags, threads
    <3> QED BY <3>1 DEF LiveInv
  <2> QED BY <2>1, <2>2, ConnectLive, ReadLive, WriteLive DEF Next, Handler
<1>3. InstanceInv /\ LiveInv => (Dormant => m_state \in GaveUp \/ Lost)
  <2> SUFFICES ASSUME InstanceInv, LiveInv, Dormant, ~Lost PROVE m_state \in GaveUp
    OBVIOUS
  <2>1. ~timer /\ reads = 0 /\ m_state \notin {"resolving", "connecting"}
    BY DEF Dormant
  <2>2. CASE link = "closed"
    BY <2>1, <2>2 DEF InstanceInv, LinkState, Offline, LiveInv, GaveUp
  <2>3. CASE link = "open"
    <3>1. m_state # "querying_status"
      BY <2>1, <2>3 DEF LiveInv, One
    <3> QED BY <2>1, <2>3, <3>1 DEF InstanceInv, TypeOK, CONNECTION_STATE, LinkState,
                                    Offline, LiveInv, GaveUp
  <2> QED BY <2>2, <2>3 DEF InstanceInv, TypeOK, Lost
<1>4. (m_bReloadingXml \/ nagios = "reloading" => link = "open") => NoReloadCutOff
  BY DEF NoReloadCutOff
<1> QED BY <1>1, <1>2, <1>3, <1>4, InstanceInvariance, PTL
     DEF Spec, LeftAloneOnlyAfterFailure, ReloadsFinish

=============================================================================
