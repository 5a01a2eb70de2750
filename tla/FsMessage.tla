------------------------------ MODULE FsMessage ------------------------------
(***************************************************************************)
(* FsMessage (fs-message.cpp): messages of the FreeSWITCH event socket are *)
(* put together from what each read of the socket returns.  TCP may cut    *)
(* the stream of messages anywhere and join them.                          *)
(*                                                                         *)
(* Text is a sequence of atoms: the pieces of a header that the parser     *)
(* tells apart, and single characters of a body.  A cut may fall between   *)
(* any two atoms.                                                          *)
(***************************************************************************)
EXTENDS Integers, FiniteSets, FiniteSetsExt, SequencesExt

CONSTANTS
    MaxMessages,     \* bound: messages the server sends
    MaxReads         \* bound: reads

ASSUME BoundAssumption == MaxMessages \in Nat /\ MaxReads \in Nat

-----------------------------------------------------------------------------
(* The server (external) *)

nl == "\n"
Numeral == <<"1", "2", "3", "4", "5", "6", "7", "8", "9">>
Digits(n) == IF n < 10 THEN <<Numeral[n]>> ELSE <<Numeral[n \div 10], "0">>

\* The category with its slash, the first half of a type's name, which means nothing to the
\* parser, and the rest of it, which makes it known.
FirstLine(category, type) == <<"Content-Type: ", category, "half a type", type, nl>>
WithBody(category, type, body) ==
    FirstLine(category, type) \o <<"Content-Length: ">> \o Digits(Len(body)) \o <<nl, nl>> \o body
ReplyText(status) ==
    FirstLine("command", "reply") \o <<"Reply-Text: ", status, " accepted", nl, nl>>

\* 4 sessions of at most 9, on the fourth and the fifth line.
StatusBody == <<"x", nl, "x", nl, "x", nl, "4", nl, "9", nl>>
ProfileBody == <<"x", nl, "internal", "address", nl>>

Text == [auth    |-> FirstLine("auth", "request") \o <<nl>>,
         ok      |-> ReplyText("+OK"),
         err     |-> ReplyText("+ERR"),
         profile |-> WithBody("api", "response", ProfileBody),
         status  |-> WithBody("api", "response", StatusBody),
         notice  |-> WithBody("text", "disconnect_notice", <<"x", nl>>)]
Message == DOMAIN Text

\* What each of them says: type, reply status, SIP address, session counts.
Says(msg) == [type    |-> CASE msg = "auth" -> "request"
                            [] msg \in {"ok", "err"} -> "reply"
                            [] msg \in {"profile", "status"} -> "response"
                            [] msg = "notice" -> "disconnect_notice",
              status  |-> CASE msg = "ok" -> "ok" [] msg = "err" -> "err" [] OTHER -> "undefined",
              profile |-> msg = "profile",
              counts  |-> IF msg = "status" THEN <<4, 9>> ELSE <<>>]

-----------------------------------------------------------------------------
VARIABLES
    m_fsMsg,         \* the message under way
    sent,            \* the messages the server has sent, and where each begins
    unread,          \* what has not been read of them
    offset,          \* how much has been read
    cuts,            \* history: where reads have ended
    got              \* what complete messages were found to say

vars == <<m_fsMsg, sent, unread, offset, cuts, got>>

\* A message of which nothing has been read.
Empty == [m_rawMsg |-> <<>>, m_category |-> "unknown_category", m_type |-> "unknown_type",
          m_replyStatus |-> "undefined", m_nContentLength |-> 0, m_strContent |-> <<>>]

Init ==
    /\ m_fsMsg = Empty
    /\ sent = <<>> /\ unread = <<>> /\ offset = 0 /\ cuts = {} /\ got = <<>>

-----------------------------------------------------------------------------
(* The parser *)

\* boost's tokenizer: the lines of s that are not empty, the last perhaps unfinished.
Lines(s) ==
    LET starts == {i \in 1..Len(s) : s[i] # nl /\ (i = 1 \/ s[i - 1] = nl)}
        end(i) == CHOOSE j \in i..Len(s) : /\ \A k \in i..j : s[k] # nl
                                           /\ j < Len(s) => s[j + 1] = nl
        nth(n) == CHOOSE i \in starts : Cardinality({j \in starts : j <= i}) = n
    IN [n \in 1..Cardinality(starts) |-> SubSeq(s, nth(n), end(nth(n)))]

\* atoi of the digits that s begins with.
atoi(s) ==
    LET value(d) == IF d = "0" THEN 0 ELSE CHOOSE n \in 1..9 : Numeral[n] = d
    IN FoldLeft(LAMBDA n, d : 10 * n + value(d), 0, s)

Throw(m) == [msg |-> m, thrown |-> TRUE]
Ok(m) == [msg |-> m, thrown |-> FALSE]

\* The line that is expected first.  A type that cannot be read leaves the category set.
ContentType(m, line) ==
    IF line[1] # "Content-Type: " \/ Len(line) < 3 THEN Throw(m)
    ELSE IF Len(line) = 3 THEN Throw([m EXCEPT !.m_category = line[2]])
         ELSE Ok([m EXCEPT !.m_category = line[2], !.m_type = line[4]])

ReplyTextLine(m, line) ==
    IF m.m_replyStatus # "undefined" \/ line[1] # "Reply-Text: " \/ Len(line) = 1
    THEN Throw(m)
    ELSE Ok([m EXCEPT !.m_replyStatus = IF line[2] = "+OK" THEN "ok" ELSE "err"])

ContentLine(m, line) ==
    IF m.m_nContentLength # 0 THEN Ok([m EXCEPT !.m_strContent = @ \o line \o <<nl>>])
    ELSE IF line[1] # "Content-Length: " THEN Throw(m)
         ELSE Ok([m EXCEPT !.m_nContentLength = atoi(Tail(line))])

ParseLine(state, line) ==
    LET m == state.msg
    IN CASE state.thrown -> state
         [] ~state.thrown /\ m.m_category = "unknown_category" -> ContentType(m, line)
         [] ~state.thrown /\ m.m_category = "command" /\ m.m_type = "reply" ->
              ReplyTextLine(m, line)
         [] ~state.thrown /\ (m.m_category = "text" \/
                              (m.m_category = "api" /\ m.m_type = "response")) ->
              ContentLine(m, line)
         [] OTHER -> state

\* Mutant of parse: it looks at the new data only.
parseData(m, data) ==
    IF m.m_nContentLength > 0 THEN Ok([m EXCEPT !.m_strContent = @ \o data])
    ELSE FoldLeft(ParseLine, Ok(m), Lines(data))

\* Until the length of the content is known, all lines read so far are parsed again.
parse(m, data) ==
    IF m.m_nContentLength > 0 THEN Ok([m EXCEPT !.m_strContent = @ \o data])
    ELSE FoldLeft(ParseLine, Ok(m), Lines(m.m_rawMsg))

\* Mutant of m_bComplete: at least the announced length.
m_bCompleteAtLeast(m) ==
    \/ m.m_type = "request"
    \/ m.m_type = "reply" /\ m.m_replyStatus # "undefined"
    \/ m.m_nContentLength > 0 /\ Len(m.m_strContent) >= m.m_nContentLength

m_bComplete(m) ==
    \/ m.m_type = "request"
    \/ m.m_type = "reply" /\ m.m_replyStatus # "undefined"
    \/ m.m_nContentLength > 0 /\ Len(m.m_strContent) = m.m_nContentLength

\* parseLeadingInteger: a first word with a digit in it, or <<>>.
parseLeadingInteger(line) ==
    IF line[1] \in {"0"} \cup ToSet(Numeral) THEN <<atoi(line)>> ELSE <<>>

\* The two numbers, or <<>>.
getFsStatus(content) ==
    LET lines == Lines(content)
    IN IF Len(lines) < 5 \/ parseLeadingInteger(lines[4]) = <<>>
                         \/ parseLeadingInteger(lines[5]) = <<>>
       THEN <<>>
       ELSE parseLeadingInteger(lines[4]) \o parseLeadingInteger(lines[5])

getSipProfile(content) ==
    \E i \in 1..Len(Lines(content)) : Lines(content)[i] = <<"internal", "address">>

\* What read_handler makes of a complete message.
Understood(m) == [type    |-> m.m_type,
                  status  |-> m.m_replyStatus,
                  profile |-> getSipProfile(m.m_strContent),
                  counts  |-> getFsStatus(m.m_strContent)]

reset == Empty

-----------------------------------------------------------------------------
\* The server answers a command, for which the answer to the last was needed, or
\* announces its shutdown.
Send ==
    /\ Len(sent) < MaxMessages
    /\ \E msg \in Message :
         /\ Len(got) = Len(sent) \/ msg = "notice"
         /\ sent' = Append(sent, [msg |-> msg, start |-> offset + Len(unread)])
         /\ unread' = unread \o Text[msg]
    /\ UNCHANGED <<m_fsMsg, offset, cuts, got>>

\* read_handler with n atoms: append, and if the message is complete, its use and reset.
Read(n) ==
    LET data == SubSeq(unread, 1, n)
        parsed == parse([m_fsMsg EXCEPT !.m_rawMsg = @ \o data], data)
    IN /\ Cardinality(cuts) < MaxReads
       /\ unread' = SubSeq(unread, n + 1, Len(unread))
       /\ offset' = offset + n
       /\ cuts' = cuts \cup {offset'}
       /\ IF m_bComplete(parsed.msg) /\ ~parsed.thrown
          THEN /\ got' = Append(got, Understood(parsed.msg))
               /\ m_fsMsg' = reset
          ELSE /\ m_fsMsg' = parsed.msg
               /\ UNCHANGED got
       /\ UNCHANGED sent

Next == Send \/ \E n \in 1..Len(unread) : Read(n)

Spec == Init /\ [][Next]_vars

-----------------------------------------------------------------------------
(* How message i was cut: the places within it where reads have ended. *)

Cuts(i) == {k \in 1..Len(Text[sent[i].msg]) : sent[i].start + k \in cuts}

\* Places in a message after which there are but line ends, and the ends of its header and
\* of the lines of its body.
Tails == [msg \in Message |->
    {k \in 1..Len(Text[msg]) : \A j \in (k + 1)..Len(Text[msg]) : Text[msg][j] = nl}]
LineEnds == [msg \in Message |->
    {k \in 1..Len(Text[msg]) : /\ \E h \in 2..k : Text[msg][h] = nl /\ Text[msg][h - 1] = nl
                               /\ Text[msg][k] = nl}]

\* The first cut after the category, if it is not where the message is all there, is at
\* the end of the header or of a line of the body; from there on any cut will do if the
\* next message is not joined to this one.
WellCut(i) ==
    LET late == {k \in Cuts(i) : k > 2}
    IN /\ late # {}
       /\ \/ Min(late) \in Tails[sent[i].msg]
          \/ Min(late) \in LineEnds[sent[i].msg] /\ Len(Text[sent[i].msg]) \in Cuts(i)

\* Messages that are cut well are understood as the server meant them, whatever newlines
\* of the one before are left over and in however many pieces they come.
WellCutUnderstood ==
    \A n \in 1..Len(sent) : (\A i \in 1..n : WellCut(i)) =>
        /\ Len(got) >= n
        /\ \A i \in 1..n : got[i] = Says(sent[i].msg)

\* A message cut in two anywhere else is never complete, and so no later one is either,
\* the notice of a shutdown included: FsInstance reads on for ever.  (Cut in the text of
\* a reply it is complete, and what is left spoils the next.)
BadlyCutSpoils ==
    \A n \in 1..Len(sent) :
        LET text == Text[sent[n].msg]
        IN \A k \in 3..(Len(text) - 1) :
             (\A i \in 1..(n - 1) : WellCut(i)) /\ ~WellCut(n) /\ Cuts(n) = {k, Len(text)} =>
                \/ Len(got) < n
                \/ Len(got) = n /\ text[k] \in {"+OK", "+ERR"}

=============================================================================
