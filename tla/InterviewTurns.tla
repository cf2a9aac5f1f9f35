---------------------------- MODULE InterviewTurns ----------------------------
(***************************************************************************)
(* The turns of one interview against Mitra's own transcript.               *)
(*                                                                          *)
(* Frames carry no id of the message they answer, so a turn takes whatever  *)
(* bot frames come next.  A turn that stops waiting is reconciled against    *)
(* Mitra's transcript by the text it sent, automatically after a timeout    *)
(* and later by the client's "Check for reply" button; only the verdict     *)
(* "not delivered" makes the client send the text again.                    *)
(*                                                                          *)
(* The remote session is stored already (its first turn is in               *)
(* MitraChannels).  Mitra is modelled from how the code uses it: one row    *)
(* per message, consecutive messages of a sender merged, an echo per        *)
(* message, and per answered row a reply of one or two frames; or an error  *)
(* instead of it.                                                           *)
(***************************************************************************)
EXTENDS Naturals, SequencesExt, FrameParser

CONSTANTS
  Texts,      \* what a user may answer
  BotReplies, \* the envelopes of a reply: sequences of one or two
  BotErrors,  \* the envelopes of an error
  PageTail,   \* recent_chat: tail
  PageSize,   \* Mitra's PAGE_SIZE
  MaxTurns,   \* bound: turns, the client's second attempts included
  MaxFaults,  \* bound: connections the network drops and errors of Mitra
  MaxChecks   \* bound: presses of "Check for reply"

ASSUME InterviewConstants ==
  /\ BotReplies \subseteq Seq(Envelope) /\ BotErrors \subseteq Envelope
  /\ PageTail \in Nat \ {0} /\ PageSize \in Nat \ {0}
  /\ MaxTurns \in Nat /\ MaxFaults \in Nat /\ MaxChecks \in Nat

\* Mitra's replies are the bot's, their last frame and no other ends the turn, and they hold a
\* text or a payload; an error raises.
ASSUME MitraFrames ==
  /\ \A es \in BotReplies :
       /\ Len(es) \in 1..2
       /\ \A i \in 1..Len(es) :
            parse(es[i]).source = "bot" /\ (parse(es[i]).finish <=> i = Len(es))
       /\ \E i \in 1..Len(es) : parse(es[i]).msg \/ parse(es[i]).control
  /\ \A e \in BotErrors : Raises(parse(e))

VARIABLES
  log,       \* Mitra: the rows of CompanyChat
  up,        \* messages on their way to Mitra
  wire,      \* frames on their way to the turn, the reader's queue included
  alive,     \* the channel is open
  said,      \* the user messages Saarthi stored, one per turn
  pc, sends, got, count,   \* the turn: program point, sends, frames or row, recent_chat's count
  replies,   \* the assistant messages Saarthi stored
  items,     \* client: turns that show "Check for reply"
  check,     \* the resume request: program point, item, text and turn asked for, count
  slipped,   \* history: a turn gave up, was flushed, or was sent twice
  faults, checks

turnVars == <<pc, sends, got, count>>
mitraVars == <<log, up, wire, alive>>
vars == <<mitraVars, said, turnVars, replies, items, check, slipped, faults, checks>>

Turns == 1..MaxTurns
Row == [user : BOOLEAN, text : Seq(Texts), turns : Seq(Turns), over : BOOLEAN]
\* What the reader thread queued, and (history) the turns and the part of the reply it is.
Frame == [parsed : ParsedFrame, turns : Seq(Turns), part : 1..2]
\* A frame the turn took; part 0: a recovered row.
Answer == [turns : Seq(Turns), part : 0..2, fin : BOOLEAN, msg : BOOLEAN, control : BOOLEAN]
Reply == [turn : Turns, asked : Seq(Texts), by : {"socket", "recovery", "resume"},
          parts : Seq(Answer), own : BOOLEAN, polled : BOOLEAN, done : BOOLEAN, over : BOOLEAN]
NoCheck == [at |-> "idle", item |-> 0, turn |-> 0, count |-> 0]

TypeOK ==
  /\ log \in Seq(Row) /\ wire \in Seq(Frame) /\ alive \in BOOLEAN
  /\ up \in Seq(Turns) /\ said \in Seq(Texts)
  /\ pc \in {"idle", "await", "count", "page", "store", "recovered"}
  /\ sends \in 0..2 /\ count \in Nat
  /\ got \in Seq(Answer) /\ replies \in Seq(Reply)
  /\ items \subseteq Turns /\ slipped \in BOOLEAN
  /\ check \in [at : {"idle", "count", "page", "resend"}, item : Nat, turn : Nat, count : Nat]
  /\ faults \in Nat /\ checks \in Nat

Init ==
  /\ log = <<>> /\ up = <<>> /\ wire = <<>> /\ alive = TRUE
  /\ said = <<>> /\ replies = <<>> /\ items = {}
  /\ pc = "idle" /\ sends = 0 /\ got = <<>> /\ count = 0
  /\ check = NoCheck /\ slipped = FALSE
  /\ faults = 0 /\ checks = 0

Turn == Len(said)
-----------------------------------------------------------------------------
(* Mitra.                                                                  *)

AwaitsReply == log # <<>> /\ Last(log).user
Over == \E i \in DOMAIN log : log[i].over
Frames(envelopes, turns) ==
  [i \in DOMAIN envelopes |-> [parsed |-> parse(envelopes[i]), turns |-> turns, part |-> i]]
Emit(frames) == wire' = IF alive THEN wire \o frames ELSE wire
Echo == [shape |-> "text", source |-> "user", type |-> "other", msg |-> "text",
         error |-> FALSE, finish |-> FALSE]

MitraRecords ==
  /\ up # <<>>
  /\ LET t == Head(up)
         old == IF AwaitsReply THEN Last(log) ELSE [text |-> <<>>, turns |-> <<>>]
         row == [user |-> TRUE, text |-> Append(old.text, said[t]),
                 turns |-> Append(old.turns, t), over |-> FALSE]
     IN  /\ log' = Append(IF AwaitsReply THEN Front(log) ELSE log, row)
         /\ Emit(Frames(<<Echo>>, <<>>))
  /\ up' = Tail(up)
  /\ UNCHANGED <<alive, said, turnVars, replies, items, check, slipped, faults, checks>>

MitraReplies ==
  /\ AwaitsReply /\ ~Over
  /\ \E over \in BOOLEAN, frames \in {Frames(es, Last(log).turns) : es \in BotReplies} :
       /\ log' = Append(log, [user |-> FALSE, text |-> <<>>, turns |-> Last(log).turns,
                              over |-> over])
       /\ Emit(frames)
  /\ UNCHANGED <<up, alive, said, turnVars, replies, items, check, slipped, faults, checks>>

(* A message that Mitra could not process: no row answers it.              *)
MitraErrs ==
  /\ AwaitsReply /\ ~Over /\ alive /\ faults < MaxFaults
  /\ \E frames \in {Frames(<<e>>, Last(log).turns) : e \in BotErrors} : Emit(frames)
  /\ faults' = faults + 1
  /\ UNCHANGED <<log, up, alive, said, turnVars, replies, items, check, slipped, checks>>

(* The connection breaks: its unread frames are lost, and so may be the     *)
(* messages that have not reached Mitra.                                   *)
Drop ==
  /\ alive /\ faults < MaxFaults
  /\ alive' = FALSE /\ wire' = <<>>
  /\ \E n \in 0..Len(up) : up' = SubSeq(up, 1, n)
  /\ faults' = faults + 1
  /\ UNCHANGED <<log, said, turnVars, replies, items, check, slipped, checks>>
-----------------------------------------------------------------------------
(* A turn.                                                                 *)

Goto(p) == pc' = p
Finished == \E i \in DOMAIN replies : replies[i].done

(* acquire opens a channel when there is none; _drain_stale drops the       *)
(* frames that have arrived, and the text goes out.                        *)
Send(t) ==
  /\ alive' = TRUE
  /\ \E n \in 0..Len(wire) : wire' = SubSeq(wire, n + 1, Len(wire))
  /\ up' = Append(up, t)
  /\ got' = <<>>
Say(text) ==
  /\ pc = "idle" /\ Turn < MaxTurns /\ ~Finished
  /\ said' = Append(said, text)
  /\ Send(Turn + 1)
  /\ sends' = 1 /\ count' = 0
  /\ Goto("await")
StartTurn ==
  /\ \E text \in Texts : Say(text)
  /\ UNCHANGED <<log, replies, items, check, slipped, faults, checks>>

Taken(f) == [turns |-> f.turns, part |-> f.part, fin |-> EndsTurn(f.parsed),
             msg |-> f.parsed.msg, control |-> f.parsed.control]
Receive ==
  /\ pc = "await" /\ alive /\ wire # <<>> /\ ~Raises(Head(wire).parsed)
  /\ wire' = Tail(wire)
  /\ LET f == Head(wire)
     IN  IF Discarded(f.parsed) THEN UNCHANGED <<got, pc>>
         ELSE /\ got' = Append(got, Taken(f))
              /\ Goto(IF EndsTurn(f.parsed) THEN "store" ELSE "await")
  /\ UNCHANGED <<log, up, alive, said, sends, count, replies, items, check, slipped, faults, checks>>
(* MitraRemoteError: the turn fails and nobody looks for a reply.           *)
RemoteError ==
  /\ pc = "await" /\ alive /\ wire # <<>> /\ Raises(Head(wire).parsed)
  /\ wire' = Tail(wire)
  /\ Goto("idle")
  /\ slipped' = TRUE
  /\ UNCHANGED <<log, up, alive, said, sends, got, count, replies, items, check, faults, checks>>

(* The idle gap or the deadline passes: a text, or a payload that was       *)
(* leaked, is the reply; silence and empty frames are a MitraTurnTimeout.   *)
Heard == \E i \in DOMAIN got : got[i].msg \/ got[i].control
Flush ==
  /\ pc = "await" /\ alive /\ Heard
  /\ Goto("store")
  /\ slipped' = TRUE
  /\ UNCHANGED <<mitraVars, said, sends, got, count, replies, items, check, faults, checks>>
TimeoutIfHeard ==                    \* variant: only a gap after the first frame ends the wait
  /\ pc = "await" /\ alive /\ got # <<>> /\ ~Heard
  /\ Goto("count")
  /\ slipped' = TRUE
  /\ UNCHANGED <<mitraVars, said, sends, got, count, replies, items, check, faults, checks>>
Timeout ==
  /\ pc = "await" /\ alive /\ ~Heard
  /\ Goto("count")
  /\ slipped' = TRUE
  /\ UNCHANGED <<mitraVars, said, sends, got, count, replies, items, check, faults, checks>>
(* MitraChannelClosed: a new channel and the same text once more.          *)
Resend ==
  /\ pc = "await" /\ ~alive /\ sends = 1
  /\ Send(Turn)
  /\ sends' = 2 /\ slipped' = TRUE
  /\ UNCHANGED <<log, said, pc, count, replies, items, check, faults, checks>>
SecondLoss ==
  /\ pc = "await" /\ ~alive /\ sends = 2
  /\ Goto("idle")
  /\ UNCHANGED <<mitraVars, said, sends, got, count, replies, items, check, slipped, faults, checks>>
-----------------------------------------------------------------------------
(* recent_chat and reconcile.                                              *)

Min2(a, b) == IF a < b THEN a ELSE b
OffsetNone(n) == 0                   \* variant: the first page is read
Offset(n) == IF n > PageTail THEN n - PageTail ELSE 0
PageAfter(n) == SubSeq(log, Offset(n) + 1, Min2(Offset(n) + PageTail, Len(log)))

Matches(row, text) == row.user /\ row.text = <<text>>
MatchNewest(rows, text) ==           \* variant: only the newest row is compared
  IF rows # <<>> /\ Matches(Last(rows), text) THEN Len(rows) ELSE 0
Match(rows, text) ==
  LET I == {i \in DOMAIN rows : Matches(rows[i], text)}
  IN  IF I = {} THEN 0 ELSE CHOOSE i \in I : \A j \in I : j <= i
BotRowsAfter(rows, i) == {j \in DOMAIN rows : j > i /\ ~rows[j].user}
ReplyRow(rows, i) ==
  CHOOSE j \in BotRowsAfter(rows, i) : \A k \in BotRowsAfter(rows, i) : j <= k

NotDelivered(rows, text) == Match(rows, text) = 0
Answered(rows, text) == ~NotDelivered(rows, text) /\ BotRowsAfter(rows, Match(rows, text)) # {}
Recovered(rows, text) ==
  <<[turns |-> rows[ReplyRow(rows, Match(rows, text))].turns, part |-> 0, fin |-> TRUE,
    msg |-> TRUE, control |-> FALSE]>>

(* _recover_timed_out_turn: two requests, and Mitra writes in between.      *)
CountRows ==
  /\ pc = "count"
  /\ count' = Len(log)
  /\ Goto("page")
  /\ UNCHANGED <<mitraVars, said, sends, got, replies, items, check, slipped, faults, checks>>
RecoverReply ==
  /\ pc = "page" /\ count > 0
  /\ LET rows == PageAfter(count)
     IN  Answered(rows, said[Turn]) /\ got' = Recovered(rows, said[Turn])
  /\ Goto("recovered")
  /\ UNCHANGED <<mitraVars, said, sends, count, replies, items, check, slipped, faults, checks>>
(* PENDING, NOT_DELIVERED or a request that failed: the client gets the     *)
(* timeout and shows "Check for reply".                                    *)
SurfaceTimeoutNext ==                \* variant: the item is filed under the next message
  /\ pc \in {"count", "page"}
  /\ Goto("idle")
  /\ items' = items \cup {Turn + 1}
  /\ UNCHANGED <<mitraVars, said, sends, got, count, replies, check, slipped, faults, checks>>
SurfaceTimeout ==
  /\ pc \in {"count", "page"}
  /\ Goto("idle")
  /\ items' = items \cup {Turn}
  /\ UNCHANGED <<mitraVars, said, sends, got, count, replies, check, slipped, faults, checks>>

(* is_session_completed reads the last row of the FIRST page.               *)
PollFirstRow == log # <<>> /\ log[1].over     \* variant: results[0]
PollCompleted == log # <<>> /\ log[Min2(PageSize, Len(log))].over
OwnRow(n) == \E i \in DOMAIN log : i <= n /\ log[i].user /\ log[i].turns = <<Turn>>
StoreReply(by, polled) ==
  replies' = Append(replies,
    [turn |-> Turn, asked |-> <<said[Turn]>>, by |-> by, parts |-> got,
     own |-> sends = 1 /\ OwnRow(count), polled |-> polled,
     done |-> polled /\ PollCompleted, over |-> log # <<>> /\ Last(log).over])
Store ==
  /\ pc = "store" /\ StoreReply("socket", TRUE)
  /\ Goto("idle")
  /\ UNCHANGED <<mitraVars, said, sends, got, count, items, check, slipped, faults, checks>>
(* After a recovery a failed poll is swallowed.                            *)
StoreRecovered ==
  /\ pc = "recovered" /\ \E polled \in BOOLEAN : StoreReply("recovery", polled)
  /\ Goto("idle")
  /\ UNCHANGED <<mitraVars, said, sends, got, count, items, check, slipped, faults, checks>>
(* The poll raises inside the handler: the reply is lost with the turn.     *)
StoreFails ==
  /\ pc = "store"
  /\ Goto("idle")
  /\ slipped' = TRUE
  /\ UNCHANGED <<mitraVars, said, sends, got, count, replies, items, check, faults, checks>>
-----------------------------------------------------------------------------
(* "Check for reply": POST /resume.  It takes no turn lock, and it asks for *)
(* the newest user message, whichever item was pressed.                    *)

StartCheck ==
  /\ check.at = "idle" /\ checks < MaxChecks
  /\ \E t \in items : check' = [at |-> "count", item |-> t, turn |-> Turn, count |-> 0]
  /\ checks' = checks + 1
  /\ UNCHANGED <<mitraVars, said, turnVars, replies, items, slipped, faults>>
CheckCount ==
  /\ check.at = "count"
  /\ check' = [check EXCEPT !.at = "page", !.count = Len(log)]
  /\ UNCHANGED <<mitraVars, said, turnVars, replies, items, slipped, faults, checks>>
CheckAnswered ==
  /\ check.at = "page" /\ check.count > 0
  /\ LET rows == PageAfter(check.count)
         text == said[check.turn]
     IN  /\ Answered(rows, text)
         /\ replies' = Append(replies,
              [turn |-> check.turn, asked |-> <<text>>, by |-> "resume",
               parts |-> Recovered(rows, text), own |-> FALSE,
               polled |-> FALSE, done |-> FALSE, over |-> FALSE])
  /\ items' = items \ {check.item}
  /\ check' = NoCheck
  /\ UNCHANGED <<mitraVars, said, turnVars, slipped, faults, checks>>
(* PENDING until the attempts are used up, or an error: the item stays.     *)
CheckUnsettled ==
  /\ check.at = "page"
  /\ check.count > 0 /\ ~NotDelivered(PageAfter(check.count), said[check.turn])
  /\ check' = NoCheck
  /\ UNCHANGED <<mitraVars, said, turnVars, replies, items, slipped, faults, checks>>
CheckNotDelivered ==
  /\ check.at = "page"
  /\ check.count = 0 \/ NotDelivered(PageAfter(check.count), said[check.turn])
  /\ items' = items \ {check.item}
  /\ check' = [check EXCEPT !.at = "resend"]
  /\ UNCHANGED <<mitraVars, said, turnVars, replies, slipped, faults, checks>>
(* can_resend: the client sends the text of the item it pressed, unless     *)
(* another turn is running.                                                *)
SayAgain ==
  /\ check.at = "resend"
  /\ Say(said[check.item])
  /\ check' = NoCheck
  /\ slipped' = TRUE
  /\ UNCHANGED <<log, replies, items, faults, checks>>
SayAgainBusy ==
  /\ check.at = "resend" /\ (pc # "idle" \/ Finished \/ Turn = MaxTurns)
  /\ check' = NoCheck
  /\ UNCHANGED <<mitraVars, said, turnVars, replies, items, slipped, faults, checks>>
-----------------------------------------------------------------------------
Mitra == MitraRecords \/ MitraReplies \/ MitraErrs
TurnStep ==
  \/ Receive \/ RemoteError \/ Flush \/ Timeout \/ Resend \/ SecondLoss
  \/ CountRows \/ RecoverReply \/ SurfaceTimeout
  \/ Store \/ StoreRecovered \/ StoreFails
CheckStep ==
  CheckCount \/ CheckAnswered \/ CheckUnsettled \/ CheckNotDelivered \/ SayAgain \/ SayAgainBusy
Next == Mitra \/ Drop \/ StartTurn \/ TurnStep \/ StartCheck \/ CheckStep

Spec == Init /\ [][Next]_vars

(* Saarthi's own threads run and its waits have deadlines; Mitra and the    *)
(* user owe nothing.                                                       *)
FairSpec == Spec /\ WF_vars(TurnStep) /\ WF_vars(CheckStep)
-----------------------------------------------------------------------------
(* Properties.                                                             *)

AnswersTurn(r) == \A i \in DOMAIN r.parts : r.parts[i].turns = <<r.turn>>
Complete(r) == r.parts # <<>> /\ r.parts[1].part <= 1 /\ Last(r.parts).fin
Shown(r) == \E i \in DOMAIN r.parts : r.parts[i].msg \/ r.parts[i].control

(* send_and_await_turn: although frames carry no id, as long as no turn     *)
(* gave up, was flushed or was sent twice, every stored reply is the whole  *)
(* reply to its own turn, and shows a text or the notice that Mitra's was   *)
(* unreadable.                                                              *)
InStep == ~slipped => \A i \in DOMAIN replies :
  AnswersTurn(replies[i]) /\ Complete(replies[i]) /\ Shown(replies[i])

(* send_and_await_turn: whatever was lost before, the frames of two replies *)
(* of Mitra are never joined into one message.                             *)
NeverSpliced == \A i \in DOMAIN replies : \A j \in DOMAIN replies[i].parts :
  /\ replies[i].parts[j].turns = replies[i].parts[1].turns
  /\ replies[i].parts[j].fin => j = Len(replies[i].parts)

(* recent_chat and reconcile: a recovered reply answers a row that says,    *)
(* alone, what the turn said: never a merged row and never another          *)
(* question's answer.  When Mitra had recorded the one copy of the message  *)
(* in a row of its own before the rows were counted, it is the reply to     *)
(* that message, however often the text was said before and whatever Mitra  *)
(* writes between the two requests.                                        *)
RecoveredAnswersTurn == \A i \in DOMAIN replies : replies[i].by # "socket" =>
  /\ \E j \in DOMAIN log : /\ log[j].user /\ log[j].turns = replies[i].parts[1].turns
                           /\ log[j].text = replies[i].asked
  /\ replies[i].by = "recovery" /\ replies[i].own => AnswersTurn(replies[i])

(* rest_client.py:252-268, is_session_completed: "True if the last          *)
(* CompanyChat row has status == COMPLETED".                               *)
CompletionSeen == \A i \in DOMAIN replies :
  replies[i].polled /\ replies[i].over => replies[i].done

(* reconcile: a message that Mitra had recorded in a row of its own among   *)
(* the last PageTail of the counted ones is never called not delivered, so  *)
(* the client does not send it again, whatever Mitra writes before the page *)
(* is read.                                                                 *)
ReceivedIsNotDenied ==
  [][check.at = "page" /\ check'.at = "resend" =>
       ~ \E i \in DOMAIN log : /\ i <= check.count /\ check.count < i + PageTail
                              /\ log[i].user /\ log[i].turns = <<check.turn>>]_vars

(* send_and_await_turn and runResume: every turn and every check ends,      *)
(* whatever Mitra does.                                                     *)
WaitsEnd ==
  /\ pc # "idle" ~> pc = "idle"
  /\ check.at # "idle" ~> check.at = "idle"

(* turn_recovery.py:8-10: a late frame is discarded "at the start of the    *)
(* next turn", so a turn takes no other turn's frames for its reply.        *)
LateFramesDiscarded == \A i \in DOMAIN replies :
  replies[i].by = "socket" => \A j \in DOMAIN replies[i].parts :
     replies[i].turn \in {replies[i].parts[j].turns[n] : n \in DOMAIN replies[i].parts[j].turns}
=============================================================================
