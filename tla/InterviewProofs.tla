---------------------------- MODULE InterviewProofs ----------------------------
(***************************************************************************)
(* The turns of one interview and Mitra's transcript, for any texts, replies *)
(* and errors of Mitra, any page sizes, and any number of turns, faults and  *)
(* checks; and first, the frames of Mitra's messages.                       *)
(*                                                                          *)
(* InterviewInv is inductive.  RowsOK is what Mitra's transcript looks like: *)
(* questions and answers alternate, an answer answers the question before   *)
(* it, and a question's text is what its turns said.  SentOnce is why the    *)
(* newest matching row is the turn's own: a message sent once has no later   *)
(* question behind it.  WireOK and GotOK keep the two frames of a reply      *)
(* together, and InStepInv is the one-to-one exchange that lasts until       *)
(* something slips.                                                         *)
(***************************************************************************)
EXTENDS InterviewTurns, WellFoundedInduction, TLAPS

-----------------------------------------------------------------------------
(* What the parser and the turn loop do with every envelope, whichever       *)
(* combination of shape, sender, type, text, error and finish Mitra sends.   *)

(* The shapes of envelope as parse tells them apart.                         *)
LEMMA Shapes ==
  ASSUME NEW e \in Envelope
  PROVE  /\ e.shape \in {"text", "string", "typed", "broken"} /\ e.source \in Sources
         /\ e.type \in Types /\ e.msg \in {"text", "none", "leaked", "leaked reply"}
         /\ e.error \in BOOLEAN /\ e.finish \in BOOLEAN
  BY DEF Envelope

(* Whatever FrameFor is given, the result is a frame.                        *)
LEMMA FrameForTyped ==
  ASSUME NEW e, NEW source \in Sources, NEW error \in BOOLEAN, NEW finish \in BOOLEAN
  PROVE  FrameFor(e, source, error, finish) \in ParsedFrame
<1>1. HasText(e) \in BOOLEAN /\ IsControl(e) \in BOOLEAN
  BY DEF HasText, IsControl
<1> QED
  BY <1>1 DEF FrameFor, ParsedFrame

(* parse never raises: every envelope becomes a frame with all its fields.   *)
THEOREM ParseTotal == \A e \in Envelope : parse(e) \in ParsedFrame
<1> SUFFICES ASSUME NEW e \in Envelope PROVE parse(e) \in ParsedFrame
  OBVIOUS
<1>1. CASE e.shape = "text"
  <2>1. parse(e) = parse_text_envelope(e)
    BY <1>1 DEF parse
  <2>2. CASE e.source = "user"
    BY <2>1, <2>2, FrameForTyped DEF parse_text_envelope, Sources
  <2>3. CASE e.source # "user" /\ (e.source = "system" \/ e.error)
    <3>1. parse(e) = FrameFor(e, e.source, e.error \/ HasText(e), FALSE)
      BY <2>1, <2>3 DEF parse_text_envelope
    <3>2. (e.error \/ HasText(e)) \in BOOLEAN
      OBVIOUS
    <3> QED
      BY <3>1, <3>2, FrameForTyped, Shapes
  <2>4. CASE e.source # "user" /\ ~(e.source = "system" \/ e.error)
    <3>1. parse(e) = FrameFor(e, e.source, FALSE, e.finish)
      BY <2>1, <2>4 DEF parse_text_envelope
    <3> QED
      BY <3>1, FrameForTyped, Shapes
  <2> QED
    BY <2>2, <2>3, <2>4
<1>2. CASE e.shape = "typed"
  <2>1. parse(e) = parse_legacy_envelope(e)
    BY <1>2 DEF parse
  <2>2. CASE e.type \in {"status", "error"}
    <3>1. (e.error \/ HasText(e)) \in BOOLEAN
      OBVIOUS
    <3> QED
      BY <2>1, <2>2, <3>1, FrameForTyped, Shapes DEF parse_legacy_envelope, Sources
  <2>3. CASE e.type \in {"options", "message"}
    BY <2>1, <2>3, FrameForTyped, Shapes DEF parse_legacy_envelope, Sources
  <2>4. CASE e.type = "other"
    <3>1. parse(e) = [FrameFor(e, e.source, TRUE, FALSE) EXCEPT !.control = FALSE]
      BY <2>1, <2>4 DEF parse_legacy_envelope
    <3>2. FrameFor(e, e.source, TRUE, FALSE) \in ParsedFrame
      BY FrameForTyped, Shapes
    <3> QED
      BY <3>1, <3>2 DEF ParsedFrame
  <2> QED
    BY <2>2, <2>3, <2>4, Shapes DEF Types
<1>3. CASE e.shape \in {"string", "broken"}
  BY <1>3, Shapes DEF parse, ParsedFrame, Sources
<1> QED
  BY <1>1, <1>2, <1>3, Shapes

(* The user's own words never come back as a reply and never fail a turn,    *)
(* whatever else the echo carries: the sender is looked at before the error. *)
THEOREM EchoIgnored ==
  \A e \in Envelope : e.shape = "text" /\ e.source = "user" =>
    Discarded(parse(e)) /\ ~Raises(parse(e))
  BY DEF parse, parse_text_envelope, FrameFor, Discarded, Raises

(* An internal object of Mitra's that holds no response never puts text into *)
(* a reply, in any envelope; and one that ends a turn is marked, so that the *)
(* turn shows a notice and not an empty message (a bare string is no object).*)
THEOREM LeakNeverShown ==
  \A e \in Envelope : e.msg = "leaked" =>
    /\ ~parse(e).msg
    /\ ~Discarded(parse(e)) /\ EndsTurn(parse(e)) /\ e.shape # "string" => parse(e).control
<1> SUFFICES ASSUME NEW e \in Envelope, e.msg = "leaked"
             PROVE  /\ ~parse(e).msg
                    /\ ~Discarded(parse(e)) /\ EndsTurn(parse(e)) /\ e.shape # "string"
                         => parse(e).control
  OBVIOUS
<1>1. CASE e.shape = "text"
  BY <1>1, Shapes DEF parse, parse_text_envelope, FrameFor, HasText, IsControl
<1>2. CASE e.shape = "typed"
  BY <1>2, Shapes DEF parse, parse_legacy_envelope, FrameFor, HasText, IsControl, EndsTurn
<1>3. CASE e.shape \in {"string", "broken"}
  BY <1>3 DEF parse, EndsTurn
<1> QED
  BY <1>1, <1>2, <1>3, Shapes

(* A turn ends as answered only on a frame of the bot that carries no error, *)
(* and only if Mitra marked it as the last one or it offers options.         *)
THEOREM OnlyBotFinishes ==
  \A e \in Envelope : LET f == parse(e) IN
    ~Discarded(f) /\ ~Raises(f) /\ EndsTurn(f) =>
      f.source = "bot" /\ ~f.error /\ (e.finish \/ e.type = "options")
<1> SUFFICES ASSUME NEW e \in Envelope,
                    ~Discarded(parse(e)), ~Raises(parse(e)), EndsTurn(parse(e))
             PROVE  parse(e).source = "bot" /\ ~parse(e).error /\ (e.finish \/ e.type = "options")
  OBVIOUS
<1>1. parse(e).source = "bot"
  BY DEF Discarded
<1>2. CASE e.shape = "text"
  BY <1>1, <1>2, Shapes DEF parse, parse_text_envelope, FrameFor, EndsTurn
<1>3. CASE e.shape = "typed"
  BY <1>1, <1>3, Shapes DEF parse, parse_legacy_envelope, FrameFor, EndsTurn
<1>4. CASE e.shape \in {"string", "broken"}
  BY <1>1, <1>4, Shapes DEF parse, EndsTurn
<1> QED
  BY <1>1, <1>2, <1>3, <1>4, Shapes

-----------------------------------------------------------------------------
(* The inductive invariant.                                                *)

FromBot(f) == f.parsed.source = "bot"

(* Mitra's rows.                                                           *)
RowOK(j) ==
  /\ log[j].turns # <<>> /\ \A k \in DOMAIN log[j].turns : log[j].turns[k] \in 1..Turn
  /\ ~log[j].user => j > 1 /\ log[j - 1].user /\ log[j].turns = log[j - 1].turns
  /\ log[j].user =>
       /\ j > 1 => ~log[j - 1].user
       /\ Len(log[j].text) = Len(log[j].turns)
       /\ \A k \in DOMAIN log[j].turns : log[j].text[k] = said[log[j].turns[k]]
RowsOK == \A j \in DOMAIN log : RowOK(j)
NumbersOK ==
  /\ Turn <= MaxTurns /\ (pc # "idle" => Turn > 0 /\ sends > 0)
  /\ \A k \in DOMAIN up : up[k] \in 1..Turn
  /\ items \subseteq 1..Turn /\ count <= Len(log) /\ check.count <= Len(log)
  /\ check.at # "idle" => check.item \in 1..Turn /\ check.turn \in 1..Turn

(* Where the one copy of the turn's message is: still on its way or lost, or *)
(* in the last question.                                                   *)
Says(row, t) == \E k \in DOMAIN row.turns : row.turns[k] = t
SentOnce == sends <= 1 =>
  \/ /\ \A j \in DOMAIN log : ~Says(log[j], Turn)
     /\ \A k \in DOMAIN up : up[k] = Turn => k = Len(up)
  \/ /\ up = <<>>
     /\ \A j \in DOMAIN log : log[j].user /\ Says(log[j], Turn) => Len(log) <= j + 1

(* A frame of a reply that does not end it is followed by the one that does. *)
WireOK ==
  /\ ~alive => wire = <<>>
  /\ \A i \in DOMAIN wire : FromBot(wire[i]) /\ ~EndsTurn(wire[i].parsed) =>
       /\ i + 1 \in DOMAIN wire /\ FromBot(wire[i + 1]) /\ EndsTurn(wire[i + 1].parsed)
       /\ wire[i + 1].turns = wire[i].turns
OneReply(parts) == \A j \in DOMAIN parts :
  parts[j].turns = parts[1].turns /\ (parts[j].fin => j = Len(parts))
GotOK ==
  /\ pc = "await" =>
       \/ got = <<>>
       \/ /\ Len(got) = 1 /\ ~got[1].fin
          /\ alive => /\ wire # <<>> /\ FromBot(wire[1]) /\ EndsTurn(wire[1].parsed)
                      /\ wire[1].turns = got[1].turns
  /\ pc \in {"store", "recovered"} => OneReply(got)

(* A recovered reply is a row of Mitra's after a question.                  *)
RepliedTo(turns, text) == \E j \in DOMAIN log :
  j < Len(log) /\ log[j].user /\ log[j].turns = turns /\ log[j].text = text
RecoveredOK ==
  /\ pc = "recovered" =>
       /\ Len(got) = 1 /\ RepliedTo(got[1].turns, <<said[Turn]>>)
       /\ sends = 1 /\ OwnRow(count) => got[1].turns = <<Turn>>
  /\ \A i \in DOMAIN replies : replies[i].by # "socket" =>
       /\ RepliedTo(replies[i].parts[1].turns, replies[i].asked)
       /\ replies[i].by = "recovery" /\ replies[i].own => AnswersTurn(replies[i])

(* The exchange before anything slips: the message is on its way, or it      *)
(* waits for a reply, or the reply is coming in.                            *)
Quiet == \A i \in DOMAIN wire : Discarded(wire[i].parsed)
Coming(es) ==
  \/ /\ got = <<>>
     /\ \E n \in Nat : /\ Len(wire) = n + Len(es)
                       /\ \A i \in 1..n : ~FromBot(wire[i])
                       /\ \A i \in 1..Len(es) : wire[n + i] = Frames(es, <<Turn>>)[i]
  \/ /\ Len(es) = 2 /\ got = <<Taken(Frames(es, <<Turn>>)[1])>>
     /\ wire = <<Frames(es, <<Turn>>)[2]>>
Underway == up = <<Turn>> /\ ~AwaitsReply /\ got = <<>> /\ Quiet
Recorded ==
  /\ up = <<>> /\ AwaitsReply /\ Last(log).turns = <<Turn>>
  /\ got = <<>> /\ \A i \in DOMAIN wire : ~FromBot(wire[i])
Replied == up = <<>> /\ ~AwaitsReply /\ \E es \in BotReplies : Coming(es)
GoodParts(t, parts) ==
  /\ \A i \in DOMAIN parts : parts[i].turns = <<t>>
  /\ parts # <<>> /\ parts[1].part <= 1 /\ Last(parts).fin
  /\ \E i \in DOMAIN parts : parts[i].msg \/ parts[i].control
InStepInv == ~slipped =>
  /\ pc \in {"idle", "await", "store"} /\ sends <= 1 /\ items = {} /\ check.at = "idle"
  /\ pc # "await" => up = <<>> /\ ~AwaitsReply /\ Quiet
  /\ pc = "await" /\ alive => Underway \/ Recorded \/ Replied
  /\ pc = "store" => GoodParts(Turn, got)

(* Every send adds a message, and every message at most a row and a reply.  *)
Traffic == Len(log) + (IF AwaitsReply THEN 1 ELSE 0) + 2 * Len(up)
TrafficOK == Traffic <= 4 * Turn /\ (sends = 1 => Traffic + 2 <= 4 * Turn)

InterviewInv ==
  /\ TypeOK /\ NumbersOK /\ RowsOK /\ SentOnce /\ WireOK /\ GotOK /\ NeverSpliced
  /\ RecoveredOK /\ InStepInv /\ InStep /\ TrafficOK
-----------------------------------------------------------------------------
(* Sequences.                                                              *)

(* What is left when n elements are taken from the front.                   *)
LEMMA Suffix ==
  ASSUME NEW S, NEW s \in Seq(S), NEW n \in 0..Len(s)
  PROVE  LET t == SubSeq(s, n + 1, Len(s))
         IN  t \in Seq(S) /\ Len(t) = Len(s) - n /\ \A i \in 1..Len(t) : t[i] = s[n + i]
OBVIOUS
(* What is left when only n elements stay.                                  *)
LEMMA Prefix ==
  ASSUME NEW S, NEW s \in Seq(S), NEW n \in 0..Len(s)
  PROVE  LET t == SubSeq(s, 1, n)
         IN  t \in Seq(S) /\ Len(t) = n /\ \A i \in 1..n : t[i] = s[i]
OBVIOUS
(* Two sequences one after the other.                                       *)
LEMMA Concatenated ==
  ASSUME NEW S, NEW s \in Seq(S), NEW t \in Seq(S)
  PROVE  /\ s \o t \in Seq(S) /\ Len(s \o t) = Len(s) + Len(t)
         /\ \A i \in 1..Len(s) : (s \o t)[i] = s[i]
         /\ \A i \in 1..Len(t) : (s \o t)[Len(s) + i] = t[i]
OBVIOUS
(* One element more.                                                        *)
LEMMA OneMore ==
  ASSUME NEW S, NEW s \in Seq(S), NEW x \in S
  PROVE  /\ Append(s, x) \in Seq(S) /\ Len(Append(s, x)) = Len(s) + 1
         /\ \A i \in 1..Len(s) : Append(s, x)[i] = s[i]
         /\ Append(s, x)[Len(s) + 1] = x
OBVIOUS
(* One element fewer.                                                       *)
LEMMA OneFewer ==
  ASSUME NEW S, NEW s \in Seq(S), s # <<>>
  PROVE  /\ Tail(s) \in Seq(S) /\ Len(Tail(s)) = Len(s) - 1 /\ Len(s) > 0
         /\ \A i \in 1..Len(Tail(s)) : Tail(s)[i] = s[i + 1]
         /\ Head(s) = s[1] /\ s[1] \in S
OBVIOUS
(* A sequence of one element.                                              *)
LEMMA Single ==
  ASSUME NEW S, NEW s \in Seq(S), Len(s) = 1
  PROVE  s = <<s[1]>>
OBVIOUS
(* A set of numbers up to m that is not empty has a greatest element.       *)
LEMMA GreatestNumber ==
  ASSUME NEW m \in Nat, NEW T \in SUBSET (1..m), T # {}
  PROVE  \E x \in T : \A y \in T : y <= x
<1>. DEFINE R == {pair \in Nat \X Nat : pair[1] < pair[2]}
            U == {m - x : x \in T}
<1>1. IsWellFoundedOn(R, Nat)
  BY NatLessThanWellFounded, Zenon DEF OpToRel
<1>2. U \in SUBSET Nat /\ U # {}
  <2>1. \A x \in T : m - x \in Nat OBVIOUS
  <2>2. PICK x \in T : TRUE OBVIOUS
  <2>. QED BY <2>1, <2>2
<1>. HIDE DEF R, U
<1>3. PICK u \in U : \A v \in U : <<v, u>> \notin R
  BY <1>1, <1>2, WFMin
<1>4. PICK x \in T : u = m - x BY <1>3 DEF U
<1>5. ASSUME NEW y \in T
      PROVE  y <= x
  <2>1. m - y \in U BY DEF U
  <2>2. <<m - y, u>> \notin R BY <2>1, <1>3
  <2>. SUFFICES ASSUME y > x
                PROVE  <<m - y, u>> \in R
    BY <2>2
  <2>3. <<m - y, u>> \in Nat \X Nat /\ <<m - y, u>>[1] < <<m - y, u>>[2]
    BY <1>2, <1>4, <2>1
  <2>. QED BY <2>3, Zenon DEF R
<1>. QED BY <1>5
-----------------------------------------------------------------------------
(* What the steps that move messages, rows and frames do, place by place.   *)

(* Frames of envelopes are frames.                                         *)
LEMMA FramesTyped ==
  ASSUME NEW es \in Seq(Envelope), Len(es) \in 1..2, NEW ts \in Seq(Turns)
  PROVE  /\ Frames(es, ts) \in Seq(Frame) /\ Len(Frames(es, ts)) = Len(es)
         /\ \A i \in 1..Len(es) :
              /\ Frames(es, ts)[i].parsed = parse(es[i])
              /\ Frames(es, ts)[i].turns = ts /\ Frames(es, ts)[i].part = i
<1>1. \A i \in 1..Len(es) : parse(es[i]) \in ParsedFrame BY ParseTotal
<1>2. \A i \in 1..Len(es) : [parsed |-> parse(es[i]), turns |-> ts, part |-> i] \in Frame
  BY <1>1 DEF Frame
<1>. QED BY <1>2 DEF Frames
(* One envelope, one frame.                                                *)
LEMMA OneFrame ==
  ASSUME NEW e \in Envelope, NEW ts \in Seq(Turns)
  PROVE  /\ Frames(<<e>>, ts) \in Seq(Frame) /\ Len(Frames(<<e>>, ts)) = 1
         /\ Frames(<<e>>, ts)[1].parsed = parse(e)
<1>1. PICK es : es = <<e>> OBVIOUS
<1>2. es \in Seq(Envelope) /\ Len(es) = 1 /\ es[1] = e BY <1>1
<1>3. Len(es) \in 1..2 /\ 1 \in 1..Len(es) BY <1>2
<1>4. Frames(es, ts) \in Seq(Frame) /\ Len(Frames(es, ts)) = 1 /\ Frames(es, ts)[1].parsed = parse(e)
  BY <1>2, <1>3, FramesTyped
<1>. QED BY <1>1, <1>4
(* The echo of a message is quiet.                                         *)
LEMMA EchoQuiet ==
  /\ Echo \in Envelope
  /\ parse(Echo).source = "user" /\ Discarded(parse(Echo))
<1>1. Echo \in Envelope BY DEF Echo, Envelope, Sources, Types
<1>2. Echo.shape = "text" /\ Echo.source = "user" BY DEF Echo
<1>3. parse(Echo) = FrameFor(Echo, "user", FALSE, FALSE) BY <1>2 DEF parse, parse_text_envelope
<1>4. parse(Echo).source = "user" BY <1>3 DEF FrameFor
<1>. QED BY <1>1, <1>4 DEF Discarded, Raises
(* What Mitra emits goes to the end of an open channel.                     *)
LEMMA Emitted ==
  ASSUME wire \in Seq(Frame), NEW frames \in Seq(Frame), Emit(frames)
  PROVE  /\ wire' \in Seq(Frame)
         /\ ~alive => wire' = wire
         /\ alive => /\ Len(wire') = Len(wire) + Len(frames)
                     /\ \A i \in 1..Len(wire) : wire'[i] = wire[i]
                     /\ \A i \in 1..Len(frames) : wire'[Len(wire) + i] = frames[i]
<1>1. CASE alive
  <2>1. wire' = wire \o frames BY <1>1 DEF Emit
  <2>. QED BY <1>1, <2>1, Concatenated
<1>2. CASE ~alive BY <1>2 DEF Emit
<1>. QED BY <1>1, <1>2
(* The row Mitra keeps a message in: a new one, or the last one grown.      *)
Before == IF AwaitsReply THEN Len(log) - 1 ELSE Len(log)
LEMMA MessageRecorded ==
  ASSUME TypeOK, NumbersOK, RowsOK, MitraRecords
  PROVE  /\ up # <<>> /\ up[1] \in 1..Turn /\ up' \in Seq(Turns) /\ Len(up') = Len(up) - 1
         /\ \A k \in 1..Len(up') : up'[k] = up[k + 1]
         /\ Before \in 0..Len(log) /\ log' \in Seq(Row) /\ Len(log') = Before + 1
         /\ \A j \in 1..Before : log'[j] = log[j]
         /\ LET row == log'[Before + 1]
                old == log[Before + 1]
            IN  /\ row.user
                /\ ~AwaitsReply => row.turns = <<up[1]>> /\ row.text = <<said[up[1]]>>
                /\ AwaitsReply =>
                     /\ row.turns = Append(old.turns, up[1]) /\ old.turns # <<>>
                     /\ row.text = Append(old.text, said[up[1]])
         /\ Emit(Frames(<<Echo>>, <<>>))
<1>1. /\ up # <<>> /\ up[1] \in 1..Turn /\ Head(up) = up[1] /\ up' = Tail(up)
      /\ up' \in Seq(Turns) /\ Len(up') = Len(up) - 1
      /\ \A k \in 1..Len(up') : up'[k] = up[k + 1]
  <2>1. up # <<>> /\ up' = Tail(up) /\ up \in Seq(Turns) BY DEF MitraRecords, TypeOK
  <2>2. 1 \in DOMAIN up BY <2>1
  <2>3. up[1] \in 1..Turn BY <2>2 DEF NumbersOK
  <2>. QED BY <2>1, <2>3, OneFewer
<1>2. said[up[1]] \in Texts /\ up[1] \in Turns
  <2>1. up[1] \in 1..Len(said) BY <1>1 DEF Turn
  <2>2. up[1] \in Turns BY <1>1, OneFewer DEF TypeOK
  <2>. QED BY <2>1, <2>2 DEF TypeOK
<1>. DEFINE old == IF AwaitsReply THEN Last(log) ELSE [text |-> <<>>, turns |-> <<>>]
            row == [user |-> TRUE, text |-> Append(old.text, said[up[1]]),
                    turns |-> Append(old.turns, up[1]), over |-> FALSE]
<1>3. log' = Append(IF AwaitsReply THEN Front(log) ELSE log, row) /\ Emit(Frames(<<Echo>>, <<>>))
  BY <1>1 DEF MitraRecords
<1>4. old.text \in Seq(Texts) /\ old.turns \in Seq(Turns)
  <2>1. CASE AwaitsReply
    <3>1. Last(log) \in Row BY <2>1 DEF AwaitsReply, Last, TypeOK
    <3>. QED BY <2>1, <3>1 DEF Row
  <2>2. CASE ~AwaitsReply
    <3>1. old.text = <<>> /\ old.turns = <<>> BY <2>2
    <3>. HIDE DEF old
    <3>. QED BY <3>1
  <2>. QED BY <2>1, <2>2
<1>5. row \in Row /\ row.user /\ row.turns = Append(old.turns, up[1])
      /\ row.text = Append(old.text, said[up[1]])
  BY <1>2, <1>4 DEF Row
<1>6. CASE AwaitsReply
  <2>1. log \in Seq(Row) /\ log # <<>> BY <1>6 DEF AwaitsReply, TypeOK
  <2>2. Before = Len(log) - 1 /\ Before \in 0..Len(log) BY <1>6, <2>1 DEF Before
  <2>3. Front(log) \in Seq(Row) /\ Len(Front(log)) = Before
        /\ \A j \in 1..Before : Front(log)[j] = log[j]
    BY <2>1, <2>2, Prefix DEF Front
  <2>4. old = log[Before + 1] /\ old.turns # <<>>
    <3>1. Before + 1 = Len(log) /\ Len(log) \in DOMAIN log BY <2>1, <2>2
    <3>. QED BY <3>1, <1>6 DEF Last, RowsOK, RowOK
  <2>. HIDE DEF row, old
  <2>5. log' = Append(Front(log), row) BY <1>3, <1>6
  <2>6. /\ log' \in Seq(Row) /\ Len(log') = Before + 1 /\ log'[Before + 1] = row
        /\ \A j \in 1..Before : log'[j] = log[j]
    BY <2>5, <2>3, <1>5, OneMore
  <2>. QED BY <1>1, <1>3, <1>5, <1>6, <2>2, <2>4, <2>6
<1>7. CASE ~AwaitsReply
  <2>1. Before = Len(log) /\ Before \in 0..Len(log) BY <1>7 DEF Before, TypeOK
  <2>2. row.turns = <<up[1]>> /\ row.text = <<said[up[1]]>>
    <3>1. old.text = <<>> /\ old.turns = <<>> BY <1>7
    <3>2. row.turns = Append(old.turns, up[1]) /\ row.text = Append(old.text, said[up[1]]) BY <1>5
    <3>. HIDE DEF row, old
    <3>. QED BY <3>1, <3>2
  <2>. HIDE DEF row, old
  <2>3. log' = Append(log, row) BY <1>3, <1>7
  <2>4. /\ log' \in Seq(Row) /\ Len(log') = Before + 1 /\ log'[Before + 1] = row
        /\ \A j \in 1..Before : log'[j] = log[j]
    BY <2>1, <2>3, <1>5, OneMore DEF TypeOK
  <2>. QED BY <1>1, <1>3, <1>5, <1>7, <2>1, <2>2, <2>4
<1>. QED BY <1>6, <1>7
(* The row Mitra answers the last one with.                                *)
LEMMA QuestionAnswered ==
  ASSUME TypeOK, MitraReplies
  PROVE  /\ AwaitsReply /\ Len(log) > 0 /\ log[Len(log)].user /\ Last(log) = log[Len(log)]
         /\ log' \in Seq(Row) /\ Len(log') = Len(log) + 1
         /\ \A j \in 1..Len(log) : log'[j] = log[j]
         /\ ~log'[Len(log) + 1].user /\ log'[Len(log) + 1].turns = log[Len(log)].turns
         /\ log[Len(log)].turns \in Seq(Turns)
         /\ \E es \in BotReplies : Emit(Frames(es, log[Len(log)].turns))
<1>1. PICK over \in BOOLEAN, es \in BotReplies :
        /\ log' = Append(log, [user |-> FALSE, text |-> <<>>, turns |-> Last(log).turns, over |-> over])
        /\ Emit(Frames(es, Last(log).turns))
  BY DEF MitraReplies
<1>2. AwaitsReply /\ log \in Seq(Row) /\ log # <<>> /\ Last(log) = log[Len(log)] /\ Len(log) > 0
  BY DEF MitraReplies, AwaitsReply, TypeOK, Last
<1>3. log[Len(log)] \in Row /\ log[Len(log)].user BY <1>2 DEF AwaitsReply
<1>. DEFINE row == [user |-> FALSE, text |-> <<>>, turns |-> Last(log).turns, over |-> over]
<1>4. row \in Row /\ ~row.user /\ row.turns = log[Len(log)].turns /\ row.turns \in Seq(Turns)
  BY <1>2, <1>3 DEF Row
<1>. HIDE DEF row
<1>5. log' = Append(log, row) BY <1>1 DEF row
<1>6. /\ log' \in Seq(Row) /\ Len(log') = Len(log) + 1 /\ log'[Len(log) + 1] = row
      /\ \A j \in 1..Len(log) : log'[j] = log[j]
  BY <1>2, <1>4, <1>5, OneMore
<1>. QED BY <1>1, <1>2, <1>3, <1>4, <1>6
(* A send: stale frames go, the turn's number is the last on its way.       *)
LEMMA MessageSent ==
  ASSUME TypeOK, NEW t \in Turns, Send(t)
  PROVE  /\ alive' = TRUE /\ got' = <<>>
         /\ up' \in Seq(Turns) /\ Len(up') = Len(up) + 1 /\ up'[Len(up) + 1] = t
         /\ \A k \in 1..Len(up) : up'[k] = up[k]
         /\ wire' \in Seq(Frame)
         /\ \E n \in 0..Len(wire) :
              Len(wire') = Len(wire) - n /\ \A i \in 1..Len(wire') : wire'[i] = wire[n + i]
<1>1. wire \in Seq(Frame) /\ up \in Seq(Turns) BY DEF TypeOK
<1>2. PICK n \in 0..Len(wire) : wire' = SubSeq(wire, n + 1, Len(wire)) BY DEF Send
<1>3. /\ wire' \in Seq(Frame) /\ Len(wire') = Len(wire) - n
      /\ \A i \in 1..Len(wire') : wire'[i] = wire[n + i]
  BY <1>1, <1>2, Suffix
<1>4. /\ up' \in Seq(Turns) /\ Len(up') = Len(up) + 1 /\ up'[Len(up) + 1] = t
      /\ \A k \in 1..Len(up) : up'[k] = up[k]
  BY <1>1, OneMore DEF Send
<1>. QED BY <1>3, <1>4 DEF Send
(* A new turn: its number is one more than any before.                      *)
LEMMA TurnSaid ==
  ASSUME TypeOK, NEW text \in Texts, Say(text)
  PROVE  /\ pc = "idle" /\ pc' = "await" /\ sends' = 1 /\ count' = 0
         /\ Turn \in Nat /\ Turn < MaxTurns /\ Turn' = Turn + 1 /\ Turn' \in Turns
         /\ said' \in Seq(Texts) /\ \A k \in 1..Turn : said'[k] = said[k]
         /\ Send(Turn')
<1>1. /\ said' \in Seq(Texts) /\ Len(said') = Len(said) + 1 /\ Len(said) \in Nat
      /\ \A k \in 1..Len(said) : said'[k] = said[k]
  BY OneMore DEF Say, TypeOK
<1>2. Turn < MaxTurns BY DEF Say
<1>3. Turn' = Turn + 1 /\ Turn \in Nat /\ Turn' \in Turns
  BY <1>1, <1>2, InterviewConstants DEF Turn, Turns
<1>. QED BY <1>1, <1>2, <1>3 DEF Say, Turn, Goto
(* The reader's next frame leaves the wire.                                *)
LEMMA FrameRead ==
  ASSUME TypeOK, wire # <<>>, wire' = Tail(wire)
  PROVE  /\ wire' \in Seq(Frame) /\ Len(wire') = Len(wire) - 1 /\ Len(wire) > 0
         /\ \A i \in 1..Len(wire') : wire'[i] = wire[i + 1]
         /\ Head(wire) = wire[1] /\ wire[1] \in Frame /\ Taken(wire[1]) \in Answer
         /\ (~Raises(wire[1].parsed) /\ ~Discarded(wire[1].parsed)) => FromBot(wire[1])
<1>1. wire \in Seq(Frame) BY DEF TypeOK
<1>2. /\ wire' \in Seq(Frame) /\ Len(wire') = Len(wire) - 1 /\ Len(wire) > 0
      /\ \A i \in 1..Len(wire') : wire'[i] = wire[i + 1]
      /\ Head(wire) = wire[1] /\ wire[1] \in Frame
  BY <1>1, OneFewer
<1>3. Taken(wire[1]) \in Answer BY <1>2 DEF Taken, Frame, ParsedFrame, Answer, EndsTurn
<1>. QED BY <1>2, <1>3 DEF Discarded, FromBot
(* A lost connection keeps the messages that had got through.               *)
LEMMA Lost ==
  ASSUME TypeOK, Drop
  PROVE  /\ alive' = FALSE /\ wire' = <<>> /\ up' \in Seq(Turns) /\ Len(up') <= Len(up)
         /\ \A k \in 1..Len(up') : up'[k] = up[k]
<1>1. PICK n \in 0..Len(up) : up' = SubSeq(up, 1, n) BY DEF Drop
<1>2. up \in Seq(Turns) BY DEF TypeOK
<1>3. up' \in Seq(Turns) /\ Len(up') = n /\ \A k \in 1..n : up'[k] = up[k]
  BY <1>1, <1>2, Prefix
<1>. QED BY <1>2, <1>3 DEF Drop
(* recent_chat: the page holds the newest of the counted rows.              *)
LEMMA PageRows ==
  ASSUME TypeOK, NEW n \in 0..Len(log)
  PROVE  /\ Offset(n) \in Nat /\ PageAfter(n) \in Seq(Row)
         /\ \A i \in DOMAIN PageAfter(n) :
              i \in Nat /\ Offset(n) + i \in DOMAIN log /\ PageAfter(n)[i] = log[Offset(n) + i]
         /\ \A j \in DOMAIN log : Offset(n) < j /\ j <= n => j - Offset(n) \in DOMAIN PageAfter(n)
<1>. DEFINE o == Offset(n)
            m == Min2(o + PageTail, Len(log))
<1>1. log \in Seq(Row) /\ Len(log) \in Nat /\ PageTail \in Nat \ {0}
  BY InterviewConstants DEF TypeOK
<1>2. o \in Nat /\ o <= n /\ n <= o + PageTail BY <1>1 DEF Offset
<1>3. m \in Nat /\ m <= Len(log) /\ n <= m /\ o <= m BY <1>1, <1>2 DEF Min2
<1>4. PageAfter(n) = SubSeq(log, o + 1, m) BY DEF PageAfter
<1>. HIDE DEF o, m
<1>5. /\ SubSeq(log, o + 1, m) \in Seq(Row) /\ Len(SubSeq(log, o + 1, m)) = m - o
      /\ \A i \in 1..(m - o) : SubSeq(log, o + 1, m)[i] = log[o + i]
  BY <1>1, <1>2, <1>3
<1>6. PageAfter(n) \in Seq(Row) /\ Len(PageAfter(n)) = m - o
      /\ \A i \in 1..(m - o) : PageAfter(n)[i] = log[o + i]
  BY <1>4, <1>5
<1>7. DOMAIN PageAfter(n) = 1..(m - o) /\ DOMAIN log = 1..Len(log) BY <1>1, <1>6
<1>8. o = Offset(n) BY DEF o
<1>. QED BY <1>1, <1>2, <1>3, <1>6, <1>7, <1>8, SMTT(60)
(* reconcile finds the newest row that says the text, if there is one.      *)
LEMMA MatchIsNewest ==
  ASSUME NEW rows \in Seq(Row), NEW text
  PROVE  /\ \A j \in DOMAIN rows : Matches(rows[j], text) => Match(rows, text) # 0
         /\ Match(rows, text) # 0 =>
              /\ Match(rows, text) \in DOMAIN rows /\ Matches(rows[Match(rows, text)], text)
              /\ \A j \in DOMAIN rows : Matches(rows[j], text) => j <= Match(rows, text)
<1>. DEFINE I == {i \in DOMAIN rows : Matches(rows[i], text)}
<1>1. CASE I = {} BY <1>1 DEF Match
<1>2. CASE I # {}
  <2>1. I \in SUBSET (1..Len(rows)) /\ Len(rows) \in Nat OBVIOUS
  <2>2. Match(rows, text) = CHOOSE i \in I : \A j \in I : j <= i BY <1>2 DEF Match
  <2>. HIDE DEF I
  <2>3. \E i \in I : \A j \in I : j <= i BY <1>2, <2>1, GreatestNumber
  <2>4. Match(rows, text) \in I /\ \A j \in I : j <= Match(rows, text) BY <2>2, <2>3
  <2>5. Match(rows, text) # 0 BY <2>1, <2>4
  <2>. QED BY <2>4, <2>5 DEF I
<1>. QED BY <1>1, <1>2
(* What reconcile recovers is the row after the newest question on the page *)
(* that says the text, and it answers that question.                        *)
LEMMA RecoveredRow ==
  ASSUME TypeOK, RowsOK, NEW n \in 0..Len(log), NEW text, Answered(PageAfter(n), text)
  PROVE  \E i \in DOMAIN log :
           /\ i < Len(log) /\ log[i].user /\ log[i].text = <<text>>
           /\ \A j \in DOMAIN log :
                i < j /\ j <= n /\ log[j].user => log[j].text # <<text>>
           /\ Recovered(PageAfter(n), text) =
                <<[turns |-> log[i].turns, part |-> 0, fin |-> TRUE, msg |-> TRUE, control |-> FALSE]>>
<1>. DEFINE rows == PageAfter(n)
            o == Offset(n)
            m == Match(rows, text)
            A == BotRowsAfter(rows, m)
<1>1. m # 0 /\ A # {} BY DEF Answered, NotDelivered
<1>2. /\ o \in Nat /\ rows \in Seq(Row)
      /\ \A i \in DOMAIN rows : i \in Nat /\ o + i \in DOMAIN log /\ rows[i] = log[o + i]
      /\ \A j \in DOMAIN log : o < j /\ j <= n => j - o \in DOMAIN rows
  BY PageRows
<1>3. Recovered(rows, text) =
        <<[turns |-> rows[ReplyRow(rows, m)].turns, part |-> 0, fin |-> TRUE, msg |-> TRUE, control |-> FALSE]>>
  BY DEF Recovered
<1>. HIDE DEF rows, o
<1>4. /\ m \in DOMAIN rows /\ Matches(rows[m], text)
      /\ \A j \in DOMAIN rows : Matches(rows[j], text) => j <= m
  BY <1>1, <1>2, MatchIsNewest
<1>5. A = {j \in DOMAIN rows : j > m /\ ~rows[j].user} BY DEF BotRowsAfter
<1>6. ReplyRow(rows, m) = CHOOSE j \in A : \A k \in A : j <= k BY DEF ReplyRow
<1>. HIDE DEF m, A
<1>7. log \in Seq(Row) /\ DOMAIN rows = 1..Len(rows) /\ DOMAIN log = 1..Len(log)
      /\ Len(rows) \in Nat /\ Len(log) \in Nat
  BY <1>2 DEF TypeOK
<1>8. m + 1 \in DOMAIN rows BY <1>1, <1>4, <1>5, <1>7
<1>9. log[o + m].user /\ log[o + m].text = <<text>> /\ o + m \in DOMAIN log
  BY <1>2, <1>4 DEF Matches
<1>10. o + (m + 1) \in DOMAIN log /\ rows[m + 1] = log[o + (m + 1)] BY <1>2, <1>8
<1>11. ~log[o + (m + 1)].user /\ log[o + (m + 1)].turns = log[o + m].turns
  <2>1. RowOK(o + (m + 1)) BY <1>10 DEF RowsOK
  <2>2. (o + (m + 1)) - 1 = o + m /\ o + (m + 1) > 1 BY <1>2, <1>4, <1>7
  <2>. QED BY <2>1, <2>2, <1>9 DEF RowOK
<1>12. m + 1 \in A /\ \A k \in A : m + 1 <= k BY <1>4, <1>5, <1>7, <1>8, <1>10, <1>11
<1>13. \A j \in A : (\A k \in A : j <= k) => j = m + 1 BY <1>12, <1>5, <1>7
<1>14. ReplyRow(rows, m) = m + 1 BY <1>6, <1>12, <1>13
<1>15. Recovered(rows, text) =
         <<[turns |-> log[o + m].turns, part |-> 0, fin |-> TRUE, msg |-> TRUE, control |-> FALSE]>>
  BY <1>3, <1>10, <1>11, <1>14
<1>16. \A j \in DOMAIN log : o + m < j /\ j <= n /\ log[j].user => log[j].text # <<text>>
  <2>1. SUFFICES ASSUME NEW j \in DOMAIN log, o + m < j, j <= n, log[j].user, log[j].text = <<text>>
                 PROVE  FALSE
    OBVIOUS
  <2>2. m \in Nat /\ j \in Nat BY <1>4, <1>7
  <2>3. j - o \in DOMAIN rows BY <2>1, <2>2, <1>2
  <2>4. rows[j - o] = log[j] BY <2>2, <2>3, <1>2
  <2>5. j - o <= m BY <2>1, <2>3, <2>4, <1>4 DEF Matches
  <2>. QED BY <2>1, <2>2, <2>5, <1>2
<1>17. o + m < Len(log) BY <1>2, <1>4, <1>7, <1>10
<1>. QED BY <1>9, <1>15, <1>16, <1>17 DEF rows
-----------------------------------------------------------------------------
(* Types and numbers.                                                      *)

(* Turn numbers are numbers of turns.                                      *)
LEMMA TurnNumbers ==
  ASSUME TypeOK, NumbersOK
  PROVE  /\ Turn \in Nat /\ 1..Turn \subseteq Turns /\ Turn = Len(said)
         /\ \A t \in 1..Turn : said[t] \in Texts
         /\ pc # "idle" => Turn \in 1..Turn
BY InterviewConstants DEF TypeOK, NumbersOK, Turn, Turns
(* Mitra's steps and a lost connection keep the types.                      *)
LEMMA TypesMitra ==
  ASSUME TypeOK, NumbersOK, RowsOK, Mitra \/ Drop
  PROVE  TypeOK' /\ NumbersOK'
<1>. USE DEF turnVars, mitraVars
<1>0. faults \in Nat /\ Len(log) \in Nat BY DEF TypeOK
<1>1. CASE MitraRecords
  <2>1. /\ up' \in Seq(Turns) /\ Len(up') = Len(up) - 1 /\ \A k \in 1..Len(up') : up'[k] = up[k + 1]
        /\ log' \in Seq(Row) /\ Len(log') >= Len(log) /\ Len(log') \in Nat
        /\ Emit(Frames(<<Echo>>, <<>>))
    BY <1>0, <1>1, MessageRecorded DEF Before
  <2>2. wire' \in Seq(Frame)
    <3>1. <<>> \in Seq(Turns) OBVIOUS
    <3>2. Frames(<<Echo>>, <<>>) \in Seq(Frame) BY <3>1, EchoQuiet, OneFrame
    <3>. QED BY <2>1, <3>2, Emitted DEF TypeOK
  <2>3. UNCHANGED <<alive, said, turnVars, replies, items, check, slipped, faults, checks>>
    BY <1>1 DEF MitraRecords
  <2>4. TypeOK' BY <2>1, <2>2, <2>3 DEF TypeOK
  <2>5. \A k \in DOMAIN up' : up'[k] \in 1..Turn
    <3>1. \A k \in DOMAIN up' : k + 1 \in DOMAIN up /\ up'[k] = up[k + 1]
      BY <2>1 DEF TypeOK
    <3>. QED BY <3>1 DEF NumbersOK
  <2>6. NumbersOK' BY <1>0, <2>1, <2>3, <2>5 DEF NumbersOK, TypeOK, Turn
  <2>. QED BY <2>4, <2>6
<1>2. CASE MitraReplies
  <2>1. PICK es \in BotReplies : Emit(Frames(es, log[Len(log)].turns)) BY <1>2, QuestionAnswered
  <2>2. /\ log' \in Seq(Row) /\ Len(log') = Len(log) + 1 /\ log[Len(log)].turns \in Seq(Turns)
    BY <1>2, QuestionAnswered
  <2>3. es \in Seq(Envelope) /\ Len(es) \in 1..2 BY InterviewConstants, MitraFrames
  <2>4. wire' \in Seq(Frame) BY <2>1, <2>2, <2>3, FramesTyped, Emitted DEF TypeOK
  <2>5. UNCHANGED <<up, alive, said, turnVars, replies, items, check, slipped, faults, checks>>
    BY <1>2 DEF MitraReplies
  <2>. QED BY <1>0, <2>2, <2>4, <2>5 DEF TypeOK, NumbersOK, Turn
<1>3. CASE MitraErrs
  <2>1. PICK e \in BotErrors : Emit(Frames(<<e>>, Last(log).turns)) BY <1>3 DEF MitraErrs
  <2>2. <<e>> \in Seq(Envelope) /\ Len(<<e>>) \in 1..2
    <3>1. e \in Envelope BY InterviewConstants
    <3>. QED BY <3>1
  <2>3. Last(log).turns \in Seq(Turns)
    <3>1. Last(log) \in Row BY <1>3 DEF MitraErrs, AwaitsReply, Last, TypeOK
    <3>. QED BY <3>1 DEF Row
  <2>4. wire' \in Seq(Frame) BY <2>1, <2>2, <2>3, FramesTyped, Emitted DEF TypeOK
  <2>. QED BY <1>0, <1>3, <2>4 DEF MitraErrs, TypeOK, NumbersOK, Turn
<1>4. CASE Drop
  <2>1. /\ alive' = FALSE /\ wire' = <<>> /\ up' \in Seq(Turns) /\ Len(up') <= Len(up)
        /\ \A k \in 1..Len(up') : up'[k] = up[k]
    BY <1>4, Lost
  <2>2. UNCHANGED <<log, said, turnVars, replies, items, check, slipped, checks>> /\ faults' = faults + 1
    BY <1>4 DEF Drop
  <2>3. wire' \in Seq(Frame) /\ alive' \in BOOLEAN /\ up' \in Seq(Turns) /\ faults' \in Nat
    <3>1. <<>> \in Seq(Frame) OBVIOUS
    <3>2. wire' = <<>> /\ alive' = FALSE /\ up' \in Seq(Turns) BY <2>1
    <3>3. wire' \in Seq(Frame) BY <3>1, <3>2, Zenon
    <3>4. faults' \in Nat BY <1>0, <2>2
    <3>. QED BY <3>2, <3>3, <3>4
  <2>4. TypeOK' BY <2>2, <2>3 DEF TypeOK
  <2>5. \A k \in DOMAIN up' : up'[k] \in 1..Turn
    <3>1. /\ Len(up') \in Nat /\ DOMAIN up' = 1..Len(up')
          /\ Len(up) \in Nat /\ DOMAIN up = 1..Len(up)
      BY <2>3 DEF TypeOK
    <3>2. \A k \in DOMAIN up' : k \in DOMAIN up /\ up'[k] = up[k] BY <2>1, <3>1
    <3>. QED BY <3>2 DEF NumbersOK
  <2>6. NumbersOK' BY <1>0, <2>1, <2>2, <2>5 DEF NumbersOK, Turn
  <2>. QED BY <2>4, <2>6
<1>. QED BY <1>1, <1>2, <1>3, <1>4 DEF Mitra
(* A turn that starts, or sends again, keeps the types.                     *)
LEMMA TypesSend ==
  ASSUME TypeOK, NumbersOK, RowsOK, StartTurn \/ SayAgain \/ Resend
  PROVE  TypeOK' /\ NumbersOK'
<1>. USE DEF turnVars, mitraVars
<1>1. CASE StartTurn \/ SayAgain
  <2>1. PICK text \in Texts : Say(text)
    BY <1>1, TurnNumbers DEF StartTurn, SayAgain, NumbersOK
  <2>2. /\ pc' = "await" /\ sends' = 1 /\ count' = 0
        /\ Turn \in Nat /\ Turn < MaxTurns /\ Turn' = Turn + 1 /\ Turn' \in Turns
        /\ said' \in Seq(Texts) /\ Send(Turn')
    BY <2>1, TurnSaid
  <2>3. /\ alive' = TRUE /\ got' = <<>> /\ wire' \in Seq(Frame)
        /\ up' \in Seq(Turns) /\ Len(up') = Len(up) + 1 /\ up'[Len(up) + 1] = Turn'
        /\ \A k \in 1..Len(up) : up'[k] = up[k]
    BY <2>2, MessageSent
  <2>4. UNCHANGED <<log, replies, items, faults, checks>> /\ slipped' \in BOOLEAN
        /\ check' \in {check, NoCheck}
    BY <1>1 DEF StartTurn, SayAgain, TypeOK
  <2>5. TypeOK' BY <2>2, <2>3, <2>4 DEF TypeOK, NoCheck
  <2>6. \A k \in DOMAIN up' : up'[k] \in 1..Turn'
    <3>1. \A k \in DOMAIN up' : k = Len(up) + 1 \/ k \in DOMAIN up BY <2>3 DEF TypeOK
    <3>2. \A k \in DOMAIN up : k \in 1..Len(up) /\ up[k] \in 1..Turn BY DEF NumbersOK, TypeOK
    <3>3. Turn' \in 1..Turn' /\ 1..Turn \subseteq 1..Turn' BY <2>2
    <3>. QED BY <2>3, <3>1, <3>2, <3>3
  <2>7. NumbersOK' BY <2>2, <2>4, <2>6, InterviewConstants DEF NumbersOK, TypeOK, NoCheck
  <2>. QED BY <2>5, <2>7
<1>2. CASE Resend
  <2>1. Turn \in Turns /\ Turn \in 1..Turn /\ Send(Turn) /\ pc # "idle"
    BY <1>2, TurnNumbers DEF Resend
  <2>2. /\ alive' = TRUE /\ got' = <<>> /\ wire' \in Seq(Frame)
        /\ up' \in Seq(Turns) /\ Len(up') = Len(up) + 1 /\ up'[Len(up) + 1] = Turn
        /\ \A k \in 1..Len(up) : up'[k] = up[k]
    BY <2>1, MessageSent
  <2>3. UNCHANGED <<log, said, pc, count, replies, items, check, faults, checks>>
        /\ sends' = 2 /\ slipped' = TRUE
    BY <1>2 DEF Resend
  <2>4. TypeOK' BY <2>2, <2>3 DEF TypeOK
  <2>5. \A k \in DOMAIN up' : up'[k] \in 1..Turn
    <3>1. \A k \in DOMAIN up' : k = Len(up) + 1 \/ k \in DOMAIN up BY <2>2 DEF TypeOK
    <3>2. \A k \in DOMAIN up : k \in 1..Len(up) /\ up[k] \in 1..Turn BY DEF NumbersOK, TypeOK
    <3>. QED BY <2>1, <2>2, <3>1, <3>2
  <2>6. NumbersOK' BY <2>3, <2>5 DEF NumbersOK, Turn
  <2>. QED BY <2>4, <2>6
<1>. QED BY <1>1, <1>2
(* The other steps of a turn keep the types.                               *)
LEMMA TypesTurn ==
  ASSUME TypeOK, NumbersOK, RowsOK,
         \/ Receive \/ RemoteError \/ Flush \/ Timeout \/ SecondLoss \/ CountRows
         \/ RecoverReply \/ SurfaceTimeout \/ Store \/ StoreRecovered \/ StoreFails
  PROVE  TypeOK' /\ NumbersOK'
<1>. USE DEF turnVars, mitraVars, Goto
<1>1. CASE Receive
  <2>1. wire' \in Seq(Frame) /\ Taken(wire[1]) \in Answer /\ Head(wire) = wire[1]
    BY <1>1, FrameRead DEF Receive
  <2>2. got' \in Seq(Answer) /\ pc' \in {"await", "store"} /\ pc = "await"
    <3>1. pc = "await" /\ got \in Seq(Answer) BY <1>1 DEF Receive, TypeOK
    <3>2. Append(got, Taken(wire[1])) \in Seq(Answer) BY <2>1, <3>1, OneMore
    <3>. QED BY <1>1, <2>1, <3>1, <3>2 DEF Receive
  <2>. QED BY <1>1, <2>1, <2>2 DEF Receive, TypeOK, NumbersOK, Turn
<1>2. CASE RemoteError
  <2>1. wire' \in Seq(Frame) BY <1>2, FrameRead DEF RemoteError
  <2>. QED BY <1>2, <2>1 DEF RemoteError, TypeOK, NumbersOK, Turn
<1>3. CASE Flush BY <1>3 DEF Flush, TypeOK, NumbersOK, Turn
<1>4. CASE Timeout BY <1>4 DEF Timeout, TypeOK, NumbersOK, Turn
<1>5. CASE SecondLoss BY <1>5 DEF SecondLoss, TypeOK, NumbersOK, Turn
<1>6. CASE CountRows BY <1>6 DEF CountRows, TypeOK, NumbersOK, Turn
<1>7. CASE RecoverReply
  <2>1. Answered(PageAfter(count), said[Turn]) /\ got' = Recovered(PageAfter(count), said[Turn])
        /\ count \in 0..Len(log)
    BY <1>7 DEF RecoverReply, TypeOK, NumbersOK
  <2>2. PICK i \in DOMAIN log :
          /\ i < Len(log) /\ log[i].user /\ log[i].text = <<said[Turn]>>
          /\ \A j \in DOMAIN log :
               i < j /\ j <= count /\ log[j].user => log[j].text # <<said[Turn]>>
          /\ Recovered(PageAfter(count), said[Turn]) =
               <<[turns |-> log[i].turns, part |-> 0, fin |-> TRUE, msg |-> TRUE, control |-> FALSE]>>
    BY <2>1, RecoveredRow
  <2>3. log[i].turns \in Seq(Turns)
    <3>1. log[i] \in Row BY DEF TypeOK
    <3>. QED BY <3>1 DEF Row
  <2>4. got' \in Seq(Answer)
    <3>1. [turns |-> log[i].turns, part |-> 0, fin |-> TRUE, msg |-> TRUE, control |-> FALSE] \in Answer
      BY <2>3 DEF Answer
    <3>. QED BY <2>1, <2>2, <3>1
  <2>. QED BY <1>7, <2>4 DEF RecoverReply, TypeOK, NumbersOK, Turn
<1>8. CASE SurfaceTimeout
  <2>1. items' = items \cup {Turn} /\ Turn \in 1..Turn /\ 1..Turn \subseteq Turns
    BY <1>8, TurnNumbers DEF SurfaceTimeout
  <2>. QED BY <1>8, <2>1 DEF SurfaceTimeout, TypeOK, NumbersOK, Turn
<1>9. CASE Store \/ StoreRecovered
  <2>1. PICK by \in {"socket", "recovery"}, polled \in BOOLEAN : StoreReply(by, polled)
    BY <1>9 DEF Store, StoreRecovered
  <2>2. Turn \in Turns /\ <<said[Turn]>> \in Seq(Texts)
    <3>1. Turn \in Turns /\ said[Turn] \in Texts BY <1>9, TurnNumbers DEF Store, StoreRecovered
    <3>. QED BY <3>1
  <2>. DEFINE r == [turn |-> Turn, asked |-> <<said[Turn]>>, by |-> by, parts |-> got,
                    own |-> sends = 1 /\ OwnRow(count), polled |-> polled,
                    done |-> polled /\ PollCompleted, over |-> log # <<>> /\ Last(log).over]
  <2>3. r \in Reply BY <2>2 DEF Reply, TypeOK
  <2>. HIDE DEF r
  <2>4. replies' = Append(replies, r) BY <2>1 DEF StoreReply, r
  <2>5. replies' \in Seq(Reply) BY <2>3, <2>4 DEF TypeOK
  <2>. QED BY <1>9, <2>5 DEF Store, StoreRecovered, TypeOK, NumbersOK, Turn
<1>10. CASE StoreFails BY <1>10 DEF StoreFails, TypeOK, NumbersOK, Turn
<1>. QED BY <1>1, <1>2, <1>3, <1>4, <1>5, <1>6, <1>7, <1>8, <1>9, <1>10
(* A check keeps the types.                                                *)
LEMMA TypesCheck ==
  ASSUME TypeOK, NumbersOK, RowsOK,
         \/ StartCheck \/ CheckCount \/ CheckAnswered \/ CheckUnsettled
         \/ CheckNotDelivered \/ SayAgainBusy
  PROVE  TypeOK' /\ NumbersOK'
<1>. USE DEF turnVars, mitraVars
<1>0. check \in [at : {"idle", "count", "page", "resend"}, item : Nat, turn : Nat, count : Nat]
  BY DEF TypeOK
<1>1. CASE StartCheck
  <2>1. PICK t \in items : check' = [at |-> "count", item |-> t, turn |-> Turn, count |-> 0]
    BY <1>1 DEF StartCheck
  <2>2. t \in 1..Turn /\ Turn \in 1..Turn /\ Turn \in Nat BY TurnNumbers DEF NumbersOK
  <2>. QED BY <1>1, <2>1, <2>2 DEF StartCheck, TypeOK, NumbersOK, Turn
<1>2. CASE CheckCount
  <2>1. check' = [check EXCEPT !.at = "page", !.count = Len(log)] /\ Len(log) \in Nat
    BY <1>2 DEF CheckCount, TypeOK
  <2>2. /\ check' \in [at : {"idle", "count", "page", "resend"}, item : Nat, turn : Nat, count : Nat]
        /\ check'.count = Len(log) /\ check'.item = check.item /\ check'.turn = check.turn
    BY <1>0, <2>1
  <2>. QED BY <1>2, <2>1, <2>2 DEF CheckCount, TypeOK, NumbersOK, Turn
<1>3. CASE CheckAnswered
  <2>. DEFINE text == said[check.turn]
  <2>1. Answered(PageAfter(check.count), text) /\ check.count \in 0..Len(log) /\ check.turn \in 1..Turn
    BY <1>0, <1>3 DEF CheckAnswered, TypeOK, NumbersOK
  <2>2. PICK i \in DOMAIN log :
          /\ i < Len(log) /\ log[i].user /\ log[i].text = <<text>>
          /\ \A j \in DOMAIN log :
               i < j /\ j <= check.count /\ log[j].user => log[j].text # <<text>>
          /\ Recovered(PageAfter(check.count), text) =
               <<[turns |-> log[i].turns, part |-> 0, fin |-> TRUE, msg |-> TRUE, control |-> FALSE]>>
    BY <2>1, RecoveredRow
  <2>3. Recovered(PageAfter(check.count), text) \in Seq(Answer)
    <3>1. log[i] \in Row BY DEF TypeOK
    <3>2. [turns |-> log[i].turns, part |-> 0, fin |-> TRUE, msg |-> TRUE, control |-> FALSE] \in Answer
      BY <3>1 DEF Answer, Row
    <3>. QED BY <2>2, <3>2
  <2>4. check.turn \in Turns /\ <<text>> \in Seq(Texts)
    <3>1. check.turn \in Turns /\ text \in Texts BY <2>1, TurnNumbers
    <3>. QED BY <3>1
  <2>. DEFINE r == [turn |-> check.turn, asked |-> <<text>>, by |-> "resume",
                    parts |-> Recovered(PageAfter(check.count), text), own |-> FALSE,
                    polled |-> FALSE, done |-> FALSE, over |-> FALSE]
  <2>5. r \in Reply BY <2>3, <2>4 DEF Reply
  <2>6. replies' = Append(replies, r) BY <1>3 DEF CheckAnswered
  <2>. HIDE DEF r
  <2>7. replies' \in Seq(Reply) BY <2>5, <2>6 DEF TypeOK
  <2>8. /\ items' \subseteq items /\ check' = NoCheck
        /\ UNCHANGED <<mitraVars, said, turnVars, slipped, faults, checks>>
    BY <1>3 DEF CheckAnswered
  <2>. QED BY <2>7, <2>8 DEF TypeOK, NumbersOK, NoCheck, Turn
<1>4. CASE CheckUnsettled BY <1>4 DEF CheckUnsettled, TypeOK, NumbersOK, NoCheck, Turn
<1>5. CASE CheckNotDelivered
  <2>1. check' = [check EXCEPT !.at = "resend"] /\ items' \subseteq items
    BY <1>5 DEF CheckNotDelivered
  <2>2. /\ check' \in [at : {"idle", "count", "page", "resend"}, item : Nat, turn : Nat, count : Nat]
        /\ check'.count = check.count /\ check'.item = check.item /\ check'.turn = check.turn
    BY <1>0, <2>1
  <2>. QED BY <1>5, <2>1, <2>2 DEF CheckNotDelivered, TypeOK, NumbersOK, Turn
<1>6. CASE SayAgainBusy BY <1>6 DEF SayAgainBusy, TypeOK, NumbersOK, NoCheck, Turn
<1>. QED BY <1>1, <1>2, <1>3, <1>4, <1>5, <1>6
-----------------------------------------------------------------------------
(* The steps by what they touch.                                           *)

Starts == StartTurn \/ SayAgain
Reads == Receive \/ RemoteError
Waits == Flush \/ Timeout \/ SecondLoss \/ CountRows \/ SurfaceTimeout \/ StoreFails
Stores == Store \/ StoreRecovered
Checks == StartCheck \/ CheckCount \/ CheckUnsettled \/ CheckNotDelivered \/ SayAgainBusy

(* Every step is of one of these kinds.                                    *)
LEMMA StepKinds ==
  ASSUME [Next]_vars
  PROVE  \/ MitraRecords \/ MitraReplies \/ MitraErrs \/ Drop
         \/ Starts \/ Resend \/ Reads \/ Waits \/ RecoverReply \/ Stores
         \/ CheckAnswered \/ Checks \/ UNCHANGED vars
BY DEF Next, Mitra, TurnStep, CheckStep, Starts, Reads, Waits, Stores, Checks
(* What the kinds of steps leave alone.                                    *)
LEMMA StepFrames ==
  /\ Reads => UNCHANGED <<log, up, alive, said, sends, count, replies, items, check>>
  /\ Waits => /\ UNCHANGED <<log, up, wire, alive, said, sends, got, replies, check>>
              /\ pc' \in {"store", "count", "page", "idle"} /\ (pc' = "store" => pc = "await")
              /\ pc \in {"await", "count", "page", "store"}
  /\ RecoverReply => /\ UNCHANGED <<log, up, wire, alive, said, sends, count, replies, items, check, slipped>>
                     /\ pc = "page" /\ pc' = "recovered"
  /\ Stores => /\ UNCHANGED <<log, up, wire, alive, said, sends, got, count, items, check, slipped>>
               /\ pc \in {"store", "recovered"} /\ pc' = "idle"
  /\ CheckAnswered =>
       UNCHANGED <<log, up, wire, alive, said, pc, sends, got, count, slipped>> /\ check.at # "idle"
  /\ Checks => UNCHANGED <<log, up, wire, alive, said, pc, sends, got, count, replies, slipped>>
  /\ UNCHANGED vars => UNCHANGED <<log, up, wire, alive, said, pc, sends, got, count, replies,
                                   items, check, slipped, faults, checks>>
  /\ MitraErrs => UNCHANGED <<log, up, alive, said, pc, sends, got, count, replies, items, check, slipped>>
  /\ Drop => UNCHANGED <<log, said, pc, sends, got, count, replies, items, check, slipped>>
  /\ MitraRecords => UNCHANGED <<alive, said, pc, sends, got, count, replies, items, check, slipped>>
  /\ MitraReplies => UNCHANGED <<up, alive, said, pc, sends, got, count, replies, items, check, slipped>>
  /\ Starts => UNCHANGED <<log, replies, items>>
  /\ Resend => UNCHANGED <<log, said, pc, count, replies, items, check>> /\ sends = 1 /\ sends' = 2
<1>. USE DEF turnVars, mitraVars, vars, Goto
<1>1. Reads => UNCHANGED <<log, up, alive, said, sends, count, replies, items, check>>
  BY DEF Reads, Receive, RemoteError
<1>2. Waits => /\ UNCHANGED <<log, up, wire, alive, said, sends, got, replies, check>>
               /\ pc' \in {"store", "count", "page", "idle"} /\ (pc' = "store" => pc = "await")
               /\ pc \in {"await", "count", "page", "store"}
  BY DEF Waits, Flush, Timeout, SecondLoss, CountRows, SurfaceTimeout, StoreFails
<1>3. Stores => /\ UNCHANGED <<log, up, wire, alive, said, sends, got, count, items, check, slipped>>
                /\ pc \in {"store", "recovered"} /\ pc' = "idle"
  BY DEF Stores, Store, StoreRecovered
<1>4. Checks => UNCHANGED <<log, up, wire, alive, said, pc, sends, got, count, replies, slipped>>
  BY DEF Checks, StartCheck, CheckCount, CheckUnsettled, CheckNotDelivered, SayAgainBusy
<1>5. Starts => UNCHANGED <<log, replies, items>> BY DEF Starts, StartTurn, SayAgain
<1>. QED
  BY <1>1, <1>2, <1>3, <1>4, <1>5
  DEF RecoverReply, CheckAnswered, MitraErrs, Drop, MitraRecords, MitraReplies, Resend
(* A turn that starts says something.                                      *)
LEMMA StartsSay ==
  ASSUME TypeOK, NumbersOK, Starts
  PROVE  /\ pc = "idle" /\ pc' = "await" /\ sends' = 1
         /\ Turn \in Nat /\ Turn' = Turn + 1 /\ Turn' \in Turns
         /\ said' \in Seq(Texts) /\ \A k \in 1..Turn : said'[k] = said[k]
         /\ Send(Turn')
<1>1. PICK text \in Texts : Say(text) BY TurnNumbers DEF Starts, StartTurn, SayAgain, NumbersOK
<1>. QED BY <1>1, TurnSaid
(* Every step keeps the types and the numbers.                              *)
LEMMA TypesStep ==
  ASSUME TypeOK, NumbersOK, RowsOK, [Next]_vars
  PROVE  TypeOK' /\ NumbersOK'
<1>1. CASE Mitra \/ Drop BY <1>1, TypesMitra
<1>2. CASE StartTurn \/ SayAgain \/ Resend BY <1>2, TypesSend
<1>3. CASE \/ Receive \/ RemoteError \/ Flush \/ Timeout \/ SecondLoss \/ CountRows
           \/ RecoverReply \/ SurfaceTimeout \/ Store \/ StoreRecovered \/ StoreFails
  BY <1>3, TypesTurn
<1>4. CASE \/ StartCheck \/ CheckCount \/ CheckAnswered \/ CheckUnsettled
           \/ CheckNotDelivered \/ SayAgainBusy
  BY <1>4, TypesCheck
<1>5. CASE UNCHANGED vars BY <1>5 DEF vars, turnVars, mitraVars, TypeOK, NumbersOK, Turn
<1>. QED BY <1>1, <1>2, <1>3, <1>4, <1>5 DEF Next, TurnStep, CheckStep
-----------------------------------------------------------------------------
(* Mitra's transcript.                                                     *)

(* Only the last row may change, and only while it waits for its reply.     *)
LEMMA OldRows ==
  ASSUME TypeOK, NumbersOK, RowsOK, [Next]_vars
  PROVE  /\ Len(log) \in Nat /\ Len(log') \in Nat /\ Len(log') >= Len(log)
         /\ \A j \in 1..Len(log) : j < Len(log) \/ ~log[j].user => log'[j] = log[j]
         /\ MitraRecords \/ MitraReplies \/ log' = log
<1>1. Len(log) \in Nat BY DEF TypeOK
<1>2. CASE MitraRecords
  <2>1. Before \in 0..Len(log) /\ Len(log') = Before + 1 /\ \A j \in 1..Before : log'[j] = log[j]
    BY <1>2, MessageRecorded
  <2>2. CASE AwaitsReply
    <3>1. Before = Len(log) - 1 /\ log[Len(log)].user BY <2>2 DEF Before, AwaitsReply, Last
    <3>. QED BY <1>1, <1>2, <2>1, <3>1
  <2>3. CASE ~AwaitsReply
    <3>1. Before = Len(log) BY <2>3 DEF Before
    <3>. QED BY <1>1, <1>2, <2>1, <3>1
  <2>. QED BY <2>2, <2>3
<1>3. CASE MitraReplies BY <1>1, <1>3, QuestionAnswered
<1>4. log' = log \/ MitraRecords \/ MitraReplies BY StepKinds, StepFrames
<1>. QED BY <1>1, <1>2, <1>3, <1>4
(* A row that stays is still what its turns said.                           *)
LEMMA RowStays ==
  ASSUME TypeOK, NEW j \in DOMAIN log, RowOK(j), j \in DOMAIN log', log'[j] = log[j],
         j > 1 => log'[j - 1] = log[j - 1],
         Turn \in Nat, Turn' \in Nat, Turn' >= Turn, \A k \in 1..Turn : said'[k] = said[k]
  PROVE  RowOK(j)'
<1>1. 1..Turn \subseteq 1..Turn' OBVIOUS
<1>2. \A k \in DOMAIN log[j].turns : log[j].turns[k] \in 1..Turn BY DEF RowOK
<1>. QED BY <1>1, <1>2 DEF RowOK
(* Every step keeps Mitra's rows in order.                                  *)
LEMMA RowsStep ==
  ASSUME TypeOK, NumbersOK, RowsOK, [Next]_vars
  PROVE  RowsOK'
<1>0. /\ Len(log) \in Nat /\ Turn \in Nat /\ log \in Seq(Row) /\ log' \in Seq(Row)
      /\ DOMAIN log = 1..Len(log) /\ DOMAIN log' = 1..Len(log')
  <2>1. TypeOK' BY TypesStep
  <2>2. log \in Seq(Row) BY DEF TypeOK
  <2>3. log' \in Seq(Row) BY <2>1 DEF TypeOK
  <2>. QED BY <2>2, <2>3, TurnNumbers
<1>1. CASE MitraRecords
  <2>1. said' = said /\ Turn' = Turn BY <1>1, StepFrames DEF Turn
  <2>2. /\ Before \in 0..Len(log) /\ Len(log') = Before + 1
        /\ \A j \in 1..Before : log'[j] = log[j]
        /\ up[1] \in 1..Turn
    BY <1>1, MessageRecorded
  <2>3. ASSUME NEW j \in 1..Before
        PROVE  RowOK(j)'
    <3>1. j \in DOMAIN log /\ j \in DOMAIN log' /\ RowOK(j) BY <1>0, <2>2 DEF RowsOK
    <3>2. j > 1 => log'[j - 1] = log[j - 1] BY <2>2
    <3>. QED BY <1>0, <2>1, <2>2, <3>1, <3>2, RowStays
  <2>. PICK b \in Nat : b = Before + 1 BY <2>2
  <2>. DEFINE row == log'[b]
              old == log[b]
  <2>4. /\ row.user
        /\ ~AwaitsReply => row.turns = <<up[1]>> /\ row.text = <<said[up[1]]>>
        /\ AwaitsReply => /\ row.turns = Append(old.turns, up[1])
                          /\ row.text = Append(old.text, said[up[1]])
    BY <1>1, MessageRecorded
  <2>5. b > 1 => ~log'[b - 1].user
    <3>1. SUFFICES ASSUME Before > 0
                   PROVE  ~log[Before].user
      BY <2>2
    <3>2. CASE AwaitsReply
      <4>1. Before = Len(log) - 1 /\ log[Len(log)].user /\ log # <<>>
        BY <3>2 DEF Before, AwaitsReply, Last
      <4>2. Len(log) \in DOMAIN log /\ Len(log) > 1 BY <1>0, <3>1, <4>1
      <4>. QED BY <4>1, <4>2 DEF RowsOK, RowOK
    <3>3. CASE ~AwaitsReply
      <4>1. Before = Len(log) /\ log # <<>> BY <1>0, <3>1, <3>3 DEF Before
      <4>. QED BY <3>3, <4>1 DEF AwaitsReply, Last
    <3>. QED BY <3>2, <3>3
  <2>6. /\ row.turns # <<>> /\ Len(row.text) = Len(row.turns)
        /\ \A k \in DOMAIN row.turns : row.turns[k] \in 1..Turn /\ row.text[k] = said[row.turns[k]]
    <3>1. CASE AwaitsReply
      <4>1. b = Len(log) /\ log[Len(log)].user /\ log # <<>>
        BY <1>0, <3>1 DEF Before, AwaitsReply, Last
      <4>2. b \in DOMAIN log /\ old.user /\ RowOK(b) /\ old \in Row
        BY <1>0, <4>1 DEF RowsOK
      <4>3. /\ Len(old.text) = Len(old.turns)
            /\ \A k \in DOMAIN old.turns : old.turns[k] \in 1..Turn /\ old.text[k] = said[old.turns[k]]
        BY <4>2 DEF RowOK
      <4>4. old.turns \in Seq(Turns) /\ old.text \in Seq(Texts) BY <4>2 DEF Row
      <4>5. up[1] \in Turns /\ said[up[1]] \in Texts BY <2>2, TurnNumbers
      <4>. HIDE DEF row, old
      <4>6. /\ Len(row.turns) = Len(old.turns) + 1 /\ row.turns \in Seq(Turns)
            /\ \A k \in 1..Len(old.turns) : row.turns[k] = old.turns[k]
            /\ row.turns[Len(old.turns) + 1] = up[1]
        <5>1. row.turns = Append(old.turns, up[1]) BY <2>4, <3>1
        <5>. QED BY <4>4, <4>5, <5>1, OneMore
      <4>7. /\ Len(row.text) = Len(old.text) + 1
            /\ \A k \in 1..Len(old.text) : row.text[k] = old.text[k]
            /\ row.text[Len(old.text) + 1] = said[up[1]]
        <5>1. row.text = Append(old.text, said[up[1]]) BY <2>4, <3>1
        <5>. QED BY <4>4, <4>5, <5>1, OneMore
      <4>8. ASSUME NEW k \in DOMAIN row.turns
            PROVE  row.turns[k] \in 1..Turn /\ row.text[k] = said[row.turns[k]]
        <5>1. k \in 1..Len(old.turns) \/ k = Len(old.turns) + 1 BY <4>4, <4>6
        <5>2. CASE k \in 1..Len(old.turns)
          <6>1. k \in DOMAIN old.turns BY <4>4, <5>2
          <6>. QED BY <4>3, <4>6, <4>7, <5>2, <6>1
        <5>3. CASE k = Len(old.turns) + 1 BY <2>2, <4>3, <4>6, <4>7, <5>3
        <5>. QED BY <5>1, <5>2, <5>3
      <4>9. row.turns # <<>> BY <4>4, <4>6
      <4>. QED BY <4>3, <4>6, <4>7, <4>8, <4>9
    <3>2. CASE ~AwaitsReply
      <4>1. row.turns = <<up[1]>> /\ row.text = <<said[up[1]]>> BY <2>4, <3>2
      <4>. HIDE DEF row
      <4>. QED BY <2>2, <4>1
    <3>. QED BY <3>1, <3>2
  <2>7. RowOK(b)' BY <2>1, <2>4, <2>5, <2>6 DEF RowOK
  <2>8. \A j \in DOMAIN log' : j \in 1..Before \/ j = b BY <1>0, <2>2
  <2>. QED BY <2>3, <2>7, <2>8 DEF RowsOK
<1>2. CASE MitraReplies
  <2>1. said' = said /\ Turn' = Turn BY <1>2, StepFrames DEF Turn
  <2>2. /\ Len(log) > 0 /\ log[Len(log)].user /\ Len(log') = Len(log) + 1
        /\ \A j \in 1..Len(log) : log'[j] = log[j]
        /\ ~log'[Len(log) + 1].user /\ log'[Len(log) + 1].turns = log[Len(log)].turns
    BY <1>2, QuestionAnswered
  <2>3. ASSUME NEW j \in 1..Len(log)
        PROVE  RowOK(j)'
    <3>1. j \in DOMAIN log /\ j \in DOMAIN log' /\ RowOK(j) BY <1>0, <2>2 DEF RowsOK
    <3>2. j > 1 => log'[j - 1] = log[j - 1] BY <1>0, <2>2
    <3>. QED BY <1>0, <2>1, <2>2, <3>1, <3>2, RowStays
  <2>. PICK b \in Nat : b = Len(log) + 1 BY <1>0
  <2>4. RowOK(b)'
    <3>1. RowOK(Len(log)) /\ log'[Len(log)] = log[Len(log)] /\ b - 1 = Len(log)
      BY <1>0, <2>2 DEF RowsOK
    <3>2. /\ log'[b].turns # <<>> /\ \A k \in DOMAIN log'[b].turns : log'[b].turns[k] \in 1..Turn
      BY <2>2, <3>1 DEF RowOK
    <3>. QED BY <1>0, <2>1, <2>2, <3>1, <3>2 DEF RowOK
  <2>5. \A j \in DOMAIN log' : j \in 1..Len(log) \/ j = b BY <1>0, <2>2
  <2>. QED BY <2>3, <2>4, <2>5 DEF RowsOK
<1>3. CASE log' = log
  <2>1. Turn' \in Nat /\ Turn' >= Turn /\ \A k \in 1..Turn : said'[k] = said[k]
    <3>1. CASE Starts BY <3>1, StartsSay
    <3>2. CASE said' = said BY <1>0, <3>2 DEF Turn
    <3>. QED BY <3>1, <3>2, StepKinds, StepFrames
  <2>2. ASSUME NEW j \in DOMAIN log'
        PROVE  RowOK(j)'
    <3>1. RowOK(j) /\ j \in DOMAIN log BY <1>3 DEF RowsOK
    <3>. QED BY <1>0, <1>3, <2>1, <3>1, RowStays
  <2>. QED BY <2>2 DEF RowsOK
<1>. QED BY <1>1, <1>2, <1>3, OldRows
(* A message that was sent once has no later question behind it.            *)
LEMMA SentOnceStep ==
  ASSUME TypeOK, NumbersOK, RowsOK, SentOnce, [Next]_vars
  PROVE  SentOnce'
<1>0. /\ Len(log) \in Nat /\ Turn \in Nat /\ log \in Seq(Row) /\ log' \in Seq(Row) /\ up \in Seq(Turns)
      /\ DOMAIN log = 1..Len(log) /\ DOMAIN log' = 1..Len(log') /\ DOMAIN up = 1..Len(up)
      /\ up' \in Seq(Turns) /\ DOMAIN up' = 1..Len(up') /\ Len(up) \in Nat /\ Len(up') \in Nat
  <2>1. TypeOK' BY TypesStep
  <2>2. log \in Seq(Row) /\ up \in Seq(Turns) BY DEF TypeOK
  <2>3. log' \in Seq(Row) /\ up' \in Seq(Turns) BY <2>1 DEF TypeOK
  <2>. QED BY <2>2, <2>3, TurnNumbers
<1>1. CASE MitraRecords
  <2>1. said' = said /\ Turn' = Turn /\ sends' = sends BY <1>1, StepFrames DEF Turn
  <2>. SUFFICES ASSUME sends <= 1
                PROVE  SentOnce'
    BY <2>1 DEF SentOnce
  <2>2. /\ up # <<>> /\ Len(up') = Len(up) - 1 /\ \A k \in 1..Len(up') : up'[k] = up[k + 1]
        /\ Before \in 0..Len(log) /\ Len(log') = Before + 1
        /\ \A j \in 1..Before : log'[j] = log[j]
    BY <1>1, MessageRecorded
  <2>3. /\ \A j \in DOMAIN log : ~Says(log[j], Turn)
        /\ \A k \in DOMAIN up : up[k] = Turn => k = Len(up)
    BY <2>2 DEF SentOnce
  <2>4. \A j \in 1..Before : ~Says(log'[j], Turn)
    <3>1. \A j \in 1..Before : j \in DOMAIN log /\ log'[j] = log[j] BY <1>0, <2>2
    <3>. QED BY <2>3, <3>1 DEF Says
  <2>5. CASE up[1] = Turn
    <3>1. up' = <<>> BY <1>0, <2>2, <2>3, <2>5
    <3>2. \A j \in DOMAIN log' : Says(log'[j], Turn) => Len(log') <= j + 1 BY <1>0, <2>2, <2>4
    <3>. QED BY <2>1, <3>1, <3>2 DEF SentOnce, Says
  <2>6. CASE up[1] # Turn
    <3>. PICK b \in Nat : b = Before + 1 BY <2>2
    <3>1. ~Says(log'[b], Turn)
      <4>1. CASE AwaitsReply
        <5>1. b = Len(log) /\ b \in DOMAIN log /\ log[b] \in Row /\ ~Says(log[b], Turn)
          <6>1. b = Len(log) /\ log # <<>> BY <1>0, <4>1 DEF Before, AwaitsReply
          <6>. QED BY <1>0, <2>3, <6>1
        <5>2. log'[b].turns = Append(log[b].turns, up[1]) BY <1>1, <4>1, MessageRecorded
        <5>3. log[b].turns \in Seq(Turns) /\ up[1] \in Turns BY <1>0, <2>2, <5>1 DEF Row
        <5>4. /\ log'[b].turns \in Seq(Turns) /\ Len(log'[b].turns) = Len(log[b].turns) + 1
              /\ \A i \in 1..Len(log[b].turns) : log'[b].turns[i] = log[b].turns[i]
              /\ log'[b].turns[Len(log[b].turns) + 1] = up[1]
          BY <5>2, <5>3, OneMore
        <5>5. ASSUME NEW k \in DOMAIN log'[b].turns
              PROVE  log'[b].turns[k] # Turn
          <6>1. k \in 1..Len(log[b].turns) \/ k = Len(log[b].turns) + 1 BY <5>3, <5>4, SMTT(60)
          <6>2. k \in 1..Len(log[b].turns) => k \in DOMAIN log[b].turns BY <5>3
          <6>. QED BY <2>6, <5>1, <5>4, <6>1, <6>2 DEF Says
        <5>. QED BY <5>5 DEF Says
      <4>2. CASE ~AwaitsReply
        <5>1. log'[b].turns = <<up[1]>> BY <1>1, <4>2, MessageRecorded
        <5>. QED BY <2>6, <5>1 DEF Says
      <4>. QED BY <4>1, <4>2
    <3>2. \A j \in DOMAIN log' : ~Says(log'[j], Turn) BY <1>0, <2>2, <2>4, <3>1
    <3>3. ASSUME NEW k \in DOMAIN up', up'[k] = Turn
          PROVE  k = Len(up')
      <4>1. k \in 1..Len(up') /\ k + 1 \in DOMAIN up /\ up'[k] = up[k + 1] BY <1>0, <2>2
      <4>2. k + 1 = Len(up) BY <2>3, <3>3, <4>1
      <4>. QED BY <1>0, <2>2, <4>1, <4>2
    <3>. QED BY <2>1, <3>2, <3>3 DEF SentOnce, Says
  <2>. QED BY <2>5, <2>6
<1>2. CASE MitraReplies
  <2>1. said' = said /\ Turn' = Turn /\ sends' = sends /\ up' = up BY <1>2, StepFrames DEF Turn
  <2>2. /\ Len(log) > 0 /\ log[Len(log)].user /\ Len(log') = Len(log) + 1
        /\ \A j \in 1..Len(log) : log'[j] = log[j]
        /\ ~log'[Len(log) + 1].user /\ log'[Len(log) + 1].turns = log[Len(log)].turns
    BY <1>2, QuestionAnswered
  <2>. SUFFICES ASSUME sends <= 1
                PROVE  SentOnce'
    BY <2>1 DEF SentOnce
  <2>3. CASE /\ \A j \in DOMAIN log : ~Says(log[j], Turn)
             /\ \A k \in DOMAIN up : up[k] = Turn => k = Len(up)
    <3>1. ~Says(log'[Len(log) + 1], Turn) BY <1>0, <2>2, <2>3, SMTT(60) DEF Says
    <3>2. \A j \in DOMAIN log' : ~Says(log'[j], Turn) BY <1>0, <2>2, <2>3, <3>1
    <3>. QED BY <2>1, <2>3, <3>2 DEF SentOnce, Says
  <2>4. CASE /\ up = <<>>
             /\ \A j \in DOMAIN log : log[j].user /\ Says(log[j], Turn) => Len(log) <= j + 1
    <3>1. ASSUME NEW j \in DOMAIN log', log'[j].user, Says(log'[j], Turn)
          PROVE  Len(log') <= j + 1
      <4>1. j \in 1..Len(log) /\ log'[j] = log[j] BY <1>0, <2>2, <3>1
      <4>2. Len(log) <= j + 1 BY <1>0, <2>4, <3>1, <4>1
      <4>3. Len(log) # j + 1
        <5>. SUFFICES ASSUME Len(log) = j + 1
                      PROVE  FALSE
          OBVIOUS
        <5>1. RowOK(Len(log)) /\ Len(log) > 1 /\ Len(log) - 1 = j BY <1>0, <4>1 DEF RowsOK
        <5>. QED BY <2>2, <3>1, <4>1, <5>1 DEF RowOK
      <4>. QED BY <1>0, <2>2, <4>1, <4>2, <4>3
    <3>. QED BY <2>1, <2>4, <3>1 DEF SentOnce, Says
  <2>. QED BY <2>3, <2>4 DEF SentOnce
<1>3. CASE Drop
  <2>1. log' = log /\ Turn' = Turn /\ sends' = sends BY <1>3, StepFrames DEF Turn
  <2>2. Len(up') <= Len(up) /\ \A k \in 1..Len(up') : up'[k] = up[k] BY <1>3, Lost
  <2>. SUFFICES ASSUME sends <= 1
                PROVE  SentOnce'
    BY <2>1 DEF SentOnce
  <2>3. CASE /\ \A j \in DOMAIN log : ~Says(log[j], Turn)
             /\ \A k \in DOMAIN up : up[k] = Turn => k = Len(up)
    <3>1. \A k \in DOMAIN up' : up'[k] = Turn => k = Len(up') BY <1>0, <2>2, <2>3
    <3>. QED BY <2>1, <2>3, <3>1 DEF SentOnce, Says
  <2>4. CASE /\ up = <<>>
             /\ \A j \in DOMAIN log : log[j].user /\ Says(log[j], Turn) => Len(log) <= j + 1
    <3>1. up' = <<>> BY <1>0, <2>2, <2>4
    <3>. QED BY <2>1, <2>4, <3>1 DEF SentOnce, Says
  <2>. QED BY <2>3, <2>4 DEF SentOnce
<1>4. CASE Starts
  <2>1. log' = log /\ Turn' = Turn + 1 /\ Turn' \in Turns /\ Send(Turn')
    BY <1>4, StartsSay, StepFrames
  <2>2. Len(up') = Len(up) + 1 /\ \A k \in 1..Len(up) : up'[k] = up[k] BY <2>1, MessageSent
  <2>3. \A j \in DOMAIN log' : ~Says(log'[j], Turn')
    <3>1. \A j \in DOMAIN log : \A k \in DOMAIN log[j].turns : log[j].turns[k] \in 1..Turn
      BY DEF RowsOK, RowOK
    <3>. QED BY <1>0, <2>1, <3>1 DEF Says
  <2>4. \A k \in DOMAIN up' : up'[k] = Turn' => k = Len(up')
    <3>1. \A k \in DOMAIN up : up[k] \in 1..Turn BY DEF NumbersOK
    <3>. QED BY <1>0, <2>1, <2>2, <3>1
  <2>. QED BY <2>3, <2>4 DEF SentOnce, Says
<1>5. CASE Resend BY <1>5, StepFrames DEF SentOnce
<1>6. CASE log' = log /\ said' = said /\ up' = up /\ sends' = sends
  BY <1>6 DEF SentOnce, Says, Turn
<1>. QED BY <1>1, <1>2, <1>3, <1>4, <1>5, <1>6, StepKinds, StepFrames
-----------------------------------------------------------------------------
(* The frames on the wire and in the turn's hands.                          *)

(* _pump: a frame that is not the bot's is dropped, the bot's are taken.     *)
LEMMA FrameTaken ==
  ASSUME TypeOK, Receive
  PROVE  /\ pc = "await" /\ alive /\ slipped' = slipped /\ wire \in Seq(Frame)
         /\ wire' \in Seq(Frame) /\ Len(wire') = Len(wire) - 1 /\ Len(wire) > 0
         /\ \A i \in 1..Len(wire') : wire'[i] = wire[i + 1]
         /\ Taken(wire[1]) \in Answer
         /\ \/ ~FromBot(wire[1]) /\ got' = got /\ pc' = pc
            \/ /\ FromBot(wire[1]) /\ got' = Append(got, Taken(wire[1]))
               /\ pc' = IF EndsTurn(wire[1].parsed) THEN "store" ELSE "await"
<1>1. pc = "await" /\ alive /\ slipped' = slipped /\ wire # <<>> /\ wire' = Tail(wire)
      /\ wire \in Seq(Frame) /\ ~Raises(Head(wire).parsed)
  BY DEF Receive, TypeOK
<1>2. /\ wire' \in Seq(Frame) /\ Len(wire') = Len(wire) - 1 /\ Len(wire) > 0
      /\ \A i \in 1..Len(wire') : wire'[i] = wire[i + 1]
      /\ Head(wire) = wire[1] /\ Taken(wire[1]) \in Answer
  BY <1>1, FrameRead
<1>3. CASE Discarded(wire[1].parsed)
  <2>1. got' = got /\ pc' = pc BY <1>2, <1>3 DEF Receive
  <2>. QED BY <1>1, <1>2, <1>3, <2>1 DEF Discarded, FromBot
<1>4. CASE ~Discarded(wire[1].parsed)
  <2>1. got' = Append(got, Taken(wire[1])) /\ pc' = IF EndsTurn(wire[1].parsed) THEN "store" ELSE "await"
    BY <1>2, <1>4 DEF Receive, Goto
  <2>. QED BY <1>1, <1>2, <1>4, <2>1 DEF Discarded, FromBot
<1>. QED BY <1>3, <1>4
(* The frames of a reply: the bot's, and the last one ends the turn.        *)
LEMMA ReplyFrames ==
  ASSUME NEW es \in BotReplies, NEW ts \in Seq(Turns)
  PROVE  /\ Frames(es, ts) \in Seq(Frame) /\ Len(Frames(es, ts)) = Len(es) /\ Len(es) \in 1..2
         /\ \A i \in 1..Len(es) :
              /\ FromBot(Frames(es, ts)[i]) /\ (EndsTurn(Frames(es, ts)[i].parsed) <=> i = Len(es))
              /\ Frames(es, ts)[i].turns = ts /\ Frames(es, ts)[i].part = i
         /\ \E i \in 1..Len(es) : Frames(es, ts)[i].parsed.msg \/ Frames(es, ts)[i].parsed.control
<1>1. /\ es \in Seq(Envelope) /\ Len(es) \in 1..2
      /\ \A i \in 1..Len(es) :
           parse(es[i]).source = "bot" /\ (EndsTurn(parse(es[i])) <=> i = Len(es))
      /\ \E i \in 1..Len(es) : parse(es[i]).msg \/ parse(es[i]).control
  BY InterviewConstants, MitraFrames DEF EndsTurn
<1>2. /\ Frames(es, ts) \in Seq(Frame) /\ Len(Frames(es, ts)) = Len(es)
      /\ \A i \in 1..Len(es) :
           /\ Frames(es, ts)[i].parsed = parse(es[i])
           /\ Frames(es, ts)[i].turns = ts /\ Frames(es, ts)[i].part = i
  BY <1>1, FramesTyped
<1>. QED BY <1>1, <1>2 DEF FromBot
(* The echo of a message and an error of Mitra are not the bot's.           *)
LEMMA OtherFrames ==
  /\ Frames(<<Echo>>, <<>>) \in Seq(Frame) /\ Len(Frames(<<Echo>>, <<>>)) = 1
  /\ ~FromBot(Frames(<<Echo>>, <<>>)[1]) /\ Discarded(Frames(<<Echo>>, <<>>)[1].parsed)
  /\ \A e \in BotErrors, ts \in Seq(Turns) :
       Frames(<<e>>, ts) \in Seq(Frame) /\ Len(Frames(<<e>>, ts)) = 1 /\ ~FromBot(Frames(<<e>>, ts)[1])
<1>1. <<>> \in Seq(Turns) OBVIOUS
<1>2. /\ Frames(<<Echo>>, <<>>) \in Seq(Frame) /\ Len(Frames(<<Echo>>, <<>>)) = 1
      /\ Frames(<<Echo>>, <<>>)[1].parsed = parse(Echo)
  BY <1>1, EchoQuiet, OneFrame
<1>3. ASSUME NEW e \in BotErrors, NEW ts \in Seq(Turns)
      PROVE  Frames(<<e>>, ts) \in Seq(Frame) /\ Len(Frames(<<e>>, ts)) = 1 /\ ~FromBot(Frames(<<e>>, ts)[1])
  <2>1. e \in Envelope /\ Raises(parse(e)) BY InterviewConstants, MitraFrames
  <2>2. /\ Frames(<<e>>, ts) \in Seq(Frame) /\ Len(Frames(<<e>>, ts)) = 1
        /\ Frames(<<e>>, ts)[1].parsed = parse(e)
    BY <2>1, OneFrame
  <2>. QED BY <2>1, <2>2 DEF Raises, FromBot
<1>. QED BY <1>2, <1>3, EchoQuiet DEF FromBot
(* What Mitra's steps put on the wire.                                      *)
LEMMA MitraEmits ==
  ASSUME TypeOK, MitraRecords \/ MitraReplies \/ MitraErrs
  PROVE  \E frames \in Seq(Frame) :
           /\ Emit(frames)
           /\ \/ ~MitraReplies /\ Len(frames) = 1 /\ ~FromBot(frames[1])
              \/ \E es \in BotReplies : MitraReplies /\ frames = Frames(es, log[Len(log)].turns)
<1>1. CASE MitraRecords /\ ~MitraReplies
  <2>1. Emit(Frames(<<Echo>>, <<>>)) BY <1>1 DEF MitraRecords
  <2>. QED BY <1>1, <2>1, OtherFrames
<1>2. CASE MitraReplies
  <2>1. PICK es \in BotReplies : Emit(Frames(es, log[Len(log)].turns)) BY <1>2, QuestionAnswered
  <2>2. Frames(es, log[Len(log)].turns) \in Seq(Frame) BY <1>2, QuestionAnswered, ReplyFrames
  <2>. QED BY <1>2, <2>1, <2>2
<1>3. CASE MitraErrs /\ ~MitraReplies
  <2>1. PICK e \in BotErrors : Emit(Frames(<<e>>, Last(log).turns)) BY <1>3 DEF MitraErrs
  <2>2. Last(log).turns \in Seq(Turns)
    <3>1. Last(log) \in Row BY <1>3 DEF MitraErrs, AwaitsReply, Last, TypeOK
    <3>. QED BY <3>1 DEF Row
  <2>. QED BY <1>3, <2>1, <2>2, OtherFrames
<1>. QED BY <1>1, <1>2, <1>3
(* The frames of a reply stay together on the wire.                         *)
LEMMA WireStep ==
  ASSUME TypeOK, NumbersOK, RowsOK, WireOK, [Next]_vars
  PROVE  WireOK'
<1>0. /\ wire \in Seq(Frame) /\ wire' \in Seq(Frame) /\ Len(wire) \in Nat /\ Len(wire') \in Nat
      /\ DOMAIN wire = 1..Len(wire) /\ DOMAIN wire' = 1..Len(wire')
  <2>1. TypeOK' BY TypesStep
  <2>2. wire \in Seq(Frame) BY DEF TypeOK
  <2>3. wire' \in Seq(Frame) BY <2>1 DEF TypeOK
  <2>. QED BY <2>2, <2>3
<1>1. CASE MitraRecords \/ MitraReplies \/ MitraErrs
  <2>1. PICK frames \in Seq(Frame) :
          /\ Emit(frames)
          /\ \/ Len(frames) = 1 /\ ~FromBot(frames[1])
             \/ \E es \in BotReplies : MitraReplies /\ frames = Frames(es, log[Len(log)].turns)
    BY <1>1, MitraEmits
  <2>2. \A k \in 1..Len(frames) : FromBot(frames[k]) /\ ~EndsTurn(frames[k].parsed) =>
          /\ k + 1 \in 1..Len(frames) /\ FromBot(frames[k + 1]) /\ EndsTurn(frames[k + 1].parsed)
          /\ frames[k + 1].turns = frames[k].turns
    <3>1. CASE Len(frames) = 1 /\ ~FromBot(frames[1]) BY <3>1
    <3>2. CASE \E es \in BotReplies : MitraReplies /\ frames = Frames(es, log[Len(log)].turns)
      <4>1. PICK es \in BotReplies : MitraReplies /\ frames = Frames(es, log[Len(log)].turns) BY <3>2
      <4>2. log[Len(log)].turns \in Seq(Turns) BY <4>1, QuestionAnswered
      <4>3. /\ Len(frames) = Len(es) /\ Len(es) \in 1..2
            /\ \A i \in 1..Len(es) : /\ FromBot(frames[i])
                                     /\ EndsTurn(frames[i].parsed) <=> i = Len(es)
                                     /\ frames[i].turns = log[Len(log)].turns
        BY <4>1, <4>2, ReplyFrames
      <4>. QED BY <4>3
    <3>. QED BY <2>1, <3>1, <3>2
  <2>3. alive' = alive BY <1>1, StepFrames
  <2>4. CASE ~alive
    <3>1. wire' = wire /\ wire = <<>> BY <2>1, <2>4, Emitted DEF TypeOK, WireOK
    <3>. QED BY <3>1 DEF WireOK
  <2>5. CASE alive
    <3>1. /\ Len(wire') = Len(wire) + Len(frames) /\ Len(frames) \in Nat
          /\ \A i \in 1..Len(wire) : wire'[i] = wire[i]
          /\ \A i \in 1..Len(frames) : wire'[Len(wire) + i] = frames[i]
      BY <2>1, <2>5, Emitted DEF TypeOK
    <3>2. ASSUME NEW i \in DOMAIN wire', FromBot(wire'[i]), ~EndsTurn(wire'[i].parsed)
          PROVE  /\ i + 1 \in DOMAIN wire' /\ FromBot(wire'[i + 1]) /\ EndsTurn(wire'[i + 1].parsed)
                 /\ wire'[i + 1].turns = wire'[i].turns
      <4>1. CASE i \in 1..Len(wire)
        <5>1. /\ i + 1 \in DOMAIN wire /\ FromBot(wire[i + 1]) /\ EndsTurn(wire[i + 1].parsed)
              /\ wire[i + 1].turns = wire[i].turns
          BY <1>0, <3>1, <3>2, <4>1 DEF WireOK
        <5>. QED BY <1>0, <3>1, <4>1, <5>1
      <4>2. CASE i \notin 1..Len(wire)
        <5>1. PICK k \in 1..Len(frames) : i = Len(wire) + k
          <6>1. i - Len(wire) \in 1..Len(frames) /\ i = Len(wire) + (i - Len(wire))
            BY <1>0, <3>1, <4>2
          <6>. QED BY <6>1
        <5>2. wire'[i] = frames[k] BY <3>1, <5>1
        <5>3. /\ k + 1 \in 1..Len(frames) /\ FromBot(frames[k + 1]) /\ EndsTurn(frames[k + 1].parsed)
              /\ frames[k + 1].turns = frames[k].turns
          BY <2>2, <3>2, <5>2
        <5>4. i + 1 \in DOMAIN wire' /\ wire'[i + 1] = frames[k + 1]
          BY <1>0, <3>1, <5>1, <5>3
        <5>. QED BY <5>2, <5>3, <5>4
      <4>. QED BY <4>1, <4>2
    <3>. QED BY <2>3, <2>5, <3>2 DEF WireOK, FromBot
  <2>. QED BY <2>4, <2>5
<1>2. ASSUME NEW n \in 0..Len(wire), Len(wire') = Len(wire) - n,
             \A i \in 1..Len(wire') : wire'[i] = wire[n + i], alive'
      PROVE  WireOK'
  <2>1. ASSUME NEW i \in DOMAIN wire', FromBot(wire'[i]), ~EndsTurn(wire'[i].parsed)
        PROVE  /\ i + 1 \in DOMAIN wire' /\ FromBot(wire'[i + 1]) /\ EndsTurn(wire'[i + 1].parsed)
               /\ wire'[i + 1].turns = wire'[i].turns
    <3>1. n + i \in DOMAIN wire /\ wire'[i] = wire[n + i] BY <1>0, <1>2
    <3>2. /\ (n + i) + 1 \in DOMAIN wire /\ FromBot(wire[(n + i) + 1])
          /\ EndsTurn(wire[(n + i) + 1].parsed) /\ wire[(n + i) + 1].turns = wire[n + i].turns
      BY <2>1, <3>1 DEF WireOK
    <3>3. i + 1 \in DOMAIN wire' /\ wire'[i + 1] = wire[(n + i) + 1] BY <1>0, <1>2, <3>2
    <3>. QED BY <3>1, <3>2, <3>3
  <2>. QED BY <1>2, <2>1 DEF WireOK, FromBot
<1>3. CASE Starts \/ Resend
  <2>1. PICK t \in Turns : Send(t)
    <3>1. CASE Starts BY <3>1, StartsSay
    <3>2. CASE Resend BY <3>2, TurnNumbers DEF Resend
    <3>. QED BY <1>3, <3>1, <3>2
  <2>. QED BY <1>2, <2>1, MessageSent
<1>4. CASE Reads
  <2>1. alive /\ alive' = alive /\ wire # <<>> /\ wire' = Tail(wire)
    BY <1>4 DEF Reads, Receive, RemoteError
  <2>2. /\ Len(wire') = Len(wire) - 1 /\ Len(wire) > 0 /\ \A i \in 1..Len(wire') : wire'[i] = wire[i + 1]
    BY <2>1, FrameRead
  <2>3. \A i \in 1..Len(wire') : wire'[i] = wire[1 + i] BY <2>2
  <2>4. 1 \in 0..Len(wire) BY <1>0, <2>2
  <2>. QED BY <1>2, <2>1, <2>2, <2>3, <2>4
<1>5. CASE Drop
  <2>1. wire' = <<>> /\ alive' = FALSE BY <1>5 DEF Drop
  <2>. QED BY <2>1 DEF WireOK
<1>6. CASE wire' = wire /\ alive' = alive BY <1>6 DEF WireOK, FromBot
<1>. QED BY <1>1, <1>3, <1>4, <1>5, <1>6, StepKinds, StepFrames
(* The frames in the turn's hands are the start of one reply.               *)
LEMMA GotStep ==
  ASSUME TypeOK, NumbersOK, RowsOK, WireOK, GotOK, [Next]_vars
  PROVE  GotOK'
<1>0. wire \in Seq(Frame) /\ Len(wire) \in Nat /\ DOMAIN wire = 1..Len(wire) /\ got \in Seq(Answer)
  BY DEF TypeOK
<1>1. CASE MitraRecords \/ MitraReplies \/ MitraErrs
  <2>1. pc' = pc /\ got' = got /\ alive' = alive BY <1>1, StepFrames
  <2>2. wire # <<>> /\ alive => wire' # <<>> /\ wire'[1] = wire[1]
    <3>1. PICK frames \in Seq(Frame) : Emit(frames) BY <1>1, MitraEmits
    <3>2. alive => /\ Len(wire') = Len(wire) + Len(frames) /\ Len(frames) \in Nat
                   /\ \A i \in 1..Len(wire) : wire'[i] = wire[i]
      BY <3>1, Emitted DEF TypeOK
    <3>3. wire # <<>> => Len(wire) > 0 BY <1>0
    <3>4. Len(wire) > 0 /\ alive => Len(wire') > 0 /\ wire'[1] = wire[1] BY <1>0, <3>2
    <3>. QED BY <3>3, <3>4
  <2>. QED BY <2>1, <2>2 DEF GotOK, OneReply, FromBot
<1>2. CASE Drop
  <2>1. alive' = FALSE BY <1>2 DEF Drop
  <2>. QED BY <1>2, <2>1, StepFrames DEF GotOK, OneReply
<1>3. CASE Starts \/ Resend
  <2>1. got' = <<>> /\ pc' = "await"
    <3>1. CASE Starts BY <3>1, StartsSay DEF Send
    <3>2. CASE Resend BY <3>2 DEF Resend, Send
    <3>. QED BY <1>3, <3>1, <3>2
  <2>. QED BY <2>1 DEF GotOK
<1>4. CASE Receive
  <2>1. /\ pc = "await" /\ alive /\ Len(wire) > 0 /\ Len(wire') = Len(wire) - 1
        /\ \A i \in 1..Len(wire') : wire'[i] = wire[i + 1]
        /\ Taken(wire[1]) \in Answer
        /\ \/ ~FromBot(wire[1]) /\ got' = got /\ pc' = pc
           \/ /\ FromBot(wire[1]) /\ got' = Append(got, Taken(wire[1]))
              /\ pc' = IF EndsTurn(wire[1].parsed) THEN "store" ELSE "await"
    BY <1>4, FrameTaken
  <2>. DEFINE f == Taken(wire[1])
  <2>2. f.turns = wire[1].turns /\ (f.fin <=> EndsTurn(wire[1].parsed)) /\ f \in Answer
    BY <2>1 DEF Taken
  <2>. HIDE DEF f
  <2>3. CASE ~FromBot(wire[1])
    <3>1. got = <<>> BY <2>1, <2>3 DEF GotOK
    <3>. QED BY <2>1, <2>3, <3>1 DEF GotOK
  <2>4. CASE FromBot(wire[1]) /\ got = <<>>
    <3>1. got' = <<f>> BY <2>1, <2>4 DEF f
    <3>2. Len(got') = 1 /\ got'[1] = f BY <3>1
    <3>3. CASE EndsTurn(wire[1].parsed)
      <4>1. pc' = "store" BY <2>1, <2>4, <3>3
      <4>2. OneReply(got') BY <3>1 DEF OneReply
      <4>. QED BY <4>1, <4>2 DEF GotOK, OneReply
    <3>4. CASE ~EndsTurn(wire[1].parsed)
      <4>1. pc' = "await" BY <2>1, <2>4, <3>4
      <4>2. /\ 2 \in DOMAIN wire /\ FromBot(wire[2]) /\ EndsTurn(wire[2].parsed)
            /\ wire[2].turns = wire[1].turns
        <5>1. 1 \in DOMAIN wire /\ 1 + 1 = 2 BY <1>0, <2>1
        <5>. QED BY <2>4, <3>4, <5>1 DEF WireOK
      <4>3. wire' # <<>> /\ wire'[1] = wire[2]
        <5>1. Len(wire') > 0 BY <1>0, <2>1, <4>2
        <5>2. wire'[1] = wire[2] BY <1>0, <2>1, <5>1
        <5>. QED BY <5>1, <5>2
      <4>. QED BY <2>2, <3>2, <3>4, <4>1, <4>2, <4>3 DEF GotOK, FromBot
    <3>. QED BY <3>3, <3>4
  <2>5. CASE FromBot(wire[1]) /\ got # <<>>
    <3>1. Len(got) = 1 /\ ~got[1].fin /\ EndsTurn(wire[1].parsed) /\ wire[1].turns = got[1].turns
      BY <2>1, <2>5 DEF GotOK
    <3>2. got' = Append(got, f) /\ pc' = "store" BY <2>1, <2>5, <3>1 DEF f
    <3>3. Len(got') = 2 /\ got'[1] = got[1] /\ got'[2] = f /\ DOMAIN got' = 1..2
      <4>1. /\ got' \in Seq(Answer) /\ Len(got') = Len(got) + 1
            /\ \A i \in 1..Len(got) : got'[i] = got[i]
            /\ got'[Len(got) + 1] = f
        BY <1>0, <2>2, <3>2, OneMore
      <4>. QED BY <3>1, <4>1
    <3>4. OneReply(got') BY <2>2, <3>1, <3>3 DEF OneReply
    <3>. QED BY <3>2, <3>4 DEF GotOK, OneReply
  <2>. QED BY <2>3, <2>4, <2>5
<1>5. CASE RemoteError
  <2>1. pc' = "idle" BY <1>5 DEF RemoteError, Goto
  <2>. QED BY <2>1 DEF GotOK
<1>6. CASE Waits
  <2>1. got' = got /\ pc' # "await" /\ pc' # "recovered" /\ (pc' = "store" => pc = "await")
    BY <1>6, StepFrames
  <2>2. pc = "await" => OneReply(got) BY <1>0 DEF GotOK, OneReply
  <2>. QED BY <2>1, <2>2 DEF GotOK, OneReply
<1>7. CASE RecoverReply
  <2>1. pc' = "recovered" /\ got' = Recovered(PageAfter(count), said[Turn])
    BY <1>7 DEF RecoverReply, Goto
  <2>2. OneReply(got') BY <2>1 DEF OneReply, Recovered
  <2>. QED BY <2>1, <2>2 DEF GotOK, OneReply
<1>8. CASE Stores BY <1>8, StepFrames DEF GotOK
<1>9. CASE wire' = wire /\ alive' = alive /\ pc' = pc /\ got' = got
  BY <1>9 DEF GotOK, OneReply, FromBot
<1>. QED
  BY <1>1, <1>2, <1>3, <1>4, <1>5, <1>6, <1>7, <1>8, <1>9, StepKinds, StepFrames DEF Reads
(* What the steps that store a reply store.                                 *)
LEMMA ReplyStored ==
  ASSUME TypeOK, [Next]_vars
  PROVE  \/ replies' = replies
         \/ \E r : /\ replies' = Append(replies, r)
                   /\ \/ /\ Stores /\ r.turn = Turn /\ r.asked = <<said[Turn]>> /\ r.parts = got
                         /\ r.by = IF pc = "store" THEN "socket" ELSE "recovery"
                         /\ r.own = (sends = 1 /\ OwnRow(count))
                         /\ r.done = (r.polled /\ PollCompleted)
                         /\ r.over = (log # <<>> /\ Last(log).over)
                      \/ /\ CheckAnswered /\ r.by = "resume" /\ r.asked = <<said[check.turn]>>
                         /\ r.parts = Recovered(PageAfter(check.count), said[check.turn])
                         /\ ~r.polled
<1>1. CASE Store BY <1>1 DEF Store, StoreReply, Stores
<1>2. CASE StoreRecovered BY <1>2 DEF StoreRecovered, StoreReply, Stores
<1>3. CASE CheckAnswered BY <1>3 DEF CheckAnswered
<1>4. CASE replies' = replies BY <1>4
<1>5. CASE Starts \/ Resend BY <1>5, StepFrames
<1>. QED BY <1>1, <1>2, <1>3, <1>4, <1>5, StepKinds, StepFrames DEF Stores
(* A property of every stored reply and of the new one is a property of all. *)
LEMMA OneMoreReply ==
  ASSUME TypeOK, NEW r, replies' = Append(replies, r)
  PROVE  /\ DOMAIN replies' = 1..(Len(replies) + 1) /\ DOMAIN replies = 1..Len(replies)
         /\ \A i \in DOMAIN replies' : \/ i \in DOMAIN replies /\ replies'[i] = replies[i]
                                       \/ i = Len(replies) + 1 /\ replies'[i] = r
<1>1. replies \in Seq(Reply) BY DEF TypeOK
<1>2. PICK S : S = Reply \cup {r} OBVIOUS
<1>3. replies \in Seq(S) /\ r \in S /\ Len(replies) \in Nat BY <1>1, <1>2
<1>4. /\ replies' \in Seq(S) /\ Len(replies') = Len(replies) + 1
      /\ \A i \in 1..Len(replies) : replies'[i] = replies[i]
      /\ replies'[Len(replies) + 1] = r
  BY <1>3, OneMore
<1>5. DOMAIN replies = 1..Len(replies) /\ DOMAIN replies' = 1..(Len(replies) + 1)
  BY <1>3, <1>4
<1>6. ASSUME NEW i \in DOMAIN replies'
      PROVE  \/ i \in DOMAIN replies /\ replies'[i] = replies[i]
             \/ i = Len(replies) + 1 /\ replies'[i] = r
  <2>1. i \in 1..Len(replies) \/ i = Len(replies) + 1 BY <1>3, <1>5
  <2>. QED BY <1>4, <1>5, <2>1
<1>. QED BY <1>5, <1>6
(* No step joins the frames of two replies into one message.                *)
LEMMA SplicedStep ==
  ASSUME TypeOK, GotOK, NeverSpliced, [Next]_vars
  PROVE  NeverSpliced'
<1>1. CASE replies' = replies BY <1>1 DEF NeverSpliced
<1>2. ASSUME NEW r, replies' = Append(replies, r), OneReply(r.parts)
      PROVE  NeverSpliced'
  <2>1. \A i \in DOMAIN replies : OneReply(replies[i].parts) BY DEF NeverSpliced, OneReply
  <2>2. ASSUME NEW i \in DOMAIN replies'
        PROVE  OneReply(replies'[i].parts)
    BY <1>2, <2>1, OneMoreReply
  <2>. QED BY <2>2 DEF NeverSpliced, OneReply
<1>3. Stores => OneReply(got) BY StepFrames DEF GotOK
<1>4. \A rows, text : OneReply(Recovered(rows, text)) BY DEF OneReply, Recovered
<1>. QED BY <1>1, <1>2, <1>3, <1>4, ReplyStored
-----------------------------------------------------------------------------
(* Recovered replies.                                                      *)

(* A reply that was found in the transcript stays in it.                    *)
LEMMA RepliedToStays ==
  ASSUME TypeOK, NumbersOK, RowsOK, [Next]_vars, NEW turns, NEW text, RepliedTo(turns, text)
  PROVE  RepliedTo(turns, text)'
<1>1. PICK j \in DOMAIN log :
        j < Len(log) /\ log[j].user /\ log[j].turns = turns /\ log[j].text = text
  BY DEF RepliedTo
<1>2. Len(log) \in Nat /\ Len(log') \in Nat /\ Len(log') >= Len(log) /\ log'[j] = log[j]
      /\ j \in 1..Len(log)
  BY <1>1, OldRows DEF TypeOK
<1>3. j \in DOMAIN log'
  <2>1. TypeOK' BY TypesStep
  <2>2. DOMAIN log' = 1..Len(log') BY <2>1 DEF TypeOK
  <2>. QED BY <1>1, <1>2, <2>2
<1>4. j < Len(log') BY <1>1, <1>2
<1>. QED BY <1>1, <1>2, <1>3, <1>4 DEF RepliedTo
(* A turn's row of its own is one from the start: rows that grow hold two.   *)
LEMMA OwnRowStays ==
  ASSUME TypeOK, NumbersOK, RowsOK, [Next]_vars, NEW n \in Nat, n <= Len(log), said' = said,
         OwnRow(n)'
  PROVE  OwnRow(n)
<1>1. PICK i \in DOMAIN log' : i <= n /\ log'[i].user /\ log'[i].turns = <<Turn>>
  BY DEF OwnRow, Turn
<1>2. i \in 1..Len(log) /\ i \in DOMAIN log /\ Len(log) \in Nat /\ log \in Seq(Row)
  <2>1. TypeOK' BY TypesStep
  <2>2. log' \in Seq(Row) BY <2>1 DEF TypeOK
  <2>3. log \in Seq(Row) /\ Len(log) \in Nat /\ DOMAIN log = 1..Len(log) BY DEF TypeOK
  <2>. QED BY <1>1, <2>2, <2>3
<1>3. log'[i] = log[i]
  <2>1. CASE MitraRecords
    <3>1. Before \in 0..Len(log) /\ \A j \in 1..Before : log'[j] = log[j] BY <2>1, MessageRecorded
    <3>2. CASE i \in 1..Before BY <3>1, <3>2
    <3>3. CASE i \notin 1..Before
      <4>1. AwaitsReply /\ i = Before + 1 BY <1>2, <3>1, <3>3 DEF Before
      <4>2. log'[i].turns = Append(log[i].turns, up[1]) /\ log[i].turns # <<>>
        BY <2>1, <4>1, MessageRecorded
      <4>3. log[i].turns \in Seq(Turns)
        <5>1. log[i] \in Row BY <1>2
        <5>. QED BY <5>1 DEF Row
      <4>4. up[1] \in Turns BY <2>1, MessageRecorded, TurnNumbers
      <4>5. Len(log'[i].turns) > 1 BY <4>2, <4>3, <4>4, OneMore
      <4>. QED BY <1>1, <4>5
    <3>. QED BY <3>2, <3>3
  <2>2. CASE MitraReplies BY <1>2, <2>2, QuestionAnswered
  <2>3. CASE log' = log BY <2>3
  <2>. QED BY <2>1, <2>2, <2>3, OldRows
<1>. QED BY <1>1, <1>2, <1>3 DEF OwnRow
(* The newest row that says the text is the turn's own, if it has one among  *)
(* the counted rows and the message went out once.                          *)
LEMMA NewestIsOwn ==
  ASSUME TypeOK, NumbersOK, RowsOK, SentOnce, sends = 1, OwnRow(count),
         NEW i \in DOMAIN log, i < Len(log),
         \A j \in DOMAIN log : i < j /\ j <= count /\ log[j].user => log[j].text # <<said[Turn]>>
  PROVE  log[i].turns = <<Turn>>
<1>1. PICK j \in DOMAIN log : j <= count /\ log[j].user /\ log[j].turns = <<Turn>> BY DEF OwnRow
<1>2. i \in Nat /\ j \in Nat /\ Len(log) \in Nat /\ log[j] \in Row BY DEF TypeOK
<1>3. log[j].text = <<said[Turn]>>
  <2>1. /\ Len(log[j].text) = Len(log[j].turns)
        /\ \A k \in DOMAIN log[j].turns : log[j].text[k] = said[log[j].turns[k]]
    BY <1>1 DEF RowsOK, RowOK
  <2>2. Len(log[j].turns) = 1 /\ DOMAIN log[j].turns = 1..1 /\ log[j].turns[1] = Turn BY <1>1
  <2>3. Len(log[j].text) = 1 /\ log[j].text[1] = said[Turn] BY <2>1, <2>2
  <2>4. log[j].text \in Seq(Texts) BY <1>2 DEF Row
  <2>. QED BY <2>3, <2>4
<1>4. j <= i BY <1>1, <1>2, <1>3
<1>5. Says(log[j], Turn)
  <2>1. 1 \in DOMAIN log[j].turns /\ log[j].turns[1] = Turn BY <1>1
  <2>. QED BY <2>1 DEF Says
<1>6. Len(log) <= j + 1 BY <1>1, <1>5 DEF SentOnce
<1>7. i = j BY <1>2, <1>4, <1>6
<1>. QED BY <1>1, <1>7
(* Every step keeps what is known of recovered replies.                     *)
LEMMA RecoveredStep ==
  ASSUME TypeOK, NumbersOK, RowsOK, SentOnce, RecoveredOK, [Next]_vars
  PROVE  RecoveredOK'
<1>1. pc' = "recovered" =>
        /\ Len(got') = 1 /\ RepliedTo(got[1].turns, <<said[Turn]>>)'
        /\ (sends = 1 /\ OwnRow(count))' => got'[1].turns = <<Turn'>>
  <2>1. CASE RecoverReply
    <3>1. /\ got' = Recovered(PageAfter(count), said[Turn]) /\ Answered(PageAfter(count), said[Turn])
          /\ UNCHANGED <<log, said, sends, count>> /\ Turn' = Turn /\ count \in 0..Len(log)
      BY <2>1, StepFrames DEF RecoverReply, TypeOK, NumbersOK, Turn
    <3>2. PICK i \in DOMAIN log :
            /\ i < Len(log) /\ log[i].user /\ log[i].text = <<said[Turn]>>
            /\ \A j \in DOMAIN log :
                 i < j /\ j <= count /\ log[j].user => log[j].text # <<said[Turn]>>
            /\ Recovered(PageAfter(count), said[Turn]) =
                 <<[turns |-> log[i].turns, part |-> 0, fin |-> TRUE, msg |-> TRUE, control |-> FALSE]>>
      BY <3>1, RecoveredRow
    <3>3. Len(got') = 1 /\ got'[1].turns = log[i].turns BY <3>1, <3>2
    <3>4. RepliedTo(got[1].turns, <<said[Turn]>>)' BY <3>1, <3>2, <3>3 DEF RepliedTo
    <3>5. (sends = 1 /\ OwnRow(count))' => sends = 1 /\ OwnRow(count)
      BY <3>1 DEF OwnRow
    <3>6. sends = 1 /\ OwnRow(count) => log[i].turns = <<Turn>> BY <3>2, NewestIsOwn
    <3>. QED BY <3>1, <3>3, <3>4, <3>5, <3>6
  <2>2. CASE ~RecoverReply
    <3>. SUFFICES ASSUME pc' = "recovered"
                  PROVE  /\ Len(got') = 1 /\ RepliedTo(got[1].turns, <<said[Turn]>>)'
                         /\ (sends = 1 /\ OwnRow(count))' => got'[1].turns = <<Turn'>>
      OBVIOUS
    <3>1. UNCHANGED <<pc, got, said, sends, count>>
      <4>1. ~Starts BY StartsSay
      <4>2. ~Reads BY DEF Reads, Receive, RemoteError, Goto, FrameTaken
      <4>3. ~Resend BY DEF Resend
      <4>. QED BY <2>2, <4>1, <4>2, <4>3, StepKinds, StepFrames
    <3>2. /\ Len(got) = 1 /\ RepliedTo(got[1].turns, <<said[Turn]>>)
          /\ sends = 1 /\ OwnRow(count) => got[1].turns = <<Turn>>
      BY <3>1 DEF RecoveredOK
    <3>3. Turn' = Turn BY <3>1 DEF Turn
    <3>4. RepliedTo(got[1].turns, <<said[Turn]>>)'
      <4>1. PICK turns, text : turns = got[1].turns /\ text = <<said[Turn]>> OBVIOUS
      <4>2. RepliedTo(turns, text)' BY <3>2, <4>1, RepliedToStays
      <4>. QED BY <3>1, <3>3, <4>1, <4>2 DEF RepliedTo
    <3>5. OwnRow(count)' => OwnRow(count) BY <3>1, OwnRowStays DEF TypeOK, NumbersOK
    <3>. QED BY <3>1, <3>2, <3>3, <3>4, <3>5
  <2>. QED BY <2>1, <2>2
<1>2. ASSUME NEW i \in DOMAIN replies', replies'[i].by # "socket"
      PROVE  /\ RepliedTo(replies[i].parts[1].turns, replies[i].asked)'
             /\ replies'[i].by = "recovery" /\ replies'[i].own => AnswersTurn(replies'[i])
  <2>1. ASSUME i \in DOMAIN replies, replies'[i] = replies[i]
        PROVE  /\ RepliedTo(replies[i].parts[1].turns, replies[i].asked)'
               /\ replies'[i].by = "recovery" /\ replies'[i].own => AnswersTurn(replies'[i])
    <3>1. PICK turns, text : turns = replies[i].parts[1].turns /\ text = replies[i].asked OBVIOUS
    <3>2. /\ RepliedTo(turns, text)
          /\ replies[i].by = "recovery" /\ replies[i].own => AnswersTurn(replies[i])
      BY <1>2, <2>1, <3>1 DEF RecoveredOK
    <3>3. RepliedTo(turns, text)' BY <3>2, RepliedToStays
    <3>. QED BY <2>1, <3>1, <3>2, <3>3 DEF RepliedTo, AnswersTurn
  <2>2. CASE replies' = replies BY <2>1, <2>2
  <2>3. ASSUME NEW r, replies' = Append(replies, r),
               r.by # "socket" =>
                 /\ \E j \in DOMAIN log : /\ j < Len(log) /\ log[j].user
                                          /\ log[j].turns = r.parts[1].turns /\ log[j].text = r.asked
                 /\ r.by = "recovery" /\ r.own => AnswersTurn(r),
               log' = log
        PROVE  /\ RepliedTo(replies[i].parts[1].turns, replies[i].asked)'
               /\ replies'[i].by = "recovery" /\ replies'[i].own => AnswersTurn(replies'[i])
    <3>1. CASE i \in DOMAIN replies /\ replies'[i] = replies[i] BY <2>1, <3>1
    <3>2. CASE replies'[i] = r BY <1>2, <2>3, <3>2 DEF RepliedTo, AnswersTurn
    <3>. QED BY <2>3, <3>1, <3>2, OneMoreReply
  <2>4. ASSUME NEW r, replies' = Append(replies, r), Stores, r.turn = Turn, r.asked = <<said[Turn]>>,
               r.parts = got, r.by = IF pc = "store" THEN "socket" ELSE "recovery",
               r.own = (sends = 1 /\ OwnRow(count))
        PROVE  /\ RepliedTo(replies[i].parts[1].turns, replies[i].asked)'
               /\ replies'[i].by = "recovery" /\ replies'[i].own => AnswersTurn(replies'[i])
    <3>1. log' = log /\ pc \in {"store", "recovered"} BY <2>4, StepFrames
    <3>2. ASSUME r.by # "socket"
          PROVE  /\ \E j \in DOMAIN log : /\ j < Len(log) /\ log[j].user
                                          /\ log[j].turns = r.parts[1].turns /\ log[j].text = r.asked
                 /\ r.by = "recovery" /\ r.own => AnswersTurn(r)
      <4>1. pc = "recovered" BY <2>4, <3>1, <3>2
      <4>2. /\ Len(got) = 1 /\ RepliedTo(got[1].turns, <<said[Turn]>>)
            /\ sends = 1 /\ OwnRow(count) => got[1].turns = <<Turn>>
        BY <4>1 DEF RecoveredOK
      <4>3. got \in Seq(Answer) /\ DOMAIN got = 1..1 BY <4>2 DEF TypeOK
      <4>4. r.own => AnswersTurn(r)
        <5>1. r.own => sends = 1 /\ OwnRow(count) BY <2>4, Zenon
        <5>2. r.own => got[1].turns = <<Turn>> BY <4>2, <5>1
        <5>3. r.own => \A j \in DOMAIN r.parts : r.parts[j].turns = <<r.turn>> BY <2>4, <4>3, <5>2
        <5>. QED BY <5>3 DEF AnswersTurn
      <4>. QED BY <2>4, <4>2, <4>4 DEF RepliedTo
    <3>. QED BY <2>3, <2>4, <3>1, <3>2
  <2>5. ASSUME NEW r, replies' = Append(replies, r), CheckAnswered, r.by = "resume",
               r.asked = <<said[check.turn]>>,
               r.parts = Recovered(PageAfter(check.count), said[check.turn])
        PROVE  /\ RepliedTo(replies[i].parts[1].turns, replies[i].asked)'
               /\ replies'[i].by = "recovery" /\ replies'[i].own => AnswersTurn(replies'[i])
    <3>1. log' = log BY <2>5, StepFrames
    <3>2. Answered(PageAfter(check.count), said[check.turn]) /\ check.count \in 0..Len(log)
      BY <2>5 DEF CheckAnswered, TypeOK, NumbersOK
    <3>3. PICK k \in DOMAIN log :
            /\ k < Len(log) /\ log[k].user /\ log[k].text = <<said[check.turn]>>
            /\ \A j \in DOMAIN log :
                 k < j /\ j <= check.count /\ log[j].user => log[j].text # <<said[check.turn]>>
            /\ Recovered(PageAfter(check.count), said[check.turn]) =
                 <<[turns |-> log[k].turns, part |-> 0, fin |-> TRUE, msg |-> TRUE, control |-> FALSE]>>
      BY <3>2, RecoveredRow
    <3>4. r.parts[1].turns = log[k].turns BY <2>5, <3>3
    <3>. QED BY <2>3, <2>5, <3>1, <3>3, <3>4
  <2>. QED BY <2>2, <2>4, <2>5, ReplyStored
<1>. QED BY <1>1, <1>2 DEF RecoveredOK
-----------------------------------------------------------------------------
(* The length of Mitra's transcript.                                       *)

(* What there is, and what is to come, is at most two rows per message.      *)
LEMMA TrafficStep ==
  ASSUME TypeOK, NumbersOK, RowsOK, TrafficOK, [Next]_vars
  PROVE  TrafficOK'
<1>. DEFINE A == IF AwaitsReply THEN 1 ELSE 0
<1>0. /\ Len(log) \in Nat /\ Len(up) \in Nat /\ Len(log') \in Nat /\ Len(up') \in Nat
      /\ Turn \in Nat /\ A \in 0..1 /\ A' \in 0..1
      /\ Traffic = Len(log) + A + 2 * Len(up) /\ Traffic' = Len(log') + A' + 2 * Len(up')
  <2>1. TypeOK' BY TypesStep
  <2>2. Len(log) \in Nat /\ Len(up) \in Nat BY DEF TypeOK
  <2>3. Len(log') \in Nat /\ Len(up') \in Nat BY <2>1, SMTT(60) DEF TypeOK
  <2>. QED BY <2>2, <2>3, TurnNumbers DEF Traffic
<1>1. ASSUME Turn' = Turn, sends' = sends, Traffic' <= Traffic
      PROVE  TrafficOK'
  <2>. HIDE DEF A
  <2>. QED BY <1>0, <1>1 DEF TrafficOK
<1>2. CASE MitraRecords
  <2>1. Turn' = Turn /\ sends' = sends BY <1>2, StepFrames DEF Turn
  <2>2. Len(up') = Len(up) - 1 /\ Before \in 0..Len(log) /\ Len(log') = Before + 1 BY <1>2, MessageRecorded
  <2>3. Len(log') <= Len(log) + A + 1
    <3>1. CASE AwaitsReply BY <1>0, <2>2, <3>1 DEF Before
    <3>2. CASE ~AwaitsReply BY <1>0, <1>2, <2>2, <3>2 DEF Before
    <3>. QED BY <3>1, <3>2
  <2>. HIDE DEF A
  <2>. QED BY <1>0, <1>1, <2>1, <2>2, <2>3
<1>3. CASE MitraReplies
  <2>1. Turn' = Turn /\ sends' = sends /\ up' = up BY <1>3, StepFrames DEF Turn
  <2>2. AwaitsReply /\ Len(log') = Len(log) + 1 /\ ~log'[Len(log) + 1].user BY <1>3, QuestionAnswered
  <2>3. A = 1 /\ A' = 0 BY <1>0, <2>2 DEF AwaitsReply, Last
  <2>. HIDE DEF A
  <2>. QED BY <1>0, <1>1, <2>1, <2>2, <2>3
<1>4. CASE Drop
  <2>1. Turn' = Turn /\ sends' = sends /\ log' = log BY <1>4, StepFrames DEF Turn
  <2>2. Len(up') <= Len(up) BY <1>4, Lost
  <2>3. A' = A BY <2>1 DEF AwaitsReply
  <2>. HIDE DEF A
  <2>. QED BY <1>0, <1>1, <2>1, <2>2, <2>3
<1>5. CASE Starts
  <2>1. Turn' = Turn + 1 /\ Turn' \in Turns /\ log' = log /\ sends' = 1 /\ Send(Turn')
    BY <1>5, StartsSay, StepFrames
  <2>2. Len(up') = Len(up) + 1 BY <2>1, MessageSent
  <2>3. A' = A BY <2>1 DEF AwaitsReply
  <2>. HIDE DEF A
  <2>. QED BY <1>0, <2>1, <2>2, <2>3 DEF TrafficOK
<1>6. CASE Resend
  <2>1. Turn' = Turn /\ log' = log /\ sends = 1 /\ sends' = 2 BY <1>6, StepFrames DEF Turn
  <2>2. Send(Turn) /\ Turn \in Turns BY <1>6, TurnNumbers DEF Resend
  <2>3. Len(up') = Len(up) + 1 BY <2>2, MessageSent
  <2>4. A' = A BY <2>1 DEF AwaitsReply
  <2>. HIDE DEF A
  <2>. QED BY <1>0, <2>1, <2>3, <2>4 DEF TrafficOK
<1>7. CASE log' = log /\ up' = up /\ said' = said /\ sends' = sends
  <2>1. Turn' = Turn /\ Traffic' = Traffic BY <1>7 DEF Turn, Traffic, AwaitsReply
  <2>. QED BY <1>7, <2>1 DEF TrafficOK
<1>. QED BY <1>2, <1>3, <1>4, <1>5, <1>6, <1>7, StepKinds, StepFrames
-----------------------------------------------------------------------------
(* The exchange before anything slips.                                     *)

(* Until something slips, only Mitra, the network, a new turn, the next      *)
(* frame and the socket's reply move.                                       *)
LEMMA UnslippedKinds ==
  ASSUME TypeOK, NumbersOK, InStepInv, [Next]_vars, ~slipped'
  PROVE  /\ ~slipped
         /\ \/ MitraRecords \/ MitraReplies \/ MitraErrs \/ Drop
            \/ Starts \/ Receive \/ Store \/ UNCHANGED vars
<1>1. ~slipped /\ ~RemoteError /\ ~Flush /\ ~Timeout /\ ~StoreFails /\ ~Resend
  <2>1. ~RemoteError /\ ~Flush /\ ~Timeout /\ ~StoreFails /\ ~Resend
    BY DEF RemoteError, Flush, Timeout, StoreFails, Resend
  <2>2. Receive \/ SecondLoss \/ CountRows \/ SurfaceTimeout => slipped' = slipped
    BY DEF Receive, SecondLoss, CountRows, SurfaceTimeout
  <2>3. Starts => slipped' = slipped \/ slipped' = TRUE BY DEF Starts, StartTurn, SayAgain
  <2>. QED BY <2>1, <2>2, <2>3, StepKinds, StepFrames DEF Reads, Waits
<1>2. pc \in {"idle", "await", "store"} /\ sends <= 1 /\ items = {} /\ check.at = "idle"
  BY <1>1 DEF InStepInv
<1>3. ~SecondLoss /\ ~CountRows /\ ~SurfaceTimeout /\ ~RecoverReply /\ ~StoreRecovered
  BY <1>2 DEF SecondLoss, CountRows, SurfaceTimeout, RecoverReply, StoreRecovered
<1>4. ~CheckAnswered /\ ~Checks
  BY <1>2 DEF CheckAnswered, Checks, StartCheck, CheckCount, CheckUnsettled, CheckNotDelivered, SayAgainBusy
<1>. QED BY <1>1, <1>3, <1>4, StepKinds DEF Reads, Waits, Stores
(* Mitra's step takes the exchange from one stage to the next.              *)
LEMMA InStepMitra ==
  ASSUME TypeOK, NumbersOK, RowsOK, alive, TypeOK',
         Underway \/ Recorded \/ Replied, MitraRecords \/ MitraReplies \/ MitraErrs
  PROVE  Recorded' \/ Replied'
<1>0. /\ wire \in Seq(Frame) /\ wire' \in Seq(Frame) /\ Len(wire) \in Nat
      /\ DOMAIN wire = 1..Len(wire) /\ DOMAIN wire' = 1..Len(wire') /\ log' \in Seq(Row)
      /\ got' = got /\ alive' = alive /\ Turn' = Turn /\ up' \in Seq(Turns) /\ up \in Seq(Turns)
      /\ log \in Seq(Row)
  <2>1. wire \in Seq(Frame) /\ up \in Seq(Turns) /\ log \in Seq(Row) BY DEF TypeOK
  <2>2. wire' \in Seq(Frame) /\ log' \in Seq(Row) /\ up' \in Seq(Turns) BY DEF TypeOK
  <2>3. got' = got /\ alive' = alive /\ said' = said BY StepFrames
  <2>. QED BY <2>1, <2>2, <2>3 DEF Turn
<1>1. PICK frames \in Seq(Frame) :
        /\ Emit(frames)
        /\ \/ ~MitraReplies /\ Len(frames) = 1 /\ ~FromBot(frames[1])
           \/ \E es \in BotReplies : MitraReplies /\ frames = Frames(es, log[Len(log)].turns)
  BY MitraEmits
<1>2. /\ Len(wire') = Len(wire) + Len(frames) /\ Len(frames) \in Nat
      /\ \A i \in 1..Len(wire) : wire'[i] = wire[i]
      /\ \A i \in 1..Len(frames) : wire'[Len(wire) + i] = frames[i]
  <2>1. wire \in Seq(Frame) /\ Emit(frames) BY <1>0, <1>1
  <2>2. /\ Len(wire') = Len(wire) + Len(frames) /\ \A i \in 1..Len(wire) : wire'[i] = wire[i]
        /\ \A i \in 1..Len(frames) : wire'[Len(wire) + i] = frames[i]
    BY <2>1, Emitted
  <2>. QED BY <2>2
<1>3. ASSUME ~MitraReplies, \A i \in DOMAIN wire : ~FromBot(wire[i])
      PROVE  \A i \in DOMAIN wire' : ~FromBot(wire'[i])
  <2>1. Len(frames) = 1 /\ ~FromBot(frames[1]) BY <1>1, <1>3
  <2>2. ASSUME NEW i \in DOMAIN wire'
        PROVE  ~FromBot(wire'[i])
    <3>1. CASE i \in 1..Len(wire) BY <1>0, <1>2, <1>3, <3>1 DEF FromBot
    <3>2. CASE i \notin 1..Len(wire)
      <4>1. i = Len(wire) + 1 BY <1>0, <1>2, <2>1, <3>2
      <4>2. wire'[i] = frames[1] BY <1>2, <2>1, <4>1
      <4>. QED BY <2>1, <4>2 DEF FromBot
    <3>. QED BY <3>1, <3>2
  <2>. QED BY <2>2
<1>4. CASE MitraRecords /\ ~MitraReplies
  <2>1. up # <<>> /\ Len(up') = Len(up) - 1 /\ Before \in 0..Len(log) /\ Len(log') = Before + 1
    BY <1>4, MessageRecorded
  <2>2. up = <<Turn>> /\ ~AwaitsReply /\ got = <<>> /\ Quiet
    BY <2>1 DEF Underway, Recorded, Replied
  <2>3. log'[Before + 1].user /\ log'[Before + 1].turns = <<Turn>>
    BY <1>4, <2>2, MessageRecorded
  <2>4. AwaitsReply' /\ Last(log').turns = <<Turn>> /\ up' = <<>>
    BY <1>0, <2>1, <2>2, <2>3 DEF AwaitsReply, Last
  <2>5. \A i \in DOMAIN wire : ~FromBot(wire[i]) BY <2>2 DEF Quiet, Discarded, FromBot
  <2>6. \A i \in DOMAIN wire' : ~FromBot(wire'[i]) BY <1>3, <1>4, <2>5
  <2>. QED BY <1>0, <2>2, <2>4, <2>6 DEF Recorded, FromBot
<1>5. CASE MitraErrs /\ ~MitraReplies
  <2>1. AwaitsReply /\ log' = log /\ up' = up BY <1>5, StepFrames DEF MitraErrs
  <2>2. Recorded BY <2>1 DEF Underway, Replied
  <2>3. \A i \in DOMAIN wire' : ~FromBot(wire'[i]) BY <1>3, <1>5, <2>2 DEF Recorded
  <2>. QED BY <1>0, <2>1, <2>2, <2>3 DEF Recorded, AwaitsReply, FromBot
<1>6. CASE MitraReplies
  <2>1. /\ AwaitsReply /\ Last(log) = log[Len(log)] /\ Len(log) > 0
        /\ Len(log') = Len(log) + 1 /\ ~log'[Len(log) + 1].user /\ up' = up
    BY <1>6, QuestionAnswered, StepFrames
  <2>2. Recorded BY <2>1 DEF Underway, Replied
  <2>3. ~AwaitsReply' BY <1>0, <2>1 DEF AwaitsReply, Last
  <2>4. PICK es \in BotReplies : frames = Frames(es, <<Turn>>) BY <1>1, <1>6, <2>1, <2>2 DEF Recorded
  <2>5. <<Turn>> \in Seq(Turns)
    <3>1. log[Len(log)] \in Row BY <1>0, <2>1
    <3>. QED BY <2>1, <2>2, <3>1 DEF Recorded, Row
  <2>6. Len(frames) = Len(es) /\ Len(es) \in 1..2 BY <2>4, <2>5, ReplyFrames
  <2>7. Coming(es)'
    <3>1. got' = <<>> BY <1>0, <2>2 DEF Recorded
    <3>2. Len(wire') = Len(wire) + Len(es) BY <1>2, <2>6
    <3>3. \A i \in 1..Len(wire) : ~FromBot(wire'[i]) BY <1>0, <1>2, <2>2 DEF Recorded, FromBot
    <3>4. \A i \in 1..Len(es) : wire'[Len(wire) + i] = Frames(es, <<Turn>>)[i] BY <1>2, <2>4, <2>6
    <3>5. PICK n \in Nat : n = Len(wire) BY <1>0
    <3>6. /\ Len(wire') = n + Len(es) /\ \A i \in 1..n : ~FromBot(wire'[i])
          /\ \A i \in 1..Len(es) : wire'[n + i] = Frames(es, <<Turn'>>)[i]
      BY <1>0, <3>2, <3>3, <3>4, <3>5
    <3>. QED BY <3>1, <3>6 DEF Coming, FromBot
  <2>. QED BY <2>1, <2>2, <2>3, <2>7 DEF Replied, Recorded
<1>. QED BY <1>4, <1>5, <1>6
(* All the frames of a reply are a good answer.                             *)
LEMMA WholeReply ==
  ASSUME NEW es \in BotReplies, NEW ts \in Seq(Turns), NEW parts \in Seq(Answer),
         Len(parts) = Len(es), \A i \in 1..Len(es) : parts[i] = Taken(Frames(es, ts)[i])
  PROVE  /\ \A i \in DOMAIN parts : parts[i].turns = ts
         /\ parts # <<>> /\ parts[1].part <= 1 /\ Last(parts).fin
         /\ \E i \in DOMAIN parts : parts[i].msg \/ parts[i].control
<1>. PICK F : F = Frames(es, ts) OBVIOUS
<1>1. /\ Len(es) \in 1..2
      /\ \A i \in 1..Len(es) : /\ EndsTurn(F[i].parsed) <=> i = Len(es)
                               /\ F[i].turns = ts /\ F[i].part = i
      /\ \E i \in 1..Len(es) : F[i].parsed.msg \/ F[i].parsed.control
  BY ReplyFrames, SMTT(60)
<1>2. ASSUME NEW i \in 1..Len(es)
      PROVE  /\ parts[i].turns = ts /\ parts[i].part = i /\ (parts[i].fin <=> i = Len(es))
             /\ parts[i].msg = F[i].parsed.msg /\ parts[i].control = F[i].parsed.control
  <2>1. parts[i] = Taken(F[i]) OBVIOUS
  <2>2. EndsTurn(F[i].parsed) <=> i = Len(es) BY <1>1
  <2>3. parts[i].fin = EndsTurn(F[i].parsed) BY <2>1 DEF Taken
  <2>. QED BY <1>1, <2>1, <2>2, <2>3 DEF Taken
<1>3. DOMAIN parts = 1..Len(es) /\ parts # <<>> /\ Last(parts) = parts[Len(es)] /\ 1 \in 1..Len(es)
      /\ Len(es) \in 1..Len(es)
  BY <1>1 DEF Last
<1>4. \E i \in DOMAIN parts : parts[i].msg \/ parts[i].control BY <1>1, <1>2, <1>3
<1>5. \A i \in DOMAIN parts : parts[i].turns = ts BY <1>2, <1>3
<1>6. parts[1].part = 1 /\ parts[Len(es)].fin BY <1>2, <1>3
<1>. QED BY <1>3, <1>4, <1>5, <1>6
(* The next frame: what is not the bot's leaves the exchange as it is, and    *)
(* the reply's frames come in to the last.                                  *)
LEMMA InStepReceive ==
  ASSUME TypeOK, NumbersOK, TypeOK', Underway \/ Recorded \/ Replied, Receive
  PROVE  \/ pc' = "await" /\ (Underway' \/ Recorded' \/ Replied')
         \/ pc' = "store" /\ up' = <<>> /\ ~AwaitsReply' /\ Quiet' /\ GoodParts(Turn, got)'
<1>1. /\ pc = "await" /\ wire \in Seq(Frame) /\ Len(wire) \in Nat /\ DOMAIN wire = 1..Len(wire)
      /\ wire' \in Seq(Frame) /\ Len(wire') = Len(wire) - 1 /\ Len(wire) > 0
      /\ DOMAIN wire' = 1..Len(wire')
      /\ \A i \in 1..Len(wire') : wire'[i] = wire[i + 1]
      /\ \/ ~FromBot(wire[1]) /\ got' = got /\ pc' = pc
         \/ /\ FromBot(wire[1]) /\ got' = Append(got, Taken(wire[1]))
            /\ pc' = IF EndsTurn(wire[1].parsed) THEN "store" ELSE "await"
  BY FrameTaken
<1>2. log' = log /\ up' = up /\ Turn' = Turn
  <2>1. log' = log /\ up' = up /\ said' = said BY StepFrames DEF Reads
  <2>. QED BY <2>1 DEF Turn
<1>3. AwaitsReply' = AwaitsReply BY <1>2 DEF AwaitsReply
<1>4. Turn \in Turns BY <1>1, TurnNumbers
<1>5. got' \in Seq(Answer) BY DEF TypeOK
<1>6. CASE Underway
  <2>1. Discarded(wire[1].parsed) BY <1>1, <1>6 DEF Underway, Quiet
  <2>2. got' = got /\ pc' = pc BY <1>1, <2>1 DEF Discarded, FromBot
  <2>3. ASSUME NEW i \in DOMAIN wire'
        PROVE  Discarded(wire'[i].parsed)
    <3>1. i + 1 \in DOMAIN wire /\ wire'[i] = wire[i + 1] BY <1>1
    <3>. QED BY <1>6, <3>1 DEF Underway, Quiet
  <2>4. Quiet' BY <2>3 DEF Quiet, Discarded, Raises
  <2>. QED BY <1>1, <1>2, <1>3, <1>6, <2>2, <2>4 DEF Underway
<1>7. CASE Recorded
  <2>1. ~FromBot(wire[1]) BY <1>1, <1>7 DEF Recorded
  <2>2. got' = got /\ pc' = pc BY <1>1, <2>1
  <2>3. \A i \in DOMAIN wire' : ~FromBot(wire'[i]) BY <1>1, <1>7 DEF Recorded, FromBot
  <2>. QED BY <1>1, <1>2, <1>3, <1>7, <2>2, <2>3 DEF Recorded, FromBot
<1>8. CASE Replied
  <2>1. PICK es \in BotReplies : Coming(es) BY <1>8 DEF Replied
  <2>2. up = <<>> /\ ~AwaitsReply BY <1>8 DEF Replied
  <2>. PICK F : F = Frames(es, <<Turn>>) OBVIOUS
  <2>3. /\ Len(es) \in 1..2
        /\ \A i \in 1..Len(es) : FromBot(F[i]) /\ (EndsTurn(F[i].parsed) <=> i = Len(es))
    <3>1. <<Turn>> \in Seq(Turns) BY <1>4
    <3>. QED BY <3>1, ReplyFrames
  <2>4. ASSUME pc' = "await", Coming(es)'
        PROVE  pc' = "await" /\ (Underway' \/ Recorded' \/ Replied')
    BY <1>2, <1>3, <2>2, <2>4 DEF Replied
  <2>5. ASSUME pc' = "store", wire' = <<>>, Len(got') = Len(es), \A i \in 1..Len(es) : got'[i] = Taken(F[i])
        PROVE  pc' = "store" /\ up' = <<>> /\ ~AwaitsReply' /\ Quiet' /\ GoodParts(Turn, got)'
    <3>0. <<Turn>> \in Seq(Turns) BY <1>4
    <3>1. PICK ts \in Seq(Turns) : ts = <<Turn>> BY <3>0
    <3>2. /\ \A i \in DOMAIN got' : got'[i].turns = ts
          /\ got' # <<>> /\ got'[1].part <= 1 /\ Last(got').fin
          /\ \E i \in DOMAIN got' : got'[i].msg \/ got'[i].control
      <4>1. \A i \in 1..Len(es) : got'[i] = Taken(Frames(es, ts)[i]) BY <2>5, <3>1
      <4>2. Len(got') = Len(es) BY <2>5
      <4>. QED BY <1>5, <4>1, <4>2, WholeReply
    <3>3. GoodParts(Turn, got)' BY <1>2, <3>1, <3>2 DEF GoodParts
    <3>4. Quiet' BY <2>5 DEF Quiet
    <3>. QED BY <1>2, <1>3, <2>2, <2>5, <3>3, <3>4
  <2>6. CASE got = <<>> /\ \E n \in Nat : /\ Len(wire) = n + Len(es)
                                          /\ \A i \in 1..n : ~FromBot(wire[i])
                                          /\ \A i \in 1..Len(es) : wire[n + i] = F[i]
    <3>1. PICK n \in Nat : /\ Len(wire) = n + Len(es)
                           /\ \A i \in 1..n : ~FromBot(wire[i])
                           /\ \A i \in 1..Len(es) : wire[n + i] = F[i]
      BY <2>6
    <3>2. CASE n > 0
      <4>1. ~FromBot(wire[1]) BY <3>1, <3>2
      <4>2. got' = <<>> /\ pc' = "await" BY <1>1, <2>6, <4>1
      <4>3. PICK m \in Nat : n = m + 1
        <5>1. n - 1 \in Nat /\ n = (n - 1) + 1 BY <3>2
        <5>. QED BY <5>1
      <4>4. Len(wire') = m + Len(es) BY <1>1, <2>3, <3>1, <4>3
      <4>5. \A i \in 1..m : ~FromBot(wire'[i])
        <5>1. \A i \in 1..m : i \in 1..Len(wire') /\ i + 1 \in 1..n BY <2>3, <4>3, <4>4
        <5>. QED BY <1>1, <3>1, <5>1 DEF FromBot
      <4>6. \A i \in 1..Len(es) : wire'[m + i] = F[i]
        <5>1. \A i \in 1..Len(es) : m + i \in 1..Len(wire') /\ (m + i) + 1 = n + i
          BY <2>3, <4>3, <4>4
        <5>. QED BY <1>1, <3>1, <5>1, ZenonT(60)
      <4>7. Coming(es)' BY <1>2, <4>2, <4>4, <4>5, <4>6 DEF Coming, FromBot
      <4>. QED BY <2>4, <4>2, <4>7
    <3>3. CASE n = 0
      <4>1. Len(wire) = Len(es) /\ \A i \in 1..Len(es) : wire[i] = F[i] BY <2>3, <3>1, <3>3
      <4>2. FromBot(wire[1]) /\ (EndsTurn(wire[1].parsed) <=> Len(es) = 1) /\ wire[1] = F[1]
        BY <2>3, <4>1 DEF FromBot
      <4>3. got' = <<Taken(F[1])>> /\ pc' = IF Len(es) = 1 THEN "store" ELSE "await"
        BY <1>1, <2>6, <4>2
      <4>4. CASE Len(es) = 1
        <5>1. wire' = <<>> BY <1>1, <4>1, <4>4
        <5>2. pc' = "store" /\ Len(got') = Len(es) /\ \A i \in 1..Len(es) : got'[i] = Taken(F[i])
          BY <4>3, <4>4
        <5>. QED BY <2>5, <5>1, <5>2
      <4>5. CASE Len(es) = 2
        <5>1. Len(wire') = 1 /\ wire'[1] = F[2] BY <1>1, <4>1, <4>5
        <5>2. wire' = <<F[2]>>
          <6>1. wire' = <<wire'[1]>> BY <1>1, <5>1, Single
          <6>. QED BY <5>1, <6>1
        <5>3. Coming(es)' BY <1>2, <4>3, <4>5, <5>2 DEF Coming
        <5>. QED BY <2>4, <4>3, <4>5, <5>3
      <4>. QED BY <2>3, <4>4, <4>5
    <3>. QED BY <3>2, <3>3
  <2>7. CASE Len(es) = 2 /\ got = <<Taken(F[1])>> /\ wire = <<F[2]>>
    <3>1. wire[1] = F[2] /\ Len(wire) = 1 BY <2>7
    <3>2. FromBot(wire[1]) /\ EndsTurn(wire[1].parsed) BY <2>3, <2>7, <3>1 DEF FromBot
    <3>3. wire' = <<>> BY <1>1, <3>1
    <3>4. pc' = "store" /\ got' = Append(<<Taken(F[1])>>, Taken(F[2])) BY <1>1, <2>7, <3>1, <3>2
    <3>5. Len(got') = Len(es) /\ \A i \in 1..Len(es) : got'[i] = Taken(F[i]) BY <2>7, <3>4
    <3>. QED BY <2>5, <3>3, <3>4, <3>5
  <2>. QED BY <2>1, <2>6, <2>7 DEF Coming
<1>. QED BY <1>6, <1>7, <1>8
(* Every step that lets nothing slip keeps the exchange one-to-one.         *)
LEMMA ExchangeStep ==
  ASSUME TypeOK, NumbersOK, RowsOK, InStepInv, [Next]_vars
  PROVE  InStepInv'
<1>. SUFFICES ASSUME ~slipped'
              PROVE  InStepInv'
  BY DEF InStepInv
<1>0. TypeOK' BY TypesStep
<1>1. /\ ~slipped
      /\ \/ MitraRecords \/ MitraReplies \/ MitraErrs \/ Drop
         \/ Starts \/ Receive \/ Store \/ UNCHANGED vars
  BY UnslippedKinds
<1>2. /\ pc \in {"idle", "await", "store"} /\ sends <= 1 /\ items = {} /\ check.at = "idle"
      /\ pc # "await" => up = <<>> /\ ~AwaitsReply /\ Quiet
      /\ pc = "await" /\ alive => Underway \/ Recorded \/ Replied
      /\ pc = "store" => GoodParts(Turn, got)
  BY <1>1 DEF InStepInv
<1>3. CASE MitraRecords \/ MitraReplies \/ MitraErrs
  <2>1. pc = "await"
    <3>1. up # <<>> \/ AwaitsReply BY <1>3 DEF MitraRecords, MitraReplies, MitraErrs
    <3>. QED BY <1>2, <3>1
  <2>2. UNCHANGED <<pc, sends, items, check, alive>> BY <1>3, StepFrames
  <2>3. alive => Recorded' \/ Replied' BY <1>0, <1>2, <1>3, <2>1, InStepMitra
  <2>. QED BY <1>2, <2>1, <2>2, <2>3 DEF InStepInv
<1>4. CASE Drop
  <2>1. UNCHANGED <<log, said, pc, sends, got, items, check>> BY <1>4, StepFrames
  <2>2. alive' = FALSE /\ wire' = <<>> /\ (up = <<>> => up' = <<>>)
    <3>1. up' \in Seq(Turns) /\ Len(up') <= Len(up) /\ wire' = <<>> /\ alive' = FALSE BY <1>4, Lost
    <3>2. up = <<>> => Len(up') = 0 BY <3>1
    <3>. QED BY <3>1, <3>2
  <2>3. Quiet' BY <2>2 DEF Quiet
  <2>4. (GoodParts(Turn, got) => GoodParts(Turn, got)') /\ (~AwaitsReply => ~AwaitsReply')
    BY <2>1 DEF GoodParts, Turn, AwaitsReply
  <2>. QED BY <1>2, <2>1, <2>2, <2>3, <2>4 DEF InStepInv
<1>5. CASE Starts
  <2>1. ~SayAgain BY <1>2 DEF SayAgain
  <2>2. UNCHANGED <<log, items, check>> BY <1>5, <2>1 DEF Starts, StartTurn
  <2>3. pc = "idle" /\ pc' = "await" /\ sends' = 1 /\ Turn' \in Turns /\ Send(Turn') BY <1>5, StartsSay
  <2>4. up = <<>> /\ ~AwaitsReply /\ Quiet BY <1>2, <2>3
  <2>5. got' = <<>> /\ up' = <<Turn'>> BY <2>3, <2>4 DEF Send
  <2>6. Quiet'
    <3>1. PICK n \in 0..Len(wire) :
            Len(wire') = Len(wire) - n /\ \A i \in 1..Len(wire') : wire'[i] = wire[n + i]
      BY <2>3, MessageSent
    <3>2. /\ Len(wire) \in Nat /\ DOMAIN wire = 1..Len(wire)
          /\ Len(wire') \in Nat /\ DOMAIN wire' = 1..Len(wire')
      <4>1. wire \in Seq(Frame) BY DEF TypeOK
      <4>2. wire' \in Seq(Frame) BY <1>0 DEF TypeOK
      <4>. QED BY <4>1, <4>2
    <3>3. ASSUME NEW i \in DOMAIN wire'
          PROVE  Discarded(wire'[i].parsed)
      <4>1. n + i \in DOMAIN wire /\ wire'[i] = wire[n + i] BY <3>1, <3>2
      <4>. QED BY <2>4, <4>1 DEF Quiet
    <3>. QED BY <3>3 DEF Quiet, Discarded, Raises
  <2>7. ~AwaitsReply' BY <2>2, <2>4 DEF AwaitsReply
  <2>8. Underway' BY <2>5, <2>6, <2>7 DEF Underway
  <2>. QED BY <1>2, <2>2, <2>3, <2>8 DEF InStepInv
<1>6. CASE Receive
  <2>1. pc = "await" /\ alive BY <1>6 DEF Receive
  <2>2. UNCHANGED <<sends, items, check>> BY <1>6, StepFrames DEF Reads
  <2>3. \/ pc' = "await" /\ (Underway' \/ Recorded' \/ Replied')
        \/ pc' = "store" /\ up' = <<>> /\ ~AwaitsReply' /\ Quiet' /\ GoodParts(Turn, got)'
    BY <1>0, <1>2, <1>6, <2>1, InStepReceive
  <2>. QED BY <1>2, <2>2, <2>3 DEF InStepInv
<1>7. CASE Store
  <2>1. UNCHANGED <<log, up, wire, sends, items, check>> /\ pc = "store" /\ pc' = "idle"
    <3>1. UNCHANGED <<log, up, wire, sends, items, check>> BY <1>7, StepFrames DEF Stores
    <3>. QED BY <1>7, <3>1 DEF Store, Goto
  <2>2. Quiet' /\ ~AwaitsReply' BY <1>2, <2>1 DEF Quiet, AwaitsReply, Discarded, Raises
  <2>. QED BY <1>2, <2>1, <2>2 DEF InStepInv
<1>8. CASE UNCHANGED vars
  <2>1. UNCHANGED <<log, up, wire, alive, said, pc, sends, got, items, check>> BY <1>8, StepFrames
  <2>2. Turn' = Turn /\ AwaitsReply' = AwaitsReply BY <2>1 DEF Turn, AwaitsReply
  <2>3. Quiet => Quiet' BY <2>1 DEF Quiet, Discarded, Raises
  <2>4. Underway => Underway' BY <2>1, <2>2, <2>3 DEF Underway
  <2>5. Recorded => Recorded' BY <2>1, <2>2 DEF Recorded, FromBot
  <2>6. Replied => Replied'
    <3>1. \A es : Coming(es) => Coming(es)' BY <2>1, <2>2 DEF Coming, FromBot
    <3>. QED BY <2>1, <2>2, <3>1 DEF Replied
  <2>7. GoodParts(Turn, got) => GoodParts(Turn, got)' BY <2>1, <2>2 DEF GoodParts
  <2>. QED BY <1>2, <2>1, <2>2, <2>3, <2>4, <2>5, <2>6, <2>7 DEF InStepInv
<1>. QED BY <1>1, <1>3, <1>4, <1>5, <1>6, <1>7, <1>8
(* So every reply that was stored before anything slipped is the turn's own.  *)
LEMMA RepliesInStep ==
  ASSUME TypeOK, NumbersOK, InStepInv, InStep, [Next]_vars
  PROVE  InStep'
<1>. SUFFICES ASSUME ~slipped'
              PROVE  \A i \in DOMAIN replies' :
                       AnswersTurn(replies'[i]) /\ Complete(replies'[i]) /\ Shown(replies'[i])
  BY DEF InStep, AnswersTurn, Complete, Shown
<1>1. ~slipped /\ (Stores => Store) /\ ~CheckAnswered
  <2>1. ~slipped BY UnslippedKinds
  <2>2. pc # "recovered" /\ check.at = "idle" BY <2>1 DEF InStepInv
  <2>. QED BY <2>1, <2>2 DEF Stores, StoreRecovered, CheckAnswered
<1>2. \A i \in DOMAIN replies :
        AnswersTurn(replies[i]) /\ Complete(replies[i]) /\ Shown(replies[i])
  BY <1>1 DEF InStep
<1>3. CASE replies' = replies BY <1>2, <1>3
<1>4. CASE Store
  <2>1. pc = "store" /\ Stores BY <1>4 DEF Store, Stores
  <2>2. GoodParts(Turn, got) BY <1>1, <2>1 DEF InStepInv
  <2>3. PICK r : replies' = Append(replies, r) /\ r.turn = Turn /\ r.parts = got
    BY <1>4 DEF Store, StoreReply
  <2>4. AnswersTurn(r) /\ Complete(r) /\ Shown(r)
    BY <2>2, <2>3 DEF GoodParts, AnswersTurn, Complete, Shown
  <2>5. ASSUME NEW i \in DOMAIN replies'
        PROVE  AnswersTurn(replies'[i]) /\ Complete(replies'[i]) /\ Shown(replies'[i])
    <3>1. \/ i \in DOMAIN replies /\ replies'[i] = replies[i]
          \/ replies'[i] = r
      BY <2>3, OneMoreReply
    <3>. QED BY <1>2, <2>4, <3>1 DEF AnswersTurn, Complete, Shown
  <2>. QED BY <2>5
<1>. QED BY <1>1, <1>3, <1>4, ReplyStored
-----------------------------------------------------------------------------
(* The theorems.                                                           *)

(* A new interview has an empty transcript and nothing under way.           *)
LEMMA InterviewInit ==
  ASSUME Init
  PROVE  InterviewInv
<1>. USE DEF Init
<1>1. TypeOK
  <2>1. /\ <<>> \in Seq(Row) /\ <<>> \in Seq(Frame) /\ <<>> \in Seq(Turns) /\ <<>> \in Seq(Texts)
        /\ <<>> \in Seq(Answer) /\ <<>> \in Seq(Reply)
    OBVIOUS
  <2>2. check \in [at : {"idle", "count", "page", "resend"}, item : Nat, turn : Nat, count : Nat]
    BY DEF NoCheck
  <2>3. log \in Seq(Row) /\ wire \in Seq(Frame) /\ up \in Seq(Turns) /\ said \in Seq(Texts)
        /\ got \in Seq(Answer) /\ replies \in Seq(Reply)
    BY <2>1, Zenon
  <2>4. items \subseteq Turns /\ slipped \in BOOLEAN /\ alive \in BOOLEAN BY Zenon
  <2>5. /\ pc \in {"idle", "await", "count", "page", "store", "recovered"}
        /\ sends \in 0..2 /\ count \in Nat /\ faults \in Nat /\ checks \in Nat
    OBVIOUS
  <2>. HIDE DEF Init
  <2>. QED BY <2>2, <2>3, <2>4, <2>5 DEF TypeOK
<1>2. NumbersOK /\ Turn = 0 BY InterviewConstants DEF NumbersOK, Turn, NoCheck
<1>3. RowsOK /\ NeverSpliced /\ InStep /\ WireOK /\ GotOK
  BY DEF RowsOK, NeverSpliced, InStep, WireOK, GotOK
<1>4. SentOnce /\ RecoveredOK BY DEF SentOnce, RecoveredOK
<1>5. InStepInv BY DEF InStepInv, AwaitsReply, Quiet, NoCheck
<1>6. TrafficOK BY <1>2 DEF TrafficOK, Traffic, AwaitsReply
<1>. QED BY <1>1, <1>2, <1>3, <1>4, <1>5, <1>6 DEF InterviewInv
(* The inductive invariant: turns, recoveries and checks of one interview    *)
(* against Mitra's transcript (session_manager.py, turn_recovery.py).        *)
THEOREM InterviewCorrect == Spec => []InterviewInv
<1>1. ASSUME InterviewInv, [Next]_vars
      PROVE  InterviewInv'
  <2>1. /\ TypeOK /\ NumbersOK /\ RowsOK /\ SentOnce /\ WireOK /\ GotOK /\ NeverSpliced
        /\ RecoveredOK /\ InStepInv /\ InStep /\ TrafficOK
    BY <1>1 DEF InterviewInv
  <2>2. TypeOK' /\ NumbersOK' BY <1>1, <2>1, TypesStep
  <2>3. RowsOK' BY <1>1, <2>1, RowsStep
  <2>4. SentOnce' BY <1>1, <2>1, SentOnceStep
  <2>5. WireOK' BY <1>1, <2>1, WireStep
  <2>6. GotOK' BY <1>1, <2>1, GotStep
  <2>7. NeverSpliced' BY <1>1, <2>1, SplicedStep
  <2>8. RecoveredOK' BY <1>1, <2>1, RecoveredStep
  <2>9. InStepInv' BY <1>1, <2>1, ExchangeStep
  <2>10. InStep' BY <1>1, <2>1, RepliesInStep
  <2>11. TrafficOK' BY <1>1, <2>1, TrafficStep
  <2>. QED BY <2>2, <2>3, <2>4, <2>5, <2>6, <2>7, <2>8, <2>9, <2>10, <2>11 DEF InterviewInv
<1>. QED BY <1>1, InterviewInit, PTL DEF Spec
(* Rows, messages, frames, replies and checks have their types.             *)
THEOREM InterviewTypes == Spec => []TypeOK
<1>1. InterviewInv => TypeOK BY DEF InterviewInv
<1>. QED BY <1>1, InterviewCorrect, PTL
(* send_and_await_turn: until a turn gives up, is flushed or is sent twice,   *)
(* every stored reply is the whole reply to its own turn.                   *)
THEOREM RepliesAreInStep == Spec => []InStep
<1>1. InterviewInv => InStep BY DEF InterviewInv
<1>. QED BY <1>1, InterviewCorrect, PTL
(* send_and_await_turn: the frames of two replies are never one message,     *)
(* whatever was lost, flushed or sent twice before.                         *)
THEOREM RepliesAreNeverSpliced == Spec => []NeverSpliced
<1>1. InterviewInv => NeverSpliced BY DEF InterviewInv
<1>. QED BY <1>1, InterviewCorrect, PTL
(* reconcile: a recovered reply answers a row that says the turn's text       *)
(* alone, and the turn's own row when Mitra had counted one.                *)
THEOREM RecoveredIsTheAnswer == Spec => []RecoveredAnswersTurn
<1>1. InterviewInv => RecoveredAnswersTurn
  BY DEF InterviewInv, RecoveredOK, RepliedTo, RecoveredAnswersTurn
<1>. QED BY <1>1, InterviewCorrect, PTL
(* reconcile: a message that Mitra has in a row of its own on the page is     *)
(* never called not delivered, for any page size.                           *)
THEOREM ReceivedIsFound == Spec => ReceivedIsNotDenied
<1>1. ASSUME InterviewInv, [Next]_vars, check.at = "page", check'.at = "resend",
             NEW i \in DOMAIN log, i <= check.count, check.count < i + PageTail,
             log[i].user, log[i].turns = <<check.turn>>
      PROVE  FALSE
  <2>1. TypeOK /\ NumbersOK /\ RowsOK BY <1>1 DEF InterviewInv
  <2>2. CheckNotDelivered
    <3>1. ~StartCheck /\ ~CheckCount /\ ~CheckAnswered /\ ~CheckUnsettled /\ ~SayAgainBusy /\ ~SayAgain
      BY <1>1 DEF StartCheck, CheckCount, CheckAnswered, CheckUnsettled, SayAgainBusy, SayAgain, NoCheck
    <3>2. check' # check BY <1>1
    <3>3. ~StartTurn BY <3>2 DEF StartTurn
    <3>. QED BY <1>1, <3>1, <3>2, <3>3, StepKinds, StepFrames DEF Starts, Checks
  <2>3. check.count \in 0..Len(log) /\ i \in 1..Len(log) /\ Len(log) \in Nat /\ log[i] \in Row
        /\ log[i].text \in Seq(Texts)
    <3>1. log \in Seq(Row) /\ check.count \in Nat BY <2>1 DEF TypeOK
    <3>2. log[i] \in Row BY <3>1
    <3>. QED BY <2>1, <3>1, <3>2 DEF NumbersOK, Row
  <2>. DEFINE text == said[check.turn]
              n == check.count
              rows == PageAfter(n)
  <2>4. log[i].text = <<text>>
    <3>1. /\ Len(log[i].text) = Len(log[i].turns)
          /\ \A k \in DOMAIN log[i].turns : log[i].text[k] = said[log[i].turns[k]]
      BY <1>1, <2>1 DEF RowsOK, RowOK
    <3>2. Len(log[i].turns) = 1 /\ DOMAIN log[i].turns = 1..1 /\ log[i].turns[1] = check.turn BY <1>1
    <3>3. Len(log[i].text) = 1 /\ log[i].text[1] = text BY <3>1, <3>2
    <3>. QED BY <2>3, <3>3, Single
  <2>5. NotDelivered(rows, text) BY <1>1, <2>2, <2>3 DEF CheckNotDelivered
  <2>6. /\ Offset(n) \in Nat /\ rows \in Seq(Row)
        /\ \A j \in DOMAIN rows : j \in Nat /\ Offset(n) + j \in DOMAIN log /\ rows[j] = log[Offset(n) + j]
        /\ \A j \in DOMAIN log : Offset(n) < j /\ j <= n => j - Offset(n) \in DOMAIN rows
    BY <2>1, <2>3, PageRows
  <2>7. Offset(n) < i BY <1>1, <2>3, InterviewConstants DEF Offset
  <2>. HIDE DEF rows, n
  <2>8. i - Offset(n) \in DOMAIN rows /\ rows[i - Offset(n)] = log[i]
    <3>1. i - Offset(n) \in DOMAIN rows BY <1>1, <2>6, <2>7 DEF n
    <3>2. Offset(n) + (i - Offset(n)) = i BY <2>3, <2>6
    <3>. QED BY <2>6, <3>1, <3>2
  <2>9. Matches(rows[i - Offset(n)], text) BY <1>1, <2>4, <2>8 DEF Matches
  <2>10. Match(rows, text) # 0 BY <2>6, <2>8, <2>9, MatchIsNewest
  <2>. QED BY <2>5, <2>10 DEF NotDelivered
<1>2. InterviewInv /\ [Next]_vars =>
        [check.at = "page" /\ check'.at = "resend" =>
           ~ \E i \in DOMAIN log : /\ i <= check.count /\ check.count < i + PageTail
                                  /\ log[i].user /\ log[i].turns = <<check.turn>>]_vars
  BY <1>1
<1>. QED BY <1>2, InterviewCorrect, PTL DEF Spec, ReceivedIsNotDenied
(* is_session_completed: the last row of the first page is the last row of    *)
(* all, as long as the page holds the two rows of every message twice.       *)
THEOREM CompletionIsSeen ==
  ASSUME 4 * MaxTurns <= PageSize
  PROVE  Spec => []CompletionSeen
<1>1. Init => CompletionSeen BY DEF Init, CompletionSeen
<1>2. ASSUME InterviewInv, CompletionSeen, [Next]_vars
      PROVE  CompletionSeen'
  <2>1. TypeOK /\ NumbersOK /\ TrafficOK BY <1>2 DEF InterviewInv
  <2>2. Last(log).over /\ log # <<>> => PollCompleted
    <3>1. Len(log) \in Nat /\ Len(up) \in Nat BY <2>1 DEF TypeOK
    <3>2. Len(log) <= PageSize
      <4>1. Len(log) <= Traffic /\ Traffic \in Nat
        <5>1. CASE AwaitsReply BY <3>1, <5>1 DEF Traffic
        <5>2. CASE ~AwaitsReply BY <3>1, <5>2 DEF Traffic
        <5>. QED BY <5>1, <5>2
      <4>2. Traffic <= 4 * Turn /\ Turn <= MaxTurns /\ Turn \in Nat
        BY <2>1, TurnNumbers DEF TrafficOK, NumbersOK
      <4>. QED BY <3>1, <4>1, <4>2, InterviewConstants
    <3>3. Min2(PageSize, Len(log)) = Len(log) BY <3>1, <3>2, InterviewConstants DEF Min2
    <3>. QED BY <3>3 DEF PollCompleted, Last
  <2>3. CASE replies' = replies BY <1>2, <2>3 DEF CompletionSeen
  <2>4. ASSUME NEW r, replies' = Append(replies, r), r.polled /\ r.over => r.done
        PROVE  CompletionSeen'
    <3>1. ASSUME NEW i \in DOMAIN replies'
          PROVE  replies'[i].polled /\ replies'[i].over => replies'[i].done
      <4>1. \/ i \in DOMAIN replies /\ replies'[i] = replies[i]
            \/ replies'[i] = r
        BY <2>1, <2>4, OneMoreReply
      <4>. QED BY <1>2, <2>4, <4>1 DEF CompletionSeen
    <3>. QED BY <3>1 DEF CompletionSeen
  <2>5. ASSUME NEW r, replies' = Append(replies, r), r.done = (r.polled /\ PollCompleted),
               r.over = (log # <<>> /\ Last(log).over)
        PROVE  CompletionSeen'
    <3>1. r.polled /\ r.over => r.done BY <2>2, <2>5
    <3>. QED BY <2>4, <2>5, <3>1
  <2>. QED BY <1>2, <2>1, <2>3, <2>4, <2>5, ReplyStored
<1>. QED BY <1>1, <1>2, InterviewCorrect, PTL DEF Spec
=============================================================================
