------------------------ MODULE TurnPipelineHistory ------------------------
(***************************************************************************)
(* What a conversation commits: its history is a ConversationLog, and its   *)
(* pin agrees with its sessions, for any number of connections, agents,     *)
(* sessions and requests.                                                  *)
(*                                                                          *)
(* Both rest on who holds the conversation row's lock.  LogInv says at which *)
(* program points a request holds it, and the one message it may have added *)
(* under it; PinInv says that whoever holds it sees a pin that agrees with  *)
(* the sessions it sees, and what those who write session rows without it   *)
(* may do to them.                                                         *)
(***************************************************************************)
EXTENDS TurnPipelineProofs

(* The message that the owner of the conversation row has added so far.     *)
Adds(role, seq) == conv.log = Append(convC.log, [role |-> role, re |-> seq])
HoldsQuestion(c) ==
  /\ owner[ConvRow] = c /\ req[c].kind = "turn"
  /\ req[c].asked = Len(convC.log) + 1 /\ Adds("user", req[c].asked)
HoldsReply(c) == owner[ConvRow] = c /\ Adds("assistant", req[c].asked)
HoldsRecovered(c) ==
  /\ owner[ConvRow] = c /\ req[c].kind = "resume"
  /\ req[c].asked \in UserSeqs(convC.log) /\ Adds("recovered", req[c].asked)
HoldsNothing(c) == owner[ConvRow] = c => conv.log = convC.log

(* Before the conversation row is written first, and from the COMMIT of     *)
(* step 9 to the reply.                                                    *)
AwayPoints == {"idle", "lock", "record", "reconcile", "store", "abandon",
               "handle", "apply", "claim", "submit", "report", "unpin"}
AskingPoints == {"route", "exit", "limits", "attach", "displace", "commit1"}
LogAt(c) ==
  /\ pc[c] \in AwayPoints => owner[ConvRow] # c
  /\ pc[c] \in AskingPoints => HoldsQuestion(c)
  /\ pc[c] = "reply" => HoldsNothing(c)
  /\ pc[c] = "commit2" => HoldsReply(c)
  /\ pc[c] = "reapply" => HoldsRecovered(c)
  /\ pc[c] \in {"unlock", "close", "rollback"} =>
       HoldsQuestion(c) \/ HoldsRecovered(c) \/ HoldsNothing(c)
  /\ pc[c] \in {"reconcile", "store"} =>
       req[c].kind = "resume" /\ req[c].asked \in UserSeqs(convC.log)
  /\ c \in Answering => req[c].asked \in Nat \ {0}
  /\ HoldsQuestion(c) => \A d \in Connections : d \notin Answering
LogInv == \A c \in Connections : LogAt(c)
(* A step of c leaves the other requests alone.                            *)
Others(c) == \A d \in Connections \ {c} : pc'[d] = pc[d] /\ req'[d] = req[d]

(* The session rows a request sees, and a pin that agrees with such rows.   *)
View(c) == [s \in Sessions |-> MySess(c, s)]
Agrees(pin, rows) ==
  /\ \A s \in Sessions : Open(rows[s]) => pin = rows[s].agent
  /\ pin # NoAgent =>
       \E s \in Sessions : rows[s].agent = pin /\ (Open(rows[s]) \/ rows[s].st = "failed")
(* What a request may do to an open session before it unpins.               *)
Continues(row, new) ==
  Open(row) /\ new.agent = row.agent /\ (Open(new) \/ new.st = "failed")
PinAt(c) ==
  /\ owner[ConvRow] = c => Agrees(conv.pin, View(c))
  /\ owner[ConvRow] # c /\ pc[c] # "unpin" =>
       \A s \in Sessions : owner[s] = c => Continues(sessC[s], sess[s])
  /\ pc[c] = "unpin" =>
       /\ req[c].sid \in Sessions /\ owner[req[c].sid] = c
       /\ Open(sessC[req[c].sid]) /\ ~Open(sess[req[c].sid])
  /\ pc[c] = "exit" /\ req[c].sid = NoSession => MyOpen(c) = {}
PinInv == Agrees(convC.pin, sessC) /\ \A c \in Connections : PinAt(c)
-----------------------------------------------------------------------------
(* The history.                                                            *)

(* A message that is appended is the last one, and changes no other.        *)
LEMMA Appended ==
  ASSUME NEW l \in Seq(Message), NEW role, NEW seq
  PROVE  LET m == [role |-> role, re |-> seq]
             k == Append(l, m)
         IN  /\ k # l /\ Len(l) \in Nat /\ Len(k) = Len(l) + 1
             /\ \A i \in UserSeqs(l) : i \in UserSeqs(k)
             /\ role # "user" => \A i \in UserSeqs(k) : i \in UserSeqs(l)
<1>. DEFINE m == [role |-> role, re |-> seq]
            k == Append(l, m)
<1>1. Len(l) \in Nat /\ Len(k) = Len(l) + 1 OBVIOUS
<1>2. \A i \in 1..Len(l) : k[i] = l[i] OBVIOUS
<1>3. k[Len(l) + 1] = m OBVIOUS
<1>4. m.role = role OBVIOUS
<1>5. k # l BY <1>1
<1>. HIDE DEF k, m
<1>6. \A i \in UserSeqs(l) : i \in UserSeqs(k) BY <1>1, <1>2 DEF UserSeqs
<1>7. role # "user" => \A i \in UserSeqs(k) : i \in UserSeqs(l) BY <1>1, <1>2, <1>3, <1>4 DEF UserSeqs
<1>. QED BY <1>1, <1>5, <1>6, <1>7 DEF k, m

(* What a step of c must leave alone, so that only c is left to look at.    *)
LEMMA LogOthers ==
  ASSUME LogInv, NEW c \in Connections, Others(c), LogAt(c)',
         \A d \in Connections \ {c} :
           /\ owner'[ConvRow] = d <=> owner[ConvRow] = d
           /\ owner[ConvRow] = d => conv'.log = conv.log /\ convC'.log = convC.log,
         \A i \in UserSeqs(convC.log) : i \in UserSeqs(convC'.log),
         c \in Answering' => c \in Answering \/ \A d \in Connections \ {c} : owner[ConvRow] # d
  PROVE  LogInv'
<1>. SUFFICES ASSUME NEW d \in Connections \ {c}
              PROVE  LogAt(d)'
  BY DEF LogInv
<1>1. LogAt(d) BY DEF LogInv
<1>2. pc'[d] = pc[d] /\ req'[d] = req[d] BY DEF Others
<1>3. /\ HoldsQuestion(d)' <=> HoldsQuestion(d)
      /\ HoldsReply(d) => HoldsReply(d)'
      /\ HoldsRecovered(d) => HoldsRecovered(d)'
      /\ HoldsNothing(d) => HoldsNothing(d)'
  BY <1>2 DEF HoldsQuestion, HoldsReply, HoldsRecovered, HoldsNothing, Adds
<1>4. HoldsQuestion(d) => owner[ConvRow] = d BY DEF HoldsQuestion
<1>5. \A e \in Connections \ {c} : e \in Answering' <=> e \in Answering
  BY DEF Others, Answering
<1>6. HoldsQuestion(d)' => \A e \in Connections : e \notin Answering'
  BY <1>1, <1>3, <1>4, <1>5 DEF LogAt
<1>7. req'[d].asked = req[d].asked /\ req'[d].kind = req[d].kind BY <1>2
<1>8. pc[d] \in AwayPoints => owner'[ConvRow] # d BY <1>1 DEF LogAt
<1>9. pc[d] \in AskingPoints => HoldsQuestion(d)' BY <1>1, <1>3 DEF LogAt
<1>10. /\ pc[d] = "reply" => HoldsNothing(d)'
       /\ pc[d] = "commit2" => HoldsReply(d)'
       /\ pc[d] = "reapply" => HoldsRecovered(d)'
       /\ pc[d] \in {"unlock", "close", "rollback"} =>
            HoldsQuestion(d)' \/ HoldsRecovered(d)' \/ HoldsNothing(d)'
  BY <1>1, <1>3 DEF LogAt
<1>11. /\ pc[d] \in {"reconcile", "store"} => req[d].kind = "resume" /\ req[d].asked \in UserSeqs(convC'.log)
       /\ d \in Answering' => req[d].asked \in Nat \ {0}
  BY <1>1, <1>5 DEF LogAt
<1>. QED BY <1>2, <1>6, <1>7, <1>8, <1>9, <1>10, <1>11, Zenon DEF LogAt
(* Steps that leave the conversation row alone.                            *)
LEMMA LogStill ==
  ASSUME LogInv, NEW c \in Connections, Others(c), LogAt(c)',
         UNCHANGED <<conv, convC>>, owner'[ConvRow] = owner[ConvRow],
         c \in Answering' => c \in Answering
  PROVE  LogInv'
BY LogOthers
(* The points between which a request moves without the conversation row.   *)
Moves(p, q) ==
  \/ p \in AskingPoints /\ q \in AskingPoints
  \/ p \in AwayPoints /\ q \in AwayPoints /\ (q \in {"reconcile", "store"} => p = "reconcile")
  \/ p \in AwayPoints /\ q = "reply"
  \/ p # "commit2" /\ q \in {"unlock", "close", "rollback"}
(* A request that goes on between two uses of the conversation row, or       *)
(* arrives.                                                                *)
LEMMA LogMove ==
  ASSUME RequestsTypeOK, LogInv, NEW c \in Connections, Others(c), Moves(pc[c], pc'[c]),
         UNCHANGED <<conv, convC>>, owner'[ConvRow] = owner[ConvRow],
         \/ req'[c].asked = req[c].asked /\ req'[c].kind = req[c].kind
         \/ pc[c] = "idle",
         c \in Answering' => c \in Answering /\ pc[c] # "idle"
  PROVE  LogInv'
<1>1. LogAt(c) BY DEF LogInv
<1>2. CASE pc[c] = "idle"
  <2>1. owner[ConvRow] # c BY <1>1, <1>2 DEF LogAt, AwayPoints
  <2>2. ~HoldsQuestion(c)' /\ HoldsNothing(c)' BY <2>1 DEF HoldsQuestion, HoldsNothing
  <2>3. pc'[c] \in AwayPoints \cup {"reply", "unlock", "close", "rollback"}
        /\ pc'[c] \notin {"reconcile", "store"}
    BY <1>2 DEF Moves, AwayPoints, AskingPoints
  <2>4. LogAt(c)' BY <1>2, <2>1, <2>2, <2>3 DEF LogAt, AwayPoints, AskingPoints
  <2>. QED BY <2>4, LogStill
<1>3. CASE pc[c] # "idle"
  <2>1. /\ HoldsQuestion(c)' <=> HoldsQuestion(c)
        /\ HoldsReply(c)' <=> HoldsReply(c)
        /\ HoldsRecovered(c)' <=> HoldsRecovered(c)
        /\ HoldsNothing(c)' <=> HoldsNothing(c)
    BY <1>3 DEF HoldsQuestion, HoldsReply, HoldsRecovered, HoldsNothing, Adds
  <2>2. owner[ConvRow] # c => HoldsNothing(c) BY DEF HoldsNothing
  <2>3. \A d \in Connections : d \in Answering' => d \in Answering BY DEF Others, Answering
  <2>4. CASE pc[c] \in AskingPoints
    <3>1. pc'[c] \in AskingPoints \cup {"unlock", "close", "rollback"}
      BY <2>4 DEF Moves, AwayPoints, AskingPoints
    <3>. QED BY <1>1, <2>1, <2>3, <2>4, <3>1, LogStill, <1>3 DEF LogAt, AwayPoints, AskingPoints
  <2>5. CASE pc[c] \in AwayPoints
    <3>1. \/ pc'[c] \in AwayPoints /\ (pc'[c] \in {"reconcile", "store"} => pc[c] = "reconcile")
          \/ pc'[c] \in {"reply", "unlock", "close", "rollback"}
      BY <2>5 DEF Moves, AwayPoints, AskingPoints
    <3>. QED BY <1>1, <2>1, <2>2, <2>3, <2>5, <3>1, LogStill, <1>3 DEF LogAt, AwayPoints, AskingPoints
  <2>6. CASE pc[c] \notin AskingPoints \cup AwayPoints
    <3>1. pc'[c] \in {"unlock", "close", "rollback"} /\ pc[c] # "commit2" BY <2>6 DEF Moves
    <3>2. pc[c] \in {"reply", "reapply", "unlock", "close", "rollback"}
      BY <2>6, <3>1 DEF RequestsTypeOK, Points, LockedPoints, AskingPoints, AwayPoints
    <3>. QED BY <3>2, <1>1, <2>1, <2>2, <2>3, <2>6, <3>1, LogStill, <1>3 DEF LogAt, AwayPoints, AskingPoints
  <2>. QED BY <2>4, <2>5, <2>6
<1>. QED BY <1>2, <1>3
(* Steps of handle_turn that leave the conversation row alone.             *)
LEMMA LogTurnMove ==
  ASSUME TypeOK, LockInv, InHand, LogInv, NEW c \in Connections,
         \/ TryLock(c) \/ RefuseTurn(c) \/ RouteExplicit(c) \/ RouteUnknown(c)
         \/ RoutePinned(c) \/ RouteUnpinned(c) \/ RouteExit(c) \/ ExitRaced(c)
         \/ LimitPassed(c) \/ LimitExceeded(c) \/ AttachOther(c) \/ AttachNone(c)
         \/ DisplaceRaced(c) \/ HandlerReplies(c) \/ HandlerFails(c) \/ ApplyDelta(c)
         \/ ApplyRejected(c) \/ Unlock(c)
  PROVE  LogInv'
<1>. USE DEF TypeOK, RowsTypeOK, RequestsTypeOK, Request, At, Goto, Local, rowVars, Rows,
     Others, Answering, AnsweringPoints, LockInv, KindInv, TurnPoints, LockedPoints, OtherPoints,
     WriteSess, InHand, HandOK, Moves, AwayPoints, AskingPoints, AfterFinalize, AfterError
<1>0. ASSUME Others(c), Moves(pc[c], pc'[c]),
             UNCHANGED <<conv, convC>>, owner'[ConvRow] = owner[ConvRow],
             \/ req'[c].asked = req[c].asked /\ req'[c].kind = req[c].kind
             \/ pc[c] = "idle",
             c \in Answering' => c \in Answering /\ pc[c] # "idle"
      PROVE  LogInv'
  BY <1>0, LogMove
<1>1. CASE TryLock(c) BY <1>1, <1>0, ConstantsAssumption DEF TryLock
<1>2. CASE RefuseTurn(c) BY <1>2, <1>0, ConstantsAssumption DEF RefuseTurn
<1>3. CASE RouteExplicit(c) BY <1>3, <1>0, ConstantsAssumption DEF RouteExplicit
<1>4. CASE RouteUnknown(c) BY <1>4, <1>0, ConstantsAssumption DEF RouteUnknown
<1>5. CASE RoutePinned(c) BY <1>5, <1>0, ConstantsAssumption DEF RoutePinned
<1>6. CASE RouteUnpinned(c)
  <2>1. PICK a \in Agents, bad \in BOOLEAN : req' = [req EXCEPT ![c].agt = a, ![c].badConf = bad]
    BY <1>6 DEF RouteUnpinned
  <2>2. /\ req'[c].asked = req[c].asked /\ req'[c].kind = req[c].kind
        /\ \A d \in Connections \ {c} : req'[d] = req[d]
    BY <2>1
  <2>. QED BY <1>6, <2>2, <1>0 DEF RouteUnpinned
<1>7. CASE RouteExit(c)
  <2>1. PICK t : req' = [req EXCEPT ![c].agt = DefaultAgent, ![c].sid = t] BY <1>7 DEF RouteExit
  <2>2. /\ req'[c].asked = req[c].asked /\ req'[c].kind = req[c].kind
        /\ \A d \in Connections \ {c} : req'[d] = req[d]
    BY <2>1
  <2>. QED BY <1>7, <2>2, <1>0 DEF RouteExit
<1>8. CASE ExitRaced(c) BY <1>8, <1>0, ConstantsAssumption DEF ExitRaced
<1>9. CASE LimitPassed(c) BY <1>9, <1>0, ConstantsAssumption DEF LimitPassed
<1>10. CASE LimitExceeded(c) BY <1>10, <1>0, ConstantsAssumption DEF LimitExceeded
<1>11. CASE AttachOther(c) BY <1>11, <1>0, ConstantsAssumption DEF AttachOther
<1>12. CASE AttachNone(c) BY <1>12, <1>0, ConstantsAssumption DEF AttachNone
<1>13. CASE DisplaceRaced(c) BY <1>13, <1>0, ConstantsAssumption DEF DisplaceRaced
<1>14. CASE HandlerReplies(c) BY <1>14, <1>0, ConstantsAssumption DEF HandlerReplies
<1>15. CASE HandlerFails(c) BY <1>15, <1>0, ConstantsAssumption DEF HandlerFails
<1>16. CASE ApplyDelta(c) BY <1>16, <1>0, ConstantsAssumption DEF ApplyDelta
<1>17. CASE ApplyRejected(c) BY <1>17, <1>0, ConstantsAssumption DEF ApplyRejected
<1>18. CASE Unlock(c) BY <1>18, <1>0, ConstantsAssumption DEF Unlock
<1>. QED BY <1>1, <1>2, <1>3, <1>4, <1>5, <1>6, <1>7, <1>8, <1>9, <1>10, <1>11, <1>12, <1>13, <1>14, <1>15, <1>16, <1>17, <1>18
(* Steps of the other handlers that leave it alone.                        *)
LEMMA LogCallMove ==
  ASSUME TypeOK, LockInv, InHand, LogInv, NEW c \in Connections,
         \/ Claim(c) \/ ClaimLost(c) \/ SubmitAccepted(c) \/ SubmitFails(c)
         \/ Complete(c) \/ ReportRaises(c) \/ ReconcileAnswered(c) \/ ReconcileUnanswered(c)
         \/ ResumeApply(c) \/ ResumeRejected(c) \/ AbandonRow(c) \/ AbandonNewer(c)
         \/ AbandonRaced(c)
  PROVE  LogInv'
<1>. USE DEF TypeOK, RowsTypeOK, RequestsTypeOK, Request, At, Goto, Local, rowVars, Rows,
     Others, Answering, AnsweringPoints, LockInv, KindInv, TurnPoints, LockedPoints, OtherPoints,
     WriteSess, InHand, HandOK, Moves, AwayPoints, AskingPoints, AfterFinalize, AfterError
<1>0. ASSUME Others(c), Moves(pc[c], pc'[c]),
             UNCHANGED <<conv, convC>>, owner'[ConvRow] = owner[ConvRow],
             \/ req'[c].asked = req[c].asked /\ req'[c].kind = req[c].kind
             \/ pc[c] = "idle",
             c \in Answering' => c \in Answering /\ pc[c] # "idle"
      PROVE  LogInv'
  BY <1>0, LogMove
<1>1. CASE Claim(c) BY <1>1, <1>0, ConstantsAssumption DEF Claim
<1>2. CASE ClaimLost(c) BY <1>2, <1>0, ConstantsAssumption DEF ClaimLost
<1>3. CASE SubmitAccepted(c) BY <1>3, <1>0, ConstantsAssumption DEF SubmitAccepted
<1>4. CASE SubmitFails(c) BY <1>4, <1>0, ConstantsAssumption DEF SubmitFails
<1>5. CASE Complete(c) BY <1>5, <1>0, ConstantsAssumption DEF Complete
<1>6. CASE ReportRaises(c) BY <1>6, <1>0, ConstantsAssumption DEF ReportRaises
<1>7. CASE ReconcileAnswered(c) BY <1>7, <1>0, ConstantsAssumption DEF ReconcileAnswered
<1>8. CASE ReconcileUnanswered(c) BY <1>8, <1>0, ConstantsAssumption DEF ReconcileUnanswered
<1>9. CASE ResumeApply(c) BY <1>9, <1>0, ConstantsAssumption DEF ResumeApply
<1>10. CASE ResumeRejected(c) BY <1>10, <1>0, ConstantsAssumption DEF ResumeRejected
<1>11. CASE AbandonRow(c) BY <1>11, <1>0, ConstantsAssumption DEF AbandonRow
<1>12. CASE AbandonNewer(c) BY <1>12, <1>0, ConstantsAssumption DEF AbandonNewer, MyOpen, MySess
<1>13. CASE AbandonRaced(c) BY <1>13, <1>0, ConstantsAssumption DEF AbandonRaced
<1>. QED BY <1>1, <1>2, <1>3, <1>4, <1>5, <1>6, <1>7, <1>8, <1>9, <1>10, <1>11, <1>12, <1>13
(* Requests that arrive, but for resume.                                   *)
LEMMA LogStart ==
  ASSUME TypeOK, LockInv, InHand, LogInv, NEW c \in Connections,
         \/ StartTurn(c) \/ StartFinalize(c) \/ StartAbandon(c) \/ Recycle(c)
  PROVE  LogInv'
<1>. USE DEF TypeOK, RowsTypeOK, RequestsTypeOK, Request, At, Goto, Local, rowVars, Rows,
     Others, Answering, AnsweringPoints, LockInv, KindInv, TurnPoints, LockedPoints, OtherPoints,
     WriteSess, InHand, HandOK, Moves, AwayPoints, AskingPoints, AfterFinalize, AfterError
<1>0. ASSUME Others(c), Moves(pc[c], pc'[c]),
             UNCHANGED <<conv, convC>>, owner'[ConvRow] = owner[ConvRow],
             \/ req'[c].asked = req[c].asked /\ req'[c].kind = req[c].kind
             \/ pc[c] = "idle",
             c \in Answering' => c \in Answering /\ pc[c] # "idle"
      PROVE  LogInv'
  BY <1>0, LogMove
<1>1. CASE StartTurn(c) BY <1>1, <1>0, ConstantsAssumption DEF StartTurn
<1>2. CASE StartFinalize(c)
  <2>1. PICK t : req' = [req EXCEPT ![c] = [IdleRequest EXCEPT !.kind = "finalize", !.sid = t]]
    BY <1>2 DEF StartFinalize
  <2>2. req'[c].kind = "finalize" /\ \A d \in Connections \ {c} : req'[d] = req[d]
    BY <2>1 DEF IdleRequest
  <2>. QED BY <1>2, <2>2, <1>0 DEF StartFinalize
<1>3. CASE StartAbandon(c) BY <1>3, <1>0, ConstantsAssumption DEF StartAbandon
<1>4. CASE Recycle(c) BY <1>4, <1>0, ConstantsAssumption DEF Recycle
<1>. QED BY <1>1, <1>2, <1>3, <1>4
(* Steps that write the conversation row, but no message.                  *)
LEMMA LogPinStep ==
  ASSUME TypeOK, RowsInv, LogInv, NEW c \in Connections,
         \/ ExitNoSession(c) \/ ExitAbandon(c) \/ Displace(c)
         \/ AttachExisting(c) \/ AttachNew(c) \/ Unpin(c)
  PROVE  LogInv'
<1>. USE DEF At, Goto, Local
<1>1. /\ MayWrite(c, ConvRow) /\ owner'[ConvRow] = c /\ convC' = convC
      /\ conv' = Unpinned(MyConv(c)) \/ conv' = Pinned(c, MyConv(c))
  BY ConstantsAssumption DEF ExitNoSession, ExitAbandon, Displace, AttachExisting, AttachNew, Unpin,
     WriteConv, WriteBoth, TypeOK, RowsTypeOK, Rows
<1>2. MyConv(c) \in ConversationRow /\ MyConv(c).log = conv.log
  BY <1>1, RowTypes DEF TypeOK, MyConv, MayWrite, RowsInv, RowsAgree
<1>3. conv'.log = conv.log BY <1>1, <1>2 DEF Unpinned, Pinned, ConversationRow
<1>4. /\ Others(c) /\ req'[c].asked = req[c].asked /\ req'[c].kind = req[c].kind
      /\ c \in Answering' => c \in Answering
  <2>1. CASE req' = req /\ (ExitNoSession(c) \/ ExitAbandon(c) \/ Displace(c) \/ Unpin(c))
    BY <2>1 DEF ExitNoSession, ExitAbandon, Displace, Unpin, Others, TypeOK, RequestsTypeOK,
       Answering, AnsweringPoints, AfterFinalize
  <2>2. CASE AttachExisting(c) \/ AttachNew(c)
    <3>1. PICK s, st : req' = [req EXCEPT ![c].sid = s, ![c].seen = st]
      BY <2>2 DEF AttachExisting, AttachNew
    <3>2. \A d \in Connections \ {c} : req'[d] = req[d] BY <3>1 DEF TypeOK, RequestsTypeOK
    <3>3. req'[c].asked = req[c].asked /\ req'[c].kind = req[c].kind
      BY <3>1 DEF TypeOK, RequestsTypeOK, Request
    <3>4. pc'[c] = "commit1" /\ \A d \in Connections \ {c} : pc'[d] = pc[d]
      BY <2>2 DEF AttachExisting, AttachNew, TypeOK, RequestsTypeOK
    <3>. QED BY <3>2, <3>3, <3>4 DEF Others, Answering, AnsweringPoints
  <2>. QED BY <2>1, <2>2 DEF ExitNoSession, ExitAbandon, Displace, Unpin, AttachExisting, AttachNew
<1>5. LogAt(c) BY DEF LogInv
<1>6. CASE pc[c] \in AskingPoints
  <2>1. pc'[c] \in AskingPoints
    BY <1>6 DEF AskingPoints, ExitNoSession, ExitAbandon, Displace, AttachExisting, AttachNew, Unpin,
       TypeOK, RequestsTypeOK
  <2>2. HoldsQuestion(c) BY <1>5, <1>6 DEF LogAt
  <2>3. HoldsQuestion(c)' BY <2>2, <1>1, <1>3, <1>4 DEF HoldsQuestion, Adds
  <2>4. \A d \in Connections : d \in Answering' => d \in Answering BY <1>4 DEF Others, Answering
  <2>5. LogAt(c)' BY <2>1, <2>2, <2>3, <2>4, <1>4, <1>5 DEF LogAt, AskingPoints, AwayPoints
  <2>. QED BY <2>2, <2>5, <1>1, <1>3, <1>4, LogOthers DEF HoldsQuestion, MayWrite
<1>7. CASE Unpin(c)
  <2>1. pc'[c] \in {"reply", "close"} /\ owner[ConvRow] # c
    BY <1>7, <1>5 DEF Unpin, AfterFinalize, LogAt, AwayPoints, TypeOK, RequestsTypeOK
  <2>2. owner[ConvRow] = NoConn /\ conv = convC
    BY <2>1, <1>1 DEF MayWrite, RowsInv, RowsAgree
  <2>3. HoldsNothing(c)' BY <2>2, <1>1, <1>3 DEF HoldsNothing
  <2>4. ~HoldsQuestion(c)'
    <3>1. conv'.log = convC'.log /\ convC.log \in Seq(Message)
      BY <2>2, <1>1, <1>3 DEF TypeOK, RowsTypeOK, ConversationRow
    <3>2. Append(convC.log, [role |-> "user", re |-> req[c].asked]) # convC.log
      BY <3>1, Appended
    <3>. QED BY <3>1, <3>2, <1>1, <1>4 DEF HoldsQuestion, Adds
  <2>5. LogAt(c)' BY <2>1, <2>3, <2>4, <1>4, <1>5 DEF LogAt, AskingPoints, AwayPoints
  <2>. QED BY <2>2, <2>5, <1>1, <1>3, <1>4, LogOthers, ConstantsAssumption
<1>. QED BY <1>6, <1>7
  DEF AskingPoints, ExitNoSession, ExitAbandon, Displace, AttachExisting, AttachNew
(* Steps 2 and 12 of handle_turn, and resume_turn's late reply.            *)
LEMMA LogAppendStep ==
  ASSUME TypeOK, LockInv, RowsInv, LogInv, NEW c \in Connections,
         RecordUserMessage(c) \/ InsertReply(c) \/ StoreRecovered(c)
  PROVE  LogInv'
<1>. USE DEF At, Goto, Local
<1>1. /\ MayWrite(c, ConvRow) /\ owner'[ConvRow] = c /\ convC' = convC
      /\ \A d \in Connections \ {c} : owner[ConvRow] # d
  BY ConstantsAssumption DEF RecordUserMessage, InsertReply, StoreRecovered,
     WriteConv, MayWrite, TypeOK, RowsTypeOK, Rows
<1>2. LogAt(c) BY DEF LogInv
<1>3. MyConv(c) \in ConversationRow /\ MyConv(c).log = convC.log
  <2>1. owner[ConvRow] = c => conv.log = convC.log
    BY <1>2 DEF RecordUserMessage, InsertReply, StoreRecovered, LogAt, AwayPoints, HoldsNothing
  <2>. QED BY <2>1, RowTypes DEF TypeOK, MyConv
<1>4. MyConv(c).log \in Seq(Message) /\ convC.log \in Seq(Message)
  BY <1>3 DEF TypeOK, RowsTypeOK, ConversationRow
<1>5. \A m : [MyConv(c) EXCEPT !.log = Append(@, m)].log = Append(convC.log, m)
  BY <1>3 DEF ConversationRow
<1>6. \A i \in UserSeqs(convC.log) : i \in UserSeqs(convC'.log) BY <1>1
<1>7. CASE RecordUserMessage(c)
  <2>. DEFINE seq == Len(MyConv(c).log) + 1
              r == [req[c] EXCEPT !.asked = seq]
  <2>1. /\ req' = [req EXCEPT ![c] = r] /\ pc' = [pc EXCEPT ![c] = "route"] /\ pc[c] = "record"
        /\ conv' = [MyConv(c) EXCEPT !.log = Append(@, [role |-> "user", re |-> seq])]
    BY <1>7 DEF RecordUserMessage, WriteConv
  <2>2. conv'.log = Append(convC.log, [role |-> "user", re |-> seq]) /\ seq = Len(convC.log) + 1
    BY <2>1, <1>3, <1>5
  <2>. HIDE DEF seq
  <2>3. req'[c].asked = seq /\ req'[c].kind = "turn" /\ pc'[c] = "route"
    BY <2>1 DEF TypeOK, RequestsTypeOK, Request, LockInv, KindInv, TurnPoints, LockedPoints
  <2>4. Others(c) BY <2>1 DEF Others, TypeOK, RequestsTypeOK
  <2>5. \A d \in Connections : d \notin Answering'
    <3>1. TurnExclusion BY LocksExclude DEF TypeOK
    <3>2. InTurn(c)
      BY <2>1 DEF InTurn, LockedPoints, LockInv, KindInv, TurnPoints
    <3>3. \A d \in Answering : InTurn(d) /\ d \in Connections
      BY DEF Answering, AnsweringPoints, InTurn, LockedPoints
    <3>4. c \notin Answering' BY <2>3 DEF Answering, AnsweringPoints
    <3>5. \A d \in Connections \ {c} : d \in Answering' => d \in Answering
      BY <2>4 DEF Others, Answering
    <3>. QED BY <3>1, <3>2, <3>3, <3>4, <3>5 DEF TurnExclusion
  <2>6. HoldsQuestion(c)' BY <1>1, <2>2, <2>3 DEF HoldsQuestion, Adds
  <2>7. LogAt(c)' BY <2>3, <2>5, <2>6 DEF LogAt, AwayPoints, AskingPoints
  <2>. QED BY <2>4, <2>5, <2>7, <1>1, <1>6, LogOthers
<1>8. CASE InsertReply(c) \/ StoreRecovered(c)
  <2>. DEFINE role == IF InsertReply(c) THEN "assistant" ELSE "recovered"
  <2>0. role \in {"assistant", "recovered"} /\ role # "user" OBVIOUS
  <2>1. /\ req' = req /\ pc' = [pc EXCEPT ![c] = IF InsertReply(c) THEN "commit2" ELSE "reapply"]
        /\ InsertReply(c) => pc[c] = "reply"
        /\ ~InsertReply(c) => pc[c] = "store"
        /\ conv' = [MyConv(c) EXCEPT !.log = Append(@, [role |-> role, re |-> req[c].asked])]
    BY <1>8 DEF InsertReply, StoreRecovered, WriteConv
  <2>2. conv'.log = Append(convC.log, [role |-> role, re |-> req[c].asked]) BY <2>1, <1>5
  <2>3. Others(c) /\ pc'[c] = IF InsertReply(c) THEN "commit2" ELSE "reapply"
    BY <2>1 DEF Others, TypeOK, RequestsTypeOK
  <2>4. c \in Answering' => c \in Answering
    BY <2>1, <2>3 DEF Answering, AnsweringPoints
  <2>5. ~HoldsQuestion(c)'
    <3>1. conv'.log # Append(convC.log, [role |-> "user", re |-> req[c].asked])
      <4>. DEFINE m == [role |-> role, re |-> req[c].asked]
                  u == [role |-> "user", re |-> req[c].asked]
      <4>1. m.role # u.role BY <2>0
      <4>. HIDE DEF m, u
      <4>2. Append(convC.log, m)[Len(convC.log) + 1] = m /\ Append(convC.log, u)[Len(convC.log) + 1] = u
        BY <1>4
      <4>3. Append(convC.log, m) # Append(convC.log, u) BY <4>1, <4>2
      <4>. QED BY <4>3, <2>2 DEF m, u
    <3>. QED BY <3>1, <1>1, <2>1 DEF HoldsQuestion, Adds
  <2>6. CASE InsertReply(c)
    <3>1. HoldsReply(c)' BY <2>6, <2>1, <2>2, <1>1 DEF HoldsReply, Adds
    <3>2. LogAt(c)' BY <3>1, <2>1, <2>3, <2>4, <2>5, <2>6, <1>2 DEF LogAt, AwayPoints, AskingPoints
    <3>. QED BY <3>2, <2>3, <2>4, <1>1, <1>6, LogOthers
  <2>7. CASE ~InsertReply(c)
    <3>1. req[c].kind = "resume" /\ req[c].asked \in UserSeqs(convC.log)
      BY <2>1, <2>7, <1>2 DEF LogAt
    <3>2. HoldsRecovered(c)' BY <3>1, <2>7, <2>1, <2>2, <1>1 DEF HoldsRecovered, Adds
    <3>3. LogAt(c)' BY <3>2, <2>1, <2>3, <2>4, <2>5, <2>7, <1>2 DEF LogAt, AwayPoints, AskingPoints
    <3>. QED BY <3>3, <2>3, <2>4, <1>1, <1>6, LogOthers
  <2>. QED BY <2>6, <2>7
<1>. QED BY <1>7, <1>8
(* What a COMMIT adds to the history, if anything.                         *)
LEMMA CommitAdds ==
  ASSUME TypeOK, RowsInv, LogInv, NEW c \in Connections, CommitTx(c),
         pc[c] \in {"commit1", "commit2", "close"}
  PROVE  /\ owner'[ConvRow] # c
         /\ \A d \in Connections \ {c} :
              /\ owner'[ConvRow] = d <=> owner[ConvRow] = d
              /\ owner[ConvRow] = d => conv'.log = conv.log /\ convC'.log = convC.log
         /\ \A i \in UserSeqs(convC.log) : i \in UserSeqs(convC'.log)
         /\ \/ UNCHANGED convC \/ convC'.log = convC.log
            \/ HoldsQuestion(c) /\ convC'.log = Append(convC.log, [role |-> "user", re |-> req[c].asked])
            \/ HoldsReply(c) /\ pc[c] = "commit2"
               /\ convC'.log = Append(convC.log, [role |-> "assistant", re |-> req[c].asked])
            \/ HoldsRecovered(c) /\ convC'.log = Append(convC.log, [role |-> "recovered", re |-> req[c].asked])
<1>1. /\ owner'[ConvRow] = IF owner[ConvRow] = c THEN NoConn ELSE owner[ConvRow]
      /\ conv' = conv /\ convC' = IF owner[ConvRow] = c THEN conv ELSE convC
  BY DEF CommitTx, Released, MyConv, Rows
<1>2. convC.log \in Seq(Message) BY DEF TypeOK, RowsTypeOK, ConversationRow
<1>3. LogAt(c) BY DEF LogInv
<1>4. \/ owner[ConvRow] # c \/ HoldsQuestion(c)
      \/ HoldsReply(c) /\ pc[c] = "commit2"
      \/ HoldsRecovered(c)
      \/ owner[ConvRow] = c /\ conv.log = convC.log
  BY <1>3 DEF LogAt, AskingPoints, HoldsNothing
<1>5. \/ UNCHANGED convC \/ convC'.log = convC.log
      \/ HoldsQuestion(c) /\ convC'.log = Append(convC.log, [role |-> "user", re |-> req[c].asked])
      \/ HoldsReply(c) /\ pc[c] = "commit2"
         /\ convC'.log = Append(convC.log, [role |-> "assistant", re |-> req[c].asked])
      \/ HoldsRecovered(c) /\ convC'.log = Append(convC.log, [role |-> "recovered", re |-> req[c].asked])
  BY <1>1, <1>4 DEF HoldsQuestion, HoldsReply, HoldsRecovered, Adds
<1>6. \A i \in UserSeqs(convC.log) : i \in UserSeqs(convC'.log)
  <2>1. \A role : \A i \in UserSeqs(convC.log) :
          i \in UserSeqs(Append(convC.log, [role |-> role, re |-> req[c].asked]))
    BY <1>2, Appended
  <2>. QED BY <2>1, <1>5
<1>7. NoConn \notin Connections BY ConstantsAssumption
<1>. QED BY <1>1, <1>5, <1>6, <1>7
(* Steps 9 and 14 of handle_turn, and the end of a request.                *)
LEMMA LogCommitStep ==
  ASSUME TypeOK, LockInv, RowsInv, LogInv, NEW c \in Connections,
         CommitBeforeHandler(c) \/ CommitReply(c) \/ Close(c)
  PROVE  LogInv'
<1>. USE DEF At, Goto, Local
<1>1. CommitTx(c) /\ pc[c] \in {"commit1", "commit2", "close"}
  BY DEF CommitBeforeHandler, CommitReply, Close
<1>2. /\ owner'[ConvRow] # c
      /\ \A d \in Connections \ {c} :
           /\ owner'[ConvRow] = d <=> owner[ConvRow] = d
           /\ owner[ConvRow] = d => conv'.log = conv.log /\ convC'.log = convC.log
      /\ \A i \in UserSeqs(convC.log) : i \in UserSeqs(convC'.log)
  BY <1>1, CommitAdds
<1>3. LogAt(c) BY DEF LogInv
<1>4. Others(c) /\ pc'[c] = CASE CommitBeforeHandler(c) -> "handle"
                               [] CommitReply(c) -> "unlock" [] OTHER -> "idle"
  BY DEF CommitBeforeHandler, CommitReply, Close, EndRequest, Others, TypeOK, RequestsTypeOK
<1>5. ~HoldsQuestion(c)' /\ HoldsNothing(c)' BY <1>2 DEF HoldsQuestion, HoldsNothing
<1>6. CASE CommitBeforeHandler(c)
  <2>1. pc'[c] = "handle" /\ req' = req /\ pc[c] = "commit1"
    BY <1>4, <1>6 DEF CommitBeforeHandler
  <2>2. HoldsQuestion(c) BY <2>1, <1>3 DEF LogAt, AskingPoints
  <2>3. req'[c].asked \in Nat \ {0}
    <3>1. Len(convC.log) \in Nat BY DEF TypeOK, RowsTypeOK, ConversationRow
    <3>. QED BY <2>1, <2>2, <3>1 DEF HoldsQuestion
  <2>4. \A d \in Connections \ {c} : owner[ConvRow] # d BY <2>2 DEF HoldsQuestion
  <2>5. LogAt(c)' BY <2>1, <2>3, <1>2, <1>5 DEF LogAt, AwayPoints, AskingPoints
  <2>. QED BY <2>4, <2>5, <1>2, <1>4, LogOthers
<1>7. CASE ~CommitBeforeHandler(c)
  <2>1. pc'[c] \in {"unlock", "idle"} BY <1>4, <1>7
  <2>2. c \notin Answering' BY <2>1 DEF Answering, AnsweringPoints
  <2>3. LogAt(c)' BY <2>1, <2>2, <1>2, <1>5 DEF LogAt, AwayPoints, AskingPoints
  <2>. QED BY <2>2, <2>3, <1>2, <1>4, LogOthers
<1>. QED BY <1>6, <1>7
(* Steps that take back what a request wrote.                              *)
LEMMA LogRollbackStep ==
  ASSUME TypeOK, LockInv, RowsInv, LogInv, NEW c \in Connections,
         InsertReplyRejected(c) \/ Rollback(c) \/ DeadlockVictim(c)
  PROVE  LogInv'
<1>. USE DEF At, Goto
<1>1. RollbackTx(c) BY DEF InsertReplyRejected, Rollback, DeadlockVictim
<1>2. /\ owner'[ConvRow] = IF owner[ConvRow] = c THEN NoConn ELSE owner[ConvRow]
      /\ convC' = convC
      /\ owner[ConvRow] # c => conv' = conv
  BY <1>1 DEF RollbackTx, Released, Rows
<1>3. NoConn \notin Connections BY ConstantsAssumption
<1>4. Others(c) /\ pc'[c] \in {"unlock", "rollback", "idle"}
  BY DEF InsertReplyRejected, Rollback, DeadlockVictim, EndRequest, AfterError,
     Others, TypeOK, RequestsTypeOK
<1>5. ~HoldsQuestion(c)' /\ HoldsNothing(c)' BY <1>2, <1>3 DEF HoldsQuestion, HoldsNothing
<1>6. c \notin Answering' BY <1>4 DEF Answering, AnsweringPoints
<1>7. LogAt(c)' BY <1>2, <1>3, <1>4, <1>5, <1>6 DEF LogAt, AwayPoints, AskingPoints
<1>8. \A d \in Connections \ {c} :
        /\ owner'[ConvRow] = d <=> owner[ConvRow] = d
        /\ owner[ConvRow] = d => conv'.log = conv.log /\ convC'.log = convC.log
  BY <1>2, <1>3
<1>9. \A i \in UserSeqs(convC.log) : i \in UserSeqs(convC'.log) BY <1>2
<1>. QED BY <1>4, <1>6, <1>7, <1>8, <1>9, LogOthers
(* A resume arrives and reads the last question.                           *)
LEMMA LogResumeStart ==
  ASSUME TypeOK, LogInv, NEW c \in Connections, StartResume(c)
  PROVE  LogInv'
<1>. USE DEF At, Goto
<1>1. PICK s \in Sessions, i \in UserSeqs(convC.log) :
        /\ req' = [req EXCEPT ![c] = [IdleRequest EXCEPT !.kind = "resume", !.sid = s,
                     !.seen = sessC[s].st, !.asked = i]]
        /\ pc' = [pc EXCEPT ![c] = IF sessC[s].remote THEN "reconcile" ELSE "close"]
  BY DEF StartResume
<1>2. /\ req'[c].kind = "resume" /\ req'[c].asked = i /\ pc'[c] \in {"reconcile", "close"} /\ Others(c)
  BY <1>1 DEF TypeOK, RequestsTypeOK, IdleRequest, Others
<1>3. UNCHANGED <<conv, convC, owner>> /\ pc[c] = "idle" BY DEF StartResume, rowVars
<1>4. owner'[ConvRow] # c BY <1>3 DEF LogInv, LogAt, AwayPoints
<1>5. c \notin Answering' BY <1>2 DEF Answering, AnsweringPoints
<1>6. LogAt(c)' BY <1>2, <1>3, <1>4, <1>5 DEF LogAt, AwayPoints, AskingPoints, HoldsQuestion, HoldsNothing
<1>. QED BY <1>2, <1>3, <1>5, <1>6, LogStill
(* Every step of a request preserves the invariant.                        *)
LEMMA LogStep ==
  ASSUME BaseInv, SafetyInv, LogInv, NEW c \in Connections, Step(c) \/ Environment(c)
  PROVE  LogInv'
<1>. USE DEF BaseInv, SafetyInv
<1>1. CASE TurnStep(c)
  BY <1>1, LogTurnMove, LogPinStep, LogAppendStep, LogCommitStep, LogRollbackStep DEF TurnStep
<1>2. CASE FinalizeStep(c) BY <1>2, LogCallMove, LogPinStep DEF FinalizeStep
<1>3. CASE ResumeStep(c) BY <1>3, LogCallMove, LogAppendStep DEF ResumeStep
<1>4. CASE AbandonStep(c) BY <1>4, LogCallMove DEF AbandonStep
<1>5. CASE EndStep(c) BY <1>5, LogCommitStep, LogRollbackStep DEF EndStep
<1>6. CASE Environment(c) BY <1>6, LogStart, LogResumeStart DEF Environment
<1>. QED BY <1>1, <1>2, <1>3, <1>4, <1>5, <1>6 DEF Step
(* No request survives a crash.                                            *)
LEMMA LogCrash ==
  ASSUME Crash
  PROVE  LogInv'
<1>1. /\ \A c \in Connections : pc'[c] = "idle" /\ c \notin Answering'
      /\ owner'[ConvRow] \notin Connections
  BY ConstantsAssumption DEF Crash, Answering, AnsweringPoints, Rows
<1>. QED BY <1>1 DEF LogInv, LogAt, AwayPoints, AskingPoints, HoldsQuestion, HoldsNothing
(* Stuttering.                                                             *)
LEMMA LogStutter ==
  ASSUME LogInv, UNCHANGED vars
  PROVE  LogInv'
BY DEF vars, rowVars, LogInv, LogAt, HoldsQuestion, HoldsReply, HoldsRecovered, HoldsNothing,
       Adds, Answering, UserSeqs
(* No request holds the row of a new conversation.                         *)
LEMMA LogInit == Init => LogInv
BY ConstantsAssumption DEF Init, LogInv, LogAt, AwayPoints, AskingPoints, HoldsQuestion,
   HoldsNothing, Answering, AnsweringPoints, Rows
(* The lock on the conversation row and the messages added under it.       *)
THEOREM LogCorrect == Spec => []LogInv
<1>1. BaseInv /\ SafetyInv /\ LogInv /\ [Next]_vars => LogInv'
  BY LogStep, LogCrash, LogStutter DEF Next, Rest
<1>. QED BY BaseCorrect, SafetyCorrect, LogInit, <1>1, PTL DEF Spec
-----------------------------------------------------------------------------
(* The history is a ConversationLog.                                       *)

(* A step of c that commits nothing, and begins no answer.                 *)
UncommittedStep(c) ==
  /\ Others(c) /\ UNCHANGED convC
  /\ c \in Answering' => c \in Answering /\ req'[c].asked = req[c].asked
(* The steps of handle_turn but for its two COMMITs.                       *)
LEMMA UncommittedTurn ==
  ASSUME TypeOK, LockInv, NEW c \in Connections,
         \/ TryLock(c) \/ RefuseTurn(c) \/ RecordUserMessage(c) \/ RouteExplicit(c)
         \/ RouteUnknown(c) \/ RoutePinned(c) \/ RouteUnpinned(c) \/ RouteExit(c)
         \/ ExitNoSession(c) \/ ExitAbandon(c) \/ ExitRaced(c) \/ LimitPassed(c)
         \/ LimitExceeded(c) \/ AttachExisting(c) \/ AttachOther(c) \/ AttachNone(c)
         \/ AttachNew(c) \/ Displace(c) \/ DisplaceRaced(c) \/ HandlerReplies(c)
         \/ HandlerFails(c) \/ ApplyDelta(c) \/ ApplyRejected(c) \/ InsertReply(c)
         \/ InsertReplyRejected(c) \/ Unlock(c)
  PROVE  UncommittedStep(c)
<1>. USE DEF TypeOK, RequestsTypeOK, Request, At, Goto, Local, rowVars, UncommittedStep,
     Others, Answering, AnsweringPoints, WriteConv, WriteSess, WriteBoth, RollbackTx
<1>1. CASE TryLock(c) BY <1>1 DEF TryLock
<1>2. CASE RefuseTurn(c) BY <1>2 DEF RefuseTurn
<1>3. CASE RecordUserMessage(c) BY <1>3 DEF RecordUserMessage
<1>4. CASE RouteExplicit(c) BY <1>4 DEF RouteExplicit
<1>5. CASE RouteUnknown(c) BY <1>5 DEF RouteUnknown
<1>6. CASE RoutePinned(c) BY <1>6 DEF RoutePinned
<1>7. CASE RouteUnpinned(c)
  <2>1. PICK a, b : req' = [req EXCEPT ![c].agt = a, ![c].badConf = b] BY <1>7 DEF RouteUnpinned
  <2>2. req'[c].asked = req[c].asked /\ \A d \in Connections \ {c} : req'[d] = req[d] BY <2>1
  <2>. QED BY <1>7, <2>2 DEF RouteUnpinned
<1>8. CASE RouteExit(c)
  <2>1. PICK t : req' = [req EXCEPT ![c].agt = DefaultAgent, ![c].sid = t] BY <1>8 DEF RouteExit
  <2>2. req'[c].asked = req[c].asked /\ \A d \in Connections \ {c} : req'[d] = req[d] BY <2>1
  <2>. QED BY <1>8, <2>2 DEF RouteExit
<1>9. CASE ExitNoSession(c) BY <1>9 DEF ExitNoSession
<1>10. CASE ExitAbandon(c) BY <1>10 DEF ExitAbandon
<1>11. CASE ExitRaced(c) BY <1>11 DEF ExitRaced
<1>12. CASE LimitPassed(c) BY <1>12 DEF LimitPassed
<1>13. CASE LimitExceeded(c) BY <1>13 DEF LimitExceeded
<1>14. CASE AttachExisting(c)
  <2>1. PICK t, st : req' = [req EXCEPT ![c].sid = t, ![c].seen = st] BY <1>14 DEF AttachExisting
  <2>2. req'[c].asked = req[c].asked /\ \A d \in Connections \ {c} : req'[d] = req[d] BY <2>1
  <2>. QED BY <1>14, <2>2 DEF AttachExisting
<1>15. CASE AttachOther(c) BY <1>15 DEF AttachOther
<1>16. CASE AttachNone(c) BY <1>16 DEF AttachNone
<1>17. CASE AttachNew(c)
  <2>1. PICK t, st : req' = [req EXCEPT ![c].sid = t, ![c].seen = st] BY <1>17 DEF AttachNew
  <2>2. req'[c].asked = req[c].asked /\ \A d \in Connections \ {c} : req'[d] = req[d] BY <2>1
  <2>. QED BY <1>17, <2>2 DEF AttachNew
<1>18. CASE Displace(c) BY <1>18 DEF Displace
<1>19. CASE DisplaceRaced(c) BY <1>19 DEF DisplaceRaced
<1>20. CASE HandlerReplies(c) BY <1>20 DEF HandlerReplies
<1>21. CASE HandlerFails(c) BY <1>21 DEF HandlerFails
<1>22. CASE ApplyDelta(c) BY <1>22 DEF ApplyDelta
<1>23. CASE ApplyRejected(c) BY <1>23 DEF ApplyRejected
<1>24. CASE InsertReply(c) BY <1>24 DEF InsertReply
<1>25. CASE InsertReplyRejected(c) BY <1>25 DEF InsertReplyRejected
<1>26. CASE Unlock(c) BY <1>26 DEF Unlock
<1>. QED BY <1>1, <1>2, <1>3, <1>4, <1>5, <1>6, <1>7, <1>8, <1>9, <1>10, <1>11, <1>12,
     <1>13, <1>14, <1>15, <1>16, <1>17, <1>18, <1>19, <1>20, <1>21, <1>22, <1>23, <1>24,
     <1>25, <1>26
(* The steps of the other handlers, and the end that commits nothing.      *)
LEMMA UncommittedCalls ==
  ASSUME TypeOK, LockInv, NEW c \in Connections,
         \/ Claim(c) \/ ClaimLost(c) \/ SubmitAccepted(c) \/ SubmitFails(c)
         \/ Complete(c) \/ ReportRaises(c) \/ Unpin(c) \/ ReconcileAnswered(c)
         \/ ReconcileUnanswered(c) \/ StoreRecovered(c) \/ ResumeApply(c) \/ ResumeRejected(c)
         \/ AbandonRow(c) \/ AbandonNewer(c) \/ AbandonRaced(c) \/ Rollback(c)
         \/ DeadlockVictim(c) \/ StartTurn(c) \/ StartFinalize(c) \/ StartResume(c)
         \/ StartAbandon(c) \/ Recycle(c)
  PROVE  UncommittedStep(c)
<1>. USE DEF TypeOK, RequestsTypeOK, Request, At, Goto, Local, rowVars, UncommittedStep,
     Others, Answering, AnsweringPoints, WriteConv, WriteSess, WriteBoth, RollbackTx,
     AfterFinalize, AfterError, EndRequest, LockInv, KindInv, OtherPoints, TurnPoints, LockedPoints
<1>1. CASE Claim(c) BY <1>1 DEF Claim
<1>2. CASE ClaimLost(c) BY <1>2 DEF ClaimLost
<1>3. CASE SubmitAccepted(c) BY <1>3 DEF SubmitAccepted
<1>4. CASE SubmitFails(c) BY <1>4 DEF SubmitFails
<1>5. CASE Complete(c) BY <1>5 DEF Complete
<1>6. CASE ReportRaises(c) BY <1>6 DEF ReportRaises
<1>7. CASE Unpin(c) BY <1>7 DEF Unpin
<1>8. CASE ReconcileAnswered(c) BY <1>8 DEF ReconcileAnswered
<1>9. CASE ReconcileUnanswered(c) BY <1>9 DEF ReconcileUnanswered
<1>10. CASE StoreRecovered(c) BY <1>10 DEF StoreRecovered
<1>11. CASE ResumeApply(c) BY <1>11 DEF ResumeApply
<1>12. CASE ResumeRejected(c) BY <1>12 DEF ResumeRejected
<1>13. CASE AbandonRow(c) BY <1>13 DEF AbandonRow
<1>14. CASE AbandonNewer(c) BY <1>14 DEF AbandonNewer
<1>15. CASE AbandonRaced(c) BY <1>15 DEF AbandonRaced
<1>16. CASE Rollback(c) BY <1>16 DEF Rollback
<1>17. CASE DeadlockVictim(c) BY <1>17 DEF DeadlockVictim
<1>18. CASE StartTurn(c) BY <1>18 DEF StartTurn
<1>19. CASE StartFinalize(c)
  <2>1. PICK t : req' = [req EXCEPT ![c] = [IdleRequest EXCEPT !.kind = "finalize", !.sid = t]]
    BY <1>19 DEF StartFinalize
  <2>2. req'[c].kind = "finalize" /\ \A d \in Connections \ {c} : req'[d] = req[d]
    BY <2>1 DEF IdleRequest
  <2>. QED BY <1>19, <2>2 DEF StartFinalize
<1>20. CASE StartResume(c)
  <2>1. PICK r : req' = [req EXCEPT ![c] = r] BY <1>20 DEF StartResume
  <2>. QED BY <1>20, <2>1 DEF StartResume
<1>21. CASE StartAbandon(c) BY <1>21 DEF StartAbandon
<1>22. CASE Recycle(c) BY <1>22 DEF Recycle
<1>. QED BY <1>1, <1>2, <1>3, <1>4, <1>5, <1>6, <1>7, <1>8, <1>9, <1>10, <1>11, <1>12,
     <1>13, <1>14, <1>15, <1>16, <1>17, <1>18, <1>19, <1>20, <1>21, <1>22
(* One turn is being answered at a time, and OpenQuestion is its question.  *)
LEMMA AnsweringOne ==
  ASSUME BaseInv, NEW c \in Answering
  PROVE  Answering = {c} /\ OpenQuestion = req[c].asked
<1>1. TurnExclusion BY LocksExclude DEF BaseInv, TypeOK
<1>2. \A d \in Answering : InTurn(d) /\ d \in Connections
  BY DEF Answering, AnsweringPoints, InTurn, LockedPoints
<1>3. Answering = {c} BY <1>1, <1>2 DEF TurnExclusion
<1>. QED BY <1>3 DEF OpenQuestion
(* A step that commits nothing either goes on, or gives a question up.      *)
LEMMA UncommittedMaps ==
  ASSUME BaseInv, LogInv, NEW c \in Connections, UncommittedStep(c)
  PROVE  [Log!Next]_(Log!logVars)
<1>1. convC'.log = convC.log BY DEF UncommittedStep
<1>2. \A d \in Connections \ {c} :
        req'[d] = req[d] /\ (d \in Answering' <=> d \in Answering)
  BY DEF UncommittedStep, Others, Answering
<1>3. Answering \subseteq Connections /\ Answering' \subseteq Connections BY DEF Answering
<1>4. CASE \E d \in Answering \ {c} : TRUE
  <2>1. PICK d \in Answering \ {c} : TRUE BY <1>4
  <2>2. Answering = {d} /\ OpenQuestion = req[d].asked BY <2>1, AnsweringOne
  <2>3. Answering' = {d} BY <2>1, <2>2, <1>2, <1>3 DEF UncommittedStep
  <2>4. OpenQuestion' = req'[d].asked BY <2>3 DEF OpenQuestion
  <2>5. OpenQuestion' = OpenQuestion BY <2>1, <2>2, <2>4, <1>2, <1>3
  <2>. QED BY <2>5, <1>1 DEF Log!logVars
<1>5. CASE Answering = {}
  <2>1. Answering' = {} BY <1>5, <1>2, <1>3 DEF UncommittedStep
  <2>2. OpenQuestion' = 0 /\ OpenQuestion = 0 BY <1>5, <2>1 DEF OpenQuestion
  <2>. QED BY <2>2, <1>1 DEF Log!logVars
<1>6. CASE Answering = {c}
  <2>1. OpenQuestion = req[c].asked BY <1>6, AnsweringOne
  <2>2. CASE c \in Answering'
    <3>1. Answering' = {c} BY <2>2, <1>2, <1>3, <1>6
    <3>2. OpenQuestion' = req'[c].asked BY <3>1 DEF OpenQuestion
    <3>3. OpenQuestion' = OpenQuestion BY <2>1, <2>2, <3>2 DEF UncommittedStep
    <3>. QED BY <3>3, <1>1 DEF Log!logVars
  <2>3. CASE c \notin Answering'
    <3>1. Answering' = {} BY <2>3, <1>2, <1>3, <1>6
    <3>2. OpenQuestion' = 0 BY <3>1 DEF OpenQuestion
    <3>3. OpenQuestion # 0 BY <2>1, <1>6 DEF LogInv, LogAt
    <3>. QED BY <3>2, <3>3, <1>1 DEF Log!Next, Log!GiveUp
  <2>. QED BY <2>2, <2>3
<1>. QED BY <1>4, <1>5, <1>6
(* The COMMITs: a question to be answered, an answer, or what a request     *)
(* that ends leaves behind.                                                *)
LEMMA CommitMaps ==
  ASSUME BaseInv, BaseInv', SafetyInv, LogInv, NEW c \in Connections,
         CommitBeforeHandler(c) \/ CommitReply(c) \/ Close(c)
  PROVE  [Log!Next]_(Log!logVars)
<1>. USE DEF At, Goto, Local, BaseInv, SafetyInv
<1>0. CommitTx(c) /\ pc[c] \in {"commit1", "commit2", "close"}
  BY DEF CommitBeforeHandler, CommitReply, Close
<1>1. /\ \/ UNCHANGED convC \/ convC'.log = convC.log
         \/ HoldsQuestion(c) /\ convC'.log = Append(convC.log, [role |-> "user", re |-> req[c].asked])
         \/ HoldsReply(c) /\ pc[c] = "commit2"
            /\ convC'.log = Append(convC.log, [role |-> "assistant", re |-> req[c].asked])
         \/ HoldsRecovered(c) /\ convC'.log = Append(convC.log, [role |-> "recovered", re |-> req[c].asked])
  BY <1>0, CommitAdds
<1>2. LogAt(c) BY DEF LogInv
<1>3. Others(c) BY DEF CommitBeforeHandler, CommitReply, Close, EndRequest, Others, TypeOK, RequestsTypeOK
<1>4. \A d \in Connections \ {c} :
        req'[d] = req[d] /\ (d \in Answering' <=> d \in Answering)
  BY <1>3 DEF Others, Answering
<1>5. Answering \subseteq Connections /\ Answering' \subseteq Connections BY DEF Answering
<1>6. CASE CommitBeforeHandler(c)
  <2>1. pc[c] = "commit1" /\ pc'[c] = "handle" /\ req' = req
    BY <1>6 DEF CommitBeforeHandler, TypeOK, RequestsTypeOK
  <2>2. HoldsQuestion(c) /\ Answering = {} BY <2>1, <1>2, <1>5 DEF LogAt, AskingPoints
  <2>3. owner[ConvRow] = c /\ convC'.log = conv.log
    BY <2>2, <1>0 DEF HoldsQuestion, CommitTx, MyConv
  <2>4. convC'.log = Append(convC.log, [role |-> "user", re |-> Len(convC.log) + 1])
    BY <2>2, <2>3 DEF HoldsQuestion, Adds
  <2>5. c \in Answering' BY <2>1, <2>2 DEF HoldsQuestion, Answering, AnsweringPoints
  <2>6. Answering' = {c} BY <2>2, <2>5, <1>4, <1>5
  <2>7. OpenQuestion' = Len(convC.log) + 1 /\ OpenQuestion = 0
    BY <2>1, <2>2, <2>6 DEF OpenQuestion, HoldsQuestion
  <2>. QED BY <2>4, <2>7 DEF Log!Next, Log!Ask, Log!User
<1>7. CASE CommitReply(c)
  <2>1. pc[c] = "commit2" /\ pc'[c] = "unlock" /\ req' = req
    BY <1>7 DEF CommitReply, TypeOK, RequestsTypeOK
  <2>2. HoldsReply(c) BY <2>1, <1>2 DEF LogAt
  <2>3. convC'.log = conv.log BY <2>2, <1>0 DEF HoldsReply, CommitTx, MyConv
  <2>4. convC'.log = Append(convC.log, [role |-> "assistant", re |-> req[c].asked])
    BY <2>2, <2>3 DEF HoldsReply, Adds
  <2>5. c \in Answering
    BY <2>1 DEF Answering, AnsweringPoints, LockInv, KindInv, TurnPoints, LockedPoints
  <2>6. Answering = {c} /\ OpenQuestion = req[c].asked BY <2>5, AnsweringOne
  <2>7. c \notin Answering' BY <2>1 DEF Answering, AnsweringPoints
  <2>8. Answering' = {} BY <2>6, <2>7, <1>4, <1>5
  <2>9. OpenQuestion' = 0 /\ OpenQuestion # 0 BY <2>5, <2>6, <2>8, <1>2 DEF OpenQuestion, LogAt
  <2>. QED BY <2>4, <2>6, <2>9 DEF Log!Next, Log!Answer, Log!Reply
<1>8. CASE Close(c)
  <2>1. pc[c] = "close" /\ pc'[c] = "idle"
    BY <1>8 DEF Close, EndRequest, TypeOK, RequestsTypeOK
  <2>2. c \notin Answering /\ c \notin Answering' BY <2>1 DEF Answering, AnsweringPoints
  <2>3. Answering' = Answering BY <2>2, <1>4, <1>5
  <2>4. OpenQuestion' = OpenQuestion
    <3>1. CASE Answering = {} BY <3>1, <2>3 DEF OpenQuestion
    <3>2. CASE Answering # {}
      <4>1. PICK d \in Answering : TRUE BY <3>2
      <4>2. Answering = {d} /\ OpenQuestion = req[d].asked BY <4>1, AnsweringOne
      <4>3. OpenQuestion' = req'[d].asked BY <4>2, <2>3 DEF OpenQuestion
      <4>. QED BY <4>1, <4>2, <4>3, <2>2, <1>4, <1>5
    <3>. QED BY <3>1, <3>2
  <2>5. CASE convC'.log = convC.log BY <2>4, <2>5 DEF Log!logVars
  <2>6. CASE HoldsQuestion(c) /\ convC'.log = Append(convC.log, [role |-> "user", re |-> req[c].asked])
    <3>1. Answering = {} /\ req[c].asked = Len(convC.log) + 1 BY <2>6, <1>2, <1>5 DEF LogAt, HoldsQuestion
    <3>2. OpenQuestion = 0 BY <3>1 DEF OpenQuestion
    <3>. QED BY <2>4, <2>6, <3>1, <3>2 DEF Log!Next, Log!AskInVain, Log!User
  <2>7. CASE HoldsRecovered(c) /\ convC'.log = Append(convC.log, [role |-> "recovered", re |-> req[c].asked])
    <3>1. req[c].asked \in Log!Questions BY <2>7 DEF HoldsRecovered, UserSeqs, Log!Questions
    <3>. QED BY <2>4, <2>7, <3>1 DEF Log!Next, Log!Recover, Log!Reply
  <2>. QED BY <1>1, <2>1, <2>5, <2>6, <2>7
<1>. QED BY <1>6, <1>7, <1>8
(* A crash gives the question being answered up.                           *)
LEMMA CrashMaps ==
  ASSUME BaseInv, LogInv, Crash
  PROVE  [Log!Next]_(Log!logVars)
<1>1. convC'.log = convC.log /\ Answering' = {}
  BY DEF Crash, Answering, AnsweringPoints
<1>2. OpenQuestion' = 0 BY <1>1 DEF OpenQuestion
<1>3. CASE Answering = {}
  <2>1. OpenQuestion = 0 BY <1>3 DEF OpenQuestion
  <2>. QED BY <1>1, <1>2, <2>1 DEF Log!logVars
<1>4. CASE Answering # {}
  <2>1. PICK c \in Answering : TRUE BY <1>4
  <2>2. OpenQuestion = req[c].asked /\ c \in Connections BY <2>1, AnsweringOne DEF Answering
  <2>3. OpenQuestion # 0 BY <2>1, <2>2 DEF LogInv, LogAt
  <2>. QED BY <1>1, <1>2, <2>3 DEF Log!Next, Log!GiveUp
<1>. QED BY <1>3, <1>4
(* handle_turn, resume_turn, the other handlers and crashes implement       *)
(* ConversationLog: at most one question is being answered, and an answer   *)
(* follows its own question with nothing but recovered replies in between.  *)
THEOREM HistoryIsALog == Spec => ImplementsLog
<1>1. Init => Log!Init
  BY DEF Init, Log!Init, OpenQuestion, Answering, AnsweringPoints
<1>2. ASSUME BaseInv, BaseInv', SafetyInv, LogInv, [Next]_vars
      PROVE  [Log!Next]_(Log!logVars)
  <2>1. CASE UNCHANGED vars
    <3>1. UNCHANGED <<convC, req, pc>> BY <2>1 DEF vars, rowVars
    <3>. QED BY <3>1 DEF Log!logVars, OpenQuestion, Answering
  <2>2. ASSUME NEW c \in Connections, Step(c) \/ Environment(c)
        PROVE  [Log!Next]_(Log!logVars)
    BY <1>2, <2>2, UncommittedTurn, UncommittedCalls, UncommittedMaps, CommitMaps
    DEF Step, Environment, TurnStep, FinalizeStep, ResumeStep, AbandonStep, EndStep, BaseInv
  <2>. QED BY <1>2, <2>1, <2>2, CrashMaps DEF Next, Rest
<1>. QED BY <1>1, <1>2, BaseCorrect, SafetyCorrect, LogCorrect, PTL DEF Spec, ImplementsLog, Log!Spec
-----------------------------------------------------------------------------
(* The pin.                                                                *)

(* A pin still agrees when open sessions go on, or fail.                    *)
LEMMA AgreesContinued ==
  ASSUME NEW pin, NEW rows, NEW new, Agrees(pin, rows),
         \A s \in Sessions : new[s] = rows[s] \/ Continues(rows[s], new[s])
  PROVE  Agrees(pin, new)
<1>1. \A s \in Sessions : Open(new[s]) => Open(rows[s]) /\ new[s].agent = rows[s].agent
  BY DEF Continues
<1>2. \A s \in Sessions : Open(rows[s]) \/ rows[s].st = "failed" =>
        new[s].agent = rows[s].agent /\ (Open(new[s]) \/ new[s].st = "failed")
  BY DEF Continues
<1>. QED BY <1>1, <1>2 DEF Agrees
(* NoAgent agrees with rows none of which is open.                          *)
LEMMA AgreesNone ==
  ASSUME NEW rows, \A s \in Sessions : ~Open(rows[s])
  PROVE  Agrees(NoAgent, rows)
BY DEF Agrees
(* open_for's SELECT finds at most one session.                             *)
LEMMA SeesOneOpen ==
  ASSUME OpenInv, NEW c \in Connections, NEW s \in MyOpen(c), NEW t \in MyOpen(c)
  PROVE  s = t
<1>. USE DEF OpenInv, AtMostOneOpenSession
<1>1. s \in Sessions /\ t \in Sessions /\ Open(MySess(c, s)) /\ Open(MySess(c, t)) BY DEF MyOpen
<1>2. CASE owner[s] = c /\ owner[t] = c BY <1>1, <1>2 DEF MySess
<1>3. CASE owner[s] # c /\ owner[t] # c BY <1>1, <1>3 DEF MySess
<1>4. \A a, b \in Sessions : owner[a] = c /\ owner[b] # c /\ Open(sess[a]) /\ Open(sessC[b]) => a = b
  <2>1. SUFFICES ASSUME NEW a \in Sessions, NEW b \in Sessions, owner[a] = c, owner[b] # c,
                        Open(sess[a]), Open(sessC[b]), a # b
                 PROVE  FALSE
    OBVIOUS
  <2>2. ~Open(sessC[a]) BY <2>1
  <2>3. ~Open(MySess(c, b)) BY <2>1, <2>2 DEF NewRowsAlone
  <2>. QED BY <2>1, <2>3 DEF MySess
<1>. QED BY <1>1, <1>2, <1>3, <1>4 DEF MySess
(* A request that unpins sees no open session.                             *)
LEMMA UnpinSeesNone ==
  ASSUME OpenInv, NEW c \in Connections, PinAt(c), pc[c] = "unpin"
  PROVE  MyOpen(c) = {}
<1>1. SUFFICES ASSUME NEW t \in MyOpen(c)
               PROVE  FALSE
  OBVIOUS
<1>2. t \in Sessions /\ Open(MySess(c, t)) BY DEF MyOpen
<1>3. /\ req[c].sid \in Sessions /\ owner[req[c].sid] = c
      /\ Open(sessC[req[c].sid]) /\ ~Open(sess[req[c].sid])
  BY DEF PinAt
<1>4. t # req[c].sid BY <1>2, <1>3 DEF MySess
<1>5. ~Open(sessC[t]) BY <1>2, <1>3, <1>4 DEF OpenInv, AtMostOneOpenSession
<1>6. owner[t] = c /\ Open(sess[t]) BY <1>2, <1>5 DEF MySess
<1>. QED BY <1>2, <1>5, <1>6 DEF OpenInv, NewRowsAlone
(* What a request sees agrees, with the conversation row's lock or without. *)
LEMMA SeenAgrees ==
  ASSUME PinInv, NEW c \in Connections, pc[c] # "unpin"
  PROVE  Agrees(MyConv(c).pin, View(c))
<1>1. CASE owner[ConvRow] = c BY <1>1 DEF PinInv, PinAt, MyConv
<1>2. CASE owner[ConvRow] # c
  <2>1. \A s \in Sessions : View(c)[s] = sessC[s] \/ Continues(sessC[s], View(c)[s])
    BY <1>2 DEF PinInv, PinAt, View, MySess
  <2>2. Agrees(convC.pin, View(c)) BY <2>1, AgreesContinued DEF PinInv
  <2>. QED BY <1>2, <2>2 DEF MyConv
<1>. QED BY <1>1, <1>2
(* A step of c that commits nothing and writes only rows c may write.       *)
Writes(c) ==
  /\ Others(c) /\ UNCHANGED <<convC, sessC>>
  /\ \A d \in Connections \ {c} :
       /\ owner'[ConvRow] = d <=> owner[ConvRow] = d
       /\ owner[ConvRow] = d => conv' = conv
       /\ \A s \in Sessions :
            /\ owner'[s] = d <=> owner[s] = d
            /\ owner[s] = d => sess'[s] = sess[s]
(* Then only c is left to look at.                                         *)
LEMMA PinOthers ==
  ASSUME PinInv, NEW c \in Connections, Writes(c), PinAt(c)'
  PROVE  PinInv'
<1>1. Agrees(convC.pin, sessC)' BY DEF PinInv, Writes, Agrees
<1>2. SUFFICES ASSUME NEW d \in Connections \ {c}
               PROVE  PinAt(d)'
  BY <1>1 DEF PinInv
<1>3. \A s \in Sessions : MySess(d, s)' = MySess(d, s) BY DEF Writes, MySess
<1>4. View(d)' = View(d) /\ MyOpen(d)' = MyOpen(d) BY <1>3 DEF View, MyOpen
<1>5. pc'[d] = pc[d] /\ req'[d] = req[d] BY DEF Writes, Others
<1>6. PinAt(d) BY DEF PinInv
<1>7. owner'[ConvRow] = d => Agrees(conv.pin, View(d))'
  BY <1>4, <1>6 DEF Writes, PinAt, Agrees
<1>8. owner'[ConvRow] # d /\ pc'[d] # "unpin" =>
        \A s \in Sessions : owner'[s] = d => Continues(sessC'[s], sess'[s])
  BY <1>5, <1>6 DEF Writes, PinAt
<1>9. pc'[d] = "unpin" =>
        /\ req'[d].sid \in Sessions /\ owner'[req'[d].sid] = d
        /\ Open(sessC'[req'[d].sid]) /\ ~Open(sess'[req'[d].sid])
  BY <1>5, <1>6 DEF Writes, PinAt
<1>10. pc'[d] = "exit" /\ req'[d].sid = NoSession => MyOpen(d)' = {}
  BY <1>4, <1>5, <1>6 DEF PinAt
<1>. QED BY <1>7, <1>8, <1>9, <1>10 DEF PinAt
(* Steps that touch no row.                                                *)
LEMMA PinStill ==
  ASSUME PinInv, NEW c \in Connections, Others(c), UNCHANGED rowVars,
         pc[c] # "unpin" /\ pc'[c] # "unpin",
         pc'[c] = "exit" => req'[c].sid # NoSession \/ MyOpen(c) = {}
  PROVE  PinInv'
<1>1. PinAt(c) /\ UNCHANGED <<conv, convC, sess, sessC, owner>> BY DEF PinInv, rowVars
<1>2. View(c)' = View(c) /\ MyOpen(c)' = MyOpen(c) BY <1>1 DEF View, MyOpen, MySess
<1>3. PinAt(c)' BY <1>1, <1>2 DEF PinAt, Agrees
<1>4. Writes(c) BY <1>1 DEF Writes
<1>. QED BY <1>3, <1>4, PinOthers
(* UPDATE of the conversation row: the new pin agrees with what c sees.     *)
LEMMA PinWritesConv ==
  ASSUME TypeOK, PinInv, NEW c \in Connections, NEW row, Others(c), WriteConv(c, row),
         Agrees(row.pin, View(c)), pc'[c] \notin {"unpin", "exit"}
  PROVE  PinInv'
<1>1. /\ conv' = row /\ UNCHANGED <<convC, sess, sessC>> /\ owner'[ConvRow] = c
      /\ \A s \in Sessions : owner'[s] = owner[s]
      /\ owner[ConvRow] \in {c, NoConn}
  BY ConstantsAssumption DEF WriteConv, MayWrite, TypeOK, RowsTypeOK, Rows
<1>2. View(c)' = View(c) BY <1>1 DEF View, MySess
<1>3. PinAt(c)' BY <1>1, <1>2 DEF PinAt, Agrees
<1>4. Writes(c) BY <1>1, ConstantsAssumption DEF Writes
<1>. QED BY <1>3, <1>4, PinOthers
(* UPDATE or INSERT of a session row together with the conversation row.    *)
LEMMA PinWritesBoth ==
  ASSUME TypeOK, PinInv, NEW c \in Connections, NEW crow, NEW s \in Sessions, NEW row,
         Others(c), WriteBoth(c, crow, s, row),
         Agrees(crow.pin, [View(c) EXCEPT ![s] = row]), pc'[c] \notin {"unpin", "exit"}
  PROVE  PinInv'
<1>1. /\ conv' = crow /\ sess' = [sess EXCEPT ![s] = row] /\ UNCHANGED <<convC, sessC>>
      /\ owner'[ConvRow] = c /\ owner'[s] = c
      /\ \A t \in Sessions \ {s} : owner'[t] = owner[t]
      /\ owner[ConvRow] \in {c, NoConn} /\ owner[s] \in {c, NoConn}
  BY ConstantsAssumption DEF WriteBoth, MayWrite, TypeOK, RowsTypeOK, Rows
<1>2. View(c)' = [View(c) EXCEPT ![s] = row]
  BY <1>1 DEF View, MySess, TypeOK, RowsTypeOK
<1>3. PinAt(c)' BY <1>1, <1>2 DEF PinAt, Agrees
<1>4. \A t \in Sessions \ {s} : sess'[t] = sess[t] BY <1>1 DEF TypeOK, RowsTypeOK
<1>5. Writes(c) BY <1>1, <1>4, ConstantsAssumption DEF Writes
<1>. QED BY <1>3, <1>5, PinOthers
(* UPDATE of a session that c sees open.                                   *)
LEMMA PinWritesSess ==
  ASSUME TypeOK, RowsInv, PinInv, NEW c \in Connections, NEW s \in Sessions, NEW row \in SessionRow,
         Others(c), WriteSess(c, s, row), pc[c] # "unpin", pc'[c] # "exit",
         Open(MySess(c, s)), row.agent = MySess(c, s).agent,
         \/ pc'[c] # "unpin" /\ (Open(row) \/ row.st = "failed")
         \/ owner[ConvRow] # c /\ pc'[c] = "unpin" /\ req'[c].sid = s /\ ~Open(row)
  PROVE  PinInv'
<1>1. /\ sess' = [sess EXCEPT ![s] = row] /\ UNCHANGED <<conv, convC, sessC>>
      /\ owner'[ConvRow] = owner[ConvRow] /\ owner'[s] = c
      /\ \A t \in Sessions \ {s} : owner'[t] = owner[t]
      /\ owner[s] \in {c, NoConn}
  BY ConstantsAssumption DEF WriteSess, MayWrite, TypeOK, RowsTypeOK, Rows
<1>2. sess'[s] = row /\ \A t \in Sessions \ {s} : sess'[t] = sess[t]
  BY <1>1 DEF TypeOK, RowsTypeOK
<1>3. Writes(c) BY <1>1, <1>2, ConstantsAssumption DEF Writes
<1>4. CASE owner[ConvRow] = c
  <2>1. \A t \in Sessions : View(c)'[t] = View(c)[t] \/ Continues(View(c)[t], View(c)'[t])
    BY <1>1, <1>2, <1>4 DEF View, MySess, Continues
  <2>2. Agrees(conv.pin, View(c)) BY <1>4 DEF PinInv, PinAt
  <2>3. Agrees(conv.pin, View(c)') BY <2>1, <2>2, AgreesContinued
  <2>. QED BY <2>3, <1>1, <1>3, <1>4, PinOthers DEF PinAt, Agrees
<1>5. CASE owner[ConvRow] # c
  <2>1. Open(sessC[s]) /\ row.agent = sessC[s].agent
    BY <1>1, <1>5, <1>2 DEF PinInv, PinAt, MySess, Continues
  <2>2. \A t \in Sessions \ {s} : owner[t] = c => Continues(sessC[t], sess[t])
    BY <1>5 DEF PinInv, PinAt
  <2>3. pc'[c] # "unpin" => \A t \in Sessions : owner'[t] = c => Continues(sessC'[t], sess'[t])
    BY <2>1, <2>2, <1>1, <1>2 DEF Continues
  <2>4. PinAt(c)' BY <2>1, <2>3, <1>1, <1>2, <1>5 DEF PinAt
  <2>. QED BY <2>4, <1>3, PinOthers
<1>. QED BY <1>4, <1>5
(* A rollback takes back what c wrote, and nobody else notices.            *)
LEMMA PinRollback ==
  ASSUME TypeOK, PinInv, NEW c \in Connections, Others(c), RollbackTx(c),
         pc'[c] \notin {"unpin", "exit"}
  PROVE  PinInv'
<1>1. /\ conv' = (IF owner[ConvRow] = c THEN convC ELSE conv) /\ UNCHANGED <<convC, sessC>>
      /\ \A s \in Sessions : sess'[s] = IF owner[s] = c THEN sessC[s] ELSE sess[s]
      /\ \A r \in Rows : owner'[r] = IF owner[r] = c THEN NoConn ELSE owner[r]
  BY DEF RollbackTx, Released
<1>2. Writes(c) BY <1>1, ConstantsAssumption DEF Writes, Rows
<1>3. PinAt(c)' BY <1>1, ConstantsAssumption DEF PinAt, Rows
<1>. QED BY <1>2, <1>3, PinOthers
(* A COMMIT publishes a pin and rows that agree; whoever holds the          *)
(* conversation row then still sees a pin that agrees.                     *)
LEMMA PinCommit ==
  ASSUME TypeOK, LogInv, PinInv, NEW c \in Connections, Others(c), CommitTx(c),
         pc[c] # "unpin", pc'[c] \notin {"unpin", "exit"}
  PROVE  PinInv'
<1>1. /\ convC' = MyConv(c) /\ sessC' = View(c) /\ UNCHANGED <<conv, sess>>
      /\ \A r \in Rows : owner'[r] = IF owner[r] = c THEN NoConn ELSE owner[r]
  BY DEF CommitTx, Released, View
<1>3. Agrees(convC.pin, sessC)' BY <1>1, SeenAgrees DEF Agrees
<1>4. PinAt(c)' BY <1>1, ConstantsAssumption DEF PinAt, Rows
<1>5. SUFFICES ASSUME NEW d \in Connections \ {c}
               PROVE  PinAt(d)'
  BY <1>3, <1>4 DEF PinInv
<1>6. PinAt(c) /\ PinAt(d) /\ pc'[d] = pc[d] /\ req'[d] = req[d] BY DEF PinInv, Others
<1>7. /\ owner'[ConvRow] = d <=> owner[ConvRow] = d
      /\ \A s \in Sessions : owner'[s] = d <=> owner[s] = d
      /\ \A s \in Sessions : owner[s] = d => sess'[s] = sess[s] /\ sessC'[s] = sessC[s]
  BY <1>1, ConstantsAssumption DEF Rows, View, MySess
<1>8. owner[ConvRow] = d => \A s \in Sessions :
        \/ View(d)'[s] = View(d)[s]
        \/ owner[s] = c /\ View(d)[s] = sessC[s] /\ Continues(View(d)[s], View(d)'[s])
  <2>1. SUFFICES ASSUME owner[ConvRow] = d, NEW s \in Sessions
                 PROVE  \/ View(d)'[s] = View(d)[s]
                        \/ owner[s] = c /\ View(d)[s] = sessC[s]
                           /\ Continues(View(d)[s], View(d)'[s])
    OBVIOUS
  <2>2. CASE owner[s] = c
    <3>1. Continues(sessC[s], sess[s]) BY <2>1, <2>2, <1>6 DEF PinAt
    <3>2. View(d)[s] = sessC[s] /\ View(d)'[s] = sess[s]
      BY <2>2, <1>1, <1>7 DEF View, MySess
    <3>. QED BY <2>2, <3>1, <3>2
  <2>3. CASE owner[s] # c
    <3>1. sessC'[s] = sessC[s] BY <2>3, <1>1 DEF View, MySess
    <3>. QED BY <3>1, <1>1, <1>7 DEF View, MySess
  <2>. QED BY <2>2, <2>3
<1>9. owner'[ConvRow] = d => Agrees(conv.pin, View(d))'
  <2>1. SUFFICES ASSUME owner[ConvRow] = d
                 PROVE  Agrees(conv.pin, View(d))'
    BY <1>7
  <2>2. Agrees(conv.pin, View(d)) BY <2>1, <1>6 DEF PinAt
  <2>3. Agrees(conv.pin, View(d)') BY <2>1, <2>2, <1>8, AgreesContinued
  <2>. QED BY <2>3, <1>1 DEF Agrees
<1>10. pc'[d] = "exit" /\ req'[d].sid = NoSession => MyOpen(d)' = {}
  <2>1. SUFFICES ASSUME pc[d] = "exit", req[d].sid = NoSession, NEW s \in Sessions
                 PROVE  ~Open(MySess(d, s))'
    BY <1>6 DEF MyOpen
  <2>2. owner[ConvRow] = d BY <2>1 DEF LogInv, LogAt, AskingPoints, HoldsQuestion
  <2>3. MyOpen(d) = {} BY <2>1, <1>6 DEF PinAt
  <2>4. ~Open(View(d)[s]) BY <2>3 DEF MyOpen, View
  <2>5. View(d)'[s] = View(d)[s] BY <2>2, <2>4, <1>8 DEF Continues
  <2>. QED BY <2>4, <2>5 DEF View
<1>. QED BY <1>6, <1>7, <1>9, <1>10 DEF PinAt
(* Steps of handle_turn that touch no row.                                 *)
LEMMA PinTurnStill ==
  ASSUME TypeOK, LockInv, PinInv, NEW c \in Connections,
         \/ TryLock(c) \/ RefuseTurn(c) \/ RouteExplicit(c) \/ RouteUnknown(c)
         \/ RoutePinned(c) \/ RouteUnpinned(c) \/ RouteExit(c) \/ ExitRaced(c)
         \/ LimitPassed(c) \/ LimitExceeded(c) \/ AttachOther(c) \/ AttachNone(c)
         \/ DisplaceRaced(c) \/ HandlerReplies(c) \/ HandlerFails(c) \/ ApplyRejected(c)
         \/ Unlock(c)
  PROVE  PinInv'
<1>. USE DEF TypeOK, RequestsTypeOK, Request, At, Goto, Local, Others, AfterFinalize, AfterError
<1>0. ASSUME Others(c), UNCHANGED rowVars, pc[c] # "unpin" /\ pc'[c] # "unpin",
             pc'[c] = "exit" => req'[c].sid # NoSession \/ MyOpen(c) = {}
      PROVE  PinInv'
  BY <1>0, PinStill
<1>1. CASE TryLock(c) BY <1>1, <1>0 DEF TryLock
<1>2. CASE RefuseTurn(c) BY <1>2, <1>0 DEF RefuseTurn
<1>3. CASE RouteExplicit(c) BY <1>3, <1>0 DEF RouteExplicit
<1>4. CASE RouteUnknown(c) BY <1>4, <1>0 DEF RouteUnknown
<1>5. CASE RoutePinned(c) BY <1>5, <1>0 DEF RoutePinned
<1>6. CASE RouteUnpinned(c)
  <2>1. PICK a, b : req' = [req EXCEPT ![c].agt = a, ![c].badConf = b] BY <1>6 DEF RouteUnpinned
  <2>2. \A d \in Connections \ {c} : req'[d] = req[d] BY <2>1
  <2>. QED BY <1>6, <2>2, <1>0 DEF RouteUnpinned
<1>7. CASE RouteExit(c)
  <2>1. PICK t \in IF MyOpen(c) = {} THEN {NoSession} ELSE MyOpen(c) :
          req' = [req EXCEPT ![c].agt = DefaultAgent, ![c].sid = t]
    BY <1>7 DEF RouteExit
  <2>2. req'[c].sid = t /\ \A d \in Connections \ {c} : req'[d] = req[d] BY <2>1
  <2>3. t # NoSession \/ MyOpen(c) = {} BY ConstantsAssumption DEF MyOpen
  <2>. QED BY <1>7, <2>2, <2>3, <1>0 DEF RouteExit
<1>8. CASE ExitRaced(c) BY <1>8, <1>0 DEF ExitRaced
<1>9. CASE LimitPassed(c) BY <1>9, <1>0 DEF LimitPassed
<1>10. CASE LimitExceeded(c) BY <1>10, <1>0 DEF LimitExceeded
<1>11. CASE AttachOther(c) BY <1>11, <1>0 DEF AttachOther
<1>12. CASE AttachNone(c) BY <1>12, <1>0 DEF AttachNone
<1>13. CASE DisplaceRaced(c) BY <1>13, <1>0 DEF DisplaceRaced
<1>14. CASE HandlerReplies(c) BY <1>14, <1>0 DEF HandlerReplies
<1>15. CASE HandlerFails(c) BY <1>15, <1>0 DEF HandlerFails
<1>16. CASE ApplyRejected(c) BY <1>16, <1>0 DEF ApplyRejected
<1>17. CASE Unlock(c) BY <1>17, <1>0 DEF Unlock
<1>. QED BY <1>1, <1>2, <1>3, <1>4, <1>5, <1>6, <1>7, <1>8, <1>9, <1>10, <1>11, <1>12,
     <1>13, <1>14, <1>15, <1>16, <1>17
(* Steps of the other handlers that touch no row, and requests that arrive. *)
LEMMA PinCallStill ==
  ASSUME TypeOK, LockInv, PinInv, NEW c \in Connections,
         \/ ClaimLost(c) \/ SubmitAccepted(c) \/ ReportRaises(c) \/ ReconcileAnswered(c)
         \/ ReconcileUnanswered(c) \/ ResumeRejected(c) \/ AbandonRaced(c) \/ StartTurn(c)
         \/ StartFinalize(c) \/ StartResume(c) \/ StartAbandon(c) \/ Recycle(c)
  PROVE  PinInv'
<1>. USE DEF TypeOK, RequestsTypeOK, Request, At, Goto, Local, Others, AfterFinalize, AfterError
<1>0. ASSUME Others(c), UNCHANGED rowVars, pc[c] # "unpin" /\ pc'[c] # "unpin",
             pc'[c] = "exit" => req'[c].sid # NoSession \/ MyOpen(c) = {}
      PROVE  PinInv'
  BY <1>0, PinStill
<1>1. CASE ClaimLost(c) BY <1>1, <1>0 DEF ClaimLost
<1>2. CASE SubmitAccepted(c) BY <1>2, <1>0 DEF SubmitAccepted
<1>3. CASE ReportRaises(c) BY <1>3, <1>0 DEF ReportRaises
<1>4. CASE ReconcileAnswered(c) BY <1>4, <1>0 DEF ReconcileAnswered
<1>5. CASE ReconcileUnanswered(c) BY <1>5, <1>0 DEF ReconcileUnanswered
<1>6. CASE ResumeRejected(c) BY <1>6, <1>0 DEF ResumeRejected
<1>7. CASE AbandonRaced(c) BY <1>7, <1>0 DEF AbandonRaced
<1>8. CASE StartTurn(c) BY <1>8, <1>0 DEF StartTurn
<1>9. CASE StartFinalize(c)
  <2>1. PICK r : req' = [req EXCEPT ![c] = r] BY <1>9 DEF StartFinalize
  <2>. QED BY <1>9, <2>1, <1>0 DEF StartFinalize
<1>10. CASE StartResume(c)
  <2>1. PICK r : req' = [req EXCEPT ![c] = r] BY <1>10 DEF StartResume
  <2>. QED BY <1>10, <2>1, <1>0 DEF StartResume
<1>11. CASE StartAbandon(c) BY <1>11, <1>0 DEF StartAbandon
<1>12. CASE Recycle(c) BY <1>12, <1>0 DEF Recycle
<1>. QED BY <1>1, <1>2, <1>3, <1>4, <1>5, <1>6, <1>7, <1>8, <1>9, <1>10, <1>11, <1>12
(* Steps that take a message, or a reply, into the conversation: the pin     *)
(* stays.                                                                  *)
LEMMA PinAppendStep ==
  ASSUME TypeOK, PinInv, NEW c \in Connections,
         RecordUserMessage(c) \/ InsertReply(c) \/ StoreRecovered(c)
  PROVE  PinInv'
<1>. USE DEF At, Goto, Local
<1>1. MyConv(c) \in ConversationRow BY RowTypes DEF TypeOK
<1>2. PICK m : WriteConv(c, [MyConv(c) EXCEPT !.log = Append(@, m)])
  BY DEF RecordUserMessage, InsertReply, StoreRecovered
<1>3. [MyConv(c) EXCEPT !.log = Append(@, m)].pin = MyConv(c).pin BY <1>1 DEF ConversationRow
<1>4. pc[c] # "unpin" /\ pc'[c] \notin {"unpin", "exit"} /\ Others(c)
  BY DEF RecordUserMessage, InsertReply, StoreRecovered, TypeOK, RequestsTypeOK, Others
<1>5. Agrees(MyConv(c).pin, View(c)) BY <1>4, SeenAgrees
<1>. QED BY <1>2, <1>3, <1>4, <1>5, PinWritesConv
(* Steps of handle_turn that pin or unpin, and _finalize's unpin.          *)
LEMMA PinChangeStep ==
  ASSUME TypeOK, InHand, OpenInv, LogInv, PinInv, NEW c \in Connections,
         \/ ExitNoSession(c) \/ ExitAbandon(c) \/ Displace(c)
         \/ AttachExisting(c) \/ AttachNew(c) \/ Unpin(c)
  PROVE  PinInv'
<1>. USE DEF At, Goto, Local
<1>1. /\ MyConv(c) \in ConversationRow
      /\ \A s \in Sessions : View(c)[s] = MySess(c, s) /\ MySess(c, s) \in SessionRow
  BY RowTypes DEF TypeOK, View
<1>2. Unpinned(MyConv(c)).pin = NoAgent BY <1>1 DEF Unpinned, ConversationRow
<1>3. PinAt(c) BY DEF PinInv
<1>4. CASE ExitNoSession(c) \/ Unpin(c)
  <2>1. WriteConv(c, Unpinned(MyConv(c))) /\ Others(c) /\ pc'[c] \notin {"unpin", "exit"}
    BY <1>4 DEF ExitNoSession, Unpin, Others, AfterFinalize, TypeOK, RequestsTypeOK
  <2>2. MyOpen(c) = {} BY <1>3, <1>4, UnpinSeesNone DEF ExitNoSession, Unpin, PinAt
  <2>3. \A s \in Sessions : ~Open(View(c)[s]) BY <2>2, <1>1 DEF MyOpen
  <2>. QED BY <2>1, <2>3, <1>2, AgreesNone, PinWritesConv
<1>5. CASE ExitAbandon(c) \/ Displace(c)
  <2>. DEFINE s == req[c].sid
              row == Abandoned(MySess(c, s))
  <2>1. /\ WriteBoth(c, Unpinned(MyConv(c)), s, row)
        /\ Others(c) /\ pc'[c] \notin {"unpin", "exit"} /\ Open(MySess(c, s))
    BY <1>5 DEF ExitAbandon, Displace, Others, TypeOK, RequestsTypeOK
  <2>2. s \in Sessions
    BY <1>5 DEF ExitAbandon, Displace, InHand, HandOK, TypeOK, RequestsTypeOK, Request
  <2>3. row.st = "abandoned" BY <2>2, <1>1 DEF Abandoned, SessionRow
  <2>4. ~Open(row) BY <2>3 DEF Open, TERMINAL
  <2>. HIDE DEF row
  <2>5. \A t \in Sessions : ~Open([View(c) EXCEPT ![s] = row][t])
    <3>1. \A t \in Sessions \ {s} : ~Open(MySess(c, t))
      <4>1. s \in MyOpen(c) BY <2>1, <2>2 DEF MyOpen
      <4>2. \A t \in MyOpen(c) : t = s BY <4>1, SeesOneOpen
      <4>. QED BY <4>2 DEF MyOpen
    <3>. QED BY <3>1, <2>2, <2>4 DEF View
  <2>6. Agrees(NoAgent, [View(c) EXCEPT ![s] = row]) BY <2>5, AgreesNone
  <2>. QED BY <2>1, <2>2, <2>6, <1>2, PinWritesBoth
<1>6. CASE AttachExisting(c)
  <2>1. PICK s \in MyOpen(c) :
          /\ MySess(c, s).agent = req[c].agt
          /\ req' = [req EXCEPT ![c].sid = s, ![c].seen = MySess(c, s).st]
    BY <1>6 DEF AttachExisting
  <2>2. WriteConv(c, Pinned(c, MyConv(c))) /\ pc[c] = "attach" /\ pc'[c] = "commit1" /\ Others(c)
    <3>1. PICK t, st : req' = [req EXCEPT ![c].sid = t, ![c].seen = st] BY <2>1
    <3>2. \A d \in Connections \ {c} : req'[d] = req[d] BY <3>1 DEF TypeOK, RequestsTypeOK
    <3>. QED BY <1>6, <3>2 DEF AttachExisting, Others, TypeOK, RequestsTypeOK
  <2>3. Agrees(MyConv(c).pin, View(c)) BY <2>2, SeenAgrees
  <2>4. s \in Sessions /\ Open(View(c)[s]) /\ View(c)[s].agent = req[c].agt
    BY <2>1, <1>1 DEF MyOpen
  <2>5. MyConv(c).pin = req[c].agt BY <2>3, <2>4 DEF Agrees
  <2>6. Pinned(c, MyConv(c)).pin = MyConv(c).pin BY <2>5, <1>1 DEF Pinned, ConversationRow
  <2>. QED BY <2>2, <2>3, <2>6, PinWritesConv
<1>7. CASE AttachNew(c)
  <2>1. PICK s \in Sessions :
          /\ WriteBoth(c, Pinned(c, MyConv(c)), s, PendingRow(req[c].agt))
          /\ req' = [req EXCEPT ![c].sid = s, ![c].seen = "pending"]
    BY <1>7 DEF AttachNew
  <2>2. /\ MyOpen(c) = {} /\ req[c].agt \in PinAgents
        /\ pc'[c] = "commit1" /\ Others(c)
    <3>1. PICK t, st : req' = [req EXCEPT ![c].sid = t, ![c].seen = st] BY <2>1
    <3>2. \A d \in Connections \ {c} : req'[d] = req[d] BY <3>1 DEF TypeOK, RequestsTypeOK
    <3>. QED BY <1>7, <3>2 DEF AttachNew, Others, TypeOK, RequestsTypeOK
  <2>3. Pinned(c, MyConv(c)).pin = req[c].agt BY <2>2, <1>1 DEF Pinned, ConversationRow
  <2>4. /\ PendingRow(req[c].agt).agent = req[c].agt
        /\ Open(PendingRow(req[c].agt))
    BY DEF PendingRow, Open, TERMINAL
  <2>5. \A t \in Sessions : ~Open(View(c)[t]) BY <2>2, <1>1 DEF MyOpen
  <2>6. Agrees(req[c].agt, [View(c) EXCEPT ![s] = PendingRow(req[c].agt)])
    BY <2>4, <2>5 DEF Agrees, View
  <2>. QED BY <2>1, <2>2, <2>3, <2>6, PinWritesBoth
<1>. QED BY <1>4, <1>5, <1>6, <1>7
(* UPDATEs of an open session.                                             *)
LEMMA PinSessionStep ==
  ASSUME TypeOK, InHand, RowsInv, LogInv, PinInv, NEW c \in Connections,
         \/ ApplyDelta(c) \/ ResumeApply(c) \/ Claim(c) \/ SubmitFails(c)
         \/ Complete(c) \/ AbandonRow(c) \/ AbandonNewer(c)
  PROVE  PinInv'
<1>. USE DEF At, Goto, Local
<1>1. \A s \in Sessions : MySess(c, s) \in SessionRow BY RowTypes DEF TypeOK
<1>2. \A row \in SessionRow, st \in States :
        /\ [row EXCEPT !.st = st] \in SessionRow
        /\ [row EXCEPT !.st = st].st = st /\ [row EXCEPT !.st = st].agent = row.agent
  BY DEF SessionRow
<1>3. pc[c] \in AwayPoints => owner[ConvRow] # c BY DEF LogInv, LogAt
<1>4. CASE ApplyDelta(c) \/ ResumeApply(c)
  <2>. DEFINE s == req[c].sid
              row == ApplyRow(c)
  <2>1. /\ WriteSess(c, s, row) /\ MayApply(c) /\ pc[c] \in {"apply", "reapply"}
        /\ pc'[c] \in {"claim", "reply", "close"} /\ Others(c)
    BY <1>4 DEF ApplyDelta, ResumeApply, Others, TypeOK, RequestsTypeOK
  <2>2. s \in Sessions /\ Open(MySess(c, s)) BY <2>1, MayApplyOpen DEF InHand, HandOK
  <2>3. row \in SessionRow /\ row.st = "awaiting_user" /\ row.agent = MySess(c, s).agent
    BY <2>2, <1>1 DEF ApplyRow, SessionRow, States
  <2>4. Open(row) BY <2>3 DEF Open, TERMINAL
  <2>. HIDE DEF row
  <2>. QED BY <2>1, <2>2, <2>3, <2>4, PinWritesSess
<1>5. CASE Claim(c) \/ SubmitFails(c)
  <2>. DEFINE s == req[c].sid
              st == IF Claim(c) THEN "finalizing" ELSE "failed"
              row == [MySess(c, s) EXCEPT !.st = st]
  <2>1. /\ WriteSess(c, s, row) /\ pc[c] \in {"claim", "submit"}
        /\ pc'[c] \in {"submit", "unlock", "close", "rollback"} /\ Others(c)
    BY <1>5 DEF Claim, SubmitFails, AfterError, Others, TypeOK, RequestsTypeOK
  <2>2. s \in Sessions BY <2>1 DEF InHand, HandOK
  <2>3. Open(MySess(c, s))
    <3>1. CASE Claim(c) BY <3>1 DEF Claim, Claimable, Open, TERMINAL
    <3>2. CASE SubmitFails(c)
      BY <3>2 DEF SubmitFails, RowsInv, ClaimStands, MySess, Open, TERMINAL
    <3>. QED BY <1>5, <3>1, <3>2
  <2>4. row \in SessionRow /\ row.st = st /\ row.agent = MySess(c, s).agent
    <3>1. st \in States BY DEF States
    <3>2. MySess(c, s) \in SessionRow BY <2>2, <1>1
    <3>. HIDE DEF st
    <3>. QED BY <3>1, <3>2, <1>2
  <2>5. Open(row) \/ row.st = "failed" BY <2>4 DEF Open, TERMINAL
  <2>. HIDE DEF row
  <2>. QED BY <2>1, <2>2, <2>3, <2>4, <2>5, PinWritesSess
<1>6. CASE Complete(c) \/ AbandonRow(c) \/ AbandonNewer(c)
  <2>. DEFINE st == IF Complete(c) THEN "completed" ELSE "abandoned"
  <2>1. PICK s \in Sessions :
          /\ WriteSess(c, s, [MySess(c, s) EXCEPT !.st = st])
          /\ Open(MySess(c, s)) /\ req'[c].sid = s
          /\ \A d \in Connections \ {c} : req'[d] = req[d]
    <3>1. CASE Complete(c)
      <4>1. req[c].sid \in Sessions /\ Open(MySess(c, req[c].sid))
        BY <3>1 DEF Complete, InHand, HandOK, RowsInv, ClaimStands, MySess, Open, TERMINAL
      <4>. QED BY <3>1, <4>1 DEF Complete
    <3>2. CASE AbandonRow(c)
      <4>1. req[c].sid \in Sessions BY <3>2 DEF AbandonRow, InHand, HandOK
      <4>. QED BY <3>2, <4>1 DEF AbandonRow, Abandoned, Complete
    <3>3. CASE AbandonNewer(c)
      <4>1. PICK s \in MyOpen(c) :
              /\ WriteSess(c, s, Abandoned(MySess(c, s)))
              /\ req' = [req EXCEPT ![c].sid = s]
        BY <3>3 DEF AbandonNewer
      <4>2. req'[c].sid = s /\ \A d \in Connections \ {c} : req'[d] = req[d]
        BY <4>1 DEF TypeOK, RequestsTypeOK, Request
      <4>. QED BY <3>3, <4>1, <4>2 DEF AbandonNewer, Abandoned, MyOpen, Complete
    <3>. QED BY <1>6, <3>1, <3>2, <3>3
  <2>2. /\ pc[c] \in {"report", "abandon"} /\ pc'[c] = "unpin" /\ Others(c)
    BY <1>6, <2>1 DEF Complete, AbandonRow, AbandonNewer, Others, TypeOK, RequestsTypeOK
  <2>3. owner[ConvRow] # c BY <2>2, <1>3 DEF AwayPoints
  <2>. DEFINE row == [MySess(c, s) EXCEPT !.st = st]
  <2>4. row \in SessionRow /\ row.st = st /\ row.agent = MySess(c, s).agent
    <3>1. st \in States BY DEF States
    <3>2. MySess(c, s) \in SessionRow BY <1>1
    <3>. HIDE DEF st
    <3>. QED BY <3>1, <3>2, <1>2
  <2>5. ~Open(row) BY <2>4 DEF Open, TERMINAL
  <2>. HIDE DEF row
  <2>6. WriteSess(c, s, row) BY <2>1 DEF row
  <2>. QED BY <2>1, <2>2, <2>3, <2>4, <2>5, <2>6, PinWritesSess
<1>. QED BY <1>4, <1>5, <1>6
(* COMMITs and rollbacks.                                                  *)
LEMMA PinEndStep ==
  ASSUME TypeOK, LogInv, PinInv, NEW c \in Connections,
         \/ CommitBeforeHandler(c) \/ CommitReply(c) \/ Close(c)
         \/ InsertReplyRejected(c) \/ Rollback(c) \/ DeadlockVictim(c)
  PROVE  PinInv'
<1>. USE DEF At, Goto, Local
<1>1. Others(c) /\ pc'[c] \notin {"unpin", "exit"}
  BY DEF CommitBeforeHandler, CommitReply, Close, InsertReplyRejected, Rollback, DeadlockVictim,
     EndRequest, AfterError, Others, TypeOK, RequestsTypeOK
<1>2. CASE CommitBeforeHandler(c) \/ CommitReply(c) \/ Close(c)
  BY <1>1, <1>2, PinCommit DEF CommitBeforeHandler, CommitReply, Close
<1>3. CASE InsertReplyRejected(c) \/ Rollback(c) \/ DeadlockVictim(c)
  BY <1>1, <1>3, PinRollback DEF InsertReplyRejected, Rollback, DeadlockVictim
<1>. QED BY <1>2, <1>3
(* Every step of a request preserves the invariant.                        *)
LEMMA PinStep ==
  ASSUME BaseInv, SafetyInv, LogInv, PinInv, NEW c \in Connections, Step(c) \/ Environment(c)
  PROVE  PinInv'
<1>. USE DEF BaseInv, SafetyInv
<1>1. CASE TurnStep(c)
  BY <1>1, PinTurnStill, PinAppendStep, PinChangeStep, PinSessionStep, PinEndStep DEF TurnStep
<1>2. CASE FinalizeStep(c)
  BY <1>2, PinCallStill, PinChangeStep, PinSessionStep DEF FinalizeStep
<1>3. CASE ResumeStep(c)
  BY <1>3, PinCallStill, PinAppendStep, PinSessionStep DEF ResumeStep
<1>4. CASE AbandonStep(c) BY <1>4, PinCallStill, PinSessionStep DEF AbandonStep
<1>5. CASE EndStep(c) BY <1>5, PinEndStep DEF EndStep
<1>6. CASE Environment(c) BY <1>6, PinCallStill DEF Environment
<1>. QED BY <1>1, <1>2, <1>3, <1>4, <1>5, <1>6 DEF Step
(* What was committed agreed before the crash, and nothing else is left.    *)
LEMMA PinCrash ==
  ASSUME PinInv, Crash
  PROVE  PinInv'
<1>1. /\ \A c \in Connections : pc'[c] = "idle"
      /\ \A r \in Rows : owner'[r] \notin Connections
      /\ UNCHANGED <<convC, sessC>>
  BY ConstantsAssumption DEF Crash
<1>. QED BY <1>1 DEF PinInv, PinAt, Agrees, Rows
(* Stuttering.                                                             *)
LEMMA PinStutter ==
  ASSUME PinInv, UNCHANGED vars
  PROVE  PinInv'
<1>1. UNCHANGED <<conv, convC, sess, sessC, owner, pc, req>> BY DEF vars, rowVars
<1>2. \A c \in Connections : View(c)' = View(c) /\ MyOpen(c)' = MyOpen(c)
  BY <1>1 DEF View, MyOpen, MySess
<1>. QED BY <1>1, <1>2 DEF PinInv, PinAt, Agrees
(* A new conversation has no session and no pin.                           *)
LEMMA PinInit == Init => PinInv
<1>1. ~Open(AbsentRow) BY DEF Open, AbsentRow
<1>. QED BY <1>1, ConstantsAssumption DEF Init, PinInv, PinAt, Agrees, Rows
(* The pin agrees with the sessions in every view.                         *)
THEOREM PinCorrect == Spec => []PinInv
<1>1. BaseInv /\ SafetyInv /\ LogInv /\ PinInv /\ [Next]_vars => PinInv'
  BY PinStep, PinCrash, PinStutter DEF Next, Rest
<1>. QED BY BaseCorrect, SafetyCorrect, LogCorrect, PinInit, <1>1, PTL DEF Spec
(* pin, unpin and the session rows, which no constraint relates: an open    *)
(* session is the pinned agent's, and a pin without an open session is left *)
(* only by a finalisation that failed.                                     *)
THEOREM PinFollowsSession == Spec => []PinAgreesWithSession
<1>1. PinInv => PinAgreesWithSession BY DEF PinInv, Agrees, PinAgreesWithSession
<1>. QED BY PinCorrect, <1>1, PTL
=============================================================================
