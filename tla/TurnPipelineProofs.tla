------------------------- MODULE TurnPipelineProofs -------------------------
(***************************************************************************)
(* The safety of TurnPipeline: what happens to sessions, stories and        *)
(* replies while turns, resumes, finalisations and abandons interleave, for *)
(* any number of connections, agents, sessions and requests.                *)
(*                                                                          *)
(* SafetyInv is inductive on top of BaseInv.  Its core relates the two      *)
(* versions of a row: they agree unless a transaction holds the row lock,   *)
(* a committed end is final for both, a claim stands as long as its owner   *)
(* is at Mitra, and a session row that is open only in its transaction is   *)
(* the only open row this transaction can see.                              *)
(***************************************************************************)
EXTENDS TurnPipelineTypes

(* Without the row lock nobody has written a row.                          *)
RowsAgree ==
  /\ owner[ConvRow] = NoConn => conv = convC
  /\ \A s \in Sessions : owner[s] = NoConn => sess[s] = sessC[s]
(* Nobody is about to overwrite a session that ended, or to change the      *)
(* agent of a session.                                                     *)
EndedRows == \A s \in Sessions :
  /\ sessC[s].st \in TERMINAL => sess[s] = sessC[s]
  /\ sessC[s].st # "absent" => sess[s].st # "absent" /\ sess[s].agent = sessC[s].agent
(* Whoever is submitting a story holds the lock on its claimed session.    *)
ClaimStands == \A c \in Connections :
  pc[c] \in {"submit", "report"} =>
    owner[req[c].sid] = c /\ sess[req[c].sid].st = "finalizing"
RowsInv == RowsAgree /\ EndedRows /\ ClaimStands

(* A session that is open for its own transaction only was inserted by      *)
(* open_for, which saw no other open session.                              *)
NewRowsAlone == \A s \in Sessions : Open(sess[s]) /\ ~Open(sessC[s]) =>
  /\ owner[s] # NoConn /\ pc[owner[s]] = "commit1"
  /\ \A t \in Sessions \ {s} : ~Open(MySess(owner[s], t))
OpenInv == AtMostOneOpenSession /\ NewRowsAlone

(* A session is at the report, or completed, only after Mitra's answer.    *)
StoryInv ==
  /\ \A c \in Connections : pc[c] = "report" => story[req[c].sid] # "none"
  /\ \A s \in Sessions : "completed" \in {sess[s].st, sessC[s].st} => story[s] # "none"

(* From apply to its COMMIT an interview turn holds its session, alive.    *)
ReplyInv == \A c \in Connections :
  /\ req[c].kind = "turn" /\ req[c].agt \in RemoteAgents
  /\ pc[c] \in {"claim", "submit", "report", "unpin", "reply", "commit2"}
  => /\ req[c].sid \in Sessions /\ owner[req[c].sid] = c
     /\ sess[req[c].sid].st \in {"awaiting_user", "finalizing", "completed"}

SafetyInv == RowsInv /\ OpenInv /\ StoryInv /\ ReplyInv

-----------------------------------------------------------------------------
(* The rows.                                                               *)

(* SessionService.apply never touches a session that ended.                *)
LEMMA MayApplyOpen ==
  ASSUME NEW c \in Connections, req[c].seen \in States, MayApply(c)
  PROVE  Open(MySess(c, req[c].sid))
<1>1. req[c].seen \notin TERMINAL BY DEF MayApply, ALLOWED, States, TERMINAL
<1>. QED BY <1>1 DEF MayApply, Open, States

(* The steps of handle_turn keep live and committed rows in agreement      *)
(* (RowsInv).                                                              *)
LEMMA DataTurn ==
  ASSUME TypeOK, InHand, RowsInv, NEW c \in Connections, TurnStep(c)
  PROVE  RowsInv'
<1>1. CASE ApplyDelta(c)
  <2>1. req[c].sid \in Sessions /\ Open(MySess(c, req[c].sid))
    BY <1>1, MayApplyOpen DEF ApplyDelta, At, InHand, HandOK
  <2>. DEFINE row == ApplyRow(c)
  <2>2. row.st = "awaiting_user" /\ row.agent = MySess(c, req[c].sid).agent
    BY <2>1, RowTypes DEF ApplyRow, SessionRow, TypeOK
  <2>. HIDE DEF row
  <2>3. WriteSess(c, req[c].sid, row) BY <1>1 DEF ApplyDelta, row
  <2>4. \A d \in Connections : pc'[d] \in {"submit", "report"} => d # c /\ pc[d] = pc'[d]
    BY <1>1 DEF ApplyDelta, Goto, TypeOK, RequestsTypeOK
  <2>5. RowsAgree' BY <2>3, ConstantsAssumption
    DEF WriteSess, RowsInv, RowsAgree, TypeOK, RowsTypeOK, Rows
  <2>6. EndedRows' BY <2>1, <2>2, <2>3, ConstantsAssumption
    DEF WriteSess, MayWrite, MySess, Open, RowsInv, RowsAgree, EndedRows, TypeOK, RowsTypeOK, Rows
  <2>7. ClaimStands' BY <1>1, <2>1, <2>3, <2>4, ConstantsAssumption
    DEF WriteSess, MayWrite, RowsInv, ClaimStands, InHand, HandOK, TypeOK, RowsTypeOK, Rows, ApplyDelta
  <2>. QED BY <2>5, <2>6, <2>7 DEF RowsInv
<1>. USE DEF RowsInv, RowsAgree, EndedRows, ClaimStands, TypeOK, RowsTypeOK,
     RequestsTypeOK, InHand, HandOK, At, Goto, Local, rowVars, Rows,
     SessionRow, Request, Points, TERMINAL
<1>2. CASE TryLock(c)
    BY <1>2, ConstantsAssumption DEF TryLock
<1>3. CASE RefuseTurn(c)
    BY <1>3, ConstantsAssumption DEF RefuseTurn
<1>4. CASE RecordUserMessage(c)
    BY <1>4, ConstantsAssumption DEF RecordUserMessage, MyConv, WriteConv,
       MayWrite
<1>5. CASE RouteExplicit(c)
    BY <1>5, ConstantsAssumption DEF RouteExplicit
<1>6. CASE RouteUnknown(c)
    BY <1>6, ConstantsAssumption DEF RouteUnknown
<1>7. CASE RoutePinned(c)
    BY <1>7, ConstantsAssumption DEF RoutePinned, MySess, MyOpen, Open
<1>8. CASE RouteUnpinned(c)
    BY <1>8, ConstantsAssumption DEF RouteUnpinned, MySess, MyOpen, Open
<1>9. CASE RouteExit(c)
    BY <1>9, ConstantsAssumption DEF RouteExit, MyOpen, MySess, Open
<1>10. CASE ExitNoSession(c)
    BY <1>10, ConstantsAssumption DEF ExitNoSession, MyConv, WriteConv,
       MayWrite
<1>11. CASE ExitAbandon(c)
    BY <1>11, ConstantsAssumption, SMTT(60) DEF ExitAbandon, MyConv, MySess, WriteBoth,
       Abandoned, Open, MayWrite
<1>12. CASE ExitRaced(c)
    BY <1>12, ConstantsAssumption DEF ExitRaced, MySess, Open
<1>13. CASE LimitPassed(c)
    BY <1>13, ConstantsAssumption DEF LimitPassed
<1>14. CASE LimitExceeded(c)
    BY <1>14, ConstantsAssumption DEF LimitExceeded
<1>15. CASE AttachExisting(c)
    BY <1>15, ConstantsAssumption DEF AttachExisting, MyConv, MySess, MyOpen,
       WriteConv, Open, MayWrite
<1>16. CASE AttachOther(c)
    BY <1>16, ConstantsAssumption DEF AttachOther, MySess, MyOpen, Open
<1>17. CASE AttachNone(c)
    BY <1>17, ConstantsAssumption DEF AttachNone, MyOpen, MySess, Open
<1>18. CASE AttachNew(c)
    BY <1>18, ConstantsAssumption DEF AttachNew, MyConv, MyOpen, WriteBoth,
       PendingRow, AbsentRow, MySess, Open, MayWrite
<1>19. CASE Displace(c)
    BY <1>19, ConstantsAssumption, SMTT(60) DEF Displace, MyConv, MySess, WriteBoth,
       Abandoned, Open, MayWrite
<1>20. CASE DisplaceRaced(c)
    BY <1>20, ConstantsAssumption DEF DisplaceRaced, MySess, Open
<1>21. CASE CommitBeforeHandler(c)
    BY <1>21, ConstantsAssumption DEF CommitBeforeHandler, CommitTx, MyConv,
       MySess, Released
<1>22. CASE HandlerReplies(c)
    BY <1>22, ConstantsAssumption DEF HandlerReplies
<1>23. CASE HandlerFails(c)
    BY <1>23, ConstantsAssumption DEF HandlerFails
<1>24. CASE ApplyRejected(c)
    BY <1>24, ConstantsAssumption DEF ApplyRejected, MySess
<1>25. CASE InsertReply(c)
    BY <1>25, ConstantsAssumption DEF InsertReply, MyConv, WriteConv, MayWrite
<1>26. CASE InsertReplyRejected(c)
    BY <1>26, ConstantsAssumption DEF InsertReplyRejected, MayWrite,
       RollbackTx, Released
<1>27. CASE CommitReply(c)
    BY <1>27, ConstantsAssumption DEF CommitReply, CommitTx, MyConv, MySess,
       Released
<1>28. CASE Unlock(c)
    BY <1>28, ConstantsAssumption DEF Unlock
<1>. QED BY <1>1, <1>2, <1>3, <1>4, <1>5, <1>6, <1>7, <1>8, <1>9, <1>10, <1>11,
     <1>12, <1>13, <1>14, <1>15, <1>16, <1>17, <1>18, <1>19, <1>20, <1>21,
     <1>22, <1>23, <1>24, <1>25, <1>26, <1>27, <1>28 DEF TurnStep

(* The steps of _finalize keep live and committed rows in agreement        *)
(* (RowsInv).                                                              *)
LEMMA DataFinalize ==
  ASSUME TypeOK, InHand, RowsInv, NEW c \in Connections, FinalizeStep(c)
  PROVE  RowsInv'
<1>. USE DEF RowsInv, RowsAgree, EndedRows, ClaimStands, TypeOK, RowsTypeOK,
     RequestsTypeOK, InHand, HandOK, At, Goto, Local, rowVars, Rows,
     SessionRow, Request, Points, TERMINAL
<1>1. CASE Claim(c)
    BY <1>1, ConstantsAssumption DEF Claim, MySess, WriteSess, Claimable,
       MayWrite
<1>2. CASE ClaimLost(c)
    BY <1>2, ConstantsAssumption DEF ClaimLost, MySess, AfterFinalize,
       Claimable
<1>3. CASE SubmitAccepted(c)
    BY <1>3, ConstantsAssumption DEF SubmitAccepted
<1>4. CASE SubmitFails(c)
    BY <1>4, ConstantsAssumption DEF SubmitFails, MySess, WriteSess,
       AfterError, MayWrite
<1>5. CASE Complete(c)
    BY <1>5, ConstantsAssumption DEF Complete, MySess, WriteSess, MayWrite
<1>6. CASE ReportRaises(c)
    BY <1>6, ConstantsAssumption DEF ReportRaises, AfterError
<1>7. CASE Unpin(c)
    BY <1>7, ConstantsAssumption DEF Unpin, MyConv, WriteConv, AfterFinalize,
       MayWrite
<1>. QED BY <1>1, <1>2, <1>3, <1>4, <1>5, <1>6, <1>7 DEF FinalizeStep

(* The steps of resume_turn keep live and committed rows in agreement      *)
(* (RowsInv).                                                              *)
LEMMA DataResume ==
  ASSUME TypeOK, InHand, RowsInv, NEW c \in Connections, ResumeStep(c)
  PROVE  RowsInv'
<1>1. CASE ResumeApply(c)
  <2>1. req[c].sid \in Sessions /\ Open(MySess(c, req[c].sid))
    BY <1>1, MayApplyOpen DEF ResumeApply, At, InHand, HandOK
  <2>. DEFINE row == ApplyRow(c)
  <2>2. row.st = "awaiting_user" /\ row.agent = MySess(c, req[c].sid).agent
    BY <2>1, RowTypes DEF ApplyRow, SessionRow, TypeOK
  <2>. HIDE DEF row
  <2>3. WriteSess(c, req[c].sid, row) BY <1>1 DEF ResumeApply, row
  <2>4. \A d \in Connections : pc'[d] \in {"submit", "report"} => d # c /\ pc[d] = pc'[d]
    BY <1>1 DEF ResumeApply, Goto, TypeOK, RequestsTypeOK
  <2>5. RowsAgree' BY <2>3, ConstantsAssumption
    DEF WriteSess, RowsInv, RowsAgree, TypeOK, RowsTypeOK, Rows
  <2>6. EndedRows' BY <2>1, <2>2, <2>3, ConstantsAssumption
    DEF WriteSess, MayWrite, MySess, Open, RowsInv, RowsAgree, EndedRows, TypeOK, RowsTypeOK, Rows
  <2>7. ClaimStands' BY <1>1, <2>1, <2>3, <2>4, ConstantsAssumption
    DEF WriteSess, MayWrite, RowsInv, ClaimStands, InHand, HandOK, TypeOK, RowsTypeOK, Rows, ResumeApply
  <2>. QED BY <2>5, <2>6, <2>7 DEF RowsInv
<1>. USE DEF RowsInv, RowsAgree, EndedRows, ClaimStands, TypeOK, RowsTypeOK,
     RequestsTypeOK, InHand, HandOK, At, Goto, Local, rowVars, Rows,
     SessionRow, Request, Points, TERMINAL
<1>2. CASE ReconcileAnswered(c)
    BY <1>2, ConstantsAssumption DEF ReconcileAnswered
<1>3. CASE ReconcileUnanswered(c)
    BY <1>3, ConstantsAssumption DEF ReconcileUnanswered
<1>4. CASE StoreRecovered(c)
    BY <1>4, ConstantsAssumption DEF StoreRecovered, MyConv, WriteConv,
       MayWrite
<1>5. CASE ResumeRejected(c)
    BY <1>5, ConstantsAssumption DEF ResumeRejected, MySess
<1>. QED BY <1>1, <1>2, <1>3, <1>4, <1>5 DEF ResumeStep

(* The steps of the abandon requests keep live and committed rows in       *)
(* agreement (RowsInv).                                                    *)
LEMMA DataAbandon ==
  ASSUME TypeOK, InHand, RowsInv, NEW c \in Connections, AbandonStep(c)
  PROVE  RowsInv'
<1>. USE DEF RowsInv, RowsAgree, EndedRows, ClaimStands, TypeOK, RowsTypeOK,
     RequestsTypeOK, InHand, HandOK, At, Goto, Local, rowVars, Rows,
     SessionRow, Request, Points, TERMINAL
<1>1. CASE AbandonRow(c)
    BY <1>1, ConstantsAssumption DEF AbandonRow, MySess, WriteSess, Abandoned,
       Open, MayWrite
<1>2. CASE AbandonNewer(c)
    BY <1>2, ConstantsAssumption DEF AbandonNewer, MySess, MyOpen, WriteSess,
       Abandoned, Open, MayWrite
<1>3. CASE AbandonRaced(c)
    BY <1>3, ConstantsAssumption DEF AbandonRaced, MySess, Open
<1>. QED BY <1>1, <1>2, <1>3 DEF AbandonStep

(* get_db's commit and rollback, and a deadlock victim, keep live and      *)
(* committed rows in agreement (RowsInv).                                  *)
LEMMA DataEnd ==
  ASSUME TypeOK, InHand, RowsInv, NEW c \in Connections, EndStep(c)
  PROVE  RowsInv'
<1>. USE DEF RowsInv, RowsAgree, EndedRows, ClaimStands, TypeOK, RowsTypeOK,
     RequestsTypeOK, InHand, HandOK, At, Goto, Local, rowVars, Rows,
     SessionRow, Request, Points, TERMINAL
<1>1. CASE Close(c)
    BY <1>1, ConstantsAssumption DEF Close, CommitTx, EndRequest, MyConv,
       MySess, Released, IdleRequest
<1>2. CASE Rollback(c)
    BY <1>2, ConstantsAssumption DEF Rollback, RollbackTx, EndRequest,
       Released, IdleRequest
<1>3. CASE DeadlockVictim(c)
    BY <1>3, ConstantsAssumption DEF DeadlockVictim, RollbackTx, AfterError,
       Released, MySess, Open, Claimable
<1>. QED BY <1>1, <1>2, <1>3 DEF EndStep

(* Arriving requests and a recycled connection keep live and committed rows*)
(* in agreement (RowsInv).                                                 *)
LEMMA DataEnvironment ==
  ASSUME TypeOK, InHand, RowsInv, NEW c \in Connections, Environment(c)
  PROVE  RowsInv'
<1>. USE DEF RowsInv, RowsAgree, EndedRows, ClaimStands, TypeOK, RowsTypeOK,
     RequestsTypeOK, InHand, HandOK, At, Goto, Local, rowVars, Rows,
     SessionRow, Request, Points, TERMINAL
<1>1. CASE StartTurn(c)
    BY <1>1, ConstantsAssumption DEF StartTurn, IdleRequest
<1>2. CASE StartFinalize(c)
    BY <1>2, ConstantsAssumption DEF StartFinalize, IdleRequest
<1>3. CASE StartResume(c)
    BY <1>3, ConstantsAssumption DEF StartResume, IdleRequest
<1>4. CASE StartAbandon(c)
    BY <1>4, ConstantsAssumption DEF StartAbandon, MyOpen, IdleRequest,
       MySess, Open
<1>5. CASE Recycle(c)
    BY <1>5, ConstantsAssumption DEF Recycle
<1>. QED BY <1>1, <1>2, <1>3, <1>4, <1>5 DEF Environment

-----------------------------------------------------------------------------
(* One open session.                                                       *)

(* The steps of handle_turn keep the conversation at one open session      *)
(* (OpenInv).                                                              *)
LEMMA OpenTurn ==
  ASSUME TypeOK, InHand, LockInv, RowsInv, OpenInv, NEW c \in Connections,
     TurnStep(c)
  PROVE  OpenInv'
<1>1. CASE AttachNew(c)
  <2>1. PICK s \in Sessions :
          /\ sess[s] = AbsentRow /\ sessC[s] = AbsentRow
          /\ WriteBoth(c, Pinned(c, MyConv(c)), s, PendingRow(req[c].agt))
    BY <1>1 DEF AttachNew
  <2>2. /\ \A t \in Sessions : ~Open(MySess(c, t))
        /\ pc[c] = "attach" /\ pc' = [pc EXCEPT ![c] = "commit1"]
    BY <1>1 DEF AttachNew, MyOpen, At, Goto
  <2>3. \A d \in Connections : pc[d] # "commit1"
    BY <2>2, LocksExclude
       DEF TurnExclusion, InTurn, LockedPoints, LockInv, KindInv, TurnPoints, TypeOK
  <2>4. \A t \in Sessions : ~Open(sess[t])
    BY <2>2, <2>3, ConstantsAssumption
       DEF MySess, OpenInv, NewRowsAlone, RowsInv, RowsAgree, TypeOK, RowsTypeOK, Rows
  <2>5. /\ sess' = [sess EXCEPT ![s] = PendingRow(req[c].agt)]
        /\ owner' = [owner EXCEPT ![ConvRow] = c, ![s] = c]
        /\ sessC' = sessC
    BY <2>1 DEF WriteBoth
  <2>6. Open(PendingRow(req[c].agt)) /\ ~Open(AbsentRow)
    BY DEF Open, PendingRow, AbsentRow, TERMINAL
  <2>7. AtMostOneOpenSession'
    BY <2>4, <2>5 DEF OpenInv, AtMostOneOpenSession, TypeOK, RowsTypeOK
  <2>8. NewRowsAlone'
    BY <2>1, <2>2, <2>4, <2>5, <2>6, ConstantsAssumption
       DEF NewRowsAlone, MySess, TypeOK, RowsTypeOK, RequestsTypeOK, Rows
  <2>. QED BY <2>7, <2>8 DEF OpenInv
<1>2. CASE ApplyDelta(c)
  <2>1. req[c].sid \in Sessions /\ Open(MySess(c, req[c].sid))
    BY <1>2, MayApplyOpen DEF ApplyDelta, At, InHand, HandOK
  <2>2. \A d \in Connections : pc[d] = "commit1" => pc'[d] = "commit1"
    BY <1>2 DEF ApplyDelta, At, Goto, TypeOK, RequestsTypeOK
  <2>3. WriteSess(c, req[c].sid, ApplyRow(c)) BY <1>2 DEF ApplyDelta
  <2>. HIDE DEF ApplyRow
  <2>4. \A s \in Sessions : Open(sess'[s]) => Open(sess[s])
    BY <2>1, <2>3, ConstantsAssumption
       DEF WriteSess, MayWrite, MySess, RowsInv, RowsAgree, TypeOK, RowsTypeOK, Rows
  <2>5. pc[c] # "commit1" BY <1>2 DEF ApplyDelta, At
  <2>. QED
    BY <2>1, <2>2, <2>3, <2>4, <2>5, ConstantsAssumption
       DEF WriteSess, MayWrite, MySess, OpenInv, AtMostOneOpenSession, NewRowsAlone,
          RowsInv, RowsAgree, TypeOK, RowsTypeOK, RequestsTypeOK, Rows
<1>. USE DEF OpenInv, AtMostOneOpenSession, NewRowsAlone, RowsInv, RowsAgree,
     EndedRows, ClaimStands, Open, MySess, TypeOK, RowsTypeOK, RequestsTypeOK,
     InHand, HandOK, At, Goto, Local, rowVars, Rows, SessionRow, Request,
     TERMINAL
<1>3. CASE TryLock(c)
    BY <1>3, ConstantsAssumption DEF TryLock
<1>4. CASE RefuseTurn(c)
    BY <1>4, ConstantsAssumption DEF RefuseTurn
<1>5. CASE RecordUserMessage(c)
    BY <1>5, ConstantsAssumption DEF RecordUserMessage, MyConv, WriteConv,
       MayWrite
<1>6. CASE RouteExplicit(c)
    BY <1>6, ConstantsAssumption DEF RouteExplicit
<1>7. CASE RouteUnknown(c)
    BY <1>7, ConstantsAssumption DEF RouteUnknown
<1>8. CASE RoutePinned(c)
    BY <1>8, ConstantsAssumption DEF RoutePinned, MyOpen
<1>9. CASE RouteUnpinned(c)
    BY <1>9, ConstantsAssumption DEF RouteUnpinned, MyOpen
<1>10. CASE RouteExit(c)
    BY <1>10, ConstantsAssumption DEF RouteExit, MyOpen
<1>11. CASE ExitNoSession(c)
    BY <1>11, ConstantsAssumption DEF ExitNoSession, MyConv, WriteConv,
       MayWrite
<1>12. CASE ExitAbandon(c)
    BY <1>12, ConstantsAssumption DEF ExitAbandon, MyConv, WriteBoth,
       Abandoned, MayWrite
<1>13. CASE ExitRaced(c)
    BY <1>13, ConstantsAssumption DEF ExitRaced
<1>14. CASE LimitPassed(c)
    BY <1>14, ConstantsAssumption DEF LimitPassed
<1>15. CASE LimitExceeded(c)
    BY <1>15, ConstantsAssumption DEF LimitExceeded
<1>16. CASE AttachExisting(c)
    BY <1>16, ConstantsAssumption DEF AttachExisting, MyConv, MyOpen,
       WriteConv, MayWrite
<1>17. CASE AttachOther(c)
    BY <1>17, ConstantsAssumption DEF AttachOther, MyOpen
<1>18. CASE AttachNone(c)
    BY <1>18, ConstantsAssumption DEF AttachNone, MyOpen
<1>19. CASE Displace(c)
    BY <1>19, ConstantsAssumption DEF Displace, MyConv, WriteBoth, Abandoned,
       MayWrite
<1>20. CASE DisplaceRaced(c)
    BY <1>20, ConstantsAssumption DEF DisplaceRaced
<1>21. CASE CommitBeforeHandler(c)
    BY <1>21, ConstantsAssumption DEF CommitBeforeHandler, CommitTx, MyConv,
       Released
<1>22. CASE HandlerReplies(c)
    BY <1>22, ConstantsAssumption DEF HandlerReplies
<1>23. CASE HandlerFails(c)
    BY <1>23, ConstantsAssumption DEF HandlerFails
<1>24. CASE ApplyRejected(c)
    BY <1>24, ConstantsAssumption DEF ApplyRejected
<1>25. CASE InsertReply(c)
    BY <1>25, ConstantsAssumption DEF InsertReply, MyConv, WriteConv, MayWrite
<1>26. CASE InsertReplyRejected(c)
    BY <1>26, ConstantsAssumption DEF InsertReplyRejected, MayWrite,
       RollbackTx, Released
<1>27. CASE CommitReply(c)
    BY <1>27, ConstantsAssumption DEF CommitReply, CommitTx, MyConv, Released
<1>28. CASE Unlock(c)
    BY <1>28, ConstantsAssumption DEF Unlock
<1>. QED BY <1>1, <1>2, <1>3, <1>4, <1>5, <1>6, <1>7, <1>8, <1>9, <1>10, <1>11,
     <1>12, <1>13, <1>14, <1>15, <1>16, <1>17, <1>18, <1>19, <1>20, <1>21,
     <1>22, <1>23, <1>24, <1>25, <1>26, <1>27, <1>28 DEF TurnStep

(* The steps of _finalize keep the conversation at one open session        *)
(* (OpenInv).                                                              *)
LEMMA OpenFinalize ==
  ASSUME TypeOK, InHand, LockInv, RowsInv, OpenInv, NEW c \in Connections,
     FinalizeStep(c)
  PROVE  OpenInv'
<1>. USE DEF OpenInv, AtMostOneOpenSession, NewRowsAlone, RowsInv, RowsAgree,
     EndedRows, ClaimStands, Open, MySess, TypeOK, RowsTypeOK, RequestsTypeOK,
     InHand, HandOK, At, Goto, Local, rowVars, Rows, SessionRow, Request,
     TERMINAL
<1>1. CASE Claim(c)
    BY <1>1, ConstantsAssumption DEF Claim, WriteSess, Claimable, MayWrite
<1>2. CASE ClaimLost(c)
    BY <1>2, ConstantsAssumption DEF ClaimLost, AfterFinalize, Claimable
<1>3. CASE SubmitAccepted(c)
    BY <1>3, ConstantsAssumption DEF SubmitAccepted
<1>4. CASE SubmitFails(c)
    BY <1>4, ConstantsAssumption DEF SubmitFails, WriteSess, AfterError,
       MayWrite
<1>5. CASE Complete(c)
    BY <1>5, ConstantsAssumption DEF Complete, WriteSess, MayWrite
<1>6. CASE ReportRaises(c)
    BY <1>6, ConstantsAssumption DEF ReportRaises, AfterError
<1>7. CASE Unpin(c)
    BY <1>7, ConstantsAssumption DEF Unpin, MyConv, WriteConv, AfterFinalize,
       MayWrite
<1>. QED BY <1>1, <1>2, <1>3, <1>4, <1>5, <1>6, <1>7 DEF FinalizeStep

(* The steps of resume_turn keep the conversation at one open session      *)
(* (OpenInv).                                                              *)
LEMMA OpenResume ==
  ASSUME TypeOK, InHand, LockInv, RowsInv, OpenInv, NEW c \in Connections,
     ResumeStep(c)
  PROVE  OpenInv'
<1>1. CASE ResumeApply(c)
  <2>1. req[c].sid \in Sessions /\ Open(MySess(c, req[c].sid))
    BY <1>1, MayApplyOpen DEF ResumeApply, At, InHand, HandOK
  <2>2. \A d \in Connections : pc[d] = "commit1" => pc'[d] = "commit1"
    BY <1>1 DEF ResumeApply, At, Goto, TypeOK, RequestsTypeOK
  <2>3. WriteSess(c, req[c].sid, ApplyRow(c)) BY <1>1 DEF ResumeApply
  <2>. HIDE DEF ApplyRow
  <2>4. \A s \in Sessions : Open(sess'[s]) => Open(sess[s])
    BY <2>1, <2>3, ConstantsAssumption
       DEF WriteSess, MayWrite, MySess, RowsInv, RowsAgree, TypeOK, RowsTypeOK, Rows
  <2>5. pc[c] # "commit1" BY <1>1 DEF ResumeApply, At
  <2>. QED
    BY <2>1, <2>2, <2>3, <2>4, <2>5, ConstantsAssumption
       DEF WriteSess, MayWrite, MySess, OpenInv, AtMostOneOpenSession, NewRowsAlone,
          RowsInv, RowsAgree, TypeOK, RowsTypeOK, RequestsTypeOK, Rows
<1>. USE DEF OpenInv, AtMostOneOpenSession, NewRowsAlone, RowsInv, RowsAgree,
     EndedRows, ClaimStands, Open, MySess, TypeOK, RowsTypeOK, RequestsTypeOK,
     InHand, HandOK, At, Goto, Local, rowVars, Rows, SessionRow, Request,
     TERMINAL
<1>2. CASE ReconcileAnswered(c)
    BY <1>2, ConstantsAssumption DEF ReconcileAnswered
<1>3. CASE ReconcileUnanswered(c)
    BY <1>3, ConstantsAssumption DEF ReconcileUnanswered
<1>4. CASE StoreRecovered(c)
    BY <1>4, ConstantsAssumption DEF StoreRecovered, MyConv, WriteConv,
       MayWrite
<1>5. CASE ResumeRejected(c)
    BY <1>5, ConstantsAssumption DEF ResumeRejected
<1>. QED BY <1>1, <1>2, <1>3, <1>4, <1>5 DEF ResumeStep

(* The steps of the abandon requests keep the conversation at one open     *)
(* session (OpenInv).                                                      *)
LEMMA OpenAbandon ==
  ASSUME TypeOK, InHand, LockInv, RowsInv, OpenInv, NEW c \in Connections,
     AbandonStep(c)
  PROVE  OpenInv'
<1>. USE DEF OpenInv, AtMostOneOpenSession, NewRowsAlone, RowsInv, RowsAgree,
     EndedRows, ClaimStands, Open, MySess, TypeOK, RowsTypeOK, RequestsTypeOK,
     InHand, HandOK, At, Goto, Local, rowVars, Rows, SessionRow, Request,
     TERMINAL
<1>1. CASE AbandonRow(c)
    BY <1>1, ConstantsAssumption DEF AbandonRow, WriteSess, Abandoned,
       MayWrite
<1>2. CASE AbandonNewer(c)
    BY <1>2, ConstantsAssumption DEF AbandonNewer, MyOpen, WriteSess,
       Abandoned, MayWrite
<1>3. CASE AbandonRaced(c)
    BY <1>3, ConstantsAssumption DEF AbandonRaced
<1>. QED BY <1>1, <1>2, <1>3 DEF AbandonStep

(* get_db's commit and rollback, and a deadlock victim, keep the           *)
(* conversation at one open session (OpenInv).                             *)
LEMMA OpenEnd ==
  ASSUME TypeOK, InHand, LockInv, RowsInv, OpenInv, NEW c \in Connections,
     EndStep(c)
  PROVE  OpenInv'
<1>. USE DEF OpenInv, AtMostOneOpenSession, NewRowsAlone, RowsInv, RowsAgree,
     EndedRows, ClaimStands, Open, MySess, TypeOK, RowsTypeOK, RequestsTypeOK,
     InHand, HandOK, At, Goto, Local, rowVars, Rows, SessionRow, Request,
     TERMINAL
<1>1. CASE Close(c)
    BY <1>1, ConstantsAssumption DEF Close, CommitTx, EndRequest, MyConv,
       Released, IdleRequest
<1>2. CASE Rollback(c)
    BY <1>2, ConstantsAssumption DEF Rollback, RollbackTx, EndRequest,
       Released, IdleRequest
<1>3. CASE DeadlockVictim(c)
    BY <1>3, ConstantsAssumption DEF DeadlockVictim, RollbackTx, AfterError,
       Blocks, Released, Wanted, Claimable
<1>. QED BY <1>1, <1>2, <1>3 DEF EndStep

(* Arriving requests and a recycled connection keep the conversation at one*)
(* open session (OpenInv).                                                 *)
LEMMA OpenEnvironment ==
  ASSUME TypeOK, InHand, LockInv, RowsInv, OpenInv, NEW c \in Connections,
     Environment(c)
  PROVE  OpenInv'
<1>. USE DEF OpenInv, AtMostOneOpenSession, NewRowsAlone, RowsInv, RowsAgree,
     EndedRows, ClaimStands, Open, MySess, TypeOK, RowsTypeOK, RequestsTypeOK,
     InHand, HandOK, At, Goto, Local, rowVars, Rows, SessionRow, Request,
     TERMINAL
<1>1. CASE StartTurn(c)
    BY <1>1, ConstantsAssumption DEF StartTurn, IdleRequest
<1>2. CASE StartFinalize(c)
    BY <1>2, ConstantsAssumption DEF StartFinalize, IdleRequest
<1>3. CASE StartResume(c)
    BY <1>3, ConstantsAssumption DEF StartResume, IdleRequest
<1>4. CASE StartAbandon(c)
    BY <1>4, ConstantsAssumption DEF StartAbandon, MyOpen, IdleRequest
<1>5. CASE Recycle(c)
    BY <1>5, ConstantsAssumption DEF Recycle
<1>. QED BY <1>1, <1>2, <1>3, <1>4, <1>5 DEF Environment

-----------------------------------------------------------------------------
(* Stories and replies.                                                    *)

(* The steps of handle_turn keep a claim with the request that submits and *)
(* a story behind it (StoryInv).                                           *)
LEMMA StoryTurn ==
  ASSUME TypeOK, InHand, RowsInv, StoryInv, NEW c \in Connections, TurnStep(c)
  PROVE  StoryInv'
<1>. USE DEF StoryInv, RowsInv, RowsAgree, ClaimStands, MySess, TypeOK,
     RowsTypeOK, RequestsTypeOK, OutsideTypeOK, InHand, HandOK, At, Goto,
     Local, rowVars, Rows, SessionRow, Request
<1>1. CASE TryLock(c)
    BY <1>1, ConstantsAssumption DEF TryLock
<1>2. CASE RefuseTurn(c)
    BY <1>2, ConstantsAssumption DEF RefuseTurn
<1>3. CASE RecordUserMessage(c)
    BY <1>3, ConstantsAssumption DEF RecordUserMessage, MyConv, WriteConv,
       MayWrite
<1>4. CASE RouteExplicit(c)
    BY <1>4, ConstantsAssumption DEF RouteExplicit
<1>5. CASE RouteUnknown(c)
    BY <1>5, ConstantsAssumption DEF RouteUnknown
<1>6. CASE RoutePinned(c)
    BY <1>6, ConstantsAssumption DEF RoutePinned, MyOpen
<1>7. CASE RouteUnpinned(c)
    BY <1>7, ConstantsAssumption DEF RouteUnpinned, MyOpen
<1>8. CASE RouteExit(c)
    BY <1>8, ConstantsAssumption DEF RouteExit, MyOpen
<1>9. CASE ExitNoSession(c)
    BY <1>9, ConstantsAssumption DEF ExitNoSession, MyConv, WriteConv,
       MayWrite
<1>10. CASE ExitAbandon(c)
    BY <1>10, ConstantsAssumption DEF ExitAbandon, MyConv, WriteBoth,
       Abandoned, MayWrite
<1>11. CASE ExitRaced(c)
    BY <1>11, ConstantsAssumption DEF ExitRaced
<1>12. CASE LimitPassed(c)
    BY <1>12, ConstantsAssumption DEF LimitPassed
<1>13. CASE LimitExceeded(c)
    BY <1>13, ConstantsAssumption DEF LimitExceeded
<1>14. CASE AttachExisting(c)
    BY <1>14, ConstantsAssumption DEF AttachExisting, MyConv, MyOpen,
       WriteConv, MayWrite
<1>15. CASE AttachOther(c)
    BY <1>15, ConstantsAssumption DEF AttachOther, MyOpen
<1>16. CASE AttachNone(c)
    BY <1>16, ConstantsAssumption DEF AttachNone, MyOpen
<1>17. CASE AttachNew(c)
    BY <1>17, ConstantsAssumption DEF AttachNew, MyConv, MyOpen, WriteBoth,
       PendingRow, AbsentRow, MayWrite
<1>18. CASE Displace(c)
    BY <1>18, ConstantsAssumption DEF Displace, MyConv, WriteBoth, Abandoned,
       MayWrite
<1>19. CASE DisplaceRaced(c)
    BY <1>19, ConstantsAssumption DEF DisplaceRaced
<1>20. CASE CommitBeforeHandler(c)
    BY <1>20, ConstantsAssumption DEF CommitBeforeHandler, CommitTx, MyConv,
       Released
<1>21. CASE HandlerReplies(c)
    BY <1>21, ConstantsAssumption DEF HandlerReplies
<1>22. CASE HandlerFails(c)
    BY <1>22, ConstantsAssumption DEF HandlerFails
<1>23. CASE ApplyDelta(c)
    BY <1>23, ConstantsAssumption DEF ApplyDelta, WriteSess, ApplyRow,
       MayWrite
<1>24. CASE ApplyRejected(c)
    BY <1>24, ConstantsAssumption DEF ApplyRejected
<1>25. CASE InsertReply(c)
    BY <1>25, ConstantsAssumption DEF InsertReply, MyConv, WriteConv, MayWrite
<1>26. CASE InsertReplyRejected(c)
    BY <1>26, ConstantsAssumption DEF InsertReplyRejected, MayWrite,
       RollbackTx, Released
<1>27. CASE CommitReply(c)
    BY <1>27, ConstantsAssumption DEF CommitReply, CommitTx, MyConv, Released
<1>28. CASE Unlock(c)
    BY <1>28, ConstantsAssumption DEF Unlock
<1>. QED BY <1>1, <1>2, <1>3, <1>4, <1>5, <1>6, <1>7, <1>8, <1>9, <1>10, <1>11,
     <1>12, <1>13, <1>14, <1>15, <1>16, <1>17, <1>18, <1>19, <1>20, <1>21,
     <1>22, <1>23, <1>24, <1>25, <1>26, <1>27, <1>28 DEF TurnStep

(* The steps of _finalize keep a claim with the request that submits and a *)
(* story behind it (StoryInv).                                             *)
LEMMA StoryFinalize ==
  ASSUME TypeOK, InHand, RowsInv, StoryInv, NEW c \in Connections,
     FinalizeStep(c)
  PROVE  StoryInv'
<1>. USE DEF StoryInv, RowsInv, RowsAgree, ClaimStands, MySess, TypeOK,
     RowsTypeOK, RequestsTypeOK, OutsideTypeOK, InHand, HandOK, At, Goto,
     Local, rowVars, Rows, SessionRow, Request
<1>1. CASE Claim(c)
    BY <1>1, ConstantsAssumption DEF Claim, WriteSess, MayWrite
<1>2. CASE ClaimLost(c)
    BY <1>2, ConstantsAssumption DEF ClaimLost, AfterFinalize
<1>3. CASE SubmitAccepted(c)
    BY <1>3, ConstantsAssumption DEF SubmitAccepted
<1>4. CASE SubmitFails(c)
    BY <1>4, ConstantsAssumption DEF SubmitFails, WriteSess, AfterError,
       MayWrite
<1>5. CASE Complete(c)
    BY <1>5, ConstantsAssumption DEF Complete, WriteSess, MayWrite
<1>6. CASE ReportRaises(c)
    BY <1>6, ConstantsAssumption DEF ReportRaises, AfterError
<1>7. CASE Unpin(c)
    BY <1>7, ConstantsAssumption DEF Unpin, MyConv, WriteConv, AfterFinalize,
       MayWrite
<1>. QED BY <1>1, <1>2, <1>3, <1>4, <1>5, <1>6, <1>7 DEF FinalizeStep

(* The steps of resume_turn keep a claim with the request that submits and *)
(* a story behind it (StoryInv).                                           *)
LEMMA StoryResume ==
  ASSUME TypeOK, InHand, RowsInv, StoryInv, NEW c \in Connections,
     ResumeStep(c)
  PROVE  StoryInv'
<1>. USE DEF StoryInv, RowsInv, RowsAgree, ClaimStands, MySess, TypeOK,
     RowsTypeOK, RequestsTypeOK, OutsideTypeOK, InHand, HandOK, At, Goto,
     Local, rowVars, Rows, SessionRow, Request
<1>1. CASE ReconcileAnswered(c)
    BY <1>1, ConstantsAssumption DEF ReconcileAnswered
<1>2. CASE ReconcileUnanswered(c)
    BY <1>2, ConstantsAssumption DEF ReconcileUnanswered
<1>3. CASE StoreRecovered(c)
    BY <1>3, ConstantsAssumption DEF StoreRecovered, MyConv, WriteConv,
       MayWrite
<1>4. CASE ResumeApply(c)
    BY <1>4, ConstantsAssumption DEF ResumeApply, WriteSess, ApplyRow,
       MayWrite
<1>5. CASE ResumeRejected(c)
    BY <1>5, ConstantsAssumption DEF ResumeRejected
<1>. QED BY <1>1, <1>2, <1>3, <1>4, <1>5 DEF ResumeStep

(* The steps of the abandon requests keep a claim with the request that    *)
(* submits and a story behind it (StoryInv).                               *)
LEMMA StoryAbandon ==
  ASSUME TypeOK, InHand, RowsInv, StoryInv, NEW c \in Connections,
     AbandonStep(c)
  PROVE  StoryInv'
<1>. USE DEF StoryInv, RowsInv, RowsAgree, ClaimStands, MySess, TypeOK,
     RowsTypeOK, RequestsTypeOK, OutsideTypeOK, InHand, HandOK, At, Goto,
     Local, rowVars, Rows, SessionRow, Request
<1>1. CASE AbandonRow(c)
    BY <1>1, ConstantsAssumption DEF AbandonRow, WriteSess, Abandoned,
       MayWrite
<1>2. CASE AbandonNewer(c)
    BY <1>2, ConstantsAssumption DEF AbandonNewer, MyOpen, WriteSess,
       Abandoned, MayWrite
<1>3. CASE AbandonRaced(c)
    BY <1>3, ConstantsAssumption DEF AbandonRaced
<1>. QED BY <1>1, <1>2, <1>3 DEF AbandonStep

(* get_db's commit and rollback, and a deadlock victim, keep a claim with  *)
(* the request that submits and a story behind it (StoryInv).              *)
LEMMA StoryEnd ==
  ASSUME TypeOK, InHand, RowsInv, StoryInv, NEW c \in Connections, EndStep(c)
  PROVE  StoryInv'
<1>. USE DEF StoryInv, RowsInv, RowsAgree, ClaimStands, MySess, TypeOK,
     RowsTypeOK, RequestsTypeOK, OutsideTypeOK, InHand, HandOK, At, Goto,
     Local, rowVars, Rows, SessionRow, Request
<1>1. CASE Close(c)
    BY <1>1, ConstantsAssumption DEF Close, CommitTx, EndRequest, MyConv,
       Released, IdleRequest
<1>2. CASE Rollback(c)
    BY <1>2, ConstantsAssumption DEF Rollback, RollbackTx, EndRequest,
       Released, IdleRequest
<1>3. CASE DeadlockVictim(c)
    BY <1>3, ConstantsAssumption DEF DeadlockVictim, RollbackTx, AfterError,
       Released
<1>. QED BY <1>1, <1>2, <1>3 DEF EndStep

(* Arriving requests and a recycled connection keep a claim with the       *)
(* request that submits and a story behind it (StoryInv).                  *)
LEMMA StoryEnvironment ==
  ASSUME TypeOK, InHand, RowsInv, StoryInv, NEW c \in Connections,
     Environment(c)
  PROVE  StoryInv'
<1>. USE DEF StoryInv, RowsInv, RowsAgree, ClaimStands, MySess, TypeOK,
     RowsTypeOK, RequestsTypeOK, OutsideTypeOK, InHand, HandOK, At, Goto,
     Local, rowVars, Rows, SessionRow, Request
<1>1. CASE StartTurn(c)
    BY <1>1, ConstantsAssumption DEF StartTurn, IdleRequest
<1>2. CASE StartFinalize(c)
    BY <1>2, ConstantsAssumption DEF StartFinalize, IdleRequest
<1>3. CASE StartResume(c)
    BY <1>3, ConstantsAssumption DEF StartResume, IdleRequest
<1>4. CASE StartAbandon(c)
    BY <1>4, ConstantsAssumption DEF StartAbandon, MyOpen, IdleRequest
<1>5. CASE Recycle(c)
    BY <1>5, ConstantsAssumption DEF Recycle
<1>. QED BY <1>1, <1>2, <1>3, <1>4, <1>5 DEF Environment

(* The steps of handle_turn keep the session of a reply that is about to be*)
(* stored alive (ReplyInv).                                                *)
LEMMA ReplyTurn ==
  ASSUME TypeOK, InHand, RowsInv, LockInv, ReplyInv, NEW c \in Connections,
     TurnStep(c)
  PROVE  ReplyInv'
<1>. USE DEF ReplyInv, RowsInv, RowsAgree, ClaimStands, LockInv, KindInv,
     TurnPoints, LockedPoints, OtherPoints, Open, MySess, TypeOK, RowsTypeOK,
     RequestsTypeOK, InHand, HandOK, At, Goto, Local, rowVars, Rows,
     SessionRow, Request, TERMINAL
<1>1. CASE TryLock(c)
    BY <1>1, ConstantsAssumption DEF TryLock
<1>2. CASE RefuseTurn(c)
    BY <1>2, ConstantsAssumption DEF RefuseTurn
<1>3. CASE RecordUserMessage(c)
    BY <1>3, ConstantsAssumption DEF RecordUserMessage, MyConv, WriteConv,
       MayWrite
<1>4. CASE RouteExplicit(c)
    BY <1>4, ConstantsAssumption DEF RouteExplicit
<1>5. CASE RouteUnknown(c)
    BY <1>5, ConstantsAssumption DEF RouteUnknown
<1>6. CASE RoutePinned(c)
    BY <1>6, ConstantsAssumption DEF RoutePinned, MyOpen
<1>7. CASE RouteUnpinned(c)
    BY <1>7, ConstantsAssumption DEF RouteUnpinned, MyOpen
<1>8. CASE RouteExit(c)
    BY <1>8, ConstantsAssumption DEF RouteExit, MyOpen
<1>9. CASE ExitNoSession(c)
    BY <1>9, ConstantsAssumption DEF ExitNoSession, MyConv, WriteConv,
       MayWrite
<1>10. CASE ExitAbandon(c)
    BY <1>10, ConstantsAssumption DEF ExitAbandon, MyConv, WriteBoth,
       Abandoned, MayWrite
<1>11. CASE ExitRaced(c)
    BY <1>11, ConstantsAssumption DEF ExitRaced
<1>12. CASE LimitPassed(c)
    BY <1>12, ConstantsAssumption DEF LimitPassed
<1>13. CASE LimitExceeded(c)
    BY <1>13, ConstantsAssumption DEF LimitExceeded
<1>14. CASE AttachExisting(c)
    BY <1>14, ConstantsAssumption DEF AttachExisting, MyConv, MyOpen,
       WriteConv, MayWrite
<1>15. CASE AttachOther(c)
    BY <1>15, ConstantsAssumption DEF AttachOther, MyOpen
<1>16. CASE AttachNone(c)
    BY <1>16, ConstantsAssumption DEF AttachNone, MyOpen
<1>17. CASE AttachNew(c)
    BY <1>17, ConstantsAssumption DEF AttachNew, MyConv, MyOpen, WriteBoth,
       PendingRow, AbsentRow, MayWrite
<1>18. CASE Displace(c)
    BY <1>18, ConstantsAssumption DEF Displace, MyConv, WriteBoth, Abandoned,
       MayWrite
<1>19. CASE DisplaceRaced(c)
    BY <1>19, ConstantsAssumption DEF DisplaceRaced
<1>20. CASE CommitBeforeHandler(c)
    BY <1>20, ConstantsAssumption DEF CommitBeforeHandler, CommitTx, MyConv,
       Released
<1>21. CASE HandlerReplies(c)
    BY <1>21, ConstantsAssumption DEF HandlerReplies
<1>22. CASE HandlerFails(c)
    BY <1>22, ConstantsAssumption DEF HandlerFails
<1>23. CASE ApplyDelta(c)
    BY <1>23, ConstantsAssumption DEF ApplyDelta, WriteSess, ApplyRow,
       MayWrite
<1>24. CASE ApplyRejected(c)
    BY <1>24, ConstantsAssumption DEF ApplyRejected
<1>25. CASE InsertReply(c)
    BY <1>25, ConstantsAssumption DEF InsertReply, MyConv, WriteConv, MayWrite
<1>26. CASE InsertReplyRejected(c)
    BY <1>26, ConstantsAssumption DEF InsertReplyRejected, MayWrite,
       RollbackTx, Released
<1>27. CASE CommitReply(c)
    BY <1>27, ConstantsAssumption DEF CommitReply, CommitTx, MyConv, Released
<1>28. CASE Unlock(c)
    BY <1>28, ConstantsAssumption DEF Unlock
<1>. QED BY <1>1, <1>2, <1>3, <1>4, <1>5, <1>6, <1>7, <1>8, <1>9, <1>10, <1>11,
     <1>12, <1>13, <1>14, <1>15, <1>16, <1>17, <1>18, <1>19, <1>20, <1>21,
     <1>22, <1>23, <1>24, <1>25, <1>26, <1>27, <1>28 DEF TurnStep

(* The steps of _finalize keep the session of a reply that is about to be  *)
(* stored alive (ReplyInv).                                                *)
LEMMA ReplyFinalize ==
  ASSUME TypeOK, InHand, RowsInv, LockInv, ReplyInv, NEW c \in Connections,
     FinalizeStep(c)
  PROVE  ReplyInv'
<1>. USE DEF ReplyInv, RowsInv, RowsAgree, ClaimStands, LockInv, KindInv,
     TurnPoints, LockedPoints, OtherPoints, Open, MySess, TypeOK, RowsTypeOK,
     RequestsTypeOK, InHand, HandOK, At, Goto, Local, rowVars, Rows,
     SessionRow, Request, TERMINAL
<1>1. CASE Claim(c)
    BY <1>1, ConstantsAssumption DEF Claim, WriteSess, MayWrite
<1>2. CASE ClaimLost(c)
    BY <1>2, ConstantsAssumption DEF ClaimLost, AfterFinalize
<1>3. CASE SubmitAccepted(c)
    BY <1>3, ConstantsAssumption DEF SubmitAccepted
<1>4. CASE SubmitFails(c)
    BY <1>4, ConstantsAssumption DEF SubmitFails, WriteSess, AfterError,
       MayWrite
<1>5. CASE Complete(c)
    BY <1>5, ConstantsAssumption DEF Complete, WriteSess, MayWrite
<1>6. CASE ReportRaises(c)
    BY <1>6, ConstantsAssumption DEF ReportRaises, AfterError
<1>7. CASE Unpin(c)
    BY <1>7, ConstantsAssumption DEF Unpin, MyConv, WriteConv, AfterFinalize,
       MayWrite
<1>. QED BY <1>1, <1>2, <1>3, <1>4, <1>5, <1>6, <1>7 DEF FinalizeStep

(* The steps of resume_turn keep the session of a reply that is about to be*)
(* stored alive (ReplyInv).                                                *)
LEMMA ReplyResume ==
  ASSUME TypeOK, InHand, RowsInv, LockInv, ReplyInv, NEW c \in Connections,
     ResumeStep(c)
  PROVE  ReplyInv'
<1>. USE DEF ReplyInv, RowsInv, RowsAgree, ClaimStands, LockInv, KindInv,
     TurnPoints, LockedPoints, OtherPoints, Open, MySess, TypeOK, RowsTypeOK,
     RequestsTypeOK, InHand, HandOK, At, Goto, Local, rowVars, Rows,
     SessionRow, Request, TERMINAL
<1>1. CASE ReconcileAnswered(c)
    BY <1>1, ConstantsAssumption DEF ReconcileAnswered
<1>2. CASE ReconcileUnanswered(c)
    BY <1>2, ConstantsAssumption DEF ReconcileUnanswered
<1>3. CASE StoreRecovered(c)
    BY <1>3, ConstantsAssumption DEF StoreRecovered, MyConv, WriteConv,
       MayWrite
<1>4. CASE ResumeApply(c)
    BY <1>4, ConstantsAssumption DEF ResumeApply, WriteSess, ApplyRow,
       MayWrite
<1>5. CASE ResumeRejected(c)
    BY <1>5, ConstantsAssumption DEF ResumeRejected
<1>. QED BY <1>1, <1>2, <1>3, <1>4, <1>5 DEF ResumeStep

(* The steps of the abandon requests keep the session of a reply that is   *)
(* about to be stored alive (ReplyInv).                                    *)
LEMMA ReplyAbandon ==
  ASSUME TypeOK, InHand, RowsInv, LockInv, ReplyInv, NEW c \in Connections,
     AbandonStep(c)
  PROVE  ReplyInv'
<1>. USE DEF ReplyInv, RowsInv, RowsAgree, ClaimStands, LockInv, KindInv,
     TurnPoints, LockedPoints, OtherPoints, Open, MySess, TypeOK, RowsTypeOK,
     RequestsTypeOK, InHand, HandOK, At, Goto, Local, rowVars, Rows,
     SessionRow, Request, TERMINAL
<1>1. CASE AbandonRow(c)
    BY <1>1, ConstantsAssumption DEF AbandonRow, WriteSess, Abandoned,
       MayWrite
<1>2. CASE AbandonNewer(c)
    BY <1>2, ConstantsAssumption DEF AbandonNewer, MyOpen, WriteSess,
       Abandoned, MayWrite
<1>3. CASE AbandonRaced(c)
    BY <1>3, ConstantsAssumption DEF AbandonRaced
<1>. QED BY <1>1, <1>2, <1>3 DEF AbandonStep

(* get_db's commit and rollback, and a deadlock victim, keep the session of*)
(* a reply that is about to be stored alive (ReplyInv).                    *)
LEMMA ReplyEnd ==
  ASSUME TypeOK, InHand, RowsInv, LockInv, ReplyInv, NEW c \in Connections,
     EndStep(c)
  PROVE  ReplyInv'
<1>. USE DEF ReplyInv, RowsInv, RowsAgree, ClaimStands, LockInv, KindInv,
     TurnPoints, LockedPoints, OtherPoints, Open, MySess, TypeOK, RowsTypeOK,
     RequestsTypeOK, InHand, HandOK, At, Goto, Local, rowVars, Rows,
     SessionRow, Request, TERMINAL
<1>1. CASE Close(c)
    BY <1>1, ConstantsAssumption DEF Close, CommitTx, EndRequest, MyConv,
       Released, IdleRequest
<1>2. CASE Rollback(c)
    BY <1>2, ConstantsAssumption DEF Rollback, RollbackTx, EndRequest,
       Released, IdleRequest
<1>3. CASE DeadlockVictim(c)
    BY <1>3, ConstantsAssumption DEF DeadlockVictim, RollbackTx, AfterError,
       Blocks, Released, Wanted
<1>. QED BY <1>1, <1>2, <1>3 DEF EndStep

(* Arriving requests and a recycled connection keep the session of a reply *)
(* that is about to be stored alive (ReplyInv).                            *)
LEMMA ReplyEnvironment ==
  ASSUME TypeOK, InHand, RowsInv, LockInv, ReplyInv, NEW c \in Connections,
     Environment(c)
  PROVE  ReplyInv'
<1>. USE DEF ReplyInv, RowsInv, RowsAgree, ClaimStands, LockInv, KindInv,
     TurnPoints, LockedPoints, OtherPoints, Open, MySess, TypeOK, RowsTypeOK,
     RequestsTypeOK, InHand, HandOK, At, Goto, Local, rowVars, Rows,
     SessionRow, Request, TERMINAL
<1>1. CASE StartTurn(c)
    BY <1>1, ConstantsAssumption DEF StartTurn, IdleRequest
<1>2. CASE StartFinalize(c)
    BY <1>2, ConstantsAssumption DEF StartFinalize, IdleRequest
<1>3. CASE StartResume(c)
    BY <1>3, ConstantsAssumption DEF StartResume, IdleRequest
<1>4. CASE StartAbandon(c)
    BY <1>4, ConstantsAssumption DEF StartAbandon, MyOpen, IdleRequest
<1>5. CASE Recycle(c)
    BY <1>5, ConstantsAssumption DEF Recycle
<1>. QED BY <1>1, <1>2, <1>3, <1>4, <1>5 DEF Environment

-----------------------------------------------------------------------------
(* SafetyInv is an invariant.                                              *)

(* The initial state satisfies SafetyInv.                                  *)
LEMMA SafetyInit == Init => SafetyInv
<1>. SUFFICES ASSUME Init PROVE SafetyInv
  OBVIOUS
<1>1. RowsInv
  BY DEF Init, RowsInv, RowsAgree, EndedRows, ClaimStands, AbsentRow, TERMINAL
<1>2. OpenInv
  BY DEF Init, OpenInv, AtMostOneOpenSession, NewRowsAlone, Open, AbsentRow
<1>3. StoryInv BY DEF Init, StoryInv, AbsentRow
<1>4. ReplyInv BY DEF Init, ReplyInv
<1>. QED BY <1>1, <1>2, <1>3, <1>4 DEF SafetyInv

(* Steps of requests and clients keep SafetyInv.                           *)
LEMMA SafetyStep ==
  ASSUME BaseInv, SafetyInv, NEW c \in Connections, Step(c) \/ Environment(c)
  PROVE  SafetyInv'
<1>1. RowsInv'
  BY DataTurn, DataFinalize, DataResume, DataAbandon, DataEnd, DataEnvironment
     DEF BaseInv, TypeOK, SafetyInv, Step
<1>2. OpenInv'
  BY OpenTurn, OpenFinalize, OpenResume, OpenAbandon, OpenEnd, OpenEnvironment
     DEF BaseInv, TypeOK, SafetyInv, Step
<1>3. StoryInv'
  BY StoryTurn, StoryFinalize, StoryResume, StoryAbandon, StoryEnd,
     StoryEnvironment DEF BaseInv, TypeOK, SafetyInv, Step
<1>4. ReplyInv'
  BY ReplyTurn, ReplyFinalize, ReplyResume, ReplyAbandon, ReplyEnd,
     ReplyEnvironment DEF BaseInv, TypeOK, SafetyInv, Step
<1>. QED BY <1>1, <1>2, <1>3, <1>4 DEF SafetyInv

(* A crash keeps SafetyInv: it only forgets what was not committed.        *)
LEMMA SafetyCrash ==
  ASSUME BaseInv, SafetyInv, Crash
  PROVE  SafetyInv'
<1>1. RowsInv'
  BY DEF Crash, RowsInv, RowsAgree, EndedRows, ClaimStands
<1>2. OpenInv'
  BY DEF Crash, SafetyInv, OpenInv, AtMostOneOpenSession, NewRowsAlone, Open
<1>3. StoryInv' BY DEF Crash, SafetyInv, StoryInv
<1>4. ReplyInv' BY DEF Crash, ReplyInv
<1>. QED BY <1>1, <1>2, <1>3, <1>4 DEF SafetyInv

(* A step that changes nothing keeps SafetyInv.                            *)
LEMMA SafetyStutter ==
  ASSUME SafetyInv, UNCHANGED vars
  PROVE  SafetyInv'
BY DEF vars, rowVars, budget, SafetyInv, RowsInv, RowsAgree, EndedRows, ClaimStands, OpenInv,
       AtMostOneOpenSession, NewRowsAlone, Open, MySess, StoryInv, ReplyInv

(* The rows agree with each other, with the claims of the requests and with*)
(* Mitra's stories, whatever handle_turn, resume_turn, _finalize and       *)
(* abandon do to them concurrently.                                        *)
THEOREM SafetyCorrect == Spec => []SafetyInv
<1>1. BaseInv /\ SafetyInv /\ [Next]_vars => SafetyInv'
  BY SafetyStep, SafetyCrash, SafetyStutter DEF Next, Rest
<1>. QED BY BaseCorrect, SafetyInit, <1>1, PTL DEF Spec

-----------------------------------------------------------------------------
(* What follows.                                                           *)

(* The unique index on open sessions never refuses a row: open_for,         *)
(* abandon, apply and finalisation keep a conversation at one open session, *)
(* although only turns are serialised with each other.                     *)
THEOREM OneOpenSession == Spec => []AtMostOneOpenSession
<1>1. SafetyInv => AtMostOneOpenSession BY DEF SafetyInv, OpenInv
<1>. QED BY SafetyCorrect, <1>1, PTL

(* claim_finalizing admits one request at a time to Mitra's end-story call. *)
THEOREM OneSubmitter == Spec => []SingleSubmitter
<1>1. SafetyInv => SingleSubmitter
  BY DEF SafetyInv, RowsInv, ClaimStands, SingleSubmitter
<1>. QED BY SafetyCorrect, <1>1, PTL

(* A session that is completed has a story at Mitra.                       *)
THEOREM CompletedStories == Spec => []CompletedHasStory
<1>1. SafetyInv => CompletedHasStory BY DEF SafetyInv, StoryInv, CompletedHasStory
<1>. QED BY SafetyCorrect, <1>1, PTL

(* The commits of all requests leave ended sessions as they are.           *)
LEMMA CommitsChangeRows ==
  ASSUME NEW c \in Connections, Step(c) \/ Environment(c)
  PROVE  sessC' = sessC \/ CommitTx(c)
<1>. USE DEF WriteConv, WriteSess, WriteBoth, RollbackTx, rowVars
<1>1. CASE TurnStep(c)
    BY <1>1 DEF TurnStep, TryLock, RefuseTurn, RecordUserMessage,
       RouteExplicit, RouteUnknown, RoutePinned, RouteUnpinned, RouteExit,
       ExitNoSession, ExitAbandon, ExitRaced, LimitPassed, LimitExceeded,
       AttachExisting, AttachOther, AttachNone, AttachNew, Displace,
       DisplaceRaced, CommitBeforeHandler, HandlerReplies, HandlerFails,
       ApplyDelta, ApplyRejected, InsertReply, InsertReplyRejected,
       CommitReply, Unlock
<1>2. CASE FinalizeStep(c)
    BY <1>2 DEF FinalizeStep, Claim, ClaimLost, SubmitAccepted, SubmitFails,
       Complete, ReportRaises, Unpin
<1>3. CASE ResumeStep(c)
    BY <1>3 DEF ResumeStep, ReconcileAnswered, ReconcileUnanswered,
       StoreRecovered, ResumeApply, ResumeRejected
<1>4. CASE AbandonStep(c)
    BY <1>4 DEF AbandonStep, AbandonRow, AbandonNewer, AbandonRaced
<1>5. CASE EndStep(c)
    BY <1>5 DEF EndStep, Close, Rollback, DeadlockVictim
<1>6. CASE Environment(c)
    BY <1>6 DEF Environment, StartTurn, StartFinalize, StartResume,
       StartAbandon, Recycle
<1>. QED BY <1>1, <1>2, <1>3, <1>4, <1>5, <1>6 DEF Step

(* Once apply, claim_finalizing or abandon committed an end state, no      *)
(* request changes the row of that session again.                          *)
THEOREM TerminalStaysFinal == Spec => TerminalIsFinal
<1>. DEFINE Final ==
       \A s \in Sessions :
         /\ sessC[s].st \in TERMINAL => sessC'[s] = sessC[s]
         /\ sessC[s].st # "absent" => sessC'[s].agent = sessC[s].agent
<1>1. BaseInv /\ SafetyInv /\ [Next]_vars => [Final]_vars
  <2>. SUFFICES ASSUME BaseInv, SafetyInv, Next PROVE Final
    BY DEF vars
  <2>1. CASE sessC' = sessC BY <2>1
  <2>2. ASSUME NEW c \in Connections, CommitTx(c) PROVE Final
    BY <2>2 DEF CommitTx, MySess, SafetyInv, RowsInv, EndedRows
  <2>3. CASE Crash \/ Rest BY <2>1, <2>3 DEF Crash, Rest, vars, rowVars
  <2>. QED BY <2>1, <2>2, <2>3, CommitsChangeRows DEF Next
<1>. QED BY BaseCorrect, SafetyCorrect, <1>1, PTL DEF TerminalIsFinal, Spec
(* A turn leaves its second COMMIT, towards the unlock, by CommitReply only. *)
LEMMA LeavesCommit ==
  ASSUME RequestsTypeOK, NEW c \in Connections, NEW d \in Connections,
         Step(d) \/ Environment(d), At(c, "commit2"), pc'[c] = "unlock"
  PROVE  CommitTx(c)
<1>. USE DEF At, Goto, RequestsTypeOK
<1>1. CASE TurnStep(d)
    BY <1>1 DEF TurnStep, TryLock, RefuseTurn, RecordUserMessage,
       RouteExplicit, RouteUnknown, RoutePinned, RouteUnpinned, RouteExit,
       ExitNoSession, ExitAbandon, ExitRaced, LimitPassed, LimitExceeded,
       AttachExisting, AttachOther, AttachNone, AttachNew, Displace,
       DisplaceRaced, CommitBeforeHandler, HandlerReplies, HandlerFails,
       ApplyDelta, ApplyRejected, InsertReply, InsertReplyRejected,
       CommitReply, Unlock
<1>2. CASE FinalizeStep(d)
    BY <1>2 DEF FinalizeStep, Claim, ClaimLost, SubmitAccepted, SubmitFails,
       Complete, ReportRaises, Unpin
<1>3. CASE ResumeStep(d)
    BY <1>3 DEF ResumeStep, ReconcileAnswered, ReconcileUnanswered,
       StoreRecovered, ResumeApply, ResumeRejected
<1>4. CASE AbandonStep(d)
    BY <1>4 DEF AbandonStep, AbandonRow, AbandonNewer, AbandonRaced
<1>5. CASE EndStep(d)
    BY <1>5 DEF EndStep, Close, Rollback, EndRequest, DeadlockVictim, Blocks, Wanted
<1>6. CASE Environment(d)
    BY <1>6 DEF Environment, StartTurn, StartFinalize, StartResume,
       StartAbandon, Recycle
<1>. QED BY <1>1, <1>2, <1>3, <1>4, <1>5, <1>6 DEF Step

(* handle_turn commits an interview's reply together with the progress of  *)
(* a session that has not been abandoned and has not failed.               *)
THEOREM RepliesHaveSession == Spec => ReplyNeedsSession
<1>. DEFINE Replied ==
       \A c \in Connections :
         (At(c, "commit2") /\ pc'[c] = "unlock" /\ req[c].agt \in RemoteAgents) =>
           sessC'[req[c].sid].st \in {"awaiting_user", "finalizing", "completed"}
<1>1. BaseInv /\ SafetyInv /\ [Next]_vars => [Replied]_vars
  <2>. SUFFICES ASSUME BaseInv, SafetyInv, Next,
                       NEW c \in Connections, At(c, "commit2"), pc'[c] = "unlock",
                       req[c].agt \in RemoteAgents
                PROVE  sessC'[req[c].sid].st \in {"awaiting_user", "finalizing", "completed"}
    BY DEF vars
  <2>1. RequestsTypeOK BY DEF BaseInv, TypeOK
  <2>2. req[c].kind = "turn"
    BY <2>1 DEF BaseInv, LockInv, KindInv, TurnPoints, OtherPoints, LockedPoints, At
  <2>3. /\ req[c].sid \in Sessions /\ owner[req[c].sid] = c
        /\ sess[req[c].sid].st \in {"awaiting_user", "finalizing", "completed"}
    BY <2>2 DEF SafetyInv, ReplyInv, At
  <2>4. ~Crash /\ ~Rest
    BY DEF Crash, Rest, vars, At
  <2>5. CommitTx(c) BY <2>1, <2>4, LeavesCommit DEF Next
  <2>. QED BY <2>3, <2>5 DEF CommitTx, MySess
<1>. QED BY BaseCorrect, SafetyCorrect, <1>1, PTL DEF ReplyNeedsSession, Spec
=============================================================================
