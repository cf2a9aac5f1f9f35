-------------------------- MODULE TurnPipelineTypes --------------------------
(***************************************************************************)
(* Type correctness of TurnPipeline and the safety of its turn lock, for    *)
(* any number of connections, agents, sessions and requests.                *)
(*                                                                          *)
(* BaseInv is inductive.  TypeOK alone is not: that an unlock finds the     *)
(* lock held needs LockAccounting, which needs to know which program points *)
(* a turn can be at (KindInv); that an UPDATE is aimed at a row that exists *)
(* needs to know where a request has a session in hand (InHand).            *)
(***************************************************************************)
EXTENDS TurnPipelineProps, TLAPS

(* Program points only a turn reaches, and points it never reaches.        *)
TurnPoints == (LockedPoints \cup {"lock"}) \ {"claim", "submit", "report", "unpin"}
OtherPoints == {"reconcile", "store", "reapply", "abandon", "rollback"}
KindInv == \A c \in Connections :
  /\ pc[c] \in TurnPoints => req[c].kind = "turn"
  /\ pc[c] \in OtherPoints => req[c].kind # "turn"

(* pg_try_advisory_lock lets one connection in.                            *)
LockHeldByOne ==
  \A c, d \in Connections : lockCount[c] > 0 /\ lockCount[d] > 0 => c = d
LockInv == KindInv /\ LockAccounting /\ LockHeldByOne

(* The program points at which a request has a session row in hand, and     *)
(* knows the state it was read in.                                         *)
HandOK(p, r) ==
  /\ p \in {"displace", "apply", "claim", "submit", "report", "reconcile", "store",
            "reapply", "abandon"} => r.sid \in Sessions
  /\ p \in {"apply", "reconcile", "store", "reapply"} => r.seen \in States
  /\ p \in {"commit1", "handle"} /\ r.sid # NoSession => r.seen \in States
InHand == \A c \in Connections : HandOK(pc[c], req[c])

BaseInv == TypeOK /\ LockInv /\ InHand

-----------------------------------------------------------------------------
(* The lock.                                                               *)

(* The steps of handle_turn keep the account of the turn lock (LockInv,    *)
(* KindInv).                                                               *)
LEMMA LockTurn ==
  ASSUME RequestsTypeOK, LocksTypeOK, LockInv, NEW c \in Connections,
     TurnStep(c)
  PROVE  LockInv'
<1>. USE DEF LocksTypeOK, RequestsTypeOK, LockInv, KindInv, LockAccounting,
     LockHeldByOne, InTurn, TurnPoints, OtherPoints, LockedPoints, At, Goto,
     Local, Request, Points
<1>1. CASE TryLock(c)
    BY <1>1 DEF TryLock, LockFree
<1>2. CASE RefuseTurn(c)
    BY <1>2 DEF RefuseTurn, LockFree
<1>3. CASE RecordUserMessage(c)
    BY <1>3 DEF RecordUserMessage
<1>4. CASE RouteExplicit(c)
    BY <1>4 DEF RouteExplicit
<1>5. CASE RouteUnknown(c)
    BY <1>5 DEF RouteUnknown
<1>6. CASE RoutePinned(c)
    BY <1>6 DEF RoutePinned
<1>7. CASE RouteUnpinned(c)
    BY <1>7 DEF RouteUnpinned
<1>8. CASE RouteExit(c)
    BY <1>8 DEF RouteExit
<1>9. CASE ExitNoSession(c)
    BY <1>9 DEF ExitNoSession
<1>10. CASE ExitAbandon(c)
    BY <1>10 DEF ExitAbandon
<1>11. CASE ExitRaced(c)
    BY <1>11 DEF ExitRaced
<1>12. CASE LimitPassed(c)
    BY <1>12 DEF LimitPassed
<1>13. CASE LimitExceeded(c)
    BY <1>13 DEF LimitExceeded
<1>14. CASE AttachExisting(c)
    BY <1>14 DEF AttachExisting
<1>15. CASE AttachOther(c)
    BY <1>15 DEF AttachOther
<1>16. CASE AttachNone(c)
    BY <1>16 DEF AttachNone
<1>17. CASE AttachNew(c)
    BY <1>17 DEF AttachNew
<1>18. CASE Displace(c)
    BY <1>18 DEF Displace
<1>19. CASE DisplaceRaced(c)
    BY <1>19 DEF DisplaceRaced
<1>20. CASE CommitBeforeHandler(c)
    BY <1>20 DEF CommitBeforeHandler
<1>21. CASE HandlerReplies(c)
    BY <1>21 DEF HandlerReplies
<1>22. CASE HandlerFails(c)
    BY <1>22 DEF HandlerFails
<1>23. CASE ApplyDelta(c)
    BY <1>23 DEF ApplyDelta
<1>24. CASE ApplyRejected(c)
    BY <1>24 DEF ApplyRejected
<1>25. CASE InsertReply(c)
    BY <1>25 DEF InsertReply
<1>26. CASE InsertReplyRejected(c)
    BY <1>26 DEF InsertReplyRejected
<1>27. CASE CommitReply(c)
    BY <1>27 DEF CommitReply
<1>28. CASE Unlock(c)
    BY <1>28 DEF Unlock
<1>. QED BY <1>1, <1>2, <1>3, <1>4, <1>5, <1>6, <1>7, <1>8, <1>9, <1>10, <1>11,
     <1>12, <1>13, <1>14, <1>15, <1>16, <1>17, <1>18, <1>19, <1>20, <1>21,
     <1>22, <1>23, <1>24, <1>25, <1>26, <1>27, <1>28 DEF TurnStep

(* The steps of _finalize keep the account of the turn lock (LockInv,      *)
(* KindInv).                                                               *)
LEMMA LockFinalize ==
  ASSUME RequestsTypeOK, LocksTypeOK, LockInv, NEW c \in Connections,
     FinalizeStep(c)
  PROVE  LockInv'
<1>. USE DEF LocksTypeOK, RequestsTypeOK, LockInv, KindInv, LockAccounting,
     LockHeldByOne, InTurn, TurnPoints, OtherPoints, LockedPoints, At, Goto,
     Local, Request, Points
<1>1. CASE Claim(c)
    BY <1>1 DEF Claim
<1>2. CASE ClaimLost(c)
    BY <1>2 DEF ClaimLost, AfterFinalize
<1>3. CASE SubmitAccepted(c)
    BY <1>3 DEF SubmitAccepted
<1>4. CASE SubmitFails(c)
    BY <1>4 DEF SubmitFails, AfterError
<1>5. CASE Complete(c)
    BY <1>5 DEF Complete
<1>6. CASE ReportRaises(c)
    BY <1>6 DEF ReportRaises, AfterError
<1>7. CASE Unpin(c)
    BY <1>7 DEF Unpin, AfterFinalize
<1>. QED BY <1>1, <1>2, <1>3, <1>4, <1>5, <1>6, <1>7 DEF FinalizeStep

(* The steps of resume_turn keep the account of the turn lock (LockInv,    *)
(* KindInv).                                                               *)
LEMMA LockResume ==
  ASSUME RequestsTypeOK, LocksTypeOK, LockInv, NEW c \in Connections,
     ResumeStep(c)
  PROVE  LockInv'
<1>. USE DEF LocksTypeOK, RequestsTypeOK, LockInv, KindInv, LockAccounting,
     LockHeldByOne, InTurn, TurnPoints, OtherPoints, LockedPoints, At, Goto,
     Local, Request, Points
<1>1. CASE ReconcileAnswered(c)
    BY <1>1 DEF ReconcileAnswered
<1>2. CASE ReconcileUnanswered(c)
    BY <1>2 DEF ReconcileUnanswered
<1>3. CASE StoreRecovered(c)
    BY <1>3 DEF StoreRecovered
<1>4. CASE ResumeApply(c)
    BY <1>4 DEF ResumeApply
<1>5. CASE ResumeRejected(c)
    BY <1>5 DEF ResumeRejected
<1>. QED BY <1>1, <1>2, <1>3, <1>4, <1>5 DEF ResumeStep

(* The steps of the abandon requests keep the account of the turn lock     *)
(* (LockInv, KindInv).                                                     *)
LEMMA LockAbandon ==
  ASSUME RequestsTypeOK, LocksTypeOK, LockInv, NEW c \in Connections,
     AbandonStep(c)
  PROVE  LockInv'
<1>. USE DEF LocksTypeOK, RequestsTypeOK, LockInv, KindInv, LockAccounting,
     LockHeldByOne, InTurn, TurnPoints, OtherPoints, LockedPoints, At, Goto,
     Local, Request, Points
<1>1. CASE AbandonRow(c)
    BY <1>1 DEF AbandonRow
<1>2. CASE AbandonNewer(c)
    BY <1>2 DEF AbandonNewer
<1>3. CASE AbandonRaced(c)
    BY <1>3 DEF AbandonRaced
<1>. QED BY <1>1, <1>2, <1>3 DEF AbandonStep

(* get_db's commit and rollback, and a deadlock victim, keep the account of*)
(* the turn lock (LockInv, KindInv).                                       *)
LEMMA LockEnd ==
  ASSUME RequestsTypeOK, LocksTypeOK, LockInv, NEW c \in Connections,
     EndStep(c)
  PROVE  LockInv'
<1>. USE DEF LocksTypeOK, RequestsTypeOK, LockInv, KindInv, LockAccounting,
     LockHeldByOne, InTurn, TurnPoints, OtherPoints, LockedPoints, At, Goto,
     Local, Request, Points
<1>1. CASE Close(c)
    BY <1>1 DEF Close, EndRequest, IdleRequest
<1>2. CASE Rollback(c)
    BY <1>2 DEF Rollback, EndRequest, IdleRequest
<1>3. CASE DeadlockVictim(c)
    BY <1>3 DEF DeadlockVictim, AfterError, Blocks, Wanted
<1>. QED BY <1>1, <1>2, <1>3 DEF EndStep

(* Arriving requests and a recycled connection keep the account of the turn*)
(* lock (LockInv, KindInv).                                                *)
LEMMA LockEnvironment ==
  ASSUME RequestsTypeOK, LocksTypeOK, LockInv, NEW c \in Connections,
     Environment(c)
  PROVE  LockInv'
<1>. USE DEF LocksTypeOK, RequestsTypeOK, LockInv, KindInv, LockAccounting,
     LockHeldByOne, InTurn, TurnPoints, OtherPoints, LockedPoints, At, Goto,
     Local, Request, Points
<1>1. CASE StartTurn(c)
    BY <1>1 DEF StartTurn, IdleRequest
<1>2. CASE StartFinalize(c)
    BY <1>2 DEF StartFinalize, IdleRequest
<1>3. CASE StartResume(c)
    BY <1>3 DEF StartResume, IdleRequest
<1>4. CASE StartAbandon(c)
    BY <1>4 DEF StartAbandon, IdleRequest
<1>5. CASE Recycle(c)
    BY <1>5 DEF Recycle
<1>. QED BY <1>1, <1>2, <1>3, <1>4, <1>5 DEF Environment

-----------------------------------------------------------------------------
(* Types of the lock counters and of what is outside the database.         *)

(* The steps of handle_turn keep the types of the lock counters, of Mitra's*)
(* stories and of the bounds.                                              *)
LEMMA CountersTurn ==
  ASSUME LocksTypeOK, OutsideTypeOK, RequestsTypeOK, LockInv, InHand, NEW c
     \in Connections, TurnStep(c)
  PROVE  LocksTypeOK' /\ OutsideTypeOK'
<1>. USE DEF LocksTypeOK, OutsideTypeOK, RequestsTypeOK, LockInv, LockAccounting,
     KindInv, TurnPoints, InTurn, LockedPoints, InHand, HandOK, budget, At,
     Local
<1>1. CASE TryLock(c)
    BY <1>1 DEF TryLock
<1>2. CASE RefuseTurn(c)
    BY <1>2 DEF RefuseTurn
<1>3. CASE RecordUserMessage(c)
    BY <1>3 DEF RecordUserMessage
<1>4. CASE RouteExplicit(c)
    BY <1>4 DEF RouteExplicit
<1>5. CASE RouteUnknown(c)
    BY <1>5 DEF RouteUnknown
<1>6. CASE RoutePinned(c)
    BY <1>6 DEF RoutePinned
<1>7. CASE RouteUnpinned(c)
    BY <1>7 DEF RouteUnpinned
<1>8. CASE RouteExit(c)
    BY <1>8 DEF RouteExit
<1>9. CASE ExitNoSession(c)
    BY <1>9 DEF ExitNoSession
<1>10. CASE ExitAbandon(c)
    BY <1>10 DEF ExitAbandon
<1>11. CASE ExitRaced(c)
    BY <1>11 DEF ExitRaced
<1>12. CASE LimitPassed(c)
    BY <1>12 DEF LimitPassed
<1>13. CASE LimitExceeded(c)
    BY <1>13 DEF LimitExceeded
<1>14. CASE AttachExisting(c)
    BY <1>14 DEF AttachExisting
<1>15. CASE AttachOther(c)
    BY <1>15 DEF AttachOther
<1>16. CASE AttachNone(c)
    BY <1>16 DEF AttachNone
<1>17. CASE AttachNew(c)
    BY <1>17 DEF AttachNew
<1>18. CASE Displace(c)
    BY <1>18 DEF Displace
<1>19. CASE DisplaceRaced(c)
    BY <1>19 DEF DisplaceRaced
<1>20. CASE CommitBeforeHandler(c)
    BY <1>20 DEF CommitBeforeHandler
<1>21. CASE HandlerReplies(c)
    BY <1>21 DEF HandlerReplies
<1>22. CASE HandlerFails(c)
    BY <1>22 DEF HandlerFails
<1>23. CASE ApplyDelta(c)
    BY <1>23 DEF ApplyDelta
<1>24. CASE ApplyRejected(c)
    BY <1>24 DEF ApplyRejected
<1>25. CASE InsertReply(c)
    BY <1>25 DEF InsertReply
<1>26. CASE InsertReplyRejected(c)
    BY <1>26 DEF InsertReplyRejected
<1>27. CASE CommitReply(c)
    BY <1>27 DEF CommitReply
<1>28. CASE Unlock(c)
    BY <1>28 DEF Unlock
<1>. QED BY <1>1, <1>2, <1>3, <1>4, <1>5, <1>6, <1>7, <1>8, <1>9, <1>10, <1>11,
     <1>12, <1>13, <1>14, <1>15, <1>16, <1>17, <1>18, <1>19, <1>20, <1>21,
     <1>22, <1>23, <1>24, <1>25, <1>26, <1>27, <1>28 DEF TurnStep

(* The steps of _finalize keep the types of the lock counters, of Mitra's  *)
(* stories and of the bounds.                                              *)
LEMMA CountersFinalize ==
  ASSUME LocksTypeOK, OutsideTypeOK, RequestsTypeOK, LockInv, InHand, NEW c
     \in Connections, FinalizeStep(c)
  PROVE  LocksTypeOK' /\ OutsideTypeOK'
<1>. USE DEF LocksTypeOK, OutsideTypeOK, RequestsTypeOK, LockInv, LockAccounting,
     KindInv, TurnPoints, InTurn, LockedPoints, InHand, HandOK, budget, At,
     Local
<1>1. CASE Claim(c)
    BY <1>1 DEF Claim
<1>2. CASE ClaimLost(c)
    BY <1>2 DEF ClaimLost
<1>3. CASE SubmitAccepted(c)
    BY <1>3 DEF SubmitAccepted
<1>4. CASE SubmitFails(c)
    BY <1>4 DEF SubmitFails
<1>5. CASE Complete(c)
    BY <1>5 DEF Complete
<1>6. CASE ReportRaises(c)
    BY <1>6 DEF ReportRaises
<1>7. CASE Unpin(c)
    BY <1>7 DEF Unpin
<1>. QED BY <1>1, <1>2, <1>3, <1>4, <1>5, <1>6, <1>7 DEF FinalizeStep

(* The steps of resume_turn keep the types of the lock counters, of Mitra's*)
(* stories and of the bounds.                                              *)
LEMMA CountersResume ==
  ASSUME LocksTypeOK, OutsideTypeOK, RequestsTypeOK, LockInv, InHand, NEW c
     \in Connections, ResumeStep(c)
  PROVE  LocksTypeOK' /\ OutsideTypeOK'
<1>. USE DEF LocksTypeOK, OutsideTypeOK, RequestsTypeOK, LockInv, LockAccounting,
     KindInv, TurnPoints, InTurn, LockedPoints, InHand, HandOK, budget, At,
     Local
<1>1. CASE ReconcileAnswered(c)
    BY <1>1 DEF ReconcileAnswered
<1>2. CASE ReconcileUnanswered(c)
    BY <1>2 DEF ReconcileUnanswered
<1>3. CASE StoreRecovered(c)
    BY <1>3 DEF StoreRecovered
<1>4. CASE ResumeApply(c)
    BY <1>4 DEF ResumeApply
<1>5. CASE ResumeRejected(c)
    BY <1>5 DEF ResumeRejected
<1>. QED BY <1>1, <1>2, <1>3, <1>4, <1>5 DEF ResumeStep

(* The steps of the abandon requests keep the types of the lock counters,  *)
(* of Mitra's stories and of the bounds.                                   *)
LEMMA CountersAbandon ==
  ASSUME LocksTypeOK, OutsideTypeOK, RequestsTypeOK, LockInv, InHand, NEW c
     \in Connections, AbandonStep(c)
  PROVE  LocksTypeOK' /\ OutsideTypeOK'
<1>. USE DEF LocksTypeOK, OutsideTypeOK, RequestsTypeOK, LockInv, LockAccounting,
     KindInv, TurnPoints, InTurn, LockedPoints, InHand, HandOK, budget, At,
     Local
<1>1. CASE AbandonRow(c)
    BY <1>1 DEF AbandonRow
<1>2. CASE AbandonNewer(c)
    BY <1>2 DEF AbandonNewer
<1>3. CASE AbandonRaced(c)
    BY <1>3 DEF AbandonRaced
<1>. QED BY <1>1, <1>2, <1>3 DEF AbandonStep

(* get_db's commit and rollback, and a deadlock victim, keep the types of  *)
(* the lock counters, of Mitra's stories and of the bounds.                *)
LEMMA CountersEnd ==
  ASSUME LocksTypeOK, OutsideTypeOK, RequestsTypeOK, LockInv, InHand, NEW c
     \in Connections, EndStep(c)
  PROVE  LocksTypeOK' /\ OutsideTypeOK'
<1>. USE DEF LocksTypeOK, OutsideTypeOK, RequestsTypeOK, LockInv, LockAccounting,
     KindInv, TurnPoints, InTurn, LockedPoints, InHand, HandOK, budget, At,
     Local
<1>1. CASE Close(c)
    BY <1>1 DEF Close, EndRequest
<1>2. CASE Rollback(c)
    BY <1>2 DEF Rollback, EndRequest
<1>3. CASE DeadlockVictim(c)
    BY <1>3 DEF DeadlockVictim
<1>. QED BY <1>1, <1>2, <1>3 DEF EndStep

(* Arriving requests and a recycled connection keep the types of the lock  *)
(* counters, of Mitra's stories and of the bounds.                         *)
LEMMA CountersEnvironment ==
  ASSUME LocksTypeOK, OutsideTypeOK, RequestsTypeOK, LockInv, InHand, NEW c
     \in Connections, Environment(c)
  PROVE  LocksTypeOK' /\ OutsideTypeOK'
<1>. USE DEF LocksTypeOK, OutsideTypeOK, RequestsTypeOK, LockInv, LockAccounting,
     KindInv, TurnPoints, InTurn, LockedPoints, InHand, HandOK, budget, At,
     Local
<1>1. CASE StartTurn(c)
    BY <1>1 DEF StartTurn
<1>2. CASE StartFinalize(c)
    BY <1>2 DEF StartFinalize
<1>3. CASE StartResume(c)
    BY <1>3 DEF StartResume
<1>4. CASE StartAbandon(c)
    BY <1>4 DEF StartAbandon
<1>5. CASE Recycle(c)
    BY <1>5 DEF Recycle
<1>. QED BY <1>1, <1>2, <1>3, <1>4, <1>5 DEF Environment

-----------------------------------------------------------------------------
(* Types of the requests.                                                  *)

(* What a transaction reads is a row.                                      *)
LEMMA RowTypes ==
  ASSUME RowsTypeOK, NEW c \in Connections
  PROVE  /\ MyConv(c) \in ConversationRow
         /\ \A s \in Sessions : MySess(c, s) \in SessionRow
BY DEF RowsTypeOK, MyConv, MySess

(* A step that leaves request r at program point p.                         *)
LEMMA RequestUpdate ==
  ASSUME RequestsTypeOK, InHand, NEW c \in Connections, NEW r \in Request, NEW p \in Points,
         HandOK(p, r), req' = [req EXCEPT ![c] = r], Goto(c, p), UNCHANGED aborted
  PROVE  RequestsTypeOK' /\ InHand'
BY DEF RequestsTypeOK, InHand, HandOK, Goto

(* The steps of handle_turn keep the types of the requests and what they   *)
(* have in hand.                                                           *)
LEMMA RequestTurn ==
  ASSUME RowsTypeOK, RequestsTypeOK, InHand, NEW c \in Connections,
     TurnStep(c)
  PROVE  RequestsTypeOK' /\ InHand'
<1>1. CASE RecordUserMessage(c)
  <2>. DEFINE r == [req[c] EXCEPT !.asked = Len(MyConv(c).log) + 1]
  <2>1. MyConv(c).log \in Seq(Message) BY RowTypes DEF ConversationRow
  <2>2. Len(MyConv(c).log) + 1 \in Nat BY <2>1
  <2>3. r \in Request BY <2>2 DEF RequestsTypeOK, Request
  <2>4. HandOK("route", r) BY DEF HandOK
  <2>. QED
    BY <1>1, <2>3, <2>4, RequestUpdate DEF RecordUserMessage, Points, LockedPoints, Local
<1>2. CASE RouteExplicit(c)
  <2>1. PICK a \in Agents : req' = [req EXCEPT ![c].agt = a]
    BY <1>2 DEF RouteExplicit
  <2>. DEFINE r == [req[c] EXCEPT !.agt = a]
  <2>2. r \in Request BY DEF RequestsTypeOK, Request
  <2>3. HandOK("limits", r) BY DEF HandOK
  <2>. QED BY <1>2, <2>1, <2>2, <2>3, RequestUpdate DEF RouteExplicit, Points, LockedPoints, Local
<1>3. CASE RoutePinned(c)
  <2>1. PICK a \in PinFor(c) : req' = [req EXCEPT ![c].agt = a]
    BY <1>3 DEF RoutePinned
  <2>2. a \in Agents \cup {NoAgent}
    BY RowTypes DEF PinFor, MyOpen, SessionRow, RequestsTypeOK, Request
  <2>. DEFINE r == [req[c] EXCEPT !.agt = a]
  <2>3. r \in Request BY <2>2 DEF RequestsTypeOK, Request
  <2>4. HandOK("limits", r) BY DEF HandOK
  <2>. QED BY <1>3, <2>1, <2>3, <2>4, RequestUpdate DEF RoutePinned, Points, LockedPoints, Local
<1>4. CASE RouteUnpinned(c)
  <2>1. PICK a \in Agents, bad \in BOOLEAN : req' = [req EXCEPT ![c].agt = a, ![c].badConf = bad]
    BY <1>4 DEF RouteUnpinned
  <2>. DEFINE r == [req[c] EXCEPT !.agt = a, !.badConf = bad]
  <2>2. r \in Request BY ZenonT(60) DEF RequestsTypeOK, Request
  <2>3. HandOK("limits", r) BY DEF HandOK
  <2>. QED BY <1>4, <2>1, <2>2, <2>3, RequestUpdate, ZenonT(60) DEF RouteUnpinned, Points, LockedPoints, Local
<1>5. CASE RouteExit(c)
  <2>1. PICK s \in Sessions \cup {NoSession} : req' = [req EXCEPT ![c].agt = DefaultAgent, ![c].sid = s]
    BY <1>5 DEF RouteExit, MyOpen
  <2>. DEFINE r == [req[c] EXCEPT !.agt = DefaultAgent, !.sid = s]
  <2>2. r \in Request BY ConstantsAssumption, ZenonT(60) DEF RequestsTypeOK, Request
  <2>3. HandOK("exit", r) BY DEF HandOK
  <2>. QED BY <1>5, <2>1, <2>2, <2>3, RequestUpdate, ZenonT(60) DEF RouteExit, Points, LockedPoints, Local
<1>6. CASE AttachExisting(c)
  <2>1. PICK s \in Sessions :
          /\ Open(MySess(c, s))
          /\ req' = [req EXCEPT ![c].sid = s, ![c].seen = MySess(c, s).st]
    BY <1>6 DEF AttachExisting, MyOpen
  <2>. DEFINE r == [req[c] EXCEPT !.sid = s, !.seen = MySess(c, s).st]
  <2>2. MySess(c, s).st \in States BY <2>1, RowTypes DEF Open, SessionRow
  <2>3. r \in Request BY <2>2 DEF RequestsTypeOK, Request
  <2>4. HandOK("commit1", r) BY <2>2 DEF HandOK, RequestsTypeOK, Request
  <2>5. Goto(c, "commit1") /\ UNCHANGED aborted BY <1>6 DEF AttachExisting, Local
  <2>6. req' = [req EXCEPT ![c] = r] BY <2>1, RowTypes
  <2>. QED BY <2>3, <2>4, <2>5, <2>6, RequestUpdate DEF Points, LockedPoints
<1>7. CASE AttachOther(c)
  <2>1. PICK s \in Sessions : req' = [req EXCEPT ![c].sid = s]
    BY <1>7 DEF AttachOther, MyOpen
  <2>. DEFINE r == [req[c] EXCEPT !.sid = s]
  <2>2. r \in Request BY DEF RequestsTypeOK, Request
  <2>3. HandOK("displace", r) BY DEF HandOK, RequestsTypeOK, Request
  <2>. QED BY <1>7, <2>1, <2>2, <2>3, RequestUpdate DEF AttachOther, Points, LockedPoints, Local
<1>8. CASE AttachNone(c)
  <2>. DEFINE r == [req[c] EXCEPT !.sid = NoSession, !.seen = "absent"]
  <2>1. r \in Request BY DEF RequestsTypeOK, Request
  <2>2. HandOK("commit1", r) BY DEF HandOK, RequestsTypeOK, Request
  <2>. QED BY <1>8, <2>1, <2>2, RequestUpdate DEF AttachNone, Points, LockedPoints, Local
<1>9. CASE AttachNew(c)
  <2>1. PICK s \in Sessions : req' = [req EXCEPT ![c].sid = s, ![c].seen = "pending"]
    BY <1>9 DEF AttachNew
  <2>. DEFINE r == [req[c] EXCEPT !.sid = s, !.seen = "pending"]
  <2>2. r \in Request BY ZenonT(60) DEF RequestsTypeOK, Request, States
  <2>3. HandOK("commit1", r) BY DEF HandOK, RequestsTypeOK, Request, States
  <2>. QED BY <1>9, <2>1, <2>2, <2>3, RequestUpdate, ZenonT(60) DEF AttachNew, Points, LockedPoints, Local
<1>10. CASE HandlerReplies(c)
  <2>1. CASE req[c].agt \in RemoteAgents
    <3>1. PICK d \in BOOLEAN : req' = [req EXCEPT ![c].done = d]
      BY <1>10, <2>1 DEF HandlerReplies
    <3>. DEFINE r == [req[c] EXCEPT !.done = d]
    <3>2. r \in Request BY DEF RequestsTypeOK, Request
    <3>3. HandOK("apply", r)
      BY <1>10, <2>1 DEF HandlerReplies, HandOK, InHand, At, RequestsTypeOK, Request
    <3>. QED
      BY <1>10, <2>1, <3>1, <3>2, <3>3, RequestUpdate
         DEF HandlerReplies, Points, LockedPoints, Local
  <2>2. CASE req[c].agt \notin RemoteAgents
    BY <1>10, <2>2
       DEF HandlerReplies, RequestsTypeOK, InHand, HandOK, Goto, Points, LockedPoints, Local
  <2>. QED BY <2>1, <2>2
<1>. USE DEF RequestsTypeOK, InHand, HandOK, Points, LockedPoints, At, Goto,
     Local
<1>11. CASE TryLock(c)
    BY <1>11 DEF TryLock
<1>12. CASE RefuseTurn(c)
    BY <1>12 DEF RefuseTurn
<1>13. CASE RouteUnknown(c)
    BY <1>13 DEF RouteUnknown
<1>14. CASE ExitNoSession(c)
    BY <1>14 DEF ExitNoSession
<1>15. CASE ExitAbandon(c)
    BY <1>15 DEF ExitAbandon
<1>16. CASE ExitRaced(c)
    BY <1>16 DEF ExitRaced
<1>17. CASE LimitPassed(c)
    BY <1>17 DEF LimitPassed
<1>18. CASE LimitExceeded(c)
    BY <1>18 DEF LimitExceeded
<1>19. CASE Displace(c)
    BY <1>19 DEF Displace
<1>20. CASE DisplaceRaced(c)
    BY <1>20 DEF DisplaceRaced
<1>21. CASE CommitBeforeHandler(c)
    BY <1>21 DEF CommitBeforeHandler
<1>22. CASE HandlerFails(c)
    BY <1>22 DEF HandlerFails
<1>23. CASE ApplyDelta(c)
    BY <1>23 DEF ApplyDelta
<1>24. CASE ApplyRejected(c)
    BY <1>24 DEF ApplyRejected
<1>25. CASE InsertReply(c)
    BY <1>25 DEF InsertReply
<1>26. CASE InsertReplyRejected(c)
    BY <1>26 DEF InsertReplyRejected
<1>27. CASE CommitReply(c)
    BY <1>27 DEF CommitReply
<1>28. CASE Unlock(c)
    BY <1>28 DEF Unlock
<1>. QED BY <1>1, <1>2, <1>3, <1>4, <1>5, <1>6, <1>7, <1>8, <1>9, <1>10, <1>11,
     <1>12, <1>13, <1>14, <1>15, <1>16, <1>17, <1>18, <1>19, <1>20, <1>21,
     <1>22, <1>23, <1>24, <1>25, <1>26, <1>27, <1>28 DEF TurnStep

(* The steps of _finalize keep the types of the requests and what they have*)
(* in hand.                                                                *)
LEMMA RequestFinalize ==
  ASSUME RowsTypeOK, RequestsTypeOK, InHand, NEW c \in Connections,
     FinalizeStep(c)
  PROVE  RequestsTypeOK' /\ InHand'
<1>. USE DEF RequestsTypeOK, InHand, HandOK, Points, LockedPoints, At, Goto,
     Local
<1>1. CASE Claim(c)
    BY <1>1 DEF Claim
<1>2. CASE ClaimLost(c)
    BY <1>2 DEF ClaimLost, AfterFinalize
<1>3. CASE SubmitAccepted(c)
    BY <1>3 DEF SubmitAccepted
<1>4. CASE SubmitFails(c)
    BY <1>4 DEF SubmitFails, AfterError
<1>5. CASE Complete(c)
    BY <1>5 DEF Complete
<1>6. CASE ReportRaises(c)
    BY <1>6 DEF ReportRaises, AfterError
<1>7. CASE Unpin(c)
    BY <1>7 DEF Unpin, AfterFinalize
<1>. QED BY <1>1, <1>2, <1>3, <1>4, <1>5, <1>6, <1>7 DEF FinalizeStep

(* The steps of resume_turn keep the types of the requests and what they   *)
(* have in hand.                                                           *)
LEMMA RequestResume ==
  ASSUME RowsTypeOK, RequestsTypeOK, InHand, NEW c \in Connections,
     ResumeStep(c)
  PROVE  RequestsTypeOK' /\ InHand'
<1>. USE DEF RequestsTypeOK, InHand, HandOK, Points, LockedPoints, At, Goto,
     Local
<1>1. CASE ReconcileAnswered(c)
    BY <1>1 DEF ReconcileAnswered
<1>2. CASE ReconcileUnanswered(c)
    BY <1>2 DEF ReconcileUnanswered
<1>3. CASE StoreRecovered(c)
    BY <1>3 DEF StoreRecovered
<1>4. CASE ResumeApply(c)
    BY <1>4 DEF ResumeApply
<1>5. CASE ResumeRejected(c)
    BY <1>5 DEF ResumeRejected
<1>. QED BY <1>1, <1>2, <1>3, <1>4, <1>5 DEF ResumeStep

(* The steps of the abandon requests keep the types of the requests and    *)
(* what they have in hand.                                                 *)
LEMMA RequestAbandon ==
  ASSUME RowsTypeOK, RequestsTypeOK, InHand, NEW c \in Connections,
     AbandonStep(c)
  PROVE  RequestsTypeOK' /\ InHand'
<1>1. CASE AbandonNewer(c)
  <2>1. PICK s \in Sessions : req' = [req EXCEPT ![c].sid = s]
    BY <1>1 DEF AbandonNewer, MyOpen
  <2>. DEFINE r == [req[c] EXCEPT !.sid = s]
  <2>2. r \in Request BY DEF RequestsTypeOK, Request
  <2>3. HandOK("unpin", r) BY DEF HandOK
  <2>. QED BY <1>1, <2>1, <2>2, <2>3, RequestUpdate DEF AbandonNewer, Points, LockedPoints, Local
<1>. USE DEF RequestsTypeOK, InHand, HandOK, Points, LockedPoints, At, Goto,
     Local
<1>2. CASE AbandonRow(c)
    BY <1>2 DEF AbandonRow
<1>3. CASE AbandonRaced(c)
    BY <1>3 DEF AbandonRaced
<1>. QED BY <1>1, <1>2, <1>3 DEF AbandonStep

(* get_db's commit and rollback, and a deadlock victim, keep the types of  *)
(* the requests and what they have in hand.                                *)
LEMMA RequestEnd ==
  ASSUME RowsTypeOK, RequestsTypeOK, InHand, NEW c \in Connections, EndStep(c)
  PROVE  RequestsTypeOK' /\ InHand'
<1>1. CASE Close(c)
  <2>1. IdleRequest \in Request BY DEF IdleRequest, Request, Kinds
  <2>. QED
    BY <1>1, <2>1
       DEF Close, EndRequest, RequestsTypeOK, InHand, HandOK, Points, Goto
<1>2. CASE Rollback(c)
  <2>1. IdleRequest \in Request BY DEF IdleRequest, Request, Kinds
  <2>. QED
    BY <1>2, <2>1
       DEF Rollback, EndRequest, RequestsTypeOK, InHand, HandOK, Points, Goto
<1>. USE DEF RequestsTypeOK, InHand, HandOK, Points, LockedPoints, At, Goto,
     Local
<1>3. CASE DeadlockVictim(c)
    BY <1>3 DEF DeadlockVictim, AfterError
<1>. QED BY <1>1, <1>2, <1>3 DEF EndStep

(* Arriving requests and a recycled connection keep the types of the       *)
(* requests and what they have in hand.                                    *)
LEMMA RequestEnvironment ==
  ASSUME RowsTypeOK, RequestsTypeOK, InHand, NEW c \in Connections,
     Environment(c)
  PROVE  RequestsTypeOK' /\ InHand'
<1>1. CASE StartTurn(c)
  <2>. DEFINE r == [IdleRequest EXCEPT !.kind = "turn", !.pin = convC.pin]
  <2>1. r \in Request BY DEF RowsTypeOK, ConversationRow, IdleRequest, Request, Kinds
  <2>2. HandOK("lock", r) BY DEF HandOK
  <2>. QED BY <1>1, <2>1, <2>2, RequestUpdate DEF StartTurn, Points
<1>2. CASE StartFinalize(c)
  <2>1. PICK s \in Sessions : req' = [req EXCEPT ![c] = [IdleRequest EXCEPT !.kind = "finalize", !.sid = s]]
    BY <1>2 DEF StartFinalize
  <2>. DEFINE r == [IdleRequest EXCEPT !.kind = "finalize", !.sid = s]
  <2>2. r \in Request BY DEF IdleRequest, Request, Kinds
  <2>3. HandOK("claim", r) BY DEF HandOK, IdleRequest
  <2>. QED BY <1>2, <2>1, <2>2, <2>3, RequestUpdate DEF StartFinalize, Points, LockedPoints
<1>3. CASE StartResume(c)
  <2>. DEFINE r(s, i) == [IdleRequest EXCEPT !.kind = "resume", !.sid = s,
                            !.seen = sessC[s].st, !.asked = i]
  <2>1. PICK s \in Sessions, i \in UserSeqs(convC.log) :
          /\ sessC[s].st # "absent"
          /\ req' = [req EXCEPT ![c] = r(s, i)]
          /\ Goto(c, IF sessC[s].remote THEN "reconcile" ELSE "close")
    BY <1>3 DEF StartResume
  <2>2. i \in Nat /\ sessC[s].st \in States
    BY <2>1 DEF UserSeqs, RowsTypeOK, SessionRow
  <2>3. r(s, i) \in Request BY <2>2 DEF IdleRequest, Request, Kinds
  <2>4. HandOK("reconcile", r(s, i)) /\ HandOK("close", r(s, i))
    BY <2>2 DEF HandOK, IdleRequest
  <2>. QED
    BY <1>3, <2>1, <2>3, <2>4, RequestUpdate DEF StartResume, Points, LockedPoints
<1>4. CASE StartAbandon(c)
  <2>1. PICK s \in Sessions : req' = [req EXCEPT ![c] = [IdleRequest EXCEPT !.kind = "abandon", !.sid = s]]
    BY <1>4 DEF StartAbandon, MyOpen
  <2>. DEFINE r == [IdleRequest EXCEPT !.kind = "abandon", !.sid = s]
  <2>2. r \in Request BY DEF IdleRequest, Request, Kinds
  <2>3. HandOK("abandon", r) BY DEF HandOK, IdleRequest
  <2>. QED BY <1>4, <2>1, <2>2, <2>3, RequestUpdate DEF StartAbandon, Points, LockedPoints
<1>. USE DEF RequestsTypeOK, InHand, HandOK, Points, LockedPoints, At, Goto,
     Local
<1>5. CASE Recycle(c)
    BY <1>5 DEF Recycle
<1>. QED BY <1>1, <1>2, <1>3, <1>4, <1>5 DEF Environment

-----------------------------------------------------------------------------
(* Types of the rows.                                                      *)

(* The rows the UPDATEs write are rows.                                    *)
LEMMA SetState ==
  \A row \in SessionRow, st \in States : [row EXCEPT !.st = st] \in SessionRow
BY DEF SessionRow
(* apply(awaiting_user) writes a row.                                      *)
LEMMA SetApplied ==
  \A row \in SessionRow, st \in States :
    [row EXCEPT !.st = st, !.remote = TRUE] \in SessionRow
BY DEF SessionRow
(* pin and unpin write a conversation row.                                 *)
LEMMA SetPin ==
  \A row \in ConversationRow, a \in Agents \cup {NoAgent} :
    [row EXCEPT !.pin = a] \in ConversationRow
BY DEF ConversationRow
(* insert extends a conversation row.                                      *)
LEMMA AppendMessage ==
  \A row \in ConversationRow, m \in Message :
    [row EXCEPT !.log = Append(@, m)] \in ConversationRow
BY DEF ConversationRow
(* An UPDATE of the conversation row keeps the types of the rows.          *)
LEMMA WriteConvTypes ==
  ASSUME RowsTypeOK, NEW c \in Connections, NEW row \in ConversationRow, WriteConv(c, row)
  PROVE  RowsTypeOK'
BY DEF RowsTypeOK, WriteConv, Rows
(* An UPDATE of a session row keeps the types of the rows.                 *)
LEMMA WriteSessTypes ==
  ASSUME RowsTypeOK, NEW c \in Connections, NEW s \in Sessions, NEW row \in SessionRow,
         WriteSess(c, s, row)
  PROVE  RowsTypeOK'
BY DEF RowsTypeOK, WriteSess, Rows
(* An UPDATE of both rows keeps their types.                               *)
LEMMA WriteBothTypes ==
  ASSUME RowsTypeOK, NEW c \in Connections, NEW crow \in ConversationRow,
         NEW s \in Sessions, NEW row \in SessionRow, WriteBoth(c, crow, s, row)
  PROVE  RowsTypeOK'
BY DEF RowsTypeOK, WriteBoth, Rows
(* Commit and rollback keep the types of the rows.                         *)
LEMMA EndTxTypes ==
  ASSUME RowsTypeOK, NEW c \in Connections, CommitTx(c) \/ RollbackTx(c)
  PROVE  RowsTypeOK'
BY RowTypes DEF RowsTypeOK, CommitTx, RollbackTx, Released, Rows

(* The steps of handle_turn keep the types of the rows.                    *)
LEMMA RowsTurn ==
  ASSUME RowsTypeOK, RequestsTypeOK, InHand, NEW c \in Connections,
     TurnStep(c)
  PROVE  RowsTypeOK'
<1>1. CASE RecordUserMessage(c)
  <2>. DEFINE m == [role |-> "user", re |-> Len(MyConv(c).log) + 1]
  <2>1. MyConv(c).log \in Seq(Message) BY RowTypes DEF ConversationRow
  <2>2. m \in Message BY <2>1 DEF Message
  <2>3. [MyConv(c) EXCEPT !.log = Append(@, m)] \in ConversationRow
    BY <2>2, RowTypes, AppendMessage
  <2>. QED BY <1>1, <2>3, WriteConvTypes DEF RecordUserMessage
<1>2. CASE ExitNoSession(c)
  <2>1. Unpinned(MyConv(c)) \in ConversationRow BY RowTypes, SetPin DEF Unpinned
  <2>. QED BY <1>2, <2>1, WriteConvTypes DEF ExitNoSession
<1>3. CASE ExitAbandon(c)
  <2>1. req[c].sid \in Sessions
    BY <1>3 DEF ExitAbandon, At, InHand, HandOK, RequestsTypeOK, Request
  <2>2. Unpinned(MyConv(c)) \in ConversationRow BY RowTypes, SetPin DEF Unpinned
  <2>3. Abandoned(MySess(c, req[c].sid)) \in SessionRow
    BY <2>1, RowTypes, SetState DEF Abandoned, States
  <2>. QED BY <1>3, <2>1, <2>2, <2>3, WriteBothTypes DEF ExitAbandon
<1>4. CASE AttachExisting(c)
  <2>1. Pinned(c, MyConv(c)) \in ConversationRow
    BY RowTypes, SetPin DEF Pinned, RequestsTypeOK, Request
  <2>. QED BY <1>4, <2>1, WriteConvTypes DEF AttachExisting
<1>5. CASE AttachNew(c)
  <2>1. Pinned(c, MyConv(c)) \in ConversationRow
    BY RowTypes, SetPin DEF Pinned, RequestsTypeOK, Request
  <2>2. PendingRow(req[c].agt) \in SessionRow
    BY DEF PendingRow, SessionRow, States, RequestsTypeOK, Request
  <2>. QED BY <1>5, <2>1, <2>2, WriteBothTypes DEF AttachNew
<1>6. CASE Displace(c)
  <2>1. req[c].sid \in Sessions
    BY <1>6 DEF Displace, At, InHand, HandOK, RequestsTypeOK, Request
  <2>2. Unpinned(MyConv(c)) \in ConversationRow BY RowTypes, SetPin DEF Unpinned
  <2>3. Abandoned(MySess(c, req[c].sid)) \in SessionRow
    BY <2>1, RowTypes, SetState DEF Abandoned, States
  <2>. QED BY <1>6, <2>1, <2>2, <2>3, WriteBothTypes DEF Displace
<1>7. CASE CommitBeforeHandler(c)
    BY <1>7, EndTxTypes DEF CommitBeforeHandler
<1>8. CASE ApplyDelta(c)
  <2>1. req[c].sid \in Sessions BY <1>8 DEF ApplyDelta, At, InHand, HandOK
  <2>2. ApplyRow(c) \in SessionRow BY <2>1, RowTypes, SetApplied DEF ApplyRow, States
  <2>. QED BY <1>8, <2>1, <2>2, WriteSessTypes DEF ApplyDelta
<1>9. CASE InsertReply(c)
  <2>1. [role |-> "assistant", re |-> req[c].asked] \in Message
    BY DEF Message, RequestsTypeOK, Request
  <2>2. [MyConv(c) EXCEPT !.log = Append(@, [role |-> "assistant", re |-> req[c].asked])] \in ConversationRow
    BY <2>1, RowTypes, AppendMessage
  <2>. QED BY <1>9, <2>2, WriteConvTypes DEF InsertReply
<1>10. CASE InsertReplyRejected(c)
    BY <1>10, EndTxTypes DEF InsertReplyRejected
<1>11. CASE CommitReply(c)
    BY <1>11, EndTxTypes DEF CommitReply
<1>12. CASE UNCHANGED rowVars
    BY <1>12 DEF rowVars, RowsTypeOK
<1>. QED BY <1>1, <1>2, <1>3, <1>4, <1>5, <1>6, <1>7, <1>8, <1>9, <1>10, <1>11, <1>12
     DEF TurnStep, TryLock, RefuseTurn, RouteExplicit, RouteUnknown,
     RoutePinned, RouteUnpinned, RouteExit, ExitRaced, LimitPassed,
     LimitExceeded, AttachOther, AttachNone, DisplaceRaced, HandlerReplies,
     HandlerFails, ApplyRejected, Unlock, rowVars

(* The steps of _finalize keep the types of the rows.                      *)
LEMMA RowsFinalize ==
  ASSUME RowsTypeOK, RequestsTypeOK, InHand, NEW c \in Connections,
     FinalizeStep(c)
  PROVE  RowsTypeOK'
<1>1. CASE Claim(c)
  <2>1. req[c].sid \in Sessions BY <1>1 DEF Claim, At, InHand, HandOK
  <2>2. [MySess(c, req[c].sid) EXCEPT !.st = "finalizing"] \in SessionRow
    BY <2>1, RowTypes, SetState DEF States
  <2>. QED BY <1>1, <2>1, <2>2, WriteSessTypes DEF Claim
<1>2. CASE SubmitFails(c)
  <2>1. req[c].sid \in Sessions BY <1>2 DEF SubmitFails, At, InHand, HandOK
  <2>2. [MySess(c, req[c].sid) EXCEPT !.st = "failed"] \in SessionRow
    BY <2>1, RowTypes, SetState DEF States
  <2>. QED BY <1>2, <2>1, <2>2, WriteSessTypes DEF SubmitFails
<1>3. CASE Complete(c)
  <2>1. req[c].sid \in Sessions BY <1>3 DEF Complete, At, InHand, HandOK
  <2>2. [MySess(c, req[c].sid) EXCEPT !.st = "completed"] \in SessionRow
    BY <2>1, RowTypes, SetState DEF States
  <2>. QED BY <1>3, <2>1, <2>2, WriteSessTypes DEF Complete
<1>4. CASE Unpin(c)
  <2>1. Unpinned(MyConv(c)) \in ConversationRow BY RowTypes, SetPin DEF Unpinned
  <2>. QED BY <1>4, <2>1, WriteConvTypes DEF Unpin
<1>5. CASE UNCHANGED rowVars
    BY <1>5 DEF rowVars, RowsTypeOK
<1>. QED BY <1>1, <1>2, <1>3, <1>4, <1>5 DEF FinalizeStep, ClaimLost, SubmitAccepted,
     ReportRaises, rowVars

(* The steps of resume_turn keep the types of the rows.                    *)
LEMMA RowsResume ==
  ASSUME RowsTypeOK, RequestsTypeOK, InHand, NEW c \in Connections,
     ResumeStep(c)
  PROVE  RowsTypeOK'
<1>1. CASE StoreRecovered(c)
  <2>1. [role |-> "recovered", re |-> req[c].asked] \in Message
    BY DEF Message, RequestsTypeOK, Request
  <2>2. [MyConv(c) EXCEPT !.log = Append(@, [role |-> "recovered", re |-> req[c].asked])] \in ConversationRow
    BY <2>1, RowTypes, AppendMessage
  <2>. QED BY <1>1, <2>2, WriteConvTypes DEF StoreRecovered
<1>2. CASE ResumeApply(c)
  <2>1. req[c].sid \in Sessions BY <1>2 DEF ResumeApply, At, InHand, HandOK
  <2>2. ApplyRow(c) \in SessionRow BY <2>1, RowTypes, SetApplied DEF ApplyRow, States
  <2>. QED BY <1>2, <2>1, <2>2, WriteSessTypes DEF ResumeApply
<1>3. CASE UNCHANGED rowVars
    BY <1>3 DEF rowVars, RowsTypeOK
<1>. QED BY <1>1, <1>2, <1>3 DEF ResumeStep, ReconcileAnswered, ReconcileUnanswered,
     ResumeRejected, rowVars

(* The steps of the abandon requests keep the types of the rows.           *)
LEMMA RowsAbandon ==
  ASSUME RowsTypeOK, RequestsTypeOK, InHand, NEW c \in Connections,
     AbandonStep(c)
  PROVE  RowsTypeOK'
<1>1. CASE AbandonRow(c)
  <2>1. req[c].sid \in Sessions BY <1>1 DEF AbandonRow, At, InHand, HandOK
  <2>2. Abandoned(MySess(c, req[c].sid)) \in SessionRow
    BY <2>1, RowTypes, SetState DEF Abandoned, States
  <2>. QED BY <1>1, <2>1, <2>2, WriteSessTypes DEF AbandonRow
<1>2. CASE AbandonNewer(c)
  <2>1. PICK s \in Sessions : WriteSess(c, s, Abandoned(MySess(c, s)))
    BY <1>2 DEF AbandonNewer, MyOpen
  <2>2. Abandoned(MySess(c, s)) \in SessionRow
    BY RowTypes, SetState DEF Abandoned, States
  <2>. QED BY <2>1, <2>2, WriteSessTypes
<1>3. CASE UNCHANGED rowVars
    BY <1>3 DEF rowVars, RowsTypeOK
<1>. QED BY <1>1, <1>2, <1>3 DEF AbandonStep, AbandonRaced, rowVars

(* get_db's commit and rollback, and a deadlock victim, keep the types of  *)
(* the rows.                                                               *)
LEMMA RowsEnd ==
  ASSUME RowsTypeOK, RequestsTypeOK, InHand, NEW c \in Connections, EndStep(c)
  PROVE  RowsTypeOK'
<1>1. CASE Close(c)
    BY <1>1, EndTxTypes DEF Close
<1>2. CASE Rollback(c)
    BY <1>2, EndTxTypes DEF Rollback
<1>3. CASE DeadlockVictim(c)
    BY <1>3, EndTxTypes DEF DeadlockVictim
<1>. QED BY <1>1, <1>2, <1>3 DEF EndStep

(* Arriving requests and a recycled connection keep the types of the rows. *)
LEMMA RowsEnvironment ==
  ASSUME RowsTypeOK, RequestsTypeOK, InHand, NEW c \in Connections,
     Environment(c)
  PROVE  RowsTypeOK'
<1>1. CASE UNCHANGED rowVars
    BY <1>1 DEF rowVars, RowsTypeOK
<1>. QED BY <1>1 DEF Environment, StartTurn, StartFinalize, StartResume,
     StartAbandon, Recycle, rowVars

-----------------------------------------------------------------------------
(* BaseInv is an invariant.                                                *)

(* The initial state satisfies BaseInv.                                    *)
LEMMA BaseInit == Init => BaseInv
<1>. SUFFICES ASSUME Init PROVE BaseInv
  OBVIOUS
<1>1. RowsTypeOK
  BY DEF Init, RowsTypeOK, ConversationRow, SessionRow, AbsentRow, Rows, States
<1>2. RequestsTypeOK BY DEF Init, RequestsTypeOK, Request, IdleRequest, Kinds, Points
<1>3. LocksTypeOK /\ OutsideTypeOK BY DEF Init, LocksTypeOK, OutsideTypeOK
<1>4. LockInv
  BY DEF Init, LockInv, KindInv, LockAccounting, LockHeldByOne, InTurn, TurnPoints,
         OtherPoints, LockedPoints, IdleRequest
<1>5. InHand BY DEF Init, InHand, HandOK
<1>. QED BY <1>1, <1>2, <1>3, <1>4, <1>5 DEF BaseInv, TypeOK

(* Steps of requests and clients keep BaseInv.                             *)
LEMMA BaseStep ==
  ASSUME BaseInv, NEW c \in Connections, Step(c) \/ Environment(c)
  PROVE  BaseInv'
<1>1. LockInv'
  BY LockTurn, LockFinalize, LockResume, LockAbandon, LockEnd, LockEnvironment
     DEF BaseInv, TypeOK, Step
<1>2. LocksTypeOK' /\ OutsideTypeOK'
  BY CountersTurn, CountersFinalize, CountersResume, CountersAbandon, CountersEnd,
     CountersEnvironment DEF BaseInv, TypeOK, Step
<1>3. RequestsTypeOK' /\ InHand'
  BY RequestTurn, RequestFinalize, RequestResume, RequestAbandon, RequestEnd,
     RequestEnvironment DEF BaseInv, TypeOK, Step
<1>4. RowsTypeOK'
  BY RowsTurn, RowsFinalize, RowsResume, RowsAbandon, RowsEnd, RowsEnvironment
     DEF BaseInv, TypeOK, Step
<1>. QED BY <1>1, <1>2, <1>3, <1>4 DEF BaseInv, TypeOK

(* A crash keeps BaseInv.                                                  *)
LEMMA BaseCrash ==
  ASSUME BaseInv, Crash
  PROVE  BaseInv'
<1>1. RowsTypeOK' BY DEF Crash, BaseInv, TypeOK, RowsTypeOK
<1>2. RequestsTypeOK'
  BY DEF Crash, RequestsTypeOK, Request, IdleRequest, Kinds, Points
<1>3. LocksTypeOK' /\ OutsideTypeOK'
  BY DEF Crash, BaseInv, TypeOK, LocksTypeOK, OutsideTypeOK
<1>4. LockInv'
  BY DEF Crash, LockInv, KindInv, LockAccounting, LockHeldByOne, InTurn, TurnPoints,
         OtherPoints, LockedPoints, IdleRequest
<1>5. InHand' BY DEF Crash, InHand, HandOK
<1>. QED BY <1>1, <1>2, <1>3, <1>4, <1>5 DEF BaseInv, TypeOK

(* A step that changes nothing keeps BaseInv.                              *)
LEMMA BaseStutter ==
  ASSUME BaseInv, UNCHANGED vars
  PROVE  BaseInv'
BY DEF vars, rowVars, budget, BaseInv, TypeOK, RowsTypeOK, RequestsTypeOK, LocksTypeOK,
       OutsideTypeOK, LockInv, KindInv, LockAccounting, LockHeldByOne, InTurn, InHand

(* The invariant all other proofs about TurnPipeline start from.           *)
THEOREM BaseCorrect == Spec => []BaseInv
<1>1. BaseInv /\ [Next]_vars => BaseInv'
  BY BaseStep, BaseCrash, BaseStutter DEF Next, Rest
<1>. QED BY BaseInit, <1>1, PTL DEF Spec

(* The requests, rows and locks of a conversation always have their types;  *)
(* in particular no path of handle_turn releases a lock it does not hold.   *)
THEOREM TypeCorrect == Spec => []TypeOK
<1>1. BaseInv => TypeOK BY DEF BaseInv
<1>. QED BY BaseCorrect, <1>1, PTL

(* handle_turn's advisory lock is held as often as the turn in progress and *)
(* the unlocks that failed account for, through errors, crashes, deadlocks  *)
(* and recycled connections.                                               *)
THEOREM LocksAccounted == Spec => []LockAccounting
<1>1. BaseInv => LockAccounting BY DEF BaseInv, LockInv
<1>. QED BY BaseCorrect, <1>1, PTL

(* The account of the lock excludes two turns: pg_try_advisory_lock is     *)
(* granted to one connection.                                              *)
LEMMA LocksExclude ==
  ASSUME LocksTypeOK, LockInv
  PROVE  TurnExclusion
BY DEF LocksTypeOK, LockInv, LockAccounting, LockHeldByOne, TurnExclusion

(* A conversation runs one turn at a time, also across the COMMIT of step 9 *)
(* and the handler call.                                                   *)
THEOREM TurnsExclude == Spec => []TurnExclusion
<1>1. BaseInv => TurnExclusion BY LocksExclude DEF BaseInv, TypeOK
<1>. QED BY BaseCorrect, <1>1, PTL
=============================================================================
