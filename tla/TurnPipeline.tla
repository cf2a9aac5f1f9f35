---------------------------- MODULE TurnPipeline ----------------------------
(***************************************************************************)
(* The requests that read and write ONE conversation, and the PostgreSQL    *)
(* rows and locks they meet on:                                             *)
(*                                                                          *)
(*   POST /api/chat                     OrchestrationService.handle_turn    *)
(*   POST /api/sessions/{id}/resume     OrchestrationService.resume_turn    *)
(*   POST /api/sessions/{id}/finalize   OrchestrationService.finalize_now   *)
(*   POST /api/sessions/{id}/abandon,                                       *)
(*   POST /api/reset                    SessionService.abandon              *)
(*                                                                          *)
(* A request runs on one pooled connection from start to end (get_db), so   *)
(* the connection is the process.  Only handle_turn takes the advisory turn *)
(* lock; the other three meet it, and each other, on row locks alone.       *)
(*                                                                          *)
(* The database is PostgreSQL at READ COMMITTED.  Every row has a live      *)
(* version, which holds the uncommitted writes of the transaction that owns *)
(* the row's lock, and a committed version, which everyone else reads.      *)
(* Distinct conversations share no row and no lock, so one is enough.       *)
(***************************************************************************)
EXTENDS Naturals, Sequences, FiniteSets

CONSTANTS
  Connections,   \* pooled database connections; each serves one request at a time
  Agents,        \* agents in the registry
  PinAgents,     \* agents with spec.routing.pin_session
  RemoteAgents,  \* agents with agent_type = "remote_flow" (Mitra interviews)
  DefaultAgent,  \* registry.default()
  Sessions,      \* primary keys agent_sessions rows may take
  ConvRow,       \* the conversations row, as a lockable row
  NoConn, NoAgent, NoSession,
  MaxTurns,      \* bound: POST /api/chat requests
  MaxCalls,      \* bound: resume, finalize and abandon requests together
  MaxCrashes,    \* bound: process crashes
  MaxHeld        \* bound: times one connection may hold the turn lock

ASSUME ConstantsAssumption ==
  /\ PinAgents \subseteq Agents
  /\ RemoteAgents \subseteq Agents
  /\ DefaultAgent \in Agents
  /\ ConvRow \notin Sessions
  /\ NoConn \notin Connections
  /\ NoAgent \notin Agents
  /\ NoSession \notin Sessions
  /\ MaxTurns \in Nat /\ MaxCalls \in Nat /\ MaxCrashes \in Nat /\ MaxHeld \in Nat

ASSUME EnoughSessionRows ==   \* every turn may insert one row
  IsFiniteSet(Sessions) => MaxTurns <= Cardinality(Sessions)

-----------------------------------------------------------------------------
(* The session lifecycle table.                                            *)

States == {"pending", "authenticating", "in_progress", "awaiting_user",
           "finalizing", "completed", "failed", "abandoned"}
TERMINAL == {"completed", "failed", "abandoned"}
Claimable == {"in_progress", "awaiting_user"}

ALLOWED ==
  [st \in States |->
    CASE st = "pending" ->
           {"pending", "authenticating", "awaiting_user", "finalizing", "failed"}
      [] st = "authenticating" -> {"authenticating", "in_progress", "failed"}
      [] st = "in_progress" -> {"in_progress", "awaiting_user", "finalizing", "failed"}
      [] st = "awaiting_user" -> {"awaiting_user", "in_progress", "finalizing", "abandoned"}
      [] st = "finalizing" -> {"finalizing", "completed", "failed"}
      [] st \in TERMINAL -> {}]

(* An agent_sessions row; "absent" is a row not inserted yet.  remote says  *)
(* that remote_session_id and remote_profile_id are set.                    *)
SessionRow == [st : States \cup {"absent"}, agent : Agents \cup {NoAgent}, remote : BOOLEAN]
AbsentRow == [st |-> "absent", agent |-> NoAgent, remote |-> FALSE]
PendingRow(a) == [st |-> "pending", agent |-> a, remote |-> FALSE]
Open(row) == row.st \notin TERMINAL \cup {"absent"}

(* conversation_messages of the conversation, in seq order.  re is the seq  *)
(* of the user message an assistant message answers (its own, for a user    *)
(* message); "recovered" is an assistant message written by resume_turn.    *)
Message == [role : {"user", "assistant", "recovered"}, re : Nat]
ConversationRow == [pin : Agents \cup {NoAgent}, log : Seq(Message)]

Rows == {ConvRow} \cup Sessions
Kinds == {"none", "turn", "resume", "finalize", "abandon"}
LockedPoints ==   \* program points of handle_turn that run under the turn lock
  {"record", "route", "exit", "limits", "attach", "displace", "commit1", "handle",
   "apply", "claim", "submit", "report", "unpin", "reply", "commit2", "unlock"}
Points == LockedPoints \cup
  {"idle", "lock", "reconcile", "store", "reapply", "abandon", "rollback", "close"}

(* What a request carries between its statements.                          *)
Request ==
  [kind : Kinds,
   agt  : Agents \cup {NoAgent},     \* agent the turn was routed to
   sid  : Sessions \cup {NoSession}, \* session row in hand
   seen : States \cup {"absent"},    \* its state when it was read into a DTO
   asked : Nat,                      \* seq of the user message
   pin  : Agents \cup {NoAgent},     \* pinned_agent_id in the conversation DTO
   done : BOOLEAN,                   \* AgentTurn.terminal
   badConf : BOOLEAN]                \* RouteDecision.confidence above 1
IdleRequest == [kind |-> "none", agt |-> NoAgent, sid |-> NoSession, seen |-> "absent",
                asked |-> 0, pin |-> NoAgent, done |-> FALSE, badConf |-> FALSE]
-----------------------------------------------------------------------------
VARIABLES
  conv, convC,   \* the conversation row: live, committed
  sess, sessC,   \* the session rows: live, committed
  owner,         \* row -> connection whose open transaction holds its lock
  lockCount,     \* connection -> times it holds the conversation's advisory lock
  aborted,       \* connection -> its transaction failed and was not rolled back yet
  pc, req,       \* connection -> program point and local variables of its request
  story,         \* Mitra: session -> was a story created, was it submitted again
  leaks,         \* history: connection -> unlocks that failed while it lived
  turns, calls, crashes   \* counters for the bounds

rowVars == <<conv, convC, sess, sessC, owner>>
budget == <<turns, calls, crashes>>
vars == <<rowVars, lockCount, aborted, pc, req, story, leaks, budget>>

RowsTypeOK ==
  /\ conv \in ConversationRow /\ convC \in ConversationRow
  /\ sess \in [Sessions -> SessionRow] /\ sessC \in [Sessions -> SessionRow]
  /\ owner \in [Rows -> Connections \cup {NoConn}]
RequestsTypeOK ==
  /\ pc \in [Connections -> Points]
  /\ req \in [Connections -> Request]
  /\ aborted \in [Connections -> BOOLEAN]
LocksTypeOK ==
  /\ lockCount \in [Connections -> Nat]
  /\ leaks \in [Connections -> Nat]
OutsideTypeOK ==
  /\ story \in [Sessions -> {"none", "created", "resubmitted"}]
  /\ turns \in Nat /\ calls \in Nat /\ crashes \in Nat
TypeOK == RowsTypeOK /\ RequestsTypeOK /\ LocksTypeOK /\ OutsideTypeOK

Init ==
  /\ conv = [pin |-> NoAgent, log |-> <<>>] /\ convC = conv
  /\ sess = [s \in Sessions |-> AbsentRow] /\ sessC = sess
  /\ owner = [r \in Rows |-> NoConn]
  /\ lockCount = [c \in Connections |-> 0]
  /\ aborted = [c \in Connections |-> FALSE]
  /\ pc = [c \in Connections |-> "idle"]
  /\ req = [c \in Connections |-> IdleRequest]
  /\ story = [s \in Sessions |-> "none"]
  /\ leaks = [c \in Connections |-> 0]
  /\ turns = 0 /\ calls = 0 /\ crashes = 0
-----------------------------------------------------------------------------
(* Transactions.                                                           *)

MyConv(c) == IF owner[ConvRow] = c THEN conv ELSE convC
MySess(c, s) == IF owner[s] = c THEN sess[s] ELSE sessC[s]
MyOpen(c) == {s \in Sessions : Open(MySess(c, s))}
MayWrite(c, r) == owner[r] \in {c, NoConn}

(* Writes to the conversation row and to session row s.  Both take the row  *)
(* lock and wait while another transaction has it.                          *)
WriteConv(c, row) ==
  /\ MayWrite(c, ConvRow)
  /\ conv' = row
  /\ owner' = [owner EXCEPT ![ConvRow] = c]
  /\ UNCHANGED <<convC, sess, sessC>>
WriteSess(c, s, row) ==
  /\ MayWrite(c, s)
  /\ sess' = [sess EXCEPT ![s] = row]
  /\ owner' = [owner EXCEPT ![s] = c]
  /\ UNCHANGED <<conv, convC, sessC>>
WriteBoth(c, crow, s, row) ==
  /\ MayWrite(c, ConvRow) /\ MayWrite(c, s)
  /\ conv' = crow
  /\ sess' = [sess EXCEPT ![s] = row]
  /\ owner' = [owner EXCEPT ![ConvRow] = c, ![s] = c]
  /\ UNCHANGED <<convC, sessC>>

Released(c) == [r \in Rows |-> IF owner[r] = c THEN NoConn ELSE owner[r]]
CommitTx(c) ==
  /\ convC' = MyConv(c)
  /\ sessC' = [s \in Sessions |-> MySess(c, s)]
  /\ owner' = Released(c)
  /\ UNCHANGED <<conv, sess>>
RollbackTx(c) ==
  /\ conv' = IF owner[ConvRow] = c THEN convC ELSE conv
  /\ sess' = [s \in Sessions |-> IF owner[s] = c THEN sessC[s] ELSE sess[s]]
  /\ owner' = Released(c)
  /\ UNCHANGED <<convC, sessC>>

Goto(c, p) == pc' = [pc EXCEPT ![c] = p]
At(c, p) == pc[c] = p
(* A step of the request that touches neither locks, Mitra nor the bounds. *)
Local == UNCHANGED <<lockCount, aborted, story, leaks, budget>>
-----------------------------------------------------------------------------
(* POST /api/chat: from the request to the COMMIT before the handler.      *)

(* get_or_create reads the conversation BEFORE the lock is tried.          *)
StartTurn(c) ==
  /\ At(c, "idle") /\ turns < MaxTurns /\ lockCount[c] < MaxHeld
  /\ req' = [req EXCEPT ![c] = [IdleRequest EXCEPT !.kind = "turn", !.pin = convC.pin]]
  /\ turns' = turns + 1
  /\ Goto(c, "lock")
  /\ UNCHANGED <<rowVars, lockCount, aborted, story, leaks, calls, crashes>>

(* pg_try_advisory_lock: never waits, and is re-entrant on one connection.  *)
LockFree(c) == \A d \in Connections \ {c} : lockCount[d] = 0
TryLock(c) ==
  /\ At(c, "lock") /\ LockFree(c)
  /\ lockCount' = [lockCount EXCEPT ![c] = @ + 1]
  /\ Goto(c, "record")
  /\ UNCHANGED <<rowVars, aborted, req, story, leaks, budget>>

(* ConcurrentTurnError: 409, nothing written.                              *)
RefuseTurnUnlocks(c) ==              \* variant: the lock is taken inside the try
  At(c, "lock") /\ ~LockFree(c) /\ Goto(c, "unlock") /\ UNCHANGED <<rowVars, req>> /\ Local
RefuseTurnWaits(c) ==                \* variant: a blocking pg_advisory_lock
  At(c, "lock") /\ ~LockFree(c) /\ FALSE /\ UNCHANGED vars
RefuseTurn(c) ==
  /\ At(c, "lock") /\ ~LockFree(c)
  /\ Goto(c, "close")
  /\ UNCHANGED <<rowVars, req>> /\ Local

(* Steps 2-3b: next_seq_for_update, insert the user message, touch.        *)
RecordUserMessage(c) ==
  /\ At(c, "record")
  /\ LET seq == Len(MyConv(c).log) + 1
     IN  /\ WriteConv(c, [MyConv(c) EXCEPT !.log = Append(@, [role |-> "user", re |-> seq])])
         /\ req' = [req EXCEPT ![c].asked = seq]
  /\ Goto(c, "route")
  /\ Local

(* Step 4, gate 1: the client names a selectable agent ...                 *)
RouteExplicit(c) ==
  /\ At(c, "route")
  /\ \E a \in Agents : req' = [req EXCEPT ![c].agt = a]
  /\ Goto(c, "limits")
  /\ UNCHANGED rowVars /\ Local

(* ... or one that does not exist (AgentNotFound, 404).                    *)
RouteUnknown(c) ==
  /\ At(c, "route")
  /\ Goto(c, "unlock")
  /\ UNCHANGED <<rowVars, req>> /\ Local

(* Gate 2 reads the pin from the DTO of step 1, then the open session.     *)
PinFor(c) ==
  IF req[c].pin # NoAgent THEN {req[c].pin}
  ELSE {MySess(c, s).agent : s \in MyOpen(c)}
RoutePinned(c) ==
  /\ At(c, "route")
  /\ \E a \in PinFor(c) : req' = [req EXCEPT ![c].agt = a]
  /\ Goto(c, "limits")
  /\ UNCHANGED rowVars /\ Local

(* Gates 3-5: keyword, LLM, default.  Only the LLM reports a confidence of  *)
(* its own, and nothing bounds it from above.                              *)
RouteUnpinned(c) ==
  /\ At(c, "route") /\ PinFor(c) = {}
  /\ \E a \in Agents, bad \in BOOLEAN :
       req' = [req EXCEPT ![c].agt = a, ![c].badConf = bad]
  /\ Goto(c, "limits")
  /\ UNCHANGED rowVars /\ Local

(* An exit command under gate 1 or 2: _exit_to_default reads the open       *)
(* session (if any) that abandon is going to close.                        *)
RouteExit(c) ==
  /\ At(c, "route")
  /\ \E s \in IF MyOpen(c) = {} THEN {NoSession} ELSE MyOpen(c) :
       req' = [req EXCEPT ![c].agt = DefaultAgent, ![c].sid = s]
  /\ Goto(c, "exit")
  /\ UNCHANGED rowVars /\ Local

Abandoned(row) == [row EXCEPT !.st = "abandoned"]
Unpinned(row) == [row EXCEPT !.pin = NoAgent]

ExitNoSession(c) ==
  /\ At(c, "exit") /\ req[c].sid = NoSession
  /\ WriteConv(c, Unpinned(MyConv(c)))
  /\ Goto(c, "limits")
  /\ UNCHANGED req /\ Local
ExitAbandon(c) ==
  /\ At(c, "exit") /\ req[c].sid # NoSession
  /\ Open(MySess(c, req[c].sid))
  /\ WriteBoth(c, Unpinned(MyConv(c)), req[c].sid, Abandoned(MySess(c, req[c].sid)))
  /\ Goto(c, "limits")
  /\ UNCHANGED req /\ Local
(* The UPDATE found the row already terminal: ConcurrentModificationError. *)
ExitRaced(c) ==
  /\ At(c, "exit") /\ req[c].sid # NoSession
  /\ ~Open(MySess(c, req[c].sid))
  /\ Goto(c, "unlock")
  /\ UNCHANGED <<rowVars, req>> /\ Local

(* Step 5: max_turns and the per-minute rate, on data and time that are     *)
(* abstracted here: either verdict is possible.  429 keeps the message.    *)
LimitPassed(c) ==
  /\ At(c, "limits")
  /\ Goto(c, "attach")
  /\ UNCHANGED <<rowVars, req>> /\ Local
LimitExceeded(c) ==
  /\ At(c, "limits")
  /\ Goto(c, "unlock")
  /\ UNCHANGED <<rowVars, req>> /\ Local

(* Steps 6-8: open_for and pin.                                            *)
Pinned(c, row) == IF req[c].agt \in PinAgents THEN [row EXCEPT !.pin = req[c].agt] ELSE row
AttachExisting(c) ==
  /\ At(c, "attach")
  /\ \E s \in MyOpen(c) :
       /\ MySess(c, s).agent = req[c].agt
       /\ req' = [req EXCEPT ![c].sid = s, ![c].seen = MySess(c, s).st]
  /\ WriteConv(c, Pinned(c, MyConv(c)))
  /\ Goto(c, "commit1")
  /\ Local
AttachOther(c) ==
  /\ At(c, "attach")
  /\ \E s \in MyOpen(c) :
       /\ MySess(c, s).agent # req[c].agt
       /\ req' = [req EXCEPT ![c].sid = s]
  /\ Goto(c, "displace")
  /\ UNCHANGED rowVars /\ Local
AttachNone(c) ==
  /\ At(c, "attach") /\ MyOpen(c) = {} /\ req[c].agt \notin PinAgents
  /\ req' = [req EXCEPT ![c].sid = NoSession, ![c].seen = "absent"]
  /\ Goto(c, "commit1")
  /\ UNCHANGED rowVars /\ Local
AttachNewIfUnclaimed(c) ==           \* variant: only claimable sessions count as open
  /\ At(c, "attach") /\ req[c].agt \in PinAgents
  /\ \A s \in MyOpen(c) : MySess(c, s).st \notin Claimable
  /\ \E s \in Sessions :
       /\ sess[s] = AbsentRow /\ sessC[s] = AbsentRow
       /\ WriteBoth(c, Pinned(c, MyConv(c)), s, PendingRow(req[c].agt))
       /\ req' = [req EXCEPT ![c].sid = s, ![c].seen = "pending"]
  /\ Goto(c, "commit1")
  /\ Local
AttachNew(c) ==
  /\ At(c, "attach") /\ MyOpen(c) = {} /\ req[c].agt \in PinAgents
  /\ \E s \in Sessions :
       /\ sess[s] = AbsentRow /\ sessC[s] = AbsentRow
       /\ WriteBoth(c, Pinned(c, MyConv(c)), s, PendingRow(req[c].agt))
       /\ req' = [req EXCEPT ![c].sid = s, ![c].seen = "pending"]
  /\ Goto(c, "commit1")
  /\ Local

(* The open session belongs to another agent: abandon it and unpin.        *)
Displace(c) ==
  /\ At(c, "displace") /\ Open(MySess(c, req[c].sid))
  /\ WriteBoth(c, Unpinned(MyConv(c)), req[c].sid, Abandoned(MySess(c, req[c].sid)))
  /\ Goto(c, "attach")
  /\ UNCHANGED req /\ Local
(* It went terminal meanwhile: before abandon's own read (nothing left to   *)
(* do) or after it (ConcurrentModificationError).                          *)
DisplaceRaced(c) ==
  /\ At(c, "displace") /\ ~Open(MySess(c, req[c].sid))
  /\ \E p \in {"attach", "unlock"} : Goto(c, p)
  /\ UNCHANGED <<rowVars, req>> /\ Local

(* Step 9.                                                                 *)
CommitBeforeHandlerXactLock(c) ==    \* variant: pg_try_advisory_xact_lock
  /\ At(c, "commit1")
  /\ CommitTx(c)
  /\ lockCount' = [lockCount EXCEPT ![c] = 0]
  /\ Goto(c, "handle")
  /\ UNCHANGED <<req, aborted, story, leaks, budget>>
CommitBeforeHandler(c) ==
  /\ At(c, "commit1")
  /\ CommitTx(c)
  /\ Goto(c, "handle")
  /\ UNCHANGED req /\ Local
-----------------------------------------------------------------------------
(* The handler call, and what follows it.                                  *)

(* A reply, or the reply _recover_timed_out_turn fetched.  Only an          *)
(* interview has a session delta and may report that it is done.           *)
HandlerReplies(c) ==
  /\ At(c, "handle")
  /\ IF req[c].agt \in RemoteAgents
     THEN /\ req[c].sid # NoSession
          /\ \E d \in BOOLEAN : req' = [req EXCEPT ![c].done = d]
          /\ Goto(c, "apply")
     ELSE /\ UNCHANGED req
          /\ Goto(c, "reply")
  /\ UNCHANGED rowVars /\ Local
(* A timeout that was not recovered, or any other exception.               *)
HandlerFailsNoUnlock(c) ==           \* variant: the unlock is not in a finally
  At(c, "handle") /\ Goto(c, "close") /\ UNCHANGED <<rowVars, req>> /\ Local
HandlerFails(c) ==
  /\ At(c, "handle")
  /\ Goto(c, "unlock")
  /\ UNCHANGED <<rowVars, req>> /\ Local

(* SessionService.apply(awaiting_user): the transition table, then an       *)
(* UPDATE guarded by the state the DTO was read in.                        *)
MayApplyUnguarded(c) ==              \* variant: the UPDATE does not test the state
  "awaiting_user" \in ALLOWED[req[c].seen]
MayApply(c) ==
  /\ "awaiting_user" \in ALLOWED[req[c].seen]
  /\ MySess(c, req[c].sid).st = req[c].seen
ApplyRow(c) == [MySess(c, req[c].sid) EXCEPT !.st = "awaiting_user", !.remote = TRUE]
ApplyDelta(c) ==
  /\ At(c, "apply") /\ MayApply(c)
  /\ WriteSess(c, req[c].sid, ApplyRow(c))
  /\ Goto(c, IF req[c].done THEN "claim" ELSE "reply")
  /\ UNCHANGED req /\ Local
(* InvalidTransitionError or ConcurrentModificationError.                  *)
ApplyRejectedSwallowed(c) ==         \* variant: the error is only logged
  At(c, "apply") /\ ~MayApply(c) /\ Goto(c, "reply") /\ UNCHANGED <<rowVars, req>> /\ Local
ApplyRejected(c) ==
  /\ At(c, "apply") /\ ~MayApply(c)
  /\ Goto(c, "unlock")
  /\ UNCHANGED <<rowVars, req>> /\ Local

(* Steps 12-14: next_seq_for_update, insert the reply, touch.              *)
InsertReply(c) ==
  /\ At(c, "reply") /\ ~req[c].badConf
  /\ WriteConv(c, [MyConv(c) EXCEPT
                     !.log = Append(@, [role |-> "assistant", re |-> req[c].asked])])
  /\ Goto(c, "commit2")
  /\ UNCHANGED req /\ Local
(* msg_confidence: the flush fails and the transaction is rolled back.     *)
InsertReplyRejected(c) ==
  /\ At(c, "reply") /\ req[c].badConf
  /\ MayWrite(c, ConvRow)
  /\ RollbackTx(c)
  /\ aborted' = [aborted EXCEPT ![c] = TRUE]
  /\ Goto(c, "unlock")
  /\ UNCHANGED <<req, lockCount, story, leaks, budget>>
CommitReply(c) ==
  /\ At(c, "commit2")
  /\ CommitTx(c)
  /\ Goto(c, "unlock")
  /\ UNCHANGED req /\ Local

(* finally: pg_advisory_unlock.  On a failed transaction the statement      *)
(* raises, the exception is swallowed and the lock stays.                  *)
Unlock(c) ==
  /\ At(c, "unlock")
  /\ lockCount' = [lockCount EXCEPT ![c] = IF aborted[c] THEN @ ELSE @ - 1]
  /\ leaks' = [leaks EXCEPT ![c] = IF aborted[c] THEN @ + 1 ELSE @]
  /\ Goto(c, "close")
  /\ UNCHANGED <<rowVars, req, aborted, story, budget>>
-----------------------------------------------------------------------------
(* OrchestrationService._finalize, inside a turn or a finalize request.    *)

AfterFinalize(c) == IF req[c].kind = "turn" THEN "reply" ELSE "close"
AfterError(c, commits) ==
  IF req[c].kind = "turn" THEN "unlock" ELSE IF commits THEN "close" ELSE "rollback"

StartFinalize(c) ==
  /\ At(c, "idle") /\ calls < MaxCalls
  /\ \E s \in Sessions :
       /\ sessC[s].st # "absent"
       /\ req' = [req EXCEPT ![c] = [IdleRequest EXCEPT !.kind = "finalize", !.sid = s]]
  /\ calls' = calls + 1
  /\ Goto(c, "claim")
  /\ UNCHANGED <<rowVars, lockCount, aborted, story, leaks, turns, crashes>>

(* claim_finalizing: UPDATE ... WHERE state IN (claimable).                *)
ClaimCheckOnly(c) ==                 \* variant: the claim reads the state, writes nothing
  /\ At(c, "claim") /\ MySess(c, req[c].sid).st \in Claimable
  /\ Goto(c, "submit")
  /\ UNCHANGED <<rowVars, req>> /\ Local
Claim(c) ==
  /\ At(c, "claim") /\ MySess(c, req[c].sid).st \in Claimable
  /\ WriteSess(c, req[c].sid, [MySess(c, req[c].sid) EXCEPT !.st = "finalizing"])
  /\ Goto(c, "submit")
  /\ UNCHANGED req /\ Local
ClaimLost(c) ==
  /\ At(c, "claim") /\ MySess(c, req[c].sid).st \notin Claimable
  /\ Goto(c, AfterFinalize(c))
  /\ UNCHANGED <<rowVars, req>> /\ Local

(* The end-story call reaches Mitra, which creates at most one story per    *)
(* session: it answers with the new story ...                              *)
SubmitAccepted(c) ==
  /\ At(c, "submit") /\ story[req[c].sid] = "none"
  /\ story' = [story EXCEPT ![req[c].sid] = "created"]
  /\ Goto(c, "report")
  /\ UNCHANGED <<rowVars, req, lockCount, aborted, leaks, budget>>
(* ... or the call fails: not delivered, the answer lost on the way back,   *)
(* or refused because the story exists.  The session is set failed, and the *)
(* error is a MitraError (the routes return it) or not (it escapes them).  *)
SubmitFailsTolerated(c) ==           \* variant: a failed call is non-fatal, as get_report's is
  At(c, "submit") /\ Goto(c, "report") /\ UNCHANGED <<rowVars, req>> /\ Local
SubmitFails(c) ==
  /\ At(c, "submit")
  /\ LET s == req[c].sid
     IN  /\ \E st \in IF story[s] = "none" THEN {"none", "created"} ELSE {"resubmitted"} :
              story' = [story EXCEPT ![s] = st]
         /\ WriteSess(c, s, [MySess(c, s) EXCEPT !.st = "failed"])
  /\ \E mitraError \in BOOLEAN : Goto(c, AfterError(c, mitraError))
  /\ UNCHANGED <<req, lockCount, aborted, leaks, budget>>

(* get_report returns, or raises a MitraError that is only logged; then     *)
(* apply(completed).                                                       *)
Complete(c) ==
  /\ At(c, "report")
  /\ WriteSess(c, req[c].sid, [MySess(c, req[c].sid) EXCEPT !.st = "completed"])
  /\ Goto(c, "unpin")
  /\ UNCHANGED req /\ Local
(* get_report raises anything else (a story_media that is null, a body that *)
(* is not an object): nothing catches it.                                  *)
ReportRaises(c) ==
  /\ At(c, "report")
  /\ Goto(c, AfterError(c, FALSE))
  /\ UNCHANGED <<rowVars, req>> /\ Local

Unpin(c) ==
  /\ At(c, "unpin")
  /\ WriteConv(c, Unpinned(MyConv(c)))
  /\ Goto(c, AfterFinalize(c))
  /\ UNCHANGED req /\ Local
-----------------------------------------------------------------------------
(* POST /api/sessions/{id}/resume.                                         *)

UserSeqs(log) == {i \in 1..Len(log) : log[i].role = "user"}

(* Reads the session and the last user message; a session without remote    *)
(* ids cannot be reconciled (NOT_DELIVERED).                               *)
StartResume(c) ==
  /\ At(c, "idle") /\ calls < MaxCalls
  /\ \E s \in Sessions, i \in UserSeqs(convC.log) :
       /\ sessC[s].st # "absent"
       /\ \A j \in UserSeqs(convC.log) : j <= i
       /\ req' = [req EXCEPT ![c] = [IdleRequest EXCEPT !.kind = "resume", !.sid = s,
                    !.seen = sessC[s].st, !.asked = i]]
       /\ Goto(c, IF sessC[s].remote THEN "reconcile" ELSE "close")
  /\ calls' = calls + 1
  /\ UNCHANGED <<rowVars, lockCount, aborted, story, leaks, turns, crashes>>

(* What Mitra's transcript says of the message: ANSWERED, or anything else. *)
ReconcileAnswered(c) ==
  /\ At(c, "reconcile")
  /\ Goto(c, "store")
  /\ UNCHANGED <<rowVars, req>> /\ Local
ReconcileUnanswered(c) ==
  /\ At(c, "reconcile")
  /\ Goto(c, "close")
  /\ UNCHANGED <<rowVars, req>> /\ Local

StoreRecovered(c) ==
  /\ At(c, "store")
  /\ WriteConv(c, [MyConv(c) EXCEPT
                     !.log = Append(@, [role |-> "recovered", re |-> req[c].asked])])
  /\ Goto(c, "reapply")
  /\ UNCHANGED req /\ Local
ResumeApply(c) ==
  /\ At(c, "reapply") /\ MayApply(c)
  /\ WriteSess(c, req[c].sid, ApplyRow(c))
  /\ Goto(c, "close")
  /\ UNCHANGED req /\ Local
ResumeRejected(c) ==
  /\ At(c, "reapply") /\ ~MayApply(c)
  /\ Goto(c, "rollback")
  /\ UNCHANGED <<rowVars, req>> /\ Local
-----------------------------------------------------------------------------
(* POST /api/sessions/{id}/abandon and the abandon of POST /api/reset: a    *)
(* read of the open session, then UPDATE ... WHERE conversation_id = ...    *)
(* AND state is open, then unpin.                                          *)
StartAbandon(c) ==
  /\ At(c, "idle") /\ calls < MaxCalls
  /\ \E s \in MyOpen(c) :
       req' = [req EXCEPT ![c] = [IdleRequest EXCEPT !.kind = "abandon", !.sid = s]]
  /\ calls' = calls + 1
  /\ Goto(c, "abandon")
  /\ UNCHANGED <<rowVars, lockCount, aborted, story, leaks, turns, crashes>>
AbandonRowKeepsPin(c) ==             \* variant: abandon does not unpin
  /\ At(c, "abandon") /\ Open(MySess(c, req[c].sid))
  /\ WriteSess(c, req[c].sid, Abandoned(MySess(c, req[c].sid)))
  /\ Goto(c, "close")
  /\ UNCHANGED req /\ Local
AbandonRow(c) ==
  /\ At(c, "abandon") /\ Open(MySess(c, req[c].sid))
  /\ WriteSess(c, req[c].sid, Abandoned(MySess(c, req[c].sid)))
  /\ Goto(c, "unpin")
  /\ UNCHANGED req /\ Local
(* The row read is terminal by now.  An UPDATE that starts only now hits    *)
(* whichever session is open instead ...                                   *)
AbandonNewer(c) ==
  /\ At(c, "abandon") /\ ~Open(MySess(c, req[c].sid))
  /\ \E s \in MyOpen(c) :
       /\ WriteSess(c, s, Abandoned(MySess(c, s)))
       /\ req' = [req EXCEPT ![c].sid = s]
  /\ Goto(c, "unpin")
  /\ Local
(* ... or no row at all (ConcurrentModificationError, 500).                *)
AbandonRaced(c) ==
  /\ At(c, "abandon") /\ ~Open(MySess(c, req[c].sid))
  /\ Goto(c, "rollback")
  /\ UNCHANGED <<rowVars, req>> /\ Local
-----------------------------------------------------------------------------
(* get_db: commit when the route returned, roll back when it raised.       *)
EndRequest(c) ==
  /\ req' = [req EXCEPT ![c] = IdleRequest]
  /\ aborted' = [aborted EXCEPT ![c] = FALSE]
  /\ Goto(c, "idle")
  /\ UNCHANGED <<lockCount, story, leaks, budget>>
Close(c) == At(c, "close") /\ CommitTx(c) /\ EndRequest(c)
Rollback(c) == At(c, "rollback") /\ RollbackTx(c) /\ EndRequest(c)

(* PostgreSQL: two transactions that wait for each other's row.  The        *)
(* statement of one of them fails.                                         *)
Wanted(c) ==
  IF pc[c] \in {"record", "reply", "unpin", "store"} THEN {ConvRow}
  ELSE IF \/ pc[c] \in {"exit", "displace", "abandon"} /\ req[c].sid # NoSession
             /\ Open(MySess(c, req[c].sid))
          \/ pc[c] \in {"apply", "reapply"} /\ MayApply(c)
          \/ pc[c] = "claim" /\ MySess(c, req[c].sid).st \in Claimable
       THEN {req[c].sid}
  ELSE {}
Blocks(d, c) == d # c /\ \E r \in Wanted(c) : owner[r] = d
DeadlockVictim(c) ==
  /\ \E d \in Connections : Blocks(d, c) /\ Blocks(c, d)
  /\ RollbackTx(c)
  /\ aborted' = [aborted EXCEPT ![c] = req[c].kind = "turn"]
  /\ Goto(c, AfterError(c, FALSE))
  /\ UNCHANGED <<req, lockCount, story, leaks, budget>>

(* The process dies: its connections close, and with them go their          *)
(* transactions and advisory locks.                                        *)
Crash ==
  /\ crashes < MaxCrashes
  /\ \E c \in Connections : ~At(c, "idle")
  /\ conv' = convC /\ sess' = sessC
  /\ owner' = [r \in Rows |-> NoConn]
  /\ lockCount' = [c \in Connections |-> 0]
  /\ leaks' = [c \in Connections |-> 0]
  /\ aborted' = [c \in Connections |-> FALSE]
  /\ pc' = [c \in Connections |-> "idle"]
  /\ req' = [c \in Connections |-> IdleRequest]
  /\ crashes' = crashes + 1
  /\ UNCHANGED <<convC, sessC, story, turns, calls>>

(* pool_recycle: a pooled connection past its age is replaced.  Only the    *)
(* effect matters here, so only a connection that holds a lock takes it.   *)
Recycle(c) ==
  /\ At(c, "idle") /\ lockCount[c] > 0
  /\ lockCount' = [lockCount EXCEPT ![c] = 0]
  /\ leaks' = [leaks EXCEPT ![c] = 0]
  /\ UNCHANGED <<rowVars, aborted, pc, req, story, budget>>
-----------------------------------------------------------------------------
TurnStep(c) ==
  \/ TryLock(c) \/ RefuseTurn(c) \/ RecordUserMessage(c)
  \/ RouteExplicit(c) \/ RouteUnknown(c) \/ RoutePinned(c) \/ RouteUnpinned(c)
  \/ RouteExit(c) \/ ExitNoSession(c) \/ ExitAbandon(c) \/ ExitRaced(c)
  \/ LimitPassed(c) \/ LimitExceeded(c)
  \/ AttachExisting(c) \/ AttachOther(c) \/ AttachNone(c) \/ AttachNew(c)
  \/ Displace(c) \/ DisplaceRaced(c) \/ CommitBeforeHandler(c)
  \/ HandlerReplies(c) \/ HandlerFails(c) \/ ApplyDelta(c) \/ ApplyRejected(c)
  \/ InsertReply(c) \/ InsertReplyRejected(c) \/ CommitReply(c) \/ Unlock(c)
FinalizeStep(c) ==
  \/ Claim(c) \/ ClaimLost(c) \/ SubmitAccepted(c) \/ SubmitFails(c)
  \/ Complete(c) \/ ReportRaises(c) \/ Unpin(c)
ResumeStep(c) ==
  \/ ReconcileAnswered(c) \/ ReconcileUnanswered(c)
  \/ StoreRecovered(c) \/ ResumeApply(c) \/ ResumeRejected(c)
AbandonStep(c) == AbandonRow(c) \/ AbandonNewer(c) \/ AbandonRaced(c)
EndStep(c) == Close(c) \/ Rollback(c) \/ DeadlockVictim(c)
(* What a request and the database do once it has arrived.                 *)
Step(c) ==
  TurnStep(c) \/ FinalizeStep(c) \/ ResumeStep(c) \/ AbandonStep(c) \/ EndStep(c)
(* What the clients and the pool do.                                       *)
Environment(c) ==
  \/ StartTurn(c) \/ StartFinalize(c) \/ StartResume(c) \/ StartAbandon(c)
  \/ Recycle(c)

AllIdle == \A c \in Connections : At(c, "idle")
(* Between requests the server may rest for ever; in the middle of one it   *)
(* may not, so TLC reports requests that wait on each other as a deadlock. *)
Rest == AllIdle /\ UNCHANGED vars

Next ==
  \/ \E c \in Connections : Step(c) \/ Environment(c)
  \/ Crash
  \/ Rest

Spec == Init /\ [][Next]_vars

(* Every accepted request keeps running: its thread is scheduled, the REST  *)
(* and socket calls have timeouts, and PostgreSQL breaks lock cycles.      *)
Fairness == \A c \in Connections : WF_vars(Step(c))
FairSpec == Spec /\ Fairness
=============================================================================
