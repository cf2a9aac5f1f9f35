------------------------- MODULE TurnPipelineProps -------------------------
(***************************************************************************)
(* What the requests of TurnPipeline guarantee together, and what they do   *)
(* not.  The first group holds; the second group states what the code's     *)
(* comments say and the model refutes.                                      *)
(***************************************************************************)
EXTENDS TurnPipeline

InTurn(c) == req[c].kind = "turn" /\ pc[c] \in LockedPoints

-----------------------------------------------------------------------------
(* Safety.                                                                 *)

(* handle_turn: between the advisory lock and its release, across the       *)
(* COMMIT of step 9 and the handler call, a conversation runs one turn.     *)
(* Leaked locks, crashes and recycled connections never let a second one in.*)
TurnExclusion == \A c, d \in Connections : InTurn(c) /\ InTurn(d) => c = d

(* _try_lock_conversation and _unlock_conversation: a connection holds the  *)
(* conversation's lock as often as its current turn and the unlocks that    *)
(* failed on it account for; no path out of handle_turn forgets the unlock  *)
(* or unlocks twice.                                                       *)
LockAccounting ==
  \A c \in Connections : lockCount[c] = leaks[c] + (IF InTurn(c) THEN 1 ELSE 0)

(* open_for and abandon: the partial unique index uq_sess_one_open_per_conv *)
(* never has to refuse a row, whatever abandon and finalize requests (which *)
(* take no turn lock) do to the session meanwhile.                         *)
AtMostOneOpenSession ==
  /\ \A s, t \in Sessions : Open(sess[s]) /\ Open(sess[t]) => s = t
  /\ \A s, t \in Sessions : Open(sessC[s]) /\ Open(sessC[t]) => s = t

(* claim_finalizing: of all the requests that finalize a session, only one  *)
(* is at Mitra's end-story call or its report, and its claim still stands.  *)
SingleSubmitter ==
  \A c \in Connections : pc[c] \in {"submit", "report"} =>
    /\ sess[req[c].sid].st = "finalizing"
    /\ \A d \in Connections \ {c} :
         pc[d] \in {"submit", "report"} => req[d].sid # req[c].sid

(* _finalize: a session is completed only when Mitra has its story, however *)
(* often finalisation was tried, lost or rolled back before.               *)
CompletedHasStory ==
  \A s \in Sessions : sessC[s].st = "completed" => story[s] # "none"

(* pin, unpin and the session rows, which no constraint relates: an open    *)
(* session is the pinned agent's, and a pin without an open session is left *)
(* only by a finalisation that failed (its error path forgets to unpin).    *)
PinAgreesWithSession ==
  /\ \A s \in Sessions : Open(sessC[s]) => convC.pin = sessC[s].agent
  /\ convC.pin # NoAgent =>
       \E s \in Sessions : /\ sessC[s].agent = convC.pin
                           /\ Open(sessC[s]) \/ sessC[s].st = "failed"

-----------------------------------------------------------------------------
(* Action properties.                                                      *)

(* ALLOWED and the guarded UPDATEs: what a committed row says of a session  *)
(* that ended is never changed again, and a session never changes agent.    *)
TerminalIsFinal ==
  [][\A s \in Sessions :
       /\ sessC[s].st \in TERMINAL => sessC'[s] = sessC[s]
       /\ sessC[s].st # "absent" => sessC'[s].agent = sessC[s].agent]_vars

(* handle_turn, steps 11-14: the reply of an interview and the progress of  *)
(* its session are one commit.  A session that was abandoned or failed      *)
(* while the handler ran receives no reply.                                *)
ReplyNeedsSession ==
  [][\A c \in Connections :
       (At(c, "commit2") /\ pc'[c] = "unlock" /\ req[c].agt \in RemoteAgents) =>
         sessC'[req[c].sid].st \in {"awaiting_user", "finalizing", "completed"}]_vars

-----------------------------------------------------------------------------
(* Refinement: the committed history is a ConversationLog.  A question is   *)
(* being answered from the commit of step 9 until the turn has stored its   *)
(* reply or given up.                                                      *)

AnsweringPoints ==
  {"handle", "apply", "claim", "submit", "report", "unpin", "reply", "commit2"}
Answering == {c \in Connections : req[c].kind = "turn" /\ pc[c] \in AnsweringPoints}
OpenQuestion ==
  IF Answering = {} THEN 0 ELSE req[CHOOSE c \in Answering : TRUE].asked

Log == INSTANCE ConversationLog WITH log <- convC.log, open <- OpenQuestion
(* handle_turn, resume_turn and the error paths implement ConversationLog:  *)
(* at most one question is being answered, and an answer follows its own    *)
(* question with nothing but recovered replies in between.                  *)
ImplementsLog == Log!Spec

-----------------------------------------------------------------------------
(* Liveness.                                                               *)

(* Every request comes to an end and gives its connection back: no lock,    *)
(* row or session state lets one wait for ever (deadlocks between rows are  *)
(* broken by PostgreSQL, the turn lock never blocks).                      *)
RequestEnds == \A c \in Connections : ~At(c, "idle") ~> At(c, "idle")

-----------------------------------------------------------------------------
(* What the comments say, and the code does not do.                        *)

(* dependencies/db.py:102-103: "the real guarantee is that handle_turn's    *)
(* explicit unlock ran on this same connection".  Then a connection that    *)
(* serves no request would hold no turn lock.                              *)
LockReleasedWithRequest ==
  \A c \in Connections : At(c, "idle") => lockCount[c] = 0

(* orchestration.py:602-605, _finalize: the conditional claim makes "a      *)
(* duplicate structurally impossible on Saarthi's side too": Mitra is never *)
(* asked twice for the story of one session.                               *)
SubmittedAtMostOnce == \A s \in Sessions : story[s] # "resubmitted"

(* orchestration.py:650-652, _finalize: "Don't leave the session stuck in   *)
(* 'finalizing' forever -- that state has no other way out."               *)
NoneLeftFinalizing ==
  AllIdle => \A s \in Sessions : sessC[s].st # "finalizing"
=============================================================================
