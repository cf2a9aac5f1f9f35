--------------------------- MODULE ConversationLog ---------------------------
(***************************************************************************)
(* What one conversation promises to whoever reads its history: the user    *)
(* and Saarthi take turns.  A question is recorded, at most one question is *)
(* being answered at any time, and an answer follows its own question with  *)
(* no other question in between, because Mitra merges two consecutive user  *)
(* messages into one and thereby destroys an answer (orchestration.py,      *)
(* handle_turn, step 1b).  A question may also remain unanswered: the agent *)
(* was unknown, a limit was hit, the handler failed, the server died.       *)
(* resume_turn may add a reply that Mitra had given to an earlier question. *)
(***************************************************************************)
EXTENDS Naturals, Sequences

VARIABLES
  log,   \* the committed messages, in seq order
  open   \* the seq of the question being answered, 0 for none
logVars == <<log, open>>

User(seq) == [role |-> "user", re |-> seq]
Reply(role, seq) == [role |-> role, re |-> seq]
Questions == {i \in 1..Len(log) : log[i].role = "user"}

Init == log = <<>> /\ open = 0

(* A question is recorded and is being answered.                           *)
Ask ==
  /\ open = 0
  /\ log' = Append(log, User(Len(log) + 1))
  /\ open' = Len(log) + 1
(* A question is recorded that nobody will answer.                         *)
AskInVain ==
  /\ open = 0
  /\ log' = Append(log, User(Len(log) + 1))
  /\ UNCHANGED open
Answer ==
  /\ open # 0
  /\ log' = Append(log, Reply("assistant", open))
  /\ open' = 0
GiveUp ==
  /\ open # 0
  /\ open' = 0
  /\ UNCHANGED log
(* A reply that was lost is fetched again and recorded late.               *)
Recover ==
  /\ \E i \in Questions : log' = Append(log, Reply("recovered", i))
  /\ UNCHANGED open

Next == Ask \/ AskInVain \/ Answer \/ GiveUp \/ Recover
Spec == Init /\ [][Next]_logVars
=============================================================================
