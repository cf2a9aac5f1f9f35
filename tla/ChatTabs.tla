------------------------------ MODULE ChatTabs ------------------------------
(***************************************************************************)
(* The chat page in the tabs of one user's browser, on ConversationStore.    *)
(*                                                                          *)
(* A handler runs to its first await at once; what follows an await runs when *)
(* the response is delivered.  A page may have several requests under way.    *)
(* An item of the transcript is <<kind, number>>: a message of the user, an   *)
(* agent's reply or an interview's question, and the button that recovers a    *)
(* timed out turn, each with its act; the notices of a finalizing and of a     *)
(* completed interview are <<kind, conversation, number>>.                   *)
(***************************************************************************)
EXTENDS ConversationStore, TLC

CONSTANTS
  Stored,      \* the conversation ids sessionStorage may hold when the tabs open
  MaxCalls,    \* bound: requests under way when the user acts, polls not counted
  ActsBefore   \* acts that made the first rows

\* The stored ids are those of rows, none, or one that no row has.
ASSUME ChatConstants ==
  /\ MaxCalls \in Nat /\ ActsBefore \in 0..MaxActs
  /\ \A rows \in Rows :
       /\ \A c \in DOMAIN rows : ActsOf(rows[c]) \subseteq 1..ActsBefore
       /\ \A ids \in Stored : ids \in [Tabs -> DOMAIN rows \cup {0, Stale}]

VARIABLES
  tab,   \* the page of each tab
  acts,  \* what the user did so far; the last one's number
  lost,  \* responses that never arrived
  odd    \* history: why a tab's transcript may be a mixture

vars == <<storeVars, calls, historyVars, tab, acts, lost, odd>>

Page(id) == [cid |-> id, busy |-> FALSE, key |-> FALSE, sess |-> NoSession, items |-> {}, polls |-> {}]
Mine(t) == {k \in calls : k.tab = t /\ k.live}
Waits(t) == \E k \in Mine(t) : k.kind # "poll"
Show(r, i) == [r EXCEPT !.items = @ \cup {i}]
Hide(r, kind) == [r EXCEPT !.items = {i \in @ : i[1] # kind}]

-----------------------------------------------------------------------------
(* ConversationContext.                                                      *)

\* Mutant: the flag is never set.
acquireNothing(r) == r
acquireBusy(r) == [r EXCEPT !.busy = TRUE]

\* Mutant: the flag is cleared only when the turn succeeded.
releaseOnSuccess(r, res) == IF res = "success" THEN [r EXCEPT !.busy = FALSE] ELSE r
releaseBusy(r, res) == [r EXCEPT !.busy = FALSE]

\* Mutant: the interview of the conversation left is remembered.
resetKeyOnly(r) == [r EXCEPT !.key = FALSE]
resetConversationScopedState(r) == [r EXCEPT !.key = FALSE, !.sess = NoSession]

\* Request n of page r joins the calls, unless a turn is in flight.
sendMessage(t, n, r, auto, others) ==
  IF r.busy
  THEN calls' = others /\ tab' = [tab EXCEPT ![t] = r]
  ELSE /\ calls' = others \cup {[Sent(t, n, "send") EXCEPT !.cid = r.cid, !.key = r.key,
                                                         !.auto = auto]}
       /\ tab' = [tab EXCEPT ![t] = acquireBusy(r)]

-----------------------------------------------------------------------------
(* What the user does.  An act while a request of the tab is under way is noted. *)

Acts ==
  /\ acts < MaxActs /\ acts' = acts + 1
  /\ Cardinality({k \in calls : k.kind # "poll"}) < MaxCalls

Act(t) ==
  /\ Acts
  /\ odd' = IF Waits(t) THEN [odd EXCEPT ![t] = @ \cup {"impatient"}] ELSE odd
  /\ UNCHANGED <<storeVars, historyVars, lost>>

\* A typed message, or an option of the last question.
handleSubmit(t) ==
  /\ Act(t) /\ ~tab[t].busy
  /\ sendMessage(t, acts', Show(tab[t], <<"user", acts'>>), FALSE, calls)

\* startNewConversation up to its await: New chat, an agent, a capability's button.
startNewConversation(t, then) ==
  /\ Act(t) /\ ~tab[t].busy
  /\ calls' = calls \cup {[Sent(t, acts', "reset") EXCEPT !.then = then]}
  /\ tab' = [tab EXCEPT ![t].polls = {}]
handleNewChat(t) == startNewConversation(t, "nothing")
handleSelectAgent(t) == startNewConversation(t, "agent")
handleActivateCapability(t) == startNewConversation(t, "autostart")

loadConversationHistory(t, n, c, r, others) ==
  /\ calls' = others \cup {[Sent(t, n, "load") EXCEPT !.cid = c]}
  /\ tab' = [tab EXCEPT ![t] = [resetConversationScopedState(r) EXCEPT !.polls = {}]]

handleSelectConversation(t) ==
  /\ Act(t) /\ ~tab[t].busy
  /\ \E i \in list_for_user :
       loadConversationHistory(t, acts', recent[i], tab[t], calls)

\* The recovery button: without a remembered interview the text is sent again.
handleRetry(t, n) ==
  /\ <<"retry", n>> \in tab[t].items /\ tab[t].sess = NoSession
  /\ Act(t)
  /\ sendMessage(t, acts', [tab[t] EXCEPT !.items = @ \ {<<"retry", n>>}], FALSE, calls)

handleResume(t, n) ==
  /\ <<"retry", n>> \in tab[t].items /\ tab[t].sess # NoSession
  /\ \A k \in Mine(t) : ~(k.kind = "resume" /\ k.item = n)
  /\ Act(t)
  /\ calls' = calls \cup {[Sent(t, acts', "resume") EXCEPT !.sess = tab[t].sess, !.item = n]}
  /\ UNCHANGED tab

\* The page is loaded again: sessionStorage keeps the id, the server its requests.
Reload(t) ==
  LET orphaned == {[k EXCEPT !.live = FALSE] : k \in {j \in Mine(t) : j.pc # "answered"}}
      others == (calls \ Mine(t)) \cup orphaned
  IN /\ Acts
     /\ IF tab[t].cid = 0
        THEN calls' = others /\ tab' = [tab EXCEPT ![t] = Page(0)]
        ELSE loadConversationHistory(t, acts', tab[t].cid, Page(tab[t].cid), others)
     /\ odd' = [odd EXCEPT ![t] = {}]
     /\ UNCHANGED <<storeVars, historyVars, lost>>

-----------------------------------------------------------------------------
(* Session lifecycle.                                                        *)

renderCompleted(r, s) == Show(Hide(r, "finalizing"), <<"completed", s[1], s[2]>>)
handleSession(r, s, state) ==
  CASE state = "finalizing" -> [Show(r, <<"finalizing", s[1], s[2]>>) EXCEPT !.polls = @ \cup {s}]
    [] state = "completed" -> renderCompleted(r, s)
    [] OTHER -> r

\* An interval of the page asks for the session's state; an answer other than a final
\* state changes nothing and is left out.
PollTick(t) ==
  /\ \E s \in tab[t].polls :
       /\ State(s) \notin Open
       /\ \A k \in Mine(t) : ~(k.kind = "poll" /\ k.sess = s)
       /\ calls' = calls \cup {PollRead(t, s)}
  /\ UNCHANGED <<storeVars, historyVars, tab, acts, lost, odd>>

polled(r, s, state) ==
  CASE state = "completed" -> [renderCompleted(r, s) EXCEPT !.polls = @ \ {s}]
    [] state \in {"failed", "abandoned"} -> [Hide(r, "finalizing") EXCEPT !.polls = @ \ {s}]
    [] OTHER -> r

-----------------------------------------------------------------------------
(* What follows the awaits.                                                  *)

Note(t, cond, why) == odd' = IF cond THEN [odd EXCEPT ![t] = @ \cup {why}] ELSE odd

\* An error names no conversation: the page keeps the id it sent.
SendAnswered(k) ==
  LET r == tab[k.tab]
      reply == [Show(r, <<IF k.iv THEN "question" ELSE "agent", k.id>>) EXCEPT
                  !.cid = k.conv, !.key = FALSE, !.sess = IF k.iv THEN k.sess ELSE @]
      shown == CASE k.res = "success" /\ k.iv -> handleSession(reply, k.sess, k.sessions[1])
                 [] k.res = "success" /\ ~k.iv -> reply
                 [] k.res = "timeout" -> Show(r, <<"retry", k.id>>)
                 [] OTHER -> r
  IN /\ At(k, "send", "answered")
     /\ tab' = [tab EXCEPT ![k.tab] = releaseBusy(shown, k.res)]
     /\ calls' = calls \ {k}
     /\ Note(k.tab, k.res # "success" /\ where[k.id] \notin {0, k.cid}, "unnamed")
     /\ UNCHANGED lost

adopted(r, id) == [resetConversationScopedState(r) EXCEPT !.cid = id, !.items = {}]

AfterReset(k, id, others) ==
  LET r == adopted(tab[k.tab], id)
      pinned == [r EXCEPT !.key = k.then # "nothing"]
  IN IF k.then = "autostart"
     THEN sendMessage(k.tab, k.id, pinned, TRUE, others)
     ELSE tab' = [tab EXCEPT ![k.tab] = pinned] /\ calls' = others
ResetAnswered(k) ==
  At(k, "reset", "answered") /\ AfterReset(k, k.conv, calls \ {k}) /\ UNCHANGED <<lost, odd>>

\* The newest session of a history is remembered unless it is completed.  Mutant: never.
restoredNothing(r, c, states) == r
restored(r, c, states) ==
  LET n == Len(states)
  IN IF n = 0 \/ (n > 0 /\ states[n] = "completed") THEN r
     ELSE [r EXCEPT !.sess = <<c, n>>]

\* Every completed session has its notice, and a finalizing one its poll.
replayed(r, c, states) ==
  LET notices == {<<"completed", c, i>> : i \in {j \in DOMAIN states : states[j] = "completed"}}
      shown == [restored(r, c, states) EXCEPT !.items = @ \cup notices]
      n == Len(states)
  IN IF n > 0 /\ states[n] = "finalizing" THEN handleSession(shown, <<c, n>>, states[n]) ELSE shown

\* 404: the id is forgotten.
LoadAnswered(k) ==
  LET r == tab[k.tab]
  IN /\ At(k, "load", "answered")
     /\ tab' = [tab EXCEPT ![k.tab] =
          IF k.res = "missing" THEN [r EXCEPT !.cid = 0, !.items = {}]
          ELSE replayed([r EXCEPT !.cid = k.cid, !.items = k.items], k.cid, k.sessions)]
     /\ calls' = calls \ {k}
     /\ UNCHANGED <<lost, odd>>

\* runResume has settled: the reply is shown, or the text may be sent again.
ResumeAnswered(k) ==
  LET r == [tab[k.tab] EXCEPT !.items = @ \ {<<"retry", k.item>>}]
  IN /\ At(k, "resume", "answered")
     /\ \/ /\ k.res = "success"
           /\ tab' = [tab EXCEPT ![k.tab] = [r EXCEPT !.items = @ \cup k.items]]
           /\ calls' = calls \ {k}
        \/ k.res = "not_delivered" /\ sendMessage(k.tab, k.id, r, FALSE, calls \ {k})
        \/ k.res = "pending" /\ calls' = calls \ {k} /\ UNCHANGED tab
     /\ UNCHANGED <<lost, odd>>

\* The answer is used even when the timer was cleared meanwhile.
PollAnswered(k) ==
  /\ At(k, "poll", "answered")
  /\ tab' = [tab EXCEPT ![k.tab] = polled(@, k.sess, k.sessions[1])]
  /\ calls' = calls \ {k}
  /\ Note(k.tab, k.sess \notin tab[k.tab].polls, "late poll")
  /\ UNCHANGED lost

Deliver(k) ==
  /\ k.live
  /\ SendAnswered(k) \/ ResetAnswered(k) \/ LoadAnswered(k) \/ ResumeAnswered(k) \/ PollAnswered(k)
  /\ UNCHANGED <<storeVars, historyVars, acts>>

\* No response: the request never arrived, or the server goes on alone.
Lost(k) ==
  LET without == calls \ {k}
      rest == CASE k.pc = "answered" \/ k.kind = "load" -> {without}
                [] k.pc = "sent" /\ k.kind # "load" -> {without, without \cup {[k EXCEPT !.live = FALSE]}}
                [] OTHER -> {without \cup {[k EXCEPT !.live = FALSE]}}
  IN /\ k.live /\ lost < MaxLost /\ lost' = lost + 1
     /\ \/ /\ k.kind = "send" /\ calls' \in rest
           /\ tab' = [tab EXCEPT ![k.tab] = releaseBusy(@, "network")]
           /\ Note(k.tab, k.cid \notin DOMAIN conv, "unnamed")
        \/ k.kind = "reset" /\ (\E others \in rest : AfterReset(k, 0, others)) /\ UNCHANGED odd
        \/ k.kind = "load" /\ calls' \in rest /\ Note(k.tab, TRUE, "load failed") /\ UNCHANGED tab
        \/ k.kind \in {"resume", "poll"} /\ calls' \in rest /\ UNCHANGED <<tab, odd>>
     /\ UNCHANGED <<storeVars, historyVars, acts>>

-----------------------------------------------------------------------------
\* The tabs open; a stored conversation is loaded.
Init ==
  /\ conv \in Rows
  /\ recent = [i \in DOMAIN conv |-> i]
  /\ \E ids \in Stored :
       /\ tab = [t \in Tabs |-> Page(ids[t])]
       /\ calls = {[Sent(t, 0, "load") EXCEPT !.cid = ids[t]] : t \in {u \in Tabs : ids[u] # 0}}
       /\ takers = {<<c, 0>> : c \in {d \in DOMAIN conv : Empty(d) /\ \E t \in Tabs : ids[t] = d}}
  /\ acts = ActsBefore /\ lost = 0 /\ odd = [t \in Tabs |-> {}]
  /\ where \in [0..MaxActs -> DOMAIN conv \cup {0}] /\ raced = FALSE
  /\ \A n \in 0..MaxActs, c \in DOMAIN conv : where[n] = c <=> n \in ActsOf(conv[c])

User(t) ==
  \/ handleSubmit(t) \/ handleNewChat(t) \/ handleSelectAgent(t) \/ handleActivateCapability(t)
  \/ handleSelectConversation(t) \/ Reload(t)
  \/ \E n \in 1..MaxActs : handleRetry(t, n) \/ handleResume(t, n)

ServeStep(k) == Serve(k) /\ UNCHANGED <<tab, acts, lost, odd>>
Settles == (\E c \in DOMAIN conv : SessionSettles(c)) /\ UNCHANGED <<tab, acts, lost, odd>>
Progress == \E k \in calls : k.kind # "poll" /\ (ServeStep(k) \/ Deliver(k))
PollStep(t) ==
  PollTick(t) \/ \E k \in calls : k.kind = "poll" /\ k.tab = t /\ Deliver(k)
Done == acts = MaxActs /\ calls = {} /\ UNCHANGED vars

Next ==
  \/ \E t \in Tabs : User(t) \/ PollStep(t)
  \/ Progress \/ Settles \/ \E k \in calls : Lost(k)
  \/ Done   \* the bound is reached

\* The server answers its requests and the page's intervals fire: without an act of the user
\* each does so only finitely often, so fairness of all of them together is enough.
Fairness == WF_vars(Progress \/ \E t \in Tabs : PollStep(t))
Spec == Init /\ [][Next]_vars /\ Fairness
=============================================================================
