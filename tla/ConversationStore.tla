------------------------- MODULE ConversationStore -------------------------
(***************************************************************************)
(* The conversations of one user, and what the server's requests do to them: *)
(* a turn (POST /api/chat), a reset, the history of a conversation, the       *)
(* resumption of an interview and the poll of its state.                     *)
(*                                                                          *)
(* What happens inside a turn is TurnPipeline's and InterviewTurns' subject:  *)
(* here a turn is chosen a conversation, is accepted, and ends.  Time stamps  *)
(* are distinct and follow the order of the writes.  A session is named by    *)
(* its conversation and its number in it.                                    *)
(***************************************************************************)
EXTENDS Naturals, Sequences, FiniteSetsExt

CONSTANTS
  Tabs,       \* the browser tabs of the user
  Rows,       \* what the table conversations may hold at first
  Stale,      \* an id no row has: another login's, or one of a rebuilt database
  MaxActs,    \* bound: what the user does in all tabs
  MaxLost     \* bound: responses that never arrive

VARIABLES
  conv,    \* the rows, in the order of created_at; an id is an index
  recent,  \* the ids by coalesce(last_message_at, created_at), the latest last
  calls,   \* the requests under way, their responses included
  where,   \* history: the conversation that got each act's message, 0 if none
  takers,  \* history: <<conversation, act>> of resets and turns given it unasked,
           \* and of the empty ones a tab had stored, with 0
  raced    \* history: two resets were about to insert a conversation at once

storeVars == <<conv, recent>>
historyVars == <<where, takers, raced>>

Generated == MaxActs + 1   \* a title made for the user; an act is a title of its own words
Message == [role : {"user", "auto", "agent"}, act : 0..MaxActs, sn : Nat]
SessionState == {"open", "finalizing", "completed", "failed", "abandoned"}
Row == [msgs : Seq(Message), title : 0..Generated, flag : BOOLEAN, sessions : Seq(SessionState),
        lock : 0..MaxActs]
NewRow == [msgs |-> <<>>, title |-> 0, flag |-> FALSE, sessions |-> <<>>, lock |-> 0]
NoSession == <<0, 0>>
Open == {"open", "finalizing"}
IsOpen(row) == row.sessions # <<>> /\ row.sessions[Len(row.sessions)] \in Open
State(s) == conv[s[1]].sessions[s[2]]
Newest(c) == <<c, Len(conv[c].sessions)>>
Msg(role, act, sn) == [role |-> role, act |-> act, sn |-> sn]
From(row, roles) == {i \in DOMAIN row.msgs : row.msgs[i].role \in roles}

ActsOf(row) == {row.msgs[i].act : i \in DOMAIN row.msgs}

\* A title is the first message the user typed; until then there is none or a generated one.
Titled(row) ==
  IF From(row, {"user"}) = {}
  THEN IF row.flag THEN row.title = Generated ELSE row.title = 0
  ELSE ~row.flag /\ row.title = row.msgs[Min(From(row, {"user"}))].act

\* The act the conversation is about: that of the last message a turn began with.
LastOf(row) == row.msgs[Max(From(row, {"user", "auto"}))].act

\* One interview is open at most, the newest.  The questions of an act are one interview's, those
\* of the last act the newest one's.
Interviewed(row) ==
  /\ \A n \in DOMAIN row.sessions : row.sessions[n] \in Open => n = Len(row.sessions)
  /\ \A i \in DOMAIN row.msgs : row.msgs[i].sn # 0 =>
       /\ row.msgs[i].role = "agent" /\ row.msgs[i].sn \in DOMAIN row.sessions
       /\ row.msgs[i].act = LastOf(row) => row.msgs[i].sn = Len(row.sessions)
       /\ \A j \in DOMAIN row.msgs :
            row.msgs[j].sn # 0 /\ row.msgs[j].act = row.msgs[i].act => row.msgs[j].sn = row.msgs[i].sn

\* The first rows were made by this code: no turn is running, an interview began with a
\* message and its questions are its own, an act has a number and a row, and no two resets were
\* at work at once.
ASSUME StoreConstants ==
  /\ MaxActs \in Nat /\ MaxLost \in Nat /\ Stale \notin Nat
  /\ \A rows \in Rows :
       /\ rows \in Seq(Row)
       /\ \A c \in DOMAIN rows :
            /\ rows[c].lock = 0 /\ Titled(rows[c]) /\ Interviewed(rows[c])
            /\ rows[c].sessions # <<>> => From(rows[c], {"user", "auto"}) # {}
            /\ \A i \in DOMAIN rows[c].msgs :
                 /\ rows[c].msgs[i].act # 0
                 /\ \A d \in DOMAIN rows : rows[c].msgs[i].act \in ActsOf(rows[d]) => c = d
       /\ \A c, d \in DOMAIN rows : rows[c].msgs = <<>> /\ rows[d].msgs = <<>> => c = d

-----------------------------------------------------------------------------
(* ConversationRepository.                                                   *)

Empty(c) == conv[c].msgs = <<>>

\* get_or_create without an id: the last of the recent ones, 0 if there is none.
MostRecent == IF recent = <<>> THEN 0 ELSE recent[Len(recent)]

\* The places in the order of the conversations that hold messages, and the latest of them.
list_for_user == {i \in DOMAIN recent : ~Empty(recent[i])}
find_current == IF list_for_user = {} THEN 0 ELSE recent[Max(list_for_user)]

\* Mutants: every reset inserts; a conversation is reused whatever it holds.
find_empty_never == 0
find_empty_any == Len(conv)
find_empty_for_user == Max({0} \cup {c \in DOMAIN conv : Empty(c)})

\* Mutant: the conversation keeps its old place as well.
touched_twice(s, c) == Append(s, c)
cutOut(s, p) == [i \in 1..(Len(s) - 1) |-> s[IF i < p THEN i ELSE i + 1]]
touched(s, c) ==
  IF \E p \in DOMAIN s : s[p] = c
  THEN Append(cutOut(s, CHOOSE p \in DOMAIN s : s[p] = c), c)
  ELSE Append(s, c)
coalesced(row, title) == IF row.title = 0 THEN [row EXCEPT !.title = title] ELSE row
set_placeholder_title(row) ==
  IF row.title = 0 THEN [row EXCEPT !.title = Generated, !.flag = TRUE] ELSE row

\* Mutant: the flag stays, so the next message replaces the title again.
replace_keeps_flag(row, title) == IF row.flag THEN [row EXCEPT !.title = title] ELSE row
replace_placeholder_title(row, title) ==
  IF row.flag THEN [row EXCEPT !.title = title, !.flag = FALSE] ELSE row

-----------------------------------------------------------------------------
(* Requests.  A response nobody waits for is dropped.                        *)

Sent(t, act, kind) ==
  [id |-> act, tab |-> t, kind |-> kind, pc |-> "sent", cid |-> 0, key |-> FALSE,
   auto |-> FALSE, then |-> "nothing", conv |-> 0, iv |-> FALSE, live |-> TRUE,
   res |-> "none", items |-> {}, sess |-> NoSession, sessions |-> <<>>, item |-> 0]

At(k, kind, pc) == k.kind = kind /\ k.pc = pc
Becomes(k, next) == calls' = (calls \ {k}) \cup {next}
Answer(k, next) ==
  IF k.live THEN Becomes(k, [next EXCEPT !.pc = "answered"]) ELSE calls' = calls \ {k}

\* resolve, for an id without a row or none: the most recent conversation, or a new one, 0.
TurnResolve(k) ==
  /\ At(k, "send", "sent") /\ k.cid \notin DOMAIN conv
  /\ LET c == IF k.cid = 0 THEN MostRecent ELSE 0
     IN /\ Becomes(k, [k EXCEPT !.pc = "accept", !.conv = c])
        /\ takers' = IF k.cid = 0 THEN takers \cup {<<c, k.id>>} ELSE takers
  /\ UNCHANGED <<storeVars, where, raced>>

\* An id with a row needs no looking for: rows are never deleted.
Resolved(k) == At(k, "send", "accept") \/ (At(k, "send", "sent") /\ k.cid \in DOMAIN conv)
Chosen(k) == IF k.pc = "sent" THEN k.cid ELSE k.conv

\* 409 while another turn holds the lock, 429 or 404: nothing is stored.
TurnRefused(k) ==
  /\ Resolved(k)
  /\ Answer(k, [k EXCEPT !.res = "error"])
  /\ UNCHANGED <<storeVars, historyVars>>

\* Steps 2 to 9: the message, the title of a typed one, the interview's session.
Accepted(row, k) ==
  LET titled == IF k.auto THEN row
                ELSE replace_placeholder_title(coalesced(row, k.id), k.id)
      opens == k.key /\ ~IsOpen(row)
  IN [titled EXCEPT !.msgs = Append(@, Msg(IF k.auto THEN "auto" ELSE "user", k.id, 0)),
                    !.sessions = IF opens THEN Append(@, "open") ELSE @,
                    !.lock = k.id]

TurnAccept(k) ==
  LET c == IF Chosen(k) = 0 THEN Len(conv) + 1 ELSE Chosen(k)
      row == IF Chosen(k) = 0 THEN NewRow ELSE conv[c]
  IN /\ Resolved(k) /\ row.lock = 0
     /\ conv' = [i \in DOMAIN conv \cup {c} |-> IF i = c THEN Accepted(row, k) ELSE conv[i]]
     /\ recent' = touched(recent, c)
     /\ where' = [where EXCEPT ![k.id] = c]
     /\ Becomes(k, [k EXCEPT !.pc = "handling", !.conv = c, !.iv = k.key \/ IsOpen(row)])
     /\ UNCHANGED <<takers, raced>>

\* The reply and step 14.  An interview may end with it.
TurnEnd(k) ==
  LET c == k.conv
      n == Len(conv[c].sessions)
      done == [conv[c] EXCEPT !.msgs = Append(@, Msg("agent", k.id, IF k.iv THEN n ELSE 0)),
                              !.lock = 0]
      titled == IF k.auto THEN set_placeholder_title(done) ELSE done
  IN /\ At(k, "send", "handling")
     /\ \/ /\ ~k.iv
           /\ conv' = [conv EXCEPT ![c] = titled]
           /\ Answer(k, [k EXCEPT !.res = "success"])
        \/ /\ k.iv /\ State(Newest(c)) = "open"
           /\ \E s \in {"open", "finalizing", "completed"} :
                /\ conv' = [conv EXCEPT ![c] = [titled EXCEPT !.sessions[n] = s]]
                /\ Answer(k, [k EXCEPT !.res = "success", !.sess = <<c, n>>, !.sessions = <<s>>])
     /\ recent' = touched(recent, c)
     /\ UNCHANGED historyVars

\* The handler fails; only the listening to an interview times out.
TurnFail(k) ==
  /\ At(k, "send", "handling")
  /\ conv' = [conv EXCEPT ![k.conv].lock = 0]
  /\ \E res \in IF k.iv THEN {"error", "timeout"} ELSE {"error"} : Answer(k, [k EXCEPT !.res = res])
  /\ UNCHANGED <<recent, historyVars>>

\* reset: the conversation left is the first of the list; then an empty one is looked for.
ResetRead(k) ==
  /\ At(k, "reset", "sent")
  /\ Becomes(k, [k EXCEPT !.pc = "commit", !.cid = find_current,
                          !.conv = find_empty_for_user])
  /\ UNCHANGED <<storeVars, historyVars>>

ResetCommit(k) ==
  LET c == IF k.conv = 0 THEN Len(conv) + 1 ELSE k.conv
      left(i) == IF i = k.cid /\ IsOpen(conv[i])
                 THEN [conv[i] EXCEPT !.sessions[Newest(i)[2]] = "abandoned"] ELSE conv[i]
  IN /\ At(k, "reset", "commit")
     /\ conv' = [i \in DOMAIN conv \cup {c} |-> IF i \in DOMAIN conv THEN left(i) ELSE NewRow]
     /\ recent' = IF k.conv = 0 THEN touched(recent, c) ELSE recent
     /\ Answer(k, [k EXCEPT !.conv = c])
     /\ takers' = takers \cup {<<c, k.id>>}
     /\ raced' = \/ raced
                 \/ k.conv = 0 /\ \E j \in calls \ {k} : At(j, "reset", "commit") /\ j.conv = 0
     /\ UNCHANGED where

\* get_conversation_messages: the transcript and the sessions; 404 for an unknown id.
ShownAs(m) ==
  <<CASE m.role # "agent" -> "user" [] m.role = "agent" /\ m.sn > 0 -> "question" [] OTHER -> "agent",
    m.act>>
LoadRead(k) ==
  /\ At(k, "load", "sent")
  /\ Answer(k, IF k.cid \in DOMAIN conv
               THEN [k EXCEPT !.res = "success", !.sessions = conv[k.cid].sessions,
                              !.items = {ShownAs(conv[k.cid].msgs[i]) :
                                          i \in DOMAIN conv[k.cid].msgs}]
               ELSE [k EXCEPT !.res = "missing"])
  /\ UNCHANGED <<storeVars, historyVars>>

\* resume_turn answers the last message of the user, without the turn's lock.
LastAct(c) == LastOf(conv[c])
ResumeRun(k) ==
  LET c == k.sess[1]
  IN /\ At(k, "resume", "sent")
     /\ \/ /\ State(k.sess) = "open"
           /\ conv' = [conv EXCEPT ![c].msgs = Append(@, Msg("agent", LastAct(c), k.sess[2]))]
           /\ recent' = touched(recent, c)
           /\ Answer(k, [k EXCEPT !.res = "success", !.items = {<<"question", LastAct(c)>>}])
        \/ /\ \E res \in {"pending", "not_delivered"} : Answer(k, [k EXCEPT !.res = res])
           /\ UNCHANGED storeVars
     /\ UNCHANGED historyVars

\* get_session, read as soon as it is asked for.
PollRead(t, s) ==
  [Sent(t, 0, "poll") EXCEPT !.pc = "answered", !.sess = s, !.sessions = <<State(s)>>]

Serve(k) ==
  \/ TurnResolve(k) \/ TurnRefused(k) \/ TurnAccept(k) \/ TurnEnd(k) \/ TurnFail(k)
  \/ ResetRead(k) \/ ResetCommit(k) \/ LoadRead(k) \/ ResumeRun(k)

\* The request that finalises an interview ends.
SessionSettles(c) ==
  /\ IsOpen(conv[c]) /\ State(Newest(c)) = "finalizing"
  /\ \E s \in {"completed", "failed"} : conv' = [conv EXCEPT ![c].sessions[Newest(c)[2]] = s]
  /\ UNCHANGED <<recent, calls, historyVars>>
=============================================================================
