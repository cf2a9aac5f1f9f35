------------------------------ MODULE ChatProps ------------------------------
(***************************************************************************)
(* What the conversations and the chat page promise.                         *)
(***************************************************************************)
EXTENDS ChatTabs

Ids == DOMAIN conv
Sending(t) == {k \in Mine(t) : k.kind = "send"}
Switching(t) == \E k \in Mine(t) : k.kind \in {"load", "reset"}
ItemConv(i) == IF i[1] \in {"finalizing", "completed"} THEN i[2] ELSE where[i[2]]

IsSession(s) == s = NoSession \/ (s[1] \in Ids /\ s[2] \in DOMAIN conv[s[1]].sessions)
Item ==
  ({"user", "agent", "question", "retry"} \X Nat) \cup ({"finalizing", "completed"} \X Nat \X Nat)
Call ==
  [id : 0..MaxActs, tab : Tabs, kind : {"send", "reset", "load", "resume", "poll"},
   pc : {"sent", "accept", "handling", "commit", "answered"}, cid : Nat \cup {Stale}, key : BOOLEAN,
   auto : BOOLEAN, then : {"nothing", "agent", "autostart"}, conv : Nat, iv : BOOLEAN,
   live : BOOLEAN, res : {"none", "success", "error", "timeout", "missing", "pending", "not_delivered"},
   items : SUBSET Item, sess : Nat \X Nat, sessions : Seq(SessionState), item : Nat]
PageOf ==
  [cid : Nat \cup {Stale}, busy : BOOLEAN, key : BOOLEAN, sess : Nat \X Nat, items : SUBSET Item,
   polls : SUBSET (Nat \X Nat)]

\* Rows, requests and pages have their fields' types and name rows and sessions that exist; the
\* recent list is an order of the rows.
TypeOK ==
  /\ conv \in Seq(Row)
  /\ recent \in Seq(Ids) /\ Len(recent) = Len(conv) /\ {recent[i] : i \in DOMAIN recent} = Ids
  /\ calls \subseteq Call
  /\ \A k \in calls : k.conv \in Ids \cup {0} /\ IsSession(k.sess)
  /\ tab \in [Tabs -> PageOf]
  /\ \A t \in Tabs : /\ tab[t].cid \in Ids \cup {0, Stale}
                     /\ IsSession(tab[t].sess) /\ \A s \in tab[t].polls : s # NoSession /\ IsSession(s)
  /\ odd \in [Tabs -> SUBSET {"impatient", "unnamed", "late poll", "load failed"}]
  /\ acts \in 0..MaxActs /\ lost \in 0..MaxLost /\ raced \in BOOLEAN

\* A tab awaits at most one turn, whichever button, retry, recovered turn or autostart began it, and
\* whatever else it is waiting for: busyRef is a mutex over all of them.
OneTurnPerTab == \A t \in Tabs : Cardinality(Sending(t)) <= 1

\* Everything on a page, and the interview that "Check for reply" would resume, belong to the
\* conversation the page will send to, unless the user acted during a request, a request that
\* named no known conversation failed, or a poll answered late.
OwnTranscript ==
  \A t \in Tabs : odd[t] \subseteq {"load failed"} =>
    /\ \A i \in tab[t].items : \/ ItemConv(i) \in {0, tab[t].cid}
                               \/ \E k \in Sending(t) : i = <<"user", k.id>>
    /\ tab[t].sess[1] \in {0, tab[t].cid}

\* A page that shows a question of an open interview remembers the interview, so that a timeout
\* offers to look for the reply and not to send the answer again; unless a load has failed.
InterviewRemembered ==
  \A t \in Tabs : odd[t] = {} /\ ~Switching(t) /\ tab[t].cid \in Ids =>
    LET s == Newest(tab[t].cid)
        msgs == conv[s[1]].msgs
    IN IsOpen(conv[s[1]]) /\ State(s) = "open" /\ (\E i \in DOMAIN msgs :
            msgs[i].sn = s[2] /\ ShownAs(msgs[i]) \in tab[t].items)
       => tab[t].sess = s

\* A conversation's title is the first message the user typed in it, whatever autostarts,
\* failures and other tabs did before and after; until then it has none or a generated one.
TitleIsFirstWords ==
  \A c \in Ids :
    LET typed == From(conv[c], {"user"})
    IN IF typed = {} THEN conv[c].title \in {0, Generated}
       ELSE conv[c].title = conv[c].msgs[Min(typed)].act

\* However often New chat is pressed the user has at most one empty conversation, unless two resets
\* looked for one at once.
OneEmptyConversation == raced \/ Cardinality({c \in Ids : Empty(c)}) <= 1

\* The conversation New chat hands to a page is empty when the page adopts it, unless another reset
\* or a message without an id was given the same one.
NewChatIsEmpty ==
  [][\A k \in calls :
       /\ At(k, "reset", "answered") /\ k \notin calls' /\ tab'[k.tab].cid = k.conv
       /\ {p \in takers : p[1] = k.conv} = {<<k.conv, k.id>>}
       => conv[k.conv].msgs = <<>>]_vars

Spinner(t) == \E i \in tab[t].items : i[1] = "finalizing" /\ State(<<i[2], i[3]>>) \notin Open

\* The page accepts input again after every turn, also when the reply is lost; and the notice of
\* an interview being finalised disappears once the interview is settled, unless a load failed or
\* the user acted during a request.
PageSettles == \A t \in Tabs : []<>(~tab[t].busy) /\ []<>(~Spinner(t) \/ odd[t] # {})
=============================================================================
