--------------------------- MODULE ChatTranscript ---------------------------
(***************************************************************************)
(* What a page shows belongs to the conversation it will send to, New chat    *)
(* hands out an empty conversation, and a page remembers the open interview    *)
(* whose question it shows, for any number of tabs, rows and acts.            *)
(*                                                                          *)
(* OwnInv follows a message from the act that made it.  An act's number is    *)
(* that of one request (IdsInv), which knows whether the message was stored    *)
(* and where (Knows); and a page that was patient awaits one answer at a time, *)
(* whose conversation is its own (OwnPage).  GivenInv follows a conversation   *)
(* that is empty: whoever has its id was given it by a reset or unasked.       *)
(* RememberedInv follows a question: its act has the questions of one           *)
(* interview (Interviewed), an answer names the interview of the question it    *)
(* brings (Learned), and a patient page that shows one remembers that interview *)
(* while it is open (Recalls).                                              *)
(***************************************************************************)
EXTENDS ChatProofs

\* The acts of a request that a message may get: a turn's, and of a reset or a recovery that
\* may still send one.
Sender(k) == k.kind = "send" \/ (k.live /\ k.kind \in {"reset", "resume"})
Asks(k) == k.live /\ k.kind # "poll"
Notice(i) == i[1] \in {"finalizing", "completed"}
Clean(t) == odd[t] \subseteq {"load failed"}

\* An act's message is in one conversation, and one request may still store it.
IdsInv ==
  /\ where \in [0..MaxActs -> Ids \cup {0}]
  /\ \A n \in 0..MaxActs : where[n] # 0 => n \in 1..acts /\ ~Empty(where[n])
  /\ \A c \in Ids : \A i \in DOMAIN conv[c].msgs : where[conv[c].msgs[i].act] = c
  /\ \A k \in calls : Sender(k) => k.id \in 1..acts
  /\ \A j, k \in calls : Sender(j) /\ Sender(k) /\ j.id = k.id => j = k

\* What a request knows of the act it is about, and of the acts in its answer.
Knows(k) ==
  /\ Sender(k) /\ (k.kind = "send" => k.pc \in {"sent", "accept"}) => where[k.id] = 0
  /\ At(k, "send", "accept") => k.cid \notin Ids
  /\ At(k, "send", "handling") => where[k.id] = k.conv /\ k.conv # 0
  /\ At(k, "send", "answered") /\ k.res = "success" =>
       where[k.id] = k.conv /\ k.conv # 0 /\ (k.iv => k.sess[1] = k.conv)
  /\ k.kind = "send" /\ k.cid \in Ids => where[k.id] \in {0, k.cid}
  /\ At(k, "load", "answered") /\ k.res # "missing" =>
       k.cid \in Ids /\ \A i \in k.items : ~Notice(i) /\ i[2] \in 1..acts /\ where[i[2]] = k.cid
  /\ At(k, "resume", "answered") /\ k.res = "success" =>
       \A i \in k.items : ~Notice(i) /\ i[2] \in 1..acts /\ where[i[2]] = k.sess[1]
KnowsInv == \A k \in calls : Knows(k)

\* A request that may still store the message of a shown act: the page's own turn, or one that
\* names the page's conversation.
Expected(t, i, k) ==
  /\ k.kind = "send"
  /\ \/ k.live /\ k.tab = t /\ i[1] = "user"
     \/ k.cid \in Ids /\ k.cid = tab[t].cid
OwnItem(t, i) ==
  IF Notice(i) THEN i[2] \in Ids /\ i[2] = tab[t].cid
  ELSE /\ i[2] \in 1..acts
       /\ \/ where[i[2]] \in {0, tab[t].cid}
          \/ i[1] = "user" /\ \E k \in Sending(t) : k.id = i[2]
       /\ \A k \in calls : Sender(k) /\ k.id = i[2] /\ where[k.id] = 0 => Expected(t, i, k)

\* The requests of a page are about what it shows.
OwnCall(t, k) ==
  /\ k.kind = "send" => k.cid = tab[t].cid
  /\ k.kind = "resume" => k.sess[1] = tab[t].cid
  /\ k.kind \in {"load", "reset"} => tab[t].polls = {}
  /\ k.kind = "load" => tab[t].sess = NoSession
OwnPage(t) ==
  /\ \A j, k \in Mine(t) : Asks(j) /\ Asks(k) => j = k
  /\ \A i \in tab[t].items : OwnItem(t, i)
  /\ tab[t].sess[1] \in {0, tab[t].cid}
  /\ \A s \in tab[t].polls : s[1] = tab[t].cid
  /\ \A k \in Mine(t) : OwnCall(t, k)
OwnInv == IdsInv /\ KnowsInv /\ \A t \in Tabs : Clean(t) => OwnPage(t)
-----------------------------------------------------------------------------
(* The server.                                                             *)

(* A request moves on or is answered: it stays the same request.            *)
Moves(k, n) ==
  /\ n.id = k.id /\ n.tab = k.tab /\ n.kind = k.kind /\ n.live = k.live
  /\ k.kind # "reset" => n.cid = k.cid
  /\ k.kind = "resume" => n.sess = k.sess
  /\ calls' \in {calls \ {k}, (calls \ {k}) \cup {n}}
  /\ k.live => calls' = (calls \ {k}) \cup {n}

(* Nothing but the act of the request that moves gets a conversation, and    *)
(* that one the conversation its page named, if it named one.               *)
Places(k) ==
  \/ where' = where
  \/ /\ Sender(k) /\ where[k.id] = 0
     /\ \E c \in Ids' : /\ c # 0 /\ where' = [where EXCEPT ![k.id] = c]
                        /\ k.cid \in Ids => c = k.cid

(* What a place may become.                                                *)
LEMMA PlacesKept ==
  ASSUME ChatInv, IdsInv, NEW k \in calls, Places(k)
  PROVE  /\ \A n \in 0..MaxActs : where'[n] = where[n] \/ (n = k.id /\ Sender(k) /\ where[n] = 0)
         /\ where' \in [0..MaxActs -> Ids \cup Ids' \cup {0}] /\ 1..acts \subseteq 0..MaxActs
<1>1. where \in [0..MaxActs -> Ids \cup {0}] BY DEF IdsInv
<1>2. k.id \in 0..MaxActs BY Before DEF Call
<1>3. 1..acts \subseteq 0..MaxActs
  <2>1. acts \in 0..MaxActs /\ MaxActs \in Nat BY StoreConstants DEF ChatInv, BoundsInv
  <2>. QED BY <2>1
<1>4. CASE where' = where
  <2>1. where' \in [0..MaxActs -> Ids \cup Ids' \cup {0}] BY <1>1, <1>4
  <2>. QED BY <2>1, <1>3, <1>4
<1>5. ASSUME Sender(k), where[k.id] = 0, NEW c \in Ids', where' = [where EXCEPT ![k.id] = c]
      PROVE  /\ \A n \in 0..MaxActs : where'[n] = where[n] \/ (n = k.id /\ Sender(k) /\ where[n] = 0)
             /\ where' \in [0..MaxActs -> Ids \cup Ids' \cup {0}]
  BY <1>1, <1>2, <1>5
<1>. QED BY <1>3, <1>4, <1>5 DEF Places

(* What is known of a request does not depend on the other requests.        *)
LEMMA KnowsKept ==
  ASSUME ChatInv, OwnInv, NEW k \in calls, Places(k), Ids \subseteq Ids', Stale \notin Ids',
         0 \notin Ids', acts' = acts, NEW j \in calls, j # k
  PROVE  Knows(j)'
<1>1. Knows(j) /\ CallOK(j) /\ IdsInv BY Before DEF OwnInv, KnowsInv
<1>2. j.cid \in Ids' => j.cid \in Ids
  <2>1. j.cid \in Ids \cup {0, Stale} BY <1>1 DEF CallOK
  <2>. QED BY <2>1
<1>3. /\ \A n \in 0..MaxActs : where[n] # 0 => where'[n] = where[n]
      /\ 1..acts \subseteq 0..MaxActs
  BY <1>1, PlacesKept
<1>4. j.id \in 0..MaxActs BY <1>1 DEF CallOK, Call
<1>5. Sender(j) => where'[j.id] = where[j.id]
  <2>1. Sender(j) /\ Sender(k) => j.id # k.id BY <1>1 DEF IdsInv
  <2>. QED BY <2>1, <1>1, <1>4, PlacesKept
<1>6. j.kind = "send" => Sender(j) BY DEF Sender
<1>7. j.kind = "resume" => j.sess[1] # 0
  <2>1. j.kind = "resume" => j.sess[1] \in Ids BY <1>1 DEF CallOK, IsSession
  <2>. QED BY <2>1
<1>8. At(j, "load", "answered") /\ j.res # "missing" =>
        j.cid \in Ids' /\ \A i \in j.items : ~Notice(i) /\ i[2] \in 1..acts /\ where'[i[2]] = j.cid
  BY <1>1, <1>3 DEF Knows
<1>9. At(j, "resume", "answered") /\ j.res = "success" =>
        \A i \in j.items : ~Notice(i) /\ i[2] \in 1..acts /\ where'[i[2]] = j.sess[1]
  BY <1>1, <1>3, <1>7 DEF Knows, At
<1>10. At(j, "send", "handling") \/ (At(j, "send", "answered") /\ j.res = "success") =>
         where'[j.id] = j.conv /\ j.conv # 0
  BY <1>1, <1>3, <1>4 DEF Knows
<1>11. j.kind = "send" /\ j.cid \in Ids' => where'[j.id] \in {0, j.cid}
  BY <1>1, <1>2, <1>5, <1>6 DEF Knows
<1>12. Sender(j) /\ (j.kind = "send" => j.pc \in {"sent", "accept"}) => where'[j.id] = 0
  BY <1>1, <1>5 DEF Knows
<1>13. At(j, "send", "accept") => j.cid \notin Ids' BY <1>1, <1>2 DEF Knows
<1>14. At(j, "send", "answered") /\ j.res = "success" /\ j.iv => j.sess[1] = j.conv
  BY <1>1 DEF Knows
<1>15. Sender(j)' <=> Sender(j) BY DEF Sender
<1>. QED BY <1>8, <1>9, <1>10, <1>11, <1>12, <1>13, <1>14, <1>15 DEF Knows, At, Notice

(* What a page shows stays its own.                                         *)
LEMMA PagesKept ==
  ASSUME ChatInv, OwnInv, NEW k \in calls, NEW n, Moves(k, n), Places(k),
         Ids \subseteq Ids', Stale \notin Ids', 0 \notin Ids',
         UNCHANGED <<tab, acts, odd>>, NEW t \in Tabs, Clean(t)'
  PROVE  OwnPage(t)'
<1>1. Clean(t) /\ OwnPage(t) /\ IdsInv BY DEF Clean, OwnInv
<1>2. /\ \A m \in 0..MaxActs : where'[m] = where[m] \/ (m = k.id /\ Sender(k) /\ where[m] = 0)
      /\ 1..acts \subseteq 0..MaxActs
  BY <1>1, PlacesKept
<1>3. \A j \in calls' : (j \in calls /\ j # k) \/ j = n BY DEF Moves
<1>4. \A j \in Mine(t)' : (j \in Mine(t) /\ j # k) \/ (j = n /\ k \in Mine(t)) BY <1>3 DEF Mine, Moves
<1>5. n.kind = k.kind /\ n.live = k.live /\ n.tab = k.tab /\ n.id = k.id
      /\ (k.kind # "reset" => n.cid = k.cid) /\ (k.kind = "resume" => n.sess = k.sess)
  BY DEF Moves
<1>6. Knows(k) /\ CallOK(k) /\ k.id \in 0..MaxActs BY Before DEF OwnInv, KnowsInv, Call
<1>7. \A i, j \in Mine(t)' : Asks(i) /\ Asks(j) => i = j
  <2>1. Asks(n) <=> Asks(k) BY <1>5 DEF Asks
  <2>. QED BY <1>1, <1>4, <2>1 DEF OwnPage
<1>8. \A j \in Mine(t)' : OwnCall(t, j)'
  <2>1. \A j \in Mine(t) : OwnCall(t, j) BY <1>1 DEF OwnPage
  <2>2. k \in Mine(t) => OwnCall(t, n) BY <2>1, <1>5 DEF OwnCall
  <2>3. \A j : OwnCall(t, j)' <=> OwnCall(t, j) BY DEF OwnCall
  <2>. QED BY <1>4, <2>1, <2>2, <2>3
<1>9. Sender(n) <=> Sender(k) BY <1>5 DEF Sender
<1>10. ASSUME NEW i \in tab[t].items
       PROVE  OwnItem(t, i)'
  <2>1. OwnItem(t, i) BY <1>1 DEF OwnPage
  <2>2. CASE Notice(i) BY <2>1, <2>2 DEF OwnItem, Notice
  <2>3. CASE ~Notice(i)
    <3>. DEFINE m == i[2]
    <3>1. m \in 1..acts /\ m \in 0..MaxActs BY <2>1, <2>3, <1>2 DEF OwnItem
    <3>2. \A j \in calls : Sender(j) /\ j.id = m /\ where[m] = 0 => Expected(t, i, j)
      BY <2>1, <2>3 DEF OwnItem
    <3>3. \/ where[m] \in {0, tab[t].cid}
          \/ i[1] = "user" /\ \E j \in Sending(t) : j.id = m
      BY <2>1, <2>3 DEF OwnItem
    <3>4. (\E j \in Sending(t) : j.id = m) => \E j \in Sending(t)' : j.id = m
      <4>. SUFFICES ASSUME NEW j \in Sending(t), j.id = m
                    PROVE  \E h \in Sending(t)' : h.id = m
        OBVIOUS
      <4>1. CASE j = k
        <5>1. n \in calls' BY <4>1 DEF Moves, Sending, Mine
        <5>2. n \in Sending(t)' BY <5>1, <4>1, <1>5 DEF Sending, Mine
        <5>. QED BY <5>2, <4>1, <1>5
      <4>2. CASE j # k
        <5>1. j \in calls' BY <4>2 DEF Moves, Sending, Mine
        <5>. QED BY <5>1 DEF Sending, Mine
      <4>. QED BY <4>1, <4>2
    <3>5. \A j : Expected(t, i, j) => Expected(t, i, j)' BY DEF Expected
    <3>6. Expected(t, i, k) => Expected(t, i, n)' BY <1>5 DEF Expected
    <3>7. \A j \in calls' : Sender(j) /\ j.id = m /\ where'[m] = 0 => Expected(t, i, j)'
      <4>1. where'[m] = 0 => where[m] = 0 BY <1>2, <3>1
      <4>. QED BY <4>1, <1>3, <1>5, <1>9, <3>2, <3>5, <3>6
    <3>8. \/ where'[m] \in {0, tab[t].cid}
          \/ i[1] = "user" /\ \E j \in Sending(t)' : j.id = m
      <4>1. CASE where'[m] = where[m] BY <4>1, <3>3, <3>4
      <4>2. CASE where'[m] # where[m]
        <5>1. m = k.id /\ Sender(k) /\ where[m] = 0 BY <4>2, <1>2, <3>1
        <5>2. Expected(t, i, k) BY <5>1, <3>2
        <5>3. CASE k.live /\ k.tab = t /\ i[1] = "user"
          <6>1. k \in Sending(t) BY <5>2, <5>3 DEF Sending, Mine, Expected
          <6>. QED BY <6>1, <5>1, <5>3, <3>4
        <5>4. CASE k.cid \in Ids /\ k.cid = tab[t].cid
          <6>1. PICK c \in Ids' : where' = [where EXCEPT ![k.id] = c] /\ c = k.cid
            BY <4>2, <5>4 DEF Places
          <6>2. where'[m] = c BY <6>1, <5>1, <3>1, <1>1 DEF IdsInv
          <6>. QED BY <6>1, <6>2, <5>4
        <5>. QED BY <5>2, <5>3, <5>4 DEF Expected
      <4>. QED BY <4>1, <4>2
    <3>9. Sender(k)' <=> Sender(k) OBVIOUS
    <3>. QED BY <2>3, <3>1, <3>7, <3>8 DEF OwnItem, Notice, Sender
  <2>. QED BY <2>2, <2>3
<1>11. tab[t].sess[1] \in {0, tab[t].cid} /\ \A s \in tab[t].polls : s[1] = tab[t].cid
  BY <1>1 DEF OwnPage
<1>. QED BY <1>7, <1>8, <1>10, <1>11 DEF OwnPage, Asks

(* The numbers of rows.                                                    *)
LEMMA RowNumbers ==
  ASSUME RowsInv
  PROVE  0 \notin Ids /\ Stale \notin Ids
<1>1. Ids = 1..Len(conv) /\ Len(conv) \in Nat BY RowFacts
<1>. QED BY <1>1, StoreConstants

(* A server step on what the requests and the pages know.                   *)
LEMMA ServeOwn ==
  ASSUME ChatInv, OwnInv, ChatInv', NEW k \in calls, NEW n, Moves(k, n), Places(k),
         UNCHANGED <<tab, acts, odd>>, Ids \subseteq Ids',
         \A c \in Ids' : \A i \in DOMAIN conv'[c].msgs : where'[conv'[c].msgs[i].act] = c,
         \A c \in Ids : ~Empty(c) => ~Empty(c)',
         where' # where => ~Empty(where[k.id])',
         n \in calls' => Knows(n)'
  PROVE  OwnInv'
<1>1. 0 \notin Ids' /\ Stale \notin Ids'
  <2>1. RowsInv' BY DEF ChatInv
  <2>2. conv' \in Seq(Row) BY <2>1 DEF RowsInv
  <2>3. Ids' = 1..Len(conv') /\ Len(conv') \in Nat BY <2>2 DEF Ids
  <2>. QED BY <2>3, StoreConstants
<1>2. IdsInv /\ KnowsInv BY DEF OwnInv
<1>3. \A j \in calls' : (j \in calls /\ j # k) \/ j = n BY DEF Moves
<1>4. KnowsInv'
  <2>1. \A j \in calls : j # k => Knows(j)' BY <1>1, KnowsKept
  <2>. QED BY <2>1, <1>3 DEF KnowsInv
<1>5. \A t \in Tabs : Clean(t)' => OwnPage(t)' BY <1>1, PagesKept
<1>6. /\ \A m \in 0..MaxActs : where'[m] = where[m] \/ (m = k.id /\ Sender(k) /\ where[m] = 0)
      /\ where' \in [0..MaxActs -> Ids \cup Ids' \cup {0}]
  BY <1>2, PlacesKept
<1>7. IdsInv'
  <2>1. where' \in [0..MaxActs -> Ids' \cup {0}]
    <3>1. Ids \cup Ids' \cup {0} = Ids' \cup {0} OBVIOUS
    <3>. QED BY <3>1, <1>6
  <2>2. ASSUME NEW m \in 0..MaxActs, where'[m] # 0
        PROVE  m \in 1..acts /\ ~Empty(where[m])'
    <3>1. CASE where'[m] = where[m]
      <4>1. where[m] \in Ids /\ m \in 1..acts /\ ~Empty(where[m]) BY <2>2, <3>1, <1>2 DEF IdsInv
      <4>2. conv[where[m]].msgs # <<>> /\ conv'[where[m]].msgs # <<>> BY <4>1 DEF Empty
      <4>. QED BY <4>1, <4>2, <3>1 DEF Empty
    <3>2. CASE where'[m] # where[m]
      <4>1. m = k.id /\ Sender(k) BY <3>2, <1>6
      <4>2. where' # where BY <3>2
      <4>. QED BY <4>1, <4>2, <1>2 DEF IdsInv
    <3>. QED BY <3>1, <3>2
  <2>3. n.id = k.id /\ n.kind = k.kind /\ n.live = k.live BY DEF Moves
  <2>4. Sender(n) <=> Sender(k) BY <2>3 DEF Sender
  <2>5. \A j \in calls' : Sender(j) => j.id \in 1..acts
    BY <1>2, <1>3, <2>3, <2>4 DEF IdsInv
  <2>6. \A i, j \in calls' : Sender(i) /\ Sender(j) /\ i.id = j.id => i = j
    BY <1>2, <1>3, <2>3, <2>4 DEF IdsInv
  <2>. QED BY <2>1, <2>2, <2>5, <2>6 DEF IdsInv, Sender, Empty
<1>. QED BY <1>4, <1>5, <1>7 DEF OwnInv

(* One row gets a message of its own, or none.                             *)
LEMMA RowOwn ==
  ASSUME ChatInv, IdsInv, NEW k \in calls, Places(k), NEW c, c # 0, Ids' = Ids \cup {c},
         \A i \in Ids : i # c => conv'[i].msgs = conv[i].msgs,
         NEW old \in Seq(Message), c \in Ids => old = conv[c].msgs, c \notin Ids => old = <<>>,
         \/ conv'[c].msgs = old
         \/ \E m \in Message : conv'[c].msgs = Append(old, m) /\ where'[m.act] = c
  PROVE  /\ \A d \in Ids' : \A i \in DOMAIN conv'[d].msgs : where'[conv'[d].msgs[i].act] = d
         /\ \A d \in Ids : ~Empty(d) => ~Empty(d)'
<1>1. /\ \A d \in Ids : conv[d].msgs \in Seq(Message) /\ DOMAIN conv[d].msgs = 1..Len(conv[d].msgs)
      /\ \A d \in Ids : d # 0
  BY RowFacts, RowNumbers DEF ChatInv
<1>2. \A n \in 0..MaxActs : where[n] # 0 => where'[n] = where[n] BY PlacesKept
<1>3. \A d \in Ids : \A i \in DOMAIN conv[d].msgs : where'[conv[d].msgs[i].act] = d
  <2>. SUFFICES ASSUME NEW d \in Ids, NEW i \in DOMAIN conv[d].msgs
                PROVE  where'[conv[d].msgs[i].act] = d
    OBVIOUS
  <2>1. conv[d].msgs[i] \in Message BY <1>1
  <2>2. conv[d].msgs[i].act \in 0..MaxActs BY <2>1 DEF Message
  <2>. QED BY <2>2, <1>1, <1>2 DEF IdsInv
<1>4. \A i \in DOMAIN old : where'[old[i].act] = c
  <2>1. c \notin Ids => DOMAIN old = {} OBVIOUS
  <2>. QED BY <2>1, <1>3
<1>5. \A i \in DOMAIN conv'[c].msgs : where'[conv'[c].msgs[i].act] = c
  <2>1. CASE conv'[c].msgs = old BY <2>1, <1>4
  <2>2. ASSUME NEW m \in Message, conv'[c].msgs = Append(old, m), where'[m.act] = c
        PROVE  \A i \in DOMAIN conv'[c].msgs : where'[conv'[c].msgs[i].act] = c
    <3>. DEFINE new == conv'[c].msgs
    <3>1. /\ DOMAIN new = 1..(Len(old) + 1) /\ DOMAIN old = 1..Len(old) /\ Len(old) \in Nat
          /\ \A i \in 1..Len(old) : new[i] = old[i]
          /\ new[Len(old) + 1] = m
      BY <2>2, Appended
    <3>2. \A i \in DOMAIN new : i \in DOMAIN old \/ i = Len(old) + 1 BY <3>1
    <3>. HIDE DEF new
    <3>3. \A i \in DOMAIN new : where'[new[i].act] = c BY <3>1, <3>2, <2>2, <1>4
    <3>. QED BY <3>3 DEF new
  <2>. QED BY <2>1, <2>2
<1>6. conv'[c].msgs = <<>> => old = <<>>
  <2>1. \A m \in Message : Append(old, m) # <<>> BY Appended
  <2>. QED BY <2>1
<1>7. \A d \in Ids : ~Empty(d) => ~Empty(d)' BY <1>6 DEF Empty
<1>8. \A d \in Ids' : \A i \in DOMAIN conv'[d].msgs : where'[conv'[d].msgs[i].act] = d
  BY <1>3, <1>5
<1>. QED BY <1>7, <1>8

(* A request moves on without writing.                                     *)
LEMMA QuietOwn ==
  ASSUME ChatInv, OwnInv, ChatInv', NEW k \in calls, NEW n, Moves(k, n),
         UNCHANGED <<storeVars, where, tab, acts, odd>>, n \in calls' => Knows(n)
  PROVE  OwnInv'
<1>1. conv' = conv /\ where' = where /\ acts' = acts BY DEF storeVars
<1>2. Ids' = Ids BY <1>1 DEF Ids
<1>3. Places(k) BY <1>1 DEF Places
<1>4. \A c \in Ids' : \A i \in DOMAIN conv'[c].msgs : where'[conv'[c].msgs[i].act] = c
  BY <1>1, <1>2 DEF OwnInv, IdsInv
<1>5. \A c \in Ids : ~Empty(c) => ~Empty(c)' BY <1>1 DEF Empty
<1>6. n \in calls' => Knows(n)' BY <1>1, <1>2 DEF Knows, Sender, At, Notice
<1>. QED BY <1>1, <1>2, <1>3, <1>4, <1>5, <1>6, ServeOwn

(* An answer is the same request's.                                        *)
LEMMA AnswerMoves ==
  ASSUME NEW k \in calls, NEW next, Answer(k, next), NEW n, n = [next EXCEPT !.pc = "answered"],
         n.id = k.id, n.tab = k.tab, n.kind = k.kind, n.live = k.live,
         k.kind # "reset" => n.cid = k.cid, k.kind = "resume" => n.sess = k.sess
  PROVE  Moves(k, n)
BY DEF Moves, Answer, Becomes

(* resolve, the refusals, and the history.                                 *)
LEMMA ReadOwn ==
  ASSUME ChatInv, OwnInv, ChatInv', NEW k \in calls, UNCHANGED <<tab, acts, odd>>,
         TurnResolve(k) \/ TurnRefused(k) \/ ResetRead(k) \/ LoadRead(k)
  PROVE  OwnInv'
<1>1. k \in Call /\ CallOK(k) /\ Knows(k) /\ RowsInv /\ IdsInv
  BY Before DEF ChatInv, OwnInv, KnowsInv
<1>2. CASE TurnResolve(k)
  <2>. DEFINE c == IF k.cid = 0 THEN MostRecent ELSE 0
             n == [k EXCEPT !.pc = "accept", !.conv = c]
  <2>1. calls' = (calls \ {k}) \cup {n} /\ UNCHANGED <<storeVars, where>> /\ k.kind = "send"
        /\ k.pc = "sent" /\ k.cid \notin Ids
    BY <1>2 DEF TurnResolve, Becomes, At, Ids
  <2>. HIDE DEF c
  <2>2. /\ n.id = k.id /\ n.tab = k.tab /\ n.kind = k.kind /\ n.live = k.live /\ n.cid = k.cid
        /\ n.sess = k.sess /\ n.pc = "accept"
    BY <1>1 DEF Call
  <2>. HIDE DEF n
  <2>3. Moves(k, n) BY <2>1, <2>2 DEF Moves
  <2>4. Knows(n) BY <1>1, <2>1, <2>2 DEF Knows, Sender, At
  <2>. QED BY <2>1, <2>3, <2>4, QuietOwn
<1>3. CASE TurnRefused(k)
  <2>. DEFINE next == [k EXCEPT !.res = "error"]
             n == [next EXCEPT !.pc = "answered"]
  <2>1. Answer(k, next) /\ UNCHANGED <<storeVars, where>> /\ k.kind = "send"
    BY <1>3 DEF TurnRefused, historyVars, Resolved, At
  <2>2. /\ n.id = k.id /\ n.tab = k.tab /\ n.kind = k.kind /\ n.live = k.live /\ n.cid = k.cid
        /\ n.sess = k.sess /\ n.pc = "answered" /\ n.res = "error"
    BY <1>1 DEF Call
  <2>. HIDE DEF next
  <2>3. Moves(k, n) BY <2>1, <2>2, AnswerMoves
  <2>. HIDE DEF n
  <2>4. Knows(n) BY <1>1, <2>1, <2>2 DEF Knows, Sender, At
  <2>. QED BY <2>1, <2>3, <2>4, QuietOwn
<1>4. CASE ResetRead(k)
  <2>. DEFINE c == find_current
             e == find_empty_for_user
             n == [k EXCEPT !.pc = "commit", !.cid = c, !.conv = e]
  <2>1. calls' = (calls \ {k}) \cup {n} /\ UNCHANGED <<storeVars, where>> /\ k.kind = "reset"
    BY <1>4 DEF ResetRead, Becomes, historyVars, At
  <2>. HIDE DEF c, e
  <2>2. /\ n.id = k.id /\ n.tab = k.tab /\ n.kind = k.kind /\ n.live = k.live
        /\ n.sess = k.sess
    BY <1>1 DEF Call
  <2>. HIDE DEF n
  <2>3. Moves(k, n) BY <2>1, <2>2 DEF Moves
  <2>4. Knows(n) BY <1>1, <2>1, <2>2 DEF Knows, Sender, At
  <2>. QED BY <2>1, <2>3, <2>4, QuietOwn
<1>5. CASE LoadRead(k)
  <2>. DEFINE items == {ShownAs(conv[k.cid].msgs[i]) : i \in DOMAIN conv[k.cid].msgs}
             found == [k EXCEPT !.res = "success", !.sessions = conv[k.cid].sessions,
                                !.items = items]
             missing == [k EXCEPT !.res = "missing"]
             next == IF k.cid \in DOMAIN conv THEN found ELSE missing
             n == [next EXCEPT !.pc = "answered"]
  <2>1. Answer(k, next) /\ UNCHANGED <<storeVars, where>> /\ k.kind = "load"
    BY <1>5 DEF LoadRead, historyVars, At
  <2>2. CASE k.cid \in DOMAIN conv
    <3>1. k.cid \in Ids /\ conv[k.cid].msgs \in Seq(Message) BY <2>2, <1>1, RowFacts DEF Ids
    <3>2. \A i \in items : ~Notice(i) /\ i[2] \in 1..acts /\ where[i[2]] = k.cid
      <4>. SUFFICES ASSUME NEW j \in DOMAIN conv[k.cid].msgs
                    PROVE  LET i == ShownAs(conv[k.cid].msgs[j])
                           IN  ~Notice(i) /\ i[2] \in 1..acts /\ where[i[2]] = k.cid
        OBVIOUS
      <4>1. conv[k.cid].msgs[j] \in Message BY <3>1
      <4>2. where[conv[k.cid].msgs[j].act] = k.cid BY <1>1, <3>1 DEF IdsInv
      <4>3. conv[k.cid].msgs[j].act \in 1..acts
        <5>1. conv[k.cid].msgs[j].act \in 0..MaxActs BY <4>1 DEF Message
        <5>2. k.cid # 0 BY <1>1, <3>1, RowNumbers
        <5>. QED BY <5>1, <5>2, <4>2, <1>1 DEF IdsInv
      <4>. QED BY <4>2, <4>3 DEF ShownAs, Notice
    <3>. HIDE DEF items
    <3>3. next = found BY <2>2
    <3>4. /\ n.id = k.id /\ n.tab = k.tab /\ n.kind = k.kind /\ n.live = k.live /\ n.cid = k.cid
          /\ n.sess = k.sess /\ n.pc = "answered" /\ n.items = items
      BY <1>1, <3>3 DEF Call
    <3>. HIDE DEF found, missing, next
    <3>5. Moves(k, n) BY <2>1, <3>4, AnswerMoves
    <3>. HIDE DEF n
    <3>6. Knows(n) BY <2>1, <3>1, <3>2, <3>4 DEF Knows, Sender, At
    <3>. QED BY <2>1, <3>5, <3>6, QuietOwn
  <2>3. CASE k.cid \notin DOMAIN conv
    <3>1. next = missing BY <2>3
    <3>. HIDE DEF found
    <3>2. /\ n.id = k.id /\ n.tab = k.tab /\ n.kind = k.kind /\ n.live = k.live /\ n.cid = k.cid
          /\ n.sess = k.sess /\ n.pc = "answered" /\ n.res = "missing"
      BY <1>1, <3>1 DEF Call
    <3>. HIDE DEF missing, next
    <3>3. Moves(k, n) BY <2>1, <3>2, AnswerMoves
    <3>. HIDE DEF n
    <3>4. Knows(n) BY <2>1, <3>2 DEF Knows, Sender, At
    <3>. QED BY <2>1, <3>3, <3>4, QuietOwn
  <2>. QED BY <2>2, <2>3
<1>. QED BY <1>2, <1>3, <1>4, <1>5

(* One row is written.                                                     *)
LEMMA OneRow ==
  ASSUME NEW c, NEW row, conv' = [i \in Ids \cup {c} |-> IF i = c THEN row ELSE conv[i]]
  PROVE  /\ Ids' = Ids \cup {c} /\ conv'[c] = row
         /\ \A i \in Ids : i # c => conv'[i] = conv[i]
BY DEF Ids

(* A turn is accepted: its act has a conversation now, the one the page     *)
(* named if it named one.                                                  *)
LEMMA AcceptOwn ==
  ASSUME ChatInv, OwnInv, ChatInv', NEW k \in calls, UNCHANGED <<tab, acts, odd>>, TurnAccept(k)
  PROVE  OwnInv'
<1>. DEFINE c == IF Chosen(k) = 0 THEN Len(conv) + 1 ELSE Chosen(k)
            row == IF Chosen(k) = 0 THEN NewRow ELSE conv[c]
            new == Accepted(row, k)
            iv == k.key \/ IsOpen(row)
            m == Msg(IF k.auto THEN "auto" ELSE "user", k.id, 0)
<1>1. k \in Call /\ CallOK(k) /\ RowsInv /\ Knows(k) /\ IdsInv
  BY Before DEF ChatInv, OwnInv, KnowsInv
<1>2. Len(conv) \in Nat /\ Ids = 1..Len(conv) /\ 0 \notin Ids /\ Stale \notin Ids
  BY <1>1, RowFacts, RowNumbers
<1>3. /\ conv' = [i \in DOMAIN conv \cup {c} |-> IF i = c THEN new ELSE conv[i]]
      /\ Resolved(k) /\ where' = [where EXCEPT ![k.id] = c]
      /\ calls' = (calls \ {k}) \cup {[k EXCEPT !.pc = "handling", !.conv = c, !.iv = iv]}
  BY DEF TurnAccept, Becomes
<1>4. k.kind = "send" /\ k.pc \in {"sent", "accept"} /\ Chosen(k) \in Ids \cup {0}
  BY <1>1, <1>3 DEF Resolved, Chosen, At, CallOK, Ids
<1>5. k.cid \in Ids => c = k.cid
  <2>1. k.cid \in Ids => k.pc = "sent" BY <1>1, <1>4 DEF Knows, At
  <2>. QED BY <2>1, <1>2 DEF Chosen
<1>6. c # 0 /\ c \in Nat /\ (c \notin Ids => row = NewRow) /\ (c \in Ids => row = conv[c])
  <2>1. Chosen(k) = 0 => c = Len(conv) + 1 /\ row = NewRow /\ c \notin Ids BY <1>2
  <2>2. Chosen(k) # 0 => c = Chosen(k) /\ c \in Ids /\ row = conv[c] BY <1>4
  <2>. QED BY <2>1, <2>2, <1>2
<1>7. row \in Row
  <2>1. \A i \in Ids : conv[i] \in Row BY <1>1, RowFacts
  <2>. QED BY <2>1, <1>6, NewRowOK
<1>8. row.msgs \in Seq(Message) /\ (c \in Ids => row.msgs = conv[c].msgs)
      /\ (c \notin Ids => row.msgs = <<>>)
  BY <1>6, <1>7 DEF Row, NewRow
<1>9. m \in Message /\ m.act = k.id
  <2>1. k.id \in 0..MaxActs BY <1>1 DEF Call
  <2>. QED BY <2>1 DEF Msg, Message
<1>. HIDE DEF m
<1>10. new.msgs = Append(row.msgs, m)
  <2>1. row.msgs = replace_placeholder_title(coalesced(row, k.id), k.id).msgs
    BY <1>7 DEF replace_placeholder_title, coalesced, Row
  <2>2. \A r \in {row, replace_placeholder_title(coalesced(row, k.id), k.id)} :
          DOMAIN r = {"msgs", "title", "flag", "sessions", "lock"}
    BY <1>7 DEF replace_placeholder_title, coalesced, Row
  <2>. QED BY <2>1, <2>2 DEF Accepted, m
<1>. HIDE DEF c, row, new, iv
<1>11. conv' = [i \in Ids \cup {c} |-> IF i = c THEN new ELSE conv[i]] BY <1>3 DEF Ids
<1>12. Ids' = Ids \cup {c} /\ conv'[c] = new /\ \A i \in Ids : i # c => conv'[i] = conv[i]
  BY <1>11, OneRow
<1>13. Sender(k) /\ where[k.id] = 0 BY <1>1, <1>4 DEF Knows, Sender
<1>14. Places(k) BY <1>3, <1>5, <1>6, <1>12, <1>13 DEF Places
<1>15. where'[k.id] = c
  <2>1. k.id \in 0..MaxActs BY <1>1 DEF Call
  <2>. QED BY <2>1, <1>1, <1>3 DEF IdsInv
<1>16. /\ \A d \in Ids' : \A i \in DOMAIN conv'[d].msgs : where'[conv'[d].msgs[i].act] = d
       /\ \A d \in Ids : ~Empty(d) => ~Empty(d)'
  BY <1>1, <1>6, <1>8, <1>9, <1>10, <1>12, <1>14, <1>15, RowOwn
<1>17. ~Empty(where[k.id])'
  <2>1. conv'[c].msgs # <<>> BY <1>8, <1>9, <1>10, <1>12, Appended
  <2>. QED BY <2>1, <1>15 DEF Empty
<1>. PICK n : n = [k EXCEPT !.pc = "handling", !.conv = c, !.iv = iv] OBVIOUS
<1>18. /\ n.id = k.id /\ n.tab = k.tab /\ n.kind = k.kind /\ n.live = k.live /\ n.cid = k.cid
       /\ n.sess = k.sess /\ n.pc = "handling" /\ n.conv = c
  BY <1>1 DEF Call
<1>19. Moves(k, n) BY <1>3, <1>18 DEF Moves
<1>20. Knows(n)'
  <2>1. n.cid \in Ids' => n.cid \in Ids \/ c = n.cid BY <1>12
  <2>2. n.cid \in Ids' => where'[n.id] = n.cid BY <2>1, <1>5, <1>15, <1>18
  <2>. QED BY <2>2, <1>4, <1>6, <1>15, <1>18 DEF Knows, At
<1>. QED BY <1>12, <1>14, <1>16, <1>17, <1>19, <1>20, ServeOwn

(* A message of an act that has this conversation is added to it, or none.   *)
LEMMA SaidOwn ==
  ASSUME ChatInv, OwnInv, ChatInv', NEW k \in calls, NEW n, Moves(k, n),
         UNCHANGED <<where, tab, acts, odd>>, NEW c \in Ids, NEW row, conv' = [conv EXCEPT ![c] = row],
         \/ row.msgs = conv[c].msgs
         \/ \E m \in Message : row.msgs = Append(conv[c].msgs, m) /\ where[m.act] = c,
         n \in calls' => Knows(n)
  PROVE  OwnInv'
<1>1. RowsInv /\ IdsInv BY DEF ChatInv, OwnInv
<1>2. conv' = [i \in Ids \cup {c} |-> IF i = c THEN row ELSE conv[i]] BY <1>1, RowExcept
<1>3. /\ Ids' = Ids \cup {c} /\ conv'[c] = row
      /\ \A i \in Ids : i # c => conv'[i] = conv[i]
  BY <1>2, OneRow
<1>4. Ids' = Ids BY <1>3
<1>5. c # 0 /\ conv[c].msgs \in Seq(Message) BY <1>1, RowNumbers, RowFacts
<1>6. Places(k) BY DEF Places
<1>7. /\ \A d \in Ids' : \A i \in DOMAIN conv'[d].msgs : where'[conv'[d].msgs[i].act] = d
      /\ \A d \in Ids : ~Empty(d) => ~Empty(d)'
  BY <1>1, <1>3, <1>5, <1>6, RowOwn
<1>8. n \in calls' => Knows(n)' BY <1>4 DEF Knows, Sender, At, Notice
<1>. QED BY <1>4, <1>6, <1>7, <1>8, ServeOwn

(* A turn fails.                                                           *)
LEMMA FailOwn ==
  ASSUME ChatInv, OwnInv, ChatInv', NEW k \in calls, UNCHANGED <<tab, acts, odd>>, TurnFail(k)
  PROVE  OwnInv'
<1>. DEFINE c == k.conv
            row == [conv[c] EXCEPT !.lock = 0]
<1>1. k \in Call /\ CallOK(k) /\ RowsInv /\ Knows(k) /\ At(k, "send", "handling")
  BY Before DEF ChatInv, OwnInv, KnowsInv, TurnFail
<1>2. c \in Ids /\ conv[c] \in Row BY <1>1, RowFacts DEF CallOK
<1>3. row.msgs = conv[c].msgs BY <1>2 DEF Row
<1>4. conv' = [conv EXCEPT ![c] = row] /\ UNCHANGED where BY DEF TurnFail, historyVars
<1>. HIDE DEF row
<1>5. PICK res \in {"error", "timeout"} : Answer(k, [k EXCEPT !.res = res]) BY DEF TurnFail
<1>. DEFINE next == [k EXCEPT !.res = res]
            n == [next EXCEPT !.pc = "answered"]
<1>6. Answer(k, next) BY <1>5
<1>7. /\ n.id = k.id /\ n.tab = k.tab /\ n.kind = k.kind /\ n.live = k.live /\ n.cid = k.cid
      /\ n.sess = k.sess /\ n.pc = "answered" /\ n.res = res /\ k.kind = "send"
  BY <1>1 DEF Call, At
<1>. HIDE DEF next
<1>8. Moves(k, n) BY <1>6, <1>7, AnswerMoves
<1>. HIDE DEF n
<1>9. Knows(n) BY <1>1, <1>7 DEF Knows, At
<1>. HIDE DEF c
<1>. QED BY <1>2, <1>3, <1>4, <1>8, <1>9, SaidOwn

(* A turn ends: the reply is stored with the message it answers.            *)
LEMMA EndOwn ==
  ASSUME ChatInv, OwnInv, ChatInv', NEW k \in calls, UNCHANGED <<tab, acts, odd>>, TurnEnd(k)
  PROVE  OwnInv'
<1>. DEFINE c == k.conv
            sn == Len(conv[c].sessions)
            m == Msg("agent", k.id, IF k.iv THEN sn ELSE 0)
            done == [conv[c] EXCEPT !.msgs = Append(@, m), !.lock = 0]
            titled == IF k.auto THEN set_placeholder_title(done) ELSE done
<1>1. /\ k \in Call /\ CallOK(k) /\ RowsInv /\ Knows(k) /\ At(k, "send", "handling")
      /\ k.kind = "send" /\ k.id \in 0..MaxActs
  BY Before DEF ChatInv, OwnInv, KnowsInv, TurnEnd, At, Call
<1>2. c \in Ids /\ conv[c] \in Row /\ sn \in Nat BY <1>1, RowFacts DEF CallOK
<1>3. m \in Message /\ m.act = k.id BY <1>1, <1>2 DEF Msg, Message
<1>4. where[m.act] = c BY <1>1, <1>3 DEF Knows
<1>. HIDE DEF m
<1>5. DOMAIN done = {"msgs", "title", "flag", "sessions", "lock"} /\ done.msgs = Append(conv[c].msgs, m)
  BY <1>2 DEF Row
<1>. HIDE DEF done
<1>6. DOMAIN titled = {"msgs", "title", "flag", "sessions", "lock"} /\ titled.msgs = Append(conv[c].msgs, m)
  BY <1>5 DEF set_placeholder_title
<1>7. /\ where' = where
      /\ \/ /\ ~k.iv
            /\ conv' = [conv EXCEPT ![c] = titled]
            /\ Answer(k, [k EXCEPT !.res = "success"])
         \/ /\ k.iv
            /\ \E s \in {"open", "finalizing", "completed"} :
                 /\ conv' = [conv EXCEPT ![c] = [titled EXCEPT !.sessions[sn] = s]]
                 /\ Answer(k, [k EXCEPT !.res = "success", !.sess = <<c, sn>>, !.sessions = <<s>>])
  BY DEF TurnEnd, historyVars, done, m
<1>. HIDE DEF titled
<1>8. CASE /\ ~k.iv
           /\ conv' = [conv EXCEPT ![c] = titled]
           /\ Answer(k, [k EXCEPT !.res = "success"])
  <2>. DEFINE next == [k EXCEPT !.res = "success"]
             n == [next EXCEPT !.pc = "answered"]
  <2>1. Answer(k, next) BY <1>8
  <2>2. /\ n.id = k.id /\ n.tab = k.tab /\ n.kind = k.kind /\ n.live = k.live /\ n.cid = k.cid
        /\ n.pc = "answered" /\ n.conv = k.conv /\ n.iv = k.iv
    BY <1>1 DEF Call
  <2>. HIDE DEF next
  <2>3. Moves(k, n) BY <1>1, <2>1, <2>2, AnswerMoves
  <2>. HIDE DEF n
  <2>4. Knows(n) BY <1>1, <1>8, <2>2 DEF Knows, At
  <2>. HIDE DEF c
  <2>. QED BY <1>2, <1>3, <1>4, <1>6, <1>7, <1>8, <2>3, <2>4, SaidOwn
<1>9. ASSUME NEW s, k.iv, conv' = [conv EXCEPT ![c] = [titled EXCEPT !.sessions[sn] = s]],
             Answer(k, [k EXCEPT !.res = "success", !.sess = <<c, sn>>, !.sessions = <<s>>])
      PROVE  OwnInv'
  <2>. DEFINE row == [titled EXCEPT !.sessions[sn] = s]
  <2>1. conv' = [conv EXCEPT ![c] = row] BY <1>9
  <2>2. row.msgs = titled.msgs BY <1>6
  <2>. HIDE DEF row
  <2>. PICK ss : ss = <<c, sn>> OBVIOUS
  <2>. PICK st : st = <<s>> OBVIOUS
  <2>. DEFINE next == [k EXCEPT !.res = "success", !.sess = ss, !.sessions = st]
             n == [next EXCEPT !.pc = "answered"]
  <2>3. Answer(k, next) BY <1>9
  <2>4. /\ n.id = k.id /\ n.tab = k.tab /\ n.kind = k.kind /\ n.live = k.live /\ n.cid = k.cid
        /\ n.pc = "answered" /\ n.conv = k.conv /\ n.sess = ss
    BY <1>1 DEF Call
  <2>5. ss[1] = c OBVIOUS
  <2>. HIDE DEF next
  <2>6. Moves(k, n) BY <1>1, <2>3, <2>4, AnswerMoves
  <2>. HIDE DEF n
  <2>7. Knows(n) BY <1>1, <2>4, <2>5 DEF Knows, At
  <2>. HIDE DEF c
  <2>. QED BY <1>2, <1>3, <1>4, <1>6, <1>7, <2>1, <2>2, <2>6, <2>7, SaidOwn
<1>. QED BY <1>7, <1>8, <1>9

(* A recovered reply is stored with the user's last message.                *)
LEMMA ResumeRunOwn ==
  ASSUME ChatInv, OwnInv, ChatInv', NEW k \in calls, UNCHANGED <<tab, acts, odd>>, ResumeRun(k)
  PROVE  OwnInv'
<1>. DEFINE c == k.sess[1]
            act == LastAct(c)
            m == Msg("agent", act, k.sess[2])
            row == [conv[c] EXCEPT !.msgs = Append(@, m)]
            items == {<<"question", act>>}
<1>1. /\ k \in Call /\ CallOK(k) /\ RowsInv /\ IdsInv /\ Knows(k) /\ k.kind = "resume"
      /\ k.pc = "sent" /\ where' = where
  BY Before DEF ChatInv, OwnInv, KnowsInv, ResumeRun, At, historyVars
<1>2. c \in Ids /\ k.sess[2] \in DOMAIN conv[c].sessions /\ k.sess[2] \in Nat
  <2>1. k.sess \in Nat \X Nat BY <1>1 DEF Call
  <2>. QED BY <1>1, <2>1 DEF CallOK, IsSession, NoSession
<1>3. /\ conv[c] \in Row /\ RowOK(conv[c]) /\ conv[c].msgs \in Seq(Message)
      /\ Len(conv[c].msgs) \in Nat /\ DOMAIN conv[c].msgs = 1..Len(conv[c].msgs)
      /\ DOMAIN conv[c].sessions = 1..Len(conv[c].sessions) /\ c # 0
  BY <1>1, <1>2, RowFacts, RowNumbers
<1>4. act \in 1..acts /\ act \in 0..MaxActs /\ where[act] = c
  <2>. DEFINE asked == From(conv[c], {"user", "auto"})
  <2>1. conv[c].sessions # <<>> BY <1>2, <1>3
  <2>2. asked # {} BY <2>1, <1>3 DEF RowOK
  <2>3. asked \in SUBSET (0..Len(conv[c].msgs)) /\ asked \subseteq DOMAIN conv[c].msgs
    <3>1. asked \subseteq DOMAIN conv[c].msgs BY Zenon DEF From
    <3>. HIDE DEF asked
    <3>2. \A l \in Nat : 1..l \subseteq 0..l OBVIOUS
    <3>. QED BY <1>3, <3>1, <3>2
  <2>4. act = conv[c].msgs[Max(asked)].act BY DEF LastAct, LastOf
  <2>. HIDE DEF asked, act
  <2>5. Max(asked) \in DOMAIN conv[c].msgs BY <2>2, <2>3, <1>3, MaxOf
  <2>6. conv[c].msgs[Max(asked)] \in Message BY <2>5, <1>3
  <2>7. act \in 0..MaxActs BY <2>4, <2>6 DEF Message
  <2>8. where[act] = c BY <2>4, <2>5, <1>1, <1>2 DEF IdsInv
  <2>9. act \in 1..acts BY <2>7, <2>8, <1>1, <1>3 DEF IdsInv
  <2>. QED BY <2>7, <2>8, <2>9
<1>. HIDE DEF act
<1>5. CASE /\ conv' = [conv EXCEPT ![c].msgs = Append(@, m)]
           /\ Answer(k, [k EXCEPT !.res = "success", !.items = items])
  <2>1. m \in Message /\ m.act = act BY <1>2, <1>4 DEF Msg, Message
  <2>. HIDE DEF m
  <2>2. row.msgs = Append(conv[c].msgs, m) /\ conv' = [conv EXCEPT ![c] = row] BY <1>3, <1>5 DEF Row
  <2>. HIDE DEF row
  <2>3. \A i \in items : ~Notice(i) /\ i[2] \in 1..acts /\ where[i[2]] = c BY <1>4 DEF Notice
  <2>. PICK its : its = items OBVIOUS
  <2>. DEFINE next == [k EXCEPT !.res = "success", !.items = its]
             n == [next EXCEPT !.pc = "answered"]
  <2>4. Answer(k, next) BY <1>5
  <2>. HIDE DEF items
  <2>5. /\ n.id = k.id /\ n.tab = k.tab /\ n.kind = k.kind /\ n.live = k.live /\ n.cid = k.cid
        /\ n.pc = "answered" /\ n.items = its /\ n.sess = k.sess
    BY <1>1 DEF Call
  <2>. HIDE DEF next
  <2>6. Moves(k, n) BY <1>1, <2>4, <2>5, AnswerMoves
  <2>. HIDE DEF n
  <2>7. Knows(n) BY <1>1, <2>3, <2>5 DEF Knows, At, Sender
  <2>. HIDE DEF c
  <2>. QED BY <1>1, <1>2, <1>4, <2>1, <2>2, <2>6, <2>7, SaidOwn
<1>6. ASSUME NEW res \in {"pending", "not_delivered"}, Answer(k, [k EXCEPT !.res = res]),
             UNCHANGED storeVars
      PROVE  OwnInv'
  <2>. DEFINE next == [k EXCEPT !.res = res]
             n == [next EXCEPT !.pc = "answered"]
  <2>1. Answer(k, next) BY <1>6
  <2>2. /\ n.id = k.id /\ n.tab = k.tab /\ n.kind = k.kind /\ n.live = k.live /\ n.cid = k.cid
        /\ n.pc = "answered" /\ n.res = res /\ n.sess = k.sess
    BY <1>1 DEF Call
  <2>. HIDE DEF next
  <2>3. Moves(k, n) BY <1>1, <2>1, <2>2, AnswerMoves
  <2>. HIDE DEF n
  <2>4. Knows(n) BY <1>1, <2>2 DEF Knows, At, Sender
  <2>. QED BY <1>1, <1>6, <2>3, <2>4, QuietOwn
<1>. QED BY <1>5, <1>6 DEF ResumeRun, act

(* A reset writes no message.                                              *)
LEMMA ResetCommitOwn ==
  ASSUME ChatInv, OwnInv, ChatInv', NEW k \in calls, UNCHANGED <<tab, acts, odd>>, ResetCommit(k)
  PROVE  OwnInv'
<1>. DEFINE c == IF k.conv = 0 THEN Len(conv) + 1 ELSE k.conv
            left(i) == IF i = k.cid /\ IsOpen(conv[i])
                       THEN [conv[i] EXCEPT !.sessions[Newest(i)[2]] = "abandoned"] ELSE conv[i]
<1>1. /\ k \in Call /\ CallOK(k) /\ RowsInv /\ IdsInv /\ Knows(k) /\ k.kind = "reset"
      /\ k.pc = "commit" /\ where' = where
  BY Before DEF ChatInv, OwnInv, KnowsInv, ResetCommit, At
<1>2. Len(conv) \in Nat /\ Ids = 1..Len(conv) /\ \A i \in Ids : conv[i] \in Row
  BY <1>1, RowFacts
<1>3. c \in Nat /\ c # 0 /\ k.conv \in Ids \cup {0} BY <1>1, <1>2 DEF CallOK
<1>4. conv' = [i \in Ids \cup {c} |-> IF i \in Ids THEN left(i) ELSE NewRow]
      /\ Answer(k, [k EXCEPT !.conv = c])
  BY DEF ResetCommit, Ids
<1>5. \A i \in Ids : left(i).msgs = conv[i].msgs BY <1>2 DEF Row
<1>. HIDE DEF c, left
<1>6. /\ Ids' = Ids \cup {c} /\ \A i \in Ids : conv'[i].msgs = conv[i].msgs
      /\ c \notin Ids => conv'[c].msgs = <<>>
  BY <1>4, <1>5 DEF Ids, NewRow
<1>7. Places(k) BY <1>1 DEF Places
<1>. DEFINE old == IF c \in Ids THEN conv[c].msgs ELSE <<>>
<1>8. /\ old \in Seq(Message) /\ conv'[c].msgs = old
      /\ c \in Ids => old = conv[c].msgs
      /\ c \notin Ids => old = <<>>
  BY <1>2, <1>6 DEF Row
<1>. HIDE DEF old
<1>9. /\ \A d \in Ids' : \A i \in DOMAIN conv'[d].msgs : where'[conv'[d].msgs[i].act] = d
      /\ \A d \in Ids : ~Empty(d) => ~Empty(d)'
  BY <1>1, <1>3, <1>6, <1>7, <1>8, RowOwn
<1>. PICK d : d = c OBVIOUS
<1>. DEFINE next == [k EXCEPT !.conv = d]
            n == [next EXCEPT !.pc = "answered"]
<1>10. Answer(k, next) BY <1>4
<1>11. /\ n.id = k.id /\ n.tab = k.tab /\ n.kind = k.kind /\ n.live = k.live
       /\ n.pc = "answered" /\ n.sess = k.sess
  BY <1>1 DEF Call
<1>. HIDE DEF next
<1>12. Moves(k, n) BY <1>1, <1>10, <1>11, AnswerMoves
<1>. HIDE DEF n
<1>13. Knows(n)' BY <1>1, <1>11 DEF Knows, At, Sender
<1>. QED BY <1>1, <1>6, <1>7, <1>9, <1>12, <1>13, ServeOwn

(* What the server does.                                                   *)
LEMMA ServeStepOwn ==
  ASSUME ChatInv, OwnInv, ChatInv', NEW k \in calls, ServeStep(k)
  PROVE  OwnInv'
BY ReadOwn, AcceptOwn, EndOwn, FailOwn, ResetCommitOwn, ResumeRunOwn DEF ServeStep, Serve

(* Nothing the invariant speaks of changes but the states of sessions.       *)
LEMMA SameOwn ==
  ASSUME OwnInv, UNCHANGED <<calls, where, tab, acts, odd>>, Ids' = Ids,
         \A c \in Ids : conv'[c].msgs = conv[c].msgs
  PROVE  OwnInv'
<1>1. IdsInv' BY DEF OwnInv, IdsInv, Empty, Sender
<1>2. KnowsInv' BY DEF OwnInv, KnowsInv, Knows, Sender, At, Notice
<1>3. \A t \in Tabs : OwnPage(t)' <=> OwnPage(t)
  BY DEF OwnPage, OwnItem, OwnCall, Mine, Asks, Sending, Expected, Notice, Sender
<1>. QED BY <1>1, <1>2, <1>3 DEF OwnInv, Clean

(* An interview is settled.                                                *)
LEMMA SettlesOwn ==
  ASSUME ChatInv, OwnInv, Settles
  PROVE  OwnInv'
<1>1. RowsInv BY DEF ChatInv
<1>2. \A c \in Ids : conv[c] \in Row BY <1>1, RowFacts
<1>3. PICK c \in Ids, s \in {"completed", "failed"} : conv' = [conv EXCEPT ![c].sessions[Newest(c)[2]] = s]
  BY DEF Settles, SessionSettles, Ids
<1>4. Ids' = Ids BY <1>3 DEF Ids
<1>5. \A d \in Ids : conv'[d].msgs = conv[d].msgs BY <1>2, <1>3 DEF Ids, Row
<1>6. UNCHANGED <<calls, where, tab, acts, odd>> BY DEF Settles, SessionSettles, historyVars
<1>. QED BY <1>4, <1>5, <1>6, SameOwn

-----------------------------------------------------------------------------
(* The pages.                                                              *)

(* Request k goes on as n, or has left it as n: it is about the same act.    *)
Heir(n, k) ==
  /\ Sender(k) /\ n.id = k.id /\ n.tab = k.tab
  /\ k.kind = "send" => n.kind = "send" /\ n.cid = k.cid

(* A page acts, or gets an answer.  The other pages do not notice.          *)
LEMMA PageOwn ==
  ASSUME ChatInv, OwnInv, UNCHANGED <<storeVars, where>>, NEW t \in Tabs,
         acts \in Nat, acts' \in {acts, acts + 1},
         \A u \in Tabs \ {t} : tab'[u] = tab[u] /\ odd'[u] = odd[u],
         \A k \in calls' : k \in calls \/ k.tab = t,
         \A k \in calls : k \in calls' \/ k.tab = t,
         \A k \in calls' : Sender(k) =>
            (k.id = acts' /\ acts' # acts) \/ \E j \in calls : Heir(k, j),
         \A j, k \in calls' : Sender(j) /\ Sender(k) /\ j.id = k.id => j = k,
         \A k \in calls' : k \in calls \/ Knows(k),
         Clean(t)' => OwnPage(t)'
  PROVE  OwnInv'
<1>1. conv' = conv /\ Ids' = Ids /\ where' = where BY DEF storeVars, Ids
<1>2. IdsInv /\ KnowsInv BY DEF OwnInv
<1>3. acts' \in Nat /\ 1..acts \subseteq 1..acts' OBVIOUS
<1>4. \A k \in calls' : Sender(k) => k.id \in 1..acts' BY <1>2, <1>3 DEF IdsInv, Heir
<1>5. IdsInv'
  <2>1. \A n \in 0..MaxActs : where'[n] # 0 => n \in 1..acts' /\ ~Empty(where[n])'
    BY <1>1, <1>2, <1>3 DEF IdsInv, Empty
  <2>2. \A c \in Ids' : \A i \in DOMAIN conv'[c].msgs : where'[conv'[c].msgs[i].act] = c
    BY <1>1, <1>2 DEF IdsInv
  <2>3. where' \in [0..MaxActs -> Ids' \cup {0}] BY <1>1, <1>2 DEF IdsInv
  <2>. QED BY <1>4, <2>1, <2>2, <2>3 DEF IdsInv, Sender, Empty
<1>6. \A k : Knows(k) => Knows(k)'
  <2>. SUFFICES ASSUME NEW k, Knows(k)
                PROVE  Knows(k)'
    OBVIOUS
  <2>. QED BY <1>1, <1>3 DEF Knows, Sender, At, Notice
<1>7. KnowsInv' BY <1>2, <1>6 DEF KnowsInv
<1>8. ASSUME NEW u \in Tabs \ {t}, Clean(u)'
      PROVE  OwnPage(u)'
  <2>1. Clean(u) /\ OwnPage(u) /\ tab'[u] = tab[u] BY <1>8 DEF Clean, OwnInv
  <2>2. Mine(u)' = Mine(u) BY DEF Mine
  <2>3. Sending(u)' = Sending(u) BY <2>2 DEF Sending
  <2>4. ASSUME NEW i \in tab[u].items
        PROVE  OwnItem(u, i)'
    <3>1. OwnItem(u, i) BY <2>1 DEF OwnPage
    <3>2. CASE Notice(i) BY <1>1, <2>1, <3>1, <3>2 DEF OwnItem, Notice
    <3>3. CASE ~Notice(i)
      <4>1. i[2] \in 1..acts /\ i[2] \in 1..acts' BY <1>3, <3>1, <3>3 DEF OwnItem
      <4>2. \/ where[i[2]] \in {0, tab[u].cid}
            \/ i[1] = "user" /\ \E k \in Sending(u) : k.id = i[2]
        BY <3>1, <3>3 DEF OwnItem
      <4>3. ASSUME NEW k \in calls', Sender(k), k.id = i[2], where[k.id] = 0
            PROVE  Expected(u, i, k)
        <5>1. k.id # acts' \/ acts' = acts BY <4>1, <4>3
        <5>2. PICK j \in calls : Heir(k, j) BY <4>3, <5>1
        <5>3. Expected(u, i, j) BY <3>1, <3>3, <4>3, <5>2 DEF OwnItem, Heir
        <5>4. CASE j.tab = u
          <6>1. k \in calls BY <5>2, <5>4 DEF Heir
          <6>. QED BY <6>1, <3>1, <3>3, <4>3 DEF OwnItem
        <5>5. CASE j.tab # u BY <5>2, <5>3, <5>5 DEF Expected, Heir
        <5>. QED BY <5>4, <5>5
      <4>4. \A k : Expected(u, i, k)' <=> Expected(u, i, k) BY <1>1, <2>1 DEF Expected
      <4>. QED BY <1>1, <2>1, <2>3, <3>3, <4>1, <4>2, <4>3, <4>4 DEF OwnItem, Notice, Sender
    <3>. QED BY <3>2, <3>3
  <2>5. \A k : OwnCall(u, k)' <=> OwnCall(u, k) BY <2>1 DEF OwnCall
  <2>. QED BY <2>1, <2>2, <2>4, <2>5 DEF OwnPage, Asks
<1>. QED BY <1>5, <1>7, <1>8 DEF OwnInv

(* What is under way for a page that awaits an answer, and was patient.      *)
LEMMA PatientPage ==
  ASSUME ChatInv, OwnInv, NEW t \in Tabs, Clean(t), NEW k \in calls, k.tab = t, Asks(k)
  PROVE  /\ OwnCall(t, k) /\ \A j \in Mine(t) : Asks(j) => j = k
         /\ tab[t].sess[1] \in {0, tab[t].cid} /\ \A s \in tab[t].polls : s[1] = tab[t].cid
         /\ \A i \in tab[t].items :
              /\ Notice(i) => i[2] \in Ids /\ i[2] = tab[t].cid
              /\ ~Notice(i) =>
                   /\ i[2] \in 1..acts
                   /\ where[i[2]] \in {0, tab[t].cid} \/ (k.kind = "send" /\ i[2] = k.id)
                   /\ \A j \in calls \ {k} : Sender(j) /\ j.id = i[2] /\ where[j.id] = 0 =>
                        j.kind = "send" /\ j.cid \in Ids /\ j.cid = tab[t].cid
<1>1. OwnPage(t) /\ k \in Mine(t) BY DEF OwnInv, Mine, Asks
<1>2. \A j \in Mine(t) : Asks(j) => j = k BY <1>1 DEF OwnPage
<1>3. \A j \in Sending(t) : j = k BY <1>2 DEF Sending, Mine, Asks
<1>4. ASSUME NEW i \in tab[t].items, ~Notice(i)
      PROVE  /\ i[2] \in 1..acts
             /\ where[i[2]] \in {0, tab[t].cid} \/ (k.kind = "send" /\ i[2] = k.id)
             /\ \A j \in calls \ {k} : Sender(j) /\ j.id = i[2] /\ where[j.id] = 0 =>
                  j.kind = "send" /\ j.cid \in Ids /\ j.cid = tab[t].cid
  <2>1. OwnItem(t, i) BY <1>1 DEF OwnPage
  <2>2. where[i[2]] \in {0, tab[t].cid} \/ (k.kind = "send" /\ i[2] = k.id)
    BY <1>3, <1>4, <2>1 DEF OwnItem, Sending
  <2>3. ASSUME NEW j \in calls \ {k}, Sender(j), j.id = i[2], where[j.id] = 0
        PROVE  j.kind = "send" /\ j.cid \in Ids /\ j.cid = tab[t].cid
    <3>1. Expected(t, i, j) BY <1>4, <2>1, <2>3 DEF OwnItem
    <3>2. j \notin Sending(t) BY <1>3
    <3>. QED BY <3>1, <3>2 DEF Expected, Sending, Mine
  <2>. QED BY <1>4, <2>1, <2>2, <2>3 DEF OwnItem
<1>5. \A i \in tab[t].items : Notice(i) => i[2] \in Ids /\ i[2] = tab[t].cid
  BY <1>1 DEF OwnPage, OwnItem
<1>. QED BY <1>1, <1>2, <1>4, <1>5 DEF OwnPage

(* Acts are counted.                                                       *)
LEMMA ActsCount ==
  ASSUME ChatInv
  PROVE  acts \in Nat /\ 1..acts \subseteq 0..MaxActs
<1>1. acts \in 0..MaxActs /\ MaxActs \in Nat BY StoreConstants DEF ChatInv, BoundsInv
<1>. QED BY <1>1

(* A patient user acts: the page asks for one thing, or nothing.             *)
LEMMA ActOwn ==
  ASSUME ChatInv, OwnInv, ChatInv', NEW t \in Tabs, Act(t), NEW r, tab' = [tab EXCEPT ![t] = r],
         NEW n, calls' = calls \/ calls' = calls \cup {n}, n.tab = t, n.live, n.id = acts', n.pc = "sent",
         n.kind \in {"send", "reset", "load", "resume"},
         n.kind = "send" => n.cid = r.cid,
         n.kind = "resume" => n.sess = r.sess /\ r.sess # NoSession,
         n.kind \in {"load", "reset"} => r.polls = {},
         n.kind = "load" => r.sess = NoSession,
         r.cid = tab[t].cid, r.sess \in {tab[t].sess, NoSession}, r.polls \subseteq tab[t].polls,
         \A i \in r.items : i \in tab[t].items
                            \/ (i = <<"user", acts'>> /\ n.kind = "send" /\ n \in calls')
  PROVE  OwnInv'
<1>0. /\ UNCHANGED <<storeVars, where>> /\ acts \in Nat /\ acts' = acts + 1 /\ acts' \in 1..MaxActs
      /\ MaxActs \in Nat
  <2>1. acts \in 0..MaxActs /\ MaxActs \in Nat BY StoreConstants DEF ChatInv, BoundsInv
  <2>2. acts < MaxActs /\ acts' = acts + 1 BY DEF Act, Acts
  <2>. QED BY <2>1, <2>2 DEF Act, historyVars
<1>1. /\ UNCHANGED <<storeVars, where>> /\ acts \in Nat /\ acts' = acts + 1 /\ acts' \in 1..MaxActs
      /\ tab \in [Tabs -> PageOf] /\ odd \in [Tabs -> SUBSET {"impatient", "unnamed", "late poll", "load failed"}]
      /\ odd' = (IF Waits(t) THEN [odd EXCEPT ![t] = @ \cup {"impatient"}] ELSE odd)
      /\ acts' \in 0..MaxActs /\ acts' \notin 1..acts /\ 1..acts \subseteq 1..acts' /\ acts' \in 1..acts'
  <2>1. acts' \in 0..MaxActs /\ acts' \notin 1..acts /\ 1..acts \subseteq 1..acts' /\ acts' \in 1..acts'
    BY <1>0
  <2>2. odd' = (IF Waits(t) THEN [odd EXCEPT ![t] = @ \cup {"impatient"}] ELSE odd) BY DEF Act
  <2>3. odd \in [Tabs -> SUBSET {"impatient", "unnamed", "late poll", "load failed"}]
    BY DEF ChatInv, BoundsInv
  <2>. QED BY <1>0, <2>1, <2>2, <2>3, Before
<1>2. \A u \in Tabs \ {t} : tab'[u] = tab[u] /\ odd'[u] = odd[u] BY <1>1
<1>3. tab'[t] = r BY <1>1
<1>4. IdsInv BY DEF OwnInv
<1>5. \A k \in calls' : k \in calls \/ k = n OBVIOUS
<1>6. \A k \in calls : Sender(k) => k.id # acts' BY <1>1, <1>4 DEF IdsInv
<1>7. \A k \in calls' : Sender(k) => (k.id = acts' /\ acts' # acts) \/ \E j \in calls : Heir(k, j)
  BY <1>1, <1>5 DEF Heir
<1>8. \A j, k \in calls' : Sender(j) /\ Sender(k) /\ j.id = k.id => j = k
  BY <1>4, <1>5, <1>6 DEF IdsInv
<1>9. where[acts'] = 0
  BY <1>1, <1>4 DEF IdsInv
<1>10. Knows(n) BY <1>9 DEF Knows, At
<1>11. ASSUME Clean(t)'
       PROVE  OwnPage(t)'
  <2>1. ~Waits(t) /\ Clean(t) BY <1>1, <1>11 DEF Clean
  <2>2. OwnPage(t) BY <2>1 DEF OwnInv
  <2>3. \A k \in Mine(t) : k.kind = "poll" BY <2>1 DEF Waits
  <2>4. Sending(t) = {} BY <2>3 DEF Sending
  <2>5. \A k \in Mine(t)' : k \in Mine(t) \/ k = n BY <1>5 DEF Mine
  <2>6. \A k \in Mine(t)' : Asks(k) => k = n BY <2>3, <2>5 DEF Asks
  <2>7. \A k \in Mine(t)' : OwnCall(t, k)'
    <3>1. n.kind = "resume" => n.sess[1] = r.cid
      <4>. SUFFICES ASSUME n.kind = "resume"
                    PROVE  n.sess[1] = r.cid
        OBVIOUS
      <4>1. n.sess = tab[t].sess /\ tab[t].sess # NoSession OBVIOUS
      <4>2. IsSession(tab[t].sess) BY Before DEF PageOK
      <4>3. n.sess[1] # 0 BY <4>1, <4>2, RowNumbers DEF IsSession, ChatInv
      <4>. QED BY <4>1, <4>3, <2>2 DEF OwnPage
    <3>. QED BY <3>1, <1>3, <2>3, <2>5 DEF OwnCall
  <2>8. ASSUME NEW i \in r.items
        PROVE  OwnItem(t, i)'
    <3>1. Ids' = Ids /\ where' = where BY <1>1 DEF storeVars, Ids
    <3>2. CASE i = <<"user", acts'>> /\ n.kind = "send" /\ n \in calls'
      <4>1. ~Notice(i) /\ i[1] = "user" /\ i[2] = acts' BY <3>2 DEF Notice
      <4>2. \A k \in calls' : Sender(k) /\ k.id = acts' => k = n BY <1>5, <1>6
      <4>3. Expected(t, i, n)' BY <3>2 DEF Expected
      <4>. QED BY <1>1, <1>9, <3>1, <4>1, <4>2, <4>3, ZenonT(60) DEF OwnItem, Notice, Sender
    <3>3. CASE i \in tab[t].items
      <4>1. OwnItem(t, i) BY <2>2, <3>3 DEF OwnPage
      <4>2. CASE Notice(i) BY <1>3, <3>1, <4>1, <4>2 DEF OwnItem, Notice
      <4>3. CASE ~Notice(i)
        <5>1. i[2] \in 1..acts /\ where[i[2]] \in {0, tab[t].cid} BY <2>4, <4>1, <4>3 DEF OwnItem
        <5>2. i[2] \in 1..acts' /\ i[2] # acts' BY <1>1, <5>1
        <5>3. ASSUME NEW k \in calls', Sender(k), k.id = i[2], where[k.id] = 0
              PROVE  Expected(t, i, k)'
          <6>1. k \in calls BY <1>5, <5>2, <5>3
          <6>2. Expected(t, i, k) BY <4>1, <4>3, <5>3, <6>1 DEF OwnItem
          <6>3. ~(k.live /\ k.tab = t) BY <2>3, <6>1, <6>2 DEF Mine, Expected
          <6>. QED BY <1>3, <3>1, <6>2, <6>3 DEF Expected
        <5>. QED BY <1>3, <3>1, <4>3, <5>1, <5>2, <5>3 DEF OwnItem, Notice, Sender
      <4>. QED BY <4>2, <4>3
    <3>. QED BY <3>2, <3>3
  <2>9. r.sess[1] \in {0, r.cid} /\ \A s \in r.polls : s[1] = r.cid
    BY <2>2 DEF OwnPage, NoSession
  <2>. QED BY <1>3, <2>6, <2>7, <2>8, <2>9 DEF OwnPage, Asks
<1>. HIDE DEF Clean, OwnPage
<1>12. \A k \in calls' : (k \in calls \/ k.tab = t) /\ (k \in calls \/ Knows(k)) BY <1>5, <1>10
<1>. QED BY <1>1, <1>2, <1>7, <1>8, <1>11, <1>12, PageOwn

(* The user's acts but the reload.                                         *)
LEMMA UserOwn ==
  ASSUME ChatInv, OwnInv, ChatInv', NEW t \in Tabs,
         \/ handleSubmit(t) \/ handleSelectConversation(t)
         \/ \E then : startNewConversation(t, then)
         \/ \E n \in 1..MaxActs : handleRetry(t, n) \/ handleResume(t, n)
  PROVE  OwnInv'
<1>. DEFINE r0 == tab[t]
<1>1. r0 \in PageOf /\ tab \in [Tabs -> PageOf] BY Before
<1>2. ASSUME NEW r \in PageOf, r.cid = r0.cid, r.sess = r0.sess, r.polls = r0.polls, Act(t),
             sendMessage(t, acts', r, FALSE, calls),
             \A i \in r.items : i \in r0.items \/ (i = <<"user", acts'>> /\ ~r.busy)
      PROVE  OwnInv'
  <2>. DEFINE n == [Sent(t, acts', "send") EXCEPT !.cid = r.cid, !.key = r.key, !.auto = FALSE]
             q == IF r.busy THEN r ELSE acquireBusy(r)
  <2>1. /\ tab' = [tab EXCEPT ![t] = q] /\ calls' = (IF r.busy THEN calls ELSE calls \cup {n})
    BY <1>2 DEF sendMessage
  <2>2. n.tab = t /\ n.id = acts' /\ n.kind = "send" /\ n.pc = "sent" /\ n.live /\ n.cid = r.cid
    BY DEF Sent
  <2>3. q.cid = r.cid /\ q.sess = r.sess /\ q.polls = r.polls /\ q.items = r.items
    BY <1>2 DEF acquireBusy, PageOf
  <2>. HIDE DEF n, q
  <2>4. calls' = calls \/ calls' = calls \cup {n} BY <2>1
  <2>5. \A i \in q.items : i \in r0.items \/ (i = <<"user", acts'>> /\ n.kind = "send" /\ n \in calls')
    BY <1>2, <2>1, <2>2, <2>3
  <2>6. q.cid = r0.cid /\ q.sess \in {r0.sess, NoSession} /\ q.polls \subseteq r0.polls /\ n.cid = q.cid
    BY <1>2, <2>2, <2>3
  <2>7. n.kind \in {"send", "reset", "load", "resume"} BY <2>2
  <2>8. n.kind # "resume" /\ n.kind \notin {"load", "reset"} /\ n.kind # "load" BY <2>2
  <2>. QED BY <1>2, <2>1, <2>2, <2>4, <2>5, <2>6, <2>7, <2>8, ActOwn
<1>3. CASE handleSubmit(t)
  <2>1. sendMessage(t, acts', Show(r0, <<"user", acts'>>), FALSE, calls) /\ Act(t) /\ ~r0.busy
    BY <1>3 DEF handleSubmit
  <2>. DEFINE i == <<"user", acts'>>
  <2>. PICK r : r = Show(r0, i) OBVIOUS
  <2>2. acts' \in 1..MaxActs BY <2>1, ActBounds
  <2>3. i \in Item BY <2>2, StoreConstants DEF Item
  <2>. HIDE DEF i
  <2>4. r \in PageOf /\ r.cid = r0.cid /\ r.sess = r0.sess /\ r.polls = r0.polls /\ r.busy = r0.busy
        /\ r.items = r0.items \cup {i}
    BY <1>1, <2>3 DEF Show, PageOf
  <2>. QED BY <1>2, <2>1, <2>4 DEF i
<1>4. ASSUME NEW m \in 1..MaxActs, handleRetry(t, m)
      PROVE  OwnInv'
  <2>. DEFINE i == <<"retry", m>>
             rest == r0.items \ {i}
  <2>1. sendMessage(t, acts', [r0 EXCEPT !.items = rest], FALSE, calls) /\ Act(t)
    BY <1>4 DEF handleRetry
  <2>2. rest \subseteq r0.items OBVIOUS
  <2>. HIDE DEF rest
  <2>. PICK r : r = [r0 EXCEPT !.items = rest] OBVIOUS
  <2>3. r \in PageOf /\ r.cid = r0.cid /\ r.sess = r0.sess /\ r.polls = r0.polls
        /\ r.items = rest
    BY <1>1, <2>2 DEF PageOf
  <2>. QED BY <1>2, <2>1, <2>2, <2>3
<1>5. ASSUME NEW then, startNewConversation(t, then)
      PROVE  OwnInv'
  <2>. DEFINE n == [Sent(t, acts', "reset") EXCEPT !.then = then]
             none == {}
             r == [r0 EXCEPT !.polls = none]
  <2>1. calls' = calls \cup {n} /\ tab' = [tab EXCEPT ![t] = r] /\ Act(t)
    BY <1>5 DEF startNewConversation
  <2>2. n.tab = t /\ n.id = acts' /\ n.kind = "reset" /\ n.pc = "sent" /\ n.live
    BY DEF Sent
  <2>3. r.cid = r0.cid /\ r.sess = r0.sess /\ r.polls = {} /\ r.items = r0.items
    BY <1>1 DEF PageOf
  <2>. HIDE DEF n, r
  <2>4. calls' = calls \/ calls' = calls \cup {n} BY <2>1
  <2>5. \A i \in r.items : i \in r0.items \/ (i = <<"user", acts'>> /\ n.kind = "send" /\ n \in calls')
    BY <2>3
  <2>6. r.cid = r0.cid /\ r.sess \in {r0.sess, NoSession} /\ r.polls \subseteq r0.polls
    BY <2>3
  <2>7. n.kind \in {"send", "reset", "load", "resume"} BY <2>2
  <2>8. n.kind # "resume" /\ n.kind # "send" /\ (n.kind = "load" => r.sess = NoSession) BY <2>2, <2>3
  <2>. QED BY <2>1, <2>2, <2>3, <2>4, <2>5, <2>6, <2>7, <2>8, ActOwn
<1>6. CASE handleSelectConversation(t)
  <2>. PICK c : loadConversationHistory(t, acts', c, r0, calls) BY <1>6 DEF handleSelectConversation
  <2>. DEFINE n == [Sent(t, acts', "load") EXCEPT !.cid = c]
             none == {}
             r == [resetConversationScopedState(r0) EXCEPT !.polls = none]
  <2>1. calls' = calls \cup {n} /\ tab' = [tab EXCEPT ![t] = r] /\ Act(t)
    BY <1>6 DEF handleSelectConversation, loadConversationHistory
  <2>2. n.tab = t /\ n.id = acts' /\ n.kind = "load" /\ n.pc = "sent" /\ n.live
    BY DEF Sent
  <2>3. r.cid = r0.cid /\ r.sess = NoSession /\ r.polls = {} /\ r.items = r0.items
    BY <1>1 DEF PageOf, resetConversationScopedState
  <2>. HIDE DEF n, r
  <2>4. calls' = calls \/ calls' = calls \cup {n} BY <2>1
  <2>5. \A i \in r.items : i \in r0.items \/ (i = <<"user", acts'>> /\ n.kind = "send" /\ n \in calls')
    BY <2>3
  <2>6. r.cid = r0.cid /\ r.sess \in {r0.sess, NoSession} /\ r.polls \subseteq r0.polls
    BY <2>3
  <2>7. n.kind \in {"send", "reset", "load", "resume"} BY <2>2
  <2>8. n.kind # "resume" /\ n.kind # "send" /\ (n.kind = "load" => r.sess = NoSession) BY <2>2, <2>3
  <2>. QED BY <2>1, <2>2, <2>3, <2>4, <2>5, <2>6, <2>7, <2>8, ActOwn
<1>7. ASSUME NEW m \in 1..MaxActs, handleResume(t, m)
      PROVE  OwnInv'
  <2>. DEFINE n == [Sent(t, acts', "resume") EXCEPT !.sess = r0.sess, !.item = m]
  <2>1. calls' = calls \cup {n} /\ tab' = [tab EXCEPT ![t] = r0] /\ Act(t) /\ r0.sess # NoSession
    BY <1>1, <1>7 DEF handleResume
  <2>2. n.tab = t /\ n.id = acts' /\ n.kind = "resume" /\ n.pc = "sent" /\ n.live
        /\ n.sess = r0.sess
    BY DEF Sent
  <2>. HIDE DEF n
  <2>. QED BY <2>1, <2>2, ActOwn
<1>. QED BY <1>3, <1>4, <1>5, <1>6, <1>7

(* What is known of a request is known of one the page no longer waits for.  *)
LEMMA OrphanKnows ==
  ASSUME NEW k \in Call, Knows(k), NEW o, o = [k EXCEPT !.live = FALSE]
  PROVE  /\ Knows(o) /\ o.live = FALSE /\ o.tab = k.tab /\ o.kind = k.kind /\ o.id = k.id
         /\ o.cid = k.cid /\ (Sender(o) => Sender(k) /\ k.kind = "send")
<1>1. /\ o.live = FALSE /\ o.tab = k.tab /\ o.kind = k.kind /\ o.id = k.id /\ o.cid = k.cid
      /\ o.pc = k.pc /\ o.res = k.res /\ o.conv = k.conv /\ o.iv = k.iv /\ o.sess = k.sess
      /\ o.items = k.items
  BY DEF Call
<1>2. Sender(o) => Sender(k) /\ k.kind = "send" BY <1>1 DEF Sender
<1>3. Knows(o) BY <1>1, <1>2 DEF Knows, At
<1>. QED BY <1>1, <1>2, <1>3

(* The page is loaded again: it shows nothing.                              *)
LEMMA ReloadOwn ==
  ASSUME ChatInv, OwnInv, ChatInv', NEW t \in Tabs, Reload(t)
  PROVE  OwnInv'
<1>. DEFINE orphaned == {[k EXCEPT !.live = FALSE] : k \in {j \in Mine(t) : j.pc # "answered"}}
            others == (calls \ Mine(t)) \cup orphaned
            c == tab[t].cid
            n == [Sent(t, acts', "load") EXCEPT !.cid = c]
            none == {}
            r == [resetConversationScopedState(Page(c)) EXCEPT !.polls = none]
            p == IF c = 0 THEN Page(0) ELSE r
<1>1. /\ UNCHANGED <<storeVars, where>> /\ acts \in Nat /\ acts' = acts + 1
      /\ acts' \in {acts, acts + 1} /\ odd' = [odd EXCEPT ![t] = {}] /\ tab' = [tab EXCEPT ![t] = p]
      /\ calls' = others \/ calls' = others \cup {n}
  <2>1. acts \in Nat /\ acts' = acts + 1 BY ActsCount DEF Reload, Acts
  <2>. QED BY <2>1 DEF Reload, loadConversationHistory, historyVars
<1>2. p.items = {} /\ p.polls = {} /\ p.sess = NoSession
  BY DEF Page, resetConversationScopedState
<1>3. n.tab = t /\ n.id = acts' /\ n.kind = "load" /\ n.pc = "sent" /\ n.live
  BY DEF Sent
<1>. HIDE DEF n, p, c
<1>4. /\ tab \in [Tabs -> PageOf] /\ odd \in [Tabs -> SUBSET {"impatient", "unnamed", "late poll", "load failed"}]
  BY Before DEF ChatInv, BoundsInv
<1>5. tab'[t] = p /\ \A u \in Tabs \ {t} : tab'[u] = tab[u] /\ odd'[u] = odd[u] BY <1>1, <1>4
<1>6. \A o \in orphaned : \E k \in calls :
        /\ k \in Mine(t) /\ o.tab = t /\ o.live = FALSE /\ Knows(o) /\ o.id = k.id
        /\ Sender(o) => Heir(o, k)
  <2>. SUFFICES ASSUME NEW k \in Mine(t), NEW o, o = [k EXCEPT !.live = FALSE]
                PROVE  /\ k \in calls /\ o.tab = t /\ o.live = FALSE /\ Knows(o) /\ o.id = k.id
                       /\ Sender(o) => Heir(o, k)
    OBVIOUS
  <2>1. k \in calls /\ k.tab = t /\ k \in Call /\ Knows(k) BY Before DEF Mine, OwnInv, KnowsInv
  <2>. QED BY <2>1, OrphanKnows DEF Heir
<1>. HIDE DEF orphaned
<1>7. \A k \in calls' : k = n \/ k \in orphaned \/ (k \in calls /\ k \notin Mine(t)) BY <1>1
<1>8. \A k \in calls' : k \in calls \/ k.tab = t BY <1>3, <1>6, <1>7
<1>9. \A k \in calls : k \in calls' \/ k.tab = t
  <2>1. \A k \in calls : k \notin Mine(t) => k \in calls' BY <1>1
  <2>. QED BY <2>1 DEF Mine
<1>10. ~Sender(n) BY <1>3 DEF Sender
<1>11. \A k \in calls' : Sender(k) =>
          \E j \in calls : Heir(k, j) /\ j.id = k.id /\ (k = j \/ (k \in orphaned /\ j \in Mine(t)))
  BY <1>6, <1>7, <1>10 DEF Heir
<1>12. ASSUME NEW j \in calls', NEW k \in calls', Sender(j), Sender(k), j.id = k.id
       PROVE  j = k
  <2>1. IdsInv BY DEF OwnInv
  <2>2. CASE j \in calls /\ j \notin Mine(t) /\ k \in calls /\ k \notin Mine(t)
    BY <1>12, <2>1, <2>2 DEF IdsInv
  <2>3. \A o \in orphaned : Sender(o) => \E i \in Mine(t) : /\ Sender(i) /\ i.id = o.id /\ i \in calls
                                                        /\ o = [i EXCEPT !.live = FALSE]
    <3>. SUFFICES ASSUME NEW i \in Mine(t), NEW o, o = [i EXCEPT !.live = FALSE], Sender(o)
                  PROVE  Sender(i) /\ i.id = o.id /\ i \in calls
      BY DEF orphaned
    <3>1. i \in calls /\ i \in Call /\ Knows(i) BY Before DEF Mine, OwnInv, KnowsInv
    <3>. QED BY <3>1, OrphanKnows
  <2>4. CASE j \in orphaned /\ k \in orphaned BY <1>12, <2>1, <2>3, <2>4 DEF IdsInv
  <2>5. CASE j \in orphaned /\ k \in calls /\ k \notin Mine(t)
    BY <1>12, <2>1, <2>3, <2>5 DEF IdsInv
  <2>6. CASE k \in orphaned /\ j \in calls /\ j \notin Mine(t)
    BY <1>12, <2>1, <2>3, <2>6 DEF IdsInv
  <2>. QED BY <1>7, <1>10, <1>12, <2>2, <2>4, <2>5, <2>6
<1>13. Knows(n) BY <1>3, <1>10 DEF Knows, At
<1>14. \A k \in calls' : k \in calls \/ Knows(k) BY <1>6, <1>7, <1>13
<1>15. OwnPage(t)'
  <2>1. \A k \in Mine(t)' : k = n BY <1>6, <1>7 DEF Mine
  <2>2. \A k \in Mine(t)' : OwnCall(t, k)' BY <1>2, <1>3, <1>5, <2>1 DEF OwnCall
  <2>. QED BY <1>2, <1>5, <2>1, <2>2 DEF OwnPage, NoSession
<1>. HIDE DEF others
<1>16. \A k \in calls' : Sender(k) => (k.id = acts' /\ acts' # acts) \/ \E j \in calls : Heir(k, j)
  BY <1>11
<1>. QED BY <1>1, <1>5, <1>8, <1>9, <1>12, <1>14, <1>15, <1>16, PageOwn

(* An interval of the page asks.                                           *)
LEMMA PollTickOwn ==
  ASSUME ChatInv, OwnInv, ChatInv', NEW t \in Tabs, PollTick(t)
  PROVE  OwnInv'
<1>1. PICK s : calls' = calls \cup {PollRead(t, s)} BY DEF PollTick
<1>. DEFINE n == PollRead(t, s)
<1>2. n.tab = t /\ n.kind = "poll" BY DEF PollRead, Sent
<1>. HIDE DEF n
<1>3. UNCHANGED <<storeVars, where, tab, acts, odd>> /\ calls' = calls \cup {n}
  BY <1>1 DEF PollTick, historyVars, n
<1>4. ~Sender(n) /\ ~Asks(n) /\ Knows(n) BY <1>2 DEF Sender, Asks, Knows, At
<1>5. ASSUME Clean(t)'
      PROVE  OwnPage(t)'
  <2>1. OwnPage(t) /\ Ids' = Ids BY <1>3, <1>5 DEF Clean, OwnInv, storeVars, Ids
  <2>2. \A k \in Mine(t)' : k \in Mine(t) \/ k = n BY <1>3 DEF Mine
  <2>3. Sending(t)' = Sending(t) BY <1>2, <1>3 DEF Sending, Mine
  <2>4. \A i \in tab[t].items : OwnItem(t, i)'
    BY <1>3, <1>4, <2>1, <2>3 DEF OwnPage, OwnItem, Expected, Notice, Sender
  <2>5. \A k \in Mine(t)' : OwnCall(t, k)' BY <1>2, <1>3, <2>1, <2>2 DEF OwnPage, OwnCall
  <2>. QED BY <1>3, <1>4, <2>1, <2>2, <2>4, <2>5 DEF OwnPage, Asks
<1>6. acts \in Nat /\ acts' = acts BY <1>3, ActsCount
<1>7. \A k \in calls' : Sender(k) => k \in calls BY <1>3, <1>4
<1>8. \A j, k \in calls' : Sender(j) /\ Sender(k) /\ j.id = k.id => j = k
  BY <1>7 DEF OwnInv, IdsInv
<1>9. \A k \in calls' : Sender(k) => \E j \in calls : Heir(k, j) BY <1>7 DEF Heir
<1>10. \A k \in calls' : (k \in calls \/ k.tab = t) /\ (k \in calls \/ Knows(k))
  BY <1>2, <1>3, <1>4
<1>. QED BY <1>3, <1>5, <1>6, <1>8, <1>9, <1>10, PageOwn

(* An answer arrives at page k.tab, or does not: k may leave an orphan, or be *)
(* followed by a turn for the same act.                                     *)
LEMMA FollowOwn ==
  ASSUME ChatInv, OwnInv, ChatInv', UNCHANGED <<storeVars, where, acts>>, NEW k \in calls, k.live,
         NEW r, tab' = [tab EXCEPT ![k.tab] = r], NEW S, calls' = (calls \ {k}) \cup S,
         \A n \in S : n.tab = k.tab /\ Knows(n) /\ (Sender(n) => Heir(n, k)),
         \A n \in S : n.live => n.kind = "send" /\ n.cid = r.cid,
         k.kind = "poll" => \A n \in S : ~n.live,
         \A m, n \in S : (Sender(m) /\ Sender(n)) \/ (m.live /\ n.live) => m = n,
         \A u \in Tabs \ {k.tab} : odd'[u] = odd[u],
         k.kind = "poll" => r.cid = tab[k.tab].cid /\ r.sess = tab[k.tab].sess
                            /\ r.polls \subseteq tab[k.tab].polls,
         Clean(k.tab)' => /\ Clean(k.tab)
                          /\ r.sess[1] \in {0, r.cid} /\ \A s \in r.polls : s[1] = r.cid
                          /\ \A i \in r.items : OwnItem(k.tab, i)'
  PROVE  OwnInv'
<1>. DEFINE t == k.tab
<1>1. t \in Tabs /\ tab \in [Tabs -> PageOf] /\ acts \in Nat /\ IdsInv
  BY Before, ActsCount DEF OwnInv
<1>2. tab'[t] = r /\ \A u \in Tabs \ {t} : tab'[u] = tab[u] BY <1>1
<1>3. \A n \in calls' : n \in S \/ (n \in calls /\ n # k) OBVIOUS
<1>4. \A n \in calls' : n \in calls \/ n.tab = t BY <1>3
<1>5. \A n \in calls : n \in calls' \/ n.tab = t OBVIOUS
<1>6. \A n \in calls' : n \in calls \/ Knows(n) BY <1>3
<1>7. \A n \in calls' : Sender(n) =>
        \E j \in calls : Heir(n, j) /\ j.id = n.id /\ (j = n \/ (j = k /\ n \in S))
  BY <1>3 DEF Heir
<1>8. ASSUME NEW m \in calls', NEW n \in calls', Sender(m), Sender(n), m.id = n.id
      PROVE  m = n
  <2>1. \A o \in S : Sender(o) => Sender(k) /\ o.id = k.id BY DEF Heir
  <2>2. CASE m \in S /\ n \in S BY <1>8, <2>2
  <2>3. CASE m \in S /\ n \in calls /\ n # k BY <1>1, <1>8, <2>1, <2>3 DEF IdsInv
  <2>4. CASE n \in S /\ m \in calls /\ m # k BY <1>1, <1>8, <2>1, <2>4 DEF IdsInv
  <2>5. CASE n \in calls /\ m \in calls BY <1>1, <1>8, <2>5 DEF IdsInv
  <2>. QED BY <1>3, <2>2, <2>3, <2>4, <2>5
<1>9. ASSUME Clean(t)'
      PROVE  OwnPage(t)'
  <2>1. OwnPage(t) BY <1>1, <1>9 DEF OwnInv
  <2>2. \A n \in Mine(t)' : (n \in S /\ n.live) \/ (n \in Mine(t) /\ n # k) BY <1>3 DEF Mine
  <2>3. k \in Mine(t) BY DEF Mine
  <2>4. \A n \in Mine(t) : Asks(n) /\ n # k => k.kind = "poll" BY <2>1, <2>3 DEF OwnPage, Asks
  <2>5. \A m, n \in Mine(t)' : Asks(m) /\ Asks(n) => m = n
    <3>1. CASE k.kind = "poll" BY <2>1, <2>2, <3>1 DEF OwnPage
    <3>2. CASE k.kind # "poll"
      <4>1. \A n \in Mine(t)' : Asks(n) => n \in S /\ n.live BY <2>2, <2>4, <3>2
      <4>. QED BY <4>1
    <3>. QED BY <3>1, <3>2
  <2>6. \A n \in Mine(t)' : OwnCall(t, n)'
    <3>1. \A n \in S : n.live => OwnCall(t, n)' BY <1>2 DEF OwnCall
    <3>2. CASE k.kind = "poll"
      <4>1. \A n \in Mine(t) : OwnCall(t, n) BY <2>1 DEF OwnPage
      <4>2. \A n : OwnCall(t, n) => OwnCall(t, n)' BY <1>2, <3>2 DEF OwnCall
      <4>. QED BY <2>2, <3>1, <4>1, <4>2
    <3>3. CASE k.kind # "poll"
      <4>1. \A n \in Mine(t) : n # k => n.kind = "poll" BY <2>4, <3>3 DEF Asks, Mine
      <4>2. \A n : n.kind = "poll" => OwnCall(t, n)' BY DEF OwnCall
      <4>. QED BY <2>2, <3>1, <4>1, <4>2
    <3>. QED BY <3>2, <3>3
  <2>. QED BY <1>2, <1>9, <2>5, <2>6 DEF OwnPage, Asks
<1>10. \A n \in calls' : Sender(n) => \E j \in calls : Heir(n, j) BY <1>7
<1>11. \A u \in Tabs \ {t} : tab'[u] = tab[u] /\ odd'[u] = odd[u] BY <1>2
<1>. HIDE DEF t
<1>12. acts' \in {acts, acts + 1} OBVIOUS
<1>. QED BY <1>1, <1>4, <1>5, <1>6, <1>8, <1>9, <1>10, <1>11, <1>12, PageOwn

(* What a page shows stays its own when an answer arrives that gives its id   *)
(* a row, or keeps it.                                                      *)
LEMMA OldItems ==
  ASSUME ChatInv, OwnInv, UNCHANGED <<storeVars, where, acts>>, NEW k \in calls, Asks(k), Clean(k.tab),
         NEW r, tab' = [tab EXCEPT ![k.tab] = r], NEW S, calls' = (calls \ {k}) \cup S,
         tab[k.tab].cid \in Ids => r.cid = tab[k.tab].cid,
         k.kind = "send" => where[k.id] \in {0, r.cid},
         \A n \in S : Sender(n) => n.kind = "send" /\ n.cid \in Ids /\ n.cid = r.cid
  PROVE  \A i \in tab[k.tab].items : OwnItem(k.tab, i)'
<1>. DEFINE t == k.tab
<1>1. t \in Tabs /\ tab \in [Tabs -> PageOf] /\ acts \in Nat /\ IdsInv /\ tab[t].cid \in Ids \cup {0, Stale}
      /\ 0 \notin Ids /\ Stale \notin Ids /\ 1..acts \subseteq 0..MaxActs
  <2>1. acts \in Nat /\ 1..acts \subseteq 0..MaxActs BY ActsCount
  <2>2. RowsInv BY DEF ChatInv
  <2>. QED BY Before, <2>1, <2>2, RowNumbers DEF OwnInv, PageOK
<1>2. tab'[t] = r /\ Ids' = Ids BY <1>1 DEF storeVars, Ids
<1>3. ASSUME NEW i \in tab[t].items
      PROVE  OwnItem(t, i)'
  <2>1. CASE Notice(i)
    <3>1. i[2] \in Ids /\ i[2] = tab[t].cid BY <1>1, <2>1, PatientPage
    <3>. QED BY <1>2, <2>1, <3>1 DEF OwnItem, Notice
  <2>2. CASE ~Notice(i)
    <3>1. /\ i[2] \in 1..acts
          /\ where[i[2]] \in {0, tab[t].cid} \/ (k.kind = "send" /\ i[2] = k.id)
          /\ \A j \in calls \ {k} : Sender(j) /\ j.id = i[2] /\ where[j.id] = 0 =>
               j.kind = "send" /\ j.cid \in Ids /\ j.cid = tab[t].cid
      BY <1>1, <2>2, PatientPage
    <3>2. where[i[2]] \in Ids \cup {0} BY <1>1, <3>1 DEF IdsInv
    <3>3. where[i[2]] \in {0, r.cid} BY <1>1, <3>1, <3>2
    <3>4. \A j \in calls' : Sender(j) /\ j.id = i[2] /\ where[j.id] = 0 => Expected(t, i, j)'
      BY <1>2, <3>1 DEF Expected
    <3>. QED BY <1>2, <2>2, <3>1, <3>3, <3>4 DEF OwnItem, Notice, Sender
  <2>. QED BY <2>1, <2>2
<1>. QED BY <1>3

(* An item of the turn that is answered.                                    *)
LEMMA NewItem ==
  ASSUME ChatInv, OwnInv, UNCHANGED <<storeVars, where, acts>>, NEW k \in calls, Sender(k),
         calls' = calls \ {k}, NEW t \in Tabs, where[k.id] \in {0, tab'[t].cid},
         NEW i, ~Notice(i), i[2] = k.id
  PROVE  OwnItem(t, i)'
<1>1. IdsInv BY DEF OwnInv
<1>2. \A j \in calls' : Sender(j) => j.id # k.id BY <1>1 DEF IdsInv
<1>3. k.id \in 1..acts BY <1>1 DEF IdsInv
<1>. QED BY <1>2, <1>3 DEF OwnItem, Notice, Sender

(* The notices of a session are about its conversation.                     *)
LEMMA SessionFields ==
  ASSUME NEW r \in PageOf, NEW s \in Nat \X Nat, NEW state, NEW q,
         q = renderCompleted(r, s) \/ q = handleSession(r, s, state)
  PROVE  /\ q \in PageOf /\ q.cid = r.cid /\ q.sess = r.sess
         /\ q.polls \subseteq r.polls \cup {s} /\ r.polls \subseteq q.polls
         /\ q = renderCompleted(r, s) => q.polls = r.polls
         /\ \A i \in q.items : i \in r.items \/ (Notice(i) /\ i[2] = s[1])
<1>. DEFINE done == <<"completed", s[1], s[2]>>
            busy == <<"finalizing", s[1], s[2]>>
            hid == Hide(r, "finalizing")
<1>1. done \in Item /\ busy \in Item
  <2>1. s[1] \in Nat /\ s[2] \in Nat OBVIOUS
  <2>. QED BY <2>1 DEF Item
<1>2. Notice(done) /\ Notice(busy) /\ done[2] = s[1] /\ busy[2] = s[1] BY DEF Notice
<1>. HIDE DEF done, busy
<1>3. /\ hid \in PageOf /\ hid.cid = r.cid /\ hid.sess = r.sess /\ hid.polls = r.polls
      /\ hid.items \subseteq r.items
  BY DEF Hide, PageOf
<1>. HIDE DEF hid
<1>4. \A p \in PageOf : \A i \in Item :
        LET n == Show(p, i)
        IN  /\ n \in PageOf /\ n.cid = p.cid /\ n.sess = p.sess /\ n.polls = p.polls
            /\ n.items = p.items \cup {i}
  BY DEF Show, PageOf
<1>5. CASE q = Show(hid, done)
  <2>1. /\ q \in PageOf /\ q.cid = r.cid /\ q.sess = r.sess /\ q.polls = r.polls
        /\ q.items = hid.items \cup {done}
    BY <1>1, <1>3, <1>4, <1>5
  <2>. QED BY <1>2, <1>3, <2>1
<1>6. CASE q = [Show(r, busy) EXCEPT !.polls = @ \cup {s}]
  <2>. DEFINE n == Show(r, busy)
  <2>1. /\ n \in PageOf /\ n.cid = r.cid /\ n.sess = r.sess /\ n.polls = r.polls
        /\ n.items = r.items \cup {busy}
    BY <1>1, <1>4
  <2>. HIDE DEF n
  <2>2. q = [n EXCEPT !.polls = @ \cup {s}] BY <1>6 DEF n
  <2>3. /\ q \in PageOf /\ q.cid = r.cid /\ q.sess = r.sess /\ q.polls = r.polls \cup {s}
        /\ q.items = r.items \cup {busy}
    BY <2>1, <2>2 DEF PageOf
  <2>4. q = renderCompleted(r, s) => q.polls = r.polls
    BY <1>1, <1>3, <1>4 DEF renderCompleted, hid, done
  <2>. QED BY <1>2, <2>3, <2>4
<1>7. CASE q = r
  <2>1. q = renderCompleted(r, s) => q.polls = r.polls BY <1>7
  <2>. QED BY <1>7, <2>1
<1>8. q = Show(hid, done) \/ q = [Show(r, busy) EXCEPT !.polls = @ \cup {s}] \/ q = r
  BY DEF renderCompleted, handleSession, hid, done, busy
<1>. QED BY <1>5, <1>6, <1>7, <1>8

(* Without a row's id a page knows no interview.                            *)
LEMMA NoInterview ==
  ASSUME ChatInv, NEW t \in Tabs
  PROVE  /\ tab[t].sess[1] \in Ids \cup {0} /\ \A s \in tab[t].polls : s[1] \in Ids
         /\ tab[t].sess # NoSession => tab[t].sess[1] \in Ids
BY Before DEF PageOK, IsSession, NoSession

(* The page that got the answer to a turn.                                  *)
LEMMA SendAnsweredPage ==
  ASSUME ChatInv, NEW k \in calls, SendAnswered(k)
  PROVE  /\ k.res = "success" =>
              \E q \in PageOf :
                /\ tab' = [tab EXCEPT ![k.tab] = q] /\ q.cid = k.conv
                /\ q.sess = IF k.iv THEN k.sess ELSE tab[k.tab].sess
                /\ \A x \in q.polls : x \in tab[k.tab].polls \/ (k.iv /\ x = k.sess)
                /\ \A x \in q.items : \/ x \in tab[k.tab].items
                                       \/ x = <<IF k.iv THEN "question" ELSE "agent", k.id>>
                                       \/ (Notice(x) /\ k.iv /\ x[2] = k.sess[1])
         /\ k.res # "success" =>
              \E q \in PageOf :
                /\ tab' = [tab EXCEPT ![k.tab] = q] /\ q.cid = tab[k.tab].cid
                /\ q.sess = tab[k.tab].sess /\ q.polls = tab[k.tab].polls
                /\ \A x \in q.items : x \in tab[k.tab].items \/ x = <<"retry", k.id>>
<1>. DEFINE t == k.tab
            r == tab[t]
            i == <<IF k.iv THEN "question" ELSE "agent", k.id>>
            retry == <<"retry", k.id>>
            s == IF k.iv THEN k.sess ELSE r.sess
            reply == [Show(r, i) EXCEPT !.cid = k.conv, !.key = FALSE,
                                       !.sess = IF k.iv THEN k.sess ELSE @]
<1>1. k \in Call /\ t \in Tabs /\ r \in PageOf /\ PageOK(r) /\ tab \in [Tabs -> PageOf]
  BY Before
<1>3. k.id \in Nat /\ k.conv \in Nat /\ k.sess \in Nat \X Nat
  <2>1. k.id \in 0..MaxActs /\ k.conv \in Nat /\ k.sess \in Nat \X Nat BY <1>1 DEF Call
  <2>. QED BY <2>1, StoreConstants
<1>4. k.res = "success" =>
        \E q \in PageOf :
          /\ tab' = [tab EXCEPT ![t] = q] /\ q.cid = k.conv /\ q.sess = s
          /\ \A x \in q.polls : x \in r.polls \/ (k.iv /\ x = k.sess)
          /\ \A x \in q.items : \/ x \in r.items \/ x = i
                                \/ (Notice(x) /\ k.iv /\ x[2] = k.sess[1])
  <2>. SUFFICES ASSUME k.res = "success"
                PROVE  \E q \in PageOf :
                         /\ tab' = [tab EXCEPT ![t] = q] /\ q.cid = k.conv /\ q.sess = s
                         /\ \A x \in q.polls : x \in r.polls \/ (k.iv /\ x = k.sess)
                         /\ \A x \in q.items : \/ x \in r.items \/ x = i
                                               \/ (Notice(x) /\ k.iv /\ x[2] = k.sess[1])
    OBVIOUS
  <2>. DEFINE shown == IF k.iv THEN handleSession(reply, k.sess, k.sessions[1]) ELSE reply
             q == releaseBusy(shown, k.res)
  <2>1. tab' = [tab EXCEPT ![t] = q] BY DEF SendAnswered
  <2>2. i \in Item BY <1>3 DEF Item
  <2>. HIDE DEF i
  <2>3. s \in Nat \X Nat BY <1>1, <1>3 DEF PageOf
  <2>4. /\ reply \in PageOf /\ reply.cid = k.conv /\ reply.sess = s /\ reply.polls = r.polls
        /\ reply.items = r.items \cup {i}
    BY <1>1, <1>3, <2>2, <2>3 DEF Show, PageOf
  <2>. HIDE DEF reply, s
  <2>5. /\ shown \in PageOf /\ shown.cid = k.conv /\ shown.sess = s
        /\ \A x \in shown.polls : x \in r.polls \/ (k.iv /\ x = k.sess)
        /\ \A x \in shown.items : \/ x \in r.items \/ x = i
                                  \/ (Notice(x) /\ k.iv /\ x[2] = k.sess[1])
    <3>1. CASE k.iv
      <4>1. shown = handleSession(reply, k.sess, k.sessions[1]) BY <3>1
      <4>. HIDE DEF shown
      <4>. PICK p \in PageOf : p = reply BY <2>4
      <4>. PICK ks \in Nat \X Nat : ks = k.sess BY <1>3
      <4>. PICK state : state = k.sessions[1] OBVIOUS
      <4>2. /\ shown \in PageOf /\ shown.cid = p.cid /\ shown.sess = p.sess
            /\ shown.polls \subseteq p.polls \cup {ks}
            /\ \A x \in shown.items : x \in p.items \/ (Notice(x) /\ x[2] = ks[1])
        BY <4>1, SessionFields
      <4>. QED BY <2>4, <3>1, <4>2
    <3>2. CASE ~k.iv BY <2>4, <3>2
    <3>. QED BY <3>1, <3>2
  <2>. HIDE DEF shown
  <2>6. /\ q \in PageOf /\ q.cid = shown.cid /\ q.sess = shown.sess /\ q.polls = shown.polls
        /\ q.items = shown.items
    BY <2>5 DEF releaseBusy, PageOf
  <2>. HIDE DEF q
  <2>. QED BY <2>1, <2>5, <2>6
<1>5. k.res # "success" =>
        \E q \in PageOf :
          /\ tab' = [tab EXCEPT ![t] = q] /\ q.cid = r.cid /\ q.sess = r.sess /\ q.polls = r.polls
          /\ \A x \in q.items : x \in r.items \/ x = retry
  <2>. DEFINE shown == IF k.res = "timeout" THEN Show(r, retry) ELSE r
             q == releaseBusy(shown, k.res)
  <2>1. k.res # "success" => tab' = [tab EXCEPT ![t] = q] BY DEF SendAnswered
  <2>2. retry \in Item BY <1>3 DEF Item
  <2>. HIDE DEF retry
  <2>3. /\ q \in PageOf /\ q.cid = r.cid /\ q.sess = r.sess /\ q.polls = r.polls
        /\ \A x \in q.items : x \in r.items \/ x = retry
    BY <1>1, <2>2 DEF Show, PageOf, releaseBusy
  <2>. HIDE DEF q
  <2>. QED BY <2>1, <2>3
<1>. QED BY <1>4, <1>5

(* The answer to a turn.                                                   *)
LEMMA SendAnsweredOwn ==
  ASSUME ChatInv, OwnInv, ChatInv', NEW k \in calls, k.live, SendAnswered(k),
         UNCHANGED <<storeVars, historyVars, acts>>
  PROVE  OwnInv'
<1>. DEFINE t == k.tab
            r == tab[t]
            i == <<IF k.iv THEN "question" ELSE "agent", k.id>>
            retry == <<"retry", k.id>>
            s == IF k.iv THEN k.sess ELSE r.sess
            unnamed == k.res # "success" /\ where[k.id] \notin {0, k.cid}
<1>1. /\ k \in Call /\ CallOK(k) /\ Knows(k) /\ t \in Tabs /\ k.kind = "send" /\ k.pc = "answered"
      /\ r \in PageOf /\ PageOK(r) /\ tab \in [Tabs -> PageOf] /\ Sender(k) /\ Asks(k)
      /\ odd \in [Tabs -> SUBSET {"impatient", "unnamed", "late poll", "load failed"}]
  BY Before DEF SendAnswered, At, OwnInv, KnowsInv, Sender, Asks, ChatInv, BoundsInv, PagesInv
<1>2. /\ calls' = calls \ {k} /\ UNCHANGED <<storeVars, where, acts>>
      /\ odd' = (IF unnamed THEN [odd EXCEPT ![t] = @ \cup {"unnamed"}] ELSE odd)
  BY DEF SendAnswered, historyVars, Note
<1>4. k.res = "success" =>
        \E q \in PageOf :
          /\ tab' = [tab EXCEPT ![t] = q] /\ q.cid = k.conv /\ q.sess = s
          /\ \A x \in q.polls : x \in r.polls \/ (k.iv /\ x = k.sess)
          /\ \A x \in q.items : \/ x \in r.items \/ x = i
                                \/ (Notice(x) /\ k.iv /\ x[2] = k.sess[1])
  BY SendAnsweredPage
<1>5. k.res # "success" =>
        \E q \in PageOf :
          /\ tab' = [tab EXCEPT ![t] = q] /\ q.cid = r.cid /\ q.sess = r.sess /\ q.polls = r.polls
          /\ \A x \in q.items : x \in r.items \/ x = retry
  BY SendAnsweredPage
<1>6. ~Notice(i) /\ i[2] = k.id /\ ~Notice(retry) /\ retry[2] = k.id BY DEF Notice
<1>. HIDE DEF i, retry
<1>7. \A u \in Tabs \ {t} : odd'[u] = odd[u] BY <1>1, <1>2
<1>8. Clean(t)' => Clean(t) /\ ~unnamed BY <1>1, <1>2 DEF Clean
<1>9. RowsInv /\ 0 \notin Ids /\ Stale \notin Ids BY RowNumbers DEF ChatInv
<1>10. Clean(t) => /\ k.cid = r.cid /\ r.sess[1] \in {0, r.cid} /\ \A x \in r.polls : x[1] = r.cid
  <2>. SUFFICES ASSUME Clean(t)
                PROVE  /\ k.cid = r.cid /\ r.sess[1] \in {0, r.cid} /\ \A x \in r.polls : x[1] = r.cid
    OBVIOUS
  <2>1. OwnCall(t, k) /\ r.sess[1] \in {0, r.cid} /\ \A x \in r.polls : x[1] = r.cid
    BY <1>1, PatientPage
  <2>. QED BY <1>1, <2>1 DEF OwnCall
<1>11. CASE k.res = "success"
  <2>. PICK q \in PageOf :
          /\ tab' = [tab EXCEPT ![t] = q] /\ q.cid = k.conv /\ q.sess = s
          /\ \A x \in q.polls : x \in r.polls \/ (k.iv /\ x = k.sess)
          /\ \A x \in q.items : \/ x \in r.items \/ x = i
                                \/ (Notice(x) /\ k.iv /\ x[2] = k.sess[1])
    BY <1>4, <1>11
  <2>1. tab'[t] = q BY <1>1
  <2>2. where[k.id] = k.conv /\ k.conv # 0 /\ (k.iv => k.sess[1] = k.conv) /\ k.conv \in Ids
    BY <1>1, <1>11 DEF Knows, At, CallOK
  <2>3. k.cid \in Ids => k.conv = k.cid BY <1>1, <2>2 DEF Knows
  <2>4. ASSUME Clean(t)'
        PROVE  /\ Clean(t) /\ q.sess[1] \in {0, q.cid} /\ \A x \in q.polls : x[1] = q.cid
               /\ \A x \in q.items : OwnItem(t, x)'
    <3>1. Clean(t) /\ k.cid = r.cid BY <1>8, <1>10, <2>4
    <3>2. r.cid \in Ids => q.cid = r.cid BY <2>3, <3>1
    <3>3. \A x \in r.items : OwnItem(t, x)'
      <4>. PICK S : S = {} OBVIOUS
      <4>1. calls' = (calls \ {k}) \cup S /\ \A n \in S : FALSE BY <1>2
      <4>2. where[k.id] \in {0, q.cid} BY <2>2
      <4>. QED BY <1>1, <1>2, <3>1, <3>2, <4>1, <4>2, OldItems
    <3>4. OwnItem(t, i)'
      <4>1. where[k.id] \in {0, tab'[t].cid} BY <2>1, <2>2
      <4>. QED BY <1>1, <1>2, <1>6, <4>1, NewItem
    <3>5. \A x : Notice(x) /\ k.iv /\ x[2] = k.sess[1] => OwnItem(t, x)'
      <4>1. Ids' = Ids BY <1>2 DEF storeVars, Ids
      <4>. QED BY <2>1, <2>2, <4>1 DEF OwnItem, Notice
    <3>6. q.sess[1] \in {0, q.cid} BY <1>9, <1>10, <1>1, <2>2, <3>1, <3>2, NoInterview
    <3>7. \A x \in q.polls : x[1] = q.cid
      <4>1. \A x \in r.polls : x[1] = r.cid /\ x[1] \in Ids BY <1>1, <1>10, <3>1, NoInterview
      <4>. QED BY <2>2, <3>2, <4>1
    <3>. QED BY <3>1, <3>3, <3>4, <3>5, <3>6, <3>7
  <2>. PICK S : S = {} OBVIOUS
  <2>6. calls' = (calls \ {k}) \cup S /\ \A n \in S : FALSE BY <1>2
  <2>. QED BY <1>1, <1>2, <1>7, <2>4, <2>6, FollowOwn
<1>12. CASE k.res # "success"
  <2>. PICK q \in PageOf :
          /\ tab' = [tab EXCEPT ![t] = q] /\ q.cid = r.cid /\ q.sess = r.sess /\ q.polls = r.polls
          /\ \A x \in q.items : x \in r.items \/ x = retry
    BY <1>5, <1>12
  <2>1. tab'[t] = q BY <1>1
  <2>2. ASSUME Clean(t)'
        PROVE  /\ Clean(t) /\ q.sess[1] \in {0, q.cid} /\ \A x \in q.polls : x[1] = q.cid
               /\ \A x \in q.items : OwnItem(t, x)'
    <3>1. Clean(t) /\ k.cid = r.cid /\ where[k.id] \in {0, q.cid} BY <1>8, <1>10, <1>12, <2>2
    <3>2. \A x \in r.items : OwnItem(t, x)'
      <4>. PICK S : S = {} OBVIOUS
      <4>1. calls' = (calls \ {k}) \cup S /\ \A n \in S : FALSE BY <1>2
      <4>. QED BY <1>1, <1>2, <3>1, <4>1, OldItems
    <3>3. OwnItem(t, retry)' BY <1>1, <1>2, <1>6, <2>1, <3>1, NewItem
    <3>. QED BY <1>10, <3>1, <3>2, <3>3
  <2>. PICK S : S = {} OBVIOUS
  <2>3. calls' = (calls \ {k}) \cup S /\ \A n \in S : FALSE BY <1>2
  <2>. QED BY <1>1, <1>2, <1>7, <2>2, <2>3, FollowOwn
<1>. QED BY <1>11, <1>12

(* The page that adopts a new chat shows nothing.                           *)
LEMMA AfterResetOwn ==
  ASSUME ChatInv, OwnInv, ChatInv', NEW k \in calls, k.live, k.kind = "reset",
         UNCHANGED <<storeVars, where, acts, odd>>, NEW id, NEW O, NEW others,
         \A o \in O : o = [k EXCEPT !.live = FALSE], others = (calls \ {k}) \cup O,
         AfterReset(k, id, others)
  PROVE  OwnInv'
<1>. DEFINE t == k.tab
            r == adopted(tab[t], id)
            pinned == [r EXCEPT !.key = k.then # "nothing"]
            q == IF k.then = "autostart" /\ ~pinned.busy THEN acquireBusy(pinned) ELSE pinned
            n == [Sent(t, k.id, "send") EXCEPT !.cid = pinned.cid, !.key = pinned.key, !.auto = TRUE]
            starts == k.then = "autostart" /\ ~pinned.busy
            S == IF starts THEN O \cup {n} ELSE O
<1>1. /\ k \in Call /\ Knows(k) /\ t \in Tabs /\ Sender(k) /\ Asks(k) /\ tab[t] \in PageOf
      /\ tab \in [Tabs -> PageOf]
  BY Before DEF OwnInv, KnowsInv, Sender, Asks
<1>2. tab' = [tab EXCEPT ![t] = q] /\ calls' = (calls \ {k}) \cup S
  BY DEF AfterReset, sendMessage
<1>3. /\ pinned.cid = id /\ pinned.items = {} /\ pinned.sess = NoSession /\ pinned.polls = tab[t].polls
      /\ q.cid = id /\ q.items = {} /\ q.sess = NoSession /\ q.polls = tab[t].polls
  BY <1>1 DEF adopted, resetConversationScopedState, acquireBusy, PageOf
<1>. HIDE DEF q, pinned
<1>4. n.tab = t /\ n.id = k.id /\ n.kind = "send" /\ n.pc = "sent" /\ n.live /\ n.cid = id
  BY <1>3 DEF Sent
<1>. HIDE DEF n
<1>5. where[k.id] = 0 BY <1>1 DEF Knows
<1>6. Knows(n) /\ Heir(n, k) BY <1>1, <1>4, <1>5 DEF Knows, At, Heir
<1>7. \A o \in O : Knows(o) /\ ~o.live /\ o.tab = t /\ ~Sender(o)
  BY <1>1, OrphanKnows
<1>8. \A x \in S : x \in O \/ x = n OBVIOUS
<1>. HIDE DEF S
<1>9. \A x \in S : x.tab = t /\ Knows(x) /\ (Sender(x) => Heir(x, k)) BY <1>4, <1>6, <1>7, <1>8
<1>10. \A x \in S : x.live => x.kind = "send" /\ x.cid = q.cid
  BY <1>3, <1>4, <1>7, <1>8
<1>11. \A x, y \in S : (Sender(x) /\ Sender(y)) \/ (x.live /\ y.live) => x = y BY <1>7, <1>8
<1>12. Clean(t)' => /\ Clean(t) /\ q.sess[1] \in {0, q.cid} /\ (\A s \in q.polls : s[1] = q.cid)
                    /\ \A i \in q.items : OwnItem(t, i)'
  <2>. SUFFICES ASSUME Clean(t)'
                PROVE  Clean(t) /\ q.sess[1] \in {0, q.cid} /\ q.polls = {}
    BY <1>3
  <2>1. Clean(t) BY DEF Clean
  <2>2. OwnCall(t, k) BY <1>1, <2>1, PatientPage
  <2>. QED BY <1>3, <2>1, <2>2 DEF OwnCall, NoSession
<1>13. \A u \in Tabs \ {t} : odd'[u] = odd[u] OBVIOUS
<1>14. k.kind # "poll" OBVIOUS
<1>15. UNCHANGED <<storeVars, where, acts>> OBVIOUS
<1>. QED BY <1>2, <1>9, <1>10, <1>11, <1>12, <1>13, <1>14, <1>15, FollowOwn

(* The page that got a history.                                             *)
LEMMA LoadedPage ==
  ASSUME ChatInv, OwnInv, NEW k \in calls, LoadAnswered(k), k.res # "missing"
  PROVE  /\ k.cid \in Ids /\ \A i \in k.items : ~Notice(i) /\ i[2] \in 1..acts /\ where[i[2]] = k.cid
         /\ \E q : /\ tab' = [tab EXCEPT ![k.tab] = q] /\ q.cid = k.cid
                   /\ q.sess \in {tab[k.tab].sess, <<k.cid, Len(k.sessions)>>}
                   /\ \/ k.sessions = <<>> \/ k.sessions[Len(k.sessions)] = "completed"
                      \/ q.sess = <<k.cid, Len(k.sessions)>>
                   /\ q.polls \subseteq tab[k.tab].polls \cup {<<k.cid, Len(k.sessions)>>}
                   /\ \A i \in q.items : i \in k.items \/ (Notice(i) /\ i[2] = k.cid)
<1>. DEFINE t == k.tab
            r == tab[t]
            c == k.cid
            states == k.sessions
            notices == {<<"completed", c, i>> : i \in {j \in DOMAIN states : states[j] = "completed"}}
            p == [r EXCEPT !.cid = c, !.items = k.items]
            o == restored(p, c, states)
            shown == [o EXCEPT !.items = @ \cup notices]
            m == Len(states)
            s == <<c, m>>
            q == IF m > 0 /\ states[m] = "finalizing" THEN handleSession(shown, s, states[m]) ELSE shown
<1>0. k \in Call /\ Knows(k) /\ k.kind = "load" /\ k.pc = "answered" /\ r \in PageOf
  BY Before DEF LoadAnswered, At, OwnInv, KnowsInv
<1>1. tab' = [tab EXCEPT ![t] = q] BY DEF LoadAnswered, replayed
<1>2. /\ c \in Ids /\ c \in Nat \cup {Stale} /\ k.items \in SUBSET Item /\ states \in Seq(SessionState)
      /\ \A i \in k.items : ~Notice(i) /\ i[2] \in 1..acts /\ where[i[2]] = c
  BY <1>0 DEF Knows, At, Call
<1>3. c \in Nat /\ m \in Nat /\ s \in Nat \X Nat
  <2>1. RowsInv BY DEF ChatInv
  <2>2. c \in Nat BY <1>2, <2>1, RowFacts
  <2>. QED BY <1>2, <2>2
<1>4. notices \in SUBSET Item /\ \A i \in notices : Notice(i) /\ i[2] = c
  <2>. SUFFICES ASSUME NEW j \in DOMAIN states
                PROVE  LET i == <<"completed", c, j>> IN i \in Item /\ Notice(i) /\ i[2] = c
    OBVIOUS
  <2>1. j \in Nat BY <1>2
  <2>. QED BY <1>3, <2>1 DEF Item, Notice
<1>. HIDE DEF notices
<1>5. p \in PageOf /\ p.cid = c /\ p.items = k.items /\ p.polls = r.polls /\ p.sess = r.sess
  BY <1>0, <1>2 DEF PageOf
<1>. HIDE DEF p
<1>6. /\ o \in PageOf /\ o.cid = c /\ o.items = k.items /\ o.polls = r.polls
      /\ o.sess \in {r.sess, s}
      /\ m = 0 \/ states[m] = "completed" \/ o.sess = s
  BY <1>3, <1>5 DEF restored, PageOf
<1>7. /\ shown \in PageOf /\ shown.cid = c /\ shown.items = k.items \cup notices
      /\ shown.polls = r.polls /\ shown.sess \in {r.sess, s} /\ shown.sess = o.sess
  BY <1>4, <1>6 DEF PageOf
<1>. HIDE DEF o, shown
<1>8. s[1] = c OBVIOUS
<1>. HIDE DEF s
<1>9. /\ q.cid = c /\ q.sess = shown.sess /\ q.polls \subseteq r.polls \cup {s}
      /\ \A i \in q.items : i \in k.items \/ (Notice(i) /\ i[2] = c)
  <2>1. CASE m > 0 /\ states[m] = "finalizing"
    <3>. PICK a \in PageOf : a = shown BY <1>7
    <3>. PICK b \in Nat \X Nat : b = s BY <1>3
    <3>. PICK state : state = states[m] OBVIOUS
    <3>1. q = handleSession(a, b, state) BY <2>1
    <3>. HIDE DEF q
    <3>2. /\ q.cid = a.cid /\ q.sess = a.sess /\ q.polls \subseteq a.polls \cup {b}
          /\ \A i \in q.items : i \in a.items \/ (Notice(i) /\ i[2] = b[1])
      BY <3>1, SessionFields
    <3>. QED BY <1>4, <1>7, <1>8, <3>2
  <2>2. CASE ~(m > 0 /\ states[m] = "finalizing")
    <3>1. q = shown BY <2>2
    <3>. HIDE DEF q
    <3>. QED BY <1>4, <1>7, <3>1
  <2>. QED BY <2>1, <2>2
<1>. HIDE DEF q
<1>10. states = <<>> \/ states[m] = "completed" \/ q.sess = s BY <1>2, <1>6, <1>7, <1>9
<1>. QED BY <1>1, <1>2, <1>7, <1>9, <1>10 DEF s

(* A history replaces what the page shows.                                  *)
LEMMA LoadAnsweredOwn ==
  ASSUME ChatInv, OwnInv, ChatInv', NEW k \in calls, k.live, LoadAnswered(k),
         UNCHANGED <<storeVars, historyVars, acts>>
  PROVE  OwnInv'
<1>. DEFINE t == k.tab
            r == tab[t]
<1>1. /\ k \in Call /\ CallOK(k) /\ Knows(k) /\ t \in Tabs /\ k.kind = "load" /\ k.pc = "answered"
      /\ r \in PageOf /\ tab \in [Tabs -> PageOf] /\ Asks(k)
  BY Before DEF LoadAnswered, At, OwnInv, KnowsInv, Asks
<1>2. calls' = calls \ {k} /\ UNCHANGED <<storeVars, where, acts, odd>>
  BY DEF LoadAnswered, historyVars
<1>3. 0 \notin Ids /\ Ids' = Ids BY <1>2, RowNumbers DEF ChatInv, storeVars, Ids
<1>4. Clean(t) => r.polls = {} /\ r.sess = NoSession
  <2>. SUFFICES ASSUME Clean(t)
                PROVE  r.polls = {} /\ r.sess = NoSession
    OBVIOUS
  <2>1. OwnCall(t, k) BY <1>1, PatientPage
  <2>. QED BY <1>1, <2>1 DEF OwnCall
<1>5. ASSUME NEW q, tab' = [tab EXCEPT ![t] = q],
             Clean(t) => /\ q.sess[1] \in {0, q.cid} /\ \A s \in q.polls : s[1] = q.cid
                         /\ \A i \in q.items : OwnItem(t, i)'
      PROVE  OwnInv'
  <2>. PICK S : S = {} OBVIOUS
  <2>1. calls' = (calls \ {k}) \cup S /\ \A n \in S : FALSE BY <1>2
  <2>2. Clean(t)' => Clean(t) BY <1>2 DEF Clean
  <2>3. \A u \in Tabs \ {t} : odd'[u] = odd[u] BY <1>2
  <2>. QED BY <1>1, <1>2, <1>5, <2>1, <2>2, <2>3, FollowOwn
<1>6. CASE k.res = "missing"
  <2>. DEFINE none == {}
             q == [r EXCEPT !.cid = 0, !.items = none]
  <2>1. tab' = [tab EXCEPT ![t] = q] BY <1>6 DEF LoadAnswered
  <2>2. q.cid = 0 /\ q.items = {} /\ q.sess = r.sess /\ q.polls = r.polls BY <1>1 DEF PageOf
  <2>. HIDE DEF q
  <2>3. Clean(t) => q.sess[1] \in {0, q.cid} /\ \A s \in q.polls : s[1] = q.cid
    BY <1>4, <2>2 DEF NoSession
  <2>4. \A i \in q.items : OwnItem(t, i)' BY <2>2
  <2>. QED BY <1>5, <2>1, <2>3, <2>4
<1>7. CASE k.res # "missing"
  <2>. PICK s : s = <<k.cid, Len(k.sessions)>> OBVIOUS
  <2>. PICK c : c = k.cid OBVIOUS
  <2>2. c \in Ids /\ \A i \in k.items : ~Notice(i) /\ i[2] \in 1..acts /\ where[i[2]] = c
    BY <1>7, LoadedPage
  <2>. PICK q : /\ tab' = [tab EXCEPT ![t] = q] /\ q.cid = c
                /\ q.sess \in {r.sess, s} /\ q.polls \subseteq r.polls \cup {s}
                /\ \A i \in q.items : i \in k.items \/ (Notice(i) /\ i[2] = c)
    BY <1>7, LoadedPage
  <2>8. s[1] = c OBVIOUS
  <2>10. tab'[t] = q BY <1>1
  <2>11. \A i \in q.items : OwnItem(t, i)'
    <3>1. ASSUME NEW i \in k.items
          PROVE  OwnItem(t, i)'
      <4>1. ~Notice(i) /\ i[2] \in 1..acts /\ where[i[2]] = c /\ c # 0 BY <1>3, <2>2
      <4>. QED BY <1>2, <2>10, <4>1 DEF OwnItem, Notice, Sender
    <3>2. \A i : Notice(i) /\ i[2] = c => OwnItem(t, i)'
      BY <1>3, <2>2, <2>10 DEF OwnItem, Notice
    <3>. QED BY <3>1, <3>2
  <2>12. Clean(t) => q.sess[1] \in {0, q.cid} /\ \A x \in q.polls : x[1] = q.cid
    BY <1>4, <2>8 DEF NoSession
  <2>. QED BY <1>5, <2>11, <2>12
<1>. QED BY <1>6, <1>7

(* The page adopts the conversation the reset gave it.                      *)
LEMMA ResetAnsweredOwn ==
  ASSUME ChatInv, OwnInv, ChatInv', NEW k \in calls, k.live, ResetAnswered(k),
         UNCHANGED <<storeVars, historyVars, acts>>
  PROVE  OwnInv'
<1>. PICK O : O = {} OBVIOUS
<1>. PICK id : id = k.conv OBVIOUS
<1>. PICK others : others = calls \ {k} OBVIOUS
<1>1. k.kind = "reset" /\ AfterReset(k, id, others) /\ odd' = odd BY DEF ResetAnswered, At
<1>2. others = (calls \ {k}) \cup O /\ \A o \in O : o = [k EXCEPT !.live = FALSE] OBVIOUS
<1>3. UNCHANGED <<storeVars, where, acts, odd>> BY <1>1 DEF historyVars
<1>. QED BY <1>1, <1>2, <1>3, AfterResetOwn

(* A request that is not about what the page shows leaves it its own.        *)
LEMMA PollItems ==
  ASSUME ChatInv, OwnInv, UNCHANGED <<storeVars, where, acts>>, NEW k \in calls, k.kind = "poll",
         Clean(k.tab), NEW r, tab' = [tab EXCEPT ![k.tab] = r], r.cid = tab[k.tab].cid,
         NEW S, calls' = (calls \ {k}) \cup S, \A n \in S : ~Sender(n)
  PROVE  /\ \A i \in tab[k.tab].items : OwnItem(k.tab, i)'
         /\ tab[k.tab].sess[1] \in {0, r.cid} /\ \A s \in tab[k.tab].polls : s[1] = r.cid
<1>. DEFINE t == k.tab
<1>1. t \in Tabs /\ tab \in [Tabs -> PageOf] BY Before
<1>2. OwnPage(t) BY <1>1 DEF OwnInv
<1>3. tab'[t] = r /\ Ids' = Ids BY <1>1 DEF storeVars, Ids
<1>4. Sending(t) \subseteq Sending(t)' BY DEF Sending, Mine
<1>5. \A n \in calls' : Sender(n) => n \in calls OBVIOUS
<1>6. ASSUME NEW i \in tab[t].items
      PROVE  OwnItem(t, i)'
  <2>1. OwnItem(t, i) BY <1>2 DEF OwnPage
  <2>2. \A n : Expected(t, i, n) => Expected(t, i, n)' BY <1>3 DEF Expected
  <2>3. CASE Notice(i) BY <1>3, <2>1, <2>3 DEF OwnItem, Notice
  <2>4. CASE ~Notice(i)
    <3>1. /\ i[2] \in 1..acts
          /\ \/ where[i[2]] \in {0, r.cid}
             \/ i[1] = "user" /\ \E n \in Sending(t)' : n.id = i[2]
      BY <1>4, <2>1, <2>4 DEF OwnItem
    <3>2. \A n \in calls' : Sender(n) /\ n.id = i[2] /\ where[n.id] = 0 => Expected(t, i, n)'
      BY <1>5, <2>1, <2>2, <2>4 DEF OwnItem
    <3>. QED BY <1>3, <2>4, <3>1, <3>2 DEF OwnItem, Notice, Sender
  <2>. QED BY <2>3, <2>4
<1>. QED BY <1>2, <1>6 DEF OwnPage

(* A request ends, or goes on alone, and the page shows what it showed.      *)
LEMMA DropOwn ==
  ASSUME ChatInv, OwnInv, ChatInv', UNCHANGED <<storeVars, where, acts>>, NEW k \in calls, k.live,
         NEW r, tab' = [tab EXCEPT ![k.tab] = r],
         r.cid = tab[k.tab].cid, r.sess = tab[k.tab].sess, r.polls = tab[k.tab].polls,
         r.items = tab[k.tab].items,
         NEW O, calls' = (calls \ {k}) \cup O, \A o \in O : o = [k EXCEPT !.live = FALSE],
         \A u \in Tabs \ {k.tab} : odd'[u] = odd[u],
         Clean(k.tab)' => Clean(k.tab) /\ (k.kind = "send" => k.cid \in Ids)
  PROVE  OwnInv'
<1>. DEFINE t == k.tab
<1>1. k \in Call /\ CallOK(k) /\ Knows(k) /\ t \in Tabs BY Before DEF OwnInv, KnowsInv
<1>2. \A o \in O : /\ Knows(o) /\ ~o.live /\ o.tab = t /\ o.kind = k.kind /\ o.id = k.id
                   /\ o.cid = k.cid /\ (Sender(o) => Sender(k) /\ k.kind = "send")
  BY <1>1, OrphanKnows
<1>3. \A o \in O : o.tab = t /\ Knows(o) /\ (Sender(o) => Heir(o, k)) BY <1>2 DEF Heir
<1>4. \A o \in O : o.live => o.kind = "send" /\ o.cid = r.cid BY <1>2
<1>5. k.kind = "poll" => \A o \in O : ~o.live BY <1>2
<1>6. \A m, o \in O : (Sender(m) /\ Sender(o)) \/ (m.live /\ o.live) => m = o OBVIOUS
<1>7. ASSUME Clean(t)'
      PROVE  /\ Clean(t) /\ r.sess[1] \in {0, r.cid} /\ \A s \in r.polls : s[1] = r.cid
             /\ \A i \in r.items : OwnItem(t, i)'
  <2>1. Clean(t) /\ (k.kind = "send" => k.cid \in Ids) BY <1>7
  <2>2. CASE k.kind = "poll"
    <3>1. \A o \in O : ~Sender(o) BY <1>2, <2>2
    <3>. QED BY <2>1, <2>2, <3>1, PollItems
  <2>3. CASE k.kind # "poll"
    <3>1. Asks(k) BY <2>3 DEF Asks
    <3>2. OwnCall(t, k) /\ tab[t].sess[1] \in {0, tab[t].cid} /\ \A s \in tab[t].polls : s[1] = tab[t].cid
      BY <1>1, <2>1, <3>1, PatientPage
    <3>3. k.kind = "send" => k.cid = r.cid /\ where[k.id] \in {0, r.cid}
      BY <1>1, <2>1, <3>2 DEF OwnCall, Knows
    <3>4. \A o \in O : Sender(o) => o.kind = "send" /\ o.cid \in Ids /\ o.cid = r.cid
      BY <1>2, <2>1, <3>3
    <3>5. k.kind = "send" => where[k.id] \in {0, r.cid} BY <3>3
    <3>6. tab[t].cid \in Ids => r.cid = tab[t].cid OBVIOUS
    <3>7. \A i \in tab[t].items : OwnItem(t, i)' BY <2>1, <3>1, <3>4, <3>5, <3>6, OldItems
    <3>. QED BY <2>1, <3>2, <3>7
  <2>. QED BY <2>2, <2>3
<1>8. k.kind = "poll" => r.cid = tab[t].cid /\ r.sess = tab[t].sess /\ r.polls \subseteq tab[t].polls
  OBVIOUS
<1>. QED BY <1>3, <1>4, <1>5, <1>6, <1>7, <1>8, FollowOwn

(* No response arrives.                                                    *)
LEMMA LostOwn ==
  ASSUME ChatInv, OwnInv, ChatInv', NEW k \in calls, Lost(k)
  PROVE  OwnInv'
<1>. DEFINE t == k.tab
            without == calls \ {k}
            rest == CASE k.pc = "answered" \/ k.kind = "load" -> {without}
                      [] k.pc = "sent" /\ k.kind # "load" ->
                           {without, without \cup {[k EXCEPT !.live = FALSE]}}
                      [] OTHER -> {without \cup {[k EXCEPT !.live = FALSE]}}
<1>1. /\ k.live /\ t \in Tabs /\ tab \in [Tabs -> PageOf] /\ UNCHANGED <<storeVars, where, acts>>
      /\ odd \in [Tabs -> SUBSET {"impatient", "unnamed", "late poll", "load failed"}]
  BY Before DEF Lost, historyVars, ChatInv, BoundsInv
<1>2. \A cs \in rest : \E O : cs = without \cup O /\ \A o \in O : o = [k EXCEPT !.live = FALSE]
  <2>. SUFFICES ASSUME NEW cs, cs = without \/ cs = without \cup {[k EXCEPT !.live = FALSE]}
                PROVE  \E O : cs = without \cup O /\ \A o \in O : o = [k EXCEPT !.live = FALSE]
    OBVIOUS
  <2>1. CASE cs = without
    <3>. PICK O : O = {} OBVIOUS
    <3>1. cs = without \cup O /\ \A o \in O : o = [k EXCEPT !.live = FALSE] BY <2>1
    <3>. QED BY <3>1
  <2>2. CASE cs = without \cup {[k EXCEPT !.live = FALSE]} BY <2>2
  <2>. QED BY <2>1, <2>2
<1>3. ASSUME NEW r, tab' = [tab EXCEPT ![t] = r], r.cid = tab[t].cid, r.sess = tab[t].sess,
             r.polls = tab[t].polls, r.items = tab[t].items, calls' \in rest,
             NEW cond \in BOOLEAN, NEW why \in {"unnamed", "load failed"}, Note(t, cond, why),
             k.kind = "send" => why = "unnamed" /\ cond = (k.cid \notin Ids)
      PROVE  OwnInv'
  <2>. PICK O : calls' = without \cup O /\ \A o \in O : o = [k EXCEPT !.live = FALSE] BY <1>2, <1>3
  <2>1. odd' = IF cond THEN [odd EXCEPT ![t] = @ \cup {why}] ELSE odd BY <1>3 DEF Note
  <2>2. \A u \in Tabs \ {t} : odd'[u] = odd[u] BY <1>1, <2>1
  <2>3. Clean(t)' => Clean(t) /\ (k.kind = "send" => k.cid \in Ids)
    BY <1>1, <1>3, <2>1 DEF Clean
  <2>. QED BY <1>1, <1>3, <2>2, <2>3, DropOwn
<1>4. tab = [tab EXCEPT ![t] = tab[t]] BY <1>1
<1>5. CASE k.kind = "send"
  <2>. DEFINE r == releaseBusy(tab[t], "network")
  <2>1. tab' = [tab EXCEPT ![t] = r] /\ calls' \in rest /\ Note(t, k.cid \notin Ids, "unnamed")
    BY <1>5 DEF Lost, Ids
  <2>2. r.cid = tab[t].cid /\ r.sess = tab[t].sess /\ r.polls = tab[t].polls /\ r.items = tab[t].items
    BY <1>1 DEF releaseBusy, PageOf
  <2>. HIDE DEF r
  <2>. PICK cond \in BOOLEAN : cond = (k.cid \notin Ids) OBVIOUS
  <2>3. Note(t, cond, "unnamed") BY <2>1 DEF Note
  <2>. QED BY <1>3, <2>1, <2>2, <2>3
<1>6. CASE k.kind = "reset"
  <2>. PICK others \in rest : AfterReset(k, 0, others) /\ odd' = odd BY <1>6 DEF Lost
  <2>. PICK O : others = without \cup O /\ \A o \in O : o = [k EXCEPT !.live = FALSE] BY <1>2
  <2>. QED BY <1>1, <1>6, AfterResetOwn
<1>7. CASE k.kind = "load"
  <2>1. tab' = tab /\ calls' \in rest /\ Note(t, TRUE, "load failed") BY <1>7 DEF Lost
  <2>. QED BY <1>3, <1>4, <1>7, <2>1
<1>8. CASE k.kind \in {"resume", "poll"}
  <2>1. tab' = tab /\ calls' \in rest /\ odd' = odd BY <1>8 DEF Lost
  <2>2. Note(t, FALSE, "unnamed") BY <2>1 DEF Note
  <2>. QED BY <1>3, <1>4, <1>8, <2>1, <2>2
<1>9. k.kind \in {"send", "reset", "load", "resume", "poll"} BY Before DEF Call
<1>. QED BY <1>5, <1>6, <1>7, <1>8, <1>9

(* A poll shows a notice of its own interview, or takes one away.            *)
LEMMA PolledFields ==
  ASSUME NEW r \in PageOf, NEW s \in Nat \X Nat, NEW state, NEW q, q = polled(r, s, state)
  PROVE  /\ q.cid = r.cid /\ q.sess = r.sess /\ q.polls \subseteq r.polls
         /\ \A i \in q.items : i \in r.items \/ (Notice(i) /\ i[2] = s[1])
<1>. DEFINE p == renderCompleted(r, s)
            hid == Hide(r, "finalizing")
<1>1. /\ p \in PageOf /\ p.cid = r.cid /\ p.sess = r.sess /\ p.polls = r.polls
      /\ \A i \in p.items : i \in r.items \/ (Notice(i) /\ i[2] = s[1])
  <2>. PICK a : a = p OBVIOUS
  <2>1. a = renderCompleted(r, s) OBVIOUS
  <2>2. /\ a \in PageOf /\ a.cid = r.cid /\ a.sess = r.sess /\ a.polls = r.polls
        /\ \A i \in a.items : i \in r.items \/ (Notice(i) /\ i[2] = s[1])
    BY <2>1, SessionFields
  <2>. QED BY <2>2
<1>2. hid \in PageOf /\ hid.cid = r.cid /\ hid.sess = r.sess /\ hid.polls = r.polls
      /\ hid.items \subseteq r.items
  BY DEF Hide, PageOf
<1>3. \/ q = [p EXCEPT !.polls = @ \ {s}] \/ q = [hid EXCEPT !.polls = @ \ {s}] \/ q = r
  BY DEF polled
<1>. HIDE DEF p, hid
<1>4. CASE q = [p EXCEPT !.polls = @ \ {s}]
  <2>1. q.cid = p.cid /\ q.sess = p.sess /\ q.polls \subseteq p.polls /\ q.items = p.items
    BY <1>1, <1>4 DEF PageOf
  <2>. QED BY <1>1, <2>1
<1>5. CASE q = [hid EXCEPT !.polls = @ \ {s}]
  <2>1. q.cid = hid.cid /\ q.sess = hid.sess /\ q.polls \subseteq hid.polls /\ q.items = hid.items
    BY <1>2, <1>5 DEF PageOf
  <2>. QED BY <1>2, <2>1
<1>6. CASE q = r BY <1>6
<1>. QED BY <1>3, <1>4, <1>5, <1>6

(* An answer about an interview of the page's conversation.                  *)
LEMMA PollAnsweredOwn ==
  ASSUME ChatInv, OwnInv, ChatInv', NEW k \in calls, k.live, PollAnswered(k),
         UNCHANGED <<storeVars, historyVars, acts>>
  PROVE  OwnInv'
<1>. DEFINE t == k.tab
            r == tab[t]
            late == k.sess \notin r.polls
<1>. PICK q : q = polled(r, k.sess, k.sessions[1]) OBVIOUS
<1>1. /\ t \in Tabs /\ k.kind = "poll" /\ r \in PageOf /\ tab \in [Tabs -> PageOf]
      /\ k.sess \in Nat \X Nat
      /\ odd \in [Tabs -> SUBSET {"impatient", "unnamed", "late poll", "load failed"}]
  BY Before DEF PollAnswered, At, ChatInv, BoundsInv, Call
<1>2. /\ calls' = calls \ {k} /\ UNCHANGED <<storeVars, where, acts>> /\ Note(t, late, "late poll")
      /\ tab' = [tab EXCEPT ![t] = q]
  BY <1>1 DEF PollAnswered, historyVars
<1>3. odd' = IF late THEN [odd EXCEPT ![t] = @ \cup {"late poll"}] ELSE odd BY <1>2 DEF Note
<1>4. \A u \in Tabs \ {t} : odd'[u] = odd[u] BY <1>1, <1>3
<1>5. /\ q.cid = r.cid /\ q.sess = r.sess /\ q.polls \subseteq r.polls
      /\ \A i \in q.items : i \in r.items \/ (Notice(i) /\ i[2] = k.sess[1])
  <2>. PICK s \in Nat \X Nat : s = k.sess BY <1>1
  <2>. PICK p \in PageOf : p = r BY <1>1
  <2>. PICK state : state = k.sessions[1] OBVIOUS
  <2>1. q = polled(p, s, state) OBVIOUS
  <2>2. /\ q.cid = p.cid /\ q.sess = p.sess /\ q.polls \subseteq p.polls
        /\ \A i \in q.items : i \in p.items \/ (Notice(i) /\ i[2] = s[1])
    BY <2>1, PolledFields
  <2>. QED BY <2>2
<1>. PICK S : S = {} OBVIOUS
<1>6. calls' = (calls \ {k}) \cup S /\ \A n \in S : FALSE BY <1>2
<1>7. ASSUME Clean(t)'
      PROVE  /\ Clean(t) /\ q.sess[1] \in {0, q.cid} /\ \A s \in q.polls : s[1] = q.cid
             /\ \A i \in q.items : OwnItem(t, i)'
  <2>1. Clean(t) /\ k.sess \in r.polls BY <1>1, <1>3, <1>7 DEF Clean
  <2>2. /\ \A i \in r.items : OwnItem(t, i)'
        /\ r.sess[1] \in {0, q.cid} /\ \A s \in r.polls : s[1] = q.cid
    BY <1>1, <1>2, <1>5, <1>6, <2>1, PollItems
  <2>3. k.sess[1] = q.cid /\ q.cid \in Ids BY <1>1, <1>5, <2>1, <2>2, NoInterview
  <2>4. tab'[t] = q /\ Ids' = Ids BY <1>1, <1>2 DEF storeVars, Ids
  <2>5. \A i : Notice(i) /\ i[2] = k.sess[1] => OwnItem(t, i)' BY <2>3, <2>4 DEF OwnItem, Notice
  <2>. QED BY <1>5, <2>1, <2>2, <2>5
<1>. QED BY <1>1, <1>2, <1>4, <1>5, <1>6, <1>7, FollowOwn

(* The interview's question is shown, or the text is sent again.             *)
LEMMA ResumeAnsweredOwn ==
  ASSUME ChatInv, OwnInv, ChatInv', NEW k \in calls, k.live, ResumeAnswered(k),
         UNCHANGED <<storeVars, historyVars, acts>>
  PROVE  OwnInv'
<1>. DEFINE t == k.tab
            hid == {<<"retry", k.item>>}
            r == [tab[t] EXCEPT !.items = @ \ hid]
<1>1. /\ k \in Call /\ CallOK(k) /\ Knows(k) /\ t \in Tabs /\ k.kind = "resume" /\ k.pc = "answered"
      /\ tab[t] \in PageOf /\ tab \in [Tabs -> PageOf] /\ Asks(k) /\ Sender(k)
  BY Before DEF ResumeAnswered, At, OwnInv, KnowsInv, Asks, Sender
<1>2. UNCHANGED <<storeVars, where, acts, odd>> BY DEF ResumeAnswered, historyVars
<1>3. k.sess[1] \in Ids BY <1>1 DEF CallOK, IsSession
<1>4. r \in PageOf /\ r.cid = tab[t].cid /\ r.sess = tab[t].sess /\ r.polls = tab[t].polls
      /\ r.items \subseteq tab[t].items
  BY <1>1 DEF PageOf
<1>. HIDE DEF r, hid
<1>5. 0 \notin Ids BY RowNumbers DEF ChatInv
<1>6. ASSUME NEW q, tab' = [tab EXCEPT ![t] = q], NEW S, calls' = (calls \ {k}) \cup S,
             q.cid = tab[t].cid, q.sess = tab[t].sess, q.polls = tab[t].polls,
             NEW I \in SUBSET k.items, q.items \subseteq tab[t].items \cup I,
             k.res = "success" \/ I = {},
             \A n \in S : /\ n.tab = t /\ Knows(n) /\ Heir(n, k) /\ n.kind = "send" /\ n.cid = q.cid,
             \A m, n \in S : m = n
      PROVE  OwnInv'
  <2>1. tab'[t] = q /\ Ids' = Ids BY <1>1, <1>2, <1>6 DEF storeVars, Ids
  <2>2. ASSUME Clean(t)'
        PROVE  /\ Clean(t) /\ q.sess[1] \in {0, q.cid} /\ \A s \in q.polls : s[1] = q.cid
               /\ \A i \in q.items : OwnItem(t, i)'
    <3>1. Clean(t) BY <1>2, <2>2 DEF Clean
    <3>2. OwnCall(t, k) /\ tab[t].sess[1] \in {0, tab[t].cid} /\ \A s \in tab[t].polls : s[1] = tab[t].cid
      BY <1>1, <3>1, PatientPage
    <3>3. k.sess[1] = q.cid /\ q.cid \in Ids BY <1>1, <1>3, <1>6, <3>2 DEF OwnCall
    <3>4. \A i \in tab[t].items : OwnItem(t, i)'
      <4>1. \A n \in S : Sender(n) => n.kind = "send" /\ n.cid \in Ids /\ n.cid = q.cid
        BY <1>6, <3>3
      <4>2. k.kind = "send" => where[k.id] \in {0, q.cid} BY <1>1
      <4>3. tab[t].cid \in Ids => q.cid = tab[t].cid BY <1>6
      <4>. QED BY <1>1, <1>2, <1>6, <3>1, <4>1, <4>2, <4>3, OldItems
    <3>5. ASSUME NEW i \in I
          PROVE  OwnItem(t, i)'
      <4>1. ~Notice(i) /\ i[2] \in 1..acts /\ where[i[2]] = q.cid
        BY <1>1, <1>6, <3>3 DEF Knows, At
      <4>. QED BY <1>2, <1>5, <2>1, <3>3, <4>1 DEF OwnItem, Notice, Sender
    <3>. QED BY <1>6, <3>1, <3>2, <3>4, <3>5
  <2>3. \A n \in S : n.tab = t /\ Knows(n) /\ (Sender(n) => Heir(n, k)) BY <1>6
  <2>4. \A n \in S : n.live => n.kind = "send" /\ n.cid = q.cid BY <1>6
  <2>5. k.kind = "poll" => \A n \in S : ~n.live BY <1>1
  <2>6. \A m, n \in S : (Sender(m) /\ Sender(n)) \/ (m.live /\ n.live) => m = n BY <1>6
  <2>7. \A u \in Tabs \ {t} : odd'[u] = odd[u] BY <1>2
  <2>8. k.kind = "poll" => q.cid = tab[t].cid /\ q.sess = tab[t].sess /\ q.polls \subseteq tab[t].polls
    BY <1>1
  <2>. QED BY <1>1, <1>2, <1>6, <2>2, <2>3, <2>4, <2>6, <2>7, <2>8, FollowOwn
<1>. PICK none : none = {} OBVIOUS
<1>7. CASE k.res = "success" /\ calls' = calls \ {k}
           /\ tab' = [tab EXCEPT ![t] = [r EXCEPT !.items = @ \cup k.items]]
  <2>. DEFINE q == [r EXCEPT !.items = @ \cup k.items]
  <2>1. k.items \in SUBSET Item BY <1>1 DEF Call
  <2>2. q.cid = r.cid /\ q.sess = r.sess /\ q.polls = r.polls /\ q.items = r.items \cup k.items
    BY <1>4, <2>1 DEF PageOf
  <2>3. tab' = [tab EXCEPT ![t] = q] BY <1>7
  <2>. HIDE DEF q
  <2>4. calls' = (calls \ {k}) \cup none /\ \A n \in none : FALSE BY <1>7
  <2>5. k.items \in SUBSET k.items /\ q.items \subseteq tab[t].items \cup k.items BY <1>4, <2>2
  <2>. QED BY <1>4, <1>6, <1>7, <2>2, <2>3, <2>4, <2>5
<1>8. CASE k.res = "not_delivered" /\ sendMessage(t, k.id, r, FALSE, calls \ {k})
  <2>. DEFINE n == [Sent(t, k.id, "send") EXCEPT !.cid = r.cid, !.key = r.key, !.auto = FALSE]
             S == IF r.busy THEN {} ELSE {n}
             q == IF r.busy THEN r ELSE acquireBusy(r)
  <2>1. tab' = [tab EXCEPT ![t] = q] /\ calls' = (calls \ {k}) \cup S BY <1>8 DEF sendMessage
  <2>2. q.cid = r.cid /\ q.sess = r.sess /\ q.polls = r.polls /\ q.items = r.items
    BY <1>4 DEF acquireBusy, PageOf
  <2>3. n.tab = t /\ n.id = k.id /\ n.kind = "send" /\ n.pc = "sent" /\ n.live /\ n.cid = r.cid
    BY DEF Sent
  <2>. HIDE DEF q, n
  <2>4. Knows(n) /\ Heir(n, k)
    <3>1. where[k.id] = 0 BY <1>1 DEF Knows
    <3>. QED BY <1>1, <2>3, <3>1 DEF Knows, At, Heir
  <2>6. \A x \in S : x = n OBVIOUS
  <2>. HIDE DEF S
  <2>7. none \in SUBSET k.items /\ q.items \subseteq tab[t].items \cup none BY <1>4, <2>2
  <2>8. \A x \in S : /\ x.tab = t /\ Knows(x) /\ Heir(x, k) /\ x.kind = "send" /\ x.cid = q.cid
    BY <2>2, <2>3, <2>4, <2>6
  <2>. QED BY <1>4, <1>6, <2>1, <2>2, <2>6, <2>7, <2>8, ZenonT(60)
<1>9. CASE k.res = "pending" /\ calls' = calls \ {k} /\ tab' = tab
  <2>1. tab' = [tab EXCEPT ![t] = tab[t]] BY <1>1, <1>9
  <2>2. calls' = (calls \ {k}) \cup none /\ \A n \in none : FALSE BY <1>9
  <2>3. none \in SUBSET k.items /\ tab[t].items \subseteq tab[t].items \cup none OBVIOUS
  <2>. QED BY <1>6, <2>1, <2>2, <2>3
<1>. QED BY <1>7, <1>8, <1>9 DEF ResumeAnswered, r, hid

(* The page uses an answer.                                                *)
LEMMA DeliverOwn ==
  ASSUME ChatInv, OwnInv, ChatInv', NEW k \in calls, Deliver(k)
  PROVE  OwnInv'
<1>1. k.live /\ UNCHANGED <<storeVars, historyVars, acts>> BY DEF Deliver
<1>. QED BY <1>1, SendAnsweredOwn, ResetAnsweredOwn, LoadAnsweredOwn, ResumeAnsweredOwn,
            PollAnsweredOwn DEF Deliver
-----------------------------------------------------------------------------
(* The tabs open: their pages show nothing, and load what they had stored.   *)
LEMMA InitOwn == Init => OwnInv
<1>. SUFFICES ASSUME Init
              PROVE  OwnInv
  OBVIOUS
<1>1. ChatInv BY InitInv
<1>2. conv \in Rows /\ acts = ActsBefore /\ MaxActs \in Nat /\ ActsBefore \in 0..MaxActs
  BY StoreConstants, ChatConstants DEF Init
<1>3. \A c \in Ids : ActsOf(conv[c]) \subseteq 1..acts BY <1>2, ChatConstants DEF Ids
<1>4. \A c \in Ids : \A i \in DOMAIN conv[c].msgs : conv[c].msgs[i].act \in ActsOf(conv[c])
  BY DEF ActsOf
<1>5. /\ where \in [0..MaxActs -> Ids \cup {0}]
      /\ \A n \in 0..MaxActs, c \in Ids : where[n] = c <=> n \in ActsOf(conv[c])
  BY DEF Init, Ids
<1>6. PICK ids \in Stored :
        /\ tab = [t \in Tabs |-> Page(ids[t])]
        /\ calls = {[Sent(t, 0, "load") EXCEPT !.cid = ids[t]] : t \in {u \in Tabs : ids[u] # 0}}
  BY DEF Init
<1>7. \A k \in calls : k.kind = "load" /\ k.pc = "sent" /\ ~Sender(k) /\ Knows(k)
  <2>. SUFFICES ASSUME NEW t \in Tabs, NEW k, k = [Sent(t, 0, "load") EXCEPT !.cid = ids[t]]
                PROVE  k.kind = "load" /\ k.pc = "sent" /\ ~Sender(k) /\ Knows(k)
    BY <1>6
  <2>1. k.kind = "load" /\ k.pc = "sent" BY DEF Sent
  <2>. QED BY <2>1 DEF Sender, Knows, At
<1>8. \A t \in Tabs : \A j, k \in Mine(t) : j = k
  <2>. DEFINE opening(t) == [Sent(t, 0, "load") EXCEPT !.cid = ids[t]]
  <2>1. \A t \in Tabs : opening(t).tab = t BY DEF Sent
  <2>2. \A k \in calls : \E t \in Tabs : k = opening(t) BY <1>6
  <2>. HIDE DEF opening
  <2>3. \A k \in calls : k = opening(k.tab) BY <2>1, <2>2
  <2>. QED BY <2>3 DEF Mine
<1>9. \A t \in Tabs : tab[t].items = {} /\ tab[t].polls = {} /\ tab[t].sess = NoSession
  BY <1>6 DEF Page
<1>10. IdsInv
  <2>1. \A n \in 0..MaxActs : where[n] # 0 => n \in 1..acts /\ ~Empty(where[n])
    <3>. SUFFICES ASSUME NEW n \in 0..MaxActs, where[n] # 0
                  PROVE  n \in 1..acts /\ ~Empty(where[n])
      OBVIOUS
    <3>1. PICK c \in Ids : where[n] = c BY <1>5
    <3>2. n \in ActsOf(conv[c]) BY <1>5, <3>1
    <3>3. conv[c].msgs # <<>> BY <3>2 DEF ActsOf
    <3>. QED BY <1>3, <3>1, <3>2, <3>3 DEF Empty
  <2>2. \A c \in Ids : \A i \in DOMAIN conv[c].msgs : where[conv[c].msgs[i].act] = c
    <3>1. \A c \in Ids : ActsOf(conv[c]) \subseteq 0..MaxActs BY <1>2, <1>3
    <3>. QED BY <1>4, <1>5, <3>1
  <2>. QED BY <1>5, <1>7, <2>1, <2>2 DEF IdsInv
<1>11. \A t \in Tabs : OwnPage(t)
  <2>. SUFFICES ASSUME NEW t \in Tabs
                PROVE  OwnPage(t)
    OBVIOUS
  <2>1. \A k \in Mine(t) : OwnCall(t, k) BY <1>7, <1>9 DEF OwnCall, Mine
  <2>. QED BY <1>8, <1>9, <2>1 DEF OwnPage, NoSession
<1>. QED BY <1>7, <1>10, <1>11 DEF OwnInv, KnowsInv

(* Every step, and a step that changes nothing.                            *)
LEMMA NextOwn == ChatInv /\ OwnInv /\ [Next]_vars => OwnInv'
<1>. SUFFICES ASSUME ChatInv, OwnInv, [Next]_vars
              PROVE  OwnInv'
  OBVIOUS
<1>1. ChatInv' BY NextInv
<1>2. ASSUME NEW t \in Tabs, User(t)
      PROVE  OwnInv'
  <2>1. CASE Reload(t) BY <1>1, <2>1, ReloadOwn
  <2>2. CASE ~Reload(t)
    <3>1. \/ handleSubmit(t) \/ handleSelectConversation(t)
          \/ \E then : startNewConversation(t, then)
          \/ \E n \in 1..MaxActs : handleRetry(t, n) \/ handleResume(t, n)
      BY <1>2, <2>2 DEF User, handleNewChat, handleSelectAgent, handleActivateCapability
    <3>. QED BY <1>1, <3>1, UserOwn
  <2>. QED BY <2>1, <2>2
<1>3. CASE \E t \in Tabs : PollStep(t) BY <1>1, <1>3, PollTickOwn, DeliverOwn DEF PollStep
<1>4. CASE Progress BY <1>1, <1>4, ServeStepOwn, DeliverOwn DEF Progress
<1>5. CASE Settles BY <1>5, SettlesOwn
<1>6. CASE \E k \in calls : Lost(k) BY <1>1, <1>6, LostOwn
<1>7. CASE UNCHANGED vars
  <2>1. UNCHANGED <<conv, calls, where, tab, acts, odd>> BY <1>7 DEF vars, storeVars, historyVars
  <2>. QED BY <2>1, SameOwn DEF Ids
<1>. QED BY <1>2, <1>3, <1>4, <1>5, <1>6, <1>7 DEF Next, Done

(* The page, its requests and the server agree on whose a message is.        *)
THEOREM TranscriptCorrect == Spec => [](ChatInv /\ OwnInv)
BY InitInv, InitOwn, NextInv, NextOwn, PTL DEF Spec

(* conversationId, adoptConversation and the session replay of loadConversationHistory:  *)
(* what a page shows, and the interview it would resume, are of the conversation its next *)
(* message goes to.                                                        *)
THEOREM TranscriptIsOwn == Spec => []OwnTranscript
<1>1. ChatInv /\ OwnInv => OwnTranscript
  <2>. SUFFICES ASSUME ChatInv, OwnInv, NEW t \in Tabs, Clean(t)
                PROVE  /\ \A i \in tab[t].items : \/ ItemConv(i) \in {0, tab[t].cid}
                                                  \/ \E k \in Sending(t) : i = <<"user", k.id>>
                       /\ tab[t].sess[1] \in {0, tab[t].cid}
    BY DEF OwnTranscript, Clean
  <2>1. OwnPage(t) /\ tab[t].items \subseteq Item BY Before DEF OwnInv, PageOf
  <2>2. ASSUME NEW i \in tab[t].items
        PROVE  \/ ItemConv(i) \in {0, tab[t].cid}
               \/ \E k \in Sending(t) : i = <<"user", k.id>>
    <3>1. OwnItem(t, i) BY <2>1 DEF OwnPage
    <3>2. CASE Notice(i) BY <3>1, <3>2 DEF OwnItem, Notice, ItemConv
    <3>3. CASE ~Notice(i)
      <4>1. ItemConv(i) = where[i[2]] BY <3>3 DEF Notice, ItemConv
      <4>2. i[1] = "user" => i = <<"user", i[2]>> BY <2>1, <3>3 DEF Item, Notice
      <4>. QED BY <3>1, <3>3, <4>1, <4>2 DEF OwnItem
    <3>. QED BY <3>2, <3>3
  <2>. QED BY <2>1, <2>2 DEF OwnPage
<1>. QED BY <1>1, TranscriptCorrect, PTL

-----------------------------------------------------------------------------
(* New chat.                                                               *)

\* The id of an empty conversation is known to somebody: a reset that was answered, or a turn
\* without an id, was given it; and to somebody else than the reset of act n.
LiveReset(k) == k.kind = "reset" /\ k.live
Given(c) == ~Empty(c) \/ \E p \in takers : p[1] = c /\ \A k \in calls : LiveReset(k) => k.id # p[2]
Kept(c, n) == Empty(c) \/ \E p \in takers : p[1] = c /\ p[2] # n

\* Who sends to a conversation, or is about to, was given it.  The one a reset has chosen is
\* empty, or somebody else was given it too.
GivenCall(k) ==
  /\ k.id \in 0..acts
  /\ k.kind \in {"send", "load"} /\ k.cid \in Ids => Given(k.cid)
  /\ At(k, "send", "accept") /\ k.conv # 0 => Given(k.conv)
  /\ LiveReset(k) /\ k.pc # "sent" /\ k.conv # 0 => Kept(k.conv, k.id)
  /\ At(k, "reset", "answered") => k.live /\ k.conv # 0 /\ <<k.conv, k.id>> \in takers
GivenInv ==
  /\ \A p \in takers : p[2] \in 0..acts
  /\ \A t \in Tabs : \A c \in Ids : tab[t].cid = c => Given(c)
  /\ \A k \in calls : GivenCall(k)

(* A conversation is empty as long as no act's message is in it.            *)
LEMMA EmptyRows ==
  ASSUME NEW rows \in Seq(Row), NEW w, 0 \notin DOMAIN rows,
         \A n \in 0..MaxActs : w[n] # 0 => rows[w[n]].msgs # <<>>,
         \A c \in DOMAIN rows : \A i \in DOMAIN rows[c].msgs : w[rows[c].msgs[i].act] = c,
         NEW c \in DOMAIN rows
  PROVE  rows[c].msgs = <<>> <=> \A n \in 0..MaxActs : w[n] # c
<1>1. rows[c].msgs = <<>> => \A n \in 0..MaxActs : w[n] # c OBVIOUS
<1>2. ASSUME rows[c].msgs # <<>>
      PROVE  \E n \in 0..MaxActs : w[n] = c
  <2>0. rows[c] \in Row OBVIOUS
  <2>1. rows[c].msgs \in Seq(Message) BY <2>0 DEF Row
  <2>2. 1 \in DOMAIN rows[c].msgs BY <1>2, <2>1
  <2>3. rows[c].msgs[1] \in Message BY <2>1, <2>2
  <2>4. rows[c].msgs[1].act \in 0..MaxActs BY <2>3 DEF Message
  <2>. QED BY <2>2, <2>4
<1>. QED BY <1>1, <1>2

(* Messages stay, and only the act that is placed fills a conversation.       *)
LEMMA Fills ==
  ASSUME ChatInv, OwnInv, ChatInv', OwnInv', Ids \subseteq Ids', NEW k \in calls, Places(k)
  PROVE  \A c \in Ids : (~Empty(c) => ~Empty(c)') /\ (Empty(c) /\ ~Empty(c)' => where'[k.id] = c)
<1>1. IdsInv /\ RowsInv /\ 0 \notin Ids BY RowNumbers DEF OwnInv, ChatInv
<1>2. \A c \in Ids : Empty(c) <=> \A n \in 0..MaxActs : where[n] # c
  <2>1. conv \in Seq(Row) BY <1>1 DEF RowsInv
  <2>2. 0 \notin DOMAIN conv BY <1>1 DEF Ids
  <2>3. \A n \in 0..MaxActs : where[n] # 0 => conv[where[n]].msgs # <<>> BY <1>1 DEF IdsInv, Empty
  <2>4. \A c \in DOMAIN conv : \A i \in DOMAIN conv[c].msgs : where[conv[c].msgs[i].act] = c
    BY <1>1 DEF IdsInv, Ids
  <2>. QED BY <2>1, <2>2, <2>3, <2>4, EmptyRows DEF Empty, Ids
<1>3. \A c \in Ids' : Empty(c)' <=> \A n \in 0..MaxActs : where'[n] # c
  <2>1. conv' \in Seq(Row) BY DEF ChatInv, RowsInv
  <2>2. 0 \notin DOMAIN conv'
    <3>1. Len(conv') \in Nat /\ DOMAIN conv' = 1..Len(conv') BY <2>1
    <3>. QED BY <3>1
  <2>3. \A n \in 0..MaxActs : where'[n] # 0 => conv'[where'[n]].msgs # <<>>
    BY DEF OwnInv, IdsInv, Empty
  <2>4. \A c \in DOMAIN conv' : \A i \in DOMAIN conv'[c].msgs : where'[conv'[c].msgs[i].act] = c
    BY DEF OwnInv, IdsInv, Ids
  <2>. QED BY <2>1, <2>2, <2>3, <2>4, EmptyRows DEF Empty, Ids
<1>4. \A n \in 0..MaxActs : where'[n] = where[n] \/ (n = k.id /\ Sender(k) /\ where[n] = 0)
  BY <1>1, PlacesKept
<1>. QED BY <1>1, <1>2, <1>3, <1>4

(* Who was given a conversation keeps it.                                   *)
LEMMA GivenStays ==
  ASSUME acts \in Nat, GivenInv, takers \subseteq takers',
         \A c \in Ids : ~Empty(c) => ~Empty(c)',
         \A k \in calls' : LiveReset(k) => k.id = acts + 1 \/ \E j \in calls : LiveReset(j) /\ j.id = k.id
  PROVE  \A c \in Ids : Given(c) => Given(c)'
<1>. SUFFICES ASSUME NEW c \in Ids, Given(c)
              PROVE  Given(c)'
  OBVIOUS
<1>1. CASE ~Empty(c) BY <1>1 DEF Given
<1>2. CASE Empty(c)
  <2>1. PICK p \in takers : p[1] = c /\ \A k \in calls : LiveReset(k) => k.id # p[2]
    BY <1>2 DEF Given
  <2>2. p[2] \in 0..acts /\ p[2] # acts + 1
    <3>1. p[2] \in 0..acts BY DEF GivenInv
    <3>. QED BY <3>1
  <2>3. \A k \in calls' : LiveReset(k) => k.id # p[2] BY <2>1, <2>2
  <2>. QED BY <2>1, <2>3 DEF Given, LiveReset
<1>. QED BY <1>1, <1>2

(* The ids of rows are numbers, after a step too.                           *)
LEMMA NextNumbers ==
  ASSUME ChatInv'
  PROVE  0 \notin Ids' /\ Stale \notin Ids'
<1>1. conv' \in Seq(Row) BY DEF ChatInv, RowsInv
<1>2. Len(conv') \in Nat /\ Ids' = 1..Len(conv') BY <1>1 DEF Ids
<1>. QED BY <1>2, StoreConstants

(* What a step must show of the requests and the ids it changes.             *)
LEMMA GivenFrame ==
  ASSUME ChatInv, ChatInv', GivenInv, acts' = acts \/ acts' = acts + 1,
         Ids \subseteq Ids', takers \subseteq takers',
         \A c \in Ids : (~Empty(c) => ~Empty(c)') /\ (Empty(c) /\ ~Empty(c)' => Given(c)),
         \A k \in calls' : LiveReset(k) => k.id = acts + 1 \/ \E j \in calls : LiveReset(j) /\ j.id = k.id,
         \A p \in takers' : p \in takers \/ p[2] \in 0..acts',
         \A k \in calls' : k \in calls \/ GivenCall(k)',
         \A t \in Tabs : tab'[t].cid = tab[t].cid \/ \A c \in Ids' : tab'[t].cid = c => Given(c)'
  PROVE  GivenInv'
<1>1. acts \in Nat /\ acts' \in Nat /\ 0..acts \subseteq 0..acts'
  <2>1. acts \in Nat BY ActsCount
  <2>. QED BY <2>1
<1>2. \A c \in Ids : Given(c) => Given(c)' BY <1>1, GivenStays
<1>3. 0 \notin Ids' /\ Stale \notin Ids' BY NextNumbers
<1>4. ASSUME NEW k \in calls
      PROVE  GivenCall(k)'
  <2>1. GivenCall(k) /\ k.cid \in Ids \cup {0, Stale} /\ k.conv \in Ids \cup {0}
    BY Before DEF GivenInv, CallOK
  <2>2. k.kind \in {"send", "load"} /\ k.cid \in Ids' => Given(k.cid)'
    BY <1>2, <1>3, <2>1 DEF GivenCall
  <2>3. At(k, "send", "accept") /\ k.conv # 0 => Given(k.conv)' BY <1>2, <2>1 DEF GivenCall
  <2>4. LiveReset(k) /\ k.pc # "sent" /\ k.conv # 0 => Kept(k.conv, k.id)'
    <3>. SUFFICES ASSUME LiveReset(k), k.pc # "sent", k.conv # 0
                  PROVE  Kept(k.conv, k.id)'
      OBVIOUS
    <3>1. Kept(k.conv, k.id) /\ k.conv \in Ids BY <2>1 DEF GivenCall
    <3>2. CASE Empty(k.conv)' BY <3>2 DEF Kept
    <3>3. CASE Empty(k.conv) /\ ~Empty(k.conv)'
      <4>1. Given(k.conv) BY <3>1, <3>3
      <4>2. PICK p \in takers : p[1] = k.conv /\ k.id # p[2] BY <3>3, <4>1 DEF Given
      <4>. QED BY <4>2 DEF Kept
    <3>4. CASE ~Empty(k.conv) BY <3>1, <3>4 DEF Kept
    <3>. QED BY <3>2, <3>3, <3>4
  <2>5. k.id \in 0..acts' BY <1>1, <2>1 DEF GivenCall
  <2>6. At(k, "reset", "answered") => k.live /\ k.conv # 0 /\ <<k.conv, k.id>> \in takers'
    BY <2>1 DEF GivenCall
  <2>. QED BY <2>2, <2>3, <2>4, <2>5, <2>6 DEF GivenCall, At, LiveReset
<1>5. \A k \in calls' : GivenCall(k)' BY <1>4
<1>6. ASSUME NEW t \in Tabs, NEW c \in Ids', tab'[t].cid = c
      PROVE  Given(c)'
  <2>1. tab[t].cid \in Ids \cup {0, Stale} BY Before DEF PageOK
  <2>2. CASE tab[t].cid = c
    <3>1. c \in Ids BY <1>3, <2>1, <2>2
    <3>. QED BY <1>2, <2>2, <3>1 DEF GivenInv
  <2>. QED BY <1>6, <2>2
<1>7. \A p \in takers' : p[2] \in 0..acts' BY <1>1 DEF GivenInv
<1>. QED BY <1>5, <1>6, <1>7 DEF GivenInv

(* A request moves on or is answered.                                       *)
LEMMA ServeGiven ==
  ASSUME ChatInv, OwnInv, ChatInv', OwnInv', GivenInv, NEW k \in calls, NEW n, Moves(k, n), Places(k),
         Ids \subseteq Ids', UNCHANGED <<tab, acts>>, takers \subseteq takers',
         \A p \in takers' : p \in takers \/ p[2] \in 0..acts,
         \A c \in Ids : where'[k.id] = c /\ Empty(c) => Given(c),
         n \in calls' /\ (\A c \in Ids : Given(c) => Given(c)') => GivenCall(n)'
  PROVE  GivenInv'
<1>1. acts \in Nat BY ActsCount
<1>2. \A c \in Ids : (~Empty(c) => ~Empty(c)') /\ (Empty(c) /\ ~Empty(c)' => where'[k.id] = c)
  BY Fills
<1>3. \A c \in Ids : (~Empty(c) => ~Empty(c)') /\ (Empty(c) /\ ~Empty(c)' => Given(c))
  BY <1>2
<1>4. \A j \in calls' : j \in calls \/ j = n BY DEF Moves
<1>5. \A j \in calls' : LiveReset(j) => j.id = acts + 1 \/ \E i \in calls : LiveReset(i) /\ i.id = j.id
  BY <1>4 DEF Moves, LiveReset
<1>6. \A c \in Ids : Given(c) => Given(c)'
  <2>1. \A c \in Ids : ~Empty(c) => ~Empty(c)' BY <1>3
  <2>. QED BY <1>1, <1>5, <2>1, GivenStays
<1>7. \A j \in calls' : j \in calls \/ GivenCall(j)' BY <1>4, <1>6
<1>8. /\ acts' = acts \/ acts' = acts + 1
      /\ \A p \in takers' : p \in takers \/ p[2] \in 0..acts'
      /\ \A t \in Tabs : tab'[t].cid = tab[t].cid \/ \A c \in Ids' : tab'[t].cid = c => Given(c)'
  OBVIOUS
<1>. QED BY <1>3, <1>5, <1>7, <1>8, GivenFrame

(* Nobody is given anything by the steps of a turn, a history or a recovery.  *)
LEMMA QuietGiven ==
  ASSUME ChatInv, OwnInv, ChatInv', OwnInv', GivenInv, NEW k \in calls, NEW n, Moves(k, n), Places(k),
         Ids \subseteq Ids', UNCHANGED <<tab, acts, takers>>,
         \A c \in Ids : where'[k.id] = c /\ Empty(c) => Given(c),
         k.kind # "reset", n.pc # "accept"
  PROVE  GivenInv'
<1>1. GivenCall(k) /\ k.cid \in Ids \cup {0, Stale} BY Before DEF GivenInv, CallOK
<1>2. 0 \notin Ids' /\ Stale \notin Ids' BY NextNumbers
<1>3. n.id = k.id /\ n.kind = k.kind /\ n.cid = k.cid BY DEF Moves
<1>4. ASSUME \A c \in Ids : Given(c) => Given(c)'
      PROVE  GivenCall(n)'
  <2>1. n.kind \in {"send", "load"} /\ n.cid \in Ids' => Given(n.cid)'
    BY <1>1, <1>2, <1>3, <1>4 DEF GivenCall
  <2>. QED BY <1>1, <1>3, <2>1 DEF GivenCall, At, LiveReset
<1>5. /\ takers \subseteq takers'
      /\ \A p \in takers' : p \in takers \/ p[2] \in 0..acts
  OBVIOUS
<1>6. n \in calls' /\ (\A c \in Ids : Given(c) => Given(c)') => GivenCall(n)' BY <1>4
<1>7. UNCHANGED <<tab, acts>> OBVIOUS
<1>. QED BY <1>5, <1>6, <1>7, ServeGiven

(* A turn's other steps, a history and a recovery.                          *)
LEMMA OtherMoves ==
  ASSUME NEW k \in calls, k \in Call,
         TurnRefused(k) \/ TurnEnd(k) \/ TurnFail(k) \/ LoadRead(k) \/ ResumeRun(k)
  PROVE  /\ \E n : Moves(k, n) /\ n.pc = "answered"
         /\ k.kind # "reset" /\ UNCHANGED <<where, takers>> /\ Ids' = Ids
<1>1. k.kind # "reset" /\ UNCHANGED <<where, takers>>
  BY DEF TurnRefused, TurnEnd, TurnFail, LoadRead, ResumeRun, Resolved, At, historyVars
<1>2. Ids' = Ids
  BY DEF TurnRefused, TurnEnd, TurnFail, LoadRead, ResumeRun, storeVars, Ids
<1>3. ASSUME NEW next, Answer(k, next),
             \/ \E res, items : next = [k EXCEPT !.res = res, !.items = items]
             \/ \E res : next = [k EXCEPT !.res = res]
             \/ \E res, states, items :
                  next = [k EXCEPT !.res = res, !.sessions = states, !.items = items]
             \/ k.kind = "send" /\ \E res, s, states :
                  next = [k EXCEPT !.res = res, !.sess = s, !.sessions = states]
      PROVE  \E n : Moves(k, n) /\ n.pc = "answered"
  <2>1. /\ DOMAIN next = DOMAIN k
        /\ next.id = k.id /\ next.tab = k.tab /\ next.kind = k.kind /\ next.live = k.live
        /\ next.cid = k.cid /\ (k.kind = "resume" => next.sess = k.sess)
    BY <1>3 DEF Call
  <2>. PICK n : n = [next EXCEPT !.pc = "answered"] OBVIOUS
  <2>2. /\ n.id = k.id /\ n.tab = k.tab /\ n.kind = k.kind /\ n.live = k.live /\ n.cid = k.cid
        /\ n.pc = "answered" /\ (k.kind = "resume" => n.sess = k.sess)
    BY <2>1 DEF Call
  <2>. QED BY <1>3, <2>2, AnswerMoves
<1>4. \E n : Moves(k, n) /\ n.pc = "answered"
  <2>1. CASE TurnRefused(k) BY <1>3, <2>1 DEF TurnRefused
  <2>2. CASE TurnFail(k) BY <1>3, <2>2 DEF TurnFail
  <2>3. CASE ResumeRun(k) BY <1>3, <2>3 DEF ResumeRun
  <2>4. CASE LoadRead(k) BY <1>3, <2>4 DEF LoadRead
  <2>5. CASE TurnEnd(k) BY <1>3, <2>5 DEF TurnEnd, At
  <2>. QED BY <2>1, <2>2, <2>3, <2>4, <2>5
<1>. QED BY <1>1, <1>2, <1>4

(* find_empty_for_user finds an empty conversation, if it finds one.         *)
LEMMA FoundEmpty ==
  ASSUME RowsInv, find_empty_for_user # 0
  PROVE  find_empty_for_user \in Ids /\ Empty(find_empty_for_user)
<1>. DEFINE T == {0} \cup {c \in DOMAIN conv : Empty(c)}
<1>1. Len(conv) \in Nat /\ Ids = 1..Len(conv) BY RowFacts
<1>2. T \in SUBSET (0..Len(conv)) /\ T # {} BY <1>1 DEF Ids
<1>3. \A c \in T : c # 0 => c \in Ids /\ Empty(c) BY DEF Ids
<1>4. find_empty_for_user = Max(T) BY DEF find_empty_for_user
<1>. HIDE DEF T
<1>5. Max(T) \in T BY <1>1, <1>2, MaxOf
<1>. QED BY <1>3, <1>4, <1>5

(* A message goes to the conversation its request named or was given.        *)
LEMMA AcceptGiven ==
  ASSUME ChatInv, OwnInv, ChatInv', OwnInv', GivenInv, NEW k \in calls, UNCHANGED <<tab, acts>>,
         TurnAccept(k)
  PROVE  GivenInv'
<1>. DEFINE c == IF Chosen(k) = 0 THEN Len(conv) + 1 ELSE Chosen(k)
<1>1. k \in Call /\ CallOK(k) /\ RowsInv /\ Knows(k) /\ IdsInv /\ GivenCall(k)
  BY Before DEF ChatInv, OwnInv, KnowsInv, GivenInv
<1>2. Len(conv) \in Nat /\ Ids = 1..Len(conv) BY <1>1, RowFacts
<1>. PICK iv : calls' = (calls \ {k}) \cup {[k EXCEPT !.pc = "handling", !.conv = c, !.iv = iv]}
  BY DEF TurnAccept, Becomes
<1>3. Resolved(k) /\ where' = [where EXCEPT ![k.id] = c] /\ takers' = takers /\ Ids' = Ids \cup {c}
  BY DEF TurnAccept, Ids
<1>4. k.kind = "send" /\ k.pc \in {"sent", "accept"} /\ Chosen(k) \in Ids \cup {0}
  BY <1>1, <1>3 DEF Resolved, Chosen, At, CallOK, Ids
<1>5. k.cid \in Ids => c = k.cid
  <2>1. k.cid \in Ids => k.pc = "sent" BY <1>1, <1>4 DEF Knows, At
  <2>. QED BY <2>1, <1>2 DEF Chosen
<1>6. c # 0 /\ (c \in Ids => Chosen(k) = c) BY <1>2, <1>4
<1>7. Sender(k) /\ where[k.id] = 0 BY <1>1, <1>4 DEF Knows, Sender
<1>8. c \in Ids => Given(c)
  <2>. SUFFICES ASSUME c \in Ids
                PROVE  Given(c)
    OBVIOUS
  <2>1. CASE k.pc = "sent" BY <1>1, <1>3, <1>4, <1>6, <2>1 DEF Chosen, GivenCall, Resolved, At, Ids
  <2>2. CASE k.pc = "accept" BY <1>1, <1>4, <1>6, <2>2 DEF Chosen, GivenCall, At
  <2>. QED BY <1>4, <2>1, <2>2
<1>. HIDE DEF c
<1>9. Places(k) BY <1>3, <1>5, <1>6, <1>7 DEF Places
<1>10. where'[k.id] = c
  <2>1. k.id \in 0..MaxActs BY <1>1 DEF Call
  <2>. QED BY <2>1, <1>1, <1>3 DEF IdsInv
<1>. PICK n : n = [k EXCEPT !.pc = "handling", !.conv = c, !.iv = iv] OBVIOUS
<1>11. /\ n.id = k.id /\ n.tab = k.tab /\ n.kind = k.kind /\ n.live = k.live /\ n.cid = k.cid
       /\ n.sess = k.sess /\ n.pc = "handling"
  BY <1>1 DEF Call
<1>12. Moves(k, n) BY <1>11 DEF Moves
<1>13. \A d \in Ids : where'[k.id] = d /\ Empty(d) => Given(d) BY <1>8, <1>10
<1>14. UNCHANGED <<tab, acts, takers>> /\ Ids \subseteq Ids' /\ k.kind # "reset" /\ n.pc # "accept"
  BY <1>3, <1>4, <1>11
<1>. QED BY <1>9, <1>12, <1>13, <1>14, QuietGiven

(* resolve gives a turn without an id the most recent conversation.          *)
LEMMA ResolveGiven ==
  ASSUME ChatInv, OwnInv, ChatInv', OwnInv', GivenInv, NEW k \in calls, UNCHANGED <<tab, acts>>,
         TurnResolve(k)
  PROVE  GivenInv'
<1>. PICK c : c = IF k.cid = 0 THEN MostRecent ELSE 0 OBVIOUS
<1>. PICK n : n = [k EXCEPT !.pc = "accept", !.conv = c] OBVIOUS
<1>1. k \in Call /\ RowsInv /\ IdsInv /\ GivenCall(k) BY Before DEF ChatInv, OwnInv, GivenInv
<1>2. /\ calls' = (calls \ {k}) \cup {n} /\ UNCHANGED <<storeVars, where>> /\ k.kind = "send"
      /\ k.cid \notin Ids /\ takers' = (IF k.cid = 0 THEN takers \cup {<<c, k.id>>} ELSE takers)
  BY DEF TurnResolve, Becomes, At, Ids
<1>3. c # 0 => k.cid = 0 OBVIOUS
<1>4. /\ n.id = k.id /\ n.tab = k.tab /\ n.kind = k.kind /\ n.live = k.live /\ n.cid = k.cid
      /\ n.sess = k.sess /\ n.pc = "accept" /\ n.conv = c
  BY <1>1 DEF Call
<1>5. Moves(k, n) /\ Places(k) BY <1>2, <1>4 DEF Moves, Places
<1>6. Ids' = Ids BY <1>2 DEF storeVars, Ids
<1>7. \A j \in calls' : LiveReset(j) => j.id # k.id
  <2>1. \A j \in calls : LiveReset(j) => j # k /\ Sender(j) BY <1>2 DEF LiveReset, Sender
  <2>2. Sender(k) BY <1>2 DEF Sender
  <2>3. \A j \in calls' : LiveReset(j) => j \in calls BY <1>2, <1>4 DEF LiveReset
  <2>. QED BY <1>1, <2>1, <2>2, <2>3 DEF IdsInv
<1>8. c # 0 => Given(c)'
  <2>. SUFFICES ASSUME c # 0
                PROVE  Given(c)'
    OBVIOUS
  <2>. PICK p : p = <<c, k.id>> OBVIOUS
  <2>1. p \in takers' /\ p[1] = c /\ p[2] = k.id BY <1>2, <1>3
  <2>. QED BY <1>7, <2>1 DEF Given, LiveReset
<1>9. GivenCall(n)'
  <2>1. k.id \in 0..acts BY <1>1 DEF GivenCall
  <2>. QED BY <1>2, <1>4, <1>6, <1>8, <2>1 DEF GivenCall, At, LiveReset
<1>10. takers \subseteq takers' /\ \A p \in takers' : p \in takers \/ p[2] \in 0..acts
  BY <1>1, <1>2 DEF GivenCall
<1>11. \A d \in Ids : where'[k.id] = d /\ Empty(d) => Given(d)
  <2>1. k.id \in 0..MaxActs /\ 0 \notin Ids BY <1>1, RowNumbers DEF Call
  <2>. QED BY <1>1, <1>2, <2>1 DEF IdsInv
<1>12. n \in calls' /\ (\A d \in Ids : Given(d) => Given(d)') => GivenCall(n)' BY <1>9
<1>. QED BY <1>5, <1>6, <1>10, <1>11, <1>12, ServeGiven

(* An act without a message fills no conversation.                          *)
LEMMA NoFill ==
  ASSUME ChatInv, OwnInv, NEW k \in calls, where' = where
  PROVE  \A c \in Ids : where'[k.id] = c /\ Empty(c) => Given(c)
<1>1. IdsInv /\ k.id \in 0..MaxActs /\ 0 \notin Ids BY Before, RowNumbers DEF OwnInv, ChatInv, Call
<1>. QED BY <1>1 DEF IdsInv

(* reset chooses an empty conversation, or none.                            *)
LEMMA ResetReadGiven ==
  ASSUME ChatInv, OwnInv, ChatInv', OwnInv', GivenInv, NEW k \in calls, UNCHANGED <<tab, acts>>,
         ResetRead(k)
  PROVE  GivenInv'
<1>. PICK c : c = find_current OBVIOUS
<1>. PICK e : e = find_empty_for_user OBVIOUS
<1>. PICK n : n = [k EXCEPT !.pc = "commit", !.cid = c, !.conv = e] OBVIOUS
<1>1. k \in Call /\ RowsInv /\ GivenCall(k) BY Before DEF ChatInv, GivenInv
<1>2. /\ calls' = (calls \ {k}) \cup {n} /\ UNCHANGED <<storeVars, where, takers>> /\ k.kind = "reset"
  BY DEF ResetRead, Becomes, At, historyVars
<1>3. /\ n.id = k.id /\ n.tab = k.tab /\ n.kind = k.kind /\ n.live = k.live
      /\ n.sess = k.sess /\ n.pc = "commit" /\ n.conv = e
  BY <1>1 DEF Call
<1>4. e # 0 => e \in Ids /\ Empty(e) BY <1>1, FoundEmpty
<1>5. Moves(k, n) /\ Places(k) BY <1>2, <1>3 DEF Moves, Places
<1>6. Ids' = Ids /\ conv' = conv BY <1>2 DEF storeVars, Ids
<1>7. GivenCall(n)'
  <2>1. e # 0 => Kept(e, k.id)' BY <1>4, <1>6 DEF Kept, Empty
  <2>2. k.id \in 0..acts BY <1>1 DEF GivenCall
  <2>. QED BY <1>2, <1>3, <2>1, <2>2 DEF GivenCall, At, LiveReset
<1>8. takers \subseteq takers' /\ \A p \in takers' : p \in takers \/ p[2] \in 0..acts BY <1>2
<1>9. \A d \in Ids : where'[k.id] = d /\ Empty(d) => Given(d) BY <1>2, NoFill
<1>10. n \in calls' /\ (\A d \in Ids : Given(d) => Given(d)') => GivenCall(n)' BY <1>7
<1>. QED BY <1>5, <1>6, <1>8, <1>9, <1>10, ServeGiven

(* reset hands the conversation out: the one it chose, or a new one.         *)
LEMMA ResetCommitGiven ==
  ASSUME ChatInv, OwnInv, ChatInv', OwnInv', GivenInv, NEW k \in calls, UNCHANGED <<tab, acts>>,
         ResetCommit(k)
  PROVE  GivenInv'
<1>. PICK c : c = IF k.conv = 0 THEN Len(conv) + 1 ELSE k.conv OBVIOUS
<1>. DEFINE next == [k EXCEPT !.conv = c]
<1>. PICK n : n = [next EXCEPT !.pc = "answered"] OBVIOUS
<1>1. k \in Call /\ CallOK(k) /\ RowsInv /\ GivenCall(k) BY Before DEF ChatInv, GivenInv
<1>2. /\ Answer(k, next) /\ where' = where /\ takers' = takers \cup {<<c, k.id>>}
      /\ k.kind = "reset" /\ k.pc = "commit"
  BY DEF ResetCommit, At
<1>3. Len(conv) \in Nat /\ Ids = 1..Len(conv) BY <1>1, RowFacts
<1>4. /\ n.id = k.id /\ n.tab = k.tab /\ n.kind = k.kind /\ n.live = k.live
      /\ n.sess = k.sess /\ n.pc = "answered" /\ n.conv = c
  BY <1>1 DEF Call
<1>. HIDE DEF next
<1>5. Moves(k, n) BY <1>2, <1>4, AnswerMoves
<1>6. Places(k) BY <1>2 DEF Places
<1>7. Ids' = Ids \cup {c} /\ (c \notin Ids => conv'[c] = NewRow) BY DEF ResetCommit, Ids
<1>8. c # 0 /\ (c \in Ids => k.conv = c)
  <2>1. k.conv \in Ids \cup {0} BY <1>1 DEF CallOK
  <2>. QED BY <1>3, <2>1
<1>9. \A d \in Ids : where'[k.id] = d /\ Empty(d) => Given(d) BY <1>2, NoFill
<1>10. \A d \in Ids : Empty(d) => Empty(d)'
  <2>1. \A d \in Ids : Empty(d) /\ ~Empty(d)' => where'[k.id] = d BY <1>6, <1>7, Fills
  <2>2. IdsInv /\ k.id \in 0..MaxActs /\ 0 \notin Ids BY <1>1, RowNumbers DEF OwnInv, Call
  <2>. QED BY <1>2, <2>1, <2>2 DEF IdsInv
<1>11. ASSUME n \in calls'
       PROVE  GivenCall(n)'
  <2>1. n.live
    <3>1. CASE k.live BY <1>4, <3>1
    <3>2. CASE ~k.live
      <4>1. n \in calls BY <1>2, <1>11, <3>2 DEF Answer
      <4>2. At(n, "reset", "answered") BY <1>2, <1>4 DEF At
      <4>. QED BY <4>1, <4>2 DEF GivenInv, GivenCall
    <3>. QED BY <3>1, <3>2
  <2>2. Kept(c, k.id)'
    <3>1. CASE c \notin Ids BY <1>7, <3>1 DEF Kept, Empty, NewRow
    <3>2. CASE c \in Ids
      <4>1. LiveReset(k) BY <1>2, <1>4, <2>1 DEF LiveReset
      <4>2. Kept(c, k.id) BY <1>1, <1>2, <1>8, <3>2, <4>1 DEF GivenCall
      <4>. QED BY <1>2, <1>10, <3>2, <4>2 DEF Kept
    <3>. QED BY <3>1, <3>2
  <2>3. k.id \in 0..acts /\ <<c, k.id>> \in takers' BY <1>1, <1>2 DEF GivenCall
  <2>. QED BY <1>2, <1>4, <1>8, <2>1, <2>2, <2>3 DEF GivenCall, At, LiveReset
<1>12. takers \subseteq takers' /\ \A p \in takers' : p \in takers \/ p[2] \in 0..acts
  BY <1>1, <1>2 DEF GivenCall
<1>13. n \in calls' /\ (\A d \in Ids : Given(d) => Given(d)') => GivenCall(n)' BY <1>11
<1>14. Ids \subseteq Ids' BY <1>7
<1>. QED BY <1>5, <1>6, <1>9, <1>12, <1>13, <1>14, ServeGiven

(* The server works on a request.                                           *)
LEMMA ServeStepGiven ==
  ASSUME ChatInv, OwnInv, ChatInv', OwnInv', GivenInv, NEW k \in calls, ServeStep(k)
  PROVE  GivenInv'
<1>1. UNCHANGED <<tab, acts>> BY DEF ServeStep
<1>2. CASE TurnRefused(k) \/ TurnEnd(k) \/ TurnFail(k) \/ LoadRead(k) \/ ResumeRun(k)
  <2>1. /\ \E n : Moves(k, n) /\ n.pc = "answered"
        /\ k.kind # "reset" /\ UNCHANGED <<where, takers>> /\ Ids' = Ids
    BY <1>2, Before, OtherMoves
  <2>. PICK n : Moves(k, n) /\ n.pc = "answered" BY <2>1
  <2>2. Places(k) BY <2>1 DEF Places
  <2>3. \A c \in Ids : where'[k.id] = c /\ Empty(c) => Given(c) BY <2>1, NoFill
  <2>4. UNCHANGED <<tab, acts, takers>> /\ Ids \subseteq Ids' /\ n.pc # "accept" BY <1>1, <2>1
  <2>. QED BY <2>1, <2>2, <2>3, <2>4, QuietGiven
<1>. QED BY <1>1, <1>2, AcceptGiven, ResolveGiven, ResetReadGiven, ResetCommitGiven
         DEF ServeStep, Serve

(* A page acts, or gets an answer.                                          *)
LEMMA PageGiven ==
  ASSUME ChatInv, ChatInv', GivenInv, UNCHANGED <<storeVars, historyVars>>, NEW t \in Tabs,
         acts' = acts \/ acts' = acts + 1, \A u \in Tabs \ {t} : tab'[u].cid = tab[u].cid,
         \A k \in calls' : LiveReset(k) => k.id = acts + 1 \/ \E j \in calls : LiveReset(j) /\ j.id = k.id,
         (\A c \in Ids : Given(c) => Given(c)') =>
            /\ \A k \in calls' : k \in calls \/ GivenCall(k)'
            /\ tab'[t].cid = tab[t].cid \/ \A c \in Ids : tab'[t].cid = c => Given(c)'
  PROVE  GivenInv'
<1>1. conv' = conv /\ takers' = takers /\ Ids' = Ids BY DEF storeVars, historyVars, Ids
<1>2. acts \in Nat BY ActsCount
<1>3. \A c \in Ids : Empty(c)' <=> Empty(c) BY <1>1 DEF Empty
<1>4. \A c \in Ids : Given(c) => Given(c)'
  <2>1. takers \subseteq takers' /\ \A c \in Ids : ~Empty(c) => ~Empty(c)' BY <1>1, <1>3
  <2>. QED BY <1>2, <2>1, GivenStays
<1>5. \A k \in calls' : k \in calls \/ GivenCall(k)' BY <1>4
<1>6. \A u \in Tabs : tab'[u].cid = tab[u].cid \/ \A c \in Ids' : tab'[u].cid = c => Given(c)'
  BY <1>1, <1>4
<1>7. /\ Ids \subseteq Ids' /\ takers \subseteq takers'
      /\ \A c \in Ids : (~Empty(c) => ~Empty(c)') /\ (Empty(c) /\ ~Empty(c)' => Given(c))
      /\ \A p \in takers' : p \in takers \/ p[2] \in 0..acts'
  BY <1>1, <1>3
<1>. QED BY <1>5, <1>6, <1>7, GivenFrame

(* The user asks for something, and the page keeps its id.                   *)
LEMMA AskGiven ==
  ASSUME ChatInv, ChatInv', GivenInv, NEW t \in Tabs, Act(t),
         \A u \in Tabs : tab'[u].cid = tab[u].cid,
         \A k \in calls' : k \in calls \/
            (/\ k.id = acts' /\ k.pc = "sent"
             /\ k.kind \in {"send", "load"} /\ k.cid \in Ids => Given(k.cid))
  PROVE  GivenInv'
<1>1. /\ UNCHANGED <<storeVars, historyVars>> /\ Ids' = Ids /\ acts \in Nat /\ acts' = acts + 1
      /\ acts' \in 0..acts'
  <2>1. UNCHANGED <<storeVars, historyVars>> /\ acts' = acts + 1 BY DEF Act, Acts
  <2>2. acts \in Nat BY ActsCount
  <2>. QED BY <2>1, <2>2 DEF storeVars, Ids
<1>2. ASSUME \A c \in Ids : Given(c) => Given(c)', NEW k \in calls'
      PROVE  k \in calls \/ GivenCall(k)'
  <2>1. CASE k \notin calls
    <3>1. k.kind \in {"send", "load"} /\ k.cid \in Ids => Given(k.cid)' BY <1>2, <2>1
    <3>2. k.id \in 0..acts' /\ k.pc = "sent" BY <1>1, <2>1
    <3>. QED BY <1>1, <3>1, <3>2 DEF GivenCall, At, LiveReset
  <2>. QED BY <2>1
<1>3. \A k \in calls' : LiveReset(k) => k.id = acts + 1 \/ \E j \in calls : LiveReset(j) /\ j.id = k.id
  BY <1>1
<1>4. (\A c \in Ids : Given(c) => Given(c)') =>
         /\ \A k \in calls' : k \in calls \/ GivenCall(k)'
         /\ tab'[t].cid = tab[t].cid \/ \A c \in Ids : tab'[t].cid = c => Given(c)'
  BY <1>2
<1>. QED BY <1>1, <1>3, <1>4, PageGiven

(* A turn is sent, or is not while another is in flight.                     *)
LEMMA SentTurn ==
  ASSUME tab \in [Tabs -> PageOf], NEW t \in Tabs, NEW r \in PageOf, NEW m, NEW auto, NEW others,
         sendMessage(t, m, r, auto, others)
  PROVE  /\ tab'[t].cid = r.cid /\ tab'[t].sess = r.sess /\ tab'[t].items = r.items
         /\ \A u \in Tabs \ {t} : tab'[u] = tab[u]
         /\ others \subseteq calls'
         /\ \A k \in calls' : k \in others \/
               (k.id = m /\ k.tab = t /\ k.kind = "send" /\ k.pc = "sent" /\ k.cid = r.cid)
<1>. DEFINE n == [Sent(t, m, "send") EXCEPT !.cid = r.cid, !.key = r.key, !.auto = auto]
<1>1. n.id = m /\ n.tab = t /\ n.kind = "send" /\ n.pc = "sent" /\ n.cid = r.cid BY DEF Sent
<1>2. r.busy => tab' = [tab EXCEPT ![t] = r] /\ calls' = others BY DEF sendMessage
<1>3. ~r.busy => tab' = [tab EXCEPT ![t] = acquireBusy(r)] /\ calls' = others \cup {n}
  BY DEF sendMessage
<1>. HIDE DEF n
<1>4. /\ acquireBusy(r).cid = r.cid /\ acquireBusy(r).sess = r.sess
      /\ acquireBusy(r).items = r.items
  BY DEF acquireBusy, PageOf
<1>. QED BY <1>1, <1>2, <1>3, <1>4

(* The user's acts but the reload.                                         *)
LEMMA UserGiven ==
  ASSUME ChatInv, ChatInv', GivenInv, NEW t \in Tabs,
         \/ handleSubmit(t) \/ handleSelectConversation(t)
         \/ \E then : startNewConversation(t, then)
         \/ \E n \in 1..MaxActs : handleRetry(t, n) \/ handleResume(t, n)
  PROVE  GivenInv'
<1>. DEFINE r0 == tab[t]
<1>1. r0 \in PageOf /\ tab \in [Tabs -> PageOf] BY Before
<1>2. r0.cid \in Ids => Given(r0.cid) BY DEF GivenInv
<1>3. ASSUME NEW r \in PageOf, r.cid = r0.cid, Act(t), sendMessage(t, acts', r, FALSE, calls)
      PROVE  GivenInv'
  <2>. PICK m : m = acts' OBVIOUS
  <2>. PICK no \in BOOLEAN : no = FALSE OBVIOUS
  <2>. PICK others : others = calls OBVIOUS
  <2>0. sendMessage(t, m, r, no, others) BY <1>3
  <2>1. /\ tab'[t].cid = r.cid /\ \A u \in Tabs \ {t} : tab'[u] = tab[u]
        /\ \A k \in calls' : k \in others \/
              (k.id = m /\ k.kind = "send" /\ k.pc = "sent" /\ k.cid = r.cid)
    BY <1>1, <2>0, SentTurn
  <2>2. \A u \in Tabs : tab'[u].cid = tab[u].cid BY <1>3, <2>1
  <2>3. \A k \in calls' : k \in calls \/
           (/\ k.id = acts' /\ k.pc = "sent"
            /\ k.kind \in {"send", "load"} /\ k.cid \in Ids => Given(k.cid))
    BY <1>2, <1>3, <2>1
  <2>. QED BY <1>3, <2>2, <2>3, AskGiven
<1>4. CASE handleSubmit(t)
  <2>. DEFINE i == <<"user", acts'>>
  <2>1. sendMessage(t, acts', Show(r0, i), FALSE, calls) /\ Act(t) BY <1>4 DEF handleSubmit
  <2>. PICK r : r = Show(r0, i) OBVIOUS
  <2>2. acts' \in 1..MaxActs BY <2>1, ActBounds
  <2>3. i \in Item BY <2>2, StoreConstants DEF Item
  <2>. HIDE DEF i
  <2>4. r \in PageOf /\ r.cid = r0.cid BY <1>1, <2>3 DEF Show, PageOf
  <2>. QED BY <1>3, <2>1, <2>4
<1>5. ASSUME NEW m \in 1..MaxActs, handleRetry(t, m)
      PROVE  GivenInv'
  <2>. DEFINE i == <<"retry", m>>
             rest == r0.items \ {i}
  <2>1. sendMessage(t, acts', [r0 EXCEPT !.items = rest], FALSE, calls) /\ Act(t)
    BY <1>5 DEF handleRetry
  <2>2. rest \subseteq r0.items OBVIOUS
  <2>. HIDE DEF rest
  <2>. PICK r : r = [r0 EXCEPT !.items = rest] OBVIOUS
  <2>3. r \in PageOf /\ r.cid = r0.cid BY <1>1, <2>2 DEF PageOf
  <2>. QED BY <1>3, <2>1, <2>3
<1>6. ASSUME NEW then, startNewConversation(t, then)
      PROVE  GivenInv'
  <2>. DEFINE n == [Sent(t, acts', "reset") EXCEPT !.then = then]
             none == {}
             r == [r0 EXCEPT !.polls = none]
  <2>1. calls' = calls \cup {n} /\ tab' = [tab EXCEPT ![t] = r] /\ Act(t)
    BY <1>6 DEF startNewConversation
  <2>2. n.id = acts' /\ n.kind = "reset" /\ n.pc = "sent" BY DEF Sent
  <2>3. r.cid = r0.cid BY <1>1 DEF PageOf
  <2>. HIDE DEF n, r
  <2>4. \A u \in Tabs : tab'[u].cid = tab[u].cid BY <1>1, <2>1, <2>3
  <2>. QED BY <2>1, <2>2, <2>4, AskGiven
<1>7. CASE handleSelectConversation(t)
  <2>. PICK i \in list_for_user : loadConversationHistory(t, acts', recent[i], r0, calls)
    BY <1>7 DEF handleSelectConversation
  <2>. PICK c : c = recent[i] OBVIOUS
  <2>. DEFINE n == [Sent(t, acts', "load") EXCEPT !.cid = c]
             none == {}
             r == [resetConversationScopedState(r0) EXCEPT !.polls = none]
  <2>1. calls' = calls \cup {n} /\ tab' = [tab EXCEPT ![t] = r] /\ Act(t)
    BY <1>7 DEF handleSelectConversation, loadConversationHistory
  <2>2. n.id = acts' /\ n.kind = "load" /\ n.pc = "sent" /\ n.cid = c BY DEF Sent
  <2>3. r.cid = r0.cid BY <1>1 DEF PageOf, resetConversationScopedState
  <2>. HIDE DEF n, r
  <2>4. \A u \in Tabs : tab'[u].cid = tab[u].cid BY <1>1, <2>1, <2>3
  <2>5. Given(c) BY DEF list_for_user, Given
  <2>. QED BY <2>1, <2>2, <2>4, <2>5, AskGiven
<1>8. ASSUME NEW m \in 1..MaxActs, handleResume(t, m)
      PROVE  GivenInv'
  <2>. DEFINE n == [Sent(t, acts', "resume") EXCEPT !.sess = r0.sess, !.item = m]
  <2>1. calls' = calls \cup {n} /\ tab' = tab /\ Act(t) BY <1>8 DEF handleResume
  <2>2. n.id = acts' /\ n.kind = "resume" /\ n.pc = "sent" BY DEF Sent
  <2>. HIDE DEF n
  <2>. QED BY <2>1, <2>2, AskGiven
<1>. QED BY <1>4, <1>5, <1>6, <1>7, <1>8

(* A request nobody waits for any more.                                     *)
LEMMA OrphanGiven ==
  ASSUME NEW k \in calls, k \in Call, GivenCall(k), NEW o, o = [k EXCEPT !.live = FALSE],
         ~At(k, "reset", "answered"), acts \in Nat, acts' = acts \/ acts' = acts + 1, Ids' = Ids,
         \A c \in Ids : Given(c) => Given(c)', k.conv \in Ids \cup {0}
  PROVE  GivenCall(o)' /\ ~LiveReset(o)
<1>1. /\ o.live = FALSE /\ o.kind = k.kind /\ o.id = k.id /\ o.cid = k.cid /\ o.pc = k.pc
      /\ o.conv = k.conv
  BY DEF Call
<1>2. o.id \in 0..acts' BY <1>1 DEF GivenCall
<1>3. o.kind \in {"send", "load"} /\ o.cid \in Ids' => Given(o.cid)' BY <1>1 DEF GivenCall
<1>4. At(o, "send", "accept") /\ o.conv # 0 => Given(o.conv)' BY <1>1 DEF GivenCall, At
<1>. QED BY <1>1, <1>2, <1>3, <1>4 DEF GivenCall, At, LiveReset

(* The page is loaded again with the id it had.                             *)
LEMMA ReloadGiven ==
  ASSUME ChatInv, ChatInv', GivenInv, NEW t \in Tabs, Reload(t)
  PROVE  GivenInv'
<1>. DEFINE orphaned == {[k EXCEPT !.live = FALSE] : k \in {j \in Mine(t) : j.pc # "answered"}}
            others == (calls \ Mine(t)) \cup orphaned
<1>. PICK c : c = tab[t].cid OBVIOUS
<1>. PICK m : m = acts' OBVIOUS
<1>. PICK n : n = [Sent(t, m, "load") EXCEPT !.cid = c] OBVIOUS
<1>. DEFINE none == {}
            r == [resetConversationScopedState(Page(c)) EXCEPT !.polls = none]
            p == IF c = 0 THEN Page(0) ELSE r
<1>1. /\ UNCHANGED <<storeVars, historyVars>> /\ Ids' = Ids /\ acts \in Nat /\ acts' = acts + 1
      /\ tab' = [tab EXCEPT ![t] = p] /\ acts' \in 0..acts'
      /\ calls' = others \/ calls' = others \cup {n}
  <2>1. UNCHANGED <<storeVars, historyVars>> /\ acts' = acts + 1 BY DEF Reload, Acts
  <2>2. acts \in Nat BY ActsCount
  <2>. QED BY <2>1, <2>2 DEF Reload, loadConversationHistory, storeVars, Ids
<1>2. p.cid = c BY DEF Page, resetConversationScopedState
<1>3. n.id = acts' /\ n.kind = "load" /\ n.pc = "sent" /\ n.cid = c BY DEF Sent
<1>. HIDE DEF p
<1>4. \A u \in Tabs : tab'[u].cid = tab[u].cid
  <2>1. tab \in [Tabs -> PageOf] BY Before
  <2>. QED BY <2>1, <1>1, <1>2
<1>5. ASSUME NEW o \in orphaned
      PROVE  /\ (\A d \in Ids : Given(d) => Given(d)') => GivenCall(o)'
             /\ ~LiveReset(o)
  <2>. PICK k \in Mine(t) : k.pc # "answered" /\ o = [k EXCEPT !.live = FALSE] OBVIOUS
  <2>1. k \in calls /\ k \in Call /\ GivenCall(k) /\ ~At(k, "reset", "answered") /\ k.conv \in Ids \cup {0}
    BY Before DEF Mine, At, GivenInv, CallOK
  <2>2. ~LiveReset(o) BY <2>1 DEF LiveReset, Call
  <2>. QED BY <1>1, <2>1, <2>2, OrphanGiven
<1>. HIDE DEF orphaned
<1>6. \A k \in calls' : k \in calls \/ k = n \/ k \in orphaned BY <1>1
<1>. HIDE DEF others
<1>7. c \in Ids => Given(c) BY DEF GivenInv
<1>8. (\A d \in Ids : Given(d) => Given(d)') => GivenCall(n)'
  BY <1>1, <1>3, <1>7 DEF GivenCall, At, LiveReset
<1>9. \A k \in calls' : LiveReset(k) => k.id = acts + 1 \/ \E j \in calls : LiveReset(j) /\ j.id = k.id
  BY <1>3, <1>5, <1>6 DEF LiveReset
<1>10. (\A d \in Ids : Given(d) => Given(d)') =>
          /\ \A k \in calls' : k \in calls \/ GivenCall(k)'
          /\ tab'[t].cid = tab[t].cid \/ \A d \in Ids : tab'[t].cid = d => Given(d)'
  BY <1>4, <1>5, <1>6, <1>8
<1>. QED BY <1>1, <1>4, <1>9, <1>10, PageGiven

(* An interval of the page asks.                                           *)
LEMMA PollTickGiven ==
  ASSUME ChatInv, ChatInv', GivenInv, NEW t \in Tabs, PollTick(t)
  PROVE  GivenInv'
<1>. PICK s : calls' = calls \cup {PollRead(t, s)} BY DEF PollTick
<1>. PICK n : n = PollRead(t, s) OBVIOUS
<1>1. /\ UNCHANGED <<storeVars, historyVars>> /\ acts' = acts /\ tab' = tab /\ acts \in Nat
      /\ calls' = calls \cup {n}
  BY ActsCount DEF PollTick
<1>2. n.id = 0 /\ n.kind = "poll" BY DEF PollRead, Sent
<1>3. GivenCall(n)' BY <1>1, <1>2 DEF GivenCall, At, LiveReset
<1>4. \A k \in calls' : LiveReset(k) => k.id = acts + 1 \/ \E j \in calls : LiveReset(j) /\ j.id = k.id
  BY <1>1, <1>2 DEF LiveReset
<1>5. \A u \in Tabs \ {t} : tab'[u].cid = tab[u].cid BY <1>1
<1>6. (\A d \in Ids : Given(d) => Given(d)') =>
          /\ \A k \in calls' : k \in calls \/ GivenCall(k)'
          /\ tab'[t].cid = tab[t].cid \/ \A d \in Ids : tab'[t].cid = d => Given(d)'
  BY <1>1, <1>3
<1>. QED BY <1>1, <1>4, <1>5, <1>6, PageGiven

(* The page uses an answer and asks for nothing more.                        *)
LEMMA AnsweredGiven ==
  ASSUME ChatInv, ChatInv', GivenInv, UNCHANGED <<storeVars, historyVars, acts>>, NEW t \in Tabs,
         NEW k \in calls, calls' = calls \ {k}, NEW q, tab' = [tab EXCEPT ![t] = q],
         q.cid = tab[t].cid \/ \A c \in Ids : q.cid = c => Given(c)
  PROVE  GivenInv'
<1>1. tab \in [Tabs -> PageOf] BY Before
<1>2. tab'[t] = q /\ \A u \in Tabs \ {t} : tab'[u].cid = tab[u].cid BY <1>1
<1>3. \A j \in calls' : LiveReset(j) => j.id = acts + 1 \/ \E i \in calls : LiveReset(i) /\ i.id = j.id
  OBVIOUS
<1>4. (\A c \in Ids : Given(c) => Given(c)') =>
         /\ \A j \in calls' : j \in calls \/ GivenCall(j)'
         /\ tab'[t].cid = tab[t].cid \/ \A c \in Ids : tab'[t].cid = c => Given(c)'
  BY <1>2
<1>5. UNCHANGED <<storeVars, historyVars>> /\ (acts' = acts \/ acts' = acts + 1) OBVIOUS
<1>. QED BY <1>2, <1>3, <1>4, <1>5, PageGiven

(* A turn's message was stored in the conversation its answer names.         *)
LEMMA SendAnsweredGiven ==
  ASSUME ChatInv, OwnInv, ChatInv', GivenInv, NEW k \in calls, SendAnswered(k),
         UNCHANGED <<storeVars, historyVars, acts>>
  PROVE  GivenInv'
<1>. DEFINE t == k.tab
<1>1. k \in Call /\ CallOK(k) /\ t \in Tabs /\ IdsInv /\ Knows(k) /\ At(k, "send", "answered")
      /\ calls' = calls \ {k} /\ 0 \notin Ids
  BY Before, RowNumbers DEF OwnInv, KnowsInv, SendAnswered, ChatInv
<1>2. CASE k.res = "success"
  <2>. PICK q \in PageOf : tab' = [tab EXCEPT ![t] = q] /\ q.cid = k.conv
    BY <1>2, SendAnsweredPage
  <2>1. where[k.id] = k.conv /\ k.conv # 0 /\ k.id \in 0..MaxActs BY <1>1, <1>2 DEF Knows, Call
  <2>2. ~Empty(k.conv) BY <1>1, <2>1 DEF IdsInv
  <2>3. \A c \in Ids : q.cid = c => Given(c) BY <2>2 DEF Given
  <2>. QED BY <1>1, <2>3, AnsweredGiven
<1>3. CASE k.res # "success"
  <2>. PICK q \in PageOf : tab' = [tab EXCEPT ![t] = q] /\ q.cid = tab[t].cid
    BY <1>3, SendAnsweredPage
  <2>. QED BY <1>1, AnsweredGiven
<1>. QED BY <1>2, <1>3

(* The history is of a conversation the page was given; a missing one is forgotten. *)
LEMMA LoadAnsweredGiven ==
  ASSUME ChatInv, OwnInv, ChatInv', GivenInv, NEW k \in calls, LoadAnswered(k),
         UNCHANGED <<storeVars, historyVars, acts>>
  PROVE  GivenInv'
<1>. DEFINE t == k.tab
<1>1. t \in Tabs /\ GivenCall(k) /\ k.kind = "load" /\ calls' = calls \ {k} /\ 0 \notin Ids
      /\ tab[t] \in PageOf
  BY Before, RowNumbers DEF GivenInv, LoadAnswered, At, ChatInv
<1>2. CASE k.res = "missing"
  <2>. DEFINE none == {}
             r == [tab[t] EXCEPT !.cid = 0, !.items = none]
  <2>1. tab' = [tab EXCEPT ![t] = r] BY <1>2 DEF LoadAnswered
  <2>2. r.cid = 0 BY <1>1 DEF PageOf
  <2>. HIDE DEF r
  <2>. PICK q : q = r OBVIOUS
  <2>3. tab' = [tab EXCEPT ![t] = q] /\ \A c \in Ids : q.cid = c => Given(c) BY <1>1, <2>1, <2>2
  <2>. QED BY <1>1, <2>3, AnsweredGiven
<1>3. CASE k.res # "missing"
  <2>. PICK q : tab' = [tab EXCEPT ![t] = q] /\ q.cid = k.cid BY <1>3, LoadedPage
  <2>1. \A c \in Ids : q.cid = c => Given(c) BY <1>1 DEF GivenCall
  <2>. QED BY <1>1, <2>1, AnsweredGiven
<1>. QED BY <1>2, <1>3

(* A poll does not change the page's id.                                    *)
LEMMA PollAnsweredGiven ==
  ASSUME ChatInv, ChatInv', GivenInv, NEW k \in calls, PollAnswered(k),
         UNCHANGED <<storeVars, historyVars, acts>>
  PROVE  GivenInv'
<1>. DEFINE t == k.tab
<1>. PICK s : s = k.sess OBVIOUS
<1>. PICK p : p = tab[t] OBVIOUS
<1>. PICK state : state = k.sessions[1] OBVIOUS
<1>. PICK q : q = polled(p, s, state) OBVIOUS
<1>1. t \in Tabs /\ p \in PageOf /\ s \in Nat \X Nat BY Before DEF Call
<1>2. calls' = calls \ {k} /\ tab' = [tab EXCEPT ![t] = q] BY <1>1, Before DEF PollAnswered
<1>3. q.cid = p.cid BY <1>1, PolledFields
<1>. QED BY <1>1, <1>2, <1>3, AnsweredGiven

(* The page that adopts the conversation of its reset, and may autostart a turn there. *)
LEMMA AdoptedPage ==
  ASSUME ChatInv, NEW k \in calls, NEW id \in Nat, NEW others, AfterReset(k, id, others)
  PROVE  /\ tab'[k.tab].cid = id /\ tab'[k.tab].items = {}
         /\ \A u \in Tabs \ {k.tab} : tab'[u] = tab[u]
         /\ others \subseteq calls'
         /\ \A n \in calls' : n \in others \/
               (n.id = k.id /\ n.tab = k.tab /\ n.kind = "send" /\ n.pc = "sent" /\ n.cid = id)
<1>. PICK t : t = k.tab OBVIOUS
<1>. PICK m : m = k.id OBVIOUS
<1>0. ASSUME NEW r \in PageOf, NEW auto, sendMessage(t, m, r, auto, others)
      PROVE  /\ tab'[t].cid = r.cid /\ tab'[t].items = r.items
             /\ \A u \in Tabs \ {t} : tab'[u] = tab[u]
             /\ others \subseteq calls'
             /\ \A n \in calls' : n \in others \/
                   (n.id = m /\ n.tab = t /\ n.kind = "send" /\ n.pc = "sent" /\ n.cid = r.cid)
  <2>1. t \in Tabs BY Before
  <2>2. tab \in [Tabs -> PageOf] BY Before
  <2>. QED BY <1>0, <2>1, <2>2, SentTurn
<1>. PICK pin : pin = (k.then # "nothing") OBVIOUS
<1>. PICK r : r = [adopted(tab[t], id) EXCEPT !.key = pin] OBVIOUS
<1>1. t \in Tabs BY Before
<1>2. tab \in [Tabs -> PageOf] BY Before
<1>3. tab[t] \in PageOf /\ pin \in BOOLEAN BY <1>1, <1>2
<1>4. r \in PageOf /\ r.cid = id /\ r.items = {}
  <2>. DEFINE none == {}
             a == resetConversationScopedState(tab[t])
             b == [a EXCEPT !.cid = id, !.items = none]
  <2>1. a \in PageOf BY <1>3 DEF resetConversationScopedState, NoSession, PageOf
  <2>. HIDE DEF a
  <2>2. b \in PageOf /\ b.cid = id /\ b.items = {} BY <2>1 DEF PageOf
  <2>3. r = [b EXCEPT !.key = pin] BY DEF adopted, a
  <2>. HIDE DEF b
  <2>. QED BY <1>3, <2>2, <2>3 DEF PageOf
<1>5. r \in PageOf BY <1>4
<1>6. CASE k.then = "autostart"
  <2>. PICK yes : yes = TRUE OBVIOUS
  <2>1. sendMessage(t, m, r, yes, others) BY <1>6 DEF AfterReset
  <2>2. /\ tab'[t].cid = r.cid /\ tab'[t].items = r.items
        /\ \A u \in Tabs \ {t} : tab'[u] = tab[u]
        /\ others \subseteq calls'
        /\ \A n \in calls' : n \in others \/
              (n.id = m /\ n.tab = t /\ n.kind = "send" /\ n.pc = "sent" /\ n.cid = r.cid)
    BY <1>0, <1>5, <2>1
  <2>. QED BY <1>4, <2>2
<1>7. CASE k.then # "autostart"
  <2>1. tab' = [tab EXCEPT ![t] = r] /\ calls' = others BY <1>7 DEF AfterReset
  <2>. QED BY <1>1, <1>2, <1>4, <2>1
<1>. QED BY <1>6, <1>7

(* The page adopts a conversation it was given.                              *)
LEMMA AfterResetGiven ==
  ASSUME ChatInv, ChatInv', GivenInv, UNCHANGED <<storeVars, historyVars, acts>>, NEW k \in calls,
         NEW id \in Nat, NEW others, AfterReset(k, id, others),
         \A o \in others : o \in calls \/ ~LiveReset(o),
         (\A c \in Ids : Given(c) => Given(c)') => \A o \in others : o \in calls \/ GivenCall(o)',
         \A c \in Ids : id = c => Given(c)'
  PROVE  GivenInv'
<1>. PICK t : t = k.tab OBVIOUS
<1>. PICK m : m = k.id OBVIOUS
<1>1. t \in Tabs /\ GivenCall(k) BY Before DEF GivenInv
<1>3. /\ tab'[t].cid = id /\ \A u \in Tabs \ {t} : tab'[u].cid = tab[u].cid
      /\ \A n \in calls' : n \in others \/ (n.id = m /\ n.kind = "send" /\ n.pc = "sent" /\ n.cid = id)
  BY AdoptedPage
<1>4. m \in 0..acts /\ acts' = acts /\ Ids' = Ids BY <1>1 DEF GivenCall, storeVars, Ids
<1>5. ASSUME NEW n, n.id = m /\ n.kind = "send" /\ n.pc = "sent" /\ n.cid = id
      PROVE  GivenCall(n)' /\ ~LiveReset(n)
  <2>1. n.kind \in {"send", "load"} /\ n.cid \in Ids' => Given(n.cid)'
    <3>. SUFFICES ASSUME n.cid \in Ids
                  PROVE  Given(n.cid)'
      BY <1>4
    <3>. PICK c \in Ids : c = n.cid OBVIOUS
    <3>1. Given(c)' BY <1>5
    <3>. QED BY <3>1
  <2>. QED BY <1>4, <1>5, <2>1 DEF GivenCall, At, LiveReset
<1>6. \A j \in calls' : LiveReset(j) => j.id = acts + 1 \/ \E i \in calls : LiveReset(i) /\ i.id = j.id
  BY <1>3, <1>5
<1>7. (\A c \in Ids : Given(c) => Given(c)') =>
         /\ \A j \in calls' : j \in calls \/ GivenCall(j)'
         /\ tab'[t].cid = tab[t].cid \/ \A c \in Ids : tab'[t].cid = c => Given(c)'
  BY <1>3, <1>5
<1>8. UNCHANGED <<storeVars, historyVars>> /\ (acts' = acts \/ acts' = acts + 1) OBVIOUS
<1>. QED BY <1>1, <1>3, <1>6, <1>7, <1>8, PageGiven

(* The one it was given is its own: its reset is over.                       *)
LEMMA ResetAnsweredGiven ==
  ASSUME ChatInv, OwnInv, ChatInv', GivenInv, NEW k \in calls, k.live, ResetAnswered(k),
         UNCHANGED <<storeVars, historyVars, acts>>
  PROVE  GivenInv'
<1>. PICK id : id = k.conv OBVIOUS
<1>. PICK others : others = calls \ {k} OBVIOUS
<1>1. k \in Call /\ GivenCall(k) /\ IdsInv /\ At(k, "reset", "answered") /\ AfterReset(k, id, others)
      /\ takers' = takers
  BY Before DEF GivenInv, OwnInv, ResetAnswered, historyVars
<1>2. id \in Nat BY <1>1 DEF Call
<1>3. \A n \in calls' : n \in others \/ n.kind = "send" BY <1>1, <1>2, AdoptedPage
<1>4. ASSUME NEW j \in calls', LiveReset(j)
      PROVE  j.id # k.id
  <2>1. j \in calls /\ j # k BY <1>3, <1>4 DEF LiveReset
  <2>2. Sender(j) /\ Sender(k) BY <1>1, <1>4 DEF Sender, LiveReset, At
  <2>. QED BY <1>1, <2>1, <2>2 DEF IdsInv
<1>5. Given(id)'
  <2>. PICK p : p = <<id, k.id>> OBVIOUS
  <2>1. p \in takers' /\ p[1] = id /\ p[2] = k.id BY <1>1 DEF GivenCall
  <2>. QED BY <1>4, <2>1 DEF Given, LiveReset
<1>6. /\ \A o \in others : o \in calls \/ ~LiveReset(o)
      /\ \A c \in Ids : id = c => Given(c)'
  BY <1>5
<1>7. (\A c \in Ids : Given(c) => Given(c)') => \A o \in others : o \in calls \/ GivenCall(o)'
  OBVIOUS
<1>. QED BY <1>1, <1>2, <1>6, <1>7, AfterResetGiven

(* A recovered turn is sent to the page's conversation.                      *)
LEMMA ResumeAnsweredGiven ==
  ASSUME ChatInv, ChatInv', GivenInv, NEW k \in calls, ResumeAnswered(k),
         UNCHANGED <<storeVars, historyVars, acts>>
  PROVE  GivenInv'
<1>. PICK t : t = k.tab OBVIOUS
<1>. PICK m : m = k.id OBVIOUS
<1>0. ASSUME NEW r \in PageOf, NEW auto, NEW others, sendMessage(t, m, r, auto, others)
      PROVE  /\ tab'[t].cid = r.cid /\ \A u \in Tabs \ {t} : tab'[u] = tab[u]
             /\ \A n \in calls' : n \in others \/
                   (n.id = m /\ n.kind = "send" /\ n.pc = "sent" /\ n.cid = r.cid)
  <2>1. t \in Tabs BY Before
  <2>2. tab \in [Tabs -> PageOf] BY Before
  <2>. QED BY <1>0, <2>1, <2>2, SentTurn
<1>. PICK hid : hid = {<<"retry", k.item>>} OBVIOUS
<1>. PICK r : r = [tab[t] EXCEPT !.items = @ \ hid] OBVIOUS
<1>1. /\ t \in Tabs /\ tab[t] \in PageOf /\ tab \in [Tabs -> PageOf] /\ k \in Call /\ GivenCall(k)
  BY Before DEF GivenInv
<1>2. r \in PageOf /\ r.cid = tab[t].cid BY <1>1 DEF PageOf
<1>3. CASE k.res = "success" /\ calls' = calls \ {k}
           /\ tab' = [tab EXCEPT ![t] = [r EXCEPT !.items = @ \cup k.items]]
  <2>. PICK q : q = [r EXCEPT !.items = @ \cup k.items] OBVIOUS
  <2>1. q.cid = tab[t].cid BY <1>2 DEF PageOf
  <2>2. tab' = [tab EXCEPT ![t] = q] /\ calls' = calls \ {k} BY <1>3
  <2>. QED BY <1>1, <2>1, <2>2, AnsweredGiven
<1>4. CASE k.res = "not_delivered" /\ sendMessage(t, m, r, FALSE, calls \ {k})
  <2>. PICK no : no = FALSE OBVIOUS
  <2>. PICK others : others = calls \ {k} OBVIOUS
  <2>0. sendMessage(t, m, r, no, others) BY <1>4
  <2>1. /\ tab'[t].cid = r.cid /\ \A u \in Tabs \ {t} : tab'[u] = tab[u]
        /\ \A n \in calls' : n \in others \/
              (n.id = m /\ n.kind = "send" /\ n.pc = "sent" /\ n.cid = r.cid)
    <3>1. r \in PageOf BY <1>2
    <3>. QED BY <1>0, <2>0, <3>1, ZenonT(60)
  <2>2. m \in 0..acts /\ acts' = acts /\ Ids' = Ids BY <1>1 DEF GivenCall, storeVars, Ids
  <2>. PICK c : c = tab[t].cid OBVIOUS
  <2>3. c \in Ids => Given(c) BY <1>1 DEF GivenInv
  <2>4. ASSUME NEW n, n.id = m /\ n.kind = "send" /\ n.pc = "sent" /\ n.cid = c
        PROVE  /\ (\A d \in Ids : Given(d) => Given(d)') => GivenCall(n)'
               /\ ~LiveReset(n)
    BY <2>2, <2>3, <2>4 DEF GivenCall, At, LiveReset
  <2>5. \A n \in calls' : n \in calls \/ (n.id = m /\ n.kind = "send" /\ n.pc = "sent" /\ n.cid = c)
    BY <1>2, <2>1
  <2>6. \A j \in calls' : LiveReset(j) => j.id = acts + 1 \/ \E i \in calls : LiveReset(i) /\ i.id = j.id
    BY <2>4, <2>5
  <2>7. (\A d \in Ids : Given(d) => Given(d)') =>
           /\ \A j \in calls' : j \in calls \/ GivenCall(j)'
           /\ tab'[t].cid = tab[t].cid \/ \A d \in Ids : tab'[t].cid = d => Given(d)'
    BY <1>2, <2>1, <2>4, <2>5
  <2>8. /\ UNCHANGED <<storeVars, historyVars>> /\ (acts' = acts \/ acts' = acts + 1)
        /\ \A u \in Tabs \ {t} : tab'[u].cid = tab[u].cid
    BY <2>1
  <2>. QED BY <1>1, <2>6, <2>7, <2>8, PageGiven
<1>5. CASE k.res = "pending" /\ calls' = calls \ {k} /\ tab' = tab
  <2>. PICK q : q = tab[t] OBVIOUS
  <2>1. tab' = [tab EXCEPT ![t] = q] /\ q.cid = tab[t].cid BY <1>1, <1>5
  <2>. QED BY <1>1, <1>5, <2>1, AnsweredGiven
<1>. QED BY <1>3, <1>4, <1>5 DEF ResumeAnswered

(* The page uses an answer.                                                 *)
LEMMA DeliverGiven ==
  ASSUME ChatInv, OwnInv, ChatInv', GivenInv, NEW k \in calls, Deliver(k)
  PROVE  GivenInv'
<1>1. k.live /\ UNCHANGED <<storeVars, historyVars, acts>> BY DEF Deliver
<1>. QED BY <1>1, SendAnsweredGiven, ResetAnsweredGiven, LoadAnsweredGiven, ResumeAnsweredGiven,
            PollAnsweredGiven DEF Deliver

(* No response arrives: the page keeps its id, or has none after a reset.     *)
LEMMA LostGiven ==
  ASSUME ChatInv, ChatInv', GivenInv, NEW k \in calls, Lost(k)
  PROVE  GivenInv'
<1>. PICK t : t = k.tab OBVIOUS
<1>. PICK o : o = [k EXCEPT !.live = FALSE] OBVIOUS
<1>. DEFINE without == calls \ {k}
            rest == CASE k.pc = "answered" \/ k.kind = "load" -> {without}
                      [] k.pc = "sent" /\ k.kind # "load" -> {without, without \cup {o}}
                      [] OTHER -> {without \cup {o}}
<1>1. /\ k \in Call /\ t \in Tabs /\ tab \in [Tabs -> PageOf] /\ tab[t] \in PageOf /\ GivenCall(k)
      /\ k.conv \in Ids \cup {0} /\ acts \in Nat /\ 0 \notin Ids
  BY Before, ActsCount, RowNumbers DEF GivenInv, CallOK, ChatInv
<1>2. UNCHANGED <<storeVars, historyVars, acts>> /\ Ids' = Ids BY DEF Lost, storeVars, Ids
<1>3. \A cs \in rest : \A n \in cs : n \in calls \/ (n = o /\ k.pc # "answered") OBVIOUS
<1>4. k.pc # "answered" =>
         /\ (\A c \in Ids : Given(c) => Given(c)') => GivenCall(o)'
         /\ ~LiveReset(o)
  <2>. SUFFICES ASSUME k.pc # "answered"
                PROVE  /\ (\A c \in Ids : Given(c) => Given(c)') => GivenCall(o)'
                       /\ ~LiveReset(o)
    OBVIOUS
  <2>1. ~At(k, "reset", "answered") BY DEF At
  <2>2. ~LiveReset(o) BY <1>1 DEF LiveReset, Call
  <2>3. ASSUME \A c \in Ids : Given(c) => Given(c)'
        PROVE  GivenCall(o)'
    BY <1>1, <1>2, <2>1, <2>3, OrphanGiven
  <2>. QED BY <2>2, <2>3
<1>5. ASSUME NEW q, tab' = [tab EXCEPT ![t] = q], q.cid = tab[t].cid, calls' \in rest
      PROVE  GivenInv'
  <2>1. \A n \in calls' : n \in calls \/ (n = o /\ k.pc # "answered") BY <1>3, <1>5
  <2>2. \A u \in Tabs : tab'[u].cid = tab[u].cid BY <1>1, <1>5
  <2>3. \A j \in calls' : LiveReset(j) => j.id = acts + 1 \/ \E i \in calls : LiveReset(i) /\ i.id = j.id
    BY <1>4, <2>1
  <2>4. (\A c \in Ids : Given(c) => Given(c)') =>
           /\ \A j \in calls' : j \in calls \/ GivenCall(j)'
           /\ tab'[t].cid = tab[t].cid \/ \A c \in Ids : tab'[t].cid = c => Given(c)'
    BY <1>1, <1>4, <2>1, <2>2
  <2>5. /\ UNCHANGED <<storeVars, historyVars>> /\ (acts' = acts \/ acts' = acts + 1)
        /\ \A u \in Tabs \ {t} : tab'[u].cid = tab[u].cid
    BY <1>2, <2>2
  <2>. QED BY <1>1, <2>3, <2>4, <2>5, PageGiven
<1>6. CASE k.kind = "send"
  <2>. PICK q : q = releaseBusy(tab[t], "network") OBVIOUS
  <2>1. tab' = [tab EXCEPT ![t] = q] /\ calls' \in rest BY <1>6 DEF Lost
  <2>2. q.cid = tab[t].cid BY <1>1 DEF releaseBusy, PageOf
  <2>. QED BY <1>5, <2>1, <2>2
<1>7. CASE k.kind = "reset"
  <2>. PICK others \in rest : AfterReset(k, 0, others) BY <1>7 DEF Lost
  <2>. PICK id \in Nat : id = 0 OBVIOUS
  <2>1. \A n \in others : n \in calls \/ (n = o /\ k.pc # "answered") BY <1>3
  <2>2. AfterReset(k, id, others) OBVIOUS
  <2>3. \A n \in others : n \in calls \/ ~LiveReset(n) BY <1>4, <2>1
  <2>4. (\A c \in Ids : Given(c) => Given(c)') => \A n \in others : n \in calls \/ GivenCall(n)'
    BY <1>4, <2>1
  <2>5. \A c \in Ids : id = c => Given(c)' BY <1>1
  <2>. QED BY <1>2, <2>2, <2>3, <2>4, <2>5, AfterResetGiven
<1>8. CASE k.kind \in {"load", "resume", "poll"}
  <2>. PICK q : q = tab[t] OBVIOUS
  <2>1. tab' = tab /\ calls' \in rest BY <1>8 DEF Lost
  <2>2. tab' = [tab EXCEPT ![t] = q] BY <1>1, <2>1
  <2>. QED BY <1>5, <2>1, <2>2
<1>9. k.kind \in {"send", "reset", "load", "resume", "poll"} BY <1>1 DEF Call
<1>. QED BY <1>6, <1>7, <1>8, <1>9

(* Nobody is given anything, and no message is stored.                       *)
LEMMA SameGiven ==
  ASSUME GivenInv, UNCHANGED <<calls, takers, tab, acts>>, Ids' = Ids,
         \A c \in Ids : conv'[c].msgs = conv[c].msgs,
         \A k \in calls : k.conv \in Ids \cup {0}
  PROVE  GivenInv'
<1>1. \A c \in Ids : (Empty(c)' <=> Empty(c)) BY DEF Empty
<1>2. \A c \in Ids : (Given(c) => Given(c)') BY <1>1 DEF Given, LiveReset
<1>3. \A c \in Ids : \A n : (Kept(c, n) => Kept(c, n)') BY <1>1 DEF Kept
<1>4. ASSUME NEW k \in calls
      PROVE  GivenCall(k)'
  <2>1. GivenCall(k) /\ k.conv \in Ids \cup {0} BY DEF GivenInv
  <2>2. k.kind \in {"send", "load"} /\ k.cid \in Ids' => Given(k.cid)' BY <1>2, <2>1 DEF GivenCall
  <2>3. At(k, "send", "accept") /\ k.conv # 0 => Given(k.conv)' BY <1>2, <2>1 DEF GivenCall
  <2>4. LiveReset(k) /\ k.pc # "sent" /\ k.conv # 0 => Kept(k.conv, k.id)' BY <1>3, <2>1 DEF GivenCall
  <2>. QED BY <2>1, <2>2, <2>3, <2>4 DEF GivenCall, At, LiveReset
<1>5. \A t \in Tabs : \A c \in Ids' : tab'[t].cid = c => Given(c)' BY <1>2 DEF GivenInv
<1>. QED BY <1>4, <1>5 DEF GivenInv

(* An interview is settled.                                                *)
LEMMA SettlesGiven ==
  ASSUME ChatInv, GivenInv, Settles
  PROVE  GivenInv'
<1>1. RowsInv BY DEF ChatInv
<1>2. \A c \in Ids : conv[c] \in Row BY <1>1, RowFacts
<1>3. PICK c \in Ids, s \in {"completed", "failed"} : conv' = [conv EXCEPT ![c].sessions[Newest(c)[2]] = s]
  BY DEF Settles, SessionSettles, Ids
<1>4. Ids' = Ids BY <1>3 DEF Ids
<1>5. \A d \in Ids : conv'[d].msgs = conv[d].msgs BY <1>2, <1>3 DEF Ids, Row
<1>6. UNCHANGED <<calls, takers, tab, acts>> BY DEF Settles, SessionSettles, historyVars
<1>7. \A k \in calls : k.conv \in Ids \cup {0} BY Before DEF CallOK
<1>. QED BY <1>4, <1>5, <1>6, <1>7, SameGiven

(* The tabs open: an empty conversation they had stored had been given to them. *)
LEMMA InitGiven == Init => GivenInv
<1>. SUFFICES ASSUME Init
              PROVE  GivenInv
  OBVIOUS
<1>1. acts = ActsBefore /\ acts \in Nat /\ 0 \in 0..acts
  <2>1. MaxActs \in Nat /\ ActsBefore \in 0..MaxActs BY StoreConstants, ChatConstants
  <2>. QED BY <2>1 DEF Init
<1>2. PICK ids \in Stored :
        /\ tab = [t \in Tabs |-> Page(ids[t])]
        /\ calls = {[Sent(t, 0, "load") EXCEPT !.cid = ids[t]] : t \in {u \in Tabs : ids[u] # 0}}
        /\ takers = {<<c, 0>> : c \in {d \in DOMAIN conv : Empty(d) /\ \E t \in Tabs : ids[t] = d}}
  BY DEF Init
<1>3. \A k \in calls : /\ k.kind = "load" /\ k.pc = "sent" /\ k.id = 0
                       /\ \E t \in Tabs : k.cid = ids[t]
  BY <1>2 DEF Sent
<1>4. \A k \in calls : ~LiveReset(k) BY <1>3 DEF LiveReset
<1>5. ASSUME NEW t \in Tabs, ids[t] \in Ids
      PROVE  Given(ids[t])
  <2>1. CASE ~Empty(ids[t]) BY <2>1 DEF Given
  <2>2. CASE Empty(ids[t])
    <3>. PICK p : p = <<ids[t], 0>> OBVIOUS
    <3>1. p \in takers /\ p[1] = ids[t] BY <1>2, <1>5, <2>2 DEF Ids
    <3>. QED BY <1>4, <3>1 DEF Given
  <2>. QED BY <2>1, <2>2
<1>6. \A p \in takers : p[2] \in 0..acts BY <1>1, <1>2
<1>7. \A t \in Tabs : \A c \in Ids : tab[t].cid = c => Given(c) BY <1>2, <1>5 DEF Page
<1>8. \A k \in calls : GivenCall(k) BY <1>1, <1>3, <1>4, <1>5 DEF GivenCall, At, LiveReset
<1>. QED BY <1>6, <1>7, <1>8 DEF GivenInv

(* Every step, and a step that changes nothing.                            *)
LEMMA NextGiven == ChatInv /\ OwnInv /\ GivenInv /\ [Next]_vars => GivenInv'
<1>. SUFFICES ASSUME ChatInv, OwnInv, GivenInv, [Next]_vars
              PROVE  GivenInv'
  OBVIOUS
<1>1. ChatInv' /\ OwnInv' BY NextInv, NextOwn
<1>2. ASSUME NEW t \in Tabs, User(t)
      PROVE  GivenInv'
  <2>1. CASE Reload(t) BY <1>1, <2>1, ReloadGiven
  <2>2. CASE ~Reload(t)
    <3>1. \/ handleSubmit(t) \/ handleSelectConversation(t)
          \/ \E then : startNewConversation(t, then)
          \/ \E n \in 1..MaxActs : handleRetry(t, n) \/ handleResume(t, n)
      BY <1>2, <2>2 DEF User, handleNewChat, handleSelectAgent, handleActivateCapability
    <3>. QED BY <1>1, <3>1, UserGiven
  <2>. QED BY <2>1, <2>2
<1>3. CASE \E t \in Tabs : PollStep(t) BY <1>1, <1>3, PollTickGiven, DeliverGiven DEF PollStep
<1>4. CASE Progress BY <1>1, <1>4, ServeStepGiven, DeliverGiven DEF Progress
<1>5. CASE Settles BY <1>5, SettlesGiven
<1>6. CASE \E k \in calls : Lost(k) BY <1>1, <1>6, LostGiven
<1>7. CASE UNCHANGED vars
  <2>1. UNCHANGED <<calls, takers, tab, acts>> /\ conv' = conv /\ Ids' = Ids
    BY <1>7 DEF vars, storeVars, historyVars, Ids
  <2>2. \A k \in calls : k.conv \in Ids \cup {0} BY Before DEF CallOK
  <2>. QED BY <2>1, <2>2, SameGiven
<1>. QED BY <1>2, <1>3, <1>4, <1>5, <1>6, <1>7 DEF Next, Done

(* find_empty_for_user, reset and resolve: the conversation that New chat hands to a page is *)
(* still empty when the page adopts it, unless another reset or a message without an id was   *)
(* given the same one: nobody else can have written to it meanwhile.          *)
THEOREM NewChatEmpty == Spec => NewChatIsEmpty
<1>1. ChatInv /\ OwnInv /\ GivenInv /\ [Next]_vars => (ChatInv /\ OwnInv /\ GivenInv)'
  BY NextInv, NextOwn, NextGiven
<1>2. Init => ChatInv /\ OwnInv /\ GivenInv BY InitInv, InitOwn, InitGiven
<1>3. GivenInv => \A k \in calls :
        At(k, "reset", "answered") /\ {p \in takers : p[1] = k.conv} = {<<k.conv, k.id>>}
        => conv[k.conv].msgs = <<>>
  <2>. SUFFICES ASSUME GivenInv, NEW k \in calls, At(k, "reset", "answered"),
                       {p \in takers : p[1] = k.conv} = {<<k.conv, k.id>>}
                PROVE  conv[k.conv].msgs = <<>>
    OBVIOUS
  <2>1. k.live /\ k.conv # 0 /\ k.kind = "reset" /\ k.pc = "answered" BY DEF GivenInv, GivenCall, At
  <2>2. Kept(k.conv, k.id) BY <2>1 DEF GivenInv, GivenCall, LiveReset
  <2>3. \A p \in takers : p[1] = k.conv => p[2] = k.id
    <3>. SUFFICES ASSUME NEW p \in takers, p[1] = k.conv
                  PROVE  p[2] = k.id
      OBVIOUS
    <3>1. p = <<k.conv, k.id>> OBVIOUS
    <3>. QED BY <3>1
  <2>. QED BY <2>2, <2>3 DEF Kept, Empty
<1>4. ChatInv /\ OwnInv /\ GivenInv /\ [Next]_vars =>
        [\A k \in calls :
           /\ At(k, "reset", "answered") /\ k \notin calls' /\ tab'[k.tab].cid = k.conv
           /\ {p \in takers : p[1] = k.conv} = {<<k.conv, k.id>>}
           => conv[k.conv].msgs = <<>>]_vars
  BY <1>3
<1>. QED BY <1>1, <1>2, <1>4, PTL DEF Spec, NewChatIsEmpty
-----------------------------------------------------------------------------
(* The interview a page remembers.                                         *)

\* A question of interview n of conversation c was stored for act a.
Question(c, a, n) ==
  c \in Ids /\ \E i \in DOMAIN conv[c].msgs :
                 n # 0 /\ conv[c].msgs[i].act = a /\ conv[c].msgs[i].sn = n
OpenIn(c, n) ==
  c \in Ids /\ n = Len(conv[c].sessions) /\ n # 0 /\ conv[c].sessions[n] = "open"
Asking(i) == i[1] = "question"
Replied(k) == At(k, "send", "answered") /\ k.res = "success" /\ k.iv
Turned(row, act) == From(row, {"user", "auto"}) # {} /\ LastOf(row) = act

\* A turn in progress holds its conversation, which is about its act; an answer's questions were
\* stored.
Learned(k) ==
  /\ At(k, "send", "handling") => conv[k.conv].lock = k.id /\ Turned(conv[k.conv], k.id)
  /\ Replied(k) => Question(k.conv, k.id, k.sess[2])
  /\ At(k, "load", "answered") /\ k.res # "missing" =>
       /\ \A i \in k.items : Asking(i) => \E n \in DOMAIN k.sessions : Question(k.cid, i[2], n)
       /\ \A n \in DOMAIN k.sessions :
            k.sessions[n] = "completed" => conv[k.cid].sessions[n] \notin Open
  /\ At(k, "resume", "answered") /\ k.res = "success" =>
       \A i \in k.items : Asking(i) /\ Question(k.sess[1], i[2], k.sess[2])

\* A page shows the questions of stored turns: of an interview the answer it awaits does not precede,
\* and, if that is open, of the one it remembers.
Recalls(t, i) ==
  /\ \E n : Question(tab[t].cid, i[2], n)
  /\ \A n : Question(tab[t].cid, i[2], n) =>
       /\ \A k \in Mine(t) : Replied(k) => n <= k.sess[2]
       /\ OpenIn(tab[t].cid, n) /\ ~Switching(t) => tab[t].sess = <<tab[t].cid, n>>
Remembers(t) ==
  /\ \A i \in tab[t].items : Asking(i) => Recalls(t, i)
  /\ \A k \in Mine(t) : k.kind = "resume" => k.sess = tab[t].sess
RememberedInv ==
  /\ \A c \in Ids : Interviewed(conv[c])
  /\ \A k \in calls : Learned(k)
  /\ \A t \in Tabs : odd[t] = {} => Remembers(t)

\* A row as a step leaves it: messages and interviews stay, and an interview that is over is over.
RowGrows(row, new) ==
  /\ Interviewed(new) /\ Len(row.sessions) <= Len(new.sessions)
  /\ \A i \in DOMAIN row.msgs : i \in DOMAIN new.msgs /\ new.msgs[i] = row.msgs[i]
  /\ \A n \in DOMAIN row.sessions :
       /\ new.sessions[n] = "open" => row.sessions[n] = "open"
       /\ row.sessions[n] \notin Open => new.sessions[n] \notin Open

(* Questions stay, no act gets one of a second interview, and none is of an interview to come. *)
LEMMA QuestionsKept ==
  ASSUME RowsInv, RowsInv', RememberedInv, Ids \subseteq Ids',
         \A c \in Ids : RowGrows(conv[c], conv'[c]),
         \A c \in Ids' \ Ids : Interviewed(conv'[c])
  PROVE  /\ \A c, a, n : Question(c, a, n) => Question(c, a, n)'
         /\ \A c, a, m, n : Question(c, a, m) /\ Question(c, a, n)' => m = n
         /\ \A c, a, n : Question(c, a, n) /\ OpenIn(c, n)' => OpenIn(c, n)
         /\ \A c, a, n : Question(c, a, n)' => n \in Nat /\ n <= Len(conv'[c].sessions)
         /\ \A c \in Ids' : Interviewed(conv'[c])
<1>1. \A c \in Ids' : Interviewed(conv'[c]) BY DEF RowGrows
<1>2. \A c \in Ids : /\ Interviewed(conv[c]) /\ Len(conv[c].sessions) \in Nat
                     /\ DOMAIN conv[c].sessions = 1..Len(conv[c].sessions)
  BY RowFacts DEF RememberedInv
<1>3. \A c \in Ids' : /\ Len(conv'[c].sessions) \in Nat
                      /\ DOMAIN conv'[c].sessions = 1..Len(conv'[c].sessions)
  <2>. SUFFICES ASSUME NEW c \in Ids'
                PROVE  /\ Len(conv'[c].sessions) \in Nat
                       /\ DOMAIN conv'[c].sessions = 1..Len(conv'[c].sessions)
    OBVIOUS
  <2>1. conv' \in Seq(Row) /\ c \in DOMAIN conv' BY DEF RowsInv, Ids
  <2>2. conv'[c] \in Row BY <2>1
  <2>3. conv'[c].sessions \in Seq(SessionState) BY <2>2 DEF Row
  <2>. QED BY <2>3
<1>4. ASSUME NEW c, NEW a, NEW n, Question(c, a, n)
      PROVE  Question(c, a, n)' /\ n \in DOMAIN conv[c].sessions
  <2>. PICK i \in DOMAIN conv[c].msgs : n # 0 /\ conv[c].msgs[i].act = a /\ conv[c].msgs[i].sn = n
    BY <1>4 DEF Question
  <2>1. c \in Ids /\ c \in Ids' BY <1>4 DEF Question
  <2>2. i \in DOMAIN conv'[c].msgs /\ conv'[c].msgs[i] = conv[c].msgs[i] BY <2>1 DEF RowGrows
  <2>3. n \in DOMAIN conv[c].sessions BY <1>2, <2>1 DEF Interviewed
  <2>. QED BY <2>1, <2>2, <2>3 DEF Question
<1>5. ASSUME NEW c, NEW a, NEW m, NEW n, Question(c, a, m)', Question(c, a, n)'
      PROVE  m = n /\ n \in DOMAIN conv'[c].sessions
  <2>1. Interviewed(conv'[c]) BY <1>1, <1>5 DEF Question
  <2>. QED BY <1>5, <2>1 DEF Question, Interviewed
<1>6. ASSUME NEW c, NEW a, NEW n, Question(c, a, n), OpenIn(c, n)'
      PROVE  OpenIn(c, n)
  <2>1. c \in Ids /\ n \in DOMAIN conv[c].sessions BY <1>4, <1>6 DEF Question
  <2>2. n = Len(conv'[c].sessions) /\ conv'[c].sessions[n] = "open" /\ n # 0 BY <1>6 DEF OpenIn
  <2>3. conv[c].sessions[n] = "open" /\ Len(conv[c].sessions) <= n BY <2>1, <2>2 DEF RowGrows
  <2>4. n = Len(conv[c].sessions) BY <1>2, <2>1, <2>3
  <2>. QED BY <2>1, <2>2, <2>3, <2>4 DEF OpenIn
<1>7. \A c, a, n : Question(c, a, n)' => n \in Nat /\ n <= Len(conv'[c].sessions)
  <2>. SUFFICES ASSUME NEW c, NEW a, NEW n, Question(c, a, n)'
                PROVE  n \in Nat /\ n <= Len(conv'[c].sessions)
    OBVIOUS
  <2>1. n \in DOMAIN conv'[c].sessions /\ c \in Ids' BY <1>5 DEF Question
  <2>. QED BY <1>3, <2>1
<1>. QED BY <1>1, <1>4, <1>5, <1>6, <1>7

(* What a request learned stays true.                                      *)
LEMMA LearnedKept ==
  ASSUME ChatInv, OwnInv, ChatInv', RememberedInv, Ids \subseteq Ids',
         \A c \in Ids : RowGrows(conv[c], conv'[c]),
         \A c \in Ids' \ Ids : Interviewed(conv'[c]),
         NEW j \in calls,
         At(j, "send", "handling") => /\ conv'[j.conv].lock = conv[j.conv].lock
                                      /\ Turned(conv[j.conv], j.id) => Turned(conv'[j.conv], j.id)
  PROVE  Learned(j)'
<1>1. Learned(j) /\ CallOK(j) /\ RowsInv /\ RowsInv' /\ j \in Call
  BY Before DEF RememberedInv, ChatInv
<1>2. \A c, a, n : Question(c, a, n) => Question(c, a, n)' BY <1>1, QuestionsKept
<1>3. At(j, "load", "answered") /\ j.res # "missing" =>
        \A n \in DOMAIN j.sessions :
           j.sessions[n] = "completed" => conv'[j.cid].sessions[n] \notin Open
  <2>. SUFFICES ASSUME At(j, "load", "answered"), j.res # "missing",
                       NEW n \in DOMAIN j.sessions, j.sessions[n] = "completed"
                PROVE  conv'[j.cid].sessions[n] \notin Open
    OBVIOUS
  <2>1. j.cid \in Ids /\ Len(j.sessions) <= Len(conv[j.cid].sessions) BY <1>1 DEF CallOK
  <2>2. j.sessions \in Seq(SessionState) BY <1>1 DEF Call
  <2>3. /\ Len(conv[j.cid].sessions) \in Nat
        /\ DOMAIN conv[j.cid].sessions = 1..Len(conv[j.cid].sessions)
    BY <1>1, <2>1, RowFacts
  <2>4. n \in DOMAIN conv[j.cid].sessions BY <2>1, <2>2, <2>3
  <2>5. conv[j.cid].sessions[n] \notin Open BY <1>1 DEF Learned
  <2>. QED BY <2>1, <2>4, <2>5 DEF RowGrows
<1>4. At(j, "send", "handling") => conv'[j.conv].lock = j.id /\ Turned(conv'[j.conv], j.id)
  BY <1>1 DEF Learned
<1>5. Replied(j) => Question(j.conv, j.id, j.sess[2])' BY <1>1, <1>2 DEF Learned
<1>6. At(j, "load", "answered") /\ j.res # "missing" =>
        \A i \in j.items : Asking(i) => \E n \in DOMAIN j.sessions : Question(j.cid, i[2], n)'
  BY <1>1, <1>2 DEF Learned
<1>7. At(j, "resume", "answered") /\ j.res = "success" =>
        \A i \in j.items : Asking(i) /\ Question(j.sess[1], i[2], j.sess[2])'
  BY <1>1, <1>2 DEF Learned
<1>. QED BY <1>3, <1>4, <1>5, <1>6, <1>7 DEF Learned, At, Replied, Asking

(* A server step on what the requests learned and the pages recall.          *)
LEMMA ServeTold ==
  ASSUME ChatInv, OwnInv, ChatInv', OwnInv', RememberedInv, NEW k \in calls, NEW n, Moves(k, n),
         UNCHANGED <<tab, odd>>, Ids \subseteq Ids', ~Replied(k),
         \A c \in Ids : RowGrows(conv[c], conv'[c]),
         \A c \in Ids' \ Ids : Interviewed(conv'[c]),
         \A j \in calls : j # k /\ At(j, "send", "handling") =>
            /\ conv'[j.conv].lock = conv[j.conv].lock
            /\ Turned(conv[j.conv], j.id) => Turned(conv'[j.conv], j.id),
         n \in calls' => Learned(n)',
         Replied(n) => n.sess[2] = Len(conv'[n.conv].sessions)
  PROVE  RememberedInv'
<1>1. /\ RowsInv /\ RowsInv' BY DEF ChatInv
<1>2. /\ \A c, a, m : Question(c, a, m) => Question(c, a, m)'
      /\ \A c, a, l, m : Question(c, a, l) /\ Question(c, a, m)' => l = m
      /\ \A c, a, m : Question(c, a, m) /\ OpenIn(c, m)' => OpenIn(c, m)
      /\ \A c, a, m : Question(c, a, m)' => m \in Nat /\ m <= Len(conv'[c].sessions)
      /\ \A c \in Ids' : Interviewed(conv'[c])
  BY <1>1, QuestionsKept
<1>3. \A j \in calls' : (j \in calls /\ j # k) \/ j = n BY DEF Moves
<1>4. ASSUME NEW j \in calls'
      PROVE  Learned(j)'
  <2>1. CASE j = n BY <1>4, <2>1
  <2>2. CASE j \in calls /\ j # k BY <2>2, LearnedKept
  <2>. QED BY <1>3, <2>1, <2>2
<1>5. ASSUME NEW t \in Tabs, odd'[t] = {}
      PROVE  Remembers(t)'
  <2>. PICK c : c = tab[t].cid OBVIOUS
  <2>1. /\ Remembers(t) /\ OwnPage(t)' /\ tab'[t] = tab[t]
    BY <1>5 DEF RememberedInv, OwnInv, Clean
  <2>2. \A j \in Mine(t)' : (j \in Mine(t) /\ j # k) \/ (j = n /\ k \in Mine(t))
    BY <1>3 DEF Mine, Moves
  <2>3. \A j \in Mine(t)' : j.kind = "resume" => j.sess = tab'[t].sess
    BY <2>1, <2>2 DEF Remembers, Moves
  <2>4. Switching(t) => Switching(t)'
    <3>. SUFFICES ASSUME NEW j \in Mine(t), j.kind \in {"load", "reset"}
                  PROVE  \E i \in Mine(t)' : i.kind \in {"load", "reset"}
      BY DEF Switching
    <3>1. CASE j = k
      <4>1. n \in Mine(t)' BY <3>1 DEF Mine, Moves
      <4>. QED BY <3>1, <4>1 DEF Moves
    <3>2. CASE j # k
      <4>1. j \in Mine(t)' BY <3>2 DEF Mine, Moves
      <4>. QED BY <4>1
    <3>. QED BY <3>1, <3>2
  <2>5. ASSUME NEW i \in tab[t].items, Asking(i)
        PROVE  Recalls(t, i)'
    <3>1. Recalls(t, i) BY <2>1, <2>5 DEF Remembers
    <3>2. \A m : Question(c, i[2], m)' <=> Question(c, i[2], m) BY <1>2, <3>1 DEF Recalls
    <3>3. ASSUME NEW m, Question(c, i[2], m), NEW j \in Mine(t)', Replied(j)
          PROVE  m <= j.sess[2]
      <4>1. CASE j \in Mine(t) BY <3>1, <3>3, <4>1 DEF Recalls
      <4>2. CASE j = n /\ j # k
        <5>1. n \in calls' /\ n.kind = "send" /\ n.pc = "answered" /\ n.res = "success"
          BY <3>3, <4>2 DEF Mine, Replied, At
        <5>2. Knows(n)' BY <5>1 DEF OwnInv, KnowsInv
        <5>3. n.cid = c BY <2>1, <3>3, <4>2, <5>1 DEF OwnPage, OwnCall
        <5>4. where'[n.id] = n.conv /\ n.conv # 0 BY <5>1, <5>2 DEF Knows, At
        <5>5. c \in Ids' BY <3>3 DEF Question
        <5>6. n.conv = c BY <5>1, <5>2, <5>3, <5>4, <5>5 DEF Knows
        <5>. QED BY <1>2, <3>2, <3>3, <4>2, <5>6
      <4>. QED BY <2>2, <4>1, <4>2
    <3>4. ASSUME NEW m, Question(c, i[2], m), OpenIn(c, m)', ~Switching(t)'
          PROVE  tab[t].sess = <<c, m>>
      <4>1. OpenIn(c, m) BY <1>2, <3>4
      <4>. QED BY <2>4, <3>1, <3>4, <4>1 DEF Recalls
    <3>5. \A j : Replied(j)' <=> Replied(j) BY DEF Replied, At
    <3>. QED BY <2>1, <3>1, <3>2, <3>3, <3>4, <3>5 DEF Recalls
  <2>. QED BY <2>1, <2>3, <2>5 DEF Remembers, Asking
<1>. QED BY <1>2, <1>4, <1>5 DEF RememberedInv

(* A row whose messages stay; its newest interview may end.                *)
LEMMA RowEnds ==
  ASSUME NEW row, Interviewed(row), DOMAIN row.sessions = 1..Len(row.sessions),
         Len(row.sessions) \in Nat, NEW new, new.msgs = row.msgs,
         Len(new.sessions) = Len(row.sessions), DOMAIN new.sessions = DOMAIN row.sessions,
         \A n \in DOMAIN row.sessions :
            /\ n # Len(row.sessions) => new.sessions[n] = row.sessions[n]
            /\ new.sessions[n] = "open" => row.sessions[n] = "open"
            /\ row.sessions[n] \notin Open => new.sessions[n] \notin Open
  PROVE  RowGrows(row, new) /\ \A act : Turned(row, act) => Turned(new, act)
<1>1. \A roles : From(new, roles) = From(row, roles) BY DEF From
<1>2. LastOf(new) = LastOf(row) BY <1>1 DEF LastOf
<1>3. Interviewed(new) BY <1>2 DEF Interviewed
<1>. QED BY <1>1, <1>2, <1>3 DEF RowGrows, Turned

(* A reply without a question, or a question of the newest interview about the last act. *)
LEMMA RowSaid ==
  ASSUME NEW row \in Row, Interviewed(row), From(row, {"user", "auto"}) # {},
         NEW m \in Message, m.role = "agent",
         m.sn # 0 => /\ m.sn \in DOMAIN row.sessions /\ m.sn = Len(row.sessions)
                     /\ m.act = LastOf(row),
         NEW new, new.msgs = Append(row.msgs, m),
         Len(new.sessions) = Len(row.sessions), DOMAIN new.sessions = DOMAIN row.sessions,
         \A n \in DOMAIN row.sessions :
            /\ n # Len(row.sessions) => new.sessions[n] = row.sessions[n]
            /\ new.sessions[n] = "open" => row.sessions[n] = "open"
            /\ row.sessions[n] \notin Open => new.sessions[n] \notin Open
  PROVE  RowGrows(row, new) /\ \A act : Turned(row, act) => Turned(new, act)
<1>. DEFINE n == Len(row.msgs)
<1>1. row.msgs \in Seq(Message) /\ row.sessions \in Seq(SessionState) BY DEF Row
<1>2. /\ n \in Nat /\ DOMAIN row.msgs = 1..n /\ DOMAIN new.msgs = 1..(n + 1)
      /\ \A i \in 1..n : new.msgs[i] = row.msgs[i]
      /\ new.msgs[n + 1] = m
  BY <1>1, Appended
<1>. HIDE DEF n
<1>. PICK asked : asked = {"user", "auto"} OBVIOUS
<1>3. From(new, asked) = From(row, asked) /\ From(row, asked) \in SUBSET (1..n)
  <2>1. m.role \notin asked OBVIOUS
  <2>2. /\ From(row, asked) \in SUBSET (1..Len(row.msgs))
        /\ From(new, asked) = From(row, asked) \cup (IF m.role \in asked THEN {Len(row.msgs) + 1} ELSE {})
    BY FromAppended, SMTT(60)
  <2>. QED BY <2>1, <2>2 DEF n
<1>4. LastOf(new) = LastOf(row)
  <2>. PICK T : T = From(row, asked) OBVIOUS
  <2>1. T \in SUBSET (0..n) /\ T # {} /\ T \in SUBSET (1..n) BY <1>2, <1>3
  <2>2. Max(T) \in T BY <1>2, <2>1, MaxOf
  <2>3. new.msgs[Max(T)] = row.msgs[Max(T)] BY <1>2, <2>1, <2>2
  <2>. QED BY <1>3, <2>3 DEF LastOf
<1>5. ASSUME NEW i \in DOMAIN new.msgs, new.msgs[i].sn # 0
      PROVE  /\ new.msgs[i].role = "agent" /\ new.msgs[i].sn \in DOMAIN new.sessions
             /\ new.msgs[i].act = LastOf(new) => new.msgs[i].sn = Len(new.sessions)
  <2>1. CASE i \in 1..n BY <1>2, <1>4, <1>5, <2>1 DEF Interviewed
  <2>2. CASE i = n + 1 BY <1>2, <1>4, <1>5, <2>2
  <2>. QED BY <1>2, <2>1, <2>2
<1>6. ASSUME NEW i \in DOMAIN new.msgs, NEW j \in DOMAIN new.msgs, new.msgs[i].sn # 0,
             new.msgs[j].sn # 0, new.msgs[j].act = new.msgs[i].act
      PROVE  new.msgs[j].sn = new.msgs[i].sn
  <2>1. CASE i \in 1..n /\ j \in 1..n
    <3>1. /\ i \in DOMAIN row.msgs /\ row.msgs[i].sn # 0 /\ new.msgs[i] = row.msgs[i]
          /\ j \in DOMAIN row.msgs /\ row.msgs[j].sn # 0 /\ new.msgs[j] = row.msgs[j]
      BY <1>2, <1>6, <2>1
    <3>2. row.msgs[j].sn = row.msgs[i].sn BY <1>6, <3>1 DEF Interviewed
    <3>. QED BY <3>1, <3>2
  <2>2. CASE i = n + 1 \/ j = n + 1
    <3>1. new.msgs[i].act = LastOf(new) BY <1>2, <1>4, <1>6, <2>2
    <3>. QED BY <1>5, <1>6, <3>1
  <2>. QED BY <1>2, <2>1, <2>2
<1>7. \A h \in DOMAIN new.sessions : new.sessions[h] \in Open => h = Len(new.sessions)
  BY DEF Interviewed
<1>8. Interviewed(new) BY <1>5, <1>6, <1>7 DEF Interviewed
<1>9. Len(row.sessions) <= Len(new.sessions) BY <1>1
<1>10. \A i \in DOMAIN row.msgs : i \in DOMAIN new.msgs /\ new.msgs[i] = row.msgs[i] BY <1>2
<1>11. RowGrows(row, new) BY <1>8, <1>9, <1>10 DEF RowGrows
<1>. QED BY <1>3, <1>4, <1>11 DEF Turned

(* A turn begins with a message of its own, and may begin an interview.      *)
LEMMA RowTurned ==
  ASSUME NEW row \in Row, Interviewed(row), NEW m \in Message, m.role \in {"user", "auto"}, m.sn = 0,
         \A i \in DOMAIN row.msgs : row.msgs[i].act # m.act,
         NEW new, new.msgs = Append(row.msgs, m),
         \/ new.sessions = row.sessions
         \/ new.sessions = Append(row.sessions, "open") /\ ~IsOpen(row)
  PROVE  RowGrows(row, new) /\ Turned(new, m.act)
<1>. DEFINE n == Len(row.msgs)
            l == Len(row.sessions)
<1>1. row.msgs \in Seq(Message) /\ row.sessions \in Seq(SessionState) BY DEF Row
<1>2. /\ n \in Nat /\ DOMAIN row.msgs = 1..n /\ DOMAIN new.msgs = 1..(n + 1)
      /\ \A i \in 1..n : new.msgs[i] = row.msgs[i]
      /\ new.msgs[n + 1] = m
  BY <1>1, Appended
<1>. HIDE DEF n
<1>. PICK asked : asked = {"user", "auto"} OBVIOUS
<1>3. From(new, asked) = From(row, asked) \cup {n + 1} /\ From(row, asked) \in SUBSET (1..n)
  <2>1. m.role \in asked OBVIOUS
  <2>2. /\ From(row, asked) \in SUBSET (1..Len(row.msgs))
        /\ From(new, asked) = From(row, asked) \cup (IF m.role \in asked THEN {Len(row.msgs) + 1} ELSE {})
    BY FromAppended
  <2>. QED BY <2>1, <2>2 DEF n
<1>4. LastOf(new) = m.act /\ From(new, asked) # {}
  <2>. PICK T : T = From(new, asked) OBVIOUS
  <2>. PICK h \in Nat : h = n + 1 BY <1>2
  <2>1. T \in SUBSET (0..h) /\ T # {} /\ h \in T BY <1>2, <1>3
  <2>2. Max(T) \in T /\ Max(T) >= h BY <2>1, MaxOf
  <2>3. Max(T) = h BY <2>1, <2>2
  <2>. QED BY <1>2, <2>1, <2>3 DEF LastOf
<1>5. /\ l \in Nat /\ DOMAIN row.sessions = 1..l /\ l <= Len(new.sessions)
      /\ \A h \in 1..l : h \in DOMAIN new.sessions /\ new.sessions[h] = row.sessions[h]
      /\ \A h \in DOMAIN new.sessions : new.sessions[h] \in Open => h = Len(new.sessions)
  <2>1. CASE new.sessions = row.sessions BY <1>1, <2>1 DEF Interviewed
  <2>2. CASE new.sessions = Append(row.sessions, "open") /\ ~IsOpen(row)
    <3>1. "open" \in SessionState BY DEF SessionState
    <3>2. /\ l \in Nat /\ DOMAIN row.sessions = 1..l /\ Len(new.sessions) = l + 1
          /\ DOMAIN new.sessions = 1..(l + 1)
          /\ \A h \in 1..l : new.sessions[h] = row.sessions[h]
      BY <1>1, <2>2, <3>1, Appended
    <3>3. ASSUME NEW h \in 1..l
          PROVE  row.sessions[h] \notin Open
      <4>1. row.sessions # <<>> BY <1>1, <3>2, <3>3
      <4>2. row.sessions[l] \notin Open BY <2>2, <4>1 DEF IsOpen
      <4>. QED BY <3>2, <3>3, <4>2 DEF Interviewed
    <3>. QED BY <3>2, <3>3
  <2>. QED BY <2>1, <2>2
<1>. HIDE DEF l
<1>6. ASSUME NEW i \in DOMAIN new.msgs, new.msgs[i].sn # 0
      PROVE  i \in DOMAIN row.msgs /\ new.msgs[i] = row.msgs[i] /\ new.msgs[i].act # m.act
  BY <1>2, <1>6
<1>7. Interviewed(new)
  <2>1. \A i \in DOMAIN new.msgs : new.msgs[i].sn # 0 =>
          /\ new.msgs[i].role = "agent" /\ new.msgs[i].sn \in DOMAIN new.sessions
          /\ new.msgs[i].act = LastOf(new) => new.msgs[i].sn = Len(new.sessions)
    BY <1>4, <1>5, <1>6 DEF Interviewed
  <2>2. \A i, j \in DOMAIN new.msgs :
          new.msgs[i].sn # 0 /\ new.msgs[j].sn # 0 /\ new.msgs[j].act = new.msgs[i].act
          => new.msgs[j].sn = new.msgs[i].sn
    BY <1>6 DEF Interviewed
  <2>. QED BY <1>5, <2>1, <2>2 DEF Interviewed
<1>8. RowGrows(row, new) BY <1>2, <1>5, <1>7 DEF RowGrows, l
<1>. QED BY <1>4, <1>8 DEF Turned

(* A request moves on, nothing is written.                                 *)
LEMMA QuietTold ==
  ASSUME ChatInv, OwnInv, ChatInv', OwnInv', RememberedInv, NEW k \in calls, NEW n, Moves(k, n),
         UNCHANGED <<conv, tab, odd>>, k.pc # "answered", ~Replied(n), n \in calls' => Learned(n)
  PROVE  RememberedInv'
<1>1. Ids' = Ids /\ RowsInv BY DEF Ids, ChatInv
<1>2. ASSUME NEW c \in Ids
      PROVE  RowGrows(conv[c], conv'[c])
  <2>. PICK row : row = conv[c] OBVIOUS
  <2>1. /\ Interviewed(row) /\ DOMAIN row.sessions = 1..Len(row.sessions)
        /\ Len(row.sessions) \in Nat
    BY <1>1, RowFacts DEF RememberedInv
  <2>. QED BY <2>1, RowEnds
<1>3. n \in calls' => Learned(n)' BY ZenonT(60) DEF Learned, Question, Turned, Ids, At, Replied, Asking
<1>4. ~Replied(k) BY DEF Replied, At
<1>. QED BY <1>1, <1>2, <1>3, <1>4, ServeTold

(* One row is written: its turn is the request's own, or goes on in it.       *)
LEMMA WroteTold ==
  ASSUME ChatInv, OwnInv, ChatInv', OwnInv', RememberedInv, NEW k \in calls, NEW n, Moves(k, n),
         UNCHANGED <<tab, odd>>, k.pc # "answered", NEW c, Ids' = Ids \cup {c},
         \A i \in Ids : i # c => conv'[i] = conv[i],
         c \in Ids => RowGrows(conv[c], conv'[c]),
         c \notin Ids => Interviewed(conv'[c]),
         c \in Ids => \/ conv[c].lock = 0
                      \/ At(k, "send", "handling") /\ k.conv = c
                      \/ /\ conv'[c].lock = conv[c].lock
                         /\ \A act : Turned(conv[c], act) => Turned(conv'[c], act),
         n \in calls' => Learned(n)',
         Replied(n) => n.sess[2] = Len(conv'[n.conv].sessions)
  PROVE  RememberedInv'
<1>1. Ids \subseteq Ids' /\ RowsInv BY DEF ChatInv
<1>2. ASSUME NEW d \in Ids
      PROVE  RowGrows(conv[d], conv'[d])
  <2>. PICK row : row = conv[d] OBVIOUS
  <2>1. /\ Interviewed(row) /\ DOMAIN row.sessions = 1..Len(row.sessions)
        /\ Len(row.sessions) \in Nat
    BY <1>1, RowFacts DEF RememberedInv
  <2>2. d # c => RowGrows(row, row) BY <2>1, RowEnds
  <2>. QED BY <2>2
<1>3. ASSUME NEW j \in calls, j # k, At(j, "send", "handling")
      PROVE  /\ conv'[j.conv].lock = conv[j.conv].lock
             /\ Turned(conv[j.conv], j.id) => Turned(conv'[j.conv], j.id)
  <2>1. CallOK(j) /\ Learned(j) BY DEF ChatInv, CallsInv, RememberedInv
  <2>2. j.conv \in Ids /\ conv[j.conv].lock = j.id /\ j.id # 0
    BY <1>3, <2>1 DEF CallOK, Learned, At
  <2>3. CASE j.conv # c BY <2>2, <2>3
  <2>4. ASSUME j.conv = c, At(k, "send", "handling"), k.conv = c
        PROVE  FALSE
    <3>1. Learned(k) /\ conv[c].lock = k.id BY <2>4 DEF Learned, RememberedInv
    <3>2. Sender(j) /\ Sender(k) BY <1>3, <2>4 DEF Sender, At
    <3>. QED BY <1>3, <2>2, <2>4, <3>1, <3>2 DEF OwnInv, IdsInv
  <2>. QED BY <2>2, <2>3, <2>4
<1>4. ~Replied(k) BY DEF Replied, At
<1>5. \A d \in Ids' \ Ids : Interviewed(conv'[d]) OBVIOUS
<1>. QED BY <1>1, <1>2, <1>3, <1>4, <1>5, ServeTold

LEMMA NewRowTold == Interviewed(NewRow)
BY DEF Interviewed, NewRow

(* A turn is accepted in a conversation that has no other.                  *)
LEMMA AcceptTold ==
  ASSUME ChatInv, OwnInv, ChatInv', OwnInv', RememberedInv, NEW k \in calls, UNCHANGED <<tab, odd>>,
         TurnAccept(k)
  PROVE  RememberedInv'
<1>. DEFINE c == IF Chosen(k) = 0 THEN Len(conv) + 1 ELSE Chosen(k)
            row == IF Chosen(k) = 0 THEN NewRow ELSE conv[c]
            new == Accepted(row, k)
            iv == k.key \/ IsOpen(row)
            m == Msg(IF k.auto THEN "auto" ELSE "user", k.id, 0)
<1>1. k \in Call /\ CallOK(k) /\ RowsInv /\ Knows(k) /\ IdsInv
  BY Before DEF ChatInv, OwnInv, KnowsInv
<1>2. Len(conv) \in Nat /\ Ids = 1..Len(conv) /\ 0 \notin Ids
  BY <1>1, RowFacts, RowNumbers
<1>3. /\ conv' = [i \in DOMAIN conv \cup {c} |-> IF i = c THEN new ELSE conv[i]]
      /\ Resolved(k) /\ row.lock = 0
      /\ calls' = (calls \ {k}) \cup {[k EXCEPT !.pc = "handling", !.conv = c, !.iv = iv]}
  BY DEF TurnAccept, Becomes
<1>4. k.kind = "send" /\ k.pc \in {"sent", "accept"} /\ Chosen(k) \in Ids \cup {0}
  BY <1>1, <1>3 DEF Resolved, Chosen, At, CallOK, Ids
<1>5. c # 0 /\ (c \notin Ids => row = NewRow) /\ (c \in Ids => row = conv[c])
  <2>1. Chosen(k) = 0 => c = Len(conv) + 1 /\ row = NewRow /\ c \notin Ids BY <1>2
  <2>2. Chosen(k) # 0 => c = Chosen(k) /\ c \in Ids /\ row = conv[c] BY <1>4
  <2>. QED BY <2>1, <2>2, <1>2
<1>6. row \in Row /\ Interviewed(row)
  <2>1. \A i \in Ids : conv[i] \in Row /\ Interviewed(conv[i])
    BY <1>1, RowFacts DEF RememberedInv
  <2>. QED BY <2>1, <1>5, NewRowOK, NewRowTold
<1>7. m \in Message /\ m.act = k.id /\ m.sn = 0 /\ m.role \in {"user", "auto"}
  <2>1. k.id \in 0..MaxActs BY <1>1 DEF Call
  <2>. QED BY <2>1 DEF Msg, Message
<1>8. \A i \in DOMAIN row.msgs : row.msgs[i].act # m.act
  <2>1. where[k.id] = 0 BY <1>1, <1>4 DEF Knows, Sender
  <2>2. c \notin Ids => row.msgs = <<>> BY <1>5 DEF NewRow
  <2>3. CASE c \notin Ids BY <2>2, <2>3
  <2>4. CASE c \in Ids BY <1>1, <1>5, <1>7, <2>1, <2>4 DEF IdsInv
  <2>. QED BY <2>3, <2>4
<1>. HIDE DEF m
<1>9. /\ new.msgs = Append(row.msgs, m) /\ new.lock = k.id
      /\ \/ new.sessions = row.sessions
         \/ new.sessions = Append(row.sessions, "open") /\ ~IsOpen(row)
  <2>. DEFINE titled == IF k.auto THEN row
                        ELSE replace_placeholder_title(coalesced(row, k.id), k.id)
  <2>1. /\ titled.msgs = row.msgs /\ titled.sessions = row.sessions
        /\ DOMAIN titled = {"msgs", "title", "flag", "sessions", "lock"}
    BY <1>6 DEF replace_placeholder_title, coalesced, Row
  <2>2. new = [titled EXCEPT !.msgs = Append(@, m),
                             !.sessions = IF k.key /\ ~IsOpen(row) THEN Append(@, "open") ELSE @,
                             !.lock = k.id]
    BY DEF Accepted, m
  <2>. HIDE DEF titled, new
  <2>. QED BY <2>1, <2>2
<1>. HIDE DEF c, row, new, iv
<1>10. RowGrows(row, new) /\ Turned(new, k.id) BY <1>6, <1>7, <1>8, <1>9, RowTurned
<1>11. conv' = [i \in Ids \cup {c} |-> IF i = c THEN new ELSE conv[i]] BY <1>3 DEF Ids
<1>12. Ids' = Ids \cup {c} /\ conv'[c] = new /\ \A i \in Ids : i # c => conv'[i] = conv[i]
  BY <1>11, OneRow
<1>13. /\ c \in Ids => RowGrows(conv[c], conv'[c])
       /\ c \notin Ids => Interviewed(conv'[c])
  BY <1>5, <1>10, <1>12 DEF RowGrows
<1>. PICK n : n = [k EXCEPT !.pc = "handling", !.conv = c, !.iv = iv] OBVIOUS
<1>14. /\ n.id = k.id /\ n.tab = k.tab /\ n.kind = k.kind /\ n.live = k.live /\ n.cid = k.cid
       /\ n.sess = k.sess /\ n.pc = "handling" /\ n.conv = c
  BY <1>1 DEF Call
<1>15. Moves(k, n) BY <1>3, <1>14 DEF Moves
<1>16. Learned(n)'
  <2>1. conv'[n.conv].lock = n.id /\ Turned(conv'[n.conv], n.id) BY <1>9, <1>10, <1>12, <1>14
  <2>. QED BY <1>4, <1>14, <2>1 DEF Learned, At, Replied
<1>17. ~Replied(n) /\ k.pc # "answered" BY <1>4, <1>14 DEF Replied, At
<1>. QED BY <1>3, <1>5, <1>12, <1>13, <1>15, <1>16, <1>17, WroteTold

(* A row that exists is written.                                           *)
LEMMA RewroteTold ==
  ASSUME ChatInv, OwnInv, ChatInv', OwnInv', RememberedInv, NEW k \in calls, NEW n, Moves(k, n),
         UNCHANGED <<tab, odd>>, k.pc # "answered", NEW c \in Ids, NEW row,
         conv' = [conv EXCEPT ![c] = row], RowGrows(conv[c], row),
         \/ At(k, "send", "handling") /\ k.conv = c
         \/ row.lock = conv[c].lock /\ \A act : Turned(conv[c], act) => Turned(row, act),
         n \in calls' => Learned(n)',
         Replied(n) => n.conv = c /\ n.sess[2] = Len(row.sessions)
  PROVE  RememberedInv'
<1>1. conv' = [i \in Ids \cup {c} |-> IF i = c THEN row ELSE conv[i]]
  BY RowExcept DEF ChatInv
<1>2. /\ Ids' = Ids \cup {c} /\ conv'[c] = row
      /\ \A i \in Ids : i # c => conv'[i] = conv[i]
  BY <1>1, OneRow, ZenonT(60)
<1>. QED BY <1>2, WroteTold

(* A turn fails: the row loses its lock.                                   *)
LEMMA FailTold ==
  ASSUME ChatInv, OwnInv, ChatInv', OwnInv', RememberedInv, NEW k \in calls, UNCHANGED <<tab, odd>>,
         TurnFail(k)
  PROVE  RememberedInv'
<1>. DEFINE c == k.conv
            row == [conv[c] EXCEPT !.lock = 0]
<1>1. k \in Call /\ CallOK(k) /\ RowsInv /\ At(k, "send", "handling")
  BY Before DEF ChatInv, TurnFail
<1>2. /\ c \in Ids /\ conv[c] \in Row /\ Interviewed(conv[c]) /\ Len(conv[c].sessions) \in Nat
      /\ DOMAIN conv[c].sessions = 1..Len(conv[c].sessions)
  BY <1>1, RowFacts DEF CallOK, RememberedInv
<1>3. row.msgs = conv[c].msgs /\ row.sessions = conv[c].sessions BY <1>2 DEF Row
<1>4. conv' = [conv EXCEPT ![c] = row] BY DEF TurnFail
<1>. HIDE DEF row
<1>5. RowGrows(conv[c], row)
  <2>. PICK old : old = conv[c] OBVIOUS
  <2>1. RowGrows(old, row) BY <1>2, <1>3, RowEnds
  <2>. QED BY <2>1
<1>6. PICK res \in {"error", "timeout"} : Answer(k, [k EXCEPT !.res = res]) BY DEF TurnFail
<1>. DEFINE next == [k EXCEPT !.res = res]
            n == [next EXCEPT !.pc = "answered"]
<1>7. Answer(k, next) BY <1>6
<1>8. /\ n.id = k.id /\ n.tab = k.tab /\ n.kind = k.kind /\ n.live = k.live /\ n.cid = k.cid
      /\ n.sess = k.sess /\ n.pc = "answered" /\ n.res = res /\ k.kind = "send"
  BY <1>1 DEF Call, At
<1>. HIDE DEF next
<1>9. Moves(k, n) BY <1>7, <1>8, AnswerMoves
<1>. HIDE DEF n
<1>10. ~Replied(n) /\ Learned(n)' BY <1>8 DEF Learned, At, Replied
<1>11. k.pc # "answered" BY <1>1 DEF At
<1>. QED BY <1>1, <1>2, <1>4, <1>5, <1>9, <1>10, <1>11, RewroteTold

(* A turn ends: its reply, or its question, is about the message it answers.  *)
LEMMA EndTold ==
  ASSUME ChatInv, OwnInv, ChatInv', OwnInv', RememberedInv, NEW k \in calls, UNCHANGED <<tab, odd>>,
         TurnEnd(k)
  PROVE  RememberedInv'
<1>. DEFINE c == k.conv
            sn == Len(conv[c].sessions)
            m == Msg("agent", k.id, IF k.iv THEN sn ELSE 0)
            done == [conv[c] EXCEPT !.msgs = Append(@, m), !.lock = 0]
            titled == IF k.auto THEN set_placeholder_title(done) ELSE done
<1>1. /\ k \in Call /\ CallOK(k) /\ RowsInv /\ Learned(k) /\ At(k, "send", "handling")
      /\ k.kind = "send" /\ k.id \in 0..MaxActs /\ k.pc # "answered"
  BY Before DEF ChatInv, RememberedInv, TurnEnd, At, Call
<1>2. /\ c \in Ids /\ conv[c] \in Row /\ Interviewed(conv[c]) /\ sn \in Nat
      /\ DOMAIN conv[c].sessions = 1..sn /\ (k.iv => sn # 0)
      /\ conv[c].msgs \in Seq(Message) /\ conv[c].sessions \in Seq(SessionState)
  BY <1>1, RowFacts DEF CallOK, RememberedInv
<1>3. Turned(conv[c], k.id) BY <1>1 DEF Learned
<1>4. /\ m \in Message /\ m.role = "agent" /\ m.act = k.id
      /\ m.sn # 0 => m.sn = sn
      /\ k.iv => m.sn = sn
  BY <1>1, <1>2 DEF Msg, Message
<1>. HIDE DEF m
<1>5. DOMAIN done = {"msgs", "title", "flag", "sessions", "lock"} /\ done.msgs = Append(conv[c].msgs, m)
      /\ done.sessions = conv[c].sessions
  BY <1>2 DEF Row
<1>. HIDE DEF done
<1>6. DOMAIN titled = {"msgs", "title", "flag", "sessions", "lock"} /\ titled.msgs = Append(conv[c].msgs, m)
      /\ titled.sessions = conv[c].sessions
  BY <1>5 DEF set_placeholder_title
<1>7. \/ /\ ~k.iv
         /\ conv' = [conv EXCEPT ![c] = titled]
         /\ Answer(k, [k EXCEPT !.res = "success"])
      \/ /\ k.iv /\ State(Newest(c)) = "open"
         /\ \E s \in {"open", "finalizing", "completed"} :
              /\ conv' = [conv EXCEPT ![c] = [titled EXCEPT !.sessions[sn] = s]]
              /\ Answer(k, [k EXCEPT !.res = "success", !.sess = <<c, sn>>, !.sessions = <<s>>])
  BY DEF TurnEnd, done, m
<1>. HIDE DEF titled
<1>. PICK old : old = conv[c] OBVIOUS
<1>8. /\ old \in Row /\ Interviewed(old) /\ From(old, {"user", "auto"}) # {}
      /\ m.sn # 0 => m.sn \in DOMAIN old.sessions /\ m.sn = Len(old.sessions) /\ m.act = LastOf(old)
  BY <1>2, <1>3, <1>4 DEF Turned
<1>9. CASE /\ ~k.iv
           /\ conv' = [conv EXCEPT ![c] = titled]
           /\ Answer(k, [k EXCEPT !.res = "success"])
  <2>1. RowGrows(old, titled) BY <1>4, <1>6, <1>8, RowSaid
  <2>. DEFINE next == [k EXCEPT !.res = "success"]
             n == [next EXCEPT !.pc = "answered"]
  <2>2. Answer(k, next) BY <1>9
  <2>3. /\ n.id = k.id /\ n.tab = k.tab /\ n.kind = k.kind /\ n.live = k.live /\ n.cid = k.cid
        /\ n.iv = k.iv
    BY <1>1 DEF Call
  <2>. HIDE DEF next
  <2>4. Moves(k, n) BY <1>1, <2>2, <2>3, AnswerMoves
  <2>. HIDE DEF n
  <2>5. ~Replied(n) BY <1>9, <2>3 DEF Replied
  <2>6. ~At(n, "send", "handling")
    <3>1. n.pc = "answered" BY <1>1 DEF n, next, Call
    <3>. QED BY <3>1 DEF At
  <2>7. Learned(n)' BY <1>1, <2>3, <2>5, <2>6 DEF Learned, At, Replied
  <2>. HIDE DEF c
  <2>. QED BY <1>1, <1>2, <1>9, <2>1, <2>4, <2>5, <2>7, RewroteTold DEF c
<1>10. ASSUME NEW s \in {"open", "finalizing", "completed"}, k.iv, State(Newest(c)) = "open",
              conv' = [conv EXCEPT ![c] = [titled EXCEPT !.sessions[sn] = s]],
              Answer(k, [k EXCEPT !.res = "success", !.sess = <<c, sn>>, !.sessions = <<s>>])
       PROVE  RememberedInv'
  <2>. DEFINE row == [titled EXCEPT !.sessions[sn] = s]
  <2>1. conv' = [conv EXCEPT ![c] = row] BY <1>10
  <2>2. row.msgs = Append(old.msgs, m) /\ row.sessions = [old.sessions EXCEPT ![sn] = s] BY <1>6
  <2>. HIDE DEF row
  <2>3. old.sessions[sn] = "open" BY <1>10 DEF State, Newest
  <2>4. Len(row.sessions) = sn /\ DOMAIN row.sessions = DOMAIN old.sessions
    <3>. PICK l \in Nat : l = sn BY <1>2
    <3>. PICK before : before = old.sessions OBVIOUS
    <3>1. before \in Seq(SessionState) /\ DOMAIN before = 1..l /\ s \in SessionState
      BY <1>2 DEF SessionState
    <3>2. before \in [1..l -> SessionState] BY <3>1
    <3>3. [before EXCEPT ![l] = s] \in [1..l -> SessionState] BY <3>1, <3>2
    <3>4. row.sessions \in [1..l -> SessionState] BY <2>2, <3>3
    <3>. QED BY <1>2, <3>4
  <2>5. \A i \in DOMAIN old.sessions :
           /\ i # sn => row.sessions[i] = old.sessions[i]
           /\ row.sessions[i] = "open" => old.sessions[i] = "open"
           /\ old.sessions[i] \notin Open => row.sessions[i] \notin Open
    BY <1>2, <2>2, <2>3 DEF Open
  <2>6. RowGrows(old, row) BY <1>4, <1>8, <2>2, <2>4, <2>5, RowSaid, SMTT(60)
  <2>. PICK ss : ss = <<c, sn>> OBVIOUS
  <2>. PICK st : st = <<s>> OBVIOUS
  <2>. DEFINE next == [k EXCEPT !.res = "success", !.sess = ss, !.sessions = st]
             n == [next EXCEPT !.pc = "answered"]
  <2>7. Answer(k, next) BY <1>10
  <2>8. /\ n.id = k.id /\ n.tab = k.tab /\ n.kind = k.kind /\ n.live = k.live /\ n.cid = k.cid
        /\ n.pc = "answered" /\ n.conv = k.conv /\ n.sess = ss
    BY <1>1 DEF Call
  <2>9. ss[2] = sn OBVIOUS
  <2>. HIDE DEF next
  <2>10. Moves(k, n) BY <1>1, <2>7, <2>8, AnswerMoves
  <2>. HIDE DEF n
  <2>. PICK num : num = sn OBVIOUS
  <2>11. Question(k.conv, k.id, num)'
    <3>1. conv'[c] = row /\ c \in Ids' BY <1>1, <1>2, <2>1 DEF Ids, RowsInv
    <3>2. /\ Len(old.msgs) + 1 \in DOMAIN row.msgs /\ row.msgs[Len(old.msgs) + 1] = m
      BY <1>2, <1>4, <2>2, Appended
    <3>. QED BY <1>2, <1>4, <1>10, <3>1, <3>2 DEF Question
  <2>12. Replied(n) => n.conv = c /\ n.sess[2] = Len(row.sessions) BY <2>4, <2>8, <2>9
  <2>13. Learned(n)'
    <3>1. n.conv = k.conv /\ n.id = k.id /\ n.sess[2] = num BY <2>8, <2>9
    <3>2. Question(n.conv, n.id, n.sess[2])' BY <2>11, <3>1
    <3>. QED BY <1>1, <2>8, <3>2 DEF Learned, At, Replied
  <2>. HIDE DEF c
  <2>. QED BY <1>1, <1>2, <2>1, <2>6, <2>10, <2>12, <2>13, RewroteTold DEF c
<1>. QED BY <1>7, <1>9, <1>10

(* A recovered question is the open interview's, about the last message of the user. *)
LEMMA ResumeRunTold ==
  ASSUME ChatInv, OwnInv, ChatInv', OwnInv', RememberedInv, NEW k \in calls, UNCHANGED <<tab, odd>>,
         ResumeRun(k)
  PROVE  RememberedInv'
<1>. DEFINE c == k.sess[1]
            act == LastAct(c)
            m == Msg("agent", act, k.sess[2])
            row == [conv[c] EXCEPT !.msgs = Append(@, m)]
            items == {<<"question", act>>}
<1>1. /\ k \in Call /\ CallOK(k) /\ RowsInv /\ k.kind = "resume" /\ k.pc = "sent"
  BY Before DEF ChatInv, ResumeRun, At
<1>2. c \in Ids /\ k.sess[2] \in DOMAIN conv[c].sessions /\ k.sess[2] \in Nat
  <2>1. k.sess \in Nat \X Nat BY <1>1 DEF Call
  <2>. QED BY <1>1, <2>1 DEF CallOK, IsSession, NoSession
<1>3. /\ conv[c] \in Row /\ RowOK(conv[c]) /\ Interviewed(conv[c]) /\ conv[c].msgs \in Seq(Message)
      /\ DOMAIN conv[c].sessions = 1..Len(conv[c].sessions) /\ Len(conv[c].msgs) \in Nat
      /\ DOMAIN conv[c].msgs = 1..Len(conv[c].msgs)
  BY <1>1, <1>2, RowFacts DEF RememberedInv
<1>4. From(conv[c], {"user", "auto"}) # {} /\ act = LastOf(conv[c]) /\ act \in 0..MaxActs
  <2>. DEFINE asked == From(conv[c], {"user", "auto"})
  <2>1. conv[c].sessions # <<>> BY <1>2, <1>3
  <2>2. asked # {} BY <2>1, <1>3 DEF RowOK
  <2>3. asked \in SUBSET (0..Len(conv[c].msgs)) /\ asked \subseteq DOMAIN conv[c].msgs
    <3>1. asked \subseteq DOMAIN conv[c].msgs BY Zenon DEF From
    <3>. HIDE DEF asked
    <3>2. \A l \in Nat : 1..l \subseteq 0..l OBVIOUS
    <3>. QED BY <1>3, <3>1, <3>2
  <2>4. act = LastOf(conv[c]) /\ act = conv[c].msgs[Max(asked)].act BY DEF LastAct, LastOf
  <2>. HIDE DEF asked, act
  <2>5. Max(asked) \in DOMAIN conv[c].msgs BY <2>2, <2>3, <1>3, MaxOf
  <2>6. conv[c].msgs[Max(asked)] \in Message BY <2>5, <1>3
  <2>7. act \in 0..MaxActs BY <2>4, <2>6 DEF Message
  <2>. QED BY <2>2, <2>4, <2>7 DEF asked
<1>. HIDE DEF act
<1>5. CASE /\ State(k.sess) = "open"
           /\ conv' = [conv EXCEPT ![c].msgs = Append(@, m)]
           /\ Answer(k, [k EXCEPT !.res = "success", !.items = items])
  <2>1. m \in Message /\ m.act = act /\ m.role = "agent" /\ m.sn = k.sess[2]
    BY <1>2, <1>4 DEF Msg, Message
  <2>2. k.sess[2] = Len(conv[c].sessions)
    <3>1. conv[c].sessions[k.sess[2]] \in Open BY <1>5 DEF State, Open
    <3>. QED BY <1>2, <1>3, <3>1 DEF Interviewed
  <2>. HIDE DEF m
  <2>3. row.msgs = Append(conv[c].msgs, m) /\ conv' = [conv EXCEPT ![c] = row]
        /\ row.sessions = conv[c].sessions /\ row.lock = conv[c].lock
    BY <1>3, <1>5 DEF Row
  <2>. HIDE DEF row
  <2>4. RowGrows(conv[c], row) /\ \A a : Turned(conv[c], a) => Turned(row, a)
    <3>. PICK old : old = conv[c] OBVIOUS
    <3>1. /\ old \in Row /\ Interviewed(old) /\ From(old, {"user", "auto"}) # {}
          /\ m.sn # 0 => m.sn \in DOMAIN old.sessions /\ m.sn = Len(old.sessions) /\ m.act = LastOf(old)
      BY <1>2, <1>3, <1>4, <2>1, <2>2
    <3>2. RowGrows(old, row) /\ \A a : Turned(old, a) => Turned(row, a)
      BY <2>1, <2>3, <3>1, RowSaid, ZenonT(60)
    <3>. QED BY <3>2
  <2>. PICK a : a = act OBVIOUS
  <2>. PICK its : its = items OBVIOUS
  <2>. DEFINE next == [k EXCEPT !.res = "success", !.items = its]
             n == [next EXCEPT !.pc = "answered"]
  <2>5. Answer(k, next) BY <1>5
  <2>6. \A i \in its : i = <<"question", a>> OBVIOUS
  <2>. HIDE DEF items
  <2>7. /\ n.id = k.id /\ n.tab = k.tab /\ n.kind = k.kind /\ n.live = k.live /\ n.cid = k.cid
        /\ n.pc = "answered" /\ n.items = its /\ n.sess = k.sess
    BY <1>1 DEF Call
  <2>. HIDE DEF next
  <2>8. Moves(k, n) BY <1>1, <2>5, <2>7, AnswerMoves
  <2>. HIDE DEF n
  <2>9. Question(k.sess[1], a, k.sess[2])'
    <3>1. conv'[c] = row /\ c \in Ids' BY <1>1, <1>2, <2>3 DEF Ids, RowsInv
    <3>2. /\ Len(conv[c].msgs) + 1 \in DOMAIN row.msgs /\ row.msgs[Len(conv[c].msgs) + 1] = m
      BY <1>3, <2>1, <2>3, Appended, SMTT(60)
    <3>3. k.sess[2] # 0 BY <1>2, <1>3
    <3>. QED BY <2>1, <3>1, <3>2, <3>3 DEF Question
  <2>10. Learned(n)'
    <3>1. \A i \in n.items : Asking(i) /\ Question(n.sess[1], i[2], n.sess[2])'
      BY <2>6, <2>7, <2>9 DEF Asking
    <3>. QED BY <1>1, <2>7, <3>1 DEF Learned, At, Replied, Asking
  <2>11. ~Replied(n) BY <1>1, <2>7 DEF Replied, At
  <2>. HIDE DEF c
  <2>. QED BY <1>1, <1>2, <2>3, <2>4, <2>8, <2>10, <2>11, RewroteTold
<1>6. ASSUME NEW res \in {"pending", "not_delivered"}, Answer(k, [k EXCEPT !.res = res]),
             UNCHANGED storeVars
      PROVE  RememberedInv'
  <2>. DEFINE next == [k EXCEPT !.res = res]
             n == [next EXCEPT !.pc = "answered"]
  <2>1. Answer(k, next) BY <1>6
  <2>2. /\ n.id = k.id /\ n.tab = k.tab /\ n.kind = k.kind /\ n.live = k.live /\ n.cid = k.cid
        /\ n.pc = "answered" /\ n.res = res /\ n.sess = k.sess
    BY <1>1 DEF Call
  <2>. HIDE DEF next
  <2>3. Moves(k, n) BY <1>1, <2>1, <2>2, AnswerMoves
  <2>. HIDE DEF n
  <2>4. Learned(n) /\ ~Replied(n) BY <1>1, <2>2 DEF Learned, At, Replied
  <2>5. conv' = conv BY <1>6 DEF storeVars
  <2>. QED BY <1>1, <2>3, <2>4, <2>5, QuietTold
<1>. QED BY <1>5, <1>6 DEF ResumeRun, act

(* resolve, the refusals, and the history.                                 *)
LEMMA ReadTold ==
  ASSUME ChatInv, OwnInv, ChatInv', OwnInv', RememberedInv, NEW k \in calls, UNCHANGED <<tab, odd>>,
         TurnResolve(k) \/ TurnRefused(k) \/ ResetRead(k) \/ LoadRead(k)
  PROVE  RememberedInv'
<1>1. k \in Call /\ CallOK(k) /\ RowsInv BY Before DEF ChatInv
<1>2. CASE TurnResolve(k)
  <2>. DEFINE c == IF k.cid = 0 THEN MostRecent ELSE 0
             n == [k EXCEPT !.pc = "accept", !.conv = c]
  <2>1. calls' = (calls \ {k}) \cup {n} /\ conv' = conv /\ k.kind = "send" /\ k.pc = "sent"
    BY <1>2 DEF TurnResolve, Becomes, At, storeVars
  <2>. HIDE DEF c
  <2>2. /\ n.id = k.id /\ n.tab = k.tab /\ n.kind = k.kind /\ n.live = k.live /\ n.cid = k.cid
        /\ n.sess = k.sess /\ n.pc = "accept"
    BY <1>1 DEF Call
  <2>. HIDE DEF n
  <2>3. Moves(k, n) BY <2>1, <2>2 DEF Moves
  <2>4. Learned(n) /\ ~Replied(n) BY <2>1, <2>2 DEF Learned, At, Replied
  <2>. QED BY <2>1, <2>3, <2>4, QuietTold
<1>3. CASE TurnRefused(k)
  <2>. DEFINE next == [k EXCEPT !.res = "error"]
             n == [next EXCEPT !.pc = "answered"]
  <2>1. Answer(k, next) /\ conv' = conv /\ k.kind = "send" /\ k.pc # "answered"
    BY <1>3 DEF TurnRefused, storeVars, Resolved, At
  <2>2. /\ n.id = k.id /\ n.tab = k.tab /\ n.kind = k.kind /\ n.live = k.live /\ n.cid = k.cid
        /\ n.sess = k.sess /\ n.pc = "answered" /\ n.res = "error"
    BY <1>1 DEF Call
  <2>. HIDE DEF next
  <2>3. Moves(k, n) BY <2>1, <2>2, AnswerMoves
  <2>. HIDE DEF n
  <2>4. Learned(n) /\ ~Replied(n) BY <2>1, <2>2 DEF Learned, At, Replied
  <2>. QED BY <2>1, <2>3, <2>4, QuietTold
<1>4. CASE ResetRead(k)
  <2>. DEFINE c == find_current
             e == find_empty_for_user
             n == [k EXCEPT !.pc = "commit", !.cid = c, !.conv = e]
  <2>1. calls' = (calls \ {k}) \cup {n} /\ conv' = conv /\ k.kind = "reset" /\ k.pc = "sent"
    BY <1>4 DEF ResetRead, Becomes, storeVars, At
  <2>. HIDE DEF c, e
  <2>2. n.id = k.id /\ n.tab = k.tab /\ n.kind = k.kind /\ n.live = k.live /\ n.sess = k.sess
    BY <1>1 DEF Call
  <2>. HIDE DEF n
  <2>3. Moves(k, n) BY <2>1, <2>2 DEF Moves
  <2>4. Learned(n) /\ ~Replied(n) BY <2>1, <2>2 DEF Learned, At, Replied
  <2>. QED BY <2>1, <2>3, <2>4, QuietTold
<1>5. CASE LoadRead(k)
  <2>. DEFINE items == {ShownAs(conv[k.cid].msgs[i]) : i \in DOMAIN conv[k.cid].msgs}
             found == [k EXCEPT !.res = "success", !.sessions = conv[k.cid].sessions,
                                !.items = items]
             missing == [k EXCEPT !.res = "missing"]
             next == IF k.cid \in DOMAIN conv THEN found ELSE missing
             n == [next EXCEPT !.pc = "answered"]
  <2>1. Answer(k, next) /\ conv' = conv /\ k.kind = "load" /\ k.pc = "sent"
    BY <1>5 DEF LoadRead, storeVars, At
  <2>2. CASE k.cid \in DOMAIN conv
    <3>1. /\ k.cid \in Ids /\ Interviewed(conv[k.cid]) /\ conv[k.cid].msgs \in Seq(Message)
          /\ DOMAIN conv[k.cid].sessions = 1..Len(conv[k.cid].sessions)
      BY <2>2, <1>1, RowFacts DEF Ids, RememberedInv
    <3>2. \A i \in items : Asking(i) => \E s \in DOMAIN conv[k.cid].sessions : Question(k.cid, i[2], s)
      <4>. SUFFICES ASSUME NEW j \in DOMAIN conv[k.cid].msgs, Asking(ShownAs(conv[k.cid].msgs[j]))
                    PROVE  \E s \in DOMAIN conv[k.cid].sessions :
                             Question(k.cid, ShownAs(conv[k.cid].msgs[j])[2], s)
        OBVIOUS
      <4>. DEFINE msg == conv[k.cid].msgs[j]
      <4>1. msg \in Message BY <3>1
      <4>2. ShownAs(msg)[2] = msg.act BY DEF ShownAs
      <4>3. msg.sn # 0 BY <4>1 DEF ShownAs, Asking, Message
      <4>4. msg.sn \in DOMAIN conv[k.cid].sessions BY <3>1, <4>3 DEF Interviewed
      <4>5. Question(k.cid, msg.act, msg.sn) BY <3>1, <4>3 DEF Question
      <4>. QED BY <4>2, <4>4, <4>5
    <3>3. \A s \in DOMAIN conv[k.cid].sessions :
            conv[k.cid].sessions[s] = "completed" => conv[k.cid].sessions[s] \notin Open
      BY DEF Open
    <3>. HIDE DEF items
    <3>4. next = found BY <2>2
    <3>5. /\ n.id = k.id /\ n.tab = k.tab /\ n.kind = k.kind /\ n.live = k.live /\ n.cid = k.cid
          /\ n.sess = k.sess /\ n.pc = "answered" /\ n.items = items
          /\ n.sessions = conv[k.cid].sessions
      BY <1>1, <3>4 DEF Call
    <3>. HIDE DEF found, missing, next
    <3>6. Moves(k, n) BY <2>1, <3>5, AnswerMoves
    <3>. HIDE DEF n
    <3>7. Learned(n) /\ ~Replied(n) BY <2>1, <3>2, <3>3, <3>5 DEF Learned, At, Replied
    <3>. QED BY <2>1, <3>6, <3>7, QuietTold
  <2>3. CASE k.cid \notin DOMAIN conv
    <3>1. next = missing BY <2>3
    <3>. HIDE DEF found
    <3>2. /\ n.id = k.id /\ n.tab = k.tab /\ n.kind = k.kind /\ n.live = k.live /\ n.cid = k.cid
          /\ n.sess = k.sess /\ n.pc = "answered" /\ n.res = "missing"
      BY <1>1, <3>1 DEF Call
    <3>. HIDE DEF missing, next
    <3>3. Moves(k, n) BY <2>1, <3>2, AnswerMoves
    <3>. HIDE DEF n
    <3>4. Learned(n) /\ ~Replied(n) BY <2>1, <3>2 DEF Learned, At, Replied
    <3>. QED BY <2>1, <3>3, <3>4, QuietTold
  <2>. QED BY <2>2, <2>3
<1>. QED BY <1>2, <1>3, <1>4, <1>5

(* The newest interview of a row is over, or nothing happened to the row.    *)
LEMMA RowOver ==
  ASSUME NEW row \in Row, Interviewed(row), NEW s \in SessionState \ Open, NEW new,
         new = row \/ new = [row EXCEPT !.sessions[Len(row.sessions)] = s]
  PROVE  /\ RowGrows(row, new) /\ new.lock = row.lock
         /\ \A act : Turned(row, act) => Turned(new, act)
<1>. PICK l \in Nat : l = Len(row.sessions) BY DEF Row
<1>. PICK before : before = row.sessions OBVIOUS
<1>1. before \in Seq(SessionState) /\ DOMAIN before = 1..l BY DEF Row
<1>2. CASE new = row
  <2>1. RowGrows(row, row) /\ \A act : Turned(row, act) => Turned(row, act) BY <1>1, RowEnds
  <2>. QED BY <1>2, <2>1
<1>3. CASE new = [row EXCEPT !.sessions[Len(row.sessions)] = s]
  <2>1. /\ new.msgs = row.msgs /\ new.lock = row.lock
        /\ new.sessions = [before EXCEPT ![l] = s]
    BY <1>3 DEF Row
  <2>2. before \in [1..l -> SessionState] BY <1>1
  <2>3. [before EXCEPT ![l] = s] \in [1..l -> SessionState] BY <1>1, <2>2
  <2>4. new.sessions \in [1..l -> SessionState] BY <2>1, <2>3
  <2>5. Len(new.sessions) = Len(row.sessions) /\ DOMAIN new.sessions = DOMAIN row.sessions
    BY <1>1, <2>4
  <2>6. \A n \in DOMAIN row.sessions :
          /\ n # Len(row.sessions) => new.sessions[n] = row.sessions[n]
          /\ new.sessions[n] = "open" => row.sessions[n] = "open"
          /\ row.sessions[n] \notin Open => new.sessions[n] \notin Open
    BY <2>1 DEF Open
  <2>7. DOMAIN row.sessions = 1..Len(row.sessions) /\ Len(row.sessions) \in Nat BY <1>1
  <2>8. RowGrows(row, new) /\ \A act : Turned(row, act) => Turned(new, act)
    BY <2>1, <2>5, <2>6, <2>7, RowEnds
  <2>. QED BY <2>1, <2>8
<1>. QED BY <1>2, <1>3

(* A reset ends the interview of the conversation it leaves; a row it inserts has none. *)
LEMMA ResetCommitTold ==
  ASSUME ChatInv, OwnInv, ChatInv', OwnInv', RememberedInv, NEW k \in calls, UNCHANGED <<tab, odd>>,
         ResetCommit(k)
  PROVE  RememberedInv'
<1>. DEFINE c == IF k.conv = 0 THEN Len(conv) + 1 ELSE k.conv
            left(i) == IF i = k.cid /\ IsOpen(conv[i])
                       THEN [conv[i] EXCEPT !.sessions[Newest(i)[2]] = "abandoned"] ELSE conv[i]
<1>1. /\ k \in Call /\ RowsInv /\ k.kind = "reset" /\ k.pc = "commit"
  BY Before DEF ChatInv, ResetCommit, At
<1>2. conv' = [i \in Ids \cup {c} |-> IF i \in Ids THEN left(i) ELSE NewRow]
      /\ Answer(k, [k EXCEPT !.conv = c])
  BY DEF ResetCommit, Ids
<1>3. ASSUME NEW d \in Ids
      PROVE  /\ RowGrows(conv[d], left(d)) /\ left(d).lock = conv[d].lock
             /\ \A act : Turned(conv[d], act) => Turned(left(d), act)
  <2>. PICK row : row = conv[d] OBVIOUS
  <2>. PICK new : new = left(d) OBVIOUS
  <2>1. row \in Row /\ Interviewed(row) BY <1>1, RowFacts DEF RememberedInv
  <2>2. \/ new = row
        \/ new = [row EXCEPT !.sessions[Len(row.sessions)] = "abandoned"] BY DEF Newest
  <2>3. "abandoned" \in SessionState \ Open BY DEF SessionState, Open
  <2>4. /\ RowGrows(row, new) /\ new.lock = row.lock
        /\ \A act : Turned(row, act) => Turned(new, act)
    BY <2>1, <2>2, <2>3, RowOver
  <2>. QED BY <2>4
<1>. HIDE DEF c, left
<1>4. Ids' = Ids \cup {c} /\ (\A d \in Ids : conv'[d] = left(d)) /\ \A d \in Ids' \ Ids : conv'[d] = NewRow
  BY <1>2 DEF Ids
<1>5. /\ \A d \in Ids : RowGrows(conv[d], conv'[d])
      /\ \A d \in Ids' \ Ids : Interviewed(conv'[d])
  BY <1>3, <1>4, NewRowTold
<1>6. ASSUME NEW j \in calls, At(j, "send", "handling")
      PROVE  /\ conv'[j.conv].lock = conv[j.conv].lock
             /\ Turned(conv[j.conv], j.id) => Turned(conv'[j.conv], j.id)
  <2>1. j.conv \in Ids BY <1>6 DEF ChatInv, CallsInv, CallOK
  <2>. QED BY <1>3, <1>4, <2>1
<1>. PICK d : d = c OBVIOUS
<1>. DEFINE next == [k EXCEPT !.conv = d]
            n == [next EXCEPT !.pc = "answered"]
<1>7. Answer(k, next) BY <1>2
<1>8. /\ n.id = k.id /\ n.tab = k.tab /\ n.kind = k.kind /\ n.live = k.live
      /\ n.pc = "answered" /\ n.sess = k.sess
  BY <1>1 DEF Call
<1>. HIDE DEF next
<1>9. Moves(k, n) BY <1>1, <1>7, <1>8, AnswerMoves
<1>. HIDE DEF n
<1>10. Learned(n)' /\ ~Replied(n) BY <1>1, <1>8 DEF Learned, At, Replied
<1>11. ~Replied(k) /\ Ids \subseteq Ids' BY <1>1, <1>4 DEF Replied, At
<1>. QED BY <1>5, <1>6, <1>9, <1>10, <1>11, ServeTold

(* What the server does.                                                   *)
LEMMA ServeStepTold ==
  ASSUME ChatInv, OwnInv, ChatInv', OwnInv', RememberedInv, NEW k \in calls, ServeStep(k)
  PROVE  RememberedInv'
BY ReadTold, AcceptTold, EndTold, FailTold, ResetCommitTold, ResumeRunTold DEF ServeStep, Serve

(* An interview is settled.                                                *)
LEMMA SettlesTold ==
  ASSUME ChatInv, OwnInv, ChatInv', RememberedInv, Settles
  PROVE  RememberedInv'
<1>1. RowsInv /\ RowsInv' BY DEF ChatInv
<1>2. PICK c \in Ids, s \in {"completed", "failed"} :
        IsOpen(conv[c]) /\ conv' = [conv EXCEPT ![c].sessions[Newest(c)[2]] = s]
  BY DEF Settles, SessionSettles, Ids
<1>3. Ids' = Ids /\ UNCHANGED <<calls, tab, odd>>
  BY <1>2 DEF Ids, Settles, SessionSettles
<1>4. ASSUME NEW d \in Ids
      PROVE  /\ RowGrows(conv[d], conv'[d]) /\ conv'[d].lock = conv[d].lock
             /\ \A act : Turned(conv[d], act) => Turned(conv'[d], act)
  <2>. PICK row : row = conv[d] OBVIOUS
  <2>. PICK new : new = conv'[d] OBVIOUS
  <2>1. row \in Row /\ Interviewed(row) BY <1>1, RowFacts DEF RememberedInv
  <2>2. \/ new = row
        \/ new = [row EXCEPT !.sessions[Len(row.sessions)] = s]
    BY <1>2 DEF Newest, Ids
  <2>3. s \in SessionState \ Open BY DEF SessionState, Open
  <2>4. /\ RowGrows(row, new) /\ new.lock = row.lock
        /\ \A act : Turned(row, act) => Turned(new, act)
    BY <2>1, <2>2, <2>3, RowOver
  <2>. QED BY <2>4
<1>5. /\ Ids \subseteq Ids' /\ (\A d \in Ids : RowGrows(conv[d], conv'[d]))
      /\ \A d \in Ids' \ Ids : Interviewed(conv'[d])
  BY <1>3, <1>4
<1>6. /\ \A a, d, m : Question(d, a, m) => Question(d, a, m)'
      /\ \A a, d, l, m : Question(d, a, l) /\ Question(d, a, m)' => l = m
      /\ \A a, d, m : Question(d, a, m) /\ OpenIn(d, m)' => OpenIn(d, m)
      /\ \A d \in Ids' : Interviewed(conv'[d])
  BY <1>1, <1>5, QuestionsKept
<1>7. ASSUME NEW j \in calls
      PROVE  Learned(j)'
  <2>1. At(j, "send", "handling") => j.conv \in Ids BY DEF ChatInv, CallsInv, CallOK
  <2>. QED BY <1>4, <1>5, <2>1, LearnedKept
<1>8. ASSUME NEW t \in Tabs, odd'[t] = {}
      PROVE  Remembers(t)'
  <2>. PICK d : d = tab[t].cid OBVIOUS
  <2>1. Remembers(t) /\ tab'[t] = tab[t] /\ Mine(t)' = Mine(t) /\ (Switching(t)' <=> Switching(t))
    BY <1>3, <1>8 DEF RememberedInv, Mine, Switching
  <2>2. ASSUME NEW i \in tab[t].items, Asking(i)
        PROVE  Recalls(t, i)'
    <3>1. Recalls(t, i) BY <2>1, <2>2 DEF Remembers
    <3>2. \A m : Question(d, i[2], m)' <=> Question(d, i[2], m) BY <1>6, <3>1 DEF Recalls
    <3>3. \A m : Question(d, i[2], m) /\ OpenIn(d, m)' => OpenIn(d, m) BY <1>6
    <3>. QED BY <2>1, <3>1, <3>2, <3>3 DEF Recalls, Replied, At
  <2>. QED BY <2>1, <2>2 DEF Remembers, Asking
<1>. QED BY <1>3, <1>6, <1>7, <1>8 DEF RememberedInv

(* A step of page t.                                                       *)
LEMMA PageTold ==
  ASSUME RememberedInv, UNCHANGED storeVars, NEW t \in Tabs,
         \A u \in Tabs \ {t} : tab'[u] = tab[u] /\ odd'[u] = odd[u],
         \A k \in calls' : k \in calls \/ (k.tab = t /\ Learned(k)),
         \A k \in calls : k \in calls' \/ k.tab = t,
         odd'[t] = {} => Remembers(t)'
  PROVE  RememberedInv'
<1>1. conv' = conv /\ Ids' = Ids BY DEF storeVars, Ids
<1>2. \A a, c, m : Question(c, a, m)' <=> Question(c, a, m) BY <1>1 DEF Question
<1>3. \A k : Learned(k)' <=> Learned(k) BY <1>1, <1>2 DEF Learned, Turned, At, Replied, Asking
<1>4. ASSUME NEW u \in Tabs \ {t}, odd'[u] = {}
      PROVE  Remembers(u)'
  <2>1. Remembers(u) /\ tab'[u] = tab[u] BY <1>4 DEF RememberedInv
  <2>2. Mine(u)' = Mine(u) BY DEF Mine
  <2>3. Switching(u)' <=> Switching(u) BY <2>2 DEF Switching
  <2>4. \A c, m : OpenIn(c, m)' <=> OpenIn(c, m) BY <1>1 DEF OpenIn
  <2>5. \A i : Recalls(u, i) => Recalls(u, i)'
    BY <1>2, <2>1, <2>2, <2>3, <2>4 DEF Recalls, Replied, At
  <2>. QED BY <2>1, <2>2, <2>5 DEF Remembers, Asking
<1>5. \A c \in Ids' : Interviewed(conv'[c]) BY <1>1 DEF RememberedInv
<1>. QED BY <1>3, <1>4, <1>5 DEF RememberedInv

(* A page that shows no new question remembers what it did, or is about to show others. *)
LEMMA SameQuestions ==
  ASSUME NEW t \in Tabs, Remembers(t), UNCHANGED conv, tab'[t].cid = tab[t].cid,
         \A i \in tab'[t].items : Asking(i) => i \in tab[t].items,
         \A k \in Mine(t)' : k \in Mine(t) \/ ~Replied(k),
         \A k \in Mine(t)' : k.kind = "resume" => k.sess = tab'[t].sess,
         \/ Switching(t)'
         \/ ~Switching(t) /\ tab'[t].sess = tab[t].sess
  PROVE  Remembers(t)'
<1>. PICK c : c = tab[t].cid OBVIOUS
<1>1. Ids' = Ids BY DEF Ids
<1>2. \A a, m : Question(c, a, m)' <=> Question(c, a, m) BY <1>1 DEF Question
<1>3. \A m : OpenIn(c, m)' <=> OpenIn(c, m) BY <1>1 DEF OpenIn
<1>4. ASSUME NEW i \in tab'[t].items, Asking(i)
      PROVE  Recalls(t, i)'
  <2>1. Recalls(t, i) BY <1>4 DEF Remembers
  <2>2. \E m : Question(c, i[2], m)' BY <1>2, <2>1 DEF Recalls
  <2>3. \A m : Question(c, i[2], m)' => \A k \in Mine(t)' : Replied(k) => m <= k.sess[2]
    BY <1>2, <2>1 DEF Recalls
  <2>4. \A m : Question(c, i[2], m)' /\ OpenIn(c, m)' /\ ~Switching(t)' => tab'[t].sess = <<c, m>>
    BY <1>2, <1>3, <2>1 DEF Recalls
  <2>. QED BY <2>2, <2>3, <2>4 DEF Recalls, Replied, At
<1>. QED BY <1>4 DEF Remembers, Asking

(* A patient page awaits nothing else while it awaits an answer.             *)
LEMMA AwaitsOne ==
  ASSUME OwnInv, NEW k \in calls, k.live, k.kind # "poll", k.tab \in Tabs, odd[k.tab] = {}
  PROVE  /\ OwnPage(k.tab) /\ OwnCall(k.tab, k) /\ k \in Mine(k.tab)
         /\ \A j \in Mine(k.tab) : j.kind # "poll" => j = k
<1>1. OwnPage(k.tab) BY DEF OwnInv, Clean
<1>2. k \in Mine(k.tab) BY DEF Mine
<1>. QED BY <1>1, <1>2 DEF OwnPage, Asks, Mine

(* The user acts: a patient one's page has nothing else under way.           *)
LEMMA ActTold ==
  ASSUME ChatInv, RememberedInv, NEW t \in Tabs, Act(t), tab' \in [Tabs -> PageOf],
         \A u \in Tabs \ {t} : tab'[u] = tab[u],
         calls \subseteq calls',
         \A n \in calls' : n \in calls \/ (n.tab = t /\ n.pc = "sent"),
         \A n \in calls' : n \in calls \/ (n.kind = "resume" => n.sess = tab'[t].sess),
         tab'[t].cid = tab[t].cid,
         \/ tab'[t].sess = tab[t].sess
         \/ \E n \in calls' : n.tab = t /\ n.live /\ n.kind \in {"load", "reset"},
         \A i \in tab'[t].items : Asking(i) => i \in tab[t].items
  PROVE  RememberedInv'
<1>1. /\ UNCHANGED storeVars
      /\ odd \in [Tabs -> SUBSET {"impatient", "unnamed", "late poll", "load failed"}]
      /\ odd' = IF Waits(t) THEN [odd EXCEPT ![t] = @ \cup {"impatient"}] ELSE odd
  BY DEF Act, ChatInv, BoundsInv
<1>2. conv' = conv /\ \A u \in Tabs \ {t} : odd'[u] = odd[u] BY <1>1 DEF storeVars
<1>3. \A n : n.pc = "sent" => Learned(n) /\ ~Replied(n) BY DEF Learned, Replied, At
<1>4. \A n \in calls' : n \in calls \/ (n.tab = t /\ Learned(n)) BY <1>3
<1>5. ASSUME odd'[t] = {}
      PROVE  Remembers(t)'
  <2>1. ~Waits(t) /\ odd[t] = {} BY <1>1, <1>5
  <2>2. Remembers(t) BY <2>1 DEF RememberedInv
  <2>3. \A j \in Mine(t) : j.kind = "poll" BY <2>1 DEF Waits
  <2>4. ~Switching(t) BY <2>3 DEF Switching
  <2>5. \A j \in Mine(t)' : j \in Mine(t) \/ j \notin calls BY DEF Mine
  <2>6. \A j \in Mine(t)' : j \in Mine(t) \/ ~Replied(j) BY <1>3, <2>5 DEF Mine
  <2>7. \A j \in Mine(t)' : j.kind = "resume" => j.sess = tab'[t].sess BY <2>3, <2>5 DEF Mine
  <2>8. Switching(t)' \/ tab'[t].sess = tab[t].sess
    BY DEF Switching, Mine
  <2>. QED BY <1>2, <2>2, <2>4, <2>6, <2>7, <2>8, SameQuestions
<1>. QED BY <1>1, <1>2, <1>4, <1>5, PageTold

(* The user's acts but the reload.                                         *)
LEMMA UserTold ==
  ASSUME ChatInv, ChatInv', RememberedInv, NEW t \in Tabs,
         \/ handleSubmit(t) \/ handleSelectConversation(t)
         \/ \E then : startNewConversation(t, then)
         \/ \E n \in 1..MaxActs : handleRetry(t, n) \/ handleResume(t, n)
  PROVE  RememberedInv'
<1>1. tab[t] \in PageOf /\ tab \in [Tabs -> PageOf] /\ tab' \in [Tabs -> PageOf]
  BY Before DEF ChatInv, PagesInv
<1>. PICK r0 \in PageOf : r0 = tab[t] BY <1>1
<1>. PICK m : m = acts' OBVIOUS
<1>. PICK no : no = FALSE OBVIOUS
<1>2. ASSUME NEW r \in PageOf, r.cid = r0.cid, r.sess = r0.sess, Act(t),
             sendMessage(t, m, r, no, calls),
             \A i \in r.items : Asking(i) => i \in r0.items
      PROVE  RememberedInv'
  <2>1. /\ tab'[t].cid = r.cid /\ tab'[t].sess = r.sess /\ tab'[t].items = r.items
        /\ \A u \in Tabs \ {t} : tab'[u] = tab[u]
        /\ calls \subseteq calls'
        /\ \A k \in calls' : k \in calls \/
              (k.id = m /\ k.tab = t /\ k.kind = "send" /\ k.pc = "sent" /\ k.cid = r.cid)
    <3>. PICK others : others = calls OBVIOUS
    <3>1. sendMessage(t, m, r, no, others) BY <1>2
    <3>2. /\ tab'[t].cid = r.cid /\ tab'[t].sess = r.sess /\ tab'[t].items = r.items
          /\ \A u \in Tabs \ {t} : tab'[u] = tab[u]
          /\ others \subseteq calls'
          /\ \A k \in calls' : k \in others \/
                (k.id = m /\ k.tab = t /\ k.kind = "send" /\ k.pc = "sent" /\ k.cid = r.cid)
      BY <1>1, <3>1, SentTurn
    <3>. QED BY <3>2
  <2>2. \A n \in calls' : n \in calls \/ (n.tab = t /\ n.pc = "sent" /\ n.kind # "resume") BY <2>1
  <2>. QED BY <1>1, <1>2, <2>1, <2>2, ActTold
<1>3. CASE handleSubmit(t)
  <2>. DEFINE i == <<"user", m>>
  <2>. PICK r : r = Show(r0, i) OBVIOUS
  <2>1. sendMessage(t, m, r, no, calls) /\ Act(t) BY <1>3 DEF handleSubmit
  <2>2. acts' \in 1..MaxActs BY <2>1, ActBounds
  <2>3. i \in Item /\ ~Asking(i) BY <2>2, StoreConstants DEF Item, Asking
  <2>. HIDE DEF i
  <2>4. r \in PageOf /\ r.cid = r0.cid /\ r.sess = r0.sess /\ r.items = r0.items \cup {i}
    BY <1>1, <2>3 DEF Show, PageOf
  <2>. QED BY <1>2, <2>1, <2>3, <2>4
<1>4. ASSUME NEW a \in 1..MaxActs, handleRetry(t, a)
      PROVE  RememberedInv'
  <2>. DEFINE i == <<"retry", a>>
  <2>. PICK rest : rest = r0.items \ {i} OBVIOUS
  <2>. PICK r : r = [r0 EXCEPT !.items = rest] OBVIOUS
  <2>1. sendMessage(t, m, r, no, calls) /\ Act(t) BY <1>4 DEF handleRetry
  <2>2. rest \subseteq r0.items OBVIOUS
  <2>. HIDE DEF i
  <2>3. r \in PageOf /\ r.cid = r0.cid /\ r.sess = r0.sess /\ r.items = rest
    BY <1>1, <2>2 DEF PageOf
  <2>. QED BY <1>2, <2>1, <2>2, <2>3
<1>5. ASSUME NEW then, startNewConversation(t, then)
      PROVE  RememberedInv'
  <2>. PICK n : n = [Sent(t, m, "reset") EXCEPT !.then = then] OBVIOUS
  <2>. PICK none : none = {} OBVIOUS
  <2>. PICK r : r = [r0 EXCEPT !.polls = none] OBVIOUS
  <2>1. calls' = calls \cup {n} /\ tab' = [tab EXCEPT ![t] = r] /\ Act(t)
    BY <1>5 DEF startNewConversation
  <2>2. n.tab = t /\ n.kind = "reset" /\ n.pc = "sent" BY DEF Sent
  <2>3. r.cid = r0.cid /\ r.sess = r0.sess /\ r.items = r0.items
    BY <1>1 DEF PageOf
  <2>4. tab'[t] = r /\ \A u \in Tabs \ {t} : tab'[u] = tab[u] BY <1>1, <2>1
  <2>. QED BY <1>1, <2>1, <2>2, <2>3, <2>4, ActTold
<1>6. CASE handleSelectConversation(t)
  <2>. PICK c : loadConversationHistory(t, m, c, r0, calls) BY <1>6 DEF handleSelectConversation
  <2>. PICK n : n = [Sent(t, m, "load") EXCEPT !.cid = c] OBVIOUS
  <2>. PICK none : none = {} OBVIOUS
  <2>. PICK r : r = [resetConversationScopedState(r0) EXCEPT !.polls = none] OBVIOUS
  <2>1. calls' = calls \cup {n} /\ tab' = [tab EXCEPT ![t] = r] /\ Act(t)
    BY <1>6 DEF handleSelectConversation, loadConversationHistory
  <2>2. n.tab = t /\ n.kind = "load" /\ n.pc = "sent" /\ n.live BY DEF Sent
  <2>3. r.cid = r0.cid /\ r.items = r0.items
    BY <1>1 DEF PageOf, resetConversationScopedState
  <2>4. tab'[t] = r /\ \A u \in Tabs \ {t} : tab'[u] = tab[u] BY <1>1, <2>1
  <2>. QED BY <1>1, <2>1, <2>2, <2>3, <2>4, ActTold, ZenonT(60)
<1>7. ASSUME NEW a \in 1..MaxActs, handleResume(t, a)
      PROVE  RememberedInv'
  <2>. PICK s : s = r0.sess OBVIOUS
  <2>. PICK n : n = [Sent(t, m, "resume") EXCEPT !.sess = s, !.item = a] OBVIOUS
  <2>1. calls' = calls \cup {n} /\ tab' = tab /\ Act(t) BY <1>7 DEF handleResume
  <2>2. n.tab = t /\ n.kind = "resume" /\ n.pc = "sent" /\ n.sess = s
    BY DEF Sent
  <2>. QED BY <1>1, <2>1, <2>2, ActTold
<1>. QED BY <1>3, <1>4, <1>5, <1>6, <1>7

(* What a request learned is learned of one the page no longer waits for.    *)
LEMMA OrphanLearned ==
  ASSUME NEW k \in Call, Learned(k), NEW o, o = [k EXCEPT !.live = FALSE]
  PROVE  Learned(o) /\ o.live = FALSE /\ o.tab = k.tab
<1>1. /\ o.live = FALSE /\ o.tab = k.tab /\ o.kind = k.kind /\ o.id = k.id /\ o.cid = k.cid
      /\ o.pc = k.pc /\ o.res = k.res /\ o.conv = k.conv /\ o.iv = k.iv /\ o.sess = k.sess
      /\ o.items = k.items /\ o.sessions = k.sessions
  BY DEF Call
<1>. QED BY <1>1 DEF Learned, At, Replied

(* The page is loaded again: it shows nothing.                              *)
LEMMA ReloadTold ==
  ASSUME ChatInv, RememberedInv, NEW t \in Tabs, Reload(t)
  PROVE  RememberedInv'
<1>. DEFINE orphaned == {[k EXCEPT !.live = FALSE] : k \in {j \in Mine(t) : j.pc # "answered"}}
            others == (calls \ Mine(t)) \cup orphaned
            c == tab[t].cid
            n == [Sent(t, acts', "load") EXCEPT !.cid = c]
            none == {}
            r == [resetConversationScopedState(Page(c)) EXCEPT !.polls = none]
            p == IF c = 0 THEN Page(0) ELSE r
<1>1. /\ UNCHANGED storeVars /\ odd' = [odd EXCEPT ![t] = {}] /\ tab' = [tab EXCEPT ![t] = p]
      /\ calls' = others \/ calls' = others \cup {n}
  BY DEF Reload, loadConversationHistory
<1>2. p.items = {} BY DEF Page, resetConversationScopedState
<1>3. n.tab = t /\ n.kind = "load" /\ n.pc = "sent" BY DEF Sent
<1>. HIDE DEF n, p, c
<1>4. tab \in [Tabs -> PageOf] BY Before
<1>5. odd \in [Tabs -> SUBSET {"impatient", "unnamed", "late poll", "load failed"}]
  BY DEF ChatInv, BoundsInv
<1>6. tab'[t] = p /\ \A u \in Tabs \ {t} : tab'[u] = tab[u] /\ odd'[u] = odd[u] BY <1>1, <1>4, <1>5
<1>7. \A o \in orphaned : o.tab = t /\ o.live = FALSE /\ Learned(o)
  <2>. SUFFICES ASSUME NEW k \in Mine(t), NEW o, o = [k EXCEPT !.live = FALSE]
                PROVE  o.tab = t /\ o.live = FALSE /\ Learned(o)
    OBVIOUS
  <2>1. k.tab = t /\ k \in Call /\ Learned(k) BY Before DEF Mine, RememberedInv
  <2>. QED BY <2>1, OrphanLearned
<1>. HIDE DEF orphaned
<1>8. \A k \in calls' : k = n \/ k \in orphaned \/ (k \in calls /\ k \notin Mine(t)) BY <1>1
<1>9. \A k \in calls : k \in calls' \/ k.tab = t
  <2>1. \A k \in calls : k \notin Mine(t) => k \in calls' BY <1>1
  <2>. QED BY <2>1 DEF Mine
<1>10. Learned(n) BY <1>3 DEF Learned, At, Replied
<1>11. \A k \in calls' : k \in calls \/ (k.tab = t /\ Learned(k)) BY <1>3, <1>7, <1>8, <1>10
<1>12. Remembers(t)'
  <2>1. \A k \in Mine(t)' : k = n BY <1>7, <1>8 DEF Mine
  <2>. QED BY <1>2, <1>3, <1>6, <2>1 DEF Remembers
<1>. QED BY <1>1, <1>6, <1>9, <1>11, <1>12, PageTold

(* An interval of the page asks.                                           *)
LEMMA PollTickTold ==
  ASSUME RememberedInv, NEW t \in Tabs, PollTick(t)
  PROVE  RememberedInv'
<1>1. PICK s : calls' = calls \cup {PollRead(t, s)} BY DEF PollTick
<1>. PICK n : n = PollRead(t, s) OBVIOUS
<1>2. n.tab = t /\ n.kind = "poll" BY DEF PollRead, Sent
<1>3. UNCHANGED <<storeVars, tab, odd>> /\ calls' = calls \cup {n} /\ conv' = conv
  BY <1>1 DEF PollTick, storeVars
<1>4. Learned(n) /\ ~Replied(n) BY <1>2 DEF Learned, At, Replied
<1>5. ASSUME odd'[t] = {}
      PROVE  Remembers(t)'
  <2>1. Remembers(t) BY <1>3, <1>5 DEF RememberedInv
  <2>2. \A k \in Mine(t)' : k \in Mine(t) \/ k = n BY <1>3 DEF Mine
  <2>3. Mine(t) \subseteq Mine(t)' BY <1>3 DEF Mine
  <2>4. \A k \in Mine(t)' : k.kind = "resume" => k.sess = tab'[t].sess
    BY <1>2, <1>3, <2>1, <2>2 DEF Remembers
  <2>5. Switching(t)' \/ ~Switching(t) BY <2>3 DEF Switching
  <2>6. \A k \in Mine(t)' : k \in Mine(t) \/ ~Replied(k) BY <1>4, <2>2
  <2>. QED BY <1>3, <2>1, <2>4, <2>5, <2>6, SameQuestions
<1>6. /\ \A u \in Tabs \ {t} : tab'[u] = tab[u] /\ odd'[u] = odd[u]
      /\ \A k \in calls' : k \in calls \/ (k.tab = t /\ Learned(k))
      /\ \A k \in calls : k \in calls' \/ k.tab = t
  BY <1>2, <1>3, <1>4
<1>. QED BY <1>3, <1>5, <1>6, PageTold

(* A patient page got the answer it awaited: k is over.                      *)
LEMMA AnsweredTold ==
  ASSUME ChatInv, OwnInv, RememberedInv, NEW k \in calls, k.live, k.kind # "poll",
         UNCHANGED <<storeVars>>, calls' = calls \ {k}, NEW q, tab' = [tab EXCEPT ![k.tab] = q],
         \A u \in Tabs \ {k.tab} : odd'[u] = odd[u],
         odd'[k.tab] = {} => odd[k.tab] = {},
         odd[k.tab] = {} => \A i \in q.items : Asking(i) =>
            /\ \E n : Question(q.cid, i[2], n)
            /\ \A n : Question(q.cid, i[2], n) /\ OpenIn(q.cid, n) => q.sess = <<q.cid, n>>
  PROVE  RememberedInv'
<1>. PICK t : t = k.tab OBVIOUS
<1>1. t \in Tabs /\ tab \in [Tabs -> PageOf] BY Before
<1>2. tab'[t] = q /\ \A u \in Tabs \ {t} : tab'[u] = tab[u] BY <1>1
<1>3. conv' = conv /\ Ids' = Ids BY DEF storeVars, Ids
<1>4. ASSUME odd'[t] = {}
      PROVE  Remembers(t)'
  <2>1. odd[t] = {} BY <1>4
  <2>2. \A j \in Mine(t) : j.kind # "poll" => j = k BY <1>1, <2>1, AwaitsOne
  <2>3. \A j \in Mine(t)' : j \in Mine(t) /\ j # k BY DEF Mine
  <2>4. \A j \in Mine(t)' : j.kind = "poll" BY <2>2, <2>3
  <2>5. \A j \in Mine(t)' : ~Replied(j) BY <2>4 DEF Replied, At
  <2>6. ASSUME NEW i \in q.items, Asking(i)
        PROVE  Recalls(t, i)'
    <3>. PICK c : c = q.cid OBVIOUS
    <3>1. \A m : Question(c, i[2], m)' <=> Question(c, i[2], m) BY <1>3 DEF Question
    <3>2. \A m : OpenIn(c, m)' <=> OpenIn(c, m) BY <1>3 DEF OpenIn
    <3>3. /\ \E n : Question(c, i[2], n)
          /\ \A n : Question(c, i[2], n) /\ OpenIn(c, n) => q.sess = <<c, n>>
      BY <2>1, <2>6
    <3>4. tab'[t].cid = c BY <1>2
    <3>5. \A j : Replied(j)' <=> Replied(j) BY DEF Replied, At
    <3>. QED BY <1>2, <2>5, <3>1, <3>2, <3>3, <3>4, <3>5 DEF Recalls
  <2>. QED BY <1>2, <2>4, <2>6 DEF Remembers, Asking
<1>. QED BY <1>1, <1>2, <1>4, PageTold

(* What a patient page that awaits a turn, or an interview's reply, remembers. *)
LEMMA StillTold ==
  ASSUME OwnInv, RememberedInv, NEW k \in calls, k.live, k.kind \in {"send", "resume"},
         k.tab \in Tabs, odd[k.tab] = {}, NEW i \in tab[k.tab].items, Asking(i)
  PROVE  LET c == tab[k.tab].cid
         IN  /\ c \in Ids /\ \E n : Question(c, i[2], n)
             /\ \A n : Question(c, i[2], n) /\ OpenIn(c, n) => tab[k.tab].sess = <<c, n>>
             /\ \A n : Question(c, i[2], n) /\ Replied(k) => n <= k.sess[2]
<1>1. Recalls(k.tab, i) BY DEF RememberedInv, Remembers
<1>2. k \in Mine(k.tab) /\ \A j \in Mine(k.tab) : j.kind # "poll" => j = k BY AwaitsOne
<1>3. ~Switching(k.tab) BY <1>2 DEF Switching
<1>. QED BY <1>1, <1>2, <1>3 DEF Recalls, Question

(* An act has the questions of one interview.                               *)
LEMMA OneInterview ==
  ASSUME RememberedInv, NEW c, NEW a, NEW m, NEW n, Question(c, a, m), Question(c, a, n)
  PROVE  m = n
<1>1. c \in Ids /\ Interviewed(conv[c]) BY DEF Question, RememberedInv
<1>. PICK i \in DOMAIN conv[c].msgs : m # 0 /\ conv[c].msgs[i].act = a /\ conv[c].msgs[i].sn = m
  BY DEF Question
<1>. PICK j \in DOMAIN conv[c].msgs : n # 0 /\ conv[c].msgs[j].act = a /\ conv[c].msgs[j].sn = n
  BY DEF Question
<1>. QED BY <1>1 DEF Interviewed

(* The answer to a turn: a question is of the interview it names, the newest one seen so far. *)
LEMMA SendAnsweredTold ==
  ASSUME ChatInv, OwnInv, RememberedInv, NEW k \in calls, k.live, SendAnswered(k),
         UNCHANGED <<storeVars, historyVars, acts>>
  PROVE  RememberedInv'
<1>. DEFINE t == k.tab
            r == tab[t]
            i == <<IF k.iv THEN "question" ELSE "agent", k.id>>
            unnamed == k.res # "success" /\ where[k.id] \notin {0, k.cid}
<1>1. /\ k \in Call /\ CallOK(k) /\ Knows(k) /\ Learned(k) /\ t \in Tabs /\ RowsInv
      /\ At(k, "send", "answered") /\ k.kind = "send" /\ calls' = calls \ {k}
      /\ odd \in [Tabs -> SUBSET {"impatient", "unnamed", "late poll", "load failed"}]
  BY Before DEF SendAnswered, At, OwnInv, KnowsInv, RememberedInv, ChatInv, BoundsInv
<1>2. odd' = IF unnamed THEN [odd EXCEPT ![t] = @ \cup {"unnamed"}] ELSE odd
  BY DEF SendAnswered, Note
<1>3. (\A u \in Tabs \ {t} : odd'[u] = odd[u]) /\ (odd'[t] = {} => odd[t] = {}) BY <1>1, <1>2
<1>. HIDE DEF unnamed
<1>4. ASSUME odd[t] = {}
      PROVE  /\ k.cid = r.cid
             /\ \A x \in r.items : Asking(x) =>
                  /\ r.cid \in Ids /\ \E n : Question(r.cid, x[2], n)
                  /\ \A n : Question(r.cid, x[2], n) /\ OpenIn(r.cid, n) => r.sess = <<r.cid, n>>
                  /\ \A n : Question(r.cid, x[2], n) /\ Replied(k) => n <= k.sess[2]
  <2>1. OwnCall(t, k) BY <1>1, <1>4, AwaitsOne
  <2>2. k.cid = r.cid BY <1>1, <2>1 DEF OwnCall
  <2>3. k.kind \in {"send", "resume"} BY <1>1
  <2>. QED BY <1>1, <1>4, <2>2, <2>3, StillTold
<1>5. CASE k.res = "success"
  <2>. PICK q \in PageOf :
          /\ tab' = [tab EXCEPT ![t] = q] /\ q.cid = k.conv
          /\ q.sess = IF k.iv THEN k.sess ELSE r.sess
          /\ \A x \in q.items : x \in r.items \/ x = i \/ (Notice(x) /\ k.iv /\ x[2] = k.sess[1])
    BY <1>5, SendAnsweredPage
  <2>. PICK c : c = k.conv OBVIOUS
  <2>1. where[k.id] = c /\ c # 0 /\ (k.iv => k.sess[1] = c) /\ c \in Ids
    BY <1>1, <1>5 DEF Knows, CallOK
  <2>2. k.iv => /\ Replied(k) /\ Question(c, k.id, k.sess[2]) /\ k.sess = <<c, k.sess[2]>>
                /\ k.sess[2] \in DOMAIN conv[c].sessions
    <3>. SUFFICES ASSUME k.iv
                  PROVE  /\ Replied(k) /\ Question(c, k.id, k.sess[2]) /\ k.sess = <<c, k.sess[2]>>
                         /\ k.sess[2] \in DOMAIN conv[c].sessions
      OBVIOUS
    <3>1. Replied(k) /\ Question(c, k.id, k.sess[2]) BY <1>1, <1>5 DEF Replied, Learned
    <3>2. k.sess \in Nat \X Nat BY <1>1 DEF Call
    <3>3. k.sess # NoSession /\ IsSession(k.sess) BY <1>1, <1>5 DEF CallOK
    <3>. QED BY <2>1, <3>1, <3>2, <3>3 DEF IsSession
  <2>3. DOMAIN conv[c].sessions = 1..Len(conv[c].sessions) /\ Len(conv[c].sessions) \in Nat
    BY <1>1, <2>1, RowFacts
  <2>4. ASSUME odd[t] = {}, NEW x \in q.items, Asking(x)
        PROVE  /\ \E n : Question(c, x[2], n)
               /\ \A n : Question(c, x[2], n) /\ OpenIn(c, n) => q.sess = <<c, n>>
    <3>1. CASE x \in r.items
      <4>1. r.cid \in Ids /\ k.cid = r.cid BY <1>4, <2>4, <3>1
      <4>2. c = r.cid BY <1>1, <2>1, <4>1 DEF Knows
      <4>3. \E n : Question(c, x[2], n) BY <1>4, <2>4, <3>1, <4>2
      <4>4. ASSUME NEW n, Question(c, x[2], n), OpenIn(c, n)
            PROVE  q.sess = <<c, n>>
        <5>1. r.sess = <<c, n>> /\ (Replied(k) => n <= k.sess[2]) BY <1>4, <2>4, <3>1, <4>2, <4>4
        <5>2. n = Len(conv[c].sessions) BY <4>4 DEF OpenIn
        <5>3. k.iv => n = k.sess[2] BY <2>2, <2>3, <5>1, <5>2
        <5>. QED BY <2>2, <5>1, <5>3
      <4>. QED BY <4>3, <4>4
    <3>2. CASE x = i
      <4>1. k.iv /\ x[2] = k.id BY <2>4, <3>2 DEF Asking
      <4>2. \A n : Question(c, x[2], n) => n = k.sess[2] BY <2>2, <4>1, OneInterview
      <4>. QED BY <2>2, <4>1, <4>2
    <3>3. ~Notice(x) BY <2>4 DEF Notice, Asking
    <3>. QED BY <3>1, <3>2, <3>3
  <2>5. odd[t] = {} => \A x \in q.items : Asking(x) =>
          /\ \E n : Question(q.cid, x[2], n)
          /\ \A n : Question(q.cid, x[2], n) /\ OpenIn(q.cid, n) => q.sess = <<q.cid, n>>
    BY <2>4
  <2>. QED BY <1>1, <1>3, <2>5, AnsweredTold
<1>6. CASE k.res # "success"
  <2>. PICK q \in PageOf :
          /\ tab' = [tab EXCEPT ![t] = q] /\ q.cid = r.cid /\ q.sess = r.sess
          /\ \A x \in q.items : x \in r.items \/ x = <<"retry", k.id>>
    BY <1>6, SendAnsweredPage
  <2>1. \A x \in q.items : Asking(x) => x \in r.items BY DEF Asking
  <2>2. odd[t] = {} => \A x \in q.items : Asking(x) =>
          /\ \E n : Question(q.cid, x[2], n)
          /\ \A n : Question(q.cid, x[2], n) /\ OpenIn(q.cid, n) => q.sess = <<q.cid, n>>
    BY <1>4, <2>1
  <2>. QED BY <1>1, <1>3, <2>2, AnsweredTold
<1>. QED BY <1>5, <1>6

(* A history: the newest interview is remembered unless it is over.           *)
LEMMA LoadAnsweredTold ==
  ASSUME ChatInv, OwnInv, RememberedInv, NEW k \in calls, k.live, LoadAnswered(k),
         UNCHANGED <<storeVars, historyVars, acts>>
  PROVE  RememberedInv'
<1>. DEFINE t == k.tab
<1>1. /\ t \in Tabs /\ k \in Call /\ CallOK(k) /\ Learned(k) /\ At(k, "load", "answered") /\ RowsInv
      /\ k.kind = "load" /\ calls' = calls \ {k} /\ odd' = odd /\ tab[t] \in PageOf
  BY Before DEF LoadAnswered, At, ChatInv, RememberedInv
<1>2. CASE k.res = "missing"
  <2>. DEFINE none == {}
             r == [tab[t] EXCEPT !.cid = 0, !.items = none]
  <2>1. tab' = [tab EXCEPT ![t] = r] BY <1>2 DEF LoadAnswered
  <2>2. r.items = {} BY <1>1 DEF PageOf
  <2>. HIDE DEF r
  <2>. PICK q : q = r OBVIOUS
  <2>3. tab' = [tab EXCEPT ![t] = q] /\ q.items = {} BY <2>1, <2>2
  <2>. QED BY <1>1, <2>3, AnsweredTold
<1>3. CASE k.res # "missing"
  <2>. PICK c : c = k.cid OBVIOUS
  <2>. PICK states : states = k.sessions OBVIOUS
  <2>. PICK q : /\ tab' = [tab EXCEPT ![t] = q] /\ q.cid = c
                /\ \/ states = <<>> \/ states[Len(states)] = "completed"
                   \/ q.sess = <<c, Len(states)>>
                /\ \A i \in q.items : i \in k.items \/ Notice(i)
    BY <1>3, LoadedPage
  <2>1. /\ states \in Seq(SessionState) /\ c \in Ids /\ Len(states) <= Len(conv[c].sessions)
        /\ \A i \in k.items : Asking(i) => \E n \in DOMAIN states : Question(c, i[2], n)
        /\ \A n \in DOMAIN states : states[n] = "completed" => conv[c].sessions[n] \notin Open
    BY <1>1, <1>3 DEF CallOK, Learned, Call
  <2>2. Len(states) \in Nat /\ DOMAIN states = 1..Len(states) /\ Len(conv[c].sessions) \in Nat
    BY <1>1, <2>1, RowFacts
  <2>3. ASSUME NEW i \in q.items, Asking(i)
        PROVE  /\ \E n : Question(c, i[2], n)
               /\ \A n : Question(c, i[2], n) /\ OpenIn(c, n) => q.sess = <<c, n>>
    <3>1. i \in k.items BY <2>3 DEF Notice, Asking
    <3>. PICK n \in DOMAIN states : Question(c, i[2], n) BY <2>1, <2>3, <3>1
    <3>2. ASSUME NEW m, Question(c, i[2], m), OpenIn(c, m)
          PROVE  q.sess = <<c, m>>
      <4>1. m = n BY <3>2, OneInterview
      <4>2. m = Len(conv[c].sessions) /\ conv[c].sessions[m] = "open" BY <3>2 DEF OpenIn
      <4>3. m = Len(states) /\ states # <<>> BY <2>1, <2>2, <4>1, <4>2
      <4>4. states[m] # "completed" BY <2>1, <4>1, <4>2 DEF Open
      <4>. QED BY <4>3, <4>4
    <3>. QED BY <3>2
  <2>4. q.cid = c /\ odd' = odd BY <1>1
  <2>. QED BY <1>1, <2>3, <2>4, AnsweredTold
<1>. QED BY <1>2, <1>3

(* The page that adopts a new chat shows nothing.                           *)
LEMMA AfterResetTold ==
  ASSUME ChatInv, OwnInv, RememberedInv, NEW k \in calls, k.live, k.kind = "reset",
         UNCHANGED <<storeVars, odd>>, NEW id \in Nat, NEW others, AfterReset(k, id, others),
         \A o \in others : (o \in calls /\ o # k) \/ (o.tab = k.tab /\ o.live = FALSE /\ Learned(o)),
         \A j \in calls : j \in others \/ j = k
  PROVE  RememberedInv'
<1>. PICK t : t = k.tab OBVIOUS
<1>1. t \in Tabs BY Before
<1>2. /\ tab'[t].items = {} /\ \A u \in Tabs \ {t} : tab'[u] = tab[u]
      /\ others \subseteq calls'
      /\ \A n \in calls' : n \in others \/ (n.tab = t /\ n.kind = "send" /\ n.pc = "sent")
  BY AdoptedPage
<1>3. \A n : n.kind = "send" /\ n.pc = "sent" => Learned(n) BY DEF Learned, At, Replied
<1>4. \A n \in calls' : n \in calls \/ (n.tab = t /\ Learned(n)) BY <1>2, <1>3
<1>5. ASSUME odd'[t] = {}
      PROVE  Remembers(t)'
  <2>1. \A j \in Mine(t) : j.kind # "poll" => j = k BY <1>1, <1>5, AwaitsOne
  <2>2. \A j \in Mine(t)' : (j \in Mine(t) /\ j # k) \/ j.kind = "send" BY <1>2 DEF Mine
  <2>3. \A j \in Mine(t)' : j.kind # "resume" BY <2>1, <2>2
  <2>. QED BY <1>2, <2>3 DEF Remembers
<1>6. \A j \in calls : j \in calls' \/ j.tab = t BY <1>2
<1>7. \A u \in Tabs \ {t} : tab'[u] = tab[u] /\ odd'[u] = odd[u] BY <1>2
<1>. QED BY <1>1, <1>4, <1>5, <1>6, <1>7, PageTold

(* A request that brings no question is over, or the page no longer waits for it. *)
LEMMA DropTold ==
  ASSUME ChatInv, RememberedInv, NEW k \in calls, k.live, k.kind \notin {"load", "reset"},
         UNCHANGED storeVars, NEW o, o = [k EXCEPT !.live = FALSE],
         calls' = calls \ {k} \/ calls' = (calls \ {k}) \cup {o},
         NEW q, tab' = [tab EXCEPT ![k.tab] = q],
         q.cid = tab[k.tab].cid, q.sess = tab[k.tab].sess,
         \A i \in q.items : Asking(i) => i \in tab[k.tab].items,
         \A u \in Tabs \ {k.tab} : odd'[u] = odd[u],
         odd'[k.tab] = {} => odd[k.tab] = {}
  PROVE  RememberedInv'
<1>. PICK t : t = k.tab OBVIOUS
<1>1. t \in Tabs /\ tab \in [Tabs -> PageOf] /\ k \in Call /\ Learned(k) BY Before DEF RememberedInv
<1>2. tab'[t] = q /\ \A u \in Tabs \ {t} : tab'[u] = tab[u] BY <1>1
<1>3. Learned(o) /\ o.live = FALSE /\ o.tab = t BY <1>1, OrphanLearned
<1>4. \A j \in calls' : j = o \/ (j \in calls /\ j # k) OBVIOUS
<1>5. \A j \in calls : j = k \/ j \in calls' OBVIOUS
<1>6. \A j \in Mine(t)' : j \in Mine(t) /\ j # k BY <1>3, <1>4 DEF Mine
<1>7. \A j \in Mine(t) : j = k \/ j \in Mine(t)' BY <1>5 DEF Mine
<1>8. Switching(t)' <=> Switching(t) BY <1>6, <1>7 DEF Switching
<1>9. ASSUME odd'[t] = {}
      PROVE  Remembers(t)'
  <2>1. Remembers(t) BY <1>1, <1>9 DEF RememberedInv
  <2>2. \A j \in Mine(t)' : j.kind = "resume" => j.sess = tab'[t].sess
    BY <1>2, <1>6, <2>1 DEF Remembers
  <2>3. conv' = conv BY DEF storeVars
  <2>4. tab'[t].cid = tab[t].cid /\ tab'[t].sess = tab[t].sess BY <1>2
  <2>. QED BY <1>1, <1>2, <1>6, <1>8, <2>1, <2>2, <2>3, <2>4, SameQuestions
<1>10. /\ \A j \in calls' : j \in calls \/ (j.tab = t /\ Learned(j))
       /\ \A j \in calls : j \in calls' \/ j.tab = t
       /\ \A u \in Tabs \ {t} : tab'[u] = tab[u] /\ odd'[u] = odd[u]
  BY <1>2, <1>3, <1>4, <1>5
<1>. QED BY <1>1, <1>9, <1>10, PageTold

(* A poll shows notices only.                                              *)
LEMMA PollAnsweredTold ==
  ASSUME ChatInv, RememberedInv, NEW k \in calls, k.live, PollAnswered(k),
         UNCHANGED <<storeVars, historyVars, acts>>
  PROVE  RememberedInv'
<1>. DEFINE t == k.tab
            late == k.sess \notin tab[t].polls
<1>. PICK s : s = k.sess OBVIOUS
<1>. PICK p : p = tab[t] OBVIOUS
<1>. PICK state : state = k.sessions[1] OBVIOUS
<1>. PICK q : q = polled(p, s, state) OBVIOUS
<1>1. t \in Tabs /\ p \in PageOf /\ s \in Nat \X Nat
      /\ odd \in [Tabs -> SUBSET {"impatient", "unnamed", "late poll", "load failed"}]
  BY Before DEF Call, ChatInv, BoundsInv
<1>2. /\ calls' = calls \ {k} /\ tab' = [tab EXCEPT ![t] = q] /\ k.kind = "poll"
      /\ odd' = IF late THEN [odd EXCEPT ![t] = @ \cup {"late poll"}] ELSE odd
  BY <1>1, Before DEF PollAnswered, At, Note
<1>3. q.cid = p.cid /\ q.sess = p.sess /\ \A i \in q.items : i \in p.items \/ Notice(i)
  <2>. PICK a \in PageOf : a = p BY <1>1
  <2>. PICK b \in Nat \X Nat : b = s BY <1>1
  <2>1. q = polled(a, b, state) OBVIOUS
  <2>2. q.cid = a.cid /\ q.sess = a.sess /\ \A i \in q.items : i \in a.items \/ (Notice(i) /\ i[2] = b[1])
    BY <2>1, PolledFields
  <2>. QED BY <2>2
<1>4. \A i \in q.items : Asking(i) => i \in p.items BY <1>3 DEF Asking, Notice
<1>5. (\A u \in Tabs \ {t} : odd'[u] = odd[u]) /\ (odd'[t] = {} => odd[t] = {}) BY <1>1, <1>2
<1>. PICK o : o = [k EXCEPT !.live = FALSE] OBVIOUS
<1>6. k.kind \notin {"load", "reset"} BY <1>2
<1>. QED BY <1>2, <1>3, <1>4, <1>5, <1>6, DropTold

(* The interview's question is shown, or the text is sent again.             *)
LEMMA ResumeAnsweredTold ==
  ASSUME ChatInv, OwnInv, RememberedInv, NEW k \in calls, k.live, ResumeAnswered(k),
         UNCHANGED <<storeVars, historyVars, acts>>
  PROVE  RememberedInv'
<1>. PICK t : t = k.tab OBVIOUS
<1>. DEFINE Sends(p, others) ==
              /\ tab'[t].cid = p.cid /\ tab'[t].sess = p.sess /\ tab'[t].items = p.items
              /\ \A u \in Tabs \ {t} : tab'[u] = tab[u]
              /\ others \subseteq calls'
              /\ \A n \in calls' : n \in others \/ (n.tab = t /\ n.kind = "send" /\ n.pc = "sent")
<1>0. ASSUME NEW p \in PageOf, NEW m, NEW auto, NEW others, sendMessage(t, m, p, auto, others)
      PROVE  Sends(p, others)
  <2>1. t \in Tabs /\ tab \in [Tabs -> PageOf] BY Before
  <2>. QED BY <1>0, <2>1, SentTurn
<1>. HIDE DEF Sends
<1>. PICK hid : hid = {<<"retry", k.item>>} OBVIOUS
<1>. PICK r : r = [tab[t] EXCEPT !.items = @ \ hid] OBVIOUS
<1>1. /\ k \in Call /\ Learned(k) /\ t \in Tabs /\ k.kind = "resume" /\ k.pc = "answered"
      /\ tab[t] \in PageOf /\ tab \in [Tabs -> PageOf] /\ odd' = odd
  BY Before DEF ResumeAnswered, At, RememberedInv
<1>2. r \in PageOf /\ r.cid = tab[t].cid /\ r.sess = tab[t].sess /\ r.items \subseteq tab[t].items
  BY <1>1 DEF PageOf
<1>3. odd[t] = {} =>
        /\ k.sess = tab[t].sess /\ k.sess = <<tab[t].cid, k.sess[2]>>
        /\ \A j \in Mine(t) : j.kind # "poll" => j = k
        /\ Remembers(t)
  <2>. SUFFICES ASSUME odd[t] = {}
                PROVE  /\ k.sess = tab[t].sess /\ k.sess = <<tab[t].cid, k.sess[2]>>
                       /\ \A j \in Mine(t) : j.kind # "poll" => j = k
                       /\ Remembers(t)
    OBVIOUS
  <2>1. OwnCall(t, k) /\ k \in Mine(t) /\ \A j \in Mine(t) : j.kind # "poll" => j = k
    BY <1>1, AwaitsOne
  <2>2. Remembers(t) BY <1>1 DEF RememberedInv
  <2>3. k.sess = tab[t].sess /\ k.sess[1] = tab[t].cid BY <1>1, <2>1, <2>2 DEF Remembers, OwnCall
  <2>4. k.sess \in Nat \X Nat BY <1>1 DEF Call
  <2>. QED BY <2>1, <2>2, <2>3, <2>4
<1>4. ASSUME NEW q, tab' = [tab EXCEPT ![t] = q], calls' = calls \ {k},
             q.cid = tab[t].cid, q.sess = tab[t].sess,
             \A x \in q.items : x \in tab[t].items \/ (k.res = "success" /\ x \in k.items)
      PROVE  RememberedInv'
  <2>. PICK c : c = tab[t].cid OBVIOUS
  <2>1. ASSUME odd[t] = {}, NEW x \in q.items, Asking(x)
        PROVE  /\ \E n : Question(c, x[2], n)
               /\ \A n : Question(c, x[2], n) /\ OpenIn(c, n) => q.sess = <<c, n>>
    <3>1. CASE x \in tab[t].items
      <4>1. k.kind \in {"send", "resume"} BY <1>1
      <4>2. /\ \E n : Question(c, x[2], n)
            /\ \A n : Question(c, x[2], n) /\ OpenIn(c, n) => tab[t].sess = <<c, n>>
        BY <1>1, <2>1, <3>1, <4>1, StillTold
      <4>. QED BY <1>4, <4>2
    <3>2. CASE k.res = "success" /\ x \in k.items
      <4>1. k.sess = <<c, k.sess[2]>> /\ q.sess = k.sess BY <1>3, <1>4, <2>1
      <4>2. Question(k.sess[1], x[2], k.sess[2]) BY <1>1, <3>2 DEF Learned, At
      <4>3. Question(c, x[2], k.sess[2]) BY <4>1, <4>2
      <4>4. \A n : Question(c, x[2], n) => n = k.sess[2] BY <4>3, OneInterview
      <4>. QED BY <4>1, <4>3, <4>4
    <3>. QED BY <1>4, <2>1, <3>1, <3>2
  <2>2. q.cid = c BY <1>4
  <2>3. k.kind # "poll" BY <1>1
  <2>. QED BY <1>1, <1>4, <2>1, <2>2, <2>3, AnsweredTold, ZenonT(60)
<1>5. CASE k.res = "success" /\ calls' = calls \ {k}
           /\ tab' = [tab EXCEPT ![t] = [r EXCEPT !.items = @ \cup k.items]]
  <2>. DEFINE q == [r EXCEPT !.items = @ \cup k.items]
  <2>1. q.cid = r.cid /\ q.sess = r.sess /\ q.items = r.items \cup k.items BY <1>2 DEF PageOf
  <2>2. tab' = [tab EXCEPT ![t] = q] BY <1>5
  <2>. HIDE DEF q
  <2>. PICK p : p = q OBVIOUS
  <2>3. \A x \in p.items : x \in tab[t].items \/ (k.res = "success" /\ x \in k.items)
    BY <1>2, <1>5, <2>1
  <2>. QED BY <1>2, <1>4, <1>5, <2>1, <2>2, <2>3
<1>6. CASE k.res = "not_delivered" /\ sendMessage(t, k.id, r, FALSE, calls \ {k})
  <2>. PICK no : no = FALSE OBVIOUS
  <2>. PICK m : m = k.id OBVIOUS
  <2>. PICK others : others = calls \ {k} OBVIOUS
  <2>1. sendMessage(t, m, r, no, others) BY <1>6
  <2>2. Sends(r, others)
    <3>1. r \in PageOf BY <1>2
    <3>. QED BY <1>0, <2>1, <3>1, Zenon
  <2>3. \A n : n.kind = "send" /\ n.pc = "sent" => Learned(n) /\ ~Replied(n)
    BY DEF Learned, At, Replied
  <2>4. ASSUME odd'[t] = {}
        PROVE  Remembers(t)'
    <3>1. Remembers(t) /\ \A j \in Mine(t) : j.kind # "poll" => j = k BY <1>1, <1>3, <2>4
    <3>2. ~Switching(t) BY <1>1, <3>1 DEF Switching
    <3>3. \A j \in Mine(t)' : \/ j \in Mine(t) /\ j # k
                              \/ j.kind = "send" /\ j.pc = "sent"
      BY <2>2 DEF Mine, Sends
    <3>4. \A j \in Mine(t)' : j \in Mine(t) \/ ~Replied(j) BY <2>3, <3>3
    <3>5. \A j \in Mine(t)' : j.kind # "resume" BY <3>1, <3>3
    <3>6. conv' = conv BY DEF storeVars
    <3>7. tab'[t].cid = tab[t].cid /\ tab'[t].sess = tab[t].sess BY <1>2, <2>2 DEF Sends
    <3>8. \A i \in tab'[t].items : Asking(i) => i \in tab[t].items BY <1>2, <2>2 DEF Sends
    <3>. QED BY <1>1, <3>1, <3>2, <3>4, <3>5, <3>6, <3>7, <3>8, SameQuestions
  <2>5. /\ \A j \in calls' : j \in calls \/ (j.tab = t /\ Learned(j))
        /\ \A j \in calls : j \in calls' \/ j.tab = t
        /\ \A u \in Tabs \ {t} : tab'[u] = tab[u] /\ odd'[u] = odd[u]
    BY <1>1, <2>2, <2>3 DEF Sends
  <2>. QED BY <1>1, <2>4, <2>5, PageTold
<1>7. CASE k.res = "pending" /\ calls' = calls \ {k} /\ tab' = tab
  <2>. PICK q : q = tab[t] OBVIOUS
  <2>1. tab' = [tab EXCEPT ![t] = q] BY <1>1, <1>7
  <2>. QED BY <1>4, <1>7, <2>1
<1>. QED BY <1>5, <1>6, <1>7 DEF ResumeAnswered

(* The page uses an answer.                                                *)
LEMMA DeliverTold ==
  ASSUME ChatInv, OwnInv, RememberedInv, NEW k \in calls, Deliver(k)
  PROVE  RememberedInv'
<1>1. k.live /\ UNCHANGED <<storeVars, historyVars, acts>> BY DEF Deliver
<1>2. ASSUME ResetAnswered(k)
      PROVE  RememberedInv'
  <2>. PICK id : id = k.conv OBVIOUS
  <2>. PICK others : others = calls \ {k} OBVIOUS
  <2>1. k \in Call /\ k.kind = "reset" /\ AfterReset(k, id, others) /\ odd' = odd
    BY <1>2, Before DEF ResetAnswered, At
  <2>2. id \in Nat BY <2>1 DEF Call
  <2>3. (\A o \in others : o \in calls /\ o # k) /\ \A j \in calls : j \in others \/ j = k OBVIOUS
  <2>. QED BY <1>1, <2>1, <2>2, <2>3, AfterResetTold
<1>. QED BY <1>1, <1>2, SendAnsweredTold, LoadAnsweredTold, ResumeAnsweredTold, PollAnsweredTold
         DEF Deliver

(* No response arrives: a page that waited for a history is noted, any other shows what it did. *)
LEMMA LostTold ==
  ASSUME ChatInv, OwnInv, RememberedInv, NEW k \in calls, Lost(k)
  PROVE  RememberedInv'
<1>. PICK t : t = k.tab OBVIOUS
<1>. PICK o : o = [k EXCEPT !.live = FALSE] OBVIOUS
<1>. DEFINE without == calls \ {k}
            rest == CASE k.pc = "answered" \/ k.kind = "load" -> {without}
                      [] k.pc = "sent" /\ k.kind # "load" -> {without, without \cup {o}}
                      [] OTHER -> {without \cup {o}}
<1>1. /\ k.live /\ k \in Call /\ t \in Tabs /\ tab \in [Tabs -> PageOf] /\ tab[t] \in PageOf
      /\ Learned(k) /\ UNCHANGED storeVars
      /\ odd \in [Tabs -> SUBSET {"impatient", "unnamed", "late poll", "load failed"}]
  BY Before DEF Lost, ChatInv, BoundsInv, RememberedInv
<1>2. \A cs \in rest : cs = calls \ {k} \/ cs = (calls \ {k}) \cup {o} OBVIOUS
<1>3. Learned(o) /\ o.live = FALSE /\ o.tab = t BY <1>1, OrphanLearned
<1>4. CASE k.kind = "send"
  <2>. DEFINE p == releaseBusy(tab[t], "network")
             unnamed == k.cid \notin DOMAIN conv
  <2>1. /\ tab' = [tab EXCEPT ![t] = p] /\ calls' \in rest
        /\ odd' = IF unnamed THEN [odd EXCEPT ![t] = @ \cup {"unnamed"}] ELSE odd
    BY <1>4 DEF Lost, Note
  <2>2. p.cid = tab[t].cid /\ p.sess = tab[t].sess /\ p.items = tab[t].items
    BY <1>1 DEF releaseBusy, PageOf
  <2>. HIDE DEF p, unnamed
  <2>. PICK q : q = p OBVIOUS
  <2>3. (\A u \in Tabs \ {t} : odd'[u] = odd[u]) /\ (odd'[t] = {} => odd[t] = {}) BY <1>1, <2>1
  <2>4. calls' = calls \ {k} \/ calls' = (calls \ {k}) \cup {o} BY <1>2, <2>1
  <2>5. /\ tab' = [tab EXCEPT ![t] = q] /\ q.cid = tab[t].cid /\ q.sess = tab[t].sess
        /\ \A i \in q.items : Asking(i) => i \in tab[t].items
    BY <2>1, <2>2
  <2>6. k.kind \notin {"load", "reset"} BY <1>4
  <2>. QED BY <1>1, <2>3, <2>4, <2>5, <2>6, DropTold
<1>5. CASE k.kind = "reset"
  <2>. PICK others \in rest : AfterReset(k, 0, others) /\ odd' = odd BY <1>5 DEF Lost
  <2>. PICK id \in Nat : id = 0 OBVIOUS
  <2>1. AfterReset(k, id, others) OBVIOUS
  <2>2. others = calls \ {k} \/ others = (calls \ {k}) \cup {o} BY <1>2
  <2>3. /\ \A n \in others : (n \in calls /\ n # k) \/ (n.tab = k.tab /\ n.live = FALSE /\ Learned(n))
        /\ \A j \in calls : j \in others \/ j = k
    BY <1>3, <2>2
  <2>. QED BY <1>1, <1>5, <2>1, <2>3, AfterResetTold
<1>6. CASE k.kind = "load"
  <2>1. tab' = tab /\ calls' \in rest /\ odd' = [odd EXCEPT ![t] = @ \cup {"load failed"}]
    BY <1>6 DEF Lost, Note
  <2>2. odd'[t] # {} BY <1>1, <2>1
  <2>3. calls' = calls \ {k} \/ calls' = (calls \ {k}) \cup {o} BY <1>2, <2>1
  <2>4. /\ \A j \in calls' : j \in calls \/ (j.tab = t /\ Learned(j))
        /\ \A j \in calls : j \in calls' \/ j.tab = t
        /\ \A u \in Tabs \ {t} : tab'[u] = tab[u] /\ odd'[u] = odd[u]
    BY <1>1, <1>3, <2>1, <2>3
  <2>. QED BY <1>1, <2>2, <2>4, PageTold
<1>7. CASE k.kind \in {"resume", "poll"}
  <2>. PICK q : q = tab[t] OBVIOUS
  <2>1. tab' = tab /\ calls' \in rest /\ odd' = odd BY <1>7 DEF Lost
  <2>2. calls' = calls \ {k} \/ calls' = (calls \ {k}) \cup {o} BY <1>2, <2>1
  <2>3. tab' = [tab EXCEPT ![t] = q] BY <1>1, <2>1
  <2>4. k.kind \notin {"load", "reset"} BY <1>7
  <2>. QED BY <1>1, <2>1, <2>2, <2>3, <2>4, DropTold
<1>8. k.kind \in {"send", "reset", "load", "resume", "poll"} BY <1>1 DEF Call
<1>. QED BY <1>4, <1>5, <1>6, <1>7, <1>8

(* The tabs open and show nothing; the first rows were made by this code.     *)
LEMMA InitTold == Init => RememberedInv
<1>. SUFFICES ASSUME Init
              PROVE  RememberedInv
  OBVIOUS
<1>1. \A c \in Ids : Interviewed(conv[c]) BY StoreConstants DEF Init, Ids
<1>2. PICK ids \in Stored :
        /\ tab = [t \in Tabs |-> Page(ids[t])]
        /\ calls = {[Sent(t, 0, "load") EXCEPT !.cid = ids[t]] : t \in {u \in Tabs : ids[u] # 0}}
  BY DEF Init
<1>3. \A k \in calls : k.kind = "load" /\ k.pc = "sent" BY <1>2 DEF Sent
<1>4. \A k \in calls : Learned(k) BY <1>3 DEF Learned, At, Replied
<1>5. \A t \in Tabs : tab[t].items = {} BY <1>2 DEF Page
<1>6. \A t \in Tabs : Remembers(t) BY <1>3, <1>5 DEF Remembers, Mine
<1>. QED BY <1>1, <1>4, <1>6 DEF RememberedInv

(* Every step, and a step that changes nothing.                            *)
LEMMA NextTold == ChatInv /\ OwnInv /\ RememberedInv /\ [Next]_vars => RememberedInv'
<1>. SUFFICES ASSUME ChatInv, OwnInv, RememberedInv, [Next]_vars
              PROVE  RememberedInv'
  OBVIOUS
<1>1. ChatInv' /\ OwnInv' BY NextInv, NextOwn
<1>2. ASSUME NEW t \in Tabs, User(t)
      PROVE  RememberedInv'
  <2>1. CASE Reload(t) BY <2>1, ReloadTold
  <2>2. CASE ~Reload(t)
    <3>1. \/ handleSubmit(t) \/ handleSelectConversation(t)
          \/ \E then : startNewConversation(t, then)
          \/ \E n \in 1..MaxActs : handleRetry(t, n) \/ handleResume(t, n)
      BY <1>2, <2>2 DEF User, handleNewChat, handleSelectAgent, handleActivateCapability
    <3>. QED BY <1>1, <3>1, UserTold
  <2>. QED BY <2>1, <2>2
<1>3. CASE \E t \in Tabs : PollStep(t) BY <1>3, PollTickTold, DeliverTold DEF PollStep
<1>4. CASE Progress BY <1>1, <1>4, ServeStepTold, DeliverTold DEF Progress
<1>5. CASE Settles BY <1>1, <1>5, SettlesTold
<1>6. CASE \E k \in calls : Lost(k) BY <1>6, LostTold
<1>7. CASE UNCHANGED vars
  <2>1. UNCHANGED <<conv, calls, tab, odd>> /\ Ids' = Ids
    BY <1>7 DEF vars, storeVars, historyVars, Ids
  <2>2. \A c, a, n : Question(c, a, n)' <=> Question(c, a, n) BY <2>1 DEF Question
  <2>3. \A k : Learned(k)' <=> Learned(k) BY <2>1, <2>2 DEF Learned, Turned, At, Replied, Asking
  <2>4. \A t \in Tabs : Mine(t)' = Mine(t) BY <2>1 DEF Mine
  <2>5. \A t \in Tabs : \A i : Recalls(t, i) => Recalls(t, i)'
    <3>1. \A t \in Tabs : Switching(t)' <=> Switching(t) BY <2>4 DEF Switching
    <3>2. \A c, m : OpenIn(c, m)' <=> OpenIn(c, m) BY <2>1 DEF OpenIn
    <3>. QED BY <2>1, <2>2, <2>4, <3>1, <3>2 DEF Recalls, Replied, At
  <2>6. \A t \in Tabs : Remembers(t) => Remembers(t)' BY <2>1, <2>4, <2>5 DEF Remembers, Asking
  <2>. QED BY <2>1, <2>3, <2>6 DEF RememberedInv
<1>. QED BY <1>2, <1>3, <1>4, <1>5, <1>6, <1>7 DEF Next, Done

(* SendAnswered, restored, resume_turn: a page that shows a question of the interview that is    *)
(* open in its conversation remembers that interview, so that after a timeout "Check for reply"   *)
(* looks for the reply and the answer is not sent again; unless the page awaits another            *)
(* conversation, or odd says why it is a mixture.                          *)
THEOREM InterviewIsRemembered == Spec => []InterviewRemembered
<1>1. ChatInv /\ OwnInv /\ RememberedInv /\ [Next]_vars => (ChatInv /\ OwnInv /\ RememberedInv)'
  BY NextInv, NextOwn, NextTold
<1>2. Init => ChatInv /\ OwnInv /\ RememberedInv BY InitInv, InitOwn, InitTold
<1>3. ChatInv /\ RememberedInv => InterviewRemembered
  <2>. SUFFICES ASSUME ChatInv, RememberedInv, NEW t \in Tabs, odd[t] = {}, ~Switching(t),
                       tab[t].cid \in Ids,
                       NEW c, c = tab[t].cid, NEW n, n = Len(conv[c].sessions),
                       IsOpen(conv[c]), conv[c].sessions[n] = "open",
                       NEW i \in DOMAIN conv[c].msgs, conv[c].msgs[i].sn = n,
                       ShownAs(conv[c].msgs[i]) \in tab[t].items
                PROVE  tab[t].sess = <<c, n>>
    BY ZenonT(60) DEF InterviewRemembered, Newest, State
  <2>1. RowsInv /\ c \in Ids BY DEF ChatInv
  <2>2. n \in Nat /\ DOMAIN conv[c].sessions = 1..n /\ n # 0
    <3>1. conv[c].sessions \in Seq(SessionState) BY <2>1, RowFacts
    <3>2. conv[c].sessions # <<>> BY DEF IsOpen
    <3>. QED BY <3>1, <3>2
  <2>. PICK m : m = conv[c].msgs[i] OBVIOUS
  <2>. PICK x : x = ShownAs(m) OBVIOUS
  <2>3. Interviewed(conv[c]) BY <2>1 DEF RememberedInv
  <2>4. m.role = "agent" /\ m.sn = n BY <2>2, <2>3 DEF Interviewed
  <2>5. x = <<"question", m.act>> BY <2>2, <2>4 DEF ShownAs
  <2>6. Asking(x) /\ x[2] = m.act /\ x \in tab[t].items BY <2>5 DEF Asking
  <2>7. Recalls(t, x) BY <2>6 DEF RememberedInv, Remembers
  <2>8. Question(c, x[2], n) BY <2>1, <2>2, <2>4, <2>6 DEF Question
  <2>9. OpenIn(c, n) BY <2>1, <2>2 DEF OpenIn
  <2>. QED BY <2>7, <2>8, <2>9 DEF Recalls
<1>. QED BY <1>1, <1>2, <1>3, PTL DEF Spec
=============================================================================
