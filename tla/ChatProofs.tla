----------------------------- MODULE ChatProofs -----------------------------
(***************************************************************************)
(* The conversations of a user and the chat page, for any number of tabs,   *)
(* rows and acts.                                                          *)
(*                                                                          *)
(* ChatInv is inductive.  It adds to the properties what a request that is  *)
(* under way knows (CallOK): its conversation, its interview and the rows    *)
(* its answer will put on the page exist; that a row's title, flag and       *)
(* messages agree (RowOK); that a reset which found no empty conversation is *)
(* still right about it (EmptyInv); and that a page which awaits a turn is    *)
(* busy and awaits one (BusyInv).                                           *)
(***************************************************************************)
EXTENDS ChatProps, FiniteSetTheorems, SequenceTheorems, WellFoundedInduction, TLAPS

\* A request knows what its next step needs.
CallOK(k) ==
  /\ k \in Call /\ k.conv \in Ids \cup {0} /\ IsSession(k.sess) /\ k.cid \in Ids \cup {0, Stale}
  /\ k.kind \in {"send", "reset", "resume"} => k.id # 0
  /\ At(k, "send", "handling") => k.conv \in Ids /\ (k.iv => conv[k.conv].sessions # <<>>)
  /\ At(k, "send", "answered") /\ k.res = "success" /\ k.iv => k.sess # NoSession
  /\ k.kind \in {"poll", "resume"} => k.sess # NoSession
  /\ At(k, "load", "answered") /\ k.res # "missing" =>
       k.cid \in Ids /\ Len(k.sessions) <= Len(conv[k.cid].sessions)
CallsInv == \A k \in calls : CallOK(k)

\* A page names rows and sessions that exist.
PageOK(r) ==
  /\ r \in PageOf /\ r.cid \in Ids \cup {0, Stale} /\ IsSession(r.sess)
  /\ \A s \in r.polls : s # NoSession /\ IsSession(s)
PagesInv == tab \in [Tabs -> PageOf] /\ \A t \in Tabs : PageOK(tab[t])

\* The rows, and the order of their last activity.
RowOK(row) ==
  /\ Titled(row)
  /\ row.sessions # <<>> => From(row, {"user", "auto"}) # {}
  /\ \A i \in From(row, {"user"}) : row.msgs[i].act # 0
RowsInv ==
  /\ conv \in Seq(Row) /\ \A c \in Ids : RowOK(conv[c])
  /\ recent \in Seq(Ids) /\ Len(recent) = Len(conv) /\ {recent[i] : i \in DOMAIN recent} = Ids

\* As long as no two resets insert, there is one empty row at most, and none for which a
\* reset that is about to insert did not look.
Inserts(k) == At(k, "reset", "commit") /\ k.conv = 0
EmptyInv ==
  /\ raced \in BOOLEAN
  /\ ~raced => \A c, d \in Ids : Empty(c) /\ Empty(d) => c = d
  /\ ~raced /\ (\E k \in calls : Inserts(k)) => \A c \in Ids : ~Empty(c)

\* A page that awaits a turn is busy, and awaits one.
Awaited(k) == k.kind = "send" /\ k.live
BusyIn(cs, pages) ==
  /\ \A k \in cs : Awaited(k) => pages[k.tab].busy
  /\ \A j, k \in cs : Awaited(j) /\ Awaited(k) /\ j.tab = k.tab => j = k
BusyInv == BusyIn(calls, tab)

BoundsInv ==
  /\ odd \in [Tabs -> SUBSET {"impatient", "unnamed", "late poll", "load failed"}]
  /\ acts \in 0..MaxActs /\ lost \in 0..MaxLost
ChatInv == RowsInv /\ CallsInv /\ PagesInv /\ EmptyInv /\ BusyInv /\ BoundsInv
-----------------------------------------------------------------------------
(* Sets of positions.                                                      *)

Less == {pair \in Nat \X Nat : pair[1] < pair[2]}
(* A set of numbers that is not empty has a least element.                 *)
LEMMA LeastNumber ==
  ASSUME NEW T \in SUBSET Nat, T # {}
  PROVE  \E x \in T : \A y \in T : x <= y
<1>1. IsWellFoundedOn(Less, Nat)
  BY NatLessThanWellFounded, Zenon DEF OpToRel, Less
<1>2. PICK x \in T : \A y \in T : <<y, x>> \notin Less
  BY <1>1, WFMin
<1>3. ASSUME NEW y \in T
      PROVE  x <= y
  <2>. SUFFICES ASSUME y < x
                PROVE  <<y, x>> \in Less
    BY <1>2
  <2>1. <<y, x>> \in Nat \X Nat /\ <<y, x>>[1] < <<y, x>>[2] OBVIOUS
  <2>. QED BY <2>1, Zenon DEF Less
<1>. QED BY <1>3, Zenon
(* Min and Max of a set of positions are what they say.                    *)
LEMMA MinOf ==
  ASSUME NEW T \in SUBSET Nat, T # {}
  PROVE  Min(T) \in T /\ \A y \in T : Min(T) <= y
BY LeastNumber DEF Min
LEMMA MaxOf ==
  ASSUME NEW n \in Nat, NEW T \in SUBSET (0..n), T # {}
  PROVE  Max(T) \in T /\ \A y \in T : Max(T) >= y
<1>. DEFINE D == {d \in 0..n : n - d \in T}
<1>1. D \in SUBSET Nat OBVIOUS
<1>2. D # {}
  <2>1. PICK x \in T : TRUE OBVIOUS
  <2>2. n - x \in 0..n /\ n - (n - x) = x BY <2>1
  <2>. QED BY <2>2
<1>3. PICK d \in D : \A e \in D : d <= e
  <2>. HIDE DEF D
  <2>. QED BY <1>1, <1>2, LeastNumber
<1>4. ASSUME NEW y \in T
      PROVE  n - d >= y
  <2>1. n - y \in 0..n /\ n - (n - y) = y BY <1>4
  <2>2. n - y \in D BY <2>1
  <2>3. d \in 0..n OBVIOUS
  <2>. HIDE DEF D
  <2>4. d <= n - y BY <1>3, <2>2
  <2>. QED BY <2>1, <2>3, <2>4
<1>5. \E x \in T : \A y \in T : x >= y BY <1>3, <1>4
<1>. QED BY <1>5 DEF Max

(* Appending adds one position.                                            *)
LEMMA Appended ==
  ASSUME NEW S, NEW s \in Seq(S), NEW e \in S
  PROVE  /\ Append(s, e) \in Seq(S) /\ Len(Append(s, e)) = Len(s) + 1 /\ Len(s) \in Nat
         /\ DOMAIN s = 1..Len(s) /\ DOMAIN Append(s, e) = 1..(Len(s) + 1)
         /\ Append(s, e) # <<>>
         /\ \A i \in 1..Len(s) : Append(s, e)[i] = s[i]
         /\ Append(s, e)[Len(s) + 1] = e
<1>1. Len(Append(s, e)) = Len(s) + 1 /\ Len(s) \in Nat OBVIOUS
<1>. QED BY <1>1

(* touch: the order keeps its elements and has the conversation once more   *)
(* at most.                                                                *)
LEMMA Touched ==
  ASSUME NEW S, NEW s \in Seq(S), NEW c,
         {s[i] : i \in DOMAIN s} = S
  PROVE  LET r == touched(s, c)
         IN  /\ r \in Seq(S \cup {c}) /\ {r[i] : i \in DOMAIN r} = S \cup {c}
             /\ Len(r) = IF c \in S THEN Len(s) ELSE Len(s) + 1
<1>. DEFINE r == touched(s, c)
<1>0. Len(s) \in Nat /\ DOMAIN s = 1..Len(s) /\ s \in Seq(S \cup {c}) OBVIOUS
<1>1. CASE c \in S
  <2>1. \E p \in DOMAIN s : s[p] = c BY <1>1
  <2>. DEFINE p == CHOOSE q \in DOMAIN s : s[q] = c
             k == cutOut(s, p)
  <2>2. p \in 1..Len(s) /\ s[p] = c BY <2>1, <1>0
  <2>3. r = Append(k, c) BY <2>1 DEF touched
  <2>. HIDE DEF p
  <2>4. k \in Seq(S) /\ Len(k) = Len(s) - 1
    <3>1. \A i \in 1..(Len(s) - 1) : s[IF i < p THEN i ELSE i + 1] \in S BY <2>2, <1>0
    <3>. QED BY <3>1, <1>0, <2>2 DEF cutOut
  <2>5. \A i \in 1..(Len(s) - 1) : k[i] = s[IF i < p THEN i ELSE i + 1] BY DEF cutOut
  <2>. HIDE DEF k
  <2>6. r \in Seq(S) /\ Len(r) = Len(s) /\ DOMAIN r = 1..Len(s)
    BY <2>3, <2>4, <1>0, <1>1, Appended
  <2>7. \A i \in 1..(Len(s) - 1) : r[i] = s[IF i < p THEN i ELSE i + 1]
    <3>1. \A i \in 1..Len(k) : r[i] = k[i] BY <2>3, <2>4, <1>1, Appended
    <3>. QED BY <3>1, <2>4, <2>5, <1>0
  <2>8. r[Len(s)] = c BY <2>3, <2>4, <1>0, <1>1, Appended
  <2>. HIDE DEF r
  <2>9. ASSUME NEW x \in S
        PROVE  \E i \in 1..Len(s) : r[i] = x
    <3>1. PICK j \in 1..Len(s) : s[j] = x BY <1>0
    <3>2. CASE x = c BY <3>2, <2>2, <2>8, <1>0
    <3>3. CASE x # c /\ j < p
      <4>1. j \in 1..(Len(s) - 1) BY <3>3, <2>2, <1>0
      <4>. QED BY <4>1, <3>1, <3>3, <2>7, <1>0
    <3>4. CASE x # c /\ j > p
      <4>1. j - 1 \in 1..(Len(s) - 1) /\ ~(j - 1 < p) /\ (j - 1) + 1 = j BY <3>4, <2>2, <1>0
      <4>2. r[j - 1] = s[j] BY <4>1, <2>7
      <4>3. j - 1 \in 1..Len(s) BY <4>1, <1>0
      <4>. QED BY <4>2, <4>3, <3>1
    <3>. QED BY <3>2, <3>3, <3>4, <3>1, <2>2
  <2>10. \A i \in 1..Len(s) : r[i] \in S BY <2>6
  <2>11. {r[i] : i \in DOMAIN r} = S BY <2>6, <2>9, <2>10
  <2>. QED BY <2>6, <2>11, <1>1 DEF r
<1>2. CASE c \notin S
  <2>1. ~\E p \in DOMAIN s : s[p] = c BY <1>2
  <2>2. r = Append(s, c) BY <2>1 DEF touched
  <2>3. /\ r \in Seq(S \cup {c}) /\ Len(r) = Len(s) + 1 /\ DOMAIN r = 1..(Len(s) + 1)
        /\ \A i \in 1..Len(s) : r[i] = s[i]
        /\ r[Len(s) + 1] = c
    BY <2>2, <1>0, Appended
  <2>. HIDE DEF r
  <2>4. ASSUME NEW x \in S \cup {c}
        PROVE  \E i \in DOMAIN r : r[i] = x
    <3>1. CASE x = c BY <3>1, <2>3, <1>0
    <3>2. CASE x \in S
      <4>1. PICK j \in 1..Len(s) : s[j] = x BY <3>2, <1>0
      <4>. QED BY <4>1, <2>3, <1>0
    <3>. QED BY <3>1, <3>2
  <2>5. \A i \in DOMAIN r : r[i] \in S \cup {c} BY <2>3
  <2>6. {r[i] : i \in DOMAIN r} = S \cup {c} BY <2>4, <2>5
  <2>. QED BY <2>3, <2>6, <1>2 DEF r
<1>. QED BY <1>1, <1>2

(* A set whose elements are all equal has one at most.                     *)
LEMMA AtMostOne ==
  ASSUME NEW S, \A x, y \in S : x = y
  PROVE  Cardinality(S) <= 1
<1>1. CASE S = {} BY <1>1, FS_EmptySet
<1>2. CASE S # {}
  <2>1. PICK x : S = {x} BY <1>2
  <2>2. Cardinality({x}) = 1 BY FS_Singleton
  <2>. QED BY <2>1, <2>2
<1>. QED BY <1>1, <1>2
-----------------------------------------------------------------------------
(* Rows.                                                                   *)

(* The messages of some roles, before and after one more.                  *)
LEMMA FromAppended ==
  ASSUME NEW row \in Row, NEW m \in Message, NEW new, new.msgs = Append(row.msgs, m), NEW roles
  PROVE  /\ From(row, roles) \in SUBSET (1..Len(row.msgs)) /\ Len(row.msgs) \in Nat
         /\ From(new, roles) =
              From(row, roles) \cup (IF m.role \in roles THEN {Len(row.msgs) + 1} ELSE {})
         /\ \A i \in From(row, roles) : new.msgs[i] = row.msgs[i]
         /\ new.msgs[Len(row.msgs) + 1] = m
         /\ new.msgs \in Seq(Message) /\ new.msgs # <<>>
<1>. DEFINE n == Len(row.msgs)
<1>1. row.msgs \in Seq(Message) BY DEF Row
<1>2. /\ new.msgs \in Seq(Message) /\ n \in Nat /\ new.msgs # <<>>
      /\ DOMAIN row.msgs = 1..n /\ DOMAIN new.msgs = 1..(n + 1)
      /\ \A i \in 1..n : new.msgs[i] = row.msgs[i]
      /\ new.msgs[n + 1] = m
  BY <1>1, Appended
<1>. HIDE DEF n
<1>3. From(row, roles) \in SUBSET (1..n) BY <1>2 DEF From
<1>4. ASSUME NEW i
      PROVE  i \in From(new, roles) <=>
               i \in From(row, roles) \/ (m.role \in roles /\ i = n + 1)
  <2>1. i \in From(new, roles) <=> i \in 1..(n + 1) /\ new.msgs[i].role \in roles
    BY <1>2 DEF From
  <2>2. i \in From(row, roles) <=> i \in 1..n /\ row.msgs[i].role \in roles
    BY <1>2 DEF From
  <2>3. i \in 1..(n + 1) <=> i \in 1..n \/ i = n + 1 BY <1>2
  <2>4. n + 1 \notin 1..n BY <1>2
  <2>. QED BY <2>1, <2>2, <2>3, <2>4, <1>2
<1>. QED BY <1>2, <1>3, <1>4 DEF n

(* A message that nobody typed does not touch the title.                   *)
LEMMA SaidOther ==
  ASSUME NEW row \in Row, RowOK(row), NEW m \in Message, m.role # "user",
         NEW new, new.msgs = Append(row.msgs, m), new.title = row.title, new.flag = row.flag
  PROVE  Titled(new) /\ \A i \in From(new, {"user"}) : new.msgs[i].act # 0
<1>1. /\ From(row, {"user"}) \in SUBSET (1..Len(row.msgs)) /\ Len(row.msgs) \in Nat
      /\ From(new, {"user"}) = From(row, {"user"})
      /\ \A i \in From(row, {"user"}) : new.msgs[i] = row.msgs[i]
  <2>. DEFINE users == {"user"}
  <2>1. m.role \notin users OBVIOUS
  <2>. HIDE DEF users
  <2>2. /\ From(row, users) \in SUBSET (1..Len(row.msgs)) /\ Len(row.msgs) \in Nat
        /\ From(new, users) =
             From(row, users) \cup (IF m.role \in users THEN {Len(row.msgs) + 1} ELSE {})
        /\ \A i \in From(row, users) : new.msgs[i] = row.msgs[i]
    BY FromAppended
  <2>. QED BY <2>1, <2>2 DEF users
<1>2. From(row, {"user"}) # {} => Min(From(row, {"user"})) \in From(row, {"user"})
  BY <1>1, MinOf
<1>. QED BY <1>1, <1>2 DEF RowOK, Titled

(* Before the first typed message the title is free; it decides it.        *)
LEMMA SaidTyped ==
  ASSUME NEW row \in Row, RowOK(row), NEW act \in 1..MaxActs, NEW new,
         new.msgs = Append(row.msgs, Msg("user", act, 0)),
         LET titled == replace_placeholder_title(coalesced(row, act), act)
         IN  new.title = titled.title /\ new.flag = titled.flag
  PROVE  Titled(new) /\ \A i \in From(new, {"user"}) : new.msgs[i].act # 0
<1>. DEFINE n == Len(row.msgs)
            typed == From(row, {"user"})
            m == Msg("user", act, 0)
<1>0. /\ MaxActs \in Nat /\ Generated = MaxActs + 1 /\ row.title \in 0..Generated
      /\ row.flag \in BOOLEAN
  BY StoreConstants DEF Generated, Row
<1>1. m \in Message /\ m.role = "user" /\ m.act = act BY <1>0 DEF Message, Msg
<1>2. /\ typed \in SUBSET (1..n) /\ n \in Nat
      /\ From(new, {"user"}) = typed \cup {n + 1}
      /\ \A i \in typed : new.msgs[i] = row.msgs[i]
      /\ new.msgs[n + 1] = m
  BY <1>1, FromAppended
<1>3. CASE typed = {}
  <2>1. new.title = act /\ new.flag = FALSE
    BY <1>0, <1>3 DEF RowOK, Titled, replace_placeholder_title, coalesced, Row
  <2>2. From(new, {"user"}) = {n + 1} BY <1>2, <1>3
  <2>3. Min({n + 1}) = n + 1 BY <1>2 DEF Min
  <2>. HIDE DEF m
  <2>4. new.msgs[n + 1].act = act /\ act # 0 BY <1>1, <1>2, <1>0
  <2>5. Titled(new)
    <3>1. ~new.flag BY <2>1
    <3>2. new.title = new.msgs[Min(From(new, {"user"}))].act BY <2>1, <2>2, <2>3, <2>4
    <3>. QED BY <3>1, <3>2, <2>2 DEF Titled
  <2>. QED BY <2>2, <2>4, <2>5
<1>4. CASE typed # {}
  <2>1. Min(typed) \in typed /\ \A i \in typed : Min(typed) <= i BY <1>2, <1>4, MinOf
  <2>2. row.flag = FALSE /\ row.title = row.msgs[Min(typed)].act /\ row.title # 0
    BY <1>4, <1>0, <2>1 DEF RowOK, Titled
  <2>3. new.title = row.title /\ new.flag = FALSE
    BY <2>2 DEF replace_placeholder_title, coalesced
  <2>4. Min(typed \cup {n + 1}) = Min(typed)
    <3>. DEFINE T == typed \cup {n + 1}
    <3>1. T \in SUBSET Nat /\ T # {} BY <1>2
    <3>2. Min(T) \in T /\ \A i \in T : Min(T) <= i
      <4>. HIDE DEF T
      <4>. QED BY <3>1, MinOf
    <3>3. Min(typed) \in 1..n BY <2>1, <1>2
    <3>4. Min(T) <= Min(typed) /\ Min(T) \in Nat BY <3>1, <3>2, <2>1
    <3>5. Min(T) # n + 1 BY <3>3, <3>4, <1>2
    <3>6. Min(typed) <= Min(T) BY <3>2, <3>5, <2>1
    <3>. QED BY <3>3, <3>4, <3>6
  <2>. HIDE DEF m, typed
  <2>5. \A i \in typed : row.msgs[i].act # 0 BY DEF RowOK, typed
  <2>6. Titled(new)
    <3>1. ~new.flag BY <2>3
    <3>2. new.title = new.msgs[Min(From(new, {"user"}))].act
      <4>1. Min(From(new, {"user"})) = Min(typed) BY <1>2, <2>4
      <4>2. new.msgs[Min(typed)] = row.msgs[Min(typed)] BY <1>2, <2>1
      <4>. QED BY <4>1, <4>2, <2>2, <2>3
    <3>3. From(new, {"user"}) # {} BY <1>2
    <3>. QED BY <3>1, <3>2, <3>3 DEF Titled
  <2>7. ASSUME NEW i \in From(new, {"user"})
        PROVE  new.msgs[i].act # 0
    <3>1. CASE i \in typed BY <3>1, <2>5, <1>2
    <3>2. CASE i = n + 1 BY <3>2, <1>0, <1>1, <1>2
    <3>. QED BY <3>1, <3>2, <1>2
  <2>. QED BY <2>6, <2>7
<1>. QED BY <1>3, <1>4

(* A generated title is given to a row that has none.                      *)
LEMMA Placeholder ==
  ASSUME NEW row \in Row, RowOK(row)
  PROVE  LET new == set_placeholder_title(row)
         IN  RowOK(new) /\ new \in Row /\ new.msgs = row.msgs /\ new.sessions = row.sessions
             /\ new.lock = row.lock
<1>. DEFINE new == set_placeholder_title(row)
<1>0. /\ MaxActs \in Nat /\ Generated = MaxActs + 1 /\ Generated \in 0..Generated
  BY StoreConstants DEF Generated
<1>1. new \in Row /\ new.msgs = row.msgs /\ new.sessions = row.sessions /\ new.lock = row.lock
  BY <1>0 DEF set_placeholder_title, Row
<1>2. row.title # 0 => new.title = row.title /\ new.flag = row.flag
  BY DEF set_placeholder_title
<1>3. row.title = 0 => new.title = Generated /\ new.flag = TRUE
  BY DEF set_placeholder_title, Row
<1>4. From(row, {"user"}) \in SUBSET Nat
  <2>1. row.msgs \in Seq(Message) BY DEF Row
  <2>. QED BY <2>1 DEF From
<1>5. row.title = 0 => From(row, {"user"}) = {} BY <1>4, MinOf DEF RowOK, Titled
<1>6. \A roles : From(new, roles) = From(row, roles) BY <1>1 DEF From
<1>. HIDE DEF new
<1>7. Titled(new) BY <1>1, <1>2, <1>3, <1>5, <1>6 DEF RowOK, Titled
<1>8. RowOK(new) BY <1>1, <1>6, <1>7 DEF RowOK
<1>. QED BY <1>1, <1>8 DEF new

(* What is said of a row does not depend on its lock, nor on the states of   *)
(* its sessions.                                                           *)
LEMMA SameRow ==
  ASSUME NEW row, RowOK(row), NEW new, new.msgs = row.msgs, new.title = row.title,
         new.flag = row.flag, new.sessions # <<>> => row.sessions # <<>>
  PROVE  RowOK(new)
<1>1. \A roles : From(new, roles) = From(row, roles) BY DEF From
<1>2. Titled(new) BY <1>1 DEF RowOK, Titled
<1>. QED BY <1>1, <1>2 DEF RowOK
-----------------------------------------------------------------------------
(* Pages.                                                                  *)

(* What is done to a page leaves it sound, and does not touch the busy flag *)
(* unless it says so.                                                      *)
LEMMA PageFields ==
  ASSUME NEW r, PageOK(r)
  PROVE  /\ \A i \in Item : PageOK(Show(r, i)) /\ Show(r, i).busy = r.busy
         /\ \A kind : PageOK(Hide(r, kind)) /\ Hide(r, kind).busy = r.busy
         /\ PageOK(resetConversationScopedState(r))
         /\ resetConversationScopedState(r).busy = r.busy
         /\ \A b \in BOOLEAN : PageOK([r EXCEPT !.key = b]) /\ [r EXCEPT !.key = b].busy = r.busy
         /\ \A b \in BOOLEAN : PageOK([r EXCEPT !.busy = b]) /\ [r EXCEPT !.busy = b].busy = b
         /\ \A items \in SUBSET Item :
              PageOK([r EXCEPT !.items = items]) /\ [r EXCEPT !.items = items].busy = r.busy
         /\ \A c \in Ids \cup {0, Stale} : c \in Nat \cup {Stale} =>
              PageOK([r EXCEPT !.cid = c]) /\ [r EXCEPT !.cid = c].busy = r.busy
         /\ \A s \in Nat \X Nat : IsSession(s) =>
              PageOK([r EXCEPT !.sess = s]) /\ [r EXCEPT !.sess = s].busy = r.busy
         /\ \A S \in SUBSET r.polls :
              PageOK([r EXCEPT !.polls = S]) /\ [r EXCEPT !.polls = S].busy = r.busy
         /\ \A s \in Nat \X Nat : IsSession(s) /\ s # NoSession =>
              PageOK([r EXCEPT !.polls = @ \cup {s}]) /\ [r EXCEPT !.polls = @ \cup {s}].busy = r.busy
<1>. USE DEF PageOK, PageOf
<1>0. NoSession \in Nat \X Nat /\ IsSession(NoSession) BY DEF NoSession, IsSession
<1>1. \A i \in Item : PageOK(Show(r, i)) /\ Show(r, i).busy = r.busy BY DEF Show
<1>2. \A kind : PageOK(Hide(r, kind)) /\ Hide(r, kind).busy = r.busy BY DEF Hide
<1>3. PageOK(resetConversationScopedState(r)) /\ resetConversationScopedState(r).busy = r.busy
  BY <1>0 DEF resetConversationScopedState
<1>4. \A b \in BOOLEAN : PageOK([r EXCEPT !.key = b]) /\ [r EXCEPT !.key = b].busy = r.busy
  OBVIOUS
<1>5. \A b \in BOOLEAN : PageOK([r EXCEPT !.busy = b]) /\ [r EXCEPT !.busy = b].busy = b
  OBVIOUS
<1>6. \A items \in SUBSET Item :
         PageOK([r EXCEPT !.items = items]) /\ [r EXCEPT !.items = items].busy = r.busy
  OBVIOUS
<1>7. \A c \in Ids \cup {0, Stale} : c \in Nat \cup {Stale} =>
         PageOK([r EXCEPT !.cid = c]) /\ [r EXCEPT !.cid = c].busy = r.busy
  OBVIOUS
<1>8. \A s \in Nat \X Nat : IsSession(s) =>
         PageOK([r EXCEPT !.sess = s]) /\ [r EXCEPT !.sess = s].busy = r.busy
  OBVIOUS
<1>9. \A S \in SUBSET r.polls :
         PageOK([r EXCEPT !.polls = S]) /\ [r EXCEPT !.polls = S].busy = r.busy
  OBVIOUS
<1>10. \A s \in Nat \X Nat : IsSession(s) /\ s # NoSession =>
         PageOK([r EXCEPT !.polls = @ \cup {s}]) /\ [r EXCEPT !.polls = @ \cup {s}].busy = r.busy
  OBVIOUS
<1>. HIDE DEF PageOK, PageOf
<1>. QED BY <1>1, <1>2, <1>3, <1>4, <1>5, <1>6, <1>7, <1>8, <1>9, <1>10

(* The notices of an interview's end.                                      *)
LEMMA SessionShown ==
  ASSUME NEW r, PageOK(r), NEW s \in Nat \X Nat, IsSession(s), s # NoSession, NEW state
  PROVE  /\ PageOK(renderCompleted(r, s)) /\ renderCompleted(r, s).busy = r.busy
         /\ renderCompleted(r, s).polls = r.polls
         /\ PageOK(handleSession(r, s, state)) /\ handleSession(r, s, state).busy = r.busy
         /\ PageOK(polled(r, s, state)) /\ polled(r, s, state).busy = r.busy
<1>1. <<"completed", s[1], s[2]>> \in Item /\ <<"finalizing", s[1], s[2]>> \in Item
  <2>1. s[1] \in Nat /\ s[2] \in Nat OBVIOUS
  <2>. QED BY <2>1 DEF Item
<1>2. PageOK(renderCompleted(r, s)) /\ renderCompleted(r, s).busy = r.busy
  <2>1. PageOK(Hide(r, "finalizing")) /\ Hide(r, "finalizing").busy = r.busy BY PageFields
  <2>. DEFINE q == Hide(r, "finalizing")
  <2>. HIDE DEF q
  <2>2. PageOK(Show(q, <<"completed", s[1], s[2]>>))
        /\ Show(q, <<"completed", s[1], s[2]>>).busy = q.busy
    BY <1>1, <2>1, PageFields DEF q
  <2>. QED BY <2>1, <2>2 DEF renderCompleted, q
<1>3. renderCompleted(r, s).polls = r.polls
  BY DEF renderCompleted, Show, Hide, PageOK, PageOf
<1>4. PageOK(handleSession(r, s, state)) /\ handleSession(r, s, state).busy = r.busy
  <2>. DEFINE q == Show(r, <<"finalizing", s[1], s[2]>>)
  <2>1. PageOK(q) /\ q.busy = r.busy BY <1>1, PageFields
  <2>. HIDE DEF q
  <2>2. /\ PageOK([q EXCEPT !.polls = @ \cup {s}])
        /\ [q EXCEPT !.polls = @ \cup {s}].busy = r.busy
    BY <2>1, PageFields
  <2>. HIDE DEF renderCompleted
  <2>. QED BY <2>2, <1>2 DEF handleSession, q
<1>5. PageOK(polled(r, s, state)) /\ polled(r, s, state).busy = r.busy
  <2>. DEFINE q == renderCompleted(r, s)
             h == Hide(r, "finalizing")
  <2>1. PageOK(q) /\ q.busy = r.busy /\ PageOK(h) /\ h.busy = r.busy
    BY <1>2, PageFields
  <2>. HIDE DEF q, h
  <2>2. \A p : PageOK(p) => /\ PageOK([p EXCEPT !.polls = @ \ {s}])
                            /\ [p EXCEPT !.polls = @ \ {s}].busy = p.busy
    <3>. SUFFICES ASSUME NEW p, PageOK(p)
                  PROVE  /\ PageOK([p EXCEPT !.polls = @ \ {s}])
                         /\ [p EXCEPT !.polls = @ \ {s}].busy = p.busy
      OBVIOUS
    <3>1. p.polls \ {s} \in SUBSET p.polls OBVIOUS
    <3>2. /\ PageOK([p EXCEPT !.polls = p.polls \ {s}])
          /\ [p EXCEPT !.polls = p.polls \ {s}].busy = p.busy
      BY <3>1, PageFields
    <3>. QED BY <3>2
  <2>. QED BY <2>1, <2>2 DEF polled, q, h
<1>. QED BY <1>2, <1>3, <1>4, <1>5

(* A replayed history.                                                     *)
LEMMA HistoryShown ==
  ASSUME NEW r, PageOK(r), NEW c \in Ids, c \in Nat \ {0}, NEW states \in Seq(SessionState),
         Len(states) <= Len(conv[c].sessions), Len(conv[c].sessions) \in Nat,
         DOMAIN conv[c].sessions = 1..Len(conv[c].sessions)
  PROVE  PageOK(replayed(r, c, states)) /\ replayed(r, c, states).busy = r.busy
<1>. DEFINE n == Len(states)
<1>1. n \in Nat OBVIOUS
<1>2. n > 0 => <<c, n>> \in Nat \X Nat /\ IsSession(<<c, n>>) /\ <<c, n>> # NoSession
  BY <1>1 DEF IsSession, NoSession
<1>3. PageOK(restored(r, c, states)) /\ restored(r, c, states).busy = r.busy
  <2>1. n > 0 => PageOK([r EXCEPT !.sess = <<c, n>>]) /\ [r EXCEPT !.sess = <<c, n>>].busy = r.busy
    BY <1>2, PageFields
  <2>. QED BY <1>1, <2>1 DEF restored
<1>. DEFINE notices == {<<"completed", c, i>> : i \in {j \in DOMAIN states : states[j] = "completed"}}
            q == restored(r, c, states)
            shown == [q EXCEPT !.items = @ \cup notices]
<1>4. PageOK(shown) /\ shown.busy = r.busy
  <2>1. notices \in SUBSET Item
    <3>. SUFFICES ASSUME NEW i \in DOMAIN states
                  PROVE  <<"completed", c, i>> \in Item
      OBVIOUS
    <3>1. i \in Nat OBVIOUS
    <3>. QED BY <3>1 DEF Item
  <2>. HIDE DEF q, notices
  <2>2. q.items \cup notices \in SUBSET Item BY <2>1, <1>3 DEF PageOK, PageOf, q
  <2>3. PageOK(q) /\ q.busy = r.busy BY <1>3 DEF q
  <2>4. \A items \in SUBSET Item : /\ PageOK([q EXCEPT !.items = items])
                                    /\ [q EXCEPT !.items = items].busy = q.busy
    BY <2>3, PageFields
  <2>. DEFINE all == q.items \cup notices
  <2>5. all \in SUBSET Item BY <2>2
  <2>. HIDE DEF all
  <2>6. PageOK([q EXCEPT !.items = all]) /\ [q EXCEPT !.items = all].busy = r.busy
    BY <2>3, <2>4, <2>5
  <2>. QED BY <2>6 DEF all
<1>. HIDE DEF shown
<1>5. n > 0 => /\ PageOK(handleSession(shown, <<c, n>>, states[n]))
               /\ handleSession(shown, <<c, n>>, states[n]).busy = r.busy
  BY <1>2, <1>4, SessionShown
<1>. QED BY <1>1, <1>4, <1>5 DEF replayed, shown
-----------------------------------------------------------------------------
(* Requests of a page.                                                     *)

(* A request that was just sent, with what the page put into it.           *)
LEMMA SentOK ==
  ASSUME NEW t \in Tabs, NEW n \in 1..MaxActs,
         NEW kind \in {"send", "reset", "load", "resume"}, NEW r, PageOK(r), r.cid \in Nat \cup {Stale}
  PROVE  LET k == Sent(t, n, kind)
         IN  /\ kind # "resume" => CallOK(k)
             /\ \A b \in BOOLEAN : kind = "send" =>
                  CallOK([k EXCEPT !.cid = r.cid, !.key = r.key, !.auto = b])
             /\ \A then \in {"nothing", "agent", "autostart"} : kind = "reset" =>
                  CallOK([k EXCEPT !.then = then])
             /\ \A c \in Ids \cup {0, Stale} : c \in Nat \cup {Stale} /\ kind = "load" =>
                  CallOK([k EXCEPT !.cid = c])
             /\ \A i \in Nat : r.sess # NoSession =>
                  CallOK([k EXCEPT !.sess = r.sess, !.item = i])
<1>1. MaxActs \in Nat /\ n \in 0..MaxActs /\ n # 0 BY StoreConstants
<1>2. NoSession \in Nat \X Nat /\ IsSession(NoSession) BY DEF NoSession, IsSession
<1>3. <<>> \in Seq(SessionState) /\ {} \in SUBSET Item OBVIOUS
<1>4. r.cid \in Ids \cup {0, Stale} /\ r.key \in BOOLEAN /\ r.sess \in Nat \X Nat /\ IsSession(r.sess)
  BY DEF PageOK, PageOf
<1>. HIDE DEF NoSession, IsSession
<1>. DEFINE k == Sent(t, n, kind)
<1>5. /\ k \in Call /\ k.id # 0 /\ k.conv = 0 /\ k.cid = 0 /\ k.sess = NoSession /\ k.pc = "sent"
      /\ k.res = "none" /\ k.kind = kind
  BY <1>1, <1>2, <1>3 DEF Sent, Call
<1>. HIDE DEF k
<1>. DEFINE Fresh(j) == /\ j \in Call /\ j.id # 0 /\ j.conv = 0 /\ j.cid \in Ids \cup {0, Stale}
                        /\ j.pc = "sent" /\ j.res = "none" /\ j.kind = kind /\ IsSession(j.sess)
                        /\ kind = "resume" => j.sess # NoSession
<1>6. \A j : Fresh(j) => CallOK(j) BY DEF CallOK, At
<1>7. kind # "resume" => Fresh(k) BY <1>2, <1>5
<1>8. ASSUME NEW b \in BOOLEAN, kind = "send"
      PROVE  Fresh([k EXCEPT !.cid = r.cid, !.key = r.key, !.auto = b])
  BY <1>2, <1>4, <1>5, <1>8, ZenonT(60) DEF Call
<1>9. ASSUME NEW then \in {"nothing", "agent", "autostart"}, kind = "reset"
      PROVE  Fresh([k EXCEPT !.then = then])
  BY <1>2, <1>5, <1>9 DEF Call
<1>10. ASSUME NEW c \in Ids \cup {0, Stale}, c \in Nat \cup {Stale}, kind = "load"
       PROVE  Fresh([k EXCEPT !.cid = c])
  BY <1>2, <1>5, <1>10 DEF Call
<1>11. ASSUME NEW i \in Nat, r.sess # NoSession
       PROVE  Fresh([k EXCEPT !.sess = r.sess, !.item = i])
  BY <1>2, <1>4, <1>5, <1>11 DEF Call
<1>. HIDE DEF Fresh
<1>. QED BY <1>6, <1>7, <1>8, <1>9, <1>10, <1>11 DEF k

(* The rows stay, so what was true of requests and pages still is.          *)
LEMMA PageFrame ==
  ASSUME ChatInv, UNCHANGED <<storeVars, historyVars>>,
         \A k \in calls' : CallOK(k) /\ (Inserts(k) => \E j \in calls : Inserts(j)),
         tab' \in [Tabs -> PageOf], \A t \in Tabs : PageOK(tab'[t]),
         BusyIn(calls', tab'), BoundsInv'
  PROVE  ChatInv'
<1>1. conv' = conv /\ recent' = recent /\ raced' = raced BY DEF storeVars, historyVars
<1>2. RowsInv' BY <1>1 DEF ChatInv, RowsInv, Ids
<1>3. CallsInv' BY <1>1 DEF CallsInv, CallOK, IsSession, Ids
<1>4. PagesInv' BY <1>1 DEF PagesInv, PageOK, IsSession, Ids
<1>5. EmptyInv' BY <1>1 DEF ChatInv, EmptyInv, Empty, Ids, Inserts, At
<1>6. BusyInv' BY DEF BusyInv
<1>. QED BY <1>2, <1>3, <1>4, <1>5, <1>6 DEF ChatInv

(* Fewer awaited turns, and no page is less busy.                           *)
LEMMA BusyLess ==
  ASSUME NEW cs, NEW pages, BusyIn(cs, pages), NEW less, NEW new,
         \A k \in less : Awaited(k) => k \in cs /\ (pages[k.tab].busy => new[k.tab].busy)
  PROVE  BusyIn(less, new)
BY DEF BusyIn

(* One page changes.                                                       *)
LEMMA OnePage ==
  ASSUME PagesInv, NEW t \in Tabs, NEW r, PageOK(r), tab' = [tab EXCEPT ![t] = r]
  PROVE  /\ tab' \in [Tabs -> PageOf] /\ \A u \in Tabs : PageOK(tab'[u])
         /\ tab'[t] = r /\ \A u \in Tabs \ {t} : tab'[u] = tab[u]
<1>1. r \in PageOf BY DEF PageOK
<1>. QED BY <1>1 DEF PagesInv

(* useSendMessage: the busy flag is a mutex over the turns of a page.       *)
LEMMA SendStep ==
  ASSUME PagesInv, NEW t \in Tabs, NEW r, PageOK(r), r.busy = tab[t].busy,
         NEW n \in 1..MaxActs, NEW auto \in BOOLEAN, NEW others,
         \A k \in others : CallOK(k), BusyIn(others, tab), sendMessage(t, n, r, auto, others)
  PROVE  /\ tab' \in [Tabs -> PageOf] /\ \A u \in Tabs : PageOK(tab'[u])
         /\ \A k \in calls' : k \in others \/ (CallOK(k) /\ k.kind = "send")
         /\ BusyIn(calls', tab')
<1>1. CASE r.busy
  <2>1. calls' = others /\ tab' = [tab EXCEPT ![t] = r] BY <1>1 DEF sendMessage
  <2>2. /\ tab' \in [Tabs -> PageOf] /\ \A u \in Tabs : PageOK(tab'[u])
        /\ tab'[t] = r /\ \A u \in Tabs \ {t} : tab'[u] = tab[u]
    BY <2>1, OnePage
  <2>3. BusyIn(calls', tab')
    <3>1. \A k \in others : k.tab \in Tabs BY DEF CallOK, Call
    <3>2. \A u \in Tabs : tab[u].busy => tab'[u].busy BY <2>2
    <3>. QED BY <3>1, <3>2, <2>1, BusyLess
  <2>. QED BY <2>1, <2>2, <2>3
<1>2. CASE ~r.busy
  <2>. DEFINE k == [Sent(t, n, "send") EXCEPT !.cid = r.cid, !.key = r.key, !.auto = auto]
             q == acquireBusy(r)
  <2>1. calls' = others \cup {k} /\ tab' = [tab EXCEPT ![t] = q] BY <1>2 DEF sendMessage
  <2>2. PageOK(q) /\ q.busy = TRUE
    <3>1. \A b \in BOOLEAN : PageOK([r EXCEPT !.busy = b]) /\ [r EXCEPT !.busy = b].busy = b
      BY PageFields
    <3>. QED BY <3>1 DEF acquireBusy
  <2>3. CallOK(k)
    <3>1. r.cid \in Nat \cup {Stale} BY DEF PageOK, PageOf
    <3>2. "send" \in {"send", "reset", "load", "resume"} OBVIOUS
    <3>. QED BY <3>1, <3>2, SentOK
  <2>4. k.kind = "send" /\ k.tab = t BY DEF Sent
  <2>. HIDE DEF k, q
  <2>5. /\ tab' \in [Tabs -> PageOf] /\ \A u \in Tabs : PageOK(tab'[u])
        /\ tab'[t] = q /\ \A u \in Tabs \ {t} : tab'[u] = tab[u]
    BY <2>1, <2>2, OnePage
  <2>6. BusyIn(calls', tab')
    <3>1. \A j \in others : j.tab \in Tabs BY DEF CallOK, Call
    <3>2. ~tab[t].busy BY <1>2
    <3>3. \A j \in others : Awaited(j) => j.tab # t BY <3>2 DEF BusyIn
    <3>4. \A j \in others : Awaited(j) => tab'[j.tab].busy BY <3>1, <3>3, <2>5 DEF BusyIn
    <3>5. tab'[k.tab].busy BY <2>2, <2>4, <2>5
    <3>6. \A i, j \in calls' : Awaited(i) /\ Awaited(j) /\ i.tab = j.tab => i = j
      BY <2>1, <2>4, <3>3 DEF BusyIn
    <3>. QED BY <2>1, <3>4, <3>5, <3>6 DEF BusyIn
  <2>. QED BY <2>1, <2>3, <2>4, <2>5, <2>6
<1>. QED BY <1>1, <1>2
-----------------------------------------------------------------------------
(* The user.                                                               *)

(* An act is counted, and noted if a request is under way.                 *)
LEMMA ActBounds ==
  ASSUME ChatInv, NEW t \in Tabs, Act(t)
  PROVE  /\ BoundsInv' /\ acts' \in 1..MaxActs
         /\ UNCHANGED <<storeVars, historyVars>>
<1>1. acts' \in 1..MaxActs
  <2>1. MaxActs \in Nat /\ acts \in 0..MaxActs BY StoreConstants DEF ChatInv, BoundsInv
  <2>2. acts < MaxActs /\ acts' = acts + 1 BY DEF Act, Acts
  <2>. QED BY <2>1, <2>2
<1>2. odd' \in [Tabs -> SUBSET {"impatient", "unnamed", "late poll", "load failed"}]
  BY DEF Act, ChatInv, BoundsInv
<1>3. lost' = lost /\ UNCHANGED <<storeVars, historyVars>> BY DEF Act
<1>4. acts' \in 0..MaxActs
  <2>1. MaxActs \in Nat BY StoreConstants
  <2>. QED BY <2>1, <1>1
<1>5. lost \in 0..MaxLost BY DEF ChatInv, BoundsInv
<1>6. BoundsInv' BY <1>2, <1>3, <1>4, <1>5 DEF BoundsInv
<1>. QED BY <1>1, <1>3, <1>6

(* What is known of a page and its requests before a step.                 *)
LEMMA Before ==
  ASSUME ChatInv
  PROVE  /\ \A k \in calls : CallOK(k) /\ k \in Call /\ k.tab \in Tabs
         /\ PagesInv /\ tab \in [Tabs -> PageOf]
         /\ \A t \in Tabs : PageOK(tab[t]) /\ tab[t].cid \in Nat \cup {Stale} /\ tab[t].busy \in BOOLEAN
         /\ BusyIn(calls, tab)
BY DEF ChatInv, CallsInv, PagesInv, BusyInv, CallOK, Call, PageOf

(* A page sends a request that is no turn.                                 *)
LEMMA AskStep ==
  ASSUME ChatInv, NEW t \in Tabs, Act(t), NEW k, CallOK(k), ~Awaited(k), ~Inserts(k),
         calls' = calls \cup {k},
         NEW r, PageOK(r), r.busy = tab[t].busy, tab' = [tab EXCEPT ![t] = r]
  PROVE  ChatInv'
<1>1. BoundsInv' /\ UNCHANGED <<storeVars, historyVars>> BY ActBounds
<1>2. /\ tab' \in [Tabs -> PageOf] /\ \A u \in Tabs : PageOK(tab'[u])
      /\ tab'[t] = r /\ \A u \in Tabs \ {t} : tab'[u] = tab[u]
  BY Before, OnePage
<1>3. BusyIn(calls', tab')
  <2>1. \A u \in Tabs : tab[u].busy => tab'[u].busy BY <1>2
  <2>2. \A j \in calls' : Awaited(j) => j \in calls /\ (tab[j.tab].busy => tab'[j.tab].busy)
    BY <2>1, Before
  <2>3. BusyIn(calls, tab) BY Before
  <2>. QED BY <2>2, <2>3, BusyLess
<1>4. \A j \in calls' : CallOK(j) /\ (Inserts(j) => \E i \in calls : Inserts(i)) BY Before
<1>. QED BY <1>1, <1>2, <1>3, <1>4, PageFrame

(* handleSubmit and handleRetry: a turn of the page.                       *)
LEMMA TurnStep ==
  ASSUME ChatInv, NEW t \in Tabs, Act(t), NEW r, PageOK(r), r.busy = tab[t].busy,
         sendMessage(t, acts', r, FALSE, calls)
  PROVE  ChatInv'
<1>1. BoundsInv' /\ acts' \in 1..MaxActs /\ UNCHANGED <<storeVars, historyVars>> BY ActBounds
<1>2. /\ tab' \in [Tabs -> PageOf] /\ \A u \in Tabs : PageOK(tab'[u])
      /\ \A k \in calls' : k \in calls \/ (CallOK(k) /\ k.kind = "send")
      /\ BusyIn(calls', tab')
  BY <1>1, Before, SendStep
<1>3. \A k \in calls' : CallOK(k) /\ (Inserts(k) => \E j \in calls : Inserts(j))
  BY <1>2, Before DEF Inserts, At
<1>. QED BY <1>1, <1>2, <1>3, PageFrame

(* A typed message, and the recovery button that sends it again.           *)
LEMMA SubmitStep ==
  ASSUME ChatInv, NEW t \in Tabs, handleSubmit(t) \/ \E n \in 1..MaxActs : handleRetry(t, n)
  PROVE  ChatInv'
<1>1. CASE handleSubmit(t)
  <2>. DEFINE i == <<"user", acts'>>
             r == Show(tab[t], i)
  <2>1. Act(t) /\ sendMessage(t, acts', r, FALSE, calls) BY <1>1 DEF handleSubmit
  <2>2. acts' \in 1..MaxActs BY <2>1, ActBounds
  <2>3. i \in Item BY <2>2, StoreConstants DEF Item
  <2>. HIDE DEF i
  <2>4. PageOK(r) /\ r.busy = tab[t].busy BY <2>3, Before, PageFields
  <2>. HIDE DEF r
  <2>. QED BY <2>1, <2>4, TurnStep
<1>2. ASSUME NEW n \in 1..MaxActs, handleRetry(t, n)
      PROVE  ChatInv'
  <2>. DEFINE items == tab[t].items \ {<<"retry", n>>}
             r == [tab[t] EXCEPT !.items = items]
  <2>1. Act(t) /\ sendMessage(t, acts', r, FALSE, calls) BY <1>2 DEF handleRetry
  <2>2. PageOK(tab[t]) BY Before
  <2>3. items \in SUBSET Item BY <2>2 DEF PageOK, PageOf
  <2>. HIDE DEF items
  <2>4. PageOK(r) /\ r.busy = tab[t].busy BY <2>2, <2>3, PageFields
  <2>. HIDE DEF r
  <2>. QED BY <2>1, <2>4, TurnStep
<1>. QED BY <1>1, <1>2

(* New chat, an agent, a capability, an earlier conversation.               *)
LEMMA SwitchStep ==
  ASSUME ChatInv, NEW t \in Tabs,
         \/ \E then \in {"nothing", "agent", "autostart"} : startNewConversation(t, then)
         \/ handleSelectConversation(t)
  PROVE  ChatInv'
<1>1. PageOK(tab[t]) /\ tab[t].cid \in Nat \cup {Stale} BY Before
<1>2. ASSUME NEW then \in {"nothing", "agent", "autostart"}, startNewConversation(t, then)
      PROVE  ChatInv'
  <2>. DEFINE k == [Sent(t, acts', "reset") EXCEPT !.then = then]
             none == {}
             r == [tab[t] EXCEPT !.polls = none]
  <2>1. Act(t) /\ calls' = calls \cup {k} /\ tab' = [tab EXCEPT ![t] = r]
    BY <1>2 DEF startNewConversation
  <2>2. acts' \in 1..MaxActs BY <2>1, ActBounds
  <2>3. CallOK(k) BY <2>2, <1>1, SentOK
  <2>4. ~Awaited(k) /\ ~Inserts(k) BY DEF Awaited, Inserts, At, Sent
  <2>5. none \in SUBSET tab[t].polls OBVIOUS
  <2>. HIDE DEF none
  <2>6. PageOK(r) /\ r.busy = tab[t].busy BY <1>1, <2>5, PageFields
  <2>. HIDE DEF k, r
  <2>. QED BY <2>1, <2>3, <2>4, <2>6, AskStep
<1>3. CASE handleSelectConversation(t)
  <2>1. PICK i \in list_for_user : Act(t) /\ loadConversationHistory(t, acts', recent[i], tab[t], calls)
    BY <1>3 DEF handleSelectConversation
  <2>2. recent[i] \in Ids /\ recent[i] \in Nat
    BY DEF ChatInv, RowsInv, list_for_user, Ids
  <2>. DEFINE k == [Sent(t, acts', "load") EXCEPT !.cid = recent[i]]
             none == {}
             q == resetConversationScopedState(tab[t])
             r == [q EXCEPT !.polls = none]
  <2>3. calls' = calls \cup {k} /\ tab' = [tab EXCEPT ![t] = r]
    BY <2>1 DEF loadConversationHistory
  <2>4. acts' \in 1..MaxActs BY <2>1, ActBounds
  <2>5. CallOK(k) BY <2>2, <2>4, <1>1, SentOK
  <2>6. ~Awaited(k) /\ ~Inserts(k) BY DEF Awaited, Inserts, At, Sent
  <2>7. PageOK(q) /\ q.busy = tab[t].busy BY <1>1, PageFields
  <2>8. none \in SUBSET q.polls OBVIOUS
  <2>. HIDE DEF none, q
  <2>9. PageOK(r) /\ r.busy = tab[t].busy
    <3>1. \A S \in SUBSET q.polls : PageOK([q EXCEPT !.polls = S]) /\ [q EXCEPT !.polls = S].busy = q.busy
      BY <2>7, PageFields
    <3>. QED BY <2>7, <2>8, <3>1
  <2>. HIDE DEF k, r
  <2>. QED BY <2>1, <2>3, <2>5, <2>6, <2>9, AskStep
<1>. QED BY <1>2, <1>3

(* "Check for reply".                                                      *)
LEMMA ResumeStep ==
  ASSUME ChatInv, NEW t \in Tabs, NEW n \in 1..MaxActs, handleResume(t, n)
  PROVE  ChatInv'
<1>. DEFINE k == [Sent(t, acts', "resume") EXCEPT !.sess = tab[t].sess, !.item = n]
<1>1. Act(t) /\ calls' = calls \cup {k} /\ tab' = tab /\ tab[t].sess # NoSession
  BY DEF handleResume
<1>2. acts' \in 1..MaxActs BY <1>1, ActBounds
<1>3. PageOK(tab[t]) /\ tab[t].cid \in Nat \cup {Stale} /\ tab \in [Tabs -> PageOf] BY Before
<1>4. CallOK(k)
  <2>1. n \in Nat BY StoreConstants
  <2>. QED BY <2>1, <1>1, <1>2, <1>3, SentOK
<1>5. ~Awaited(k) /\ ~Inserts(k) BY DEF Awaited, Inserts, At, Sent
<1>6. tab' = [tab EXCEPT ![t] = tab[t]] BY <1>1, <1>3
<1>. HIDE DEF k
<1>. QED BY <1>1, <1>3, <1>4, <1>5, <1>6, AskStep

(* A page load: the requests of the old page are nobody's.                  *)
LEMMA ReloadStep ==
  ASSUME ChatInv, NEW t \in Tabs, Reload(t)
  PROVE  ChatInv'
<1>. DEFINE orphaned == {[k EXCEPT !.live = FALSE] : k \in {j \in Mine(t) : j.pc # "answered"}}
            others == (calls \ Mine(t)) \cup orphaned
            c == tab[t].cid
            p == Page(c)
<1>1. PageOK(tab[t]) /\ c \in Nat \cup {Stale} /\ c \in Ids \cup {0, Stale} BY Before DEF PageOK
<1>2. BoundsInv' /\ acts' \in 1..MaxActs /\ UNCHANGED <<storeVars, historyVars>>
  <2>1. MaxActs \in Nat /\ acts \in 0..MaxActs BY StoreConstants DEF ChatInv, BoundsInv
  <2>2. acts < MaxActs /\ acts' = acts + 1 BY DEF Reload, Acts
  <2>3. acts' \in 1..MaxActs BY <2>1, <2>2
  <2>4. lost' = lost /\ UNCHANGED <<storeVars, historyVars>> BY DEF Reload
  <2>5. odd' \in [Tabs -> SUBSET {"impatient", "unnamed", "late poll", "load failed"}]
    BY DEF Reload, ChatInv, BoundsInv
  <2>6. acts' \in 0..MaxActs BY <2>1, <2>3
  <2>7. lost \in 0..MaxLost BY DEF ChatInv, BoundsInv
  <2>8. BoundsInv' BY <2>4, <2>5, <2>6, <2>7 DEF BoundsInv
  <2>. QED BY <2>3, <2>4, <2>8
<1>3. ASSUME NEW k \in others
      PROVE  /\ CallOK(k)
             /\ Inserts(k) => \E j \in calls : Inserts(j)
             /\ Awaited(k) => k \in calls /\ k.tab # t
  <2>1. CASE k \in calls \ Mine(t) BY <2>1, Before DEF Mine, Awaited
  <2>2. CASE k \in orphaned
    <3>1. PICK j \in Mine(t) : k = [j EXCEPT !.live = FALSE] BY <2>2
    <3>2. j \in calls /\ j \in Call /\ CallOK(j) BY Before DEF Mine
    <3>3. k \in Call /\ k.live = FALSE /\ k.pc = j.pc /\ k.kind = j.kind /\ k.cid = j.cid
          /\ k.conv = j.conv /\ k.iv = j.iv /\ k.sess = j.sess /\ k.sessions = j.sessions
          /\ k.id = j.id /\ k.res = j.res
      BY <3>1, <3>2 DEF Call
    <3>. HIDE DEF Mine
    <3>4. CallOK(k) BY <3>2, <3>3 DEF CallOK, At
    <3>5. Inserts(k) => Inserts(j) BY <3>3 DEF Inserts, At
    <3>. QED BY <3>2, <3>3, <3>4, <3>5 DEF Awaited
  <2>. QED BY <2>1, <2>2
<1>4. PageOK(p) /\ p.polls = {}
  <2>1. NoSession \in Nat \X Nat /\ IsSession(NoSession) BY DEF NoSession, IsSession
  <2>. QED BY <1>1, <2>1 DEF Page, PageOK, PageOf
<1>. DEFINE k0 == [Sent(t, acts', "load") EXCEPT !.cid = c]
<1>5. \E r : /\ PageOK(r) /\ tab' = [tab EXCEPT ![t] = r]
             /\ calls' = others \/ calls' = others \cup {k0}
  <2>1. CASE c = 0
    <3>1. calls' = others /\ tab' = [tab EXCEPT ![t] = p] BY <2>1 DEF Reload
    <3>. QED BY <3>1, <1>4
  <2>2. CASE c # 0
    <3>. DEFINE q == resetConversationScopedState(p)
               none == {}
               r == [q EXCEPT !.polls = none]
    <3>1. calls' = others \cup {k0} /\ tab' = [tab EXCEPT ![t] = r]
      BY <2>2 DEF Reload, loadConversationHistory
    <3>2. PageOK(q) BY <1>4, PageFields
    <3>3. none \in SUBSET q.polls OBVIOUS
    <3>. HIDE DEF none, q
    <3>4. PageOK(r) BY <3>2, <3>3, PageFields
    <3>. HIDE DEF k0, others
    <3>. QED BY <3>1, <3>4
  <2>. QED BY <2>1, <2>2
<1>6. CallOK(k0) /\ ~Awaited(k0) /\ ~Inserts(k0)
  <2>1. CallOK(k0) BY <1>1, <1>2, SentOK
  <2>. QED BY <2>1 DEF Awaited, Inserts, At, Sent
<1>7. PICK r : /\ PageOK(r) /\ tab' = [tab EXCEPT ![t] = r]
               /\ calls' = others \/ calls' = others \cup {k0}
  BY <1>5
<1>. HIDE DEF others, k0
<1>8. /\ tab' \in [Tabs -> PageOf] /\ \A u \in Tabs : PageOK(tab'[u])
      /\ \A u \in Tabs \ {t} : tab'[u] = tab[u]
  BY <1>7, Before, OnePage
<1>9. BusyIn(calls', tab')
  <2>1. \A k \in calls' : Awaited(k) => k \in calls /\ k.tab \in Tabs \ {t}
    BY <1>3, <1>6, <1>7, Before
  <2>. QED BY <2>1, <1>8, Before, BusyLess
<1>10. \A k \in calls' : CallOK(k) /\ (Inserts(k) => \E j \in calls : Inserts(j))
  BY <1>3, <1>6, <1>7
<1>. QED BY <1>2, <1>8, <1>9, <1>10, PageFrame

(* Whatever the user does.                                                 *)
LEMMA UserStep ==
  ASSUME ChatInv, NEW t \in Tabs, User(t)
  PROVE  ChatInv'
BY SubmitStep, SwitchStep, ResumeStep, ReloadStep
   DEF User, handleNewChat, handleSelectAgent, handleActivateCapability
-----------------------------------------------------------------------------
(* What follows the awaits.                                                *)

(* The bounds of a response.                                               *)
LEMMA AnswerBounds ==
  ASSUME ChatInv, NEW t \in Tabs, acts' = acts, lost' \in 0..MaxLost,
         \/ odd' = odd
         \/ \E why \in {"impatient", "unnamed", "late poll", "load failed"} : odd' = [odd EXCEPT ![t] = @ \cup {why}]
  PROVE  BoundsInv'
<1>. DEFINE Why == {"impatient", "unnamed", "late poll", "load failed"}
<1>1. odd \in [Tabs -> SUBSET Why] /\ acts \in 0..MaxActs BY DEF ChatInv, BoundsInv
<1>. HIDE DEF Why
<1>2. ASSUME NEW why \in Why, odd' = [odd EXCEPT ![t] = @ \cup {why}]
      PROVE  odd' \in [Tabs -> SUBSET Why]
  BY <1>1, <1>2
<1>3. odd' \in [Tabs -> SUBSET Why] BY <1>1, <1>2 DEF Why
<1>. QED BY <1>1, <1>3 DEF BoundsInv, Why

(* The page that waited for a request changes, and the request is gone, or  *)
(* goes on for nobody, or the page sends a turn next.                       *)
LEMMA LeaveStep ==
  ASSUME ChatInv, NEW k \in calls, UNCHANGED <<storeVars, historyVars>>, BoundsInv',
         NEW r, PageOK(r), tab' = [tab EXCEPT ![k.tab] = r],
         r.busy = tab[k.tab].busy \/ Awaited(k),
         calls' \in {calls \ {k}, (calls \ {k}) \cup {[k EXCEPT !.live = FALSE]}}
  PROVE  ChatInv'
<1>. DEFINE o == [k EXCEPT !.live = FALSE]
<1>1. /\ o \in Call /\ o.live = FALSE /\ o.pc = k.pc /\ o.kind = k.kind /\ o.cid = k.cid
      /\ o.conv = k.conv /\ o.iv = k.iv /\ o.sess = k.sess /\ o.sessions = k.sessions
      /\ o.id = k.id /\ o.res = k.res
  BY Before, ZenonT(60) DEF Call
<1>. HIDE DEF o
<1>2. CallOK(o)
  <2>1. CallOK(k) BY Before
  <2>. QED BY <2>1, <1>1 DEF CallOK, At
<1>3. ~Awaited(o) /\ (Inserts(o) => Inserts(k)) BY <1>1 DEF Awaited, Inserts, At
<1>4. \A j \in calls' : j \in calls \ {k} \/ j = o BY DEF o
<1>5. \A j \in calls' : CallOK(j) /\ (Inserts(j) => \E i \in calls : Inserts(i))
  BY <1>2, <1>3, <1>4, Before
<1>6. k.tab \in Tabs BY Before
<1>7. /\ tab' \in [Tabs -> PageOf] /\ \A u \in Tabs : PageOK(tab'[u])
      /\ tab'[k.tab] = r /\ \A u \in Tabs \ {k.tab} : tab'[u] = tab[u]
  BY <1>6, Before, OnePage
<1>8. BusyIn(calls', tab')
  <2>1. \A j \in calls' : Awaited(j) => j \in calls /\ j.tab \in Tabs /\ j # k
    BY <1>3, <1>4, Before
  <2>2. \A j \in calls' : Awaited(j) /\ Awaited(k) => j.tab # k.tab
    BY <2>1, Before DEF BusyIn
  <2>3. \A j \in calls' : Awaited(j) => j \in calls /\ (tab[j.tab].busy => tab'[j.tab].busy)
    BY <2>1, <2>2, <1>7
  <2>4. BusyIn(calls, tab) BY Before
  <2>. QED BY <2>3, <2>4 DEF BusyIn
<1>. QED BY <1>5, <1>7, <1>8, PageFrame

(* A page that is left sends a turn: an autostart, or a resumed text.       *)
LEMMA FollowStep ==
  ASSUME ChatInv, NEW k \in calls, UNCHANGED <<storeVars, historyVars>>, BoundsInv',
         ~Awaited(k), k.id # 0, NEW r, PageOK(r), r.busy = tab[k.tab].busy, NEW auto \in BOOLEAN,
         NEW others \in {calls \ {k}, (calls \ {k}) \cup {[k EXCEPT !.live = FALSE]}},
         sendMessage(k.tab, k.id, r, auto, others)
  PROVE  ChatInv'
<1>. DEFINE o == [k EXCEPT !.live = FALSE]
<1>1. /\ o \in Call /\ o.live = FALSE /\ o.pc = k.pc /\ o.kind = k.kind /\ o.cid = k.cid
      /\ o.conv = k.conv /\ o.iv = k.iv /\ o.sess = k.sess /\ o.sessions = k.sessions
      /\ o.id = k.id /\ o.res = k.res
  BY Before, ZenonT(60) DEF Call
<1>. HIDE DEF o
<1>2. CallOK(o)
  <2>1. CallOK(k) BY Before
  <2>. QED BY <2>1, <1>1 DEF CallOK, At
<1>3. ~Awaited(o) /\ (Inserts(o) => Inserts(k)) BY <1>1 DEF Awaited, Inserts, At
<1>4. \A j \in others : j \in calls \ {k} \/ j = o BY DEF o
<1>5. \A j \in others : CallOK(j) /\ (Inserts(j) => \E i \in calls : Inserts(i))
  BY <1>2, <1>3, <1>4, Before
<1>6. k.tab \in Tabs /\ k.id \in 1..MaxActs
  <2>1. k.tab \in Tabs /\ k.id \in 0..MaxActs BY Before DEF Call
  <2>. QED BY <2>1, StoreConstants
<1>7. BusyIn(others, tab)
  <2>1. \A j \in others : Awaited(j) => j \in calls BY <1>3, <1>4
  <2>. QED BY <2>1, Before, BusyLess
<1>8. /\ tab' \in [Tabs -> PageOf] /\ \A u \in Tabs : PageOK(tab'[u])
      /\ \A j \in calls' : j \in others \/ (CallOK(j) /\ j.kind = "send")
      /\ BusyIn(calls', tab')
  BY <1>5, <1>6, <1>7, Before, SendStep
<1>9. \A j \in calls' : CallOK(j) /\ (Inserts(j) => \E i \in calls : Inserts(i))
  BY <1>5, <1>8 DEF Inserts, At
<1>. QED BY <1>8, <1>9, PageFrame

(* A reset is answered or lost: the page adopts what it was given, and an    *)
(* autostart sends its opener.                                             *)
LEMMA ResetStep ==
  ASSUME ChatInv, NEW k \in calls, UNCHANGED <<storeVars, historyVars>>, BoundsInv',
         k.kind = "reset", NEW id \in Ids \cup {0}, id \in Nat,
         NEW others \in {calls \ {k}, (calls \ {k}) \cup {[k EXCEPT !.live = FALSE]}},
         AfterReset(k, id, others)
  PROVE  ChatInv'
<1>. DEFINE q == resetConversationScopedState(tab[k.tab])
            none == {}
            p == [q EXCEPT !.cid = id]
            r == [p EXCEPT !.items = none]
            b == k.then # "nothing"
            pinned == [r EXCEPT !.key = b]
<1>1. PageOK(tab[k.tab]) /\ k \in Call /\ CallOK(k) BY Before
<1>2. PageOK(q) /\ q.busy = tab[k.tab].busy BY <1>1, PageFields
<1>3. none \in SUBSET Item /\ id \in Ids \cup {0, Stale} /\ b \in BOOLEAN OBVIOUS
<1>4. adopted(tab[k.tab], id) = r BY <1>1 DEF adopted, resetConversationScopedState, PageOK, PageOf
<1>. HIDE DEF q
<1>5. PageOK(p) /\ p.busy = tab[k.tab].busy
  <2>1. \A c \in Ids \cup {0, Stale} : c \in Nat \cup {Stale} => PageOK([q EXCEPT !.cid = c]) /\ [q EXCEPT !.cid = c].busy = q.busy
    BY <1>2, PageFields
  <2>. QED BY <2>1, <1>2, <1>3
<1>. HIDE DEF p, none
<1>6. PageOK(r) /\ r.busy = tab[k.tab].busy
  <2>1. \A items \in SUBSET Item : PageOK([p EXCEPT !.items = items]) /\ [p EXCEPT !.items = items].busy = p.busy
    BY <1>5, PageFields
  <2>. QED BY <2>1, <1>3, <1>5
<1>. HIDE DEF r, b
<1>7. PageOK(pinned) /\ pinned.busy = tab[k.tab].busy BY <1>3, <1>6, PageFields
<1>8. ~Awaited(k) /\ k.id # 0 BY <1>1 DEF Awaited, CallOK
<1>9. CASE k.then = "autostart"
  <2>1. sendMessage(k.tab, k.id, pinned, TRUE, others) BY <1>4, <1>9 DEF AfterReset, b
  <2>. HIDE DEF pinned
  <2>. QED BY <2>1, <1>7, <1>8, FollowStep
<1>10. CASE k.then # "autostart"
  <2>1. tab' = [tab EXCEPT ![k.tab] = pinned] /\ calls' = others BY <1>4, <1>10 DEF AfterReset, b
  <2>. HIDE DEF pinned
  <2>. QED BY <2>1, <1>7, LeaveStep
<1>. QED BY <1>9, <1>10

(* A turn's answer.                                                        *)
LEMMA SendAnsweredStep ==
  ASSUME ChatInv, NEW k \in calls, k.live, SendAnswered(k),
         UNCHANGED <<storeVars, historyVars, acts>>
  PROVE  ChatInv'
<1>. DEFINE t == k.tab
            r == tab[t]
            i == <<IF k.iv THEN "question" ELSE "agent", k.id>>
            retry == <<"retry", k.id>>
            s == IF k.iv THEN k.sess ELSE r.sess
            q == Show(r, i)
            p == [q EXCEPT !.cid = k.conv]
            o == [p EXCEPT !.key = FALSE]
            reply == [o EXCEPT !.sess = s]
            shown == CASE k.res = "success" /\ k.iv -> handleSession(reply, k.sess, k.sessions[1])
                       [] k.res = "success" /\ ~k.iv -> reply
                       [] k.res = "timeout" -> Show(r, retry)
                       [] OTHER -> r
            new == [shown EXCEPT !.busy = FALSE]
<1>1. /\ PageOK(r) /\ k \in Call /\ CallOK(k) /\ t \in Tabs /\ Awaited(k)
      /\ k.kind = "send" /\ k.pc = "answered"
  BY Before DEF SendAnswered, At, Awaited
<1>2. k.id \in Nat /\ k.conv \in Nat /\ k.sess \in Nat \X Nat /\ r.sess \in Nat \X Nat
      /\ k.iv \in BOOLEAN
  <2>1. k.id \in 0..MaxActs BY <1>1 DEF Call
  <2>2. k.id \in Nat BY <2>1, StoreConstants
  <2>. QED BY <1>1, <2>2 DEF Call, PageOK, PageOf
<1>3. i \in Item /\ retry \in Item BY <1>2 DEF Item
<1>4. IsSession(s) /\ s \in Nat \X Nat BY <1>1, <1>2 DEF CallOK, PageOK
<1>5. [Show(r, i) EXCEPT !.cid = k.conv, !.key = FALSE, !.sess = IF k.iv THEN k.sess ELSE @] = reply
  BY <1>1 DEF Show, PageOK, PageOf
<1>6. tab' = [tab EXCEPT ![t] = new] /\ calls' = calls \ {k}
  <2>. HIDE DEF reply, i
  <2>. QED BY <1>5 DEF SendAnswered, releaseBusy, reply, i
<1>. HIDE DEF i, retry, s
<1>7. PageOK(q) BY <1>1, <1>3, PageFields
<1>. HIDE DEF q
<1>8. PageOK(p)
  <2>1. k.conv \in Ids \cup {0, Stale} BY <1>1 DEF CallOK
  <2>2. \A c \in Ids \cup {0, Stale} : c \in Nat \cup {Stale} => PageOK([q EXCEPT !.cid = c]) BY <1>7, PageFields
  <2>. QED BY <2>1, <2>2, <1>2
<1>. HIDE DEF p
<1>9. PageOK(o)
  <2>1. \A b \in BOOLEAN : PageOK([p EXCEPT !.key = b]) BY <1>8, PageFields
  <2>. QED BY <2>1
<1>. HIDE DEF o
<1>10. PageOK(reply) BY <1>4, <1>9, PageFields
<1>. HIDE DEF reply
<1>11. PageOK(shown)
  <2>1. CASE k.res = "success" /\ k.iv
    <3>1. k.sess # NoSession /\ IsSession(k.sess) BY <1>1, <2>1 DEF CallOK, At
    <3>2. PageOK(handleSession(reply, k.sess, k.sessions[1])) BY <3>1, <1>2, <1>10, SessionShown
    <3>3. shown = handleSession(reply, k.sess, k.sessions[1]) BY <2>1, <1>2
    <3>. HIDE DEF shown
    <3>. QED BY <3>2, <3>3
  <2>2. CASE k.res = "success" /\ ~k.iv BY <2>2, <1>10
  <2>3. CASE k.res = "timeout"
    <3>1. PageOK(Show(r, retry)) BY <1>1, <1>3, PageFields
    <3>. QED BY <3>1, <2>3
  <2>4. CASE k.res \notin {"success", "timeout"} BY <2>4, <1>1
  <2>. QED BY <2>1, <2>2, <2>3, <2>4
<1>. HIDE DEF shown
<1>12. PageOK(new)
  <2>1. \A b \in BOOLEAN : PageOK([shown EXCEPT !.busy = b]) BY <1>11, PageFields
  <2>. QED BY <2>1
<1>. HIDE DEF new
<1>13. BoundsInv'
  <2>1. lost \in 0..MaxLost BY DEF ChatInv, BoundsInv
  <2>2. lost' = lost /\ acts' = acts BY DEF SendAnswered
  <2>3. odd' = odd \/ odd' = [odd EXCEPT ![t] = @ \cup {"unnamed"}] BY DEF SendAnswered, Note
  <2>. QED BY <1>1, <2>1, <2>2, <2>3, AnswerBounds
<1>. QED BY <1>1, <1>6, <1>12, <1>13, LeaveStep

(* A new conversation.                                                     *)
LEMMA ResetAnsweredStep ==
  ASSUME ChatInv, NEW k \in calls, k.live, ResetAnswered(k),
         UNCHANGED <<storeVars, historyVars, acts>>
  PROVE  ChatInv'
<1>1. k \in Call /\ CallOK(k) /\ k.tab \in Tabs /\ k.kind = "reset"
  BY Before DEF ResetAnswered, At
<1>2. k.conv \in Ids \cup {0} /\ k.conv \in Nat BY <1>1 DEF CallOK, Call
<1>3. BoundsInv'
  <2>1. lost \in 0..MaxLost BY DEF ChatInv, BoundsInv
  <2>. QED BY <1>1, <2>1, AnswerBounds DEF ResetAnswered
<1>4. AfterReset(k, k.conv, calls \ {k}) BY DEF ResetAnswered
<1>. QED BY <1>1, <1>2, <1>3, <1>4, ResetStep

(* A conversation's history.                                               *)
LEMMA LoadAnsweredStep ==
  ASSUME ChatInv, NEW k \in calls, k.live, LoadAnswered(k),
         UNCHANGED <<storeVars, historyVars, acts>>
  PROVE  ChatInv'
<1>. DEFINE r == tab[k.tab]
            c == IF k.res = "missing" THEN 0 ELSE k.cid
            items == IF k.res = "missing" THEN {} ELSE k.items
            q == [r EXCEPT !.cid = c]
            p == [q EXCEPT !.items = items]
            new == IF k.res = "missing" THEN p ELSE replayed(p, k.cid, k.sessions)
<1>1. PageOK(r) /\ k \in Call /\ CallOK(k) /\ k.tab \in Tabs /\ At(k, "load", "answered")
  BY Before DEF LoadAnswered
<1>2. calls' = calls \ {k} BY DEF LoadAnswered
<1>3. tab' = [tab EXCEPT ![k.tab] = new]
  <2>1. [r EXCEPT !.cid = c, !.items = items] = p BY <1>1 DEF PageOK, PageOf
  <2>. HIDE DEF p
  <2>. QED BY <2>1 DEF LoadAnswered
<1>4. c \in Ids \cup {0, Stale} /\ c \in Nat \cup {Stale} /\ items \in SUBSET Item
  BY <1>1 DEF CallOK, Call
<1>. HIDE DEF c, items
<1>5. PageOK(q) /\ q.busy = r.busy BY <1>1, <1>4, PageFields, ZenonT(60)
<1>. HIDE DEF q
<1>6. PageOK(p) /\ p.busy = r.busy
  <2>1. PageOK(q) BY <1>5
  <2>2. \A S \in SUBSET Item : PageOK([q EXCEPT !.items = S]) /\ [q EXCEPT !.items = S].busy = q.busy
    BY <2>1, PageFields, Zenon
  <2>. QED BY <2>2, <1>4, <1>5
<1>. HIDE DEF p
<1>7. PageOK(new) /\ new.busy = r.busy
  <2>1. CASE k.res = "missing" BY <2>1, <1>6
  <2>2. CASE k.res # "missing"
    <3>1. /\ k.cid \in Ids /\ Len(k.sessions) <= Len(conv[k.cid].sessions)
          /\ k.sessions \in Seq(SessionState)
      BY <1>1, <2>2 DEF CallOK, Call
    <3>2. conv \in Seq(Row) BY DEF ChatInv, RowsInv
    <3>3. k.cid \in Nat \ {0} /\ conv[k.cid] \in Row BY <3>1, <3>2 DEF Ids
    <3>4. conv[k.cid].sessions \in Seq(SessionState) BY <3>3 DEF Row
    <3>5. PageOK(replayed(p, k.cid, k.sessions)) /\ replayed(p, k.cid, k.sessions).busy = p.busy
      BY <3>1, <3>3, <3>4, <1>6, HistoryShown
    <3>. QED BY <3>5, <2>2, <1>6
  <2>. QED BY <2>1, <2>2
<1>. HIDE DEF new
<1>8. BoundsInv'
  <2>1. lost \in 0..MaxLost BY DEF ChatInv, BoundsInv
  <2>. QED BY <1>1, <2>1, AnswerBounds DEF LoadAnswered
<1>. QED BY <1>2, <1>3, <1>7, <1>8, LeaveStep

(* A recovered reply, or a text to send again.                              *)
LEMMA ResumeAnsweredStep ==
  ASSUME ChatInv, NEW k \in calls, k.live, ResumeAnswered(k),
         UNCHANGED <<storeVars, historyVars, acts>>
  PROVE  ChatInv'
<1>. DEFINE r == tab[k.tab]
            rest == r.items \ {<<"retry", k.item>>}
            all == rest \cup k.items
            q == [r EXCEPT !.items = rest]
            p == [r EXCEPT !.items = all]
<1>1. /\ PageOK(r) /\ k \in Call /\ CallOK(k) /\ k.tab \in Tabs /\ k.kind = "resume"
      /\ tab \in [Tabs -> PageOf]
  BY Before DEF ResumeAnswered, At
<1>2. rest \in SUBSET Item /\ all \in SUBSET Item BY <1>1 DEF PageOK, PageOf, Call
<1>3. [q EXCEPT !.items = @ \cup k.items] = p BY <1>1 DEF PageOK, PageOf
<1>4. \/ k.res = "success" /\ tab' = [tab EXCEPT ![k.tab] = p] /\ calls' = calls \ {k}
      \/ k.res = "not_delivered" /\ sendMessage(k.tab, k.id, q, FALSE, calls \ {k})
      \/ tab' = tab /\ calls' = calls \ {k}
  <2>. HIDE DEF p
  <2>. QED BY <1>3 DEF ResumeAnswered
<1>. HIDE DEF rest, all
<1>5. PageOK(q) /\ q.busy = r.busy BY <1>1, <1>2, PageFields, ZenonT(60)
<1>6. PageOK(p) /\ p.busy = r.busy BY <1>1, <1>2, PageFields, ZenonT(60)
<1>. HIDE DEF q, p
<1>7. BoundsInv'
  <2>1. lost \in 0..MaxLost BY DEF ChatInv, BoundsInv
  <2>. QED BY <1>1, <2>1, AnswerBounds DEF ResumeAnswered
<1>8. ~Awaited(k) /\ k.id # 0 BY <1>1 DEF Awaited, CallOK
<1>9. CASE tab' = [tab EXCEPT ![k.tab] = p] /\ calls' = calls \ {k}
  BY <1>6, <1>7, <1>9, LeaveStep
<1>10. CASE sendMessage(k.tab, k.id, q, FALSE, calls \ {k})
  BY <1>5, <1>7, <1>8, <1>10, FollowStep
<1>11. CASE tab' = tab /\ calls' = calls \ {k}
  <2>1. tab' = [tab EXCEPT ![k.tab] = r] BY <1>1, <1>11
  <2>. HIDE DEF r
  <2>2. PageOK(r) /\ r.busy = tab[k.tab].busy BY <1>1 DEF r
  <2>. QED BY <2>1, <2>2, <1>7, <1>11, LeaveStep
<1>. QED BY <1>4, <1>9, <1>10, <1>11

(* The state of a session.                                                 *)
LEMMA PollAnsweredStep ==
  ASSUME ChatInv, NEW k \in calls, k.live, PollAnswered(k),
         UNCHANGED <<storeVars, historyVars, acts>>
  PROVE  ChatInv'
<1>. DEFINE new == polled(tab[k.tab], k.sess, k.sessions[1])
<1>1. PageOK(tab[k.tab]) /\ k \in Call /\ CallOK(k) /\ k.tab \in Tabs /\ k.kind = "poll"
  BY Before DEF PollAnswered, At
<1>2. tab' = [tab EXCEPT ![k.tab] = new] /\ calls' = calls \ {k} BY DEF PollAnswered
<1>3. k.sess \in Nat \X Nat /\ IsSession(k.sess) /\ k.sess # NoSession BY <1>1 DEF CallOK, Call
<1>4. PageOK(new) /\ new.busy = tab[k.tab].busy BY <1>1, <1>3, SessionShown
<1>. HIDE DEF new
<1>5. BoundsInv'
  <2>1. lost \in 0..MaxLost /\ lost' = lost BY DEF ChatInv, BoundsInv, PollAnswered
  <2>2. odd' = odd \/ odd' = [odd EXCEPT ![k.tab] = @ \cup {"late poll"}] BY DEF PollAnswered, Note
  <2>. QED BY <1>1, <2>1, <2>2, AnswerBounds
<1>. QED BY <1>2, <1>4, <1>5, LeaveStep

(* Whatever is delivered.                                                  *)
LEMMA DeliverStep ==
  ASSUME ChatInv, NEW k \in calls, Deliver(k)
  PROVE  ChatInv'
BY SendAnsweredStep, ResetAnsweredStep, LoadAnsweredStep, ResumeAnsweredStep, PollAnsweredStep
   DEF Deliver

(* A response that never comes.                                            *)
LEMMA LostStep ==
  ASSUME ChatInv, NEW k \in calls, Lost(k)
  PROVE  ChatInv'
<1>. DEFINE o == [k EXCEPT !.live = FALSE]
            gone == {calls \ {k}, (calls \ {k}) \cup {o}}
            t == k.tab
<1>1. /\ PageOK(tab[t]) /\ k \in Call /\ CallOK(k) /\ t \in Tabs /\ tab \in [Tabs -> PageOf] /\ k.live
  BY Before DEF Lost
<1>2. UNCHANGED <<storeVars, historyVars, acts>> /\ lost' \in 0..MaxLost
  <2>1. lost \in 0..MaxLost /\ MaxLost \in Nat BY StoreConstants DEF ChatInv, BoundsInv
  <2>2. lost < MaxLost /\ lost' = lost + 1 BY DEF Lost
  <2>3. lost' \in 0..MaxLost BY <2>1, <2>2
  <2>4. UNCHANGED <<storeVars, historyVars, acts>> BY DEF Lost
  <2>. QED BY <2>3, <2>4
<1>. DEFINE without == calls \ {k}
            rest == CASE k.pc = "answered" \/ k.kind = "load" -> {without}
                      [] k.pc = "sent" /\ k.kind # "load" ->
                           {without, without \cup {[k EXCEPT !.live = FALSE]}}
                      [] OTHER -> {without \cup {[k EXCEPT !.live = FALSE]}}
            lostTurn == [tab[t] EXCEPT !.busy = FALSE]
<1>3. \A cs \in rest : cs \in gone
  <2>1. CASE k.pc = "answered" \/ k.kind = "load" BY <2>1
  <2>2. CASE k.pc = "sent" /\ k.kind # "load" BY <2>2
  <2>3. CASE k.pc \notin {"answered", "sent"} /\ k.kind # "load" BY <2>3
  <2>. QED BY <2>1, <2>2, <2>3
<1>4. \/ /\ k.kind = "send" /\ calls' \in rest
         /\ tab' = [tab EXCEPT ![t] = lostTurn]
         /\ Note(t, k.cid \notin DOMAIN conv, "unnamed")
      \/ k.kind = "reset" /\ (\E others \in rest : AfterReset(k, 0, others)) /\ UNCHANGED odd
      \/ k.kind = "load" /\ calls' \in rest /\ Note(t, TRUE, "load failed") /\ UNCHANGED tab
      \/ k.kind \in {"resume", "poll"} /\ calls' \in rest /\ UNCHANGED <<tab, odd>>
  BY DEF Lost, releaseBusy
<1>. HIDE DEF rest
<1>5. BoundsInv'
  <2>1. \/ odd' = odd
        \/ odd' = [odd EXCEPT ![t] = @ \cup {"unnamed"}]
        \/ odd' = [odd EXCEPT ![t] = @ \cup {"load failed"}]
    BY <1>4 DEF Note
  <2>. QED BY <1>1, <1>2, <2>1, AnswerBounds
<1>6. CASE k.kind = "send"
  <2>1. calls' \in gone /\ tab' = [tab EXCEPT ![t] = lostTurn] BY <1>3, <1>4, <1>6
  <2>2. PageOK(lostTurn) BY <1>1, PageFields
  <2>3. Awaited(k) BY <1>1, <1>6 DEF Awaited
  <2>. HIDE DEF lostTurn
  <2>. QED BY <1>2, <1>5, <2>1, <2>2, <2>3, LeaveStep
<1>7. CASE k.kind = "reset"
  <2>1. PICK others \in gone : AfterReset(k, 0, others) BY <1>3, <1>4, <1>7
  <2>. QED BY <1>2, <1>5, <1>7, <2>1, ResetStep
<1>8. CASE k.kind \in {"load", "resume", "poll"}
  <2>. DEFINE r == tab[t]
  <2>1. calls' \in gone /\ tab' = tab BY <1>3, <1>4, <1>8
  <2>2. tab' = [tab EXCEPT ![t] = r] BY <1>1, <2>1
  <2>. HIDE DEF r
  <2>3. PageOK(r) /\ r.busy = tab[k.tab].busy BY <1>1 DEF r
  <2>. QED BY <1>2, <1>5, <2>1, <2>2, <2>3, LeaveStep
<1>. QED BY <1>4, <1>6, <1>7, <1>8

(* An interval asks for the state of a session.                             *)
LEMMA PollTickStep ==
  ASSUME ChatInv, NEW t \in Tabs, PollTick(t)
  PROVE  ChatInv'
<1>1. PICK s \in tab[t].polls : calls' = calls \cup {PollRead(t, s)} BY DEF PollTick
<1>. DEFINE k == PollRead(t, s)
<1>2. s \in Nat \X Nat /\ s # NoSession /\ IsSession(s)
  <2>1. PageOK(tab[t]) BY Before
  <2>. QED BY <2>1 DEF PageOK, PageOf
<1>3. UNCHANGED <<storeVars, historyVars, tab, acts, lost, odd>> BY DEF PollTick
<1>4. State(s) \in SessionState
  <2>1. s[1] \in Ids /\ s[2] \in DOMAIN conv[s[1]].sessions BY <1>2 DEF IsSession
  <2>2. conv \in Seq(Row) BY DEF ChatInv, RowsInv
  <2>3. conv[s[1]] \in Row BY <2>1, <2>2 DEF Ids
  <2>4. conv[s[1]].sessions \in Seq(SessionState) BY <2>3 DEF Row
  <2>. QED BY <2>1, <2>4 DEF State
<1>5. CallOK(k) /\ ~Awaited(k) /\ ~Inserts(k)
  <2>1. MaxActs \in Nat /\ 0 \in 0..MaxActs BY StoreConstants
  <2>. DEFINE st == <<State(s)>>
  <2>2. st \in Seq(SessionState) BY <1>4
  <2>3. NoSession \in Nat \X Nat BY DEF NoSession
  <2>. HIDE DEF st, NoSession
  <2>4. /\ k \in Call /\ k.conv = 0 /\ k.sess = s /\ k.cid = 0 /\ k.kind = "poll"
    BY <1>2, <2>1, <2>2, <2>3 DEF PollRead, Sent, Call, st
  <2>. HIDE DEF k
  <2>. QED BY <1>2, <2>4 DEF CallOK, At, Awaited, Inserts
<1>. HIDE DEF k
<1>6. \A j \in calls' : CallOK(j) /\ (Inserts(j) => \E i \in calls : Inserts(i))
  BY <1>1, <1>5, Before DEF k
<1>7. BusyIn(calls', tab')
  <2>1. \A j \in calls' : Awaited(j) => j \in calls BY <1>1, <1>5 DEF k
  <2>. QED BY <2>1, <1>3, Before DEF BusyIn
<1>8. BoundsInv' BY <1>3 DEF ChatInv, BoundsInv
<1>. QED BY <1>3, <1>6, <1>7, <1>8, Before, PageFrame
-----------------------------------------------------------------------------
(* The server.                                                             *)

(* Rows are never deleted, sessions neither: what requests and pages name    *)
(* still exists.                                                           *)
Grows ==
  /\ Ids \subseteq Ids'
  /\ \A c \in Ids : /\ Len(conv[c].sessions) <= Len(conv'[c].sessions)
                    /\ DOMAIN conv[c].sessions \subseteq DOMAIN conv'[c].sessions
                    /\ conv[c].sessions # <<>> => conv'[c].sessions # <<>>
LEMMA StillThere ==
  ASSUME CallsInv, PagesInv, Grows, UNCHANGED tab,
         \A c \in Ids : Len(conv[c].sessions) \in Nat /\ Len(conv'[c].sessions) \in Nat
  PROVE  /\ PagesInv' /\ \A k \in calls : CallOK(k)' /\ (\A s : IsSession(s) => IsSession(s)')
<1>1. \A s : IsSession(s) => IsSession(s)' BY DEF Grows, IsSession, Ids
<1>2. Ids \subseteq Ids' BY DEF Grows
<1>3. PagesInv'
  <2>1. \A t \in Tabs : PageOK(tab[t])' BY <1>1, <1>2 DEF PagesInv, PageOK
  <2>. QED BY <2>1 DEF PagesInv
<1>4. ASSUME NEW k \in calls
      PROVE  CallOK(k)'
  <2>1. CallOK(k) BY DEF CallsInv
  <2>2. IsSession(k.sess)' BY <2>1, <1>1 DEF CallOK
  <2>3. At(k, "send", "handling") => k.conv \in Ids' /\ (k.iv => conv'[k.conv].sessions # <<>>)
    BY <2>1 DEF CallOK, Grows, At
  <2>4. At(k, "load", "answered") /\ k.res # "missing" =>
          k.cid \in Ids' /\ Len(k.sessions) <= Len(conv'[k.cid].sessions)
    <3>. SUFFICES ASSUME At(k, "load", "answered"), k.res # "missing"
                  PROVE  k.cid \in Ids' /\ Len(k.sessions) <= Len(conv'[k.cid].sessions)
      OBVIOUS
    <3>1. k.cid \in Ids /\ Len(k.sessions) <= Len(conv[k.cid].sessions) BY <2>1 DEF CallOK
    <3>2. Len(k.sessions) \in Nat BY <2>1 DEF CallOK, Call
    <3>3. Len(conv[k.cid].sessions) <= Len(conv'[k.cid].sessions) /\ k.cid \in Ids' BY <3>1 DEF Grows
    <3>. QED BY <3>1, <3>2, <3>3
  <2>. QED BY <2>1, <2>2, <2>3, <2>4, <1>2 DEF CallOK, At
<1>. QED BY <1>1, <1>3, <1>4

(* The fields of a row.                                                    *)
LEMMA RowFacts ==
  ASSUME RowsInv
  PROVE  /\ Len(conv) \in Nat /\ Ids = 1..Len(conv)
         /\ \A c \in Ids : /\ conv[c] \in Row /\ RowOK(conv[c])
                           /\ conv[c].sessions \in Seq(SessionState)
                           /\ Len(conv[c].sessions) \in Nat
                           /\ DOMAIN conv[c].sessions = 1..Len(conv[c].sessions)
                           /\ conv[c].msgs \in Seq(Message)
                           /\ Len(conv[c].msgs) \in Nat
                           /\ DOMAIN conv[c].msgs = 1..Len(conv[c].msgs)
<1>1. conv \in Seq(Row) /\ \A c \in Ids : RowOK(conv[c]) BY DEF RowsInv
<1>2. Len(conv) \in Nat /\ Ids = 1..Len(conv) BY <1>1 DEF Ids
<1>3. ASSUME NEW c \in Ids
      PROVE  /\ conv[c] \in Row
             /\ conv[c].sessions \in Seq(SessionState) /\ conv[c].msgs \in Seq(Message)
  <2>1. conv[c] \in Row BY <1>1, <1>2
  <2>. QED BY <2>1 DEF Row
<1>. QED BY <1>1, <1>2, <1>3

(* Sessions are counted, before a step and after it.                        *)
LEMMA SessionCounts ==
  ASSUME RowsInv, RowsInv', Grows
  PROVE  \A d \in Ids : Len(conv[d].sessions) \in Nat /\ Len(conv'[d].sessions) \in Nat
<1>1. \A d \in Ids : Len(conv[d].sessions) \in Nat BY RowFacts
<1>2. conv' \in Seq(Row) BY DEF RowsInv
<1>3. \A d \in DOMAIN conv' : conv'[d] \in Row BY <1>2
<1>4. Ids' = DOMAIN conv' BY DEF Ids
<1>5. \A d \in Ids' : Len(conv'[d].sessions) \in Nat BY <1>3, <1>4 DEF Row
<1>6. Ids \subseteq Ids' BY DEF Grows
<1>. QED BY <1>1, <1>5, <1>6

(* A request is answered, dropped, or goes on, and the rows grow.           *)
LEMMA ServeFrame ==
  ASSUME ChatInv, Grows, RowsInv', EmptyInv', UNCHANGED <<tab, acts, lost, odd>>,
         NEW k \in calls, NEW next, CallOK(next)', next.kind = k.kind, next.tab = k.tab,
         next.live = k.live, calls' \in {calls \ {k}, (calls \ {k}) \cup {next}}
  PROVE  ChatInv'
<1>1. \A c \in Ids : Len(conv[c].sessions) \in Nat /\ Len(conv'[c].sessions) \in Nat
  BY SessionCounts DEF ChatInv
<1>2. PagesInv' /\ \A j \in calls : CallOK(j)' BY <1>1, StillThere DEF ChatInv
<1>3. \A j \in calls' : (j \in calls /\ j # k) \/ j = next OBVIOUS
<1>4. CallsInv'
  <2>1. \A j \in calls' : CallOK(j)' BY <1>2, <1>3
  <2>. QED BY <2>1 DEF CallsInv
<1>5. BusyInv'
  <2>1. BusyIn(calls, tab) BY Before
  <2>2. Awaited(next) <=> Awaited(k) BY DEF Awaited
  <2>3. \A j \in calls' : Awaited(j) => tab[j.tab].busy BY <1>3, <2>1, <2>2 DEF BusyIn
  <2>4. \A i, j \in calls' : Awaited(i) /\ Awaited(j) /\ i.tab = j.tab => i = j
    BY <1>3, <2>1, <2>2 DEF BusyIn
  <2>5. BusyIn(calls', tab') BY <2>3, <2>4 DEF BusyIn
  <2>. QED BY <2>5 DEF BusyInv
<1>6. BoundsInv' BY DEF ChatInv, BoundsInv
<1>. QED BY <1>2, <1>4, <1>5, <1>6 DEF ChatInv

(* One row is written, or a new one inserted, and it moves to the end of the *)
(* order if it was touched.                                                *)
LEMMA RowsWritten ==
  ASSUME RowsInv, NEW c \in Ids \cup {Len(conv) + 1}, NEW rows,
         rows = [i \in Ids \cup {c} |-> rows[i]],
         \A i \in Ids \cup {c} : rows[i] \in Row /\ RowOK(rows[i]),
         conv' = rows, recent' = touched(recent, c) \/ (recent' = recent /\ c \in Ids)
  PROVE  /\ RowsInv' /\ Ids' = Ids \cup {c}
<1>1. Len(conv) \in Nat /\ Ids = 1..Len(conv) BY RowFacts
<1>2. \E n \in Nat : Ids \cup {c} = 1..n
  <2>1. CASE c \in Ids BY <1>1, <2>1
  <2>2. CASE c = Len(conv) + 1
    <3>1. Ids \cup {c} = 1..(Len(conv) + 1) BY <1>1, <2>2
    <3>. QED BY <3>1, <1>1
  <2>. QED BY <2>1, <2>2
<1>3. PICK n \in Nat : Ids \cup {c} = 1..n BY <1>2
<1>4. conv' \in Seq(Row) /\ DOMAIN conv' = 1..n /\ Len(conv') = n
  <2>1. rows = [i \in 1..n |-> rows[i]] BY <1>3
  <2>2. \A i \in 1..n : rows[i] \in Row BY <1>3
  <2>3. rows \in [1..n -> Row] BY <2>1, <2>2, Zenon
  <2>4. rows \in Seq(Row)
    <3>1. [1..n -> Row] \in {[1..m -> Row] : m \in Nat} BY <1>3, Zenon
    <3>2. rows \in UNION {[1..m -> Row] : m \in Nat} BY <2>3, <3>1, Zenon
    <3>3. Seq(Row) = UNION {[1..m -> Row] : m \in Nat} BY SeqDef, Zenon
    <3>. QED BY <3>2, <3>3, Zenon
  <2>5. DOMAIN rows = 1..n BY <2>1
  <2>. QED BY <2>4, <2>5
<1>5. Ids' = Ids \cup {c} BY <1>3, <1>4 DEF Ids
<1>6. n = IF c \in Ids THEN Len(conv) ELSE Len(conv) + 1
  <2>1. CASE c \in Ids BY <1>1, <1>3, <2>1
  <2>2. CASE c = Len(conv) + 1
    <3>1. Ids \cup {c} = 1..(Len(conv) + 1) /\ c \notin Ids BY <1>1, <2>2
    <3>. QED BY <3>1, <1>1, <1>3
  <2>. QED BY <2>1, <2>2
<1>7. recent \in Seq(Ids) /\ Len(recent) = Len(conv) /\ {recent[i] : i \in DOMAIN recent} = Ids
  BY DEF RowsInv
<1>8. /\ recent' \in Seq(Ids \cup {c}) /\ Len(recent') = n
      /\ {recent'[i] : i \in DOMAIN recent'} = Ids \cup {c}
  <2>1. CASE recent' = touched(recent, c) BY <2>1, <1>6, <1>7, Touched, SMTT(60)
  <2>2. CASE recent' = recent /\ c \in Ids
    <3>1. Ids \cup {c} = Ids BY <2>2
    <3>. QED BY <3>1, <2>2, <1>6, <1>7
  <2>. QED BY <2>1, <2>2
<1>9. \A i \in Ids' : RowOK(conv'[i]) BY <1>5
<1>. QED BY <1>4, <1>5, <1>8, <1>9 DEF RowsInv

(* No row becomes empty, and no reset is about to insert that was not.      *)
LEMMA EmptyKept ==
  ASSUME EmptyInv, raced' = raced,
         \A c \in Ids' : conv'[c].msgs = <<>> => c \in Ids /\ conv[c].msgs = <<>>,
         \A k \in calls' : Inserts(k) => \E j \in calls : Inserts(j)
  PROVE  EmptyInv'
<1>1. \A k : Inserts(k)' <=> Inserts(k) BY DEF Inserts, At
<1>2. \A c \in Ids' : Empty(c)' => c \in Ids /\ Empty(c) BY DEF Empty
<1>. QED BY <1>1, <1>2 DEF EmptyInv

(* The rows are left alone.                                                *)
LEMMA RowsLeft ==
  ASSUME ChatInv, UNCHANGED storeVars
  PROVE  /\ RowsInv' /\ Grows /\ Ids' = Ids /\ conv' = conv
         /\ \A k : CallOK(k)' <=> CallOK(k)
<1>1. conv' = conv /\ recent' = recent BY DEF storeVars
<1>2. RowsInv' BY <1>1 DEF ChatInv, RowsInv, Ids
<1>3. Ids' = Ids BY <1>1 DEF Ids
<1>4. Grows
  <2>1. \A c \in Ids : Len(conv[c].sessions) \in Nat BY RowFacts DEF ChatInv
  <2>. QED BY <1>1, <1>3, <2>1 DEF Grows
<1>5. \A k : CallOK(k)' <=> CallOK(k) BY <1>1 DEF CallOK, IsSession, Ids
<1>. QED BY <1>1, <1>2, <1>3, <1>4, <1>5

(* A conversation is written, with a message or without, and one request     *)
(* moves on.                                                               *)
LEMMA WriteStep ==
  ASSUME ChatInv, UNCHANGED <<tab, acts, lost, odd, raced>>,
         NEW c \in Ids \cup {Len(conv) + 1}, NEW row \in Row, RowOK(row),
         conv' = [i \in Ids \cup {c} |-> IF i = c THEN row ELSE conv[i]],
         recent' = touched(recent, c) \/ (recent' = recent /\ c \in Ids),
         c \in Ids => Len(conv[c].sessions) <= Len(row.sessions),
         row.msgs = <<>> => c \in Ids /\ conv[c].msgs = <<>>
  PROVE  /\ RowsInv' /\ Grows /\ Ids' = Ids \cup {c}
         /\ \A i \in Ids' : conv'[i].msgs = <<>> => i \in Ids /\ conv[i].msgs = <<>>
<1>1. Len(conv) \in Nat /\ Ids = 1..Len(conv)
      /\ \A i \in Ids : /\ conv[i] \in Row /\ RowOK(conv[i])
                        /\ conv[i].sessions \in Seq(SessionState)
                        /\ Len(conv[i].sessions) \in Nat
                        /\ DOMAIN conv[i].sessions = 1..Len(conv[i].sessions)
  BY RowFacts DEF ChatInv
<1>. DEFINE rows == [i \in Ids \cup {c} |-> IF i = c THEN row ELSE conv[i]]
<1>2. rows = [i \in Ids \cup {c} |-> rows[i]] OBVIOUS
<1>3. \A i \in Ids \cup {c} : rows[i] = IF i = c THEN row ELSE conv[i] OBVIOUS
<1>4. conv' = rows OBVIOUS
<1>. HIDE DEF rows
<1>5. \A i \in Ids \cup {c} : rows[i] \in Row /\ RowOK(rows[i]) BY <1>1, <1>3
<1>6. RowsInv' /\ Ids' = Ids \cup {c} BY <1>2, <1>4, <1>5, RowsWritten DEF ChatInv
<1>7. Grows
  <2>1. row.sessions \in Seq(SessionState) /\ Len(row.sessions) \in Nat
        /\ DOMAIN row.sessions = 1..Len(row.sessions)
    <3>1. row.sessions \in Seq(SessionState) BY DEF Row
    <3>. QED BY <3>1
  <2>2. ASSUME NEW i \in Ids
        PROVE  /\ Len(conv[i].sessions) <= Len(conv'[i].sessions)
               /\ DOMAIN conv[i].sessions \subseteq DOMAIN conv'[i].sessions
               /\ conv[i].sessions # <<>> => conv'[i].sessions # <<>>
    <3>1. CASE i = c
      <4>1. conv'[i] = row BY <3>1, <1>3, <1>4
      <4>2. Len(conv[i].sessions) <= Len(row.sessions) BY <3>1
      <4>3. DOMAIN conv[i].sessions \subseteq DOMAIN row.sessions BY <1>1, <2>1, <4>2
      <4>4. conv[i].sessions # <<>> => row.sessions # <<>>
        <5>1. conv[i].sessions # <<>> => Len(conv[i].sessions) # 0 BY <1>1
        <5>. QED BY <5>1, <1>1, <2>1, <4>2
      <4>. QED BY <4>1, <4>2, <4>3, <4>4
    <3>2. CASE i # c
      <4>1. conv'[i] = conv[i] BY <3>2, <1>3, <1>4
      <4>. QED BY <4>1, <1>1
    <3>. QED BY <3>1, <3>2
  <2>. QED BY <2>2, <1>6 DEF Grows
<1>8. \A i \in Ids' : conv'[i].msgs = <<>> => i \in Ids /\ conv[i].msgs = <<>>
  BY <1>3, <1>4, <1>6
<1>. QED BY <1>6, <1>7, <1>8

(* What a request is told of the user's conversations.                      *)
LEMMA Looked ==
  ASSUME RowsInv
  PROVE  /\ MostRecent \in Ids \cup {0} /\ find_current \in Ids \cup {0}
         /\ find_empty_for_user \in Ids \cup {0}
         /\ find_empty_for_user = 0 => \A c \in Ids : ~Empty(c)
         /\ \A i \in list_for_user : recent[i] \in Ids
<1>1. Len(conv) \in Nat /\ Ids = 1..Len(conv) BY RowFacts
<1>2. recent \in Seq(Ids) /\ Len(recent) = Len(conv) BY DEF RowsInv
<1>3. \A i \in list_for_user : recent[i] \in Ids BY <1>2 DEF list_for_user
<1>4. MostRecent \in Ids \cup {0}
  <2>1. recent # <<>> => Len(recent) \in 1..Len(recent) BY <1>1, <1>2
  <2>. QED BY <2>1, <1>2 DEF MostRecent
<1>5. find_current \in Ids \cup {0}
  <2>1. list_for_user \in SUBSET (0..Len(conv)) BY <1>1, <1>2 DEF list_for_user
  <2>2. list_for_user # {} => Max(list_for_user) \in list_for_user BY <2>1, <1>1, MaxOf
  <2>. QED BY <2>2, <1>3 DEF find_current
<1>6. find_empty_for_user \in Ids \cup {0} /\ (find_empty_for_user = 0 => \A c \in Ids : ~Empty(c))
  <2>. DEFINE T == {0} \cup {c \in DOMAIN conv : Empty(c)}
  <2>1. T \in SUBSET (0..Len(conv)) /\ T # {} BY <1>1 DEF Ids
  <2>2. \A c \in Ids : Empty(c) => c \in T BY DEF Ids
  <2>3. T \subseteq Ids \cup {0} BY DEF Ids
  <2>4. find_empty_for_user = Max(T) BY DEF find_empty_for_user
  <2>. HIDE DEF T
  <2>5. Max(T) \in T /\ \A y \in T : Max(T) >= y BY <2>1, <1>1, MaxOf
  <2>6. ASSUME Max(T) = 0, NEW c \in Ids, Empty(c)
        PROVE  FALSE
    BY <2>2, <2>5, <2>6, <1>1
  <2>. QED BY <2>3, <2>4, <2>5, <2>6
<1>. QED BY <1>3, <1>4, <1>5, <1>6

(* A request moves on without writing.                                     *)
LEMMA QuietStep ==
  ASSUME ChatInv, UNCHANGED <<storeVars, raced, tab, acts, lost, odd>>,
         NEW k \in calls, NEW next, CallOK(next), next.kind = k.kind, next.tab = k.tab,
         next.live = k.live, calls' \in {calls \ {k}, (calls \ {k}) \cup {next}},
         Inserts(next) => Inserts(k) \/ \A c \in Ids : ~Empty(c)
  PROVE  ChatInv'
<1>1. RowsInv' /\ Grows /\ Ids' = Ids /\ conv' = conv /\ CallOK(next)' BY RowsLeft
<1>2. EmptyInv'
  <2>1. raced' = raced /\ \A c \in Ids' : Empty(c)' <=> Empty(c) BY <1>1 DEF Empty
  <2>2. \A j : Inserts(j)' <=> Inserts(j) BY DEF Inserts, At
  <2>3. \A j \in calls' : Inserts(j) => \/ \E i \in calls : Inserts(i)
                                        \/ \A c \in Ids : ~Empty(c)
    OBVIOUS
  <2>. QED BY <2>1, <2>2, <2>3, <1>1 DEF ChatInv, EmptyInv
<1>. QED BY <1>1, <1>2, ServeFrame

(* The answer to a request, for those who still wait.                       *)
LEMMA Answered ==
  ASSUME NEW k \in calls, NEW next, Answer(k, next)
  PROVE  calls' \in {calls \ {k}, (calls \ {k}) \cup {[next EXCEPT !.pc = "answered"]}}
BY DEF Answer, Becomes

(* resolve, the refusals, and the history: nothing is written.              *)
LEMMA ReadStep ==
  ASSUME ChatInv, NEW k \in calls, UNCHANGED <<tab, acts, lost, odd>>,
         TurnResolve(k) \/ TurnRefused(k) \/ ResetRead(k) \/ LoadRead(k)
  PROVE  ChatInv'
<1>1. k \in Call /\ CallOK(k) BY Before
<1>2. RowsInv BY DEF ChatInv
<1>3. CASE TurnResolve(k)
  <2>. DEFINE c == IF k.cid = 0 THEN MostRecent ELSE 0
             next == [k EXCEPT !.pc = "accept", !.conv = c]
  <2>1. calls' = (calls \ {k}) \cup {next} /\ UNCHANGED <<storeVars, raced>> /\ At(k, "send", "sent")
    BY <1>3 DEF TurnResolve, Becomes
  <2>2. c \in Ids \cup {0} /\ c \in Nat
    <3>1. MostRecent \in Ids \cup {0} BY <1>2, Looked
    <3>2. Ids = 1..Len(conv) /\ Len(conv) \in Nat BY <1>2, RowFacts
    <3>. QED BY <3>1, <3>2
  <2>. HIDE DEF c
  <2>3. /\ next \in Call /\ next.kind = "send" /\ next.tab = k.tab /\ next.live = k.live
        /\ next.pc = "accept" /\ next.conv = c /\ next.sess = k.sess /\ next.cid = k.cid
        /\ next.id = k.id /\ k.kind = "send"
    BY <1>1, <2>1, <2>2 DEF Call, At
  <2>. HIDE DEF next
  <2>4. CallOK(next) BY <1>1, <2>2, <2>3 DEF CallOK, At
  <2>5. ~Inserts(next) BY <2>3 DEF Inserts, At
  <2>. QED BY <2>1, <2>3, <2>4, <2>5, QuietStep
<1>4. CASE TurnRefused(k)
  <2>. DEFINE answer == [k EXCEPT !.res = "error"]
             next == [answer EXCEPT !.pc = "answered"]
  <2>1. Answer(k, answer) /\ UNCHANGED <<storeVars, raced>> /\ k.kind = "send"
    BY <1>4 DEF TurnRefused, historyVars, Resolved, At
  <2>2. calls' \in {calls \ {k}, (calls \ {k}) \cup {next}}
    <3>. HIDE DEF answer
    <3>. QED BY <2>1, Answered
  <2>3. /\ next \in Call /\ next.kind = "send" /\ next.tab = k.tab /\ next.live = k.live
        /\ next.pc = "answered" /\ next.conv = k.conv /\ next.sess = k.sess /\ next.cid = k.cid
        /\ next.id = k.id /\ next.res = "error"
    BY <1>1, <2>1 DEF Call
  <2>. HIDE DEF next
  <2>4. CallOK(next) BY <1>1, <2>1, <2>3 DEF CallOK, At
  <2>5. ~Inserts(next) BY <2>3 DEF Inserts, At
  <2>. QED BY <2>1, <2>2, <2>3, <2>4, <2>5, QuietStep
<1>5. CASE ResetRead(k)
  <2>. DEFINE c == find_current
             e == find_empty_for_user
             next == [k EXCEPT !.pc = "commit", !.cid = c, !.conv = e]
  <2>1. calls' = (calls \ {k}) \cup {next} /\ UNCHANGED <<storeVars, raced>> /\ k.kind = "reset"
    BY <1>5 DEF ResetRead, Becomes, historyVars, At
  <2>2. /\ c \in Ids \cup {0} /\ e \in Ids \cup {0} /\ (e = 0 => \A d \in Ids : ~Empty(d))
        /\ c \in Nat /\ e \in Nat
    <3>1. /\ c \in Ids \cup {0} /\ e \in Ids \cup {0} /\ (e = 0 => \A d \in Ids : ~Empty(d))
      BY <1>2, Looked
    <3>2. Ids = 1..Len(conv) /\ Len(conv) \in Nat BY <1>2, RowFacts
    <3>. QED BY <3>1, <3>2
  <2>. HIDE DEF c, e
  <2>3. /\ next \in Call /\ next.kind = "reset" /\ next.tab = k.tab /\ next.live = k.live
        /\ next.pc = "commit" /\ next.conv = e /\ next.sess = k.sess /\ next.cid = c
        /\ next.id = k.id
    BY <1>1, <2>1, <2>2 DEF Call
  <2>. HIDE DEF next
  <2>4. CallOK(next) BY <1>1, <2>1, <2>2, <2>3 DEF CallOK, At
  <2>5. Inserts(next) => \A d \in Ids : ~Empty(d) BY <2>2, <2>3 DEF Inserts
  <2>. QED BY <2>1, <2>3, <2>4, <2>5, QuietStep
<1>6. CASE LoadRead(k)
  <2>. DEFINE items == {ShownAs(conv[k.cid].msgs[i]) : i \in DOMAIN conv[k.cid].msgs}
             found == [k EXCEPT !.res = "success", !.sessions = conv[k.cid].sessions,
                                !.items = items]
             missing == [k EXCEPT !.res = "missing"]
             answer == IF k.cid \in DOMAIN conv THEN found ELSE missing
             next == [answer EXCEPT !.pc = "answered"]
  <2>1. Answer(k, answer) /\ UNCHANGED <<storeVars, raced>> /\ k.kind = "load"
    BY <1>6 DEF LoadRead, historyVars, At
  <2>2. calls' \in {calls \ {k}, (calls \ {k}) \cup {next}}
    <3>. HIDE DEF answer
    <3>. QED BY <2>1, Answered
  <2>3. CASE k.cid \in DOMAIN conv
    <3>1. /\ k.cid \in Ids /\ conv[k.cid].sessions \in Seq(SessionState)
          /\ conv[k.cid].msgs \in Seq(Message) /\ Len(conv[k.cid].sessions) \in Nat
      BY <2>3, <1>2, RowFacts DEF Ids
    <3>2. items \in SUBSET Item
      <4>. SUFFICES ASSUME NEW i \in DOMAIN conv[k.cid].msgs
                    PROVE  ShownAs(conv[k.cid].msgs[i]) \in Item
        OBVIOUS
      <4>1. conv[k.cid].msgs[i] \in Message BY <3>1
      <4>2. conv[k.cid].msgs[i].act \in Nat BY <4>1, StoreConstants DEF Message
      <4>3. \A m \in Message : m.act \in Nat => ShownAs(m) \in Item
        <5>. SUFFICES ASSUME NEW m \in Message, m.act \in Nat
                      PROVE  ShownAs(m) \in Item
          OBVIOUS
        <5>1. \/ ShownAs(m) = <<"user", m.act>> \/ ShownAs(m) = <<"question", m.act>>
              \/ ShownAs(m) = <<"agent", m.act>>
          BY DEF ShownAs, Message
        <5>. QED BY <5>1 DEF Item
      <4>. QED BY <4>1, <4>2, <4>3
    <3>. HIDE DEF items
    <3>3. next = [found EXCEPT !.pc = "answered"] BY <2>3
    <3>4. /\ next \in Call /\ next.kind = "load" /\ next.tab = k.tab /\ next.live = k.live
          /\ next.pc = "answered" /\ next.conv = k.conv /\ next.sess = k.sess /\ next.cid = k.cid
          /\ next.sessions = conv[k.cid].sessions
      BY <1>1, <2>1, <3>1, <3>2, <3>3, ZenonT(60) DEF Call
    <3>. HIDE DEF next
    <3>5. CallOK(next) BY <1>1, <3>1, <3>4 DEF CallOK, At
    <3>6. ~Inserts(next) BY <3>4 DEF Inserts, At
    <3>. QED BY <2>1, <2>2, <3>4, <3>5, <3>6, QuietStep
  <2>4. CASE k.cid \notin DOMAIN conv
    <3>1. next = [missing EXCEPT !.pc = "answered"] BY <2>4
    <3>2. /\ next \in Call /\ next.kind = "load" /\ next.tab = k.tab /\ next.live = k.live
          /\ next.pc = "answered" /\ next.conv = k.conv /\ next.sess = k.sess /\ next.cid = k.cid
          /\ next.res = "missing"
      BY <1>1, <2>1, <3>1, ZenonT(60) DEF Call
    <3>. HIDE DEF next
    <3>3. CallOK(next) BY <1>1, <3>2 DEF CallOK, At
    <3>4. ~Inserts(next) BY <3>2 DEF Inserts, At
    <3>. QED BY <2>1, <2>2, <3>2, <3>3, <3>4, QuietStep
  <2>. QED BY <2>3, <2>4
<1>. QED BY <1>3, <1>4, <1>5, <1>6

(* One row of a table written with EXCEPT.                                 *)
LEMMA RowExcept ==
  ASSUME RowsInv, NEW c \in Ids, NEW row
  PROVE  [conv EXCEPT ![c] = row] = [i \in Ids \cup {c} |-> IF i = c THEN row ELSE conv[i]]
<1>1. conv \in Seq(Row) /\ Ids \cup {c} = DOMAIN conv BY DEF RowsInv, Ids
<1>2. conv = [i \in DOMAIN conv |-> conv[i]] BY <1>1
<1>. QED BY <1>1, <1>2

(* What an agent says leaves title and sessions as they were.               *)
LEMMA AgentSays ==
  ASSUME NEW row \in Row, RowOK(row), NEW m \in Message, m.role = "agent",
         NEW new, new.msgs = Append(row.msgs, m), new.title = row.title, new.flag = row.flag,
         new.sessions # <<>> => row.sessions # <<>>
  PROVE  RowOK(new) /\ new.msgs # <<>>
<1>1. Titled(new) /\ \A i \in From(new, {"user"}) : new.msgs[i].act # 0 BY SaidOther
<1>. DEFINE asked == {"user", "auto"}
<1>2. m.role \notin asked OBVIOUS
<1>. HIDE DEF asked
<1>3. From(new, asked) = From(row, asked) /\ new.msgs # <<>>
  <2>1. From(new, asked) = From(row, asked) \cup (IF m.role \in asked THEN {Len(row.msgs) + 1} ELSE {})
        /\ new.msgs # <<>>
    BY FromAppended
  <2>. QED BY <2>1, <1>2
<1>. QED BY <1>1, <1>3 DEF RowOK, asked

(* Steps 2 to 9 of a turn, on its row.                                     *)
LEMMA AcceptedRow ==
  ASSUME NEW row \in Row, RowOK(row), NEW k \in Call, k.id \in 1..MaxActs
  PROVE  LET new == Accepted(row, k)
         IN  /\ new \in Row /\ RowOK(new) /\ new.msgs # <<>>
             /\ Len(row.sessions) <= Len(new.sessions)
             /\ k.key \/ IsOpen(row) => new.sessions # <<>>
<1>. DEFINE titled == IF k.auto THEN row ELSE replace_placeholder_title(coalesced(row, k.id), k.id)
            opens == k.key /\ ~IsOpen(row)
            m == Msg(IF k.auto THEN "auto" ELSE "user", k.id, 0)
            msgs == Append(row.msgs, m)
            sessions == IF opens THEN Append(row.sessions, "open") ELSE row.sessions
            new == Accepted(row, k)
<1>1. /\ row.msgs \in Seq(Message) /\ row.sessions \in Seq(SessionState) /\ row.title \in 0..Generated
      /\ row.flag \in BOOLEAN /\ k.auto \in BOOLEAN /\ k.key \in BOOLEAN
  BY DEF Row, Call
<1>2. MaxActs \in Nat /\ Generated = MaxActs + 1 BY StoreConstants DEF Generated
<1>3. titled \in Row /\ titled.msgs = row.msgs /\ titled.sessions = row.sessions
  <2>1. k.id \in 0..Generated BY <1>2
  <2>2. coalesced(row, k.id) \in Row BY <2>1 DEF coalesced, Row
  <2>3. \A q \in Row : replace_placeholder_title(q, k.id) \in Row
    BY <2>1 DEF replace_placeholder_title, Row
  <2>4. titled \in Row BY <2>2, <2>3
  <2>5. titled.msgs = row.msgs /\ titled.sessions = row.sessions
    BY DEF replace_placeholder_title, coalesced
  <2>. QED BY <2>4, <2>5
<1>4. m \in Message /\ m.act = k.id /\ m.role = IF k.auto THEN "auto" ELSE "user"
  BY <1>2 DEF Msg, Message
<1>5. msgs \in Seq(Message) /\ msgs # <<>> /\ sessions \in Seq(SessionState)
      /\ Len(row.sessions) <= Len(sessions) /\ (opens \/ row.sessions # <<>> => sessions # <<>>)
  <2>. HIDE DEF m
  <2>1. msgs \in Seq(Message) /\ msgs # <<>> BY <1>1, <1>4, Appended
  <2>2. "open" \in SessionState BY DEF SessionState
  <2>3. /\ Append(row.sessions, "open") \in Seq(SessionState) /\ Append(row.sessions, "open") # <<>>
        /\ Len(row.sessions) <= Len(Append(row.sessions, "open"))
        /\ Len(row.sessions) \in Nat
    BY <1>1, <2>2, Appended
  <2>. QED BY <1>1, <2>1, <2>3
<1>6. /\ new \in Row /\ new.msgs = msgs /\ new.sessions = sessions /\ new.title = titled.title
      /\ new.flag = titled.flag
  <2>. HIDE DEF titled, m, msgs, sessions, opens
  <2>1. new = [titled EXCEPT !.msgs = msgs, !.sessions = sessions, !.lock = k.id]
    BY <1>3 DEF Accepted, titled, m, msgs, sessions, opens
  <2>2. k.id \in 0..MaxActs BY <1>2
  <2>. QED BY <1>3, <1>5, <2>1, <2>2 DEF Row
<1>7. Titled(new) /\ \A i \in From(new, {"user"}) : new.msgs[i].act # 0
  <2>1. CASE k.auto
    <3>1. m.role # "user" /\ titled = row BY <1>4, <2>1
    <3>. HIDE DEF new, m, titled
    <3>. QED BY <1>4, <1>6, <3>1, SaidOther
  <2>2. CASE ~k.auto
    <3>1. m = Msg("user", k.id, 0) /\ titled = replace_placeholder_title(coalesced(row, k.id), k.id)
      BY <2>2
    <3>. HIDE DEF new, m, titled
    <3>2. new.msgs = Append(row.msgs, Msg("user", k.id, 0)) BY <1>6, <3>1
    <3>3. LET q == replace_placeholder_title(coalesced(row, k.id), k.id)
          IN  new.title = q.title /\ new.flag = q.flag
      BY <1>6, <3>1
    <3>. QED BY <3>2, <3>3, SaidTyped
  <2>. QED BY <2>1, <2>2
<1>8. From(new, {"user", "auto"}) # {}
  <2>. DEFINE asked == {"user", "auto"}
  <2>1. m.role \in asked BY <1>4
  <2>. HIDE DEF new, m, asked
  <2>2. From(new, asked) = From(row, asked) \cup (IF m.role \in asked THEN {Len(row.msgs) + 1} ELSE {})
    BY <1>4, <1>6, FromAppended
  <2>. QED BY <2>1, <2>2 DEF asked
<1>9. RowOK(new)
  <2>. HIDE DEF new
  <2>. QED BY <1>7, <1>8 DEF RowOK
<1>10. k.key \/ IsOpen(row) => opens \/ row.sessions # <<>> BY <1>1 DEF IsOpen
<1>. HIDE DEF new, msgs, sessions, opens
<1>. QED BY <1>5, <1>6, <1>9, <1>10 DEF new

(* A new row.                                                              *)
LEMMA NewRowOK == NewRow \in Row /\ RowOK(NewRow)
<1>1. MaxActs \in Nat /\ Generated = MaxActs + 1 BY StoreConstants DEF Generated
<1>2. 0 \in 0..MaxActs /\ 0 \in 0..Generated BY <1>1
<1>3. <<>> \in Seq(Message) /\ <<>> \in Seq(SessionState) OBVIOUS
<1>4. NewRow \in Row BY <1>2, <1>3 DEF NewRow, Row
<1>5. \A roles : From(NewRow, roles) = {} BY DEF From, NewRow
<1>6. NewRow.sessions = <<>> /\ NewRow.flag = FALSE /\ NewRow.title = 0 BY DEF NewRow
<1>. QED BY <1>4, <1>5, <1>6 DEF RowOK, Titled

(* A request that wrote one row goes on.                                    *)
LEMMA WroteStep ==
  ASSUME ChatInv, UNCHANGED <<tab, acts, lost, odd, raced>>,
         NEW c \in Ids \cup {Len(conv) + 1}, NEW row \in Row, RowOK(row),
         conv' = [i \in Ids \cup {c} |-> IF i = c THEN row ELSE conv[i]],
         recent' = touched(recent, c) \/ (recent' = recent /\ c \in Ids),
         c \in Ids => Len(conv[c].sessions) <= Len(row.sessions),
         row.msgs = <<>> => c \in Ids /\ conv[c].msgs = <<>>,
         NEW k \in calls, NEW next, CallOK(k)' => CallOK(next)', next.kind = k.kind,
         next.tab = k.tab, next.live = k.live, Inserts(next) => Inserts(k),
         calls' \in {calls \ {k}, (calls \ {k}) \cup {next}}
  PROVE  ChatInv'
<1>1. /\ RowsInv' /\ Grows /\ Ids' = Ids \cup {c}
      /\ \A i \in Ids' : conv'[i].msgs = <<>> => i \in Ids /\ conv[i].msgs = <<>>
  BY WriteStep
<1>2. \A d \in Ids : Len(conv[d].sessions) \in Nat /\ Len(conv'[d].sessions) \in Nat
  BY <1>1, SessionCounts DEF ChatInv
<1>3. CallOK(next)' BY <1>1, <1>2, StillThere DEF ChatInv
<1>4. EmptyInv'
  <2>1. \A j \in calls' : Inserts(j) => \E i \in calls : Inserts(i) OBVIOUS
  <2>. QED BY <2>1, <1>1, EmptyKept DEF ChatInv
<1>. QED BY <1>1, <1>3, <1>4, ServeFrame

(* A turn is accepted.                                                     *)
LEMMA AcceptStep ==
  ASSUME ChatInv, NEW k \in calls, UNCHANGED <<tab, acts, lost, odd>>, TurnAccept(k)
  PROVE  ChatInv'
<1>. DEFINE c == IF Chosen(k) = 0 THEN Len(conv) + 1 ELSE Chosen(k)
            row == IF Chosen(k) = 0 THEN NewRow ELSE conv[c]
            new == Accepted(row, k)
            iv == k.key \/ IsOpen(row)
<1>1. k \in Call /\ CallOK(k) /\ RowsInv BY Before DEF ChatInv
<1>2. /\ Len(conv) \in Nat /\ Ids = 1..Len(conv)
      /\ \A i \in Ids : conv[i] \in Row /\ RowOK(conv[i])
  BY <1>1, RowFacts
<1>3. /\ conv' = [i \in DOMAIN conv \cup {c} |-> IF i = c THEN new ELSE conv[i]]
      /\ recent' = touched(recent, c) /\ Resolved(k) /\ raced' = raced
      /\ calls' = (calls \ {k}) \cup {[k EXCEPT !.pc = "handling", !.conv = c, !.iv = iv]}
  BY DEF TurnAccept, Becomes
<1>4. k.kind = "send" /\ Chosen(k) \in Ids \cup {0}
  BY <1>1, <1>3 DEF Resolved, Chosen, At, CallOK, Ids
<1>5. k.id \in 1..MaxActs
  <2>1. k.id \in 0..MaxActs /\ k.id # 0 BY <1>1, <1>4 DEF CallOK, Call
  <2>2. MaxActs \in Nat BY StoreConstants
  <2>. QED BY <2>1, <2>2
<1>6. NewRow \in Row /\ RowOK(NewRow) BY NewRowOK
<1>7. c \in Ids \cup {Len(conv) + 1} /\ c \in Nat \ {0} BY <1>2, <1>4
<1>8. row \in Row /\ RowOK(row) /\ (c \in Ids => row = conv[c])
  <2>1. CASE Chosen(k) = 0
    <3>1. c = Len(conv) + 1 /\ row = NewRow BY <2>1
    <3>2. c \notin Ids BY <3>1, <1>2
    <3>. QED BY <3>1, <3>2, <1>6
  <2>2. CASE Chosen(k) # 0
    <3>1. c \in Ids /\ row = conv[c] BY <2>2, <1>4
    <3>. QED BY <3>1, <1>2
  <2>. QED BY <2>1, <2>2
<1>. HIDE DEF c, row
<1>9. /\ new \in Row /\ RowOK(new) /\ new.msgs # <<>>
      /\ Len(row.sessions) <= Len(new.sessions)
      /\ k.key \/ IsOpen(row) => new.sessions # <<>>
  BY <1>1, <1>5, <1>8, AcceptedRow
<1>. HIDE DEF new
<1>10. iv \in BOOLEAN BY <1>1 DEF Call, IsOpen
<1>11. iv => new.sessions # <<>> BY <1>9
<1>. HIDE DEF iv
<1>. PICK next : next = [k EXCEPT !.pc = "handling", !.conv = c, !.iv = iv] OBVIOUS
<1>12. /\ next \in Call /\ next.kind = "send" /\ next.tab = k.tab /\ next.live = k.live
       /\ next.pc = "handling" /\ next.conv = c /\ next.sess = k.sess /\ next.cid = k.cid
       /\ next.id = k.id /\ next.iv = iv
  BY <1>1, <1>4, <1>7, <1>10 DEF Call
<1>13. ~Inserts(next) BY <1>12 DEF Inserts, At
<1>14. conv' = [i \in Ids \cup {c} |-> IF i = c THEN new ELSE conv[i]] BY <1>3 DEF Ids
<1>15. conv'[c] = new /\ c \in Ids' BY <1>14 DEF Ids
<1>16. CallOK(k)' => CallOK(next)' BY <1>4, <1>11, <1>12, <1>15 DEF CallOK, At
<1>17. c \in Ids => Len(conv[c].sessions) <= Len(new.sessions) BY <1>8, <1>9
<1>. QED BY <1>3, <1>4, <1>7, <1>9, <1>12, <1>13, <1>14, <1>16, <1>17, WroteStep, ZenonT(60)

(* A turn ends, or fails.                                                  *)
LEMMA FailStep ==
  ASSUME ChatInv, NEW k \in calls, UNCHANGED <<tab, acts, lost, odd>>, TurnFail(k)
  PROVE  ChatInv'
<1>. DEFINE c == k.conv
            row == [conv[c] EXCEPT !.lock = 0]
<1>0. 0 \in 0..MaxActs BY StoreConstants
<1>1. k \in Call /\ CallOK(k) /\ RowsInv /\ At(k, "send", "handling") BY Before DEF ChatInv, TurnFail
<1>2. c \in Ids /\ conv[c] \in Row /\ RowOK(conv[c]) /\ Len(conv[c].sessions) \in Nat
  BY <1>1, RowFacts DEF CallOK
<1>3. /\ row \in Row /\ row.msgs = conv[c].msgs /\ row.title = conv[c].title
      /\ row.flag = conv[c].flag /\ row.sessions = conv[c].sessions
  BY <1>0, <1>2 DEF Row
<1>4. conv' = [conv EXCEPT ![c] = row] /\ recent' = recent /\ raced' = raced
  BY DEF TurnFail, historyVars
<1>. HIDE DEF row
<1>5. RowOK(row) BY <1>2, <1>3, SameRow
<1>6. conv' = [i \in Ids \cup {c} |-> IF i = c THEN row ELSE conv[i]] BY <1>1, <1>2, <1>4, RowExcept
<1>7. PICK res \in {"error", "timeout"} : Answer(k, [k EXCEPT !.res = res])
  BY DEF TurnFail
<1>. DEFINE answer == [k EXCEPT !.res = res]
            next == [answer EXCEPT !.pc = "answered"]
<1>8. calls' \in {calls \ {k}, (calls \ {k}) \cup {next}}
  <2>. HIDE DEF answer
  <2>1. Answer(k, answer) BY <1>7 DEF answer
  <2>. QED BY <2>1, Answered
<1>9. /\ next \in Call /\ next.kind = "send" /\ next.tab = k.tab /\ next.live = k.live
      /\ next.pc = "answered" /\ next.conv = k.conv /\ next.sess = k.sess /\ next.cid = k.cid
      /\ next.id = k.id /\ next.res = res /\ k.kind = "send"
  BY <1>1 DEF Call, At
<1>. HIDE DEF next
<1>10. CallOK(k)' => CallOK(next)' BY <1>9 DEF CallOK, At
<1>11. ~Inserts(next) BY <1>9 DEF Inserts, At
<1>12. c \in Ids \cup {Len(conv) + 1} /\ (c \in Ids => Len(conv[c].sessions) <= Len(row.sessions))
       /\ (row.msgs = <<>> => c \in Ids /\ conv[c].msgs = <<>>)
  BY <1>2, <1>3
<1>. HIDE DEF c
<1>. QED BY <1>2, <1>3, <1>4, <1>5, <1>6, <1>8, <1>9, <1>10, <1>11, <1>12, WroteStep

(* The reply, stored with a generated title if the user typed nothing yet,   *)
(* and the state of the interview it leaves.                                *)
LEMMA EndStep ==
  ASSUME ChatInv, NEW k \in calls, UNCHANGED <<tab, acts, lost, odd>>, TurnEnd(k)
  PROVE  ChatInv'
<1>. DEFINE c == k.conv
            n == Len(conv[c].sessions)
            m == Msg("agent", k.id, IF k.iv THEN n ELSE 0)
            done == [conv[c] EXCEPT !.msgs = Append(@, m), !.lock = 0]
            titled == IF k.auto THEN set_placeholder_title(done) ELSE done
<1>1. /\ k \in Call /\ CallOK(k) /\ RowsInv /\ k.kind = "send" /\ k.pc = "handling"
      /\ At(k, "send", "handling")
  BY Before DEF ChatInv, TurnEnd, At
<1>2. /\ c \in Ids /\ conv[c] \in Row /\ RowOK(conv[c]) /\ n \in Nat /\ Ids = 1..Len(conv)
      /\ conv[c].sessions \in Seq(SessionState) /\ conv[c].msgs \in Seq(Message)
      /\ DOMAIN conv[c].sessions = 1..n /\ Len(conv) \in Nat
      /\ (k.iv => conv[c].sessions # <<>>)
  BY <1>1, RowFacts DEF CallOK
<1>3. m \in Message /\ m.role = "agent"
  <2>1. k.id \in 0..MaxActs BY <1>1 DEF Call
  <2>. QED BY <2>1, <1>2 DEF Msg, Message
<1>. HIDE DEF m
<1>4. /\ done \in Row /\ done.msgs = Append(conv[c].msgs, m) /\ done.title = conv[c].title
      /\ done.flag = conv[c].flag /\ done.sessions = conv[c].sessions
  <2>1. Append(conv[c].msgs, m) \in Seq(Message) BY <1>2, <1>3
  <2>2. 0 \in 0..MaxActs BY StoreConstants
  <2>. QED BY <2>1, <2>2, <1>2 DEF Row
<1>. HIDE DEF done
<1>5. RowOK(done) /\ done.msgs # <<>> BY <1>2, <1>3, <1>4, AgentSays
<1>6. /\ titled \in Row /\ RowOK(titled) /\ titled.msgs # <<>>
      /\ titled.sessions = conv[c].sessions
  BY <1>4, <1>5, Placeholder
<1>7. /\ recent' = touched(recent, c) /\ raced' = raced
      /\ \/ /\ ~k.iv
            /\ conv' = [conv EXCEPT ![c] = titled]
            /\ Answer(k, [k EXCEPT !.res = "success"])
         \/ /\ k.iv
            /\ \E s \in {"open", "finalizing", "completed"} :
                 /\ conv' = [conv EXCEPT ![c] = [titled EXCEPT !.sessions[n] = s]]
                 /\ Answer(k, [k EXCEPT !.res = "success", !.sess = <<c, n>>, !.sessions = <<s>>])
  BY DEF TurnEnd, historyVars, done, m
<1>. HIDE DEF titled
<1>8. CASE /\ ~k.iv
           /\ conv' = [conv EXCEPT ![c] = titled]
           /\ Answer(k, [k EXCEPT !.res = "success"])
  <2>. DEFINE answer == [k EXCEPT !.res = "success"]
             next == [answer EXCEPT !.pc = "answered"]
  <2>1. calls' \in {calls \ {k}, (calls \ {k}) \cup {next}}
    <3>1. Answer(k, answer) BY <1>8
    <3>. HIDE DEF answer
    <3>. QED BY <3>1, Answered
  <2>2. /\ next \in Call /\ next.kind = "send" /\ next.tab = k.tab /\ next.live = k.live
        /\ next.pc = "answered" /\ next.conv = k.conv /\ next.sess = k.sess /\ next.cid = k.cid
        /\ next.id = k.id /\ next.iv = k.iv /\ k.kind = "send"
    BY <1>1 DEF Call
  <2>. HIDE DEF next
  <2>3. CallOK(k)' => CallOK(next)' BY <2>2, <1>8 DEF CallOK, At
  <2>4. ~Inserts(next) BY <2>2 DEF Inserts, At
  <2>5. conv' = [i \in Ids \cup {c} |-> IF i = c THEN titled ELSE conv[i]]
    BY <1>1, <1>2, <1>8, RowExcept, ZenonT(60)
  <2>. HIDE DEF c
  <2>6. Len(conv[c].sessions) <= Len(titled.sessions) BY <1>2, <1>6
  <2>. QED BY <1>1, <1>2, <1>6, <1>7, <2>1, <2>2, <2>3, <2>4, <2>5, <2>6, WroteStep, ZenonT(60)
<1>9. ASSUME NEW s \in {"open", "finalizing", "completed"}, k.iv,
             conv' = [conv EXCEPT ![c] = [titled EXCEPT !.sessions[n] = s]],
             Answer(k, [k EXCEPT !.res = "success", !.sess = <<c, n>>, !.sessions = <<s>>])
      PROVE  ChatInv'
  <2>. DEFINE states == [titled.sessions EXCEPT ![n] = s]
             row == [titled EXCEPT !.sessions = states]
             st == <<s>>
  <2>. PICK sn : sn = <<c, n>> OBVIOUS
  <2>. DEFINE answer == [k EXCEPT !.res = "success", !.sess = sn, !.sessions = st]
             next == [answer EXCEPT !.pc = "answered"]
  <2>1. n \in 1..n
    <3>1. Len(conv[c].sessions) # 0 BY <1>2, <1>9
    <3>. QED BY <3>1, <1>2
  <2>2. states \in Seq(SessionState) /\ Len(states) = n /\ DOMAIN states = 1..n
    <3>1. s \in SessionState BY DEF SessionState
    <3>2. \A q \in Seq(SessionState) : \A i \in DOMAIN q :
             [q EXCEPT ![i] = s] \in Seq(SessionState) /\ Len([q EXCEPT ![i] = s]) = Len(q)
             /\ DOMAIN [q EXCEPT ![i] = s] = DOMAIN q
      BY <3>1
    <3>. HIDE DEF n
    <3>. QED BY <3>2, <2>1, <1>2, <1>6 DEF n
  <2>3. st \in Seq(SessionState)
    <3>1. s \in SessionState BY DEF SessionState
    <3>. QED BY <3>1
  <2>4. conv' = [conv EXCEPT ![c] = row] BY <1>9
  <2>. HIDE DEF states
  <2>5. /\ row \in Row /\ row.msgs = titled.msgs /\ row.title = titled.title
        /\ row.flag = titled.flag /\ row.sessions = states
    BY <1>6, <2>2 DEF Row
  <2>. HIDE DEF row
  <2>6. titled.sessions # <<>> BY <1>2, <1>6, <1>9
  <2>7. RowOK(row) BY <1>6, <2>5, <2>6, SameRow
  <2>8. calls' \in {calls \ {k}, (calls \ {k}) \cup {next}}
    <3>1. Answer(k, answer) BY <1>9
    <3>. HIDE DEF answer
    <3>. QED BY <3>1, Answered
  <2>. HIDE DEF st
  <2>9. /\ next \in Call /\ next.kind = "send" /\ next.tab = k.tab /\ next.live = k.live
        /\ next.pc = "answered" /\ next.conv = k.conv /\ next.sess = sn /\ next.cid = k.cid
        /\ next.id = k.id /\ k.kind = "send" /\ k.conv = c
    BY <1>1, <1>2, <2>3, ZenonT(60) DEF Call
  <2>. HIDE DEF next
  <2>10. conv' = [i \in Ids \cup {c} |-> IF i = c THEN row ELSE conv[i]]
    BY <1>1, <1>2, <2>4, RowExcept
  <2>11. c \in Ids' /\ conv'[c] = row BY <2>10 DEF Ids
  <2>12. IsSession(sn)' /\ sn # NoSession
    BY <1>2, <2>1, <2>2, <2>5, <2>11 DEF IsSession, NoSession
  <2>13. CallOK(k)' => CallOK(next)' BY <2>9, <2>12 DEF CallOK, At
  <2>14. ~Inserts(next) BY <2>9 DEF Inserts, At
  <2>15. Len(conv[c].sessions) <= Len(row.sessions) BY <1>2, <2>2, <2>5
  <2>16. row.msgs # <<>> BY <1>6, <2>5
  <2>. HIDE DEF c, n
  <2>. QED BY <1>1, <1>2, <1>7, <2>5, <2>7, <2>8, <2>9, <2>10, <2>13, <2>14, <2>15, <2>16, WroteStep, SMTT(60)
<1>. QED BY <1>7, <1>8, <1>9

(* resume_turn stores the reply to the user's last message, which there is.  *)
LEMMA ResumeRunStep ==
  ASSUME ChatInv, NEW k \in calls, UNCHANGED <<tab, acts, lost, odd>>, ResumeRun(k)
  PROVE  ChatInv'
<1>. DEFINE c == k.sess[1]
            act == LastAct(c)
            m == Msg("agent", act, k.sess[2])
            row == [conv[c] EXCEPT !.msgs = Append(@, m)]
            items == {<<"question", act>>}
<1>1. k \in Call /\ CallOK(k) /\ RowsInv /\ k.kind = "resume" /\ raced' = raced
  BY Before DEF ChatInv, ResumeRun, At, historyVars
<1>2. c \in Ids /\ k.sess[2] \in DOMAIN conv[c].sessions /\ k.sess[2] \in Nat
  <2>1. k.sess \in Nat \X Nat BY <1>1 DEF Call
  <2>. QED BY <1>1, <2>1 DEF CallOK, IsSession, NoSession
<1>3. /\ conv[c] \in Row /\ RowOK(conv[c]) /\ conv[c].msgs \in Seq(Message)
      /\ Len(conv[c].msgs) \in Nat /\ DOMAIN conv[c].msgs = 1..Len(conv[c].msgs)
      /\ DOMAIN conv[c].sessions = 1..Len(conv[c].sessions) /\ Len(conv[c].sessions) \in Nat
      /\ Ids = 1..Len(conv) /\ Len(conv) \in Nat
  BY <1>1, <1>2, RowFacts
<1>4. act \in 0..MaxActs /\ act \in Nat
  <2>. DEFINE asked == From(conv[c], {"user", "auto"})
  <2>1. conv[c].sessions # <<>> BY <1>2, <1>3
  <2>2. asked # {} BY <2>1, <1>3 DEF RowOK
  <2>3. asked \in SUBSET (0..Len(conv[c].msgs)) /\ asked \subseteq DOMAIN conv[c].msgs
    <3>1. asked \subseteq DOMAIN conv[c].msgs BY ZenonT(60) DEF From
    <3>2. DOMAIN conv[c].msgs \subseteq 0..Len(conv[c].msgs) BY <1>3, SMTT(60)
    <3>. QED BY <3>1, <3>2, ZenonT(60)
  <2>4. act = conv[c].msgs[Max(asked)].act BY DEF LastAct, LastOf
  <2>. HIDE DEF asked, act
  <2>5. Max(asked) \in DOMAIN conv[c].msgs BY <2>2, <2>3, <1>3, MaxOf
  <2>6. conv[c].msgs[Max(asked)] \in Message BY <2>5, <1>3
  <2>. QED BY <2>4, <2>6, StoreConstants DEF Message
<1>. HIDE DEF act
<1>5. CASE /\ conv' = [conv EXCEPT ![c].msgs = Append(@, m)]
           /\ recent' = touched(recent, c)
           /\ Answer(k, [k EXCEPT !.res = "success", !.items = items])
  <2>1. m \in Message /\ m.role = "agent" BY <1>2, <1>4 DEF Msg, Message
  <2>. HIDE DEF m
  <2>2. /\ row \in Row /\ row.msgs = Append(conv[c].msgs, m) /\ row.title = conv[c].title
        /\ row.flag = conv[c].flag /\ row.sessions = conv[c].sessions
    <3>1. Append(conv[c].msgs, m) \in Seq(Message) BY <1>3, <2>1
    <3>. QED BY <3>1, <1>3 DEF Row
  <2>3. conv' = [conv EXCEPT ![c] = row] BY <1>5
  <2>. HIDE DEF row
  <2>4. RowOK(row) /\ row.msgs # <<>> BY <1>3, <2>1, <2>2, AgentSays
  <2>5. conv' = [i \in Ids \cup {c} |-> IF i = c THEN row ELSE conv[i]]
    BY <1>1, <1>2, <2>3, RowExcept
  <2>6. items \in SUBSET Item BY <1>4 DEF Item
  <2>. PICK its : its = items OBVIOUS
  <2>. DEFINE answer == [k EXCEPT !.res = "success", !.items = its]
             next == [answer EXCEPT !.pc = "answered"]
  <2>7. calls' \in {calls \ {k}, (calls \ {k}) \cup {next}}
    <3>1. Answer(k, answer) BY <1>5
    <3>. HIDE DEF answer, items
    <3>. QED BY <3>1, Answered
  <2>. HIDE DEF items
  <2>8. /\ next \in Call /\ next.kind = "resume" /\ next.tab = k.tab /\ next.live = k.live
        /\ next.pc = "answered" /\ next.conv = k.conv /\ next.sess = k.sess /\ next.cid = k.cid
        /\ next.id = k.id /\ k.kind = "resume"
    BY <1>1, <2>6, ZenonT(60) DEF Call
  <2>. HIDE DEF next
  <2>9. CallOK(k)' => CallOK(next)' BY <2>8 DEF CallOK, At
  <2>10. ~Inserts(next) BY <2>8 DEF Inserts, At
  <2>11. Len(conv[c].sessions) <= Len(row.sessions) BY <1>3, <2>2
  <2>. HIDE DEF c
  <2>. QED BY <1>1, <1>2, <1>5, <2>2, <2>4, <2>5, <2>7, <2>8, <2>9, <2>10, <2>11, WroteStep
<1>6. ASSUME NEW res \in {"pending", "not_delivered"}, Answer(k, [k EXCEPT !.res = res]),
             UNCHANGED storeVars
      PROVE  ChatInv'
  <2>. DEFINE answer == [k EXCEPT !.res = res]
             next == [answer EXCEPT !.pc = "answered"]
  <2>1. calls' \in {calls \ {k}, (calls \ {k}) \cup {next}}
    <3>1. Answer(k, answer) BY <1>6
    <3>. HIDE DEF answer
    <3>. QED BY <3>1, Answered
  <2>2. /\ next \in Call /\ next.kind = "resume" /\ next.tab = k.tab /\ next.live = k.live
        /\ next.pc = "answered" /\ next.conv = k.conv /\ next.sess = k.sess /\ next.cid = k.cid
        /\ next.id = k.id
    BY <1>1, ZenonT(60) DEF Call
  <2>. HIDE DEF next
  <2>3. CallOK(next) BY <1>1, <2>2 DEF CallOK, At
  <2>4. ~Inserts(next) BY <2>2 DEF Inserts, At
  <2>. QED BY <1>1, <1>6, <2>1, <2>2, <2>3, <2>4, QuietStep
<1>. QED BY <1>5, <1>6 DEF ResumeRun, act

(* An interview is settled, by no request of a page.                        *)
LEMMA SettlesStep ==
  ASSUME ChatInv, NEW c \in Ids, SessionSettles(c), UNCHANGED <<tab, acts, lost, odd>>
  PROVE  ChatInv'
<1>. DEFINE n == Len(conv[c].sessions)
<1>1. /\ RowsInv /\ conv[c] \in Row /\ RowOK(conv[c]) /\ n \in Nat
      /\ conv[c].sessions \in Seq(SessionState) /\ DOMAIN conv[c].sessions = 1..n
      /\ Ids = 1..Len(conv) /\ Len(conv) \in Nat
  BY RowFacts DEF ChatInv
<1>2. PICK s \in {"completed", "failed"} : conv' = [conv EXCEPT ![c].sessions[n] = s]
  BY DEF SessionSettles, Newest
<1>3. recent' = recent /\ calls' = calls /\ raced' = raced /\ conv[c].sessions # <<>>
  BY DEF SessionSettles, historyVars, IsOpen
<1>. DEFINE states == [conv[c].sessions EXCEPT ![n] = s]
            row == [conv[c] EXCEPT !.sessions = states]
<1>4. states \in Seq(SessionState) /\ Len(states) = n
  <2>1. n \in 1..n BY <1>1, <1>3
  <2>2. s \in SessionState BY DEF SessionState
  <2>3. \A q \in Seq(SessionState) : \A i \in DOMAIN q :
           [q EXCEPT ![i] = s] \in Seq(SessionState) /\ Len([q EXCEPT ![i] = s]) = Len(q)
    BY <2>2
  <2>. HIDE DEF n
  <2>. QED BY <2>3, <2>1, <1>1 DEF n
<1>5. conv' = [conv EXCEPT ![c] = row] BY <1>2
<1>. HIDE DEF states
<1>6. /\ row \in Row /\ row.msgs = conv[c].msgs /\ row.title = conv[c].title
      /\ row.flag = conv[c].flag /\ row.sessions = states
  BY <1>1, <1>4 DEF Row
<1>. HIDE DEF row
<1>7. RowOK(row) BY <1>1, <1>3, <1>6, SameRow
<1>8. conv' = [i \in Ids \cup {c} |-> IF i = c THEN row ELSE conv[i]] BY <1>1, <1>5, RowExcept
<1>9. Len(conv[c].sessions) <= Len(row.sessions) BY <1>1, <1>4, <1>6
<1>. HIDE DEF n
<1>10. /\ RowsInv' /\ Grows /\ Ids' = Ids \cup {c}
       /\ \A i \in Ids' : conv'[i].msgs = <<>> => i \in Ids /\ conv[i].msgs = <<>>
  BY <1>3, <1>6, <1>7, <1>8, <1>9, WriteStep
<1>11. EmptyInv' BY <1>3, <1>10, EmptyKept DEF ChatInv
<1>12. \A d \in Ids : Len(conv[d].sessions) \in Nat /\ Len(conv'[d].sessions) \in Nat
  BY <1>10, SessionCounts DEF ChatInv
<1>13. PagesInv' /\ \A j \in calls : CallOK(j)' BY <1>10, <1>12, StillThere DEF ChatInv
<1>14. CallsInv' BY <1>3, <1>13 DEF CallsInv
<1>15. BusyInv' /\ BoundsInv' BY <1>3 DEF ChatInv, BusyInv, BusyIn, BoundsInv
<1>. QED BY <1>10, <1>11, <1>13, <1>14, <1>15 DEF ChatInv

(* reset_active_conversation: the interview left is abandoned, and a new row  *)
(* inserted if no empty one was found.                                      *)
LEMMA ResetCommitStep ==
  ASSUME ChatInv, NEW k \in calls, UNCHANGED <<tab, acts, lost, odd>>, ResetCommit(k)
  PROVE  ChatInv'
<1>. DEFINE c == IF k.conv = 0 THEN Len(conv) + 1 ELSE k.conv
            ended(i) == [conv[i].sessions EXCEPT ![Len(conv[i].sessions)] = "abandoned"]
            left(i) == IF i = k.cid /\ IsOpen(conv[i])
                       THEN [conv[i] EXCEPT !.sessions = ended(i)] ELSE conv[i]
            rows == [i \in Ids \cup {c} |-> IF i \in Ids THEN left(i) ELSE NewRow]
<1>1. /\ k \in Call /\ CallOK(k) /\ RowsInv /\ EmptyInv /\ k.kind = "reset" /\ k.pc = "commit"
  BY Before DEF ChatInv, ResetCommit, At
<1>2. /\ Len(conv) \in Nat /\ Ids = 1..Len(conv)
      /\ \A i \in Ids : /\ conv[i] \in Row /\ RowOK(conv[i])
                        /\ conv[i].sessions \in Seq(SessionState)
                        /\ Len(conv[i].sessions) \in Nat
                        /\ DOMAIN conv[i].sessions = 1..Len(conv[i].sessions)
  BY <1>1, RowFacts
<1>3. k.conv \in Ids \cup {0} /\ c \in Ids \cup {Len(conv) + 1} /\ c \in Nat
      /\ (c \in Ids <=> k.conv # 0)
  BY <1>1, <1>2 DEF CallOK
<1>4. conv' = rows
  BY DEF ResetCommit, Newest, Ids
<1>5. /\ recent' = IF k.conv = 0 THEN touched(recent, c) ELSE recent
      /\ Answer(k, [k EXCEPT !.conv = c])
      /\ raced' = (raced \/ (k.conv = 0 /\ \E j \in calls \ {k} : Inserts(j)))
  BY DEF ResetCommit, Inserts
<1>6. ASSUME NEW i \in Ids
      PROVE  /\ left(i) \in Row /\ RowOK(left(i)) /\ left(i).msgs = conv[i].msgs
             /\ Len(left(i).sessions) = Len(conv[i].sessions)
             /\ DOMAIN left(i).sessions = DOMAIN conv[i].sessions
             /\ conv[i].sessions # <<>> => left(i).sessions # <<>>
  <2>1. CASE i = k.cid /\ IsOpen(conv[i])
    <3>1. conv[i].sessions # <<>> BY <2>1 DEF IsOpen
    <3>2. Len(conv[i].sessions) \in DOMAIN conv[i].sessions BY <3>1, <1>2
    <3>3. "abandoned" \in SessionState BY DEF SessionState
    <3>4. \A q \in Seq(SessionState) : \A n \in DOMAIN q :
             LET new == [q EXCEPT ![n] = "abandoned"]
             IN  /\ new \in Seq(SessionState) /\ Len(new) = Len(q)
                 /\ DOMAIN new = DOMAIN q /\ new # <<>>
      BY <3>3
    <3>5. /\ ended(i) \in Seq(SessionState) /\ Len(ended(i)) = Len(conv[i].sessions)
          /\ DOMAIN ended(i) = DOMAIN conv[i].sessions /\ ended(i) # <<>>
      BY <3>2, <3>4, <1>2
    <3>6. left(i) = [conv[i] EXCEPT !.sessions = ended(i)] BY <2>1
    <3>. HIDE DEF ended, left
    <3>7. /\ left(i) \in Row /\ left(i).msgs = conv[i].msgs /\ left(i).title = conv[i].title
          /\ left(i).flag = conv[i].flag /\ left(i).sessions = ended(i)
      BY <3>5, <3>6, <1>2 DEF Row
    <3>8. RowOK(left(i)) BY <1>2, <3>1, <3>7, SameRow
    <3>. QED BY <3>5, <3>7, <3>8
  <2>2. CASE ~(i = k.cid /\ IsOpen(conv[i]))
    <3>1. left(i) = conv[i] BY <2>2
    <3>. HIDE DEF left
    <3>. QED BY <3>1, <1>2
  <2>. QED BY <2>1, <2>2
<1>. HIDE DEF left, c
<1>7. rows = [i \in Ids \cup {c} |-> rows[i]]
      /\ \A i \in Ids \cup {c} : rows[i] = IF i \in Ids THEN left(i) ELSE NewRow
  OBVIOUS
<1>. HIDE DEF rows
<1>8. \A i \in Ids \cup {c} : rows[i] \in Row /\ RowOK(rows[i]) BY <1>6, <1>7, NewRowOK
<1>9. recent' = touched(recent, c) \/ (recent' = recent /\ c \in Ids) BY <1>3, <1>5
<1>10. RowsInv' /\ Ids' = Ids \cup {c} BY <1>1, <1>3, <1>4, <1>7, <1>8, <1>9, RowsWritten
<1>11. \A i \in Ids : conv'[i] = left(i) BY <1>4, <1>7
<1>12. Grows
  <2>1. ASSUME NEW i \in Ids
        PROVE  /\ Len(conv[i].sessions) <= Len(conv'[i].sessions)
               /\ DOMAIN conv[i].sessions \subseteq DOMAIN conv'[i].sessions
               /\ conv[i].sessions # <<>> => conv'[i].sessions # <<>>
    BY <1>2, <1>6, <1>11
  <2>. QED BY <2>1, <1>10 DEF Grows
<1>. PICK d : d = c OBVIOUS
<1>. DEFINE answer == [k EXCEPT !.conv = d]
            next == [answer EXCEPT !.pc = "answered"]
<1>13. calls' \in {calls \ {k}, (calls \ {k}) \cup {next}}
  <2>1. Answer(k, answer) BY <1>5
  <2>. HIDE DEF answer
  <2>. QED BY <2>1, Answered
<1>14. /\ next \in Call /\ next.kind = "reset" /\ next.tab = k.tab /\ next.live = k.live
       /\ next.pc = "answered" /\ next.conv = d /\ next.sess = k.sess /\ next.cid = k.cid
       /\ next.id = k.id /\ next.iv = k.iv
  BY <1>1, <1>3, ZenonT(60) DEF Call
<1>. HIDE DEF next
<1>15. CallOK(next)'
  <2>1. \A i \in Ids : Len(conv[i].sessions) \in Nat /\ Len(conv'[i].sessions) \in Nat
    BY <1>1, <1>10, <1>12, SessionCounts
  <2>2. CallOK(k)' BY <2>1, <1>12, StillThere DEF ChatInv
  <2>3. d \in Ids' BY <1>10
  <2>. QED BY <2>2, <2>3, <1>1, <1>14 DEF CallOK, At
<1>16. EmptyInv'
  <2>1. raced' \in BOOLEAN BY <1>1, <1>5 DEF EmptyInv
  <2>2. \A i \in Ids : conv'[i].msgs = conv[i].msgs BY <1>6, <1>11
  <2>3. \A j : Inserts(j)' <=> Inserts(j) BY DEF Inserts, At
  <2>4. \A j \in calls' : Inserts(j) => j \in calls \ {k}
    BY <1>13, <1>14 DEF Inserts, At
  <2>5. \A i \in Ids : Empty(i)' <=> Empty(i) BY <2>2 DEF Empty
  <2>6. CASE k.conv = 0
    <3>1. Inserts(k) BY <1>1, <2>6 DEF Inserts, At
    <3>2. ~raced' => ~raced /\ \A j \in calls \ {k} : ~Inserts(j) BY <1>5, <2>6
    <3>3. ~raced => \A i \in Ids : ~Empty(i) BY <3>1, <1>1 DEF EmptyInv
    <3>4. ~raced' => \A i \in Ids' : Empty(i)' => i = c BY <3>2, <3>3, <2>5, <1>10
    <3>5. ~raced' => \A j \in calls' : ~Inserts(j)' BY <3>2, <2>3, <2>4
    <3>. QED BY <2>1, <3>4, <3>5 DEF EmptyInv
  <2>7. CASE k.conv # 0
    <3>1. Ids' = Ids /\ (raced' <=> raced) BY <2>7, <1>3, <1>5, <1>10
    <3>2. \A i \in Ids' : Empty(i)' <=> Empty(i) BY <3>1, <2>5
    <3>3. \A j \in calls' : Inserts(j)' => j \in calls /\ Inserts(j) BY <2>3, <2>4
    <3>. QED BY <2>1, <3>1, <3>2, <3>3, <1>1 DEF EmptyInv
  <2>. QED BY <2>6, <2>7
<1>. QED BY <1>1, <1>10, <1>12, <1>13, <1>14, <1>15, <1>16, ServeFrame

(* What the server does.                                                   *)
LEMMA ServeStepInv ==
  ASSUME ChatInv, NEW k \in calls, ServeStep(k)
  PROVE  ChatInv'
BY ReadStep, AcceptStep, EndStep, FailStep, ResetCommitStep, ResumeRunStep DEF ServeStep, Serve

-----------------------------------------------------------------------------
(* The invariant, and what it says of the properties.                      *)

(* The tabs open.                                                          *)
LEMMA InitInv == Init => ChatInv
<1>. SUFFICES ASSUME Init
              PROVE  ChatInv
  OBVIOUS
<1>1. conv \in Rows BY DEF Init
<1>2. /\ MaxActs \in Nat /\ MaxLost \in Nat /\ conv \in Seq(Row)
      /\ \A c \in DOMAIN conv : RowOK(conv[c])
      /\ \A c, d \in DOMAIN conv : conv[c].msgs = <<>> /\ conv[d].msgs = <<>> => c = d
  BY <1>1, StoreConstants DEF RowOK, From
<1>3. Len(conv) \in Nat /\ Ids = 1..Len(conv) BY <1>2 DEF Ids
<1>4. RowsInv
  <2>1. recent = [i \in Ids |-> i] BY DEF Init, Ids
  <2>2. recent \in Seq(Ids) /\ Len(recent) = Len(conv) /\ DOMAIN recent = Ids BY <2>1, <1>3
  <2>3. {recent[i] : i \in DOMAIN recent} = Ids BY <2>1
  <2>. QED BY <1>2, <2>2, <2>3 DEF RowsInv, Ids
<1>5. PICK ids \in Stored :
        /\ tab = [t \in Tabs |-> Page(ids[t])]
        /\ calls = {[Sent(t, 0, "load") EXCEPT !.cid = ids[t]] : t \in {u \in Tabs : ids[u] # 0}}
  BY DEF Init
<1>6. \A t \in Tabs : ids[t] \in Ids \cup {0, Stale} /\ ids[t] \in Nat \cup {Stale}
  <2>1. ids \in [Tabs -> DOMAIN conv \cup {0, Stale}] BY <1>1, ChatConstants
  <2>. QED BY <2>1, <1>2, <1>3 DEF Ids
<1>7. NoSession \in Nat \X Nat /\ IsSession(NoSession) BY DEF NoSession, IsSession
<1>8. <<>> \in Seq(SessionState) /\ {} \in SUBSET Item OBVIOUS
<1>9. PagesInv
  <2>1. ASSUME NEW t \in Tabs
        PROVE  tab[t] \in PageOf /\ PageOK(tab[t])
    <3>1. tab[t] = Page(ids[t]) BY <1>5
    <3>. HIDE DEF NoSession, IsSession
    <3>2. Page(ids[t]) \in PageOf BY <1>6, <1>7, <1>8 DEF Page, PageOf
    <3>. QED BY <3>1, <3>2, <1>6, <1>7 DEF PageOK, Page
  <2>. QED BY <2>1, <1>5 DEF PagesInv
<1>10. ASSUME NEW k \in calls
       PROVE  CallOK(k) /\ k.kind = "load"
  <2>. HIDE DEF NoSession, IsSession
  <2>1. PICK t \in Tabs : k = [Sent(t, 0, "load") EXCEPT !.cid = ids[t]] BY <1>5
  <2>. DEFINE asked == Sent(t, 0, "load")
  <2>2. 0 \in 0..MaxActs BY <1>2
  <2>3. /\ asked \in Call /\ asked.kind = "load" /\ asked.pc = "sent" /\ asked.conv = 0
        /\ asked.sess = NoSession
    BY <2>2, <1>7, <1>8 DEF Sent, Call
  <2>4. k = [asked EXCEPT !.cid = ids[t]] BY <2>1
  <2>. HIDE DEF asked
  <2>5. /\ k \in Call /\ k.kind = "load" /\ k.pc = "sent" /\ k.conv = 0 /\ k.sess = NoSession
        /\ k.cid = ids[t]
    BY <2>3, <2>4, <1>6 DEF Call
  <2>. QED BY <2>5, <1>6, <1>7 DEF CallOK, At
<1>11. CallsInv BY <1>10 DEF CallsInv
<1>12. EmptyInv BY <1>2, <1>10 DEF Init, EmptyInv, Empty, Ids, Inserts, At
<1>13. BusyInv BY <1>10 DEF BusyInv, BusyIn, Awaited
<1>14. BoundsInv
  <2>1. acts \in 0..MaxActs BY ChatConstants DEF Init
  <2>2. lost \in 0..MaxLost BY <1>2 DEF Init
  <2>3. odd = [t \in Tabs |-> {}] BY DEF Init
  <2>. QED BY <2>1, <2>2, <2>3 DEF BoundsInv
<1>. QED BY <1>4, <1>9, <1>11, <1>12, <1>13, <1>14 DEF ChatInv

(* Every step, and a step that changes nothing.                            *)
LEMMA NextInv == ChatInv /\ [Next]_vars => ChatInv'
<1>. SUFFICES ASSUME ChatInv, [Next]_vars
              PROVE  ChatInv'
  OBVIOUS
<1>1. CASE \E t \in Tabs : User(t) BY <1>1, UserStep
<1>2. CASE \E t \in Tabs : PollStep(t) BY <1>2, PollTickStep, DeliverStep DEF PollStep
<1>3. CASE Progress BY <1>3, ServeStepInv, DeliverStep DEF Progress
<1>4. CASE Settles BY <1>4, SettlesStep DEF Settles, Ids
<1>5. CASE \E k \in calls : Lost(k) BY <1>5, LostStep
<1>6. CASE UNCHANGED vars
  <2>1. /\ conv' = conv /\ recent' = recent /\ calls' = calls /\ raced' = raced /\ tab' = tab
        /\ acts' = acts /\ lost' = lost /\ odd' = odd
    BY <1>6 DEF vars, storeVars, historyVars
  <2>2. RowsInv' /\ CallsInv' /\ PagesInv'
    BY <2>1 DEF ChatInv, RowsInv, CallsInv, CallOK, PagesInv, PageOK, IsSession, Ids
  <2>3. EmptyInv' /\ BusyInv' /\ BoundsInv'
    BY <2>1 DEF ChatInv, EmptyInv, Empty, Ids, Inserts, At, BusyInv, BusyIn, BoundsInv
  <2>. QED BY <2>2, <2>3 DEF ChatInv
<1>. QED BY <1>1, <1>2, <1>3, <1>4, <1>5, <1>6 DEF Next, Done

(* Whatever the user does in any number of tabs, requests, pages and rows    *)
(* keep agreeing.                                                          *)
THEOREM ChatCorrect == Spec => []ChatInv
BY InitInv, NextInv, PTL DEF Spec

(* Rows, requests and pages have their types and name rows and sessions that *)
(* exist, and the list of recent conversations orders all of them.          *)
THEOREM ChatTypes == Spec => []TypeOK
<1>1. ChatInv => TypeOK
  BY DEF ChatInv, RowsInv, CallsInv, CallOK, PagesInv, PageOK, EmptyInv, BoundsInv, TypeOK
<1>. QED BY <1>1, ChatCorrect, PTL

(* busyRef: a tab awaits one turn at most.                                  *)
THEOREM OneTurn == Spec => []OneTurnPerTab
<1>1. ChatInv => OneTurnPerTab
  <2>. SUFFICES ASSUME ChatInv, NEW t \in Tabs
                PROVE  Cardinality(Sending(t)) <= 1
    BY DEF OneTurnPerTab
  <2>1. \A j, k \in Sending(t) : j = k
    BY DEF Sending, Mine, ChatInv, BusyInv, BusyIn, Awaited
  <2>. QED BY <2>1, AtMostOne
<1>. QED BY <1>1, ChatCorrect, PTL

(* set_title_if_empty and replace_placeholder_title: the title is what the   *)
(* user typed first.                                                        *)
THEOREM FirstWords == Spec => []TitleIsFirstWords
<1>1. ChatInv => TitleIsFirstWords
  BY DEF ChatInv, RowsInv, RowOK, Titled, TitleIsFirstWords
<1>. QED BY <1>1, ChatCorrect, PTL

(* find_empty_for_user: a second empty conversation takes two resets that    *)
(* were about to insert at once.                                            *)
THEOREM OneEmpty == Spec => []OneEmptyConversation
<1>1. ChatInv => OneEmptyConversation
  <2>. SUFFICES ASSUME ChatInv, ~raced
                PROVE  Cardinality({c \in Ids : Empty(c)}) <= 1
    BY DEF OneEmptyConversation
  <2>. DEFINE E == {c \in Ids : Empty(c)}
  <2>1. \A c, d \in E : c = d BY DEF ChatInv, EmptyInv
  <2>. HIDE DEF E
  <2>2. Cardinality(E) <= 1 BY <2>1, AtMostOne
  <2>. QED BY <2>2 DEF E
<1>. QED BY <1>1, ChatCorrect, PTL
=============================================================================
