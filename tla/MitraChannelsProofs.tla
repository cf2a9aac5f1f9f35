------------------------ MODULE MitraChannelsProofs ------------------------
(***************************************************************************)
(* The pool of Mitra's sockets and the turns that use them, for any number  *)
(* of conversations, channels, remote sessions and any bound on the pool.   *)
(*                                                                          *)
(* ChannelsInv is inductive.  It adds to the properties that the pool has   *)
(* no duplicates, that a channel and a session belong to the conversation   *)
(* Mitra generated their remote session for, and that a turn which holds a  *)
(* channel holds the only pooled one of its conversation: this is why what  *)
(* reacquire drops is dead, and why a second send goes out on a channel the *)
(* turn opened itself.                                                      *)
(***************************************************************************)
EXTENDS MitraChannels, WellFoundedInduction, TLAPS

Elements(s) == {s[i] : i \in DOMAIN s}
Distinct(s) == \A i, j \in DOMAIN s : s[i] = s[j] => i = j
-----------------------------------------------------------------------------
(* Induction over the pool: what Without returns.                          *)

Less == {pair \in Nat \X Nat : pair[1] < pair[2]}
(* A set of numbers that is not empty has a least element.                 *)
LEMMA LeastNumber ==
  ASSUME NEW T \in SUBSET Nat, T # {}
  PROVE  \E x \in T : \A y \in T : x <= y
<1>1. IsWellFoundedOn(Less, Nat)
  BY NatLessThanWellFounded, Zenon DEF OpToRel, Less
<1>2. PICK x \in T : \A y \in T : <<y, x>> \notin Less
  BY <1>1, WFMin
<1>3. ASSUME NEW y \in T
      PROVE  x <= y
  <2>. SUFFICES ASSUME y < x
                PROVE  <<y, x>> \in Less
    BY <1>2
  <2>1. <<y, x>> \in Nat \X Nat /\ <<y, x>>[1] < <<y, x>>[2] OBVIOUS
  <2>. QED BY <2>1, Zenon DEF Less
<1>. QED BY <1>3, Zenon
(* Induction: what holds of 0 and passes from n to n + 1 holds up to m.     *)
LEMMA Upwards ==
  ASSUME NEW m \in Nat, NEW T \in SUBSET Nat, 0 \in T,
         \A n \in Nat : n < m /\ n \in T => n + 1 \in T
  PROVE  \A n \in 0..m : n \in T
<1>. DEFINE bad == {n \in 0..m : n \notin T}
<1>. SUFFICES ASSUME bad # {}
              PROVE  FALSE
  OBVIOUS
<1>1. PICK n \in bad : \A y \in bad : n <= y
  <2>. bad \in SUBSET Nat OBVIOUS
  <2>. HIDE DEF bad
  <2>. QED BY LeastNumber
<1>2. n - 1 \in Nat /\ n - 1 < m /\ n - 1 \notin bad BY <1>1
<1>3. n - 1 \in T BY <1>1, <1>2
<1>4. (n - 1) + 1 \in T BY <1>2, <1>3
<1>. QED BY <1>1, <1>4

(* The recursion of Without.                                               *)
StepOf(g, S, i) ==
  IF i = 0 THEN <<>> ELSE IF pool[i] \in S THEN g[i - 1] ELSE Append(g[i - 1], pool[i])
Keeps(g, S, n) == g = [i \in 0..n |-> StepOf(g, S, i)]
(* A function that satisfies the recursion does so at every argument.      *)
LEMMA KeepsAt ==
  ASSUME NEW g, NEW S, NEW n \in Nat, Keeps(g, S, n), NEW i \in 0..n
  PROVE  g[i] = StepOf(g, S, i)
<1>. DEFINE F == [j \in 0..n |-> StepOf(g, S, j)]
<1>1. g = F BY Zenon DEF Keeps
<1>2. F[i] = StepOf(g, S, i) OBVIOUS
<1>. QED BY <1>1, <1>2, Zenon
(* The recursion has a solution, so Without is its last value.             *)
LEMMA WithoutUnfolds ==
  ASSUME NEW S, pool \in Seq(Channels)
  PROVE  \E g : Keeps(g, S, Len(pool)) /\ Without(S) = g[Len(pool)]
<1>. DEFINE good == {n \in Nat : \E g : Keeps(g, S, n)}
<1>1. 0 \in good
  <2>. DEFINE g0 == [i \in 0..0 |-> <<>>]
  <2>1. Keeps(g0, S, 0) BY DEF Keeps, StepOf
  <2>. QED BY <2>1
<1>2. ASSUME NEW n \in Nat, n < Len(pool), n \in good
      PROVE  n + 1 \in good
  <2>1. PICK g : Keeps(g, S, n) BY <1>2
  <2>. DEFINE h == [i \in 0..(n + 1) |-> IF i <= n THEN g[i] ELSE StepOf(g, S, n + 1)]
  <2>2. \A i \in 0..n : g[i] = StepOf(g, S, i) BY <2>1, KeepsAt
  <2>3. \A i \in 0..(n + 1) : h[i] = StepOf(h, S, i) BY <2>2 DEF StepOf
  <2>4. h = [i \in 0..(n + 1) |-> h[i]] OBVIOUS
  <2>. HIDE DEF h
  <2>5. Keeps(h, S, n + 1) BY <2>3, <2>4 DEF Keeps
  <2>. QED BY <2>5
<1>3. Len(pool) \in good
  <2>. HIDE DEF good
  <2>1. Len(pool) \in Nat /\ good \in SUBSET Nat BY DEF good
  <2>2. \A n \in Nat : n < Len(pool) /\ n \in good => n + 1 \in good BY <1>2
  <2>3. \A n \in 0..Len(pool) : n \in good BY <2>1, <2>2, <1>1, Upwards
  <2>. QED BY <2>1, <2>3
<1>4. Keeps(CHOOSE g : Keeps(g, S, Len(pool)), S, Len(pool)) BY <1>3
<1>5. Without(S) = (CHOOSE g : Keeps(g, S, Len(pool)))[Len(pool)]
  BY DEF Without, Keeps, StepOf
<1>. QED BY <1>4, <1>5

Filtered(q, S, n) ==
  /\ q \in Seq(Channels) /\ Distinct(q) /\ Len(q) <= n
  /\ (\E i \in 1..n : pool[i] \in S) => Len(q) < n
  /\ \A x : x \in Elements(q) <=> x \notin S /\ \E i \in 1..n : pool[i] = x
(* OrderedDict.pop: the other entries stay, each once, and there are fewer  *)
(* than before if something was removed.                                   *)
LEMMA WithoutFilters ==
  ASSUME NEW S, pool \in Seq(Channels), Distinct(pool)
  PROVE  /\ Without(S) \in Seq(Channels) /\ Distinct(Without(S))
         /\ Len(Without(S)) <= Len(pool)
         /\ Pooled \cap S # {} => Len(Without(S)) < Len(pool)
         /\ Elements(Without(S)) = Pooled \ S
<1>1. PICK g : Keeps(g, S, Len(pool)) /\ Without(S) = g[Len(pool)] BY WithoutUnfolds
<1>. DEFINE good == {n \in Nat : Filtered(g[n], S, n)}
<1>2. 0 \in good
  <2>1. 0 \in 0..Len(pool) /\ Len(pool) \in Nat OBVIOUS
  <2>2. g[0] = <<>> BY <1>1, <2>1, KeepsAt DEF StepOf
  <2>3. Filtered(<<>>, S, 0) BY DEF Filtered, Elements, Distinct
  <2>. QED BY <2>2, <2>3
<1>3. ASSUME NEW n \in Nat, n < Len(pool), n \in good
      PROVE  n + 1 \in good
  <2>. DEFINE q == g[n + 1]
  <2>1. Filtered(g[n], S, n) BY <1>3
  <2>1a. /\ g[n] \in Seq(Channels) /\ Distinct(g[n]) /\ Len(g[n]) <= n /\ Len(g[n]) \in Nat
         /\ (\E i \in 1..n : pool[i] \in S) => Len(g[n]) < n
    BY <2>1 DEF Filtered
  <2>1b. \A x : (\E i \in 1..Len(g[n]) : g[n][i] = x)
                 <=> x \notin S /\ \E i \in 1..n : pool[i] = x
    BY <2>1, <2>1a, SMTT(60) DEF Filtered, Elements
  <2>2. q = IF pool[n + 1] \in S THEN g[n] ELSE Append(g[n], pool[n + 1])
    BY <1>1, <1>3, KeepsAt DEF StepOf
  <2>3. pool[n + 1] \in Channels BY <1>3
  <2>4. CASE pool[n + 1] \in S BY <2>1, <2>2, <2>4 DEF Filtered
  <2>5. CASE pool[n + 1] \notin S
    <3>1. \A i \in 1..n : pool[i] # pool[n + 1] BY <1>3 DEF Distinct
    <3>2. q \in Seq(Channels) /\ Len(q) = Len(g[n]) + 1
      BY <2>1, <2>2, <2>3, <2>5 DEF Filtered
    <3>3. \A i \in 1..Len(g[n]) : q[i] = g[n][i] BY <2>1, <2>2, <2>5 DEF Filtered
    <3>4. q[Len(g[n]) + 1] = pool[n + 1] BY <2>1, <2>2, <2>5 DEF Filtered
    <3>. HIDE DEF q
    <3>5. Distinct(q)
      <4>1. \A i \in 1..Len(g[n]) : g[n][i] # pool[n + 1] BY <2>1b, <3>1
      <4>. QED BY <4>1, <3>2, <3>3, <3>4, <2>1a, SMTT(60) DEF Distinct
    <3>6. ASSUME NEW x
          PROVE  (\E i \in 1..Len(q) : q[i] = x) <=> x \notin S /\ \E i \in 1..(n + 1) : pool[i] = x
      <4>1. (\E i \in 1..Len(q) : q[i] = x) <=> (\E i \in 1..Len(g[n]) : g[n][i] = x) \/ x = pool[n + 1]
        <5>1. ASSUME NEW i \in 1..Len(q), q[i] = x
              PROVE  (\E j \in 1..Len(g[n]) : g[n][j] = x) \/ x = pool[n + 1]
          <6>1. CASE i \in 1..Len(g[n]) BY <6>1, <5>1, <3>3
          <6>2. CASE i = Len(g[n]) + 1 BY <6>2, <5>1, <3>4
          <6>. QED BY <6>1, <6>2, <3>2, <2>1a
        <5>2. ASSUME NEW i \in 1..Len(g[n]), g[n][i] = x
              PROVE  i \in 1..Len(q) /\ q[i] = x
          BY <5>2, <3>2, <3>3, <2>1a
        <5>3. Len(g[n]) + 1 \in 1..Len(q) BY <3>2, <2>1a
        <5>. QED BY <5>1, <5>2, <5>3, <3>4
      <4>2. (\E i \in 1..(n + 1) : pool[i] = x) <=> (\E i \in 1..n : pool[i] = x) \/ x = pool[n + 1]
        OBVIOUS
      <4>. QED BY <4>1, <4>2, <2>1b, <2>5
    <3>7. \A x : x \in Elements(q) <=> x \notin S /\ \E i \in 1..(n + 1) : pool[i] = x
      BY <3>2, <3>6 DEF Elements
    <3>8. (\E i \in 1..(n + 1) : pool[i] \in S) => Len(q) < n + 1 BY <3>2, <2>1a, <2>5
    <3>9. Filtered(q, S, n + 1) BY <3>2, <3>5, <3>7, <3>8, <2>1a DEF Filtered
    <3>. QED BY <3>9 DEF q
  <2>. QED BY <2>4, <2>5
<1>4. Filtered(g[Len(pool)], S, Len(pool))
  <2>. HIDE DEF good
  <2>1. Len(pool) \in Nat /\ good \in SUBSET Nat BY DEF good
  <2>2. \A n \in Nat : n < Len(pool) /\ n \in good => n + 1 \in good BY <1>3
  <2>3. \A n \in 0..Len(pool) : n \in good BY <2>1, <2>2, <1>2, Upwards
  <2>4. Len(pool) \in good BY <2>1, <2>3
  <2>. QED BY <2>4 DEF good
<1>5. \A x : x \in Pooled <=> \E i \in 1..Len(pool) : pool[i] = x BY DEF Pooled
<1>. QED BY <1>1, <1>4, <1>5 DEF Filtered
-----------------------------------------------------------------------------
(* The inductive invariant.                                                *)

(* _chans: a bounded map from conversations to channels that were connected; *)
(* an open channel is in it or about to be closed.                          *)
PoolInv ==
  /\ Distinct(pool) /\ Len(pool) <= MaxOpen
  /\ \A a, b \in Pooled : chan[a].conv = chan[b].conv => a = b
  /\ \A ch \in Pooled \cup closing : chan[ch].st # "new"
  /\ \A ch \in Channels : Alive(ch) => ch \in Pooled \cup closing
(* A channel was authenticated with a remote session of its conversation.   *)
ChanInv == \A ch \in Channels : chan[ch].st # "new" =>
  /\ chan[ch].conv \in Convs /\ chan[ch].sid \in RemoteSessions
  /\ issued[chan[ch].sid] = chan[ch].conv
(* A row's remote session was generated for its conversation.              *)
RowInv == \A k \in Convs : session[k].sid # NoSid => issued[session[k].sid] = k
(* A turn knows its remote session, and the row it began with has no other. *)
TurnInv == \A k \in Convs : pc[k] # "idle" =>
  /\ job[k].sid \in RemoteSessions /\ issued[job[k].sid] = k
  /\ job[k].row <= session[k].row
  /\ session[k].row = job[k].row /\ session[k].sid # NoSid => session[k].sid = job[k].sid
(* A turn that holds a channel holds the only one its conversation has in   *)
(* the pool.                                                               *)
HoldInv == \A k \in Convs : pc[k] \in {"send", "await"} =>
  /\ job[k].ch \in Channels /\ chan[job[k].ch].st # "new" /\ chan[job[k].ch].conv = k
  /\ OfConv(k) \subseteq {job[k].ch}
(* A turn that starts over finds no channel of its conversation, so what it *)
(* sends on is a channel it opened.                                        *)
SendInv == \A k \in Convs :
  /\ pc[k] = "idle" => job[k].sends = 0
  /\ pc[k] \in {"acquire", "send"} => job[k].sends <= 1
  /\ pc[k] \in {"await", "apply"} => job[k].sends \in 1..2
  /\ pc[k] = "acquire" /\ job[k].sends = 1 => OfConv(k) = {}
  /\ \/ pc[k] = "send" /\ job[k].sends = 1
     \/ pc[k] = "await" /\ job[k].sends = 2
     => chan[job[k].ch].sid = job[k].sid
ChannelsInv ==
  TypeOK /\ PoolInv /\ ChanInv /\ RowInv /\ TurnInv /\ HoldInv /\ SendInv
-----------------------------------------------------------------------------
(* What the operations do to the pool.                                     *)

(* Every pooled channel is a channel.                                      *)
LEMMA PooledTypes ==
  ASSUME pool \in Seq(Channels)
  PROVE  Pooled = Elements(pool) /\ Pooled \subseteq Channels /\ Len(pool) \in Nat
BY DEF Pooled, Elements
(* close and _reap_once: the rest stays pooled.                            *)
LEMMA DiscardPool ==
  ASSUME TypeOK, PoolInv, NEW S, pool' = Without(S)
  PROVE  /\ pool' \in Seq(Channels) /\ Distinct(pool') /\ Len(pool') <= MaxOpen
         /\ Pooled' = Pooled \ S
<1>1. pool \in Seq(Channels) /\ Distinct(pool) /\ Len(pool) <= MaxOpen /\ MaxOpen \in Nat
  BY ChannelConstants DEF TypeOK, PoolInv
<1>2. /\ Without(S) \in Seq(Channels) /\ Distinct(Without(S))
      /\ Len(Without(S)) <= Len(pool) /\ Elements(Without(S)) = Pooled \ S
  BY <1>1, WithoutFilters
<1>3. Pooled' = Elements(pool') BY DEF Pooled, Elements
<1>4. Len(pool') <= MaxOpen
  <2>. HIDE DEF Without
  <2>1. Len(Without(S)) \in Nat /\ Len(pool) \in Nat BY <1>1, <1>2
  <2>. QED BY <1>1, <1>2, <2>1
<1>. QED BY <1>2, <1>3, <1>4
(* Appending a channel that is not there.                                  *)
LEMMA AppendPool ==
  ASSUME NEW q \in Seq(Channels), Distinct(q), NEW ch \in Channels, ch \notin Elements(q)
  PROVE  /\ Append(q, ch) \in Seq(Channels) /\ Len(Append(q, ch)) = Len(q) + 1
         /\ Distinct(Append(q, ch)) /\ Elements(Append(q, ch)) = Elements(q) \cup {ch}
<1>. DEFINE r == Append(q, ch)
<1>1. r \in Seq(Channels) /\ Len(r) = Len(q) + 1 /\ Len(q) \in Nat OBVIOUS
<1>2. \A i \in 1..Len(q) : r[i] = q[i] OBVIOUS
<1>3. r[Len(q) + 1] = ch OBVIOUS
<1>4. \A i \in 1..Len(q) : q[i] # ch BY DEF Elements
<1>. HIDE DEF r
<1>5. Distinct(r) BY <1>1, <1>2, <1>3, <1>4 DEF Distinct
<1>6. ASSUME NEW x
      PROVE  (\E i \in 1..Len(r) : r[i] = x) <=> (\E i \in 1..Len(q) : q[i] = x) \/ x = ch
  <2>1. ASSUME NEW i \in 1..Len(r), r[i] = x
        PROVE  (\E j \in 1..Len(q) : q[j] = x) \/ x = ch
    <3>1. CASE i \in 1..Len(q) BY <3>1, <2>1, <1>2
    <3>2. CASE i = Len(q) + 1 BY <3>2, <2>1, <1>3
    <3>. QED BY <3>1, <3>2, <1>1
  <2>2. ASSUME NEW i \in 1..Len(q), q[i] = x
        PROVE  i \in 1..Len(r) /\ r[i] = x
    BY <2>2, <1>1, <1>2
  <2>3. Len(q) + 1 \in 1..Len(r) BY <1>1
  <2>. QED BY <2>1, <2>2, <2>3, <1>3
<1>7. \A x : x \in Elements(r) <=> \E i \in 1..Len(r) : r[i] = x BY <1>1 DEF Elements
<1>8. \A x : x \in Elements(q) <=> \E i \in 1..Len(q) : q[i] = x BY DEF Elements
<1>9. Elements(r) = Elements(q) \cup {ch} BY <1>6, <1>7, <1>8
<1>. QED BY <1>1, <1>5, <1>9 DEF r
(* move_to_end: the same channels are pooled.                              *)
LEMMA HitPool ==
  ASSUME TypeOK, PoolInv, NEW ch \in Pooled, pool' = Append(Without({ch}), ch)
  PROVE  /\ pool' \in Seq(Channels) /\ Distinct(pool') /\ Len(pool') <= MaxOpen
         /\ Pooled' = Pooled
<1>1. pool \in Seq(Channels) /\ Distinct(pool) /\ Len(pool) <= MaxOpen /\ MaxOpen \in Nat
  BY ChannelConstants DEF TypeOK, PoolInv
<1>. DEFINE q == Without({ch})
<1>2. /\ q \in Seq(Channels) /\ Distinct(q)
      /\ Len(q) < Len(pool) /\ Elements(q) = Pooled \ {ch}
  BY <1>1, WithoutFilters
<1>3. Pooled' = Elements(pool') BY DEF Pooled, Elements
<1>4. ch \in Channels BY <1>1, PooledTypes
<1>5. pool' = Append(q, ch) OBVIOUS
<1>. HIDE DEF q
<1>6. /\ pool' \in Seq(Channels) /\ Len(pool') = Len(q) + 1 /\ Distinct(pool')
      /\ Elements(pool') = Elements(q) \cup {ch}
  BY <1>2, <1>4, <1>5, AppendPool
<1>7. Len(q) \in Nat /\ Len(pool) \in Nat BY <1>1, <1>2
<1>8. Len(pool') <= MaxOpen BY <1>1, <1>2, <1>6, <1>7
<1>9. Pooled' = Pooled BY <1>2, <1>3, <1>6
<1>. QED BY <1>6, <1>8, <1>9
(* _evict_if_needed leaves room for one.                                   *)
LEMMA KeptPool ==
  ASSUME TypeOK, PoolInv, NEW k
  PROVE  /\ Kept(k) \in Seq(Channels) /\ Distinct(Kept(k)) /\ Len(Kept(k)) < MaxOpen
         /\ Elements(Kept(k)) \subseteq Pooled \ OfConv(k)
         /\ Dropped(k) = Pooled \ Elements(Kept(k))
<1>1. pool \in Seq(Channels) /\ Distinct(pool) BY DEF TypeOK, PoolInv
<1>2. MaxOpen \in Nat /\ MaxOpen > 0 BY ChannelConstants
<1>. DEFINE p == Without(OfConv(k))
            n == MaxOpen - 1
            from == IF Len(p) > n THEN Len(p) - n + 1 ELSE 1
            q == SubSeq(p, from, Len(p))
<1>3. p \in Seq(Channels) /\ Distinct(p) /\ Elements(p) = Pooled \ OfConv(k)
  BY <1>1, WithoutFilters
<1>4. q = Kept(k) BY DEF Kept, NewestOf
<1>. HIDE DEF p
<1>5. Len(p) \in Nat /\ n \in Nat /\ from \in Nat /\ from >= 1 /\ from <= Len(p) + 1
      /\ Len(p) - from + 1 <= n
  BY <1>2, <1>3
<1>. HIDE DEF n, from
<1>6. q \in Seq(Channels) /\ Len(q) = Len(p) - from + 1
      /\ \A i \in 1..Len(q) : q[i] = p[from + i - 1]
  BY <1>3, <1>5
<1>. HIDE DEF q
<1>7. \A i \in 1..Len(q) : from + i - 1 \in 1..Len(p) BY <1>5, <1>6
<1>8. Distinct(q)
  <2>. SUFFICES ASSUME NEW i \in 1..Len(q), NEW j \in 1..Len(q), q[i] = q[j]
                PROVE  i = j
    BY <1>6 DEF Distinct
  <2>1. p[from + i - 1] = p[from + j - 1] BY <1>6
  <2>2. DOMAIN p = 1..Len(p) BY <1>3
  <2>3. from + i - 1 = from + j - 1 BY <1>3, <1>7, <2>1, <2>2 DEF Distinct
  <2>. QED BY <2>3, <1>5, <1>6
<1>9. Elements(q) \subseteq Elements(p)
  BY <1>3, <1>6, <1>7 DEF Elements
<1>10. Dropped(k) = Pooled \ Elements(Kept(k)) BY DEF Dropped, Elements
<1>11. Len(q) < MaxOpen BY <1>2, <1>5, <1>6 DEF n
<1>. QED BY <1>3, <1>4, <1>6, <1>8, <1>9, <1>10, <1>11
-----------------------------------------------------------------------------
(* The steps that leave the sockets alone.                                 *)

(* Nothing is pooled or closed: what the parts of the invariant say about   *)
(* sockets stays true if no remote session changes its conversation.        *)
LEMMA SocketsKept ==
  ASSUME ChannelsInv, UNCHANGED poolVars,
         \A s \in RemoteSessions : issued[s] # NoConv => issued'[s] = issued[s]
  PROVE  /\ PoolInv' /\ ChanInv' /\ Pooled' = Pooled /\ \A k : OfConv(k)' = OfConv(k)
         /\ pool' \in Seq(Channels) /\ closing' \subseteq Channels
         /\ chan' \in [Channels -> Channel]
<1>1. Pooled' = Pooled BY DEF poolVars, Pooled
<1>2. PoolInv' BY <1>1 DEF ChannelsInv, PoolInv, poolVars, Alive, Distinct
<1>3. ChanInv'
  BY ChannelConstants DEF ChannelsInv, TypeOK, ChanInv, poolVars, Channel
<1>4. \A k : OfConv(k)' = OfConv(k) BY <1>1 DEF OfConv, poolVars
<1>. QED BY <1>1, <1>2, <1>3, <1>4 DEF ChannelsInv, TypeOK, poolVars
(* The steps of a turn between two uses of the pool.                       *)
LEMMA QuietStep ==
  ASSUME ChannelsInv, NEW k \in Convs,
         \/ Send(k) \/ SendRaises(k) \/ Reply(k) \/ ReplyLost(k) \/ SecondLoss(k)
         \/ Apply(k) \/ ApplyRejected(k)
  PROVE  ChannelsInv'
<1>. USE DEF Goto, At, EndTurn
<1>1. UNCHANGED poolVars /\ UNCHANGED issued /\ UNCHANGED budget
  BY DEF Send, SendRaises, Reply, ReplyLost, SecondLoss, Apply, ApplyRejected
<1>2. /\ PoolInv' /\ ChanInv' /\ Pooled' = Pooled /\ \A j : OfConv(j)' = OfConv(j)
      /\ pool' \in Seq(Channels) /\ closing' \subseteq Channels
      /\ chan' \in [Channels -> Channel]
  BY <1>1, SocketsKept
<1>3. chan' = chan /\ issued' = issued /\ UNCHANGED <<turns, ends, drops, restarts>>
  BY <1>1 DEF poolVars, budget
<1>. USE <1>2, <1>3 DEF ChannelsInv
<1>4. CASE Send(k)
  <2>1. TypeOK'
    <3>0. job[k] \in Job BY DEF TypeOK
    <3>1. [job[k] EXCEPT !.sends = @ + 1] \in Job BY <3>0 DEF Job
    <3>2. job' = [job EXCEPT ![k] = [job[k] EXCEPT !.sends = @ + 1]] BY <1>4 DEF Send
    <3>3. job' \in [Convs -> Job] BY <3>1, <3>2 DEF TypeOK
    <3>4. pc' \in [Convs -> Points] BY <1>4 DEF Send, TypeOK, Points
    <3>5. UNCHANGED session BY <1>4 DEF Send
    <3>. QED BY <3>3, <3>4, <3>5 DEF TypeOK
  <2>2. RowInv' /\ TurnInv' BY <1>4 DEF Send, TypeOK, Job, RowInv, TurnInv
  <2>3. HoldInv' BY <1>4 DEF Send, TypeOK, Job, HoldInv
  <2>4. SendInv' BY <1>4 DEF Send, TypeOK, Job, SendInv
  <2>. QED BY <2>1, <2>2, <2>3, <2>4
<1>5. CASE Reply(k)
  <2>1. TypeOK' BY <1>5 DEF Reply, TypeOK, Points
  <2>2. RowInv' /\ TurnInv' BY <1>5 DEF Reply, TypeOK, RowInv, TurnInv
  <2>3. HoldInv' /\ SendInv' BY <1>5 DEF Reply, TypeOK, HoldInv, SendInv
  <2>. QED BY <2>1, <2>2, <2>3
<1>6. CASE EndTurn(k) /\ (UNCHANGED session \/ Apply(k))
  <2>1. session' \in [Convs -> Session]
    <3>1. session[k] \in Session /\ job[k] \in Job BY DEF TypeOK
    <3>2. [session[k] EXCEPT !.sid = job[k].sid] \in Session BY <3>1 DEF Session, Job
    <3>3. UNCHANGED session \/ session' = [session EXCEPT ![k] = [session[k] EXCEPT !.sid = job[k].sid]]
      BY <1>6 DEF Apply
    <3>. QED BY <3>2, <3>3 DEF TypeOK
  <2>2. TypeOK' BY <1>6, <2>1 DEF TypeOK, Points, Job, NoJob
  <2>3. RowInv' BY <1>6, SMTT(60) DEF Apply, TypeOK, Session, RowInv, TurnInv
  <2>4. TurnInv' /\ HoldInv' /\ SendInv'
    BY <1>6 DEF Apply, TypeOK, Session, TurnInv, HoldInv, SendInv, NoJob
  <2>. QED BY <2>2, <2>3, <2>4
<1>. QED BY <1>4, <1>5, <1>6 DEF SendRaises, ReplyLost, SecondLoss, Apply, ApplyRejected
(* A turn begins, or fails before it has a channel.                        *)
LEMMA StartStep ==
  ASSUME ChannelsInv, NEW k \in Convs, StartTurn(k) \/ StartTurnFails(k)
  PROVE  ChannelsInv'
<1>. USE DEF Goto, At
<1>1. UNCHANGED poolVars /\ UNCHANGED <<ends, drops, restarts>> /\ turns' = turns + 1
  BY DEF StartTurn, StartTurnFails
<1>2. CASE StartTurn(k)
  <2>. DEFINE row == IF session[k].open THEN session[k]
                     ELSE [row |-> session[k].row + 1, open |-> TRUE, sid |-> NoSid]
  <2>1. PICK s \in IF row.sid # NoSid THEN {row.sid}
                   ELSE {f \in RemoteSessions : issued[f] = NoConv} :
          /\ job' = [job EXCEPT ![k] = [NoJob EXCEPT !.row = row.row, !.sid = s]]
          /\ issued' = [issued EXCEPT ![s] = k]
    BY <1>2 DEF StartTurn
  <2>2. session' = [session EXCEPT ![k] = row] BY <1>2 DEF StartTurn
  <2>3. row \in Session /\ row.row >= session[k].row BY DEF ChannelsInv, TypeOK, Session
  <2>4. row.sid # NoSid => row = session[k] OBVIOUS
  <2>. HIDE DEF row
  <2>5. /\ s \in RemoteSessions /\ issued[s] \in {NoConv, k}
        /\ row.sid # NoSid => s = row.sid
    BY <2>3, <2>4 DEF ChannelsInv, TypeOK, Session, RowInv
  <2>6. \A f \in RemoteSessions : issued[f] # NoConv => issued'[f] = issued[f]
    BY <2>1, <2>5 DEF ChannelsInv, TypeOK
  <2>7. /\ PoolInv' /\ ChanInv' /\ Pooled' = Pooled /\ \A j : OfConv(j)' = OfConv(j)
        /\ pool' \in Seq(Channels) /\ closing' \subseteq Channels
        /\ chan' \in [Channels -> Channel] /\ chan' = chan
    BY <1>1, <2>6, SocketsKept DEF poolVars
  <2>8. pc' = [pc EXCEPT ![k] = "acquire"] /\ pc[k] = "idle" BY <1>2 DEF StartTurn
  <2>9. TypeOK'
    <3>1. session' \in [Convs -> Session] BY <2>2, <2>3 DEF ChannelsInv, TypeOK
    <3>2. row.row \in Nat BY <2>3 DEF Session
    <3>3. [NoJob EXCEPT !.row = row.row, !.sid = s] \in Job BY <3>2, <2>5 DEF Job, NoJob
    <3>4. job' \in [Convs -> Job] BY <2>1, <3>3 DEF ChannelsInv, TypeOK
    <3>5. issued' \in [RemoteSessions -> Convs \cup {NoConv}] BY <2>1 DEF ChannelsInv, TypeOK
    <3>6. pc' \in [Convs -> Points] BY <2>8 DEF ChannelsInv, TypeOK, Points
    <3>7. turns' \in Nat /\ ends' \in Nat /\ drops' \in Nat /\ restarts' \in Nat
      BY <1>1 DEF ChannelsInv, TypeOK
    <3>. QED BY <3>1, <3>4, <3>5, <3>6, <3>7, <2>7 DEF TypeOK
  <2>10. issued'[s] = k /\ \A j \in Convs \ {k} : session'[j] = session[j] /\ job'[j] = job[j] /\ pc'[j] = pc[j]
    BY <2>1, <2>2, <2>5, <2>8 DEF ChannelsInv, TypeOK
  <2>11. /\ session'[k] = row /\ job'[k] = [row |-> row.row, sid |-> s, ch |-> NoChannel, sends |-> 0]
         /\ pc'[k] = "acquire"
    BY <2>1, <2>2, <2>8 DEF ChannelsInv, TypeOK, NoJob
  <2>12. RowInv'
    BY <2>5, <2>6, <2>10, <2>11, ChannelConstants DEF ChannelsInv, TypeOK, Session, RowInv
  <2>13. TurnInv'
    <3>. SUFFICES ASSUME NEW j \in Convs, pc'[j] # "idle"
                  PROVE  /\ job'[j].sid \in RemoteSessions /\ issued'[job'[j].sid] = j
                         /\ job'[j].row <= session'[j].row
                         /\ session'[j].row = job'[j].row /\ session'[j].sid # NoSid
                              => session'[j].sid = job'[j].sid
      BY DEF TurnInv
    <3>1. CASE j = k BY <3>1, <2>3, <2>5, <2>10, <2>11 DEF Session
    <3>2. CASE j # k
      BY <3>2, <2>6, <2>10, ChannelConstants DEF ChannelsInv, TypeOK, TurnInv
    <3>. QED BY <3>1, <3>2
  <2>14. HoldInv' BY <2>7, <2>10, <2>11 DEF ChannelsInv, HoldInv
  <2>15. SendInv' BY <2>7, <2>10, <2>11 DEF ChannelsInv, SendInv
  <2>. QED BY <2>7, <2>9, <2>12, <2>13, <2>14, <2>15 DEF ChannelsInv
<1>3. CASE StartTurnFails(k)
  <2>1. /\ PoolInv' /\ ChanInv' /\ Pooled' = Pooled /\ \A j : OfConv(j)' = OfConv(j)
        /\ pool' \in Seq(Channels) /\ closing' \subseteq Channels
        /\ chan' \in [Channels -> Channel] /\ chan' = chan /\ pc' = pc /\ job' = job /\ issued' = issued
    BY <1>1, <1>3, SocketsKept DEF poolVars, StartTurnFails
  <2>2. TypeOK' BY <1>1, <1>3, <2>1 DEF StartTurnFails, ChannelsInv, TypeOK, Session
  <2>3. RowInv' /\ TurnInv' BY <1>3, <2>1 DEF StartTurnFails, ChannelsInv, TypeOK, Session, RowInv, TurnInv
  <2>4. HoldInv' /\ SendInv' BY <2>1 DEF ChannelsInv, HoldInv, SendInv
  <2>. QED BY <2>1, <2>2, <2>3, <2>4 DEF ChannelsInv
<1>. QED BY <1>2, <1>3
-----------------------------------------------------------------------------
(* The steps that change the pool.                                         *)

(* close and the reaper: what leaves the pool is about to be closed, and no *)
(* conversation gets another channel.                                      *)
LEMMA DiscardKeeps ==
  ASSUME ChannelsInv, NEW S, Discard(S)
  PROVE  /\ PoolInv' /\ pool' \in Seq(Channels) /\ closing' \subseteq Channels /\ chan' = chan
         /\ Pooled' = Pooled \ S /\ \A k : OfConv(k)' = OfConv(k) \ S
<1>1. /\ pool' \in Seq(Channels) /\ Distinct(pool') /\ Len(pool') <= MaxOpen
      /\ Pooled' = Pooled \ S
  BY DiscardPool DEF ChannelsInv, Discard
<1>2. closing' = closing \cup (S \cap Pooled) /\ chan' = chan BY DEF Discard
<1>3. Pooled \subseteq Channels BY PooledTypes DEF ChannelsInv, TypeOK
<1>4. \A k : OfConv(k)' = OfConv(k) \ S BY <1>1, <1>2 DEF OfConv
<1>5. PoolInv' BY <1>1, <1>2 DEF ChannelsInv, PoolInv, Alive
<1>6. closing' \subseteq Channels BY <1>2, <1>3 DEF ChannelsInv, TypeOK
<1>. QED BY <1>1, <1>2, <1>4, <1>5, <1>6
(* A channel that is shut keeps its conversation and its remote session.    *)
LEMMA ShutFacts ==
  ASSUME TypeOK, NEW S
  PROVE  /\ Shut(S) \in [Channels -> Channel]
         /\ \A ch \in Channels :
              /\ Shut(S)[ch].conv = chan[ch].conv /\ Shut(S)[ch].sid = chan[ch].sid
              /\ Shut(S)[ch].st = IF ch \in S THEN "closed" ELSE chan[ch].st
<1>1. \A ch \in Channels : chan[ch] \in Channel BY DEF TypeOK
<1>2. ASSUME NEW ch \in Channels
      PROVE  [chan[ch] EXCEPT !.st = "closed"] \in Channel
  BY <1>1 DEF Channel
<1>3. ASSUME NEW ch \in Channels
      PROVE  /\ Shut(S)[ch].conv = chan[ch].conv /\ Shut(S)[ch].sid = chan[ch].sid
             /\ Shut(S)[ch].st = IF ch \in S THEN "closed" ELSE chan[ch].st
  BY <1>1 DEF Shut, Channel
<1>. QED BY <1>1, <1>2, <1>3 DEF Shut
(* A turn drops or ends the channel of its conversation.                   *)
LEMMA RetryStep ==
  ASSUME ChannelsInv, NEW k \in Convs, Retry(k)
  PROVE  ChannelsInv'
<1>. USE DEF Goto, At
<1>1. /\ pool' = Without(OfConv(k)) /\ pc' = [pc EXCEPT ![k] = "acquire"]
      /\ UNCHANGED <<chan, closing, session, job, issued, turns, ends, drops, restarts>>
      /\ pc[k] = "await" /\ ~Alive(job[k].ch) /\ job[k].sends = 1
  BY DEF Retry, budget
<1>2. /\ pool' \in Seq(Channels) /\ Distinct(pool') /\ Len(pool') <= MaxOpen
      /\ Pooled' = Pooled \ OfConv(k)
  BY <1>1, DiscardPool DEF ChannelsInv
<1>3. \A ch \in OfConv(k) : ~Alive(ch) BY <1>1 DEF ChannelsInv, HoldInv
<1>4. \A j : OfConv(j)' = OfConv(j) \ OfConv(k) BY <1>1, <1>2 DEF OfConv
<1>5. TypeOK' BY <1>1, <1>2 DEF ChannelsInv, TypeOK, Points
<1>6. PoolInv' BY <1>1, <1>2, <1>3 DEF ChannelsInv, PoolInv, Alive
<1>7. ChanInv' /\ RowInv' BY <1>1 DEF ChannelsInv, ChanInv, RowInv
<1>8. TurnInv' BY <1>1 DEF ChannelsInv, TypeOK, TurnInv
<1>9. HoldInv' BY <1>1, <1>4 DEF ChannelsInv, TypeOK, HoldInv
<1>10. SendInv' BY <1>1, <1>4 DEF ChannelsInv, TypeOK, SendInv
<1>. QED BY <1>5, <1>6, <1>7, <1>8, <1>9, <1>10 DEF ChannelsInv
(* The pool has a live channel for the conversation.                       *)
LEMMA HitStep ==
  ASSUME ChannelsInv, NEW k \in Convs, AcquireHit(k)
  PROVE  ChannelsInv'
<1>. USE DEF Goto, At
<1>1. PICK ch \in OfConv(k) : pool' = Append(Without({ch}), ch) /\ job' = [job EXCEPT ![k].ch = ch]
  BY DEF AcquireHit
<1>2. /\ pc' = [pc EXCEPT ![k] = "send"] /\ pc[k] = "acquire"
      /\ UNCHANGED <<chan, closing, session, issued, turns, ends, drops, restarts>>
  BY DEF AcquireHit, budget
<1>3. ch \in Pooled /\ chan[ch].conv = k BY DEF OfConv
<1>4. /\ pool' \in Seq(Channels) /\ Distinct(pool') /\ Len(pool') <= MaxOpen
      /\ Pooled' = Pooled
  BY <1>1, <1>3, HitPool DEF ChannelsInv
<1>5. ch \in Channels BY <1>3, PooledTypes DEF ChannelsInv, TypeOK
<1>6. \A j : OfConv(j)' = OfConv(j) BY <1>2, <1>4 DEF OfConv
<1>7. OfConv(k) = {ch} BY <1>3 DEF ChannelsInv, PoolInv, OfConv
<1>8. job[k] \in Job BY DEF ChannelsInv, TypeOK
<1>9. TypeOK'
  <2>1. [job[k] EXCEPT !.ch = ch] \in Job BY <1>5, <1>8 DEF Job
  <2>2. job' = [job EXCEPT ![k] = [job[k] EXCEPT !.ch = ch]] BY <1>1
  <2>3. job' \in [Convs -> Job] BY <2>1, <2>2 DEF ChannelsInv, TypeOK
  <2>. QED BY <2>3, <1>2, <1>4 DEF ChannelsInv, TypeOK, Points
<1>10. PoolInv' BY <1>2, <1>4 DEF ChannelsInv, PoolInv, Alive
<1>11. ChanInv' /\ RowInv' BY <1>2 DEF ChannelsInv, ChanInv, RowInv
<1>12. /\ job'[k].ch = ch /\ job'[k].sid = job[k].sid /\ job'[k].row = job[k].row
       /\ job'[k].sends = job[k].sends /\ pc'[k] = "send"
       /\ \A j \in Convs \ {k} : job'[j] = job[j] /\ pc'[j] = pc[j]
  BY <1>1, <1>2, <1>8 DEF ChannelsInv, TypeOK, Job
<1>13. TurnInv' BY <1>2, <1>12 DEF ChannelsInv, TurnInv
<1>14. HoldInv'
  BY <1>2, <1>3, <1>5, <1>6, <1>7, <1>12 DEF ChannelsInv, HoldInv, PoolInv
<1>15. SendInv' BY <1>2, <1>6, <1>7, <1>12 DEF ChannelsInv, SendInv
<1>. QED BY <1>9, <1>10, <1>11, <1>13, <1>14, <1>15 DEF ChannelsInv
(* A miss that evicts, and connects or fails.                              *)
LEMMA MissStep ==
  ASSUME ChannelsInv, NEW k \in Convs, AcquireNew(k) \/ AcquireFails(k)
  PROVE  ChannelsInv'
<1>. USE DEF Goto, At, EndTurn
<1>. DEFINE stays == Elements(Kept(k))
<1>1. /\ Kept(k) \in Seq(Channels) /\ Distinct(Kept(k)) /\ Len(Kept(k)) < MaxOpen
      /\ stays \subseteq Pooled \ OfConv(k) /\ Dropped(k) = Pooled \ stays
  BY KeptPool DEF ChannelsInv
<1>2. /\ pc[k] = "acquire"
      /\ UNCHANGED <<closing, session, issued, turns, ends, drops, restarts>>
  BY DEF AcquireNew, AcquireFails, Miss, budget
<1>3. Len(Kept(k)) \in Nat /\ MaxOpen \in Nat BY <1>1, ChannelConstants
<1>4. Pooled \subseteq Channels BY PooledTypes DEF ChannelsInv, TypeOK
<1>5. Pooled' = Elements(pool') BY DEF Pooled, Elements
<1>6. /\ Shut(Dropped(k)) \in [Channels -> Channel]
      /\ \A ch \in Channels :
           /\ Shut(Dropped(k))[ch].conv = chan[ch].conv /\ Shut(Dropped(k))[ch].sid = chan[ch].sid
           /\ Shut(Dropped(k))[ch].st = IF ch \in Dropped(k) THEN "closed" ELSE chan[ch].st
  BY ShutFacts DEF ChannelsInv
<1>7. CASE AcquireFails(k)
  <2>1. /\ pool' = Kept(k) /\ chan' = Shut(Dropped(k)) /\ pc' = [pc EXCEPT ![k] = "idle"]
        /\ job' = [job EXCEPT ![k] = NoJob]
    BY <1>7 DEF AcquireFails
  <2>2. Pooled' = stays BY <1>5, <2>1
  <2>. HIDE DEF stays
  <2>3. TypeOK'
    <3>1. NoJob \in Job BY DEF NoJob, Job
    <3>. QED BY <3>1, <2>1, <1>1, <1>2, <1>6 DEF ChannelsInv, TypeOK, Points
  <2>4. PoolInv'
    <3>1. Distinct(pool') /\ Len(pool') <= MaxOpen BY <2>1, <1>1, <1>3
    <3>2. \A a, b \in Pooled' : chan'[a].conv = chan'[b].conv => a = b
      <4>1. \A a \in Pooled' : a \in Pooled /\ a \in Channels BY <2>2, <1>1, <1>4
      <4>2. \A a \in Channels : chan'[a].conv = chan[a].conv BY <2>1, <1>6
      <4>. QED BY <4>1, <4>2 DEF ChannelsInv, PoolInv
    <3>3. \A ch \in Pooled' \cup closing' : chan'[ch].st # "new"
      BY <2>1, <2>2, <1>1, <1>2, <1>4, <1>6 DEF ChannelsInv, PoolInv, TypeOK
    <3>4. \A ch \in Channels : Alive(ch)' => ch \in Pooled' \cup closing'
      BY <2>1, <2>2, <1>1, <1>2, <1>6 DEF ChannelsInv, PoolInv, Alive
    <3>. QED BY <3>1, <3>2, <3>3, <3>4 DEF PoolInv
  <2>5. \A ch \in Channels : chan'[ch].st # "new" => chan[ch].st # "new"
    BY <2>1, <1>1, <1>6 DEF ChannelsInv, PoolInv
  <2>6. ChanInv' BY <2>1, <2>5, <1>2, <1>6 DEF ChannelsInv, ChanInv
  <2>7. RowInv' BY <1>2 DEF ChannelsInv, RowInv
  <2>8. job'[k] = NoJob /\ pc'[k] = "idle"
        /\ \A j \in Convs \ {k} : job'[j] = job[j] /\ pc'[j] = pc[j]
    BY <2>1 DEF ChannelsInv, TypeOK
  <2>9. TurnInv' BY <2>8, <1>2 DEF ChannelsInv, TurnInv
  <2>10. \A j : OfConv(j)' \subseteq OfConv(j) BY <2>1, <2>2, <1>1, <1>4, <1>6 DEF OfConv
  <2>11. HoldInv'
    <3>1. \A ch \in Channels : chan[ch].st # "new" => chan'[ch].st # "new" BY <2>1, <1>6
    <3>. QED BY <3>1, <2>1, <2>8, <2>10, <1>6 DEF ChannelsInv, HoldInv
  <2>12. SendInv'
    <3>1. \A j \in Convs : pc[j] \in {"send", "await"} => job[j].ch \in Channels
      BY DEF ChannelsInv, HoldInv
    <3>. QED BY <3>1, <2>1, <2>8, <2>10, <1>6 DEF ChannelsInv, SendInv, NoJob
  <2>. QED BY <2>3, <2>4, <2>6, <2>7, <2>9, <2>11, <2>12 DEF ChannelsInv
<1>8. CASE AcquireNew(k)
  <2>1. PICK ch \in Channels :
          /\ chan[ch].st = "new" /\ pool' = Append(Kept(k), ch)
          /\ chan' = [Shut(Dropped(k)) EXCEPT ![ch] = [conv |-> k, sid |-> job[k].sid, st |-> "open"]]
          /\ job' = [job EXCEPT ![k].ch = ch]
    BY <1>8 DEF AcquireNew
  <2>2. pc' = [pc EXCEPT ![k] = "send"] BY <1>8 DEF AcquireNew
  <2>3. ch \notin Pooled \cup closing BY <2>1 DEF ChannelsInv, PoolInv
  <2>4. /\ pool' \in Seq(Channels) /\ Len(pool') = Len(Kept(k)) + 1
        /\ Distinct(pool') /\ Elements(pool') = stays \cup {ch}
    BY <2>1, <2>3, <1>1, AppendPool
  <2>5. Pooled' = stays \cup {ch} BY <2>4, <1>5
  <2>. HIDE DEF stays
  <2>6. chan'[ch] = [conv |-> k, sid |-> job[k].sid, st |-> "open"] BY <2>1, <1>6
  <2>7. \A x \in Channels \ {ch} :
          /\ chan'[x].conv = chan[x].conv /\ chan'[x].sid = chan[x].sid
          /\ chan'[x].st = IF x \in Dropped(k) THEN "closed" ELSE chan[x].st
    BY <2>1, <1>6
  <2>8. job[k] \in Job /\ job[k].sid \in RemoteSessions /\ issued[job[k].sid] = k
    BY <1>2 DEF ChannelsInv, TypeOK, TurnInv
  <2>9. TypeOK'
    <3>1. [job[k] EXCEPT !.ch = ch] \in Job BY <2>8 DEF Job
    <3>2. job' = [job EXCEPT ![k] = [job[k] EXCEPT !.ch = ch]] BY <2>1
    <3>3. job' \in [Convs -> Job] BY <3>1, <3>2 DEF ChannelsInv, TypeOK
    <3>4. [conv |-> k, sid |-> job[k].sid, st |-> "open"] \in Channel BY <2>8 DEF Channel
    <3>5. chan' \in [Channels -> Channel] BY <3>4, <2>1, <1>6
    <3>. QED BY <3>3, <3>5, <2>2, <2>4, <1>2 DEF ChannelsInv, TypeOK, Points
  <2>10. PoolInv'
    <3>1. Len(pool') <= MaxOpen BY <2>4, <1>1, <1>3
    <3>2. \A a, b \in Pooled' : chan'[a].conv = chan'[b].conv => a = b
      <4>1. \A a \in stays : a # ch /\ a \in Pooled /\ a \in Channels /\ chan[a].conv # k
        BY <2>3, <1>1, <1>4 DEF OfConv
      <4>2. chan'[ch].conv = k BY <2>6
      <4>. QED BY <4>1, <4>2, <2>5, <2>7 DEF ChannelsInv, PoolInv
    <3>3. \A x \in Pooled' \cup closing' : chan'[x].st # "new"
      BY <2>5, <2>6, <2>7, <1>1, <1>2, <1>4 DEF ChannelsInv, PoolInv, TypeOK
    <3>4. \A x \in Channels : Alive(x)' => x \in Pooled' \cup closing'
      BY <2>5, <2>7, <1>1, <1>2 DEF ChannelsInv, PoolInv, Alive
    <3>. QED BY <3>1, <3>2, <3>3, <3>4, <2>4 DEF PoolInv
  <2>11. \A x \in Channels \ {ch} : chan'[x].st # "new" => chan[x].st # "new"
    BY <2>7, <1>1 DEF ChannelsInv, PoolInv
  <2>12. ChanInv' BY <2>6, <2>7, <2>8, <2>11, <1>2 DEF ChannelsInv, ChanInv
  <2>13. RowInv' BY <1>2 DEF ChannelsInv, RowInv
  <2>14. /\ job'[k].ch = ch /\ job'[k].sid = job[k].sid /\ job'[k].row = job[k].row
         /\ job'[k].sends = job[k].sends /\ pc'[k] = "send"
         /\ \A j \in Convs \ {k} : job'[j] = job[j] /\ pc'[j] = pc[j]
    BY <2>1, <2>2, <2>8 DEF ChannelsInv, TypeOK, Job
  <2>15. TurnInv' BY <2>14, <1>2 DEF ChannelsInv, TurnInv
  <2>16. \A j \in Convs \ {k} : OfConv(j)' \subseteq OfConv(j)
    BY <2>5, <2>6, <2>7, <1>1, <1>4 DEF OfConv
  <2>17. OfConv(k)' = {ch}
    BY <2>3, <2>5, <2>6, <2>7, <1>1, <1>4 DEF OfConv
  <2>18. \A j \in Convs \ {k} : pc[j] \in {"send", "await"} => job[j].ch \in Channels \ {ch}
    BY <2>1 DEF ChannelsInv, HoldInv
  <2>19. HoldInv'
    <3>1. \A x \in Channels \ {ch} : chan[x].st # "new" => chan'[x].st # "new" BY <2>7
    <3>. QED BY <3>1, <2>6, <2>7, <2>14, <2>16, <2>17, <2>18 DEF ChannelsInv, HoldInv
  <2>20. SendInv'
    <3>1. chan'[ch].sid = job[k].sid BY <2>6
    <3>. QED BY <3>1, <2>7, <2>14, <2>16, <2>18, <1>2 DEF ChannelsInv, SendInv
  <2>. QED BY <2>9, <2>10, <2>12, <2>13, <2>15, <2>19, <2>20 DEF ChannelsInv
<1>. QED BY <1>7, <1>8
(* A session ends, and with it, or without it, the conversation's channel.  *)
LEMMA EndingStep ==
  ASSUME ChannelsInv, NEW k \in Convs,
         \/ ApplyAndFinalize(k) \/ Exit(k) \/ Switch(k) \/ EndByRequest(k) \/ FinalizeUndone(k)
  PROVE  ChannelsInv'
<1>. USE DEF Goto, At, EndTurn
<1>1. Discard(OfConv(k)) \/ UNCHANGED poolVars
  BY DEF ApplyAndFinalize, Exit, Switch, EndByRequest, FinalizeUndone
<1>2. /\ PoolInv' /\ pool' \in Seq(Channels) /\ closing' \subseteq Channels /\ chan' = chan
      /\ \A j : OfConv(j)' \subseteq OfConv(j)
  <2>1. CASE Discard(OfConv(k)) BY <2>1, DiscardKeeps
  <2>2. CASE UNCHANGED poolVars
    <3>1. Pooled' = Pooled BY <2>2 DEF Pooled, poolVars
    <3>. QED BY <3>1, <2>2 DEF ChannelsInv, TypeOK, PoolInv, Alive, OfConv, poolVars, Distinct
  <2>. QED BY <1>1, <2>1, <2>2
<1>3. UNCHANGED <<issued, turns, drops, restarts>> /\ ends' \in Nat
  BY DEF ApplyAndFinalize, Exit, Switch, EndByRequest, FinalizeUndone, End, budget, ChannelsInv, TypeOK
<1>4. ChanInv' BY <1>2, <1>3 DEF ChannelsInv, ChanInv
<1>5. session[k] \in Session /\ job[k] \in Job BY DEF ChannelsInv, TypeOK
<1>6. CASE ApplyAndFinalize(k)
  <2>1. /\ session' = [session EXCEPT ![k] = [session[k] EXCEPT !.sid = job[k].sid, !.open = FALSE]]
        /\ pc' = [pc EXCEPT ![k] = "idle"] /\ job' = [job EXCEPT ![k] = NoJob]
        /\ pc[k] = "apply"
    BY <1>6 DEF ApplyAndFinalize
  <2>2. TypeOK'
    <3>1. [session[k] EXCEPT !.sid = job[k].sid, !.open = FALSE] \in Session BY <1>5 DEF Session, Job
    <3>2. NoJob \in Job BY DEF Job, NoJob
    <3>. QED BY <3>1, <3>2, <2>1, <1>2, <1>3 DEF ChannelsInv, TypeOK, Points
  <2>3. RowInv' BY <2>1, <1>3, <1>5 DEF ChannelsInv, TypeOK, RowInv, TurnInv, Session
  <2>4. job'[k] = NoJob /\ pc'[k] = "idle"
        /\ \A j \in Convs \ {k} : job'[j] = job[j] /\ pc'[j] = pc[j] /\ session'[j] = session[j]
    BY <2>1 DEF ChannelsInv, TypeOK
  <2>5. TurnInv' BY <2>4, <1>3 DEF ChannelsInv, TurnInv
  <2>6. HoldInv' BY <2>4, <1>2 DEF ChannelsInv, HoldInv
  <2>7. SendInv' BY <2>4, <1>2 DEF ChannelsInv, SendInv, NoJob
  <2>. QED BY <2>2, <2>3, <2>5, <2>6, <2>7, <1>2, <1>4 DEF ChannelsInv
<1>7. CASE Exit(k) \/ Switch(k) \/ EndByRequest(k) \/ FinalizeUndone(k)
  <2>1. UNCHANGED <<pc, job>> BY <1>7 DEF Exit, Switch, EndByRequest, FinalizeUndone, End
  <2>2. session' = session \/ session' = [session EXCEPT ![k] = [session[k] EXCEPT !.open = FALSE]]
    BY <1>7 DEF Exit, Switch, EndByRequest, FinalizeUndone, End
  <2>3. \A j \in Convs : session'[j].sid = session[j].sid /\ session'[j].row = session[j].row
    BY <2>2 DEF ChannelsInv, TypeOK, Session
  <2>4. TypeOK'
    <3>1. [session[k] EXCEPT !.open = FALSE] \in Session BY <1>5 DEF Session
    <3>. QED BY <3>1, <2>1, <2>2, <1>2, <1>3 DEF ChannelsInv, TypeOK
  <2>5. RowInv' /\ TurnInv' BY <2>1, <2>3, <1>3 DEF ChannelsInv, RowInv, TurnInv
  <2>6. HoldInv' BY <2>1, <1>2 DEF ChannelsInv, HoldInv
  <2>7. SendInv' BY <2>1, <1>2 DEF ChannelsInv, SendInv
  <2>. QED BY <2>4, <2>5, <2>6, <2>7, <1>2, <1>4 DEF ChannelsInv
<1>. QED BY <1>6, <1>7
(* A socket is closed, by the thread that took it or by the network.       *)
LEMMA SocketStep ==
  ASSUME ChannelsInv, NEW ch \in Channels, FinishClose(ch) \/ Drop(ch)
  PROVE  ChannelsInv'
<1>1. /\ chan' = Shut({ch}) /\ UNCHANGED <<pool, session, pc, job, issued, turns, ends, restarts>>
      /\ closing \ {ch} \subseteq closing' /\ closing' \subseteq closing /\ drops' \in Nat
  BY DEF FinishClose, Drop, budget, ChannelsInv, TypeOK
<1>2. /\ chan' \in [Channels -> Channel]
      /\ \A x \in Channels :
           /\ chan'[x].conv = chan[x].conv /\ chan'[x].sid = chan[x].sid
           /\ chan'[x].st = IF x \in {ch} THEN "closed" ELSE chan[x].st
  BY <1>1, ShutFacts DEF ChannelsInv
<1>3. chan[ch].st # "new" BY DEF FinishClose, Drop, Alive, ChannelsInv, PoolInv
<1>4. Pooled' = Pooled /\ Pooled \subseteq Channels
  BY <1>1, PooledTypes DEF Pooled, ChannelsInv, TypeOK
<1>5. \A j : OfConv(j)' = OfConv(j) BY <1>2, <1>4 DEF OfConv
<1>6. TypeOK' BY <1>1, <1>2 DEF ChannelsInv, TypeOK
<1>7. PoolInv'
  <2>1. Distinct(pool') /\ Len(pool') <= MaxOpen BY <1>1 DEF ChannelsInv, PoolInv
  <2>2. \A a, b \in Pooled' : chan'[a].conv = chan'[b].conv => a = b
    BY <1>2, <1>4 DEF ChannelsInv, PoolInv
  <2>3. \A x \in Pooled' \cup closing' : chan'[x].st # "new"
    BY <1>1, <1>2, <1>4 DEF ChannelsInv, PoolInv, TypeOK
  <2>4. \A x \in Channels : Alive(x)' => x \in Pooled' \cup closing'
    BY <1>1, <1>2, <1>4 DEF ChannelsInv, PoolInv, Alive
  <2>. QED BY <2>1, <2>2, <2>3, <2>4 DEF PoolInv
<1>8. ChanInv' BY <1>1, <1>2, <1>3, ZenonT(60) DEF ChannelsInv, ChanInv
<1>9. RowInv' /\ TurnInv' BY <1>1 DEF ChannelsInv, RowInv, TurnInv
<1>10. HoldInv' BY <1>1, <1>2, <1>5, ZenonT(60) DEF ChannelsInv, HoldInv
<1>11. SendInv' BY <1>1, <1>2, <1>5, ZenonT(60) DEF ChannelsInv, SendInv, HoldInv
<1>. QED BY <1>6, <1>7, <1>8, <1>9, <1>10, <1>11 DEF ChannelsInv
(* The reaper takes channels out of the pool.                              *)
LEMMA ReapStep ==
  ASSUME ChannelsInv, Reap
  PROVE  ChannelsInv'
<1>1. PICK S : Discard(S) BY DEF Reap
<1>2. /\ PoolInv' /\ pool' \in Seq(Channels) /\ closing' \subseteq Channels /\ chan' = chan
      /\ \A j : OfConv(j)' \subseteq OfConv(j)
  BY <1>1, DiscardKeeps
<1>3. UNCHANGED <<session, pc, job, issued, turns, ends, drops, restarts>> BY DEF Reap, budget
<1>4. TypeOK' BY <1>2, <1>3 DEF ChannelsInv, TypeOK
<1>5. ChanInv' /\ RowInv' /\ TurnInv' BY <1>2, <1>3 DEF ChannelsInv, ChanInv, RowInv, TurnInv
<1>6. HoldInv' BY <1>2, <1>3 DEF ChannelsInv, HoldInv
<1>7. SendInv' BY <1>2, <1>3 DEF ChannelsInv, SendInv
<1>. QED BY <1>2, <1>4, <1>5, <1>6, <1>7 DEF ChannelsInv
(* The process starts again, with the rows it committed.                   *)
LEMMA RestartStep ==
  ASSUME ChannelsInv, Restart
  PROVE  ChannelsInv'
<1>. DEFINE S == {ch \in Channels : chan[ch].st = "open"}
<1>1. /\ pool' = <<>> /\ closing' = {} /\ chan' = Shut(S) /\ restarts' = restarts + 1
      /\ pc' = [k \in Convs |-> "idle"] /\ job' = [k \in Convs |-> NoJob]
      /\ UNCHANGED <<session, issued, turns, ends, drops>>
  BY DEF Restart
<1>2. /\ chan' \in [Channels -> Channel]
      /\ \A x \in Channels :
           /\ chan'[x].conv = chan[x].conv /\ chan'[x].sid = chan[x].sid
           /\ chan'[x].st = IF x \in S THEN "closed" ELSE chan[x].st
  BY <1>1, ShutFacts DEF ChannelsInv
<1>3. Pooled' = {} BY <1>1 DEF Pooled
<1>4. TypeOK'
  <2>1. NoJob \in Job BY DEF NoJob, Job
  <2>. QED BY <2>1, <1>1, <1>2 DEF ChannelsInv, TypeOK, Points
<1>5. PoolInv'
  <2>1. Distinct(pool') /\ Len(pool') <= MaxOpen BY <1>1, ChannelConstants DEF Distinct
  <2>2. \A x \in Channels : ~Alive(x)' BY <1>2 DEF Alive
  <2>. QED BY <2>1, <2>2, <1>1, <1>3 DEF PoolInv
<1>6. ChanInv' BY <1>1, <1>2 DEF ChannelsInv, ChanInv
<1>7. RowInv' BY <1>1 DEF ChannelsInv, RowInv
<1>8. TurnInv' /\ HoldInv' BY <1>1 DEF TurnInv, HoldInv
<1>9. SendInv' BY <1>1 DEF SendInv, NoJob
<1>. QED BY <1>4, <1>5, <1>6, <1>7, <1>8, <1>9 DEF ChannelsInv
-----------------------------------------------------------------------------
(* The theorems.                                                           *)

(* Every step of the pool, the turns and what surrounds them preserves the  *)
(* invariant.                                                              *)
LEMMA ChannelsStep ==
  ASSUME ChannelsInv, [Next]_vars
  PROVE  ChannelsInv'
<1>1. CASE UNCHANGED vars
  <2>1. UNCHANGED <<poolVars, session, pc, job, issued, turns, ends, drops, restarts>>
    BY <1>1 DEF vars, budget
  <2>2. /\ PoolInv' /\ ChanInv' /\ \A k : OfConv(k)' = OfConv(k)
        /\ chan' = chan /\ pool' = pool /\ closing' = closing
    BY <2>1, SocketsKept DEF poolVars
  <2>3. TypeOK' BY <2>1, <2>2 DEF ChannelsInv, TypeOK
  <2>4. RowInv' /\ TurnInv' BY <2>1 DEF ChannelsInv, RowInv, TurnInv
  <2>5. HoldInv' BY <2>1, <2>2 DEF ChannelsInv, HoldInv
  <2>6. SendInv' BY <2>1, <2>2 DEF ChannelsInv, SendInv
  <2>. QED BY <2>2, <2>3, <2>4, <2>5, <2>6 DEF ChannelsInv
<1>2. ASSUME NEW k \in Convs, Step(k) \/ Environment(k)
      PROVE  ChannelsInv'
  BY <1>2, QuietStep, StartStep, HitStep, MissStep, RetryStep, EndingStep DEF Step, Environment
<1>3. ASSUME NEW ch \in Channels, FinishClose(ch) \/ Drop(ch)
      PROVE  ChannelsInv'
  BY <1>3, SocketStep
<1>. QED BY <1>1, <1>2, <1>3, ReapStep, RestartStep DEF Next
(* The invariant holds initially.                                          *)
LEMMA ChannelsInit ==
  ASSUME Init
  PROVE  ChannelsInv
<1>1. TypeOK BY DEF Init, TypeOK, Channel, Session, Job, NoJob, Points
<1>2. Pooled = {} BY DEF Init, Pooled
<1>3. Len(pool) <= MaxOpen BY ChannelConstants DEF Init
<1>4. PoolInv BY <1>2, <1>3 DEF Init, PoolInv, Distinct, Alive
<1>5. ChanInv /\ RowInv /\ TurnInv /\ HoldInv BY DEF Init, ChanInv, RowInv, TurnInv, HoldInv
<1>6. SendInv BY DEF Init, SendInv, NoJob
<1>. QED BY <1>1, <1>4, <1>5, <1>6 DEF ChannelsInv
(* The pool of sockets and the interview turns are consistent in every      *)
(* reachable state.                                                        *)
THEOREM ChannelsCorrect == Spec => []ChannelsInv
<1>1. Init => ChannelsInv BY ChannelsInit
<1>2. ChannelsInv /\ [Next]_vars => ChannelsInv' BY ChannelsStep
<1>. QED BY <1>1, <1>2, PTL DEF Spec
(* Types: no operation pools, closes or stores anything else.              *)
THEOREM ChannelTypes == Spec => []TypeOK
<1>1. ChannelsInv => TypeOK BY DEF ChannelsInv
<1>. QED BY <1>1, ChannelsCorrect, PTL
(* MitraSessionManager: the bound on the pool, one channel per conversation *)
(* and no forgotten socket, whatever is acquired, evicted, reaped, dropped  *)
(* or restarted meanwhile.                                                 *)
THEOREM NoSocketForgotten == Spec => []SocketsAccounted
<1>1. ChannelsInv => SocketsAccounted
  <2>. SUFFICES ASSUME ChannelsInv
                PROVE  \A i, j \in DOMAIN pool : chan[pool[i]].conv = chan[pool[j]].conv => i = j
    BY DEF ChannelsInv, PoolInv, SocketsAccounted
  <2>. QED BY DEF ChannelsInv, PoolInv, Pooled, Distinct
<1>. QED BY <1>1, ChannelsCorrect, PTL
(* acquire: a message goes out on a channel of its own conversation.       *)
THEOREM MessagesStayInTheirInterview == Spec => []OwnInterview
<1>1. ChannelsInv => OwnInterview BY DEF ChannelsInv, HoldInv, ChanInv, OwnInterview
<1>. QED BY <1>1, ChannelsCorrect, PTL
(* handle: a message is sent at most twice, and again only on a channel of  *)
(* the turn's own remote session.                                          *)
THEOREM SentAtMostTwice == Spec => []OneResend
<1>1. ChannelsInv => OneResend
  <2>. SUFFICES ASSUME ChannelsInv, NEW k \in Convs
                PROVE  /\ job[k].sends <= 2
                       /\ At(k, "await") /\ job[k].sends = 2 => chan[job[k].ch].sid = job[k].sid
    BY DEF OneResend
  <2>1. pc[k] \in Points /\ job[k] \in Job BY DEF ChannelsInv, TypeOK
  <2>2. job[k].sends \in Nat BY <2>1 DEF Job
  <2>3. job[k].sends <= 2 BY <2>1, <2>2 DEF ChannelsInv, SendInv, Points
  <2>4. pc[k] = "await" /\ job[k].sends = 2 => chan[job[k].ch].sid = job[k].sid
    BY DEF ChannelsInv, SendInv
  <2>. QED BY <2>3, <2>4 DEF At
<1>. QED BY <1>1, ChannelsCorrect, PTL
(* apply: a stored remote session id is never replaced.                    *)
THEOREM RemoteIdsAreStable == Spec => RemoteIdStable
<1>. DEFINE A == \A k \in Convs : session'[k].sid # session[k].sid =>
       \/ session[k].sid = NoSid /\ session'[k].row = session[k].row /\ session[k].open
       \/ session'[k].row > session[k].row
<1>1. ASSUME ChannelsInv, [Next]_vars
      PROVE  [A]_vars
  <2>1. ASSUME NEW k \in Convs, Apply(k) \/ ApplyAndFinalize(k)
        PROVE  A
    <3>1. /\ pc[k] = "apply" /\ session[k].row = job[k].row /\ session[k].open
          /\ \/ session' = [session EXCEPT ![k].sid = job[k].sid]
             \/ session' = [session EXCEPT ![k].sid = job[k].sid, ![k].open = FALSE]
      BY <2>1 DEF Apply, ApplyAndFinalize, MayApply, At
    <3>2. session[k].sid # NoSid => session[k].sid = job[k].sid
      BY <1>1, <3>1 DEF ChannelsInv, TurnInv
    <3>3. \A j \in Convs : session[j] \in Session BY <1>1 DEF ChannelsInv, TypeOK
    <3>4. session'[k].row = session[k].row /\ session'[k].sid = job[k].sid
      BY <1>1, <3>1, <3>3 DEF ChannelsInv, TypeOK, Session
    <3>5. \A j \in Convs \ {k} : session'[j] = session[j] BY <1>1, <3>1 DEF ChannelsInv, TypeOK
    <3>. QED BY <3>1, <3>2, <3>4, <3>5
  <2>2. ASSUME NEW k \in Convs, StartTurn(k) \/ StartTurnFails(k)
        PROVE  A
    <3>1. \A j \in Convs : session[j] \in Session BY <1>1 DEF ChannelsInv, TypeOK
    <3>2. \/ session'[k] = session[k]
          \/ session'[k] = [row |-> session[k].row + 1, open |-> TRUE, sid |-> NoSid]
      BY <1>1, <2>2 DEF StartTurn, StartTurnFails, ChannelsInv, TypeOK
    <3>3. \A j \in Convs \ {k} : session'[j] = session[j]
      BY <1>1, <2>2 DEF StartTurn, StartTurnFails, ChannelsInv, TypeOK
    <3>4. session[k].row + 1 > session[k].row BY <3>1 DEF Session
    <3>. QED BY <3>2, <3>3, <3>4
  <2>3. ASSUME NEW k \in Convs,
               Exit(k) \/ Switch(k) \/ EndByRequest(k) \/ FinalizeUndone(k)
        PROVE  A
    <3>1. session' = session \/ session' = [session EXCEPT ![k].open = FALSE]
      BY <2>3 DEF Exit, Switch, EndByRequest, FinalizeUndone, End
    <3>2. session \in [Convs -> Session] BY <1>1 DEF ChannelsInv, TypeOK
    <3>3. ASSUME NEW j \in Convs
          PROVE  session'[j].sid = session[j].sid
      <4>. DEFINE closed == [session[j] EXCEPT !.open = FALSE]
      <4>1. closed.sid = session[j].sid BY <3>2 DEF Session
      <4>2. session'[j] = session[j] \/ session'[j] = closed BY <3>1, <3>2
      <4>. QED BY <4>1, <4>2
    <3>. QED BY <3>3
  <2>4. ASSUME NEW k \in Convs,
               \/ AcquireHit(k) \/ AcquireNew(k) \/ AcquireFails(k) \/ Send(k) \/ SendRaises(k)
               \/ Reply(k) \/ ReplyLost(k) \/ Retry(k) \/ SecondLoss(k) \/ ApplyRejected(k)
        PROVE  UNCHANGED session
    BY <2>4 DEF AcquireHit, AcquireNew, AcquireFails, Send, SendRaises, Reply, ReplyLost, Retry,
                SecondLoss, ApplyRejected
  <2>5. ASSUME Reap \/ Restart \/ \E ch \in Channels : FinishClose(ch) \/ Drop(ch)
        PROVE  UNCHANGED session
    BY <2>5 DEF Reap, Restart, FinishClose, Drop
  <2>6. CASE UNCHANGED session BY <2>6
  <2>. HIDE DEF A
  <2>. QED BY <1>1, <2>1, <2>2, <2>3, <2>4, <2>5, <2>6 DEF Next, Step, Environment
<1>. QED BY <1>1, ChannelsCorrect, PTL DEF Spec, RemoteIdStable
=============================================================================
