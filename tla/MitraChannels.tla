---------------------------- MODULE MitraChannels ----------------------------
(***************************************************************************)
(* The web sockets to Mitra and the interview turns that use them.          *)
(*                                                                          *)
(* MitraSessionManager keeps at most one MitraChannel per conversation, in  *)
(* the order of their last use, and no more than MaxOpen.  A turn of an     *)
(* interview (RemoteFlowAgentHandler.handle) acquires the channel of its    *)
(* conversation, sends the user's message and waits for the reply; if the   *)
(* channel is closed under it, it opens another one and sends once more.    *)
(* Meanwhile sessions end and close their channel, the reaper and the LRU   *)
(* bound close others, the network drops some, and the process restarts.    *)
(*                                                                          *)
(* The turn lock (TurnPipeline) admits one turn per conversation, so a      *)
(* conversation is the process.  MitraSessionManager._lock is held through  *)
(* the whole of acquire, the connect and the handshake included.            *)
(***************************************************************************)
EXTENDS Naturals, Sequences, FiniteSets

CONSTANTS
  Convs,           \* conversations
  Channels,        \* MitraChannel objects that may be created
  RemoteSessions,  \* ids Mitra's generate_session may hand out
  NoConv, NoChannel, NoSid,
  MaxOpen,         \* mitra_max_open_channels
  MaxTurns,        \* bound: interview turns
  MaxEnds,         \* bound: sessions ended by an exit, a switch or a request
  MaxDrops,        \* bound: connections the network drops
  MaxRestarts      \* bound: restarts of the process

ASSUME ChannelConstants ==
  /\ NoConv \notin Convs /\ NoChannel \notin Channels /\ NoSid \notin RemoteSessions
  /\ MaxOpen \in Nat \ {0}
  /\ MaxTurns \in Nat /\ MaxEnds \in Nat /\ MaxDrops \in Nat /\ MaxRestarts \in Nat

VARIABLES
  pool,      \* _chans: the pooled channels, least recently used first
  chan,      \* channel -> its conversation, the remote session it authenticated, its state
  closing,   \* channels taken out of the pool and about to be closed
  session,   \* conversation -> its newest agent_sessions row
  pc, job,   \* conversation -> program point and locals of its turn
  issued,    \* Mitra: remote session -> conversation it was generated for
  turns, ends, drops, restarts   \* counters for the bounds

poolVars == <<pool, chan, closing>>
budget == <<turns, ends, drops, restarts>>
vars == <<poolVars, session, pc, job, issued, budget>>

Points == {"idle", "acquire", "send", "await", "apply"}
Channel == [conv : Convs \cup {NoConv}, sid : RemoteSessions \cup {NoSid},
            st : {"new", "open", "closed"}]
Session == [row : Nat, open : BOOLEAN, sid : RemoteSessions \cup {NoSid}]
Job == [row : Nat, sid : RemoteSessions \cup {NoSid},
        ch : Channels \cup {NoChannel}, sends : Nat]
NoJob == [row |-> 0, sid |-> NoSid, ch |-> NoChannel, sends |-> 0]

TypeOK ==
  /\ pool \in Seq(Channels) /\ closing \subseteq Channels
  /\ chan \in [Channels -> Channel]
  /\ session \in [Convs -> Session]
  /\ pc \in [Convs -> Points] /\ job \in [Convs -> Job]
  /\ issued \in [RemoteSessions -> Convs \cup {NoConv}]
  /\ turns \in Nat /\ ends \in Nat /\ drops \in Nat /\ restarts \in Nat

Init ==
  /\ pool = <<>> /\ closing = {}
  /\ chan = [ch \in Channels |-> [conv |-> NoConv, sid |-> NoSid, st |-> "new"]]
  /\ session = [k \in Convs |-> [row |-> 0, open |-> FALSE, sid |-> NoSid]]
  /\ pc = [k \in Convs |-> "idle"] /\ job = [k \in Convs |-> NoJob]
  /\ issued = [s \in RemoteSessions |-> NoConv]
  /\ turns = 0 /\ ends = 0 /\ drops = 0 /\ restarts = 0
-----------------------------------------------------------------------------
(* The pool.                                                               *)

Pooled == {pool[i] : i \in DOMAIN pool}
Alive(ch) == chan[ch].st = "open"
OfAnyConv(k) == Pooled               \* variant: the pool is not looked up by conversation
OfConv(k) == {ch \in Pooled : chan[ch].conv = k}
(* A filter of the pool; a recursive function, which the proofs can unfold. *)
Without(S) ==
  LET kept[n \in 0..Len(pool)] ==
        IF n = 0 THEN <<>>
        ELSE IF pool[n] \in S THEN kept[n - 1] ELSE Append(kept[n - 1], pool[n])
  IN  kept[Len(pool)]
Shut(S) == [ch \in Channels |-> IF ch \in S THEN [chan[ch] EXCEPT !.st = "closed"] ELSE chan[ch]]

(* close() and _reap_once: out of the pool under the lock, closed after it. *)
DiscardUnclosed(S) ==                \* variant: the popped channel is not closed
  /\ pool' = Without(S)
  /\ UNCHANGED <<chan, closing>>
Discard(S) ==
  /\ pool' = Without(S)
  /\ closing' = closing \cup (S \cap Pooled)
  /\ UNCHANGED chan
FinishClose(ch) ==
  /\ ch \in closing
  /\ chan' = Shut({ch})
  /\ closing' = closing \ {ch}
  /\ UNCHANGED <<pool, session, pc, job, issued, budget>>

Goto(k, p) == pc' = [pc EXCEPT ![k] = p]
At(k, p) == pc[k] = p
EndTurn(k) == Goto(k, "idle") /\ job' = [job EXCEPT ![k] = NoJob]
-----------------------------------------------------------------------------
(* A turn of an interview.                                                 *)

(* open_for attached or created the session row; on its first turn the      *)
(* handler has Mitra generate a remote session, which is stored only when   *)
(* the turn succeeds.                                                      *)
StartTurn(k) ==
  /\ At(k, "idle") /\ turns < MaxTurns
  /\ LET row == IF session[k].open THEN session[k]
                ELSE [row |-> session[k].row + 1, open |-> TRUE, sid |-> NoSid]
     IN  /\ session' = [session EXCEPT ![k] = row]
         /\ \E s \in IF row.sid # NoSid THEN {row.sid}
                     ELSE {f \in RemoteSessions : issued[f] = NoConv} :
              /\ job' = [job EXCEPT ![k] = [NoJob EXCEPT !.row = row.row, !.sid = s]]
              /\ issued' = [issued EXCEPT ![s] = k]
  /\ turns' = turns + 1
  /\ Goto(k, "acquire")
  /\ UNCHANGED <<poolVars, ends, drops, restarts>>
(* upsert_profile or generate_session raises: the row stays, without ids.   *)
StartTurnFails(k) ==
  /\ At(k, "idle") /\ turns < MaxTurns /\ ~session[k].open
  /\ session' = [session EXCEPT ![k] = [row |-> @.row + 1, open |-> TRUE, sid |-> NoSid]]
  /\ turns' = turns + 1
  /\ UNCHANGED <<poolVars, pc, job, issued, ends, drops, restarts>>

AcquireHit(k) ==
  /\ At(k, "acquire")
  /\ \E ch \in OfConv(k) :
       /\ Alive(ch)
       /\ pool' = Append(Without({ch}), ch)
       /\ job' = [job EXCEPT ![k].ch = ch]
  /\ Goto(k, "send")
  /\ UNCHANGED <<chan, closing, session, issued, budget>>

(* A miss: a dead channel is dropped, then _evict_if_needed makes room.     *)
NewestOf(n, p) == SubSeq(p, IF Len(p) > n THEN Len(p) - n + 1 ELSE 1, Len(p))
Kept(k) == NewestOf(MaxOpen - 1, Without(OfConv(k)))
Dropped(k) == Pooled \ {Kept(k)[i] : i \in DOMAIN Kept(k)}
Miss(k) == At(k, "acquire") /\ \A ch \in OfConv(k) : ~Alive(ch)
AcquireNew(k) ==
  /\ Miss(k)
  /\ \E ch \in Channels :
       /\ chan[ch].st = "new"
       /\ pool' = Append(Kept(k), ch)
       /\ chan' = [Shut(Dropped(k)) EXCEPT
                     ![ch] = [conv |-> k, sid |-> job[k].sid, st |-> "open"]]
       /\ job' = [job EXCEPT ![k].ch = ch]
  /\ Goto(k, "send")
  /\ UNCHANGED <<closing, session, issued, budget>>
(* The connect or the handshake raises: nothing is pooled, the turn fails.  *)
AcquireFailsPooled(k) ==             \* variant: the entry is reserved before the connect
  /\ Miss(k)
  /\ pool' = Append(Kept(k), NoChannel)
  /\ chan' = Shut(Dropped(k))
  /\ EndTurn(k)
  /\ UNCHANGED <<closing, session, issued, budget>>
AcquireFails(k) ==
  /\ Miss(k)
  /\ pool' = Kept(k)
  /\ chan' = Shut(Dropped(k))
  /\ EndTurn(k)
  /\ UNCHANGED <<closing, session, issued, budget>>

Send(k) ==
  /\ At(k, "send")
  /\ job' = [job EXCEPT ![k].sends = @ + 1]
  /\ Goto(k, "await")
  /\ UNCHANGED <<poolVars, session, issued, budget>>
(* Writing to a closed socket may raise; handle does not catch that.       *)
SendRaises(k) ==
  /\ At(k, "send") /\ ~Alive(job[k].ch)
  /\ EndTurn(k)
  /\ UNCHANGED <<poolVars, session, issued, budget>>

(* The reply arrived, or a timeout was recovered (possible only when the    *)
(* row already had its remote ids).                                        *)
Reply(k) ==
  /\ At(k, "await")
  /\ Alive(job[k].ch) \/ session[k].sid # NoSid
  /\ Goto(k, "apply")
  /\ UNCHANGED <<poolVars, session, job, issued, budget>>
(* A timeout that was not recovered, an error frame, or a completion poll   *)
(* that raises.                                                            *)
ReplyLostResent(k) ==                \* variant: a timeout is retried, without a count
  /\ At(k, "await")
  /\ IF Alive(job[k].ch) THEN Goto(k, "send") /\ job' = [job EXCEPT ![k].sends = 0]
     ELSE EndTurn(k)
  /\ UNCHANGED <<poolVars, session, issued, budget>>
ReplyLost(k) ==
  /\ At(k, "await")
  /\ EndTurn(k)
  /\ UNCHANGED <<poolVars, session, issued, budget>>
(* MitraChannelClosed: one attempt to start over.  What reacquire takes     *)
(* from the pool is this dead channel, so its close() has nothing to do.    *)
RetryForEver(k) ==                   \* variant: every MitraChannelClosed is retried
  /\ At(k, "await") /\ ~Alive(job[k].ch)
  /\ pool' = Without(OfConv(k))
  /\ Goto(k, "acquire")
  /\ UNCHANGED <<chan, closing, session, job, issued, budget>>
Retry(k) ==
  /\ At(k, "await") /\ ~Alive(job[k].ch) /\ job[k].sends = 1
  /\ pool' = Without(OfConv(k))
  /\ Goto(k, "acquire")
  /\ UNCHANGED <<chan, closing, session, job, issued, budget>>
SecondLoss(k) ==
  /\ At(k, "await") /\ ~Alive(job[k].ch) /\ job[k].sends > 1
  /\ EndTurn(k)
  /\ UNCHANGED <<poolVars, session, issued, budget>>
(* handle_turn stores the remote ids with the reply; apply refuses when the *)
(* row was ended meanwhile.  The interview may be over: _finalize closes    *)
(* the channel and the row ends.                                           *)
MayApplyAnyRow(k) == TRUE            \* variant: the UPDATE goes to the newest row, unguarded
MayApply(k) == session[k].row = job[k].row /\ session[k].open
Apply(k) ==
  /\ At(k, "apply") /\ MayApply(k)
  /\ session' = [session EXCEPT ![k].sid = job[k].sid]
  /\ EndTurn(k)
  /\ UNCHANGED <<poolVars, issued, budget>>
ApplyAndFinalize(k) ==
  /\ At(k, "apply") /\ MayApply(k)
  /\ session' = [session EXCEPT ![k].sid = job[k].sid, ![k].open = FALSE]
  /\ Discard(OfConv(k))
  /\ EndTurn(k)
  /\ UNCHANGED <<issued, budget>>
ApplyRejected(k) ==
  /\ At(k, "apply") /\ ~MayApply(k)
  /\ EndTurn(k)
  /\ UNCHANGED <<poolVars, session, issued, budget>>
-----------------------------------------------------------------------------
(* What ends a session or a channel from outside the turn.                 *)

End(k) ==
  /\ session[k].open /\ ends < MaxEnds
  /\ session' = [session EXCEPT ![k].open = FALSE]
  /\ ends' = ends + 1
  /\ UNCHANGED <<pc, job, issued, turns, drops, restarts>>
(* An exit command in a turn: _exit_to_default abandons the session.       *)
Exit(k) == At(k, "idle") /\ End(k) /\ UNCHANGED poolVars
(* open_for for another agent: _close_remote_channel is called.            *)
Switch(k) == At(k, "idle") /\ End(k) /\ Discard(OfConv(k))
(* The finalize, abandon and reset requests, at any moment of a turn.       *)
EndByRequest(k) == End(k) /\ Discard(OfConv(k))
(* A finalize request whose transaction is rolled back after the close.    *)
FinalizeUndone(k) ==
  /\ session[k].open /\ ends < MaxEnds
  /\ Discard(OfConv(k))
  /\ ends' = ends + 1
  /\ UNCHANGED <<session, pc, job, issued, turns, drops, restarts>>

(* The reader thread of a channel ends.                                    *)
Drop(ch) ==
  /\ Alive(ch) /\ drops < MaxDrops
  /\ chan' = Shut({ch})
  /\ drops' = drops + 1
  /\ UNCHANGED <<pool, closing, session, pc, job, issued, turns, ends, restarts>>
(* _reap_once: every dead channel and some that were idle for so long that  *)
(* no turn uses them.                                                      *)
InUse == {job[k].ch : k \in {j \in Convs : pc[j] \in {"send", "await"}}}
Reap ==
  /\ \E S \in SUBSET (Pooled \ InUse) :
       LET stale == S \cup {ch \in Pooled : ~Alive(ch)}
       IN  stale # {} /\ Discard(stale)
  /\ UNCHANGED <<session, pc, job, issued, budget>>
Restart ==
  /\ restarts < MaxRestarts
  /\ pool' = <<>> /\ closing' = {}
  /\ chan' = Shut({ch \in Channels : chan[ch].st = "open"})
  /\ pc' = [k \in Convs |-> "idle"] /\ job' = [k \in Convs |-> NoJob]
  /\ restarts' = restarts + 1
  /\ UNCHANGED <<session, issued, turns, ends, drops>>
-----------------------------------------------------------------------------
Step(k) ==
  \/ AcquireHit(k) \/ AcquireNew(k) \/ AcquireFails(k)
  \/ Send(k) \/ SendRaises(k)
  \/ Reply(k) \/ ReplyLost(k) \/ Retry(k) \/ SecondLoss(k)
  \/ Apply(k) \/ ApplyAndFinalize(k) \/ ApplyRejected(k)
Environment(k) ==
  StartTurn(k) \/ StartTurnFails(k) \/ Exit(k) \/ Switch(k) \/ EndByRequest(k) \/ FinalizeUndone(k)
Next ==
  \/ \E k \in Convs : Step(k) \/ Environment(k)
  \/ \E ch \in Channels : FinishClose(ch) \/ Drop(ch)
  \/ Reap
  \/ Restart

Spec == Init /\ [][Next]_vars

(* The threads that run turns and closes are scheduled; connects, sends and *)
(* waits have timeouts.                                                    *)
Fairness ==
  /\ \A k \in Convs : WF_vars(Step(k))
  /\ \A ch \in Channels : WF_vars(FinishClose(ch))
FairSpec == Spec /\ Fairness
-----------------------------------------------------------------------------
(* Properties.                                                             *)

(* MitraSessionManager: whatever acquire, reacquire, close, the reaper and  *)
(* failed handshakes do, at most MaxOpen channels are pooled, and one per   *)
(* conversation; and a channel that is open, a socket and a reader thread,  *)
(* is in the pool or some thread is about to close it: none is forgotten.   *)
SocketsAccounted ==
  /\ Len(pool) <= MaxOpen
  /\ \A i, j \in DOMAIN pool : chan[pool[i]].conv = chan[pool[j]].conv => i = j
  /\ \A ch \in Channels : Alive(ch) => ch \in Pooled \cup closing

(* acquire: a user's message only ever goes out on a channel of its own     *)
(* conversation, authenticated with a session Mitra generated for it.      *)
OwnInterview == \A k \in Convs : pc[k] \in {"send", "await"} =>
  chan[job[k].ch].conv = k /\ issued[chan[job[k].ch].sid] = k

(* handle: a message is sent at most twice, the second time on a channel    *)
(* that this turn opened itself for its own session.                       *)
OneResend == \A k \in Convs :
  /\ job[k].sends <= 2
  /\ At(k, "await") /\ job[k].sends = 2 => chan[job[k].ch].sid = job[k].sid

(* apply: once the remote session id of a row is stored, it never changes,  *)
(* and the row that gets it is the one the turn began with.                *)
RemoteIdStable ==
  [][\A k \in Convs : session'[k].sid # session[k].sid =>
       \/ session[k].sid = NoSid /\ session'[k].row = session[k].row /\ session[k].open
       \/ session'[k].row > session[k].row]_vars

(* handle: every interview turn ends, whoever closes its channels.         *)
TurnsEnd == \A k \in Convs : ~At(k, "idle") ~> At(k, "idle")

(* orchestration.py:303-307: when a session is abandoned "its Mitra socket  *)
(* has to go with it or the pool would hand the new agent a channel still   *)
(* authenticated against the old agent's remote session"; and               *)
(* session_manager.py:14-16: "the caller's fresh remote_session_id flows    *)
(* straight into the new channel's authenticate frame".  A message goes out *)
(* on the remote session that its turn will store, poll and finalise.       *)
SendsOnOwnSession == \A k \in Convs :
  At(k, "await") => chan[job[k].ch].sid = job[k].sid
=============================================================================
