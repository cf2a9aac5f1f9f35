------------------------------ MODULE AdminProofs ------------------------------
(***************************************************************************)
(* The configuration tables, the registry and the sidebar, for any number   *)
(* of threads, agents, scopes, configurations, requests and process starts. *)
(***************************************************************************)
EXTENDS AdminProps, FiniteSetTheorems, SequenceTheorems, TLAPS

-----------------------------------------------------------------------------
(* The inductive invariant.                                                 *)

Keys == {AgentKey(a) : a \in Agents} \cup {CapKey(s) : s \in Scopes}
        \cup {ConfigKey(a, s, v) : a \in Agents, s \in Scopes, v \in Nat \ {0}}
        \cup {MemberKey(i, a) : i \in Nat \ {0}, a \in Agents}
GoodRow(k, r) ==
  /\ k[1] = "agent" => r \in AgentRow
  /\ k[1] = "config" => r \in ConfigRow /\ ScopeOf(r.content) = k[3]
  /\ k[1] = "cap" => r \in CapRow
  /\ k[1] = "member" => r \in MemberRow

\* A table, and what a transaction has written: it deletes capabilities and members only.
Rows(f) == f = [k \in DOMAIN f |-> f[k]] /\ IsFiniteSet(DOMAIN f) /\ DOMAIN f \subseteq Keys
Table(f) == Rows(f) /\ \A k \in DOMAIN f : GoodRow(k, f[k])
Written(f) ==
  Rows(f) /\ \A k \in DOMAIN f : GoodRow(k, f[k]) \/ (f[k] = Gone /\ k[1] \in {"cap", "member"})

Served == {f \in Maps(Agents, Contents) : \A a \in DOMAIN f : ScopeOf(f[a]) = DefaultScope}
Read == [snap : Served, max : Nat, at : Nat]
ThreadState ==
  [pc : {"idle", "run", "reload", "store", "resolve", "lock", "seed", "seed_insert", "on", "commit",
         "number", "insert", "update", "delete", "cascade", "clear", "put_insert"} \cup SyncSteps,
   req : Requests \cup {NoRequest}, proc : Processes, alone : BOOLEAN, began : Nat,
   wait : SUBSET Keys, back : {"idle", "run"}, n : Nat, adopt : BOOLEAN, read : Read,
   todo : Seq(Agents)]
\* A cached entry: the registry's version, the caller and the agent.
Entries(cache) ==
  /\ cache = [e \in DOMAIN cache |-> cache[e]]
  /\ \A e \in DOMAIN cache :
       /\ e = <<e[1], e[2], e[3]>> /\ e[1] \in Nat /\ e[2] \in Callers
       /\ Applies(ScopeOf(cache[e]), e[2])
RegistryState(r) ==
  /\ r \in [snap : Served, max : Nat, at : Nat, version : Nat, cache : {r.cache}]
  /\ Entries(r.cache)

\* Which request a program point belongs to.
InRequest(x) ==
  /\ x.pc # "idle" => x.req \in Requests
  /\ x.pc \in {"lock", "seed", "seed_insert"} \cup SyncSteps => x.req.kind = "boot"
  /\ x.pc = "run" => x.req.kind # "boot"
  /\ x.pc = "resolve" => x.req.kind = "turn"
  /\ x.pc = "on" => x.req.kind = "activate"
  /\ x.pc = "number" => x.req.kind = "create"
  /\ x.pc = "insert" => x.req.kind \in {"create", "cap_create"}
  /\ x.pc = "commit" => x.req.kind \in {"activate", "create", "status",
                                        "cap_create", "cap_update", "cap_delete"}
  /\ x.pc = "update" => x.req.kind = "cap_update"
  /\ x.pc \in {"delete", "cascade"} => x.req.kind = "cap_delete"
  /\ x.pc \in {"clear", "put_insert"} => x.req.kind = "put"
  /\ x.back = "run" => x.pc \in {"reload", "store"} /\ x.req.kind # "boot"

\* What a thread holds at a program point.
AtAgent == {"compare", "reclaim", "reactivate", "renumber", "retire", "adopt"}
Holds(x) ==
  /\ x.pc = "resolve" => x.req.agent \in DOMAIN x.read.snap
  /\ x.pc \in AtAgent => x.todo # <<>>
  /\ x.pc \in SyncSteps /\ x.todo # <<>> => Head(x.todo) \in DOMAIN x.req.yaml
  /\ x.pc \in {"retire", "adopt"} => x.n # 0
  /\ x.pc = "insert" /\ x.req.kind = "create" => x.n # 0
  /\ x.pc \in {"clear", "put_insert"} => x.n # 0 /\ Len(x.todo) <= Len(x.req.agents)
  /\ x.pc = "seed_insert" => x.n # 0 /\ Len(x.todo) <= Len(SeedList)

\* Between transactions, and in one that writes agents and configurations, or capabilities.
Resting(x) == x.pc \in {"idle", "reload", "store", "resolve", "lock", "seed"}
ConfigWriter(x) == x.req.kind \in {"activate", "create", "status"} \/ x.pc \in SyncSteps
Tables(x) == IF ConfigWriter(x) THEN {"agent", "config"} ELSE {"cap", "member"}
Started(x, table) ==
  \/ x.req.kind = "activate" /\ \E k \in DOMAIN table : IsConfig(k, x.req.agent) /\ k[4] = x.req.version
  \/ x.req.kind \in {"create", "status"} /\ AgentKey(x.req.agent) \in DOMAIN table

ThreadsOK ==
  /\ th \in [Threads -> ThreadState]
  /\ \A t \in Threads : InRequest(th[t]) /\ Holds(th[t])
TablesOK ==
  /\ Table(db)
  /\ pend = [t \in Threads |-> pend[t]]
  /\ \A t \in Threads :
       /\ Written(pend[t])
       /\ \A k \in DOMAIN pend[t] \cup th[t].wait : k[1] \in Tables(th[t])
       /\ Resting(th[t]) => pend[t] = NoRows /\ th[t].wait = {}
       /\ th[t].pc = "run" /\ DOMAIN pend[t] # {} => Started(th[t], db)
Reasons == {"older read", "reload failed", "other process", "older agent"}
RegistriesOK ==
  /\ reg = [p \in Processes |-> reg[p]] /\ \A p \in Processes : RegistryState(reg[p])
  /\ late \in [Processes -> SUBSET Reasons]
  /\ serving \in Processes /\ started \in Processes /\ spent \in 0..MaxActivities
  /\ commits \in Nat /\ made \in Nat
TypesInv == ThreadsOK /\ TablesOK /\ RegistriesOK

-----------------------------------------------------------------------------
(* Keys, rows and tables.                                                   *)

LEMMA KeyKinds ==
  ASSUME NEW k \in Keys
  PROVE  /\ k[1] \in {"agent", "config", "cap", "member"}
         /\ k[1] = "agent" => \E a \in Agents : k = AgentKey(a)
         /\ k[1] = "cap" => \E s \in Scopes : k = CapKey(s)
         /\ k[1] = "config" => /\ k = ConfigKey(k[2], k[3], k[4])
                               /\ k[2] \in Agents /\ k[3] \in Scopes /\ k[4] \in Nat \ {0}
         /\ k[1] = "member" => k = MemberKey(k[2], k[3]) /\ k[2] \in Nat \ {0} /\ k[3] \in Agents
<1>1. CASE \E a \in Agents : k = AgentKey(a) BY <1>1 DEF AgentKey
<1>2. CASE \E s \in Scopes : k = CapKey(s) BY <1>2 DEF CapKey
<1>3. CASE \E a \in Agents, s \in Scopes, v \in Nat \ {0} : k = ConfigKey(a, s, v)
  BY <1>3 DEF ConfigKey
<1>4. CASE \E i \in Nat \ {0}, a \in Agents : k = MemberKey(i, a) BY <1>4 DEF MemberKey
<1>. QED BY <1>1, <1>2, <1>3, <1>4 DEF Keys

LEMMA KeysTyped ==
  /\ \A a \in Agents : AgentKey(a) \in Keys /\ AgentKey(a)[1] = "agent" /\ AgentKey(a)[2] = a
  /\ \A s \in Scopes : CapKey(s) \in Keys /\ CapKey(s)[1] = "cap" /\ CapKey(s)[2] = s
  /\ \A a \in Agents, s \in Scopes, v \in Nat \ {0} :
       /\ ConfigKey(a, s, v) \in Keys /\ ConfigKey(a, s, v)[1] = "config"
       /\ ConfigKey(a, s, v)[2] = a /\ ConfigKey(a, s, v)[3] = s /\ ConfigKey(a, s, v)[4] = v
  /\ \A i \in Nat \ {0}, a \in Agents :
       /\ MemberKey(i, a) \in Keys /\ MemberKey(i, a)[1] = "member"
       /\ MemberKey(i, a)[2] = i /\ MemberKey(i, a)[3] = a
<1>1. \A a \in Agents : AgentKey(a) \in Keys /\ AgentKey(a)[1] = "agent" /\ AgentKey(a)[2] = a
  BY DEF AgentKey, Keys
<1>2. \A s \in Scopes : CapKey(s) \in Keys /\ CapKey(s)[1] = "cap" /\ CapKey(s)[2] = s
  BY DEF CapKey, Keys
<1>3. \A a \in Agents, s \in Scopes, v \in Nat \ {0} :
       /\ ConfigKey(a, s, v) \in Keys /\ ConfigKey(a, s, v)[1] = "config"
       /\ ConfigKey(a, s, v)[2] = a /\ ConfigKey(a, s, v)[3] = s /\ ConfigKey(a, s, v)[4] = v
  BY DEF ConfigKey, Keys
<1>4. \A i \in Nat \ {0}, a \in Agents :
       /\ MemberKey(i, a) \in Keys /\ MemberKey(i, a)[1] = "member"
       /\ MemberKey(i, a)[2] = i /\ MemberKey(i, a)[3] = a
  BY DEF MemberKey, Keys
<1>. QED BY <1>1, <1>2, <1>3, <1>4

LEMMA RowNotGone ==
  ASSUME NEW k \in Keys, NEW r, GoodRow(k, r)
  PROVE  r # Gone
<1>1. CASE k[1] = "agent" BY <1>1 DEF GoodRow, AgentRow, Gone
<1>2. CASE k[1] = "config" BY <1>2 DEF GoodRow, ConfigRow, Gone
<1>3. CASE k[1] = "cap" BY <1>3 DEF GoodRow, CapRow, Gone
<1>4. CASE k[1] = "member" BY <1>4 DEF GoodRow, MemberRow, Gone
<1>. QED BY <1>1, <1>2, <1>3, <1>4, KeyKinds

(* Over and Live, key by key.                                               *)
LEMMA OverRows ==
  ASSUME NEW f, NEW g
  PROVE  /\ DOMAIN Over(f, g) = DOMAIN f \cup DOMAIN g
         /\ \A k \in DOMAIN f : Over(f, g)[k] = f[k]
         /\ \A k \in (DOMAIN g) \ (DOMAIN f) : Over(f, g)[k] = g[k]
         /\ Over(f, g) = [k \in DOMAIN Over(f, g) |-> Over(f, g)[k]]
BY DEF Over

LEMMA LiveRows ==
  ASSUME NEW f
  PROVE  /\ DOMAIN Live(f) = {k \in DOMAIN f : f[k] # Gone}
         /\ \A k \in DOMAIN Live(f) : Live(f)[k] = f[k]
         /\ Live(f) = [k \in DOMAIN Live(f) |-> Live(f)[k]]
BY DEF Live, Restrict

LEMMA OnlyRow ==
  ASSUME NEW k, NEW r
  PROVE  DOMAIN Only(k, r) = {k} /\ Only(k, r)[k] = r /\ Only(k, r) = [j \in DOMAIN Only(k, r) |-> Only(k, r)[j]]
BY DEF Only

LEMMA OnlyWritten ==
  ASSUME NEW k \in Keys, NEW r, GoodRow(k, r)
  PROVE  Written(Only(k, r))
<1>. DEFINE f == Only(k, r)
<1>1. IsFiniteSet({k}) BY FS_Singleton
<1>2. DOMAIN f = {k} /\ f[k] = r /\ f = [j \in DOMAIN f |-> f[j]] BY OnlyRow
<1>. HIDE DEF f
<1>3. IsFiniteSet(DOMAIN f) /\ DOMAIN f \subseteq Keys BY <1>1, <1>2
<1>4. Rows(f) BY <1>2, <1>3, Zenon DEF Rows
<1>5. Written(f) BY <1>2, <1>4 DEF Written
<1>. QED BY <1>5 DEF f

LEMMA OverWritten ==
  ASSUME NEW f, NEW g, Written(f), Written(g)
  PROVE  Written(Over(f, g))
<1>. DEFINE h == Over(f, g)
<1>0. /\ DOMAIN h = DOMAIN f \cup DOMAIN g /\ h = [k \in DOMAIN h |-> h[k]]
      /\ \A k \in DOMAIN f : h[k] = f[k]
      /\ \A k \in (DOMAIN g) \ (DOMAIN f) : h[k] = g[k]
  BY DEF Over
<1>. HIDE DEF h
<1>1. IsFiniteSet(DOMAIN f \cup DOMAIN g) BY FS_Union DEF Written, Rows
<1>2. DOMAIN h \subseteq Keys BY <1>0 DEF Written, Rows
<1>3. ASSUME NEW k \in DOMAIN h
      PROVE  GoodRow(k, h[k]) \/ (h[k] = Gone /\ k[1] \in {"cap", "member"})
  <2>1. CASE k \in DOMAIN f BY <2>1, <1>0 DEF Written
  <2>2. CASE k \notin DOMAIN f BY <2>2, <1>0 DEF Written
  <2>. QED BY <2>1, <2>2
<1>4. Written(h) BY <1>0, <1>1, <1>2, <1>3 DEF Written, Rows
<1>. QED BY <1>4 DEF h

LEMMA TableWritten ==
  ASSUME NEW f, Table(f)
  PROVE  Written(f)
BY DEF Table, Written

LEMMA NoRowsWritten == Written(NoRows) /\ Table(NoRows) /\ DOMAIN NoRows = {}
<1>1. NoRows = [k \in DOMAIN NoRows |-> NoRows[k]] /\ DOMAIN NoRows = {} BY DEF NoRows
<1>2. IsFiniteSet({}) BY FS_EmptySet
<1>. QED BY <1>1, <1>2 DEF Written, Table, Rows

LEMMA EmptyIsNoRows ==
  ASSUME NEW f, f = [k \in DOMAIN f |-> f[k]], DOMAIN f = {}
  PROVE  f = NoRows
BY DEF NoRows

LEMMA LiveTable ==
  ASSUME NEW f, Written(f)
  PROVE  Table(Live(f))
<1>1. IsFiniteSet(DOMAIN Live(f))
  <2>1. DOMAIN Live(f) \subseteq DOMAIN f BY LiveRows
  <2>. QED BY <2>1, FS_Subset DEF Written, Rows
<1>2. DOMAIN Live(f) \subseteq Keys BY LiveRows DEF Written, Rows
<1>3. \A k \in DOMAIN Live(f) : GoodRow(k, Live(f)[k]) BY LiveRows DEF Written
<1>. QED BY <1>1, <1>2, <1>3, LiveRows DEF Table, Rows

LEMMA ViewTable ==
  ASSUME NEW t \in Threads, Table(db), Written(pend[t])
  PROVE  /\ Table(View(t))
         /\ \A k \in DOMAIN View(t) : View(t)[k] = IF k \in DOMAIN pend[t] THEN pend[t][k] ELSE db[k]
         /\ \A k : k \in DOMAIN View(t) <=>
              \/ k \in DOMAIN pend[t] /\ pend[t][k] # Gone
              \/ k \in (DOMAIN db) \ (DOMAIN pend[t])
<1>. DEFINE f == Over(pend[t], db)
<1>1. Written(f) BY TableWritten, OverWritten
<1>2. Table(View(t)) BY <1>1, LiveTable DEF View
<1>3. DOMAIN View(t) = {k \in DOMAIN f : f[k] # Gone} /\ \A k \in DOMAIN View(t) : View(t)[k] = f[k]
  BY LiveRows DEF View
<1>4. \A k \in DOMAIN f : f[k] = IF k \in DOMAIN pend[t] THEN pend[t][k] ELSE db[k] BY DEF Over
<1>5. \A k \in DOMAIN db : db[k] # Gone BY RowNotGone DEF Table, Rows
<1>6. DOMAIN f = DOMAIN pend[t] \cup DOMAIN db BY OverRows
<1>. QED BY <1>2, <1>3, <1>4, <1>5, <1>6

LEMMA RestrictWritten ==
  ASSUME NEW f, Table(f), NEW S, S \subseteq DOMAIN f
  PROVE  Written(Restrict(f, S)) /\ DOMAIN Restrict(f, S) = S
<1>1. DOMAIN Restrict(f, S) = S /\ \A k \in S : Restrict(f, S)[k] = f[k] BY DEF Restrict
<1>2. Restrict(f, S) = [k \in DOMAIN Restrict(f, S) |-> Restrict(f, S)[k]] BY DEF Restrict
<1>3. IsFiniteSet(S) BY FS_Subset DEF Table, Rows
<1>. QED BY <1>1, <1>2, <1>3 DEF Written, Table, Rows
-----------------------------------------------------------------------------
(* What a step of a thread does to its state and to the tables.              *)

Unwaiting(x) == [x EXCEPT !.wait = {}]
TableChange(t, x) ==
  \/ pend' = [pend EXCEPT ![t] = NoRows] /\ x.wait = {}
  \/ \E rows :
       /\ Written(rows) /\ \A k \in DOMAIN rows : k[1] \in Tables(th[t])
       /\ pend' = [pend EXCEPT ![t] = Over(rows, pend[t])]
       /\ Tables(x) = Tables(th[t]) /\ ~Resting(x) /\ \A k \in x.wait : k[1] \in Tables(x)
       /\ x.pc = "run" => Started(x, db)
  \/ /\ pend' = pend /\ x.wait = {}
     /\ pend[t] = NoRows \/ (~Resting(x) /\ x.pc # "run" /\ Tables(x) = Tables(th[t]))
Effect(t, x) ==
  /\ x \in ThreadState /\ InRequest(x) /\ Holds(x) /\ th' = [th EXCEPT ![t] = x]
  /\ TableChange(t, x)
  /\ \/ db' = db /\ commits' = commits
     \/ /\ db' = View(t) /\ pend' = [pend EXCEPT ![t] = NoRows]
        /\ commits' = IF \E k \in DOMAIN pend[t] : k[1] \in {"agent", "config"}
                      THEN commits + 1 ELSE commits

\* A step that is not one of the reload's.
Onward(y, x) ==
  /\ y.pc \notin {"reload", "store"} /\ x.pc # "store"
  /\ y.pc \in {"seed", "seed_insert"} => x.pc \in {"seed", "seed_insert", "reload"} /\ x.proc = y.proc

LEMMA IdleState == Idle \in ThreadState /\ InRequest(Idle) /\ Holds(Idle) /\ Idle.wait = {} /\ NoRead \in Read
<1>1. NoRows \in Served
  <2>1. NoRows \in [{} -> Contents] BY DEF NoRows
  <2>2. DOMAIN NoRows = {} BY DEF NoRows
  <2>3. NoRows \in Maps(Agents, Contents) BY <2>1 DEF Maps
  <2>. QED BY <2>2, <2>3 DEF Served
<1>2. NoRead \in Read BY <1>1 DEF NoRead, Read
<1>3. 0 \in Processes BY AdminConstants DEF Processes
<1>4. <<>> \in Seq(Agents) OBVIOUS
<1>. QED BY <1>2, <1>3, <1>4 DEF Idle, ThreadState, InRequest, Holds, SyncSteps, AtAgent, NoRequest

LEMMA UnwaitingState ==
  ASSUME NEW x \in ThreadState, InRequest(x), Holds(x)
  PROVE  /\ Unwaiting(x) \in ThreadState /\ InRequest(Unwaiting(x)) /\ Holds(Unwaiting(x))
         /\ Unwaiting(x).wait = {} /\ Unwaiting(x).pc = x.pc /\ Unwaiting(x).proc = x.proc
         /\ Unwaiting(x).req = x.req /\ Unwaiting(x).n = x.n /\ Unwaiting(x).todo = x.todo
         /\ Unwaiting(x).read = x.read /\ Unwaiting(x).back = x.back
         /\ Resting(Unwaiting(x)) = Resting(x) /\ Tables(Unwaiting(x)) = Tables(x)
<1>1. /\ Unwaiting(x) \in ThreadState /\ Unwaiting(x).wait = {} /\ Unwaiting(x).pc = x.pc
      /\ Unwaiting(x).proc = x.proc /\ Unwaiting(x).req = x.req /\ Unwaiting(x).n = x.n
      /\ Unwaiting(x).todo = x.todo /\ Unwaiting(x).read = x.read /\ Unwaiting(x).back = x.back
  BY DEF Unwaiting, ThreadState
<1>2. InRequest(Unwaiting(x)) BY <1>1 DEF InRequest
<1>3. Holds(Unwaiting(x)) BY <1>1 DEF Holds
<1>4. Resting(Unwaiting(x)) = Resting(x) BY <1>1 DEF Resting
<1>5. Tables(Unwaiting(x)) = Tables(x) BY <1>1 DEF Tables, ConfigWriter
<1>. QED BY <1>1, <1>2, <1>3, <1>4, <1>5

LEMMA NotWaiting ==
  ASSUME NEW x \in ThreadState, x.wait = {}
  PROVE  Unwaiting(x) = x
BY DEF Unwaiting, ThreadState

LEMMA ToState ==
  ASSUME NEW t \in Threads, th[t] \in ThreadState,
         NEW p \in {"idle", "run", "reload", "store", "resolve", "lock", "seed", "seed_insert", "on",
                    "commit", "number", "insert", "update", "delete", "cascade", "clear",
                    "put_insert"} \cup SyncSteps
  PROVE  /\ To(t, p) \in ThreadState /\ To(t, p).pc = p /\ To(t, p).proc = th[t].proc
         /\ To(t, p).req = th[t].req /\ To(t, p).n = th[t].n /\ To(t, p).todo = th[t].todo
         /\ To(t, p).read = th[t].read /\ To(t, p).back = th[t].back
         /\ To(t, p).adopt = th[t].adopt
BY DEF To, ThreadState

LEMMA LocalEffect ==
  ASSUME NEW t \in Threads, NEW x \in ThreadState, InRequest(x), Holds(x), Local(t, x),
         pend[t] = NoRows \/ (~Resting(x) /\ x.pc # "run" /\ Tables(x) = Tables(th[t]))
  PROVE  Effect(t, Unwaiting(x))
<1>1. th' = [th EXCEPT ![t] = Unwaiting(x)] BY DEF Local, Go, Unwaiting
<1>2. db' = db /\ commits' = commits /\ pend' = pend BY DEF Local
<1>. QED BY <1>1, <1>2, UnwaitingState DEF Effect, TableChange

LEMMA FinishEffect ==
  ASSUME NEW t \in Threads, Finish(t), pend[t] = NoRows
  PROVE  Effect(t, Idle)
<1>1. Unwaiting(Idle) = Idle BY NotWaiting, IdleState
<1>. QED BY <1>1, LocalEffect, IdleState DEF Finish

LEMMA FailEffect ==
  ASSUME NEW t \in Threads, th[t] \in ThreadState, InRequest(th[t]), Holds(th[t]), Fail(t),
         th[t].back = "idle", th[t].pc \notin {"reload", "store", "seed"}
  PROVE  \E x : Effect(t, x) /\ Onward(th[t], x)
<1>1. db' = db /\ commits' = commits /\ pend' = [pend EXCEPT ![t] = NoRows] BY DEF Fail
<1>2. CASE th[t].pc = "seed_insert"
  <2>. DEFINE x == To(t, "reload")
  <2>1. /\ x \in ThreadState /\ x.pc = "reload" /\ x.req = th[t].req /\ x.back = "idle"
        /\ x.proc = th[t].proc
    BY ToState
  <2>. HIDE DEF x
  <2>2. InRequest(x) BY <2>1, <1>2 DEF InRequest, SyncSteps
  <2>3. Holds(x) BY <2>1 DEF Holds, SyncSteps, AtAgent
  <2>4. th' = [th EXCEPT ![t] = Unwaiting(x)] BY <1>2 DEF Fail, Go, Unwaiting, x
  <2>5. Effect(t, Unwaiting(x)) BY <2>1, <2>2, <2>3, <2>4, <1>1, UnwaitingState DEF Effect, TableChange
  <2>. QED BY <2>1, <2>2, <2>3, <2>5, <1>2, UnwaitingState DEF Onward
<1>3. CASE th[t].pc # "seed_insert"
  <2>0. th' = [th EXCEPT ![t] = Unwaiting(Idle)] BY <1>3 DEF Fail, Go, Unwaiting
  <2>1. th' = [th EXCEPT ![t] = Idle] BY <2>0, NotWaiting, IdleState
  <2>2. Effect(t, Idle) BY <2>1, <1>1, IdleState DEF Effect, TableChange
  <2>3. Idle.pc = "idle" BY DEF Idle
  <2>. QED BY <2>2, <2>3, <1>3 DEF Onward
<1>. QED BY <1>2, <1>3

LEMMA ApplyEffect ==
  ASSUME NEW t \in Threads, th[t] \in ThreadState, InRequest(th[t]), Holds(th[t]),
         th[t].back = "idle", th[t].pc \notin {"reload", "store", "seed"},
         NEW x \in ThreadState, InRequest(x), Holds(x), ~Resting(x), x.pc # "run",
         Tables(x) = Tables(th[t]), th[t].pc = "seed_insert" => x.pc = "seed_insert" /\ x.proc = th[t].proc,
         NEW rows, Written(rows), \A k \in DOMAIN rows : k[1] \in Tables(th[t]), Apply(t, rows, x)
  PROVE  \E y : Effect(t, y) /\ Onward(th[t], y)
<1>1. CASE Refused(t, rows) BY <1>1, FailEffect DEF Apply
<1>2. CASE ~Refused(t, rows)
  <2>1. /\ pend' = [pend EXCEPT ![t] = Over(rows, pend[t])] /\ th' = [th EXCEPT ![t] = Unwaiting(x)]
        /\ db' = db /\ commits' = commits
    BY <1>2 DEF Apply, Go, Unwaiting
  <2>2. Effect(t, Unwaiting(x)) BY <2>1, UnwaitingState DEF Effect, TableChange
  <2>3. Onward(th[t], Unwaiting(x)) BY UnwaitingState DEF Onward, Resting
  <2>. QED BY <2>2, <2>3
<1>. QED BY <1>1, <1>2

LEMMA BlockEffect ==
  ASSUME NEW t \in Threads, th[t] \in ThreadState, InRequest(th[t]), Holds(th[t]), Table(View(t)),
         th[t].back = "idle", ~Resting(th[t]), th[t].pc = "run" => Started(th[t], db),
         NEW held, held \subseteq DOMAIN View(t), \A k \in held : k[1] \in Tables(th[t]),
         NEW keys \in SUBSET Keys, \A k \in keys : k[1] \in Tables(th[t]), Block(t, held, keys)
  PROVE  \E y : Effect(t, y) /\ Onward(th[t], y)
<1>. DEFINE x == [th[t] EXCEPT !.wait = keys]
            rows == Restrict(View(t), held)
<1>1. /\ x \in ThreadState /\ x.pc = th[t].pc /\ x.req = th[t].req /\ x.back = th[t].back
      /\ x.n = th[t].n /\ x.todo = th[t].todo /\ x.read = th[t].read /\ x.proc = th[t].proc
      /\ x.wait = keys
  BY DEF ThreadState
<1>2. th' = [th EXCEPT ![t] = x] BY DEF Block
<1>3. Written(rows) /\ DOMAIN rows = held BY RestrictWritten
<1>4. pend' = [pend EXCEPT ![t] = Over(rows, pend[t])] /\ db' = db /\ commits' = commits BY DEF Block
<1>. HIDE DEF x, rows
<1>5. InRequest(x) BY <1>1 DEF InRequest
<1>6. Holds(x) BY <1>1 DEF Holds
<1>7. Tables(x) = Tables(th[t]) /\ ~Resting(x) BY <1>1 DEF Tables, ConfigWriter, Resting
<1>8. x.pc = "run" => Started(x, db) BY <1>1 DEF Started
<1>9. TableChange(t, x) BY <1>1, <1>3, <1>4, <1>7, <1>8 DEF TableChange
<1>10. Effect(t, x) BY <1>1, <1>2, <1>4, <1>5, <1>6, <1>9 DEF Effect
<1>11. Onward(th[t], x) BY <1>1 DEF Onward, Resting
<1>. QED BY <1>10, <1>11

LEMMA CommitEffect ==
  ASSUME NEW t \in Threads, NEW x \in ThreadState, InRequest(x), Holds(x), Commit(t, x)
  PROVE  Effect(t, Unwaiting(x))
<1>1. /\ th' = [th EXCEPT ![t] = Unwaiting(x)] /\ db' = View(t)
      /\ pend' = [pend EXCEPT ![t] = NoRows]
      /\ commits' = IF \E k \in DOMAIN pend[t] : k[1] \in {"agent", "config"}
                    THEN commits + 1 ELSE commits
  BY DEF Commit, Go, Unwaiting
<1>. QED BY <1>1, UnwaitingState DEF Effect, TableChange
-----------------------------------------------------------------------------
(* Statements.                                                               *)

\* An UPDATE, DELETE or INSERT: it is applied, or waits, or fails.
Statement(t, H, rows, next) ==
  \/ Conflicts(t, rows) = {} /\ Apply(t, rows, next)
  \/ Fail(t)
  \/ \E held, keys :
       /\ held \subseteq DOMAIN View(t) /\ held \subseteq DOMAIN rows
       /\ held \cap UNION {DOMAIN pend[u] : u \in Others(t)} = {}
       /\ keys \subseteq th[t].wait \cup H \cup UNION {DOMAIN pend[u] : u \in Others(t)}
       /\ keys \subseteq th[t].wait \cup H \cup Conflicts(t, rows)
       /\ H # {} => (IF th[t].wait # {} THEN th[t].wait ELSE H) \subseteq keys
       /\ Block(t, held, keys)

LEMMA ConflictKinds ==
  ASSUME NEW t \in Threads, NEW rows, DOMAIN rows \subseteq Keys,
         \A u \in Threads : DOMAIN pend[u] \subseteq Keys,
         NEW G \in {{"agent", "config"}, {"cap", "member"}}, \A k \in DOMAIN rows : k[1] \in G,
         NEW j \in Conflicts(t, rows)
  PROVE  j \in Keys /\ j[1] \in G
<1>1. PICK u \in Others(t), k \in DOMAIN rows :
        /\ j \in DOMAIN pend[u]
        /\ \/ j = k
           \/ OneActive(k, rows[k], j, pend[u][j])
           \/ j \in DOMAIN db /\ OneActive(k, rows[k], j, db[j])
           \/ k[1] = "cap" /\ rows[k] = Gone /\ IsMember(j, db[k].id) /\ pend[u][j] # Gone
           \/ j[1] = "cap" /\ pend[u][j] = Gone /\ IsMember(k, db[j].id)
  BY DEF Conflicts
<1>2. j \in Keys BY <1>1 DEF Others
<1>3. CASE j = k BY <1>2, <1>3
<1>4. CASE OneActive(k, rows[k], j, pend[u][j]) \/ OneActive(k, rows[k], j, db[j])
  BY <1>2, <1>4 DEF OneActive
<1>5. CASE k[1] = "cap" /\ IsMember(j, db[k].id) BY <1>2, <1>5 DEF IsMember
<1>6. CASE j[1] = "cap" /\ IsMember(k, db[j].id) BY <1>2, <1>6 DEF IsMember
<1>. QED BY <1>1, <1>3, <1>4, <1>5, <1>6

LEMMA StatementEffect ==
  ASSUME TypesInv, NEW t \in Threads, ~Resting(th[t]),
         NEW H, H \subseteq Keys, \A k \in H : k[1] \in Tables(th[t]),
         NEW rows, Written(rows), \A k \in DOMAIN rows : k[1] \in Tables(th[t]),
         NEW x \in ThreadState, InRequest(x), Holds(x), ~Resting(x), x.pc # "run",
         Tables(x) = Tables(th[t]), th[t].pc = "seed_insert" => x.pc = "seed_insert" /\ x.proc = th[t].proc,
         th[t].pc = "run" => Started(th[t], db),
         Statement(t, H, rows, x)
  PROVE  \E y : Effect(t, y) /\ Onward(th[t], y)
<1>1. /\ th[t] \in ThreadState /\ InRequest(th[t]) /\ Holds(th[t])
      /\ th[t].back = "idle" /\ th[t].pc \notin {"reload", "store", "seed"}
  BY DEF TypesInv, ThreadsOK, InRequest, Resting, ThreadState
<1>2. CASE Apply(t, rows, x) BY <1>1, <1>2, ApplyEffect
<1>3. CASE Fail(t) BY <1>1, <1>3, FailEffect
<1>4. ASSUME NEW held, NEW keys, held \subseteq DOMAIN View(t), held \subseteq DOMAIN rows,
             keys \subseteq th[t].wait \cup H \cup Conflicts(t, rows), Block(t, held, keys)
      PROVE  \E y : Effect(t, y) /\ Onward(th[t], y)
  <2>1. Table(View(t)) BY ViewTable DEF TypesInv, TablesOK
  <2>2. \A u \in Threads : DOMAIN pend[u] \subseteq Keys BY DEF TypesInv, TablesOK, Written, Rows
  <2>3. Tables(th[t]) \in {{"agent", "config"}, {"cap", "member"}} BY DEF Tables
  <2>4. \A j \in Conflicts(t, rows) : j \in Keys /\ j[1] \in Tables(th[t])
    BY <2>2, <2>3, ConflictKinds DEF Written, Rows
  <2>5. \A j \in th[t].wait : j \in Keys /\ j[1] \in Tables(th[t])
    BY <1>1 DEF TypesInv, TablesOK, ThreadState
  <2>6. keys \in SUBSET Keys /\ \A k \in keys : k[1] \in Tables(th[t]) BY <1>4, <2>4, <2>5
  <2>. QED BY <1>1, <1>4, <2>1, <2>6, BlockEffect
<1>. QED BY <1>2, <1>3, <1>4 DEF Statement

LEMMA InsertStatement ==
  ASSUME NEW t \in Threads, NEW k, NEW row, NEW next, Insert(t, k, row, next)
  PROVE  Statement(t, {}, Only(k, row), next)
<1>. DEFINE rows == Only(k, row)
<1>1. DOMAIN rows = {k} BY OnlyRow
<1>2. Conflicts(t, rows) \subseteq UNION {DOMAIN pend[u] : u \in Others(t)} BY DEF Conflicts
<1>. HIDE DEF rows
<1>3. ASSUME Block(t, {}, Conflicts(t, rows))
      PROVE  Statement(t, {}, rows, next)
  <2>1. /\ {} \subseteq DOMAIN View(t) /\ {} \subseteq DOMAIN rows
        /\ {} \cap UNION {DOMAIN pend[u] : u \in Others(t)} = {}
        /\ Conflicts(t, rows) \subseteq th[t].wait \cup {} \cup UNION {DOMAIN pend[u] : u \in Others(t)}
        /\ Conflicts(t, rows) \subseteq th[t].wait \cup {} \cup Conflicts(t, rows)
    BY <1>2
  <2>. QED BY <2>1, <1>3 DEF Statement
<1>4. \/ Block(t, {}, Conflicts(t, rows))
      \/ Fail(t)
      \/ Conflicts(t, rows) = {} /\ Apply(t, rows, next)
  BY DEF Insert, rows
<1>5. Statement(t, {}, rows, next) BY <1>3, <1>4 DEF Statement
<1>. QED BY <1>5 DEF rows

(* An UPDATE or DELETE of the keys it waits for, or of those that H says.    *)
LEMMA WriteStatement ==
  ASSUME NEW t \in Threads, NEW next, NEW H, H \subseteq DOMAIN View(t),
         NEW keys, keys = IF th[t].wait # {} THEN th[t].wait ELSE H,
         NEW rows, DOMAIN rows = keys \cap H,
         NEW busy, busy = (keys \cap UNION {DOMAIN pend[u] : u \in Others(t)}) \cup Conflicts(t, rows),
         \/ busy = {} /\ Apply(t, rows, next)
         \/ \E held \in SUBSET (DOMAIN rows \ busy) : Block(t, held, keys \cup busy)
  PROVE  Statement(t, H, rows, next)
<1>1. CASE busy = {} /\ Apply(t, rows, next) BY <1>1 DEF Statement
<1>2. ASSUME NEW held \in SUBSET (DOMAIN rows \ busy), Block(t, held, keys \cup busy)
      PROVE  Statement(t, H, rows, next)
  <2>1. Conflicts(t, rows) \subseteq UNION {DOMAIN pend[u] : u \in Others(t)} BY DEF Conflicts
  <2>2. /\ held \subseteq DOMAIN View(t) /\ held \subseteq DOMAIN rows
        /\ held \cap UNION {DOMAIN pend[u] : u \in Others(t)} = {}
        /\ keys \cup busy \subseteq th[t].wait \cup H \cup UNION {DOMAIN pend[u] : u \in Others(t)}
        /\ keys \cup busy \subseteq th[t].wait \cup H \cup Conflicts(t, rows)
        /\ (IF th[t].wait # {} THEN th[t].wait ELSE H) \subseteq keys \cup busy
    BY <1>2, <2>1
  <2>. QED BY <1>2, <2>2 DEF Statement
<1>. QED BY <1>1, <1>2

(* The writes, one by one: the rows written are those it waited for that are *)
(* still hit, or all that are hit.                                          *)
Awaited(t, H) == H \cap (IF th[t].wait # {} THEN th[t].wait ELSE H)

LEMMA DeactivateStatement ==
  ASSUME NEW t \in Threads, NEW a, NEW next, Deactivate(t, a, next)
  PROVE  LET H == {k \in DOMAIN View(t) : IsConfig(k, a)}
         IN Statement(t, H, [k \in Awaited(t, H) |-> [View(t)[k] EXCEPT !.active = FALSE]], next)
<1>. DEFINE H == {k \in DOMAIN View(t) : IsConfig(k, a)}
            keys == IF th[t].wait # {} THEN th[t].wait ELSE H
            S == {k \in keys \cap DOMAIN View(t) : IsConfig(k, a)}
            rows == [k \in S |-> [View(t)[k] EXCEPT !.active = FALSE]]
            busy == (keys \cap UNION {DOMAIN pend[u] : u \in Others(t)}) \cup Conflicts(t, rows)
<1>1. \/ busy = {} /\ Apply(t, rows, next)
      \/ \E held \in SUBSET (DOMAIN rows \ busy) : Block(t, held, keys \cup busy)
  BY DEF Deactivate, Write
<1>2. DOMAIN rows = keys \cap H /\ H \subseteq DOMAIN View(t) /\ S = Awaited(t, H) BY DEF Awaited
<1>3. Statement(t, H, rows, next) BY <1>1, <1>2, WriteStatement
<1>. QED BY <1>2, <1>3

LEMMA ActivateStatement ==
  ASSUME NEW t \in Threads, NEW a, NEW v, NEW next, Activate(t, a, v, next)
  PROVE  LET H == {k \in DOMAIN View(t) : IsConfig(k, a) /\ k[4] = v}
         IN Statement(t, H, [k \in Awaited(t, H) |-> [View(t)[k] EXCEPT !.active = TRUE]], next)
<1>. DEFINE H == {k \in DOMAIN View(t) : IsConfig(k, a) /\ k[4] = v}
            keys == IF th[t].wait # {} THEN th[t].wait ELSE H
            S == {k \in keys \cap DOMAIN View(t) : IsConfig(k, a) /\ k[4] = v}
            rows == [k \in S |-> [View(t)[k] EXCEPT !.active = TRUE]]
            busy == (keys \cap UNION {DOMAIN pend[u] : u \in Others(t)}) \cup Conflicts(t, rows)
<1>1. \/ busy = {} /\ Apply(t, rows, next)
      \/ \E held \in SUBSET (DOMAIN rows \ busy) : Block(t, held, keys \cup busy)
  BY DEF Activate, Write
<1>2. DOMAIN rows = keys \cap H /\ H \subseteq DOMAIN View(t) /\ S = Awaited(t, H) BY DEF Awaited
<1>3. Statement(t, H, rows, next) BY <1>1, <1>2, WriteStatement
<1>. QED BY <1>2, <1>3

LEMMA StatusStatement ==
  ASSUME NEW t \in Threads, update_agent_status(t), th[t].pc = "run", AgentKey(th[t].req.agent) \in DOMAIN db
  PROVE  LET H == {k \in DOMAIN View(t) : k = AgentKey(th[t].req.agent)}
         IN Statement(t, H, [k \in Awaited(t, H) |-> [enabled |-> th[t].req.enabled, stamp |-> th[t].began]], To(t, "commit"))
<1>. DEFINE H == {k \in DOMAIN View(t) : k = AgentKey(th[t].req.agent)}
            keys == IF th[t].wait # {} THEN th[t].wait ELSE H
            S == {k \in keys \cap DOMAIN View(t) : k = AgentKey(th[t].req.agent)}
            rows == [k \in S |-> [enabled |-> th[t].req.enabled, stamp |-> th[t].began]]
            busy == (keys \cap UNION {DOMAIN pend[u] : u \in Others(t)}) \cup Conflicts(t, rows)
<1>1. \/ busy = {} /\ Apply(t, rows, To(t, "commit"))
      \/ \E held \in SUBSET (DOMAIN rows \ busy) : Block(t, held, keys \cup busy)
  BY DEF update_agent_status, Write
<1>2. DOMAIN rows = keys \cap H /\ H \subseteq DOMAIN View(t) /\ S = Awaited(t, H) BY DEF Awaited
<1>3. Statement(t, H, rows, To(t, "commit")) BY <1>1, <1>2, WriteStatement
<1>. QED BY <1>2, <1>3

LEMMA SyncAgentStatement ==
  ASSUME NEW t \in Threads, SyncAgent(t), AgentKey(Head(th[t].todo)) \in DOMAIN View(t)
  PROVE  LET H == {k \in DOMAIN View(t) : k = AgentKey(Head(th[t].todo))}
         IN Statement(t, H, [k \in Awaited(t, H) |-> [enabled |-> IF Head(th[t].todo) \in RemoteAgents THEN th[t].req.mitra ELSE View(t)[k].enabled, stamp |-> th[t].began]], To(t, "compare"))
<1>. DEFINE H == {k \in DOMAIN View(t) : k = AgentKey(Head(th[t].todo))}
            keys == IF th[t].wait # {} THEN th[t].wait ELSE H
            S == {k \in keys \cap DOMAIN View(t) : k = AgentKey(Head(th[t].todo))}
            rows == [k \in S |-> [enabled |-> IF Head(th[t].todo) \in RemoteAgents THEN th[t].req.mitra ELSE View(t)[k].enabled, stamp |-> th[t].began]]
            busy == (keys \cap UNION {DOMAIN pend[u] : u \in Others(t)}) \cup Conflicts(t, rows)
<1>1. \/ busy = {} /\ Apply(t, rows, To(t, "compare"))
      \/ \E held \in SUBSET (DOMAIN rows \ busy) : Block(t, held, keys \cup busy)
  BY DEF SyncAgent, Write
<1>2. DOMAIN rows = keys \cap H /\ H \subseteq DOMAIN View(t) /\ S = Awaited(t, H) BY DEF Awaited
<1>3. Statement(t, H, rows, To(t, "compare")) BY <1>1, <1>2, WriteStatement
<1>. QED BY <1>2, <1>3

LEMMA ReclaimStatement ==
  ASSUME NEW t \in Threads, SyncReclaim(t), th[t].pc = "reclaim"
  PROVE  LET H == {k \in DOMAIN View(t) : IsConfig(k, Head(th[t].todo)) /\ k[4] # th[t].n}
         IN Statement(t, H, [k \in Awaited(t, H) |-> [View(t)[k] EXCEPT !.active = FALSE]], To(t, "reactivate"))
<1>. DEFINE H == {k \in DOMAIN View(t) : IsConfig(k, Head(th[t].todo)) /\ k[4] # th[t].n}
            keys == IF th[t].wait # {} THEN th[t].wait ELSE H
            S == {k \in keys \cap DOMAIN View(t) : IsConfig(k, Head(th[t].todo)) /\ k[4] # th[t].n}
            rows == [k \in S |-> [View(t)[k] EXCEPT !.active = FALSE]]
            busy == (keys \cap UNION {DOMAIN pend[u] : u \in Others(t)}) \cup Conflicts(t, rows)
<1>1. \/ busy = {} /\ Apply(t, rows, To(t, "reactivate"))
      \/ \E held \in SUBSET (DOMAIN rows \ busy) : Block(t, held, keys \cup busy)
  BY DEF SyncReclaim, Write
<1>2. DOMAIN rows = keys \cap H /\ H \subseteq DOMAIN View(t) /\ S = Awaited(t, H) BY DEF Awaited
<1>3. Statement(t, H, rows, To(t, "reactivate")) BY <1>1, <1>2, WriteStatement
<1>. QED BY <1>2, <1>3

LEMMA RetireStatement ==
  ASSUME NEW t \in Threads, SyncAdopt(t), th[t].pc = "retire"
  PROVE  LET H == {k \in DOMAIN View(t) : IsConfig(k, Head(th[t].todo)) /\ View(t)[k].active}
         IN Statement(t, H, [k \in Awaited(t, H) |-> [View(t)[k] EXCEPT !.active = FALSE]], To(t, "adopt"))
<1>. DEFINE H == {k \in DOMAIN View(t) : IsConfig(k, Head(th[t].todo)) /\ View(t)[k].active}
            keys == IF th[t].wait # {} THEN th[t].wait ELSE H
            S == {k \in keys \cap DOMAIN View(t) : IsConfig(k, Head(th[t].todo)) /\ View(t)[k].active}
            rows == [k \in S |-> [View(t)[k] EXCEPT !.active = FALSE]]
            busy == (keys \cap UNION {DOMAIN pend[u] : u \in Others(t)}) \cup Conflicts(t, rows)
<1>1. \/ busy = {} /\ Apply(t, rows, To(t, "adopt"))
      \/ \E held \in SUBSET (DOMAIN rows \ busy) : Block(t, held, keys \cup busy)
  BY DEF SyncAdopt, Write
<1>2. DOMAIN rows = keys \cap H /\ H \subseteq DOMAIN View(t) /\ S = Awaited(t, H) BY DEF Awaited
<1>3. Statement(t, H, rows, To(t, "adopt")) BY <1>1, <1>2, WriteStatement
<1>. QED BY <1>2, <1>3

LEMMA OrphansStatement ==
  ASSUME NEW t \in Threads, SyncOrphans(t)
  PROVE  LET H == {k \in DOMAIN View(t) : k[1] = "agent" /\ (th[t].wait # {} \/ (k[2] \notin DOMAIN th[t].req.yaml /\ \E j \in ActiveIn(View(t), k[2]) : View(t)[j].source = "yaml"))}
         IN Statement(t, H, [k \in Awaited(t, H) |-> [enabled |-> FALSE, stamp |-> th[t].began]], To(t, "sync_commit"))
<1>. DEFINE H == {k \in DOMAIN View(t) : k[1] = "agent" /\ (th[t].wait # {} \/ (k[2] \notin DOMAIN th[t].req.yaml /\ \E j \in ActiveIn(View(t), k[2]) : View(t)[j].source = "yaml"))}
            keys == IF th[t].wait # {} THEN th[t].wait ELSE H
            S == {k \in keys \cap DOMAIN View(t) : k[1] = "agent" /\ (th[t].wait # {} \/ (k[2] \notin DOMAIN th[t].req.yaml /\ \E j \in ActiveIn(View(t), k[2]) : View(t)[j].source = "yaml"))}
            rows == [k \in S |-> [enabled |-> FALSE, stamp |-> th[t].began]]
            busy == (keys \cap UNION {DOMAIN pend[u] : u \in Others(t)}) \cup Conflicts(t, rows)
<1>1. \/ busy = {} /\ Apply(t, rows, To(t, "sync_commit"))
      \/ \E held \in SUBSET (DOMAIN rows \ busy) : Block(t, held, keys \cup busy)
  BY DEF SyncOrphans, Write
<1>2. DOMAIN rows = keys \cap H /\ H \subseteq DOMAIN View(t) /\ S = Awaited(t, H) BY DEF Awaited
<1>3. Statement(t, H, rows, To(t, "sync_commit")) BY <1>1, <1>2, WriteStatement
<1>. QED BY <1>2, <1>3

LEMMA UpdateCapabilityStatement ==
  ASSUME NEW t \in Threads, update_capability(t), th[t].pc = "update"
  PROVE  LET H == {k \in DOMAIN View(t) : ById(t, k)}
         IN Statement(t, H, [k \in Awaited(t, H) |-> [View(t)[k] EXCEPT !.status = th[t].req.status]], To(t, "commit"))
<1>. DEFINE H == {k \in DOMAIN View(t) : ById(t, k)}
            keys == IF th[t].wait # {} THEN th[t].wait ELSE H
            S == {k \in keys \cap DOMAIN View(t) : ById(t, k)}
            rows == [k \in S |-> [View(t)[k] EXCEPT !.status = th[t].req.status]]
            busy == (keys \cap UNION {DOMAIN pend[u] : u \in Others(t)}) \cup Conflicts(t, rows)
<1>1. \/ busy = {} /\ Apply(t, rows, To(t, "commit"))
      \/ \E held \in SUBSET (DOMAIN rows \ busy) : Block(t, held, keys \cup busy)
  BY DEF update_capability, ReadCapability, Writes, Write
<1>2. DOMAIN rows = keys \cap H /\ H \subseteq DOMAIN View(t) /\ S = Awaited(t, H) BY DEF Awaited
<1>3. Statement(t, H, rows, To(t, "commit")) BY <1>1, <1>2, WriteStatement
<1>. QED BY <1>2, <1>3

LEMMA DeleteCapabilityStatement ==
  ASSUME NEW t \in Threads, delete_capability(t), th[t].pc = "delete"
  PROVE  LET H == {k \in DOMAIN View(t) : ById(t, k)}
         IN Statement(t, H, [k \in Awaited(t, H) |-> Gone], To(t, "cascade"))
<1>. DEFINE H == {k \in DOMAIN View(t) : ById(t, k)}
            keys == IF th[t].wait # {} THEN th[t].wait ELSE H
            S == {k \in keys \cap DOMAIN View(t) : ById(t, k)}
            rows == [k \in S |-> Gone]
            busy == (keys \cap UNION {DOMAIN pend[u] : u \in Others(t)}) \cup Conflicts(t, rows)
<1>1. \/ busy = {} /\ Apply(t, rows, To(t, "cascade"))
      \/ \E held \in SUBSET (DOMAIN rows \ busy) : Block(t, held, keys \cup busy)
  BY DEF delete_capability, ReadCapability, Writes, Write
<1>2. DOMAIN rows = keys \cap H /\ H \subseteq DOMAIN View(t) /\ S = Awaited(t, H) BY DEF Awaited
<1>3. Statement(t, H, rows, To(t, "cascade")) BY <1>1, <1>2, WriteStatement
<1>. QED BY <1>2, <1>3

LEMMA CascadeStatement ==
  ASSUME NEW t \in Threads, delete_capability(t), th[t].pc = "cascade"
  PROVE  LET H == {k \in DOMAIN View(t) : IsMember(k, th[t].n)}
         IN Statement(t, H, [k \in Awaited(t, H) |-> Gone], To(t, "commit"))
<1>. DEFINE H == {k \in DOMAIN View(t) : IsMember(k, th[t].n)}
            keys == IF th[t].wait # {} THEN th[t].wait ELSE H
            S == {k \in keys \cap DOMAIN View(t) : IsMember(k, th[t].n)}
            rows == [k \in S |-> Gone]
            busy == (keys \cap UNION {DOMAIN pend[u] : u \in Others(t)}) \cup Conflicts(t, rows)
<1>1. \/ busy = {} /\ Apply(t, rows, To(t, "commit"))
      \/ \E held \in SUBSET (DOMAIN rows \ busy) : Block(t, held, keys \cup busy)
  BY DEF delete_capability, ReadCapability, Writes, Write
<1>2. DOMAIN rows = keys \cap H /\ H \subseteq DOMAIN View(t) /\ S = Awaited(t, H) BY DEF Awaited
<1>3. Statement(t, H, rows, To(t, "commit")) BY <1>1, <1>2, WriteStatement
<1>. QED BY <1>2, <1>3

LEMMA ClearStatement ==
  ASSUME NEW t \in Threads, Clear(t)
  PROVE  LET H == {k \in DOMAIN View(t) : IsMember(k, th[t].n)}
         IN Statement(t, H, [k \in Awaited(t, H) |-> Gone], To(t, "put_insert"))
<1>. DEFINE H == {k \in DOMAIN View(t) : IsMember(k, th[t].n)}
            keys == IF th[t].wait # {} THEN th[t].wait ELSE H
            S == {k \in keys \cap DOMAIN View(t) : IsMember(k, th[t].n)}
            rows == [k \in S |-> Gone]
            busy == (keys \cap UNION {DOMAIN pend[u] : u \in Others(t)}) \cup Conflicts(t, rows)
<1>1. \/ busy = {} /\ Apply(t, rows, To(t, "put_insert"))
      \/ \E held \in SUBSET (DOMAIN rows \ busy) : Block(t, held, keys \cup busy)
  BY DEF Clear, Write
<1>2. DOMAIN rows = keys \cap H /\ H \subseteq DOMAIN View(t) /\ S = Awaited(t, H) BY DEF Awaited
<1>3. Statement(t, H, rows, To(t, "put_insert")) BY <1>1, <1>2, WriteStatement
<1>. QED BY <1>2, <1>3

-----------------------------------------------------------------------------
(* The newest of finitely many numbers.                                      *)

LEMMA Largest ==
  ASSUME NEW D, IsFiniteSet(D), D # {}, NEW f \in [D -> Nat]
  PROVE  \E x \in D : \A y \in D : f[y] <= f[x]
<1>. DEFINE Bad == {T \in SUBSET D : T # {} /\ ~\E x \in T : \A y \in T : f[y] <= f[x]}
<1>. SUFFICES ASSUME D \in Bad
              PROVE  FALSE
  OBVIOUS
<1>1. IsWellFoundedOn(StrictSubsetOrdering(D), FiniteSubsetsOf(D))
  BY FS_StrictSubsetOrderingWellFounded
<1>2. FiniteSubsetsOf(D) = SUBSET D BY FS_FiniteSubsetsOfFinite
<1>3. PICK T \in Bad : \A U \in Bad : <<U, T>> \notin StrictSubsetOrdering(D)
  <2>1. Bad \subseteq SUBSET D /\ Bad # {} OBVIOUS
  <2>. HIDE DEF Bad
  <2>. QED BY <1>1, <1>2, <2>1, WFMin
<1>4. PICK z \in T : TRUE OBVIOUS
<1>5. T \ {z} \notin Bad
  <2>1. T \ {z} \in SUBSET D /\ T \in SUBSET D /\ T \ {z} \subseteq T /\ T \ {z} # T BY <1>4
  <2>2. <<T \ {z}, T>> \in StrictSubsetOrdering(D) BY <2>1 DEF StrictSubsetOrdering
  <2>. QED BY <1>3, <2>2
<1>6. CASE T \ {z} = {}
  <2>1. \A y \in T : f[y] <= f[z] BY <1>6
  <2>. QED BY <2>1, <1>4
<1>7. CASE T \ {z} # {}
  <2>1. PICK x \in T \ {z} : \A y \in T \ {z} : f[y] <= f[x] BY <1>5, <1>7
  <2>2. f[x] \in Nat /\ f[z] \in Nat /\ \A y \in T : f[y] \in Nat BY <1>4, <2>1
  <2>3. CASE f[z] <= f[x]
    <3>1. \A y \in T : f[y] <= f[x] BY <2>1, <2>3
    <3>. QED BY <2>1, <3>1
  <2>4. CASE ~(f[z] <= f[x])
    <3>1. \A y \in T : f[y] <= f[z] BY <2>1, <2>2, <2>4
    <3>. QED BY <1>4, <3>1
  <2>. QED BY <2>3, <2>4
<1>. QED BY <1>6, <1>7

LEMMA NewestOf ==
  ASSUME NEW D, IsFiniteSet(D), NEW f \in [D -> Nat]
  PROVE  LET S == {f[d] : d \in D}
         IN  /\ Newest(S) \in Nat /\ (Newest(S) = 0 \/ Newest(S) \in S)
             /\ \A d \in D : f[d] <= Newest(S)
<1>. DEFINE S == {f[d] : d \in D}
<1>1. \E m \in {0} \cup S : \A y \in {0} \cup S : m >= y
  <2>1. CASE D = {} BY <2>1
  <2>2. CASE D # {}
    <3>1. PICK x \in D : \A y \in D : f[y] <= f[x] BY <2>2, Largest
    <3>2. \A y \in {0} \cup S : f[x] >= y BY <3>1
    <3>. QED BY <3>1, <3>2
  <2>. QED BY <2>1, <2>2
<1>2. Newest(S) = CHOOSE m \in {0} \cup S : \A y \in {0} \cup S : m >= y BY DEF Newest, Max
<1>3. Newest(S) \in {0} \cup S /\ \A y \in {0} \cup S : Newest(S) >= y
  <2>. HIDE DEF S
  <2>. QED BY <1>1, <1>2, Zenon
<1>4. \A d \in D : f[d] <= Newest(S) BY <1>3
<1>. QED BY <1>3, <1>4, SMTT(60)

LEMMA AgentsFinite == IsFiniteSet(Agents)
<1>1. AgentOrder \in [1..Len(AgentOrder) -> Agents] /\ DOMAIN AgentOrder = 1..Len(AgentOrder)
      /\ Len(AgentOrder) \in Nat
  BY AdminConstants
<1>2. \A a \in Agents : \E i \in 1..Len(AgentOrder) : AgentOrder[i] = a BY <1>1, AdminConstants
<1>3. AgentOrder \in Surjection(1..Len(AgentOrder), Agents) BY <1>1, <1>2 DEF Surjection
<1>4. IsFiniteSet(1..Len(AgentOrder)) BY <1>1, FS_Interval
<1>. QED BY <1>3, <1>4, FS_Surjection

LEMMA NextVersionTyped ==
  ASSUME NEW view, Table(view), NEW a
  PROVE  /\ NextVersion(view, a) \in Nat \ {0}
         /\ \A k \in DOMAIN view : IsConfig(k, a) => k[4] < NextVersion(view, a)
<1>. DEFINE D == {j \in DOMAIN view : IsConfig(j, a)}
            f == [k \in D |-> k[4]]
<1>1. IsFiniteSet(D)
  <2>1. D \subseteq DOMAIN view OBVIOUS
  <2>. HIDE DEF D
  <2>. QED BY <2>1, FS_Subset DEF Table, Rows
<1>2. f \in [D -> Nat]
  <2>. SUFFICES ASSUME NEW k \in D
                PROVE  k[4] \in Nat
    OBVIOUS
  <2>1. k \in Keys /\ k[1] = "config" BY DEF Table, Rows, IsConfig
  <2>. QED BY <2>1, KeyKinds
<1>3. {f[d] : d \in D} = {k[4] : k \in D} OBVIOUS
<1>4. LET S == {f[d] : d \in D}
      IN  Newest(S) \in Nat /\ \A d \in D : f[d] <= Newest(S)
  <2>. HIDE DEF D, f
  <2>. QED BY <1>1, <1>2, NewestOf
<1>5. /\ Newest({k[4] : k \in D}) \in Nat
      /\ \A d \in D : d[4] <= Newest({k[4] : k \in D}) /\ d[4] \in Nat
  BY <1>2, <1>3, <1>4
<1>6. NextVersion(view, a) = 1 + Newest({k[4] : k \in D}) BY DEF NextVersion
<1>7. \A k \in D : k[4] < NextVersion(view, a) /\ NextVersion(view, a) \in Nat \ {0}
  <2>. HIDE DEF D
  <2>. QED BY <1>5, <1>6
<1>8. NextVersion(view, a) \in Nat \ {0}
  <2>. HIDE DEF D
  <2>. QED BY <1>5, <1>6
<1>. QED BY <1>7, <1>8

LEMMA StampsTyped ==
  ASSUME NEW view, Table(view), NEW S, S \subseteq {a \in Agents : AgentKey(a) \in DOMAIN view}
  PROVE  Newest(Stamps(view, S)) \in Nat
<1>. DEFINE f == [a \in S |-> view[AgentKey(a)].stamp]
<1>1. IsFiniteSet(S)
  <2>1. S \subseteq Agents OBVIOUS
  <2>. QED BY <2>1, AgentsFinite, FS_Subset
<1>2. f \in [S -> Nat]
  <2>. SUFFICES ASSUME NEW a \in S
                PROVE  view[AgentKey(a)].stamp \in Nat
    OBVIOUS
  <2>1. view[AgentKey(a)] \in AgentRow BY KeysTyped DEF Table, GoodRow
  <2>. QED BY <2>1 DEF AgentRow
<1>3. Stamps(view, S) = {f[a] : a \in S} BY DEF Stamps
<1>4. Newest({f[a] : a \in S}) \in Nat
  <2>. HIDE DEF f
  <2>. QED BY <1>1, <1>2, NewestOf
<1>. QED BY <1>3, <1>4

(* What the registry loads is of the default scope.                         *)
LEMMA SnapshotServed ==
  ASSUME NEW view, Table(view)
  PROVE  Snapshot(view) \in Served /\ Newest(Stamps(view, DOMAIN Snapshot(view))) \in Nat
<1>. DEFINE D == {b \in Enabled(view) : HasDefault(view, b)}
<1>1. D \subseteq Agents /\ D \subseteq {a \in Agents : AgentKey(a) \in DOMAIN view} BY DEF Enabled
<1>2. ASSUME NEW a \in D
      PROVE  /\ view[DefaultOf(view, a)].content \in Contents
             /\ ScopeOf(view[DefaultOf(view, a)].content) = DefaultScope
  <2>1. DefaultOf(view, a) \in ActiveIn(view, a) /\ DefaultOf(view, a)[3] = DefaultScope
    BY DEF HasDefault, DefaultOf
  <2>2. DefaultOf(view, a) \in DOMAIN view /\ DefaultOf(view, a)[1] = "config"
    BY <2>1 DEF ActiveIn, IsConfig
  <2>3. GoodRow(DefaultOf(view, a), view[DefaultOf(view, a)]) BY <2>2 DEF Table
  <2>. QED BY <2>1, <2>2, <2>3 DEF GoodRow, ConfigRow
<1>3. Snapshot(view) \in [D -> Contents] /\ \A a \in D : ScopeOf(Snapshot(view)[a]) = DefaultScope
  BY <1>2 DEF Snapshot
<1>4. Snapshot(view) \in Maps(Agents, Contents) /\ DOMAIN Snapshot(view) = D BY <1>1, <1>3 DEF Maps
<1>5. Newest(Stamps(view, D)) \in Nat BY <1>1, StampsTyped
<1>. QED BY <1>3, <1>4, <1>5 DEF Served
-----------------------------------------------------------------------------
(* The handlers, one by one.                                                 *)

LEMMA Facts ==
  ASSUME TypesInv, NEW t \in Threads
  PROVE  /\ th[t] \in ThreadState /\ InRequest(th[t]) /\ Holds(th[t])
         /\ Table(View(t)) /\ Written(pend[t])
         /\ th[t].pc # "idle" => th[t].req \in Requests
         /\ th[t].pc \notin {"reload", "store"} => th[t].back = "idle"
         /\ Resting(th[t]) => pend[t] = NoRows /\ th[t].wait = {}
         /\ th[t].pc = "run" /\ pend[t] # NoRows => Started(th[t], db)
<1>1. th[t] \in ThreadState /\ InRequest(th[t]) /\ Holds(th[t]) /\ Table(db) /\ Written(pend[t])
  BY DEF TypesInv, ThreadsOK, TablesOK
<1>2. Table(View(t)) BY <1>1, ViewTable
<1>3. DOMAIN pend[t] = {} => pend[t] = NoRows BY <1>1, EmptyIsNoRows DEF Written, Rows
<1>4. th[t].pc \notin {"reload", "store"} => th[t].back = "idle" BY <1>1 DEF InRequest, ThreadState
<1>. QED BY <1>1, <1>2, <1>3, <1>4 DEF TypesInv, TablesOK, InRequest

LEMMA SwitchRows ==
  ASSUME NEW t, Table(View(t)), NEW S, S \subseteq DOMAIN View(t), \A k \in S : k[1] = "config",
         NEW b \in BOOLEAN
  PROVE  LET rows == [k \in S |-> [View(t)[k] EXCEPT !.active = b]]
         IN  Written(rows) /\ \A k \in DOMAIN rows : k[1] = "config"
<1>. DEFINE rows == [k \in S |-> [View(t)[k] EXCEPT !.active = b]]
<1>1. IsFiniteSet(S) BY FS_Subset DEF Table, Rows
<1>2. ASSUME NEW k \in S
      PROVE  GoodRow(k, rows[k])
  <2>1. View(t)[k] \in ConfigRow /\ ScopeOf(View(t)[k].content) = k[3] BY <1>2 DEF Table, GoodRow
  <2>2. rows[k] = [View(t)[k] EXCEPT !.active = b] BY <1>2
  <2>3. rows[k] \in ConfigRow /\ rows[k].content = View(t)[k].content BY <2>1, <2>2 DEF ConfigRow
  <2>4. k[1] = "config" BY <1>2
  <2>. QED BY <2>1, <2>3, <2>4 DEF GoodRow
<1>3. DOMAIN rows = S /\ rows = [k \in DOMAIN rows |-> rows[k]] OBVIOUS
<1>4. Written(rows)
  <2>. HIDE DEF rows
  <2>. QED BY <1>1, <1>2, <1>3 DEF Written, Rows, Table
<1>. QED BY <1>3, <1>4

LEMMA GoneRows ==
  ASSUME NEW t, Table(View(t)), NEW S, S \subseteq DOMAIN View(t),
         \A k \in S : k[1] \in {"cap", "member"}
  PROVE  LET rows == [k \in S |-> Gone]
         IN  Written(rows) /\ \A k \in DOMAIN rows : k[1] \in {"cap", "member"}
<1>. DEFINE rows == [k \in S |-> Gone]
<1>1. IsFiniteSet(S) BY FS_Subset DEF Table, Rows
<1>3. DOMAIN rows = S /\ rows = [k \in DOMAIN rows |-> rows[k]] /\ \A k \in S : rows[k] = Gone OBVIOUS
<1>4. Written(rows)
  <2>. HIDE DEF rows
  <2>. QED BY <1>1, <1>3 DEF Written, Rows, Table
<1>. QED BY <1>3, <1>4

LEMMA AgentRows ==
  ASSUME NEW t, Table(View(t)), NEW rows, DOMAIN rows \subseteq DOMAIN View(t),
         rows \in [DOMAIN rows -> AgentRow], \A k \in DOMAIN rows : k[1] = "agent"
  PROVE  Written(rows)
<1>1. IsFiniteSet(DOMAIN rows) BY FS_Subset DEF Table, Rows
<1>2. \A k \in DOMAIN rows : GoodRow(k, rows[k]) BY DEF GoodRow
<1>. QED BY <1>1, <1>2 DEF Written, Rows, Table

LEMMA ActivateStep ==
  ASSUME TypesInv, NEW t \in Threads, activate_config_version(t), th[t].pc # "commit"
  PROVE  \E y : Effect(t, y) /\ Onward(th[t], y)
<1>. DEFINE r == th[t].req
<1>1. r.kind = "activate" /\ th[t].pc \in {"run", "on"} BY DEF activate_config_version
<1>2. Tables(th[t]) = {"agent", "config"} /\ ~Resting(th[t]) BY <1>1 DEF Tables, ConfigWriter, Resting
<1>3. CASE th[t].pc = "run" /\ Started(th[t], db)
  <2>. DEFINE x == To(t, "on")
              H == {k \in DOMAIN View(t) : IsConfig(k, r.agent)}
              rows == [k \in Awaited(t, H) |-> [View(t)[k] EXCEPT !.active = FALSE]]
  <2>1. Deactivate(t, r.agent, x) BY <1>1, <1>3 DEF activate_config_version, Started
  <2>2. Statement(t, H, rows, x) BY <2>1, DeactivateStatement
  <2>3. /\ x \in ThreadState /\ x.pc = "on" /\ x.req = r /\ x.back = th[t].back /\ th[t].back = "idle"
    BY <1>3, Facts, ToState
  <2>4. InRequest(x) /\ Holds(x) /\ Tables(x) = {"agent", "config"} /\ ~Resting(x)
    BY <1>1, <1>3, <2>3, Facts DEF InRequest, Holds, Tables, ConfigWriter, Resting, SyncSteps, AtAgent
  <2>5. H \subseteq DOMAIN View(t) /\ H \subseteq Keys /\ \A k \in H : k[1] = "config"
    BY Facts DEF IsConfig, Table, Rows
  <2>6. Awaited(t, H) \subseteq H BY DEF Awaited
  <2>7. Written(rows) /\ \A k \in DOMAIN rows : k[1] = "config" BY <2>5, <2>6, Facts, SwitchRows
  <2>. HIDE DEF x, rows, H
  <2>. QED BY <1>2, <1>3, <2>2, <2>3, <2>4, <2>5, <2>7, StatementEffect
<1>4. CASE th[t].pc = "run" /\ ~Started(th[t], db)
  <2>1. Finish(t) BY <1>1, <1>4 DEF activate_config_version, Started
  <2>2. pend[t] = NoRows BY <1>4, Facts
  <2>. QED BY <1>4, <2>1, <2>2, FinishEffect DEF Onward, Idle
<1>5. CASE th[t].pc = "on"
  <2>. DEFINE x == To(t, "commit")
              H == {k \in DOMAIN View(t) : IsConfig(k, r.agent) /\ k[4] = r.version}
              rows == [k \in Awaited(t, H) |-> [View(t)[k] EXCEPT !.active = TRUE]]
  <2>1. Activate(t, r.agent, r.version, x) BY <1>1, <1>5 DEF activate_config_version
  <2>2. Statement(t, H, rows, x) BY <2>1, ActivateStatement
  <2>3. /\ x \in ThreadState /\ x.pc = "commit" /\ x.req = r /\ x.back = th[t].back /\ th[t].back = "idle"
    BY <1>5, Facts, ToState
  <2>4. InRequest(x) /\ Holds(x) /\ Tables(x) = {"agent", "config"} /\ ~Resting(x)
    BY <1>1, <1>5, <2>3, Facts DEF InRequest, Holds, Tables, ConfigWriter, Resting, SyncSteps, AtAgent
  <2>5. H \subseteq DOMAIN View(t) /\ H \subseteq Keys /\ \A k \in H : k[1] = "config"
    BY Facts DEF IsConfig, Table, Rows
  <2>6. Awaited(t, H) \subseteq H BY DEF Awaited
  <2>7. Written(rows) /\ \A k \in DOMAIN rows : k[1] = "config" BY <2>5, <2>6, Facts, SwitchRows
  <2>. HIDE DEF x, rows, H
  <2>. QED BY <1>2, <1>5, <2>2, <2>3, <2>4, <2>5, <2>7, StatementEffect
<1>. QED BY <1>1, <1>3, <1>4, <1>5

LEMMA CreateStep ==
  ASSUME TypesInv, NEW t \in Threads, create_config_version(t), th[t].pc # "commit"
  PROVE  \E y : Effect(t, y) /\ Onward(th[t], y)
<1>. DEFINE r == th[t].req
<1>1. r.kind = "create" /\ th[t].pc \in {"run", "number", "insert"} BY DEF create_config_version
<1>2. Tables(th[t]) = {"agent", "config"} /\ ~Resting(th[t]) BY <1>1 DEF Tables, ConfigWriter, Resting
<1>3. CASE th[t].pc = "run" /\ Started(th[t], db)
  <2>. DEFINE x == To(t, "number")
              H == {k \in DOMAIN View(t) : IsConfig(k, r.agent)}
              rows == [k \in Awaited(t, H) |-> [View(t)[k] EXCEPT !.active = FALSE]]
  <2>1. Deactivate(t, r.agent, x) BY <1>1, <1>3 DEF create_config_version, Started
  <2>2. Statement(t, H, rows, x) BY <2>1, DeactivateStatement
  <2>3. /\ x \in ThreadState /\ x.pc = "number" /\ x.req = r /\ x.back = th[t].back /\ th[t].back = "idle"
    BY <1>3, Facts, ToState
  <2>4. InRequest(x) /\ Holds(x) /\ Tables(x) = {"agent", "config"} /\ ~Resting(x)
    BY <1>1, <1>3, <2>3, Facts DEF InRequest, Holds, Tables, ConfigWriter, Resting, SyncSteps, AtAgent
  <2>5. H \subseteq DOMAIN View(t) /\ H \subseteq Keys /\ \A k \in H : k[1] = "config"
    BY Facts DEF IsConfig, Table, Rows
  <2>6. Awaited(t, H) \subseteq H BY DEF Awaited
  <2>7. Written(rows) /\ \A k \in DOMAIN rows : k[1] = "config" BY <2>5, <2>6, Facts, SwitchRows
  <2>. HIDE DEF x, rows, H
  <2>. QED BY <1>2, <1>3, <2>2, <2>3, <2>4, <2>5, <2>7, StatementEffect
<1>4. CASE th[t].pc = "run" /\ ~Started(th[t], db)
  <2>1. Finish(t) BY <1>1, <1>4 DEF create_config_version, Started
  <2>2. pend[t] = NoRows BY <1>4, Facts
  <2>. QED BY <1>4, <2>1, <2>2, FinishEffect DEF Onward, Idle
<1>5. CASE th[t].pc = "number"
  <2>. DEFINE v == NextVersion(View(t), r.agent)
              x == [To(t, "insert") EXCEPT !.n = v]
  <2>1. Local(t, x) BY <1>1, <1>5 DEF create_config_version
  <2>2. v \in Nat \ {0} BY Facts, NextVersionTyped
  <2>3. /\ To(t, "insert") \in ThreadState /\ To(t, "insert").pc = "insert" /\ To(t, "insert").req = r
        /\ To(t, "insert").back = th[t].back /\ th[t].back = "idle"
    BY <1>5, Facts, ToState
  <2>4. x \in ThreadState /\ x.pc = "insert" /\ x.req = r /\ x.back = "idle" /\ x.n = v
    BY <2>2, <2>3 DEF ThreadState
  <2>. HIDE DEF x, v
  <2>5. InRequest(x) /\ Holds(x) /\ Tables(x) = {"agent", "config"} /\ ~Resting(x)
    BY <1>1, <1>5, <2>2, <2>4, Facts DEF InRequest, Holds, Tables, ConfigWriter, Resting, SyncSteps, AtAgent
  <2>6. Effect(t, Unwaiting(x)) BY <1>2, <2>1, <2>4, <2>5, LocalEffect
  <2>. QED BY <1>5, <2>4, <2>5, <2>6, UnwaitingState DEF Onward
<1>6. CASE th[t].pc = "insert"
  <2>. DEFINE x == To(t, "commit")
              k == ConfigKey(r.agent, DefaultScope, th[t].n)
              row == [content |-> r.content, source |-> "db", active |-> TRUE]
  <2>1. Insert(t, k, row, x) BY <1>1, <1>6 DEF create_config_version
  <2>2. Statement(t, {}, Only(k, row), x) BY <2>1, InsertStatement
  <2>3. /\ x \in ThreadState /\ x.pc = "commit" /\ x.req = r /\ x.back = th[t].back /\ th[t].back = "idle"
    BY <1>6, Facts, ToState
  <2>4. InRequest(x) /\ Holds(x) /\ Tables(x) = {"agent", "config"} /\ ~Resting(x)
    BY <1>1, <1>6, <2>3, Facts DEF InRequest, Holds, Tables, ConfigWriter, Resting, SyncSteps, AtAgent
  <2>5. /\ r \in Requests /\ r.agent \in Agents /\ r.content \in Contents
        /\ ScopeOf(r.content) = DefaultScope /\ th[t].n \in Nat \ {0}
    BY <1>1, <1>6, Facts, AdminRequests DEF Holds, ThreadState
  <2>6. k \in Keys /\ k[1] = "config" /\ k[3] = DefaultScope BY <2>5, KeysTyped, AdminConstants, SMTT(60)
  <2>7. row \in ConfigRow /\ ScopeOf(row.content) = DefaultScope BY <2>5 DEF ConfigRow
  <2>. HIDE DEF x, row, k
  <2>8. GoodRow(k, row) BY <2>6, <2>7 DEF GoodRow
  <2>9. Written(Only(k, row)) BY <2>6, <2>8, OnlyWritten
  <2>10. DOMAIN Only(k, row) = {k} BY OnlyRow
  <2>. QED BY <1>2, <1>6, <2>2, <2>3, <2>4, <2>6, <2>9, <2>10, StatementEffect
<1>. QED BY <1>1, <1>3, <1>4, <1>5, <1>6

LEMMA StatusStep ==
  ASSUME TypesInv, NEW t \in Threads, update_agent_status(t), th[t].pc # "commit"
  PROVE  \E y : Effect(t, y) /\ Onward(th[t], y)
<1>. DEFINE r == th[t].req
<1>1. r.kind = "status" /\ th[t].pc = "run" BY DEF update_agent_status
<1>2. Tables(th[t]) = {"agent", "config"} /\ ~Resting(th[t]) BY <1>1 DEF Tables, ConfigWriter, Resting
<1>3. CASE Started(th[t], db)
  <2>. DEFINE x == To(t, "commit")
              H == {k \in DOMAIN View(t) : k = AgentKey(r.agent)}
              rows == [k \in Awaited(t, H) |-> [enabled |-> r.enabled, stamp |-> th[t].began]]
  <2>1. AgentKey(r.agent) \in DOMAIN db BY <1>1, <1>3 DEF Started
  <2>2. Statement(t, H, rows, x) BY <1>1, <2>1, StatusStatement
  <2>3. /\ x \in ThreadState /\ x.pc = "commit" /\ x.req = r /\ x.back = th[t].back /\ th[t].back = "idle"
    BY <1>1, Facts, ToState
  <2>4. InRequest(x) /\ Holds(x) /\ Tables(x) = {"agent", "config"} /\ ~Resting(x)
    BY <1>1, <2>3, Facts DEF InRequest, Holds, Tables, ConfigWriter, Resting, SyncSteps, AtAgent
  <2>5. r \in Requests /\ r.agent \in Agents /\ r.enabled \in BOOLEAN /\ th[t].began \in Nat
    BY <1>1, Facts, AdminRequests DEF ThreadState
  <2>6. H \subseteq DOMAIN View(t) /\ H \subseteq Keys /\ \A k \in H : k[1] = "agent"
    BY <2>5, Facts, KeysTyped DEF Table, Rows
  <2>7. Awaited(t, H) \subseteq H BY DEF Awaited
  <2>8. DOMAIN rows = Awaited(t, H) /\ rows \in [DOMAIN rows -> AgentRow] BY <2>5 DEF AgentRow
  <2>. HIDE DEF x, rows, H
  <2>9. Written(rows) /\ \A k \in DOMAIN rows : k[1] = "agent" BY <2>6, <2>7, <2>8, Facts, AgentRows
  <2>. QED BY <1>1, <1>2, <1>3, <2>2, <2>3, <2>4, <2>6, <2>9, StatementEffect
<1>4. CASE ~Started(th[t], db)
  <2>1. Finish(t) BY <1>1, <1>4 DEF update_agent_status, Started
  <2>2. pend[t] = NoRows BY <1>1, <1>4, Facts
  <2>. QED BY <1>1, <2>1, <2>2, FinishEffect DEF Onward, Idle
<1>. QED BY <1>3, <1>4
(* The loop of the synchronisation.                                          *)
LEMMA FilesTyped ==
  ASSUME NEW t, NEW order \in Seq(Agents)
  PROVE  /\ FilesFrom(t, order) \in Seq(Agents)
         /\ FilesFrom(t, order) # <<>> => Head(FilesFrom(t, order)) \in DOMAIN th[t].req.yaml
<1>. DEFINE files == {i \in DOMAIN order : order[i] \in DOMAIN th[t].req.yaml}
            f == [i \in files |-> Len(order) - i]
<1>1. CASE files = {} BY <1>1 DEF FilesFrom
<1>2. CASE files # {}
  <2>1. IsFiniteSet(files)
    <3>1. IsFiniteSet(1..Len(order)) BY FS_Interval
    <3>2. files \subseteq 1..Len(order) OBVIOUS
    <3>. HIDE DEF files
    <3>. QED BY <3>1, <3>2, FS_Subset
  <2>2. f \in [files -> Nat] OBVIOUS
  <2>3. PICK m \in files : \A i \in files : f[i] <= f[m]
    <3>. HIDE DEF files, f
    <3>. QED BY <1>2, <2>1, <2>2, Largest
  <2>4. ASSUME NEW i \in files
        PROVE  m <= i
    <3>1. i \in 1..Len(order) /\ m \in 1..Len(order) /\ Len(order) \in Nat OBVIOUS
    <3>2. f[i] = Len(order) - i /\ f[m] = Len(order) - m BY <2>4
    <3>3. f[i] <= f[m] BY <2>3
    <3>. HIDE DEF f, files
    <3>. QED BY <3>1, <3>2, <3>3
  <2>5. Min(files) \in files
    <3>. HIDE DEF files
    <3>. QED BY <2>4 DEF Min
  <2>6. /\ Min(files) \in 1..Len(order) /\ order[Min(files)] \in DOMAIN th[t].req.yaml
    BY <2>5
  <2>7. FilesFrom(t, order) = SubSeq(order, Min(files), Len(order)) BY <1>2 DEF FilesFrom
  <2>. HIDE DEF files, f
  <2>8. /\ SubSeq(order, Min(files), Len(order)) \in Seq(Agents)
        /\ Head(SubSeq(order, Min(files), Len(order))) = order[Min(files)]
    BY <2>6
  <2>. QED BY <2>6, <2>7, <2>8
<1>. QED BY <1>1, <1>2

LEMMA NextAgentState ==
  ASSUME TypesInv, NEW t \in Threads, th[t].pc \in SyncSteps, th[t].todo # <<>>
  PROVE  /\ NextAgent(t) \in ThreadState /\ NextAgent(t).pc = "agent" /\ NextAgent(t).req = th[t].req
         /\ InRequest(NextAgent(t)) /\ Holds(NextAgent(t))
<1>. DEFINE x == NextAgent(t)
            todo == FilesFrom(t, Tail(th[t].todo))
<1>1. th[t] \in ThreadState /\ th[t].todo \in Seq(Agents) /\ th[t].req.kind = "boot"
      /\ th[t].back = "idle" /\ th[t].req \in Requests
  BY Facts DEF ThreadState, InRequest, SyncSteps
<1>2. Tail(th[t].todo) \in Seq(Agents) BY <1>1
<1>3. todo \in Seq(Agents) /\ (todo # <<>> => Head(todo) \in DOMAIN th[t].req.yaml)
  BY <1>2, FilesTyped
<1>4. /\ To(t, "agent") \in ThreadState /\ To(t, "agent").pc = "agent" /\ To(t, "agent").req = th[t].req
      /\ To(t, "agent").back = th[t].back /\ To(t, "agent").todo = th[t].todo
  BY <1>1, ToState DEF SyncSteps
<1>5. x \in ThreadState /\ x.pc = "agent" /\ x.req = th[t].req /\ x.back = "idle" /\ x.todo = todo
  <2>1. x = [To(t, "agent") EXCEPT !.todo = todo, !.n = 0, !.adopt = FALSE] BY <1>4 DEF NextAgent
  <2>. HIDE DEF x, todo
  <2>. QED BY <2>1, <1>1, <1>3, <1>4 DEF ThreadState
<1>. HIDE DEF x, todo
<1>6. InRequest(x) BY <1>1, <1>5 DEF InRequest, SyncSteps
<1>7. Holds(x) BY <1>3, <1>5 DEF Holds, SyncSteps, AtAgent
<1>. QED BY <1>5, <1>6, <1>7 DEF x

(* A step of the synchronisation, to another of its program points.          *)
LEMMA SyncToState ==
  ASSUME TypesInv, NEW t \in Threads, th[t].pc \in SyncSteps, th[t].todo # <<>>,
         NEW p \in AtAgent, p \in {"retire", "adopt"} => th[t].n # 0
  PROVE  /\ To(t, p) \in ThreadState /\ To(t, p).pc = p /\ To(t, p).req = th[t].req
         /\ InRequest(To(t, p)) /\ Holds(To(t, p))
<1>. DEFINE x == To(t, p)
<1>1. th[t] \in ThreadState /\ th[t].req.kind = "boot" /\ th[t].back = "idle" /\ th[t].req \in Requests
      /\ Head(th[t].todo) \in DOMAIN th[t].req.yaml
  BY Facts DEF ThreadState, InRequest, Holds, SyncSteps
<1>2. x \in ThreadState /\ x.pc = p /\ x.req = th[t].req /\ x.back = "idle" /\ x.todo = th[t].todo
      /\ x.n = th[t].n
  BY <1>1, ToState DEF SyncSteps, AtAgent
<1>. HIDE DEF x
<1>3. InRequest(x) BY <1>1, <1>2 DEF InRequest, SyncSteps, AtAgent
<1>4. Holds(x) BY <1>1, <1>2 DEF Holds, SyncSteps, AtAgent
<1>. QED BY <1>2, <1>3, <1>4 DEF x

LEMMA SyncFacts ==
  ASSUME NEW x, x.pc \in SyncSteps
  PROVE  Tables(x) = {"agent", "config"} /\ ~Resting(x) /\ x.pc # "run" /\ x.pc # "seed_insert"
BY DEF Tables, ConfigWriter, Resting, SyncSteps

(* The file of an agent holds a configuration of the default scope.          *)
LEMMA FileTyped ==
  ASSUME TypesInv, NEW t \in Threads, th[t].pc \in SyncSteps, th[t].todo # <<>>
  PROVE  LET a == Head(th[t].todo)
         IN  /\ a \in Agents /\ th[t].req.yaml[a] \in Contents
             /\ ScopeOf(th[t].req.yaml[a]) = DefaultScope
             /\ th[t].req.mitra \in BOOLEAN /\ th[t].began \in Nat
<1>1. th[t].req.kind = "boot" /\ th[t].req \in Requests /\ Head(th[t].todo) \in DOMAIN th[t].req.yaml
      /\ th[t].todo \in Seq(Agents) /\ th[t].began \in Nat
  BY Facts DEF ThreadState, InRequest, Holds, SyncSteps
<1>2. th[t].req.yaml \in Maps(Agents, Contents) BY <1>1, AdminRequests
<1>3. th[t].req.yaml[Head(th[t].todo)] \in Contents BY <1>1, <1>2 DEF Maps
<1>. QED BY <1>1, <1>3, AdminRequests

LEMMA SyncBeginStep ==
  ASSUME TypesInv, NEW t \in Threads, SyncBegin(t)
  PROVE  \E y : Effect(t, y) /\ Onward(th[t], y)
<1>. DEFINE todo == FilesFrom(t, AgentOrder)
            x == [To(t, "agent") EXCEPT !.todo = todo]
<1>1. th[t].pc = "lock" /\ Local(t, x) BY DEF SyncBegin
<1>2. th[t] \in ThreadState /\ th[t].req.kind = "boot" /\ th[t].req \in Requests /\ pend[t] = NoRows
      /\ th[t].back = "idle"
  BY <1>1, Facts DEF InRequest, Resting
<1>3. todo \in Seq(Agents) /\ (todo # <<>> => Head(todo) \in DOMAIN th[t].req.yaml)
  BY FilesTyped, AdminConstants
<1>4. /\ To(t, "agent") \in ThreadState /\ To(t, "agent").pc = "agent" /\ To(t, "agent").req = th[t].req
      /\ To(t, "agent").back = th[t].back
  BY <1>2, ToState DEF SyncSteps
<1>5. x \in ThreadState /\ x.pc = "agent" /\ x.req = th[t].req /\ x.back = "idle" /\ x.todo = todo
  <2>. HIDE DEF todo
  <2>. QED BY <1>2, <1>3, <1>4 DEF ThreadState
<1>. HIDE DEF x, todo
<1>6. InRequest(x) BY <1>2, <1>5 DEF InRequest, SyncSteps
<1>7. Holds(x) BY <1>3, <1>5 DEF Holds, SyncSteps, AtAgent
<1>8. Effect(t, Unwaiting(x)) BY <1>1, <1>2, <1>5, <1>6, <1>7, LocalEffect
<1>. QED BY <1>1, <1>5, <1>6, <1>7, <1>8, UnwaitingState DEF Onward

LEMMA SyncLocal ==
  ASSUME TypesInv, NEW t \in Threads, th[t].pc \in SyncSteps, NEW x \in ThreadState, InRequest(x),
         Holds(x), x.pc \in SyncSteps, Local(t, x)
  PROVE  \E y : Effect(t, y) /\ Onward(th[t], y)
<1>1. Effect(t, Unwaiting(x)) BY SyncFacts, LocalEffect
<1>. QED BY <1>1, UnwaitingState DEF Onward, SyncSteps
LEMMA SyncStatement ==
  ASSUME TypesInv, NEW t \in Threads, th[t].pc \in SyncSteps, NEW x \in ThreadState, InRequest(x),
         Holds(x), x.pc \in SyncSteps,
         NEW H, H \subseteq Keys, \A k \in H : k[1] \in {"agent", "config"},
         NEW rows, Written(rows), \A k \in DOMAIN rows : k[1] \in {"agent", "config"},
         Statement(t, H, rows, x)
  PROVE  \E y : Effect(t, y) /\ Onward(th[t], y)
<1>1. Tables(th[t]) = {"agent", "config"} /\ Tables(x) = {"agent", "config"} BY SyncFacts
<1>2. ~Resting(th[t]) /\ ~Resting(x) /\ x.pc # "run" /\ th[t].pc # "run" /\ th[t].pc # "seed_insert"
  BY SyncFacts
<1>. QED BY <1>1, <1>2, StatementEffect
LEMMA SyncAgentStep ==
  ASSUME TypesInv, NEW t \in Threads, SyncAgent(t)
  PROVE  \E y : Effect(t, y) /\ Onward(th[t], y)
<1>. DEFINE r == th[t].req
            a == Head(th[t].todo)
<1>1. th[t].pc = "agent" /\ th[t].pc \in SyncSteps /\ th[t].todo # <<>> BY DEF SyncAgent, SyncSteps
<1>2. /\ a \in Agents /\ r.yaml[a] \in Contents /\ ScopeOf(r.yaml[a]) = DefaultScope
      /\ r.mitra \in BOOLEAN /\ th[t].began \in Nat
  BY <1>1, FileTyped
<1>3. CASE AgentKey(a) \notin DOMAIN View(t)
  <2>. DEFINE x == NextAgent(t)
              k1 == AgentKey(a)
              row1 == [enabled |-> a \notin RemoteAgents \/ r.mitra, stamp |-> th[t].began]
              k2 == ConfigKey(a, DefaultScope, 1)
              row2 == [content |-> r.yaml[a], source |-> "yaml", active |-> TRUE]
              rows == Over(Only(k1, row1), Only(k2, row2))
  <2>1. Apply(t, rows, x) BY <1>3 DEF SyncAgent
  <2>2. x \in ThreadState /\ x.pc = "agent" /\ InRequest(x) /\ Holds(x) BY <1>1, NextAgentState
  <2>3. k1 \in Keys /\ k1[1] = "agent" /\ k2 \in Keys /\ k2[1] = "config" /\ k2[3] = DefaultScope
    <3>1. k1 \in Keys /\ k1[1] = "agent" BY <1>2, KeysTyped
    <3>2. 1 \in Nat \ {0} /\ DefaultScope \in Scopes BY AdminConstants
    <3>3. k2 \in Keys /\ k2[1] = "config" /\ k2[3] = DefaultScope
      <4>. HIDE DEF k1
      <4>. QED BY <1>2, <3>2, KeysTyped
    <3>. QED BY <3>1, <3>3
  <2>4. row1 \in AgentRow BY <1>2 DEF AgentRow
  <2>5. row2 \in ConfigRow /\ ScopeOf(row2.content) = DefaultScope BY <1>2 DEF ConfigRow
  <2>. HIDE DEF x, k1, row1, k2, row2
  <2>6. GoodRow(k1, row1) /\ GoodRow(k2, row2) BY <2>3, <2>4, <2>5 DEF GoodRow
  <2>7. Written(Only(k1, row1)) /\ Written(Only(k2, row2)) BY <2>3, <2>6, OnlyWritten
  <2>8. Written(rows) BY <2>7, OverWritten
  <2>9. DOMAIN rows = {k1, k2}
    <3>1. DOMAIN Only(k1, row1) = {k1} /\ DOMAIN Only(k2, row2) = {k2} BY OnlyRow
    <3>. QED BY <3>1 DEF Over
  <2>10. /\ Tables(th[t]) = {"agent", "config"} /\ Tables(x) = {"agent", "config"}
         /\ ~Resting(x) /\ x.pc # "run"
    BY <1>1, <2>2, SyncFacts DEF SyncSteps
  <2>. HIDE DEF rows
  <2>. QED BY <1>1, <2>1, <2>2, <2>3, <2>8, <2>9, <2>10, Facts, ApplyEffect
<1>4. CASE AgentKey(a) \in DOMAIN View(t)
  <2>. DEFINE x == To(t, "compare")
              H == {k \in DOMAIN View(t) : k = AgentKey(a)}
              rows == [k \in Awaited(t, H) |->
                         [enabled |-> IF a \in RemoteAgents THEN r.mitra ELSE View(t)[k].enabled,
                          stamp |-> th[t].began]]
  <2>1. Statement(t, H, rows, x) BY <1>4, SyncAgentStatement
  <2>2. x \in ThreadState /\ x.pc = "compare" /\ InRequest(x) /\ Holds(x)
    BY <1>1, SyncToState DEF AtAgent
  <2>3. H \subseteq DOMAIN View(t) /\ H \subseteq Keys /\ \A k \in H : k[1] = "agent"
    BY <1>2, Facts, KeysTyped DEF Table, Rows
  <2>4. Awaited(t, H) \subseteq H BY DEF Awaited
  <2>5. \A k \in H : View(t)[k].enabled \in BOOLEAN
    <3>1. \A k \in H : View(t)[k] \in AgentRow BY <2>3, Facts DEF Table, GoodRow
    <3>. QED BY <3>1 DEF AgentRow
  <2>6. DOMAIN rows = Awaited(t, H) /\ rows \in [DOMAIN rows -> AgentRow]
    BY <1>2, <2>4, <2>5 DEF AgentRow
  <2>. HIDE DEF x, rows, H
  <2>7. Written(rows) /\ \A k \in DOMAIN rows : k[1] = "agent" BY <2>3, <2>4, <2>6, Facts, AgentRows
  <2>8. x.pc \in SyncSteps BY <2>2 DEF SyncSteps
  <2>. QED BY <1>1, <2>1, <2>2, <2>3, <2>7, <2>8, SyncStatement
<1>. QED BY <1>3, <1>4

LEMMA SyncCompareStep ==
  ASSUME TypesInv, NEW t \in Threads, SyncCompare(t)
  PROVE  \E y : Effect(t, y) /\ Onward(th[t], y)
<1>. DEFINE files == {k \in DOMAIN View(t) : IsConfig(k, Head(th[t].todo)) /\ View(t)[k].source = "yaml"}
            v == Newest({k[4] : k \in files})
<1>1. /\ th[t].pc = "compare" /\ th[t].pc \in SyncSteps
      /\ \/ Local(t, [To(t, "reclaim") EXCEPT !.n = v])
         \/ Local(t, NextAgent(t))
         \/ \E b \in BOOLEAN : Local(t, [To(t, "renumber") EXCEPT !.adopt = b])
  BY DEF SyncCompare, Adopts, SyncSteps
<1>2. th[t].todo # <<>> BY <1>1, Facts DEF Holds, AtAgent
<1>3. th[t] \in ThreadState BY Facts
<1>4. ASSUME Local(t, [To(t, "reclaim") EXCEPT !.n = v])
      PROVE  \E y : Effect(t, y) /\ Onward(th[t], y)
  <2>. DEFINE y == To(t, "reclaim")
              x == [y EXCEPT !.n = v]
  <2>1. y \in ThreadState /\ y.pc = "reclaim" /\ InRequest(y) /\ Holds(y)
    BY <1>1, <1>2, SyncToState DEF AtAgent
  <2>2. v \in Nat
    <3>. DEFINE f == [k \in files |-> k[4]]
    <3>1. IsFiniteSet(files)
      <4>1. files \subseteq DOMAIN View(t) OBVIOUS
      <4>. HIDE DEF files
      <4>. QED BY <4>1, Facts, FS_Subset DEF Table, Rows
    <3>2. f \in [files -> Nat]
      <4>. SUFFICES ASSUME NEW k \in files
                    PROVE  k[4] \in Nat
        OBVIOUS
      <4>1. k \in Keys /\ k[1] = "config" BY Facts DEF Table, Rows, IsConfig
      <4>. QED BY <4>1, KeyKinds
    <3>3. {f[d] : d \in files} = {k[4] : k \in files} OBVIOUS
    <3>4. Newest({f[d] : d \in files}) \in Nat
      <4>. HIDE DEF f, files
      <4>. QED BY <3>1, <3>2, NewestOf
    <3>. QED BY <3>3, <3>4
  <2>. HIDE DEF y, v
  <2>3. /\ x \in ThreadState /\ x.pc = "reclaim" /\ x.req = y.req /\ x.back = y.back
        /\ x.todo = y.todo
    BY <2>1, <2>2 DEF ThreadState
  <2>. HIDE DEF x
  <2>4. InRequest(x) BY <2>1, <2>3 DEF InRequest
  <2>5. Holds(x) BY <2>1, <2>3 DEF Holds
  <2>6. x.pc \in SyncSteps BY <2>3 DEF SyncSteps
  <2>. QED BY <1>1, <1>4, <2>3, <2>4, <2>5, <2>6, SyncLocal DEF x, y
<1>5. ASSUME Local(t, NextAgent(t))
      PROVE  \E y : Effect(t, y) /\ Onward(th[t], y)
  BY <1>1, <1>2, <1>5, NextAgentState, SyncLocal DEF SyncSteps
<1>6. ASSUME NEW b \in BOOLEAN, Local(t, [To(t, "renumber") EXCEPT !.adopt = b])
      PROVE  \E y : Effect(t, y) /\ Onward(th[t], y)
  <2>. DEFINE y == To(t, "renumber")
              x == [y EXCEPT !.adopt = b]
  <2>1. y \in ThreadState /\ y.pc = "renumber" /\ InRequest(y) /\ Holds(y)
    BY <1>1, <1>2, SyncToState DEF AtAgent
  <2>. HIDE DEF y
  <2>3. /\ x \in ThreadState /\ x.pc = "renumber" /\ x.req = y.req /\ x.back = y.back
        /\ x.todo = y.todo
    BY <2>1 DEF ThreadState
  <2>. HIDE DEF x
  <2>4. InRequest(x) BY <2>1, <2>3 DEF InRequest
  <2>5. Holds(x) BY <2>1, <2>3 DEF Holds
  <2>6. x.pc \in SyncSteps BY <2>3 DEF SyncSteps
  <2>. QED BY <1>1, <1>6, <2>3, <2>4, <2>5, <2>6, SyncLocal DEF x, y
<1>. QED BY <1>1, <1>4, <1>5, <1>6

LEMMA SyncReclaimStep ==
  ASSUME TypesInv, NEW t \in Threads, SyncReclaim(t)
  PROVE  \E y : Effect(t, y) /\ Onward(th[t], y)
<1>. DEFINE a == Head(th[t].todo)
<1>1. th[t].pc \in {"reclaim", "reactivate"} /\ th[t].pc \in SyncSteps BY DEF SyncReclaim, SyncSteps
<1>2. th[t].todo # <<>> BY <1>1, Facts DEF Holds, AtAgent
<1>3. CASE th[t].pc = "reclaim"
  <2>. DEFINE x == To(t, "reactivate")
              H == {k \in DOMAIN View(t) : IsConfig(k, a) /\ k[4] # th[t].n}
              rows == [k \in Awaited(t, H) |-> [View(t)[k] EXCEPT !.active = FALSE]]
  <2>1. Statement(t, H, rows, x) BY <1>3, ReclaimStatement
  <2>2. x \in ThreadState /\ x.pc = "reactivate" /\ InRequest(x) /\ Holds(x)
    BY <1>1, <1>2, SyncToState DEF AtAgent
  <2>3. H \subseteq DOMAIN View(t) /\ H \subseteq Keys /\ \A k \in H : k[1] = "config"
    BY Facts DEF IsConfig, Table, Rows
  <2>4. Awaited(t, H) \subseteq H BY DEF Awaited
  <2>5. Written(rows) /\ \A k \in DOMAIN rows : k[1] = "config" BY <2>3, <2>4, Facts, SwitchRows
  <2>. HIDE DEF x, rows, H
  <2>6. x.pc \in SyncSteps BY <2>2 DEF SyncSteps
  <2>. QED BY <1>1, <2>1, <2>2, <2>3, <2>5, <2>6, SyncStatement
<1>4. CASE th[t].pc = "reactivate"
  <2>. DEFINE x == NextAgent(t)
              H == {k \in DOMAIN View(t) : IsConfig(k, a) /\ k[4] = th[t].n}
              rows == [k \in Awaited(t, H) |-> [View(t)[k] EXCEPT !.active = TRUE]]
  <2>1. Activate(t, a, th[t].n, x) BY <1>4 DEF SyncReclaim
  <2>2. Statement(t, H, rows, x) BY <2>1, ActivateStatement
  <2>3. x \in ThreadState /\ x.pc = "agent" /\ InRequest(x) /\ Holds(x)
    BY <1>1, <1>2, NextAgentState
  <2>4. H \subseteq DOMAIN View(t) /\ H \subseteq Keys /\ \A k \in H : k[1] = "config"
    BY Facts DEF IsConfig, Table, Rows
  <2>5. Awaited(t, H) \subseteq H BY DEF Awaited
  <2>6. Written(rows) /\ \A k \in DOMAIN rows : k[1] = "config" BY <2>4, <2>5, Facts, SwitchRows
  <2>. HIDE DEF x, rows, H
  <2>7. x.pc \in SyncSteps BY <2>3 DEF SyncSteps
  <2>. QED BY <1>1, <2>2, <2>3, <2>4, <2>6, <2>7, SyncStatement
<1>. QED BY <1>1, <1>3, <1>4

LEMMA SyncAdoptStep ==
  ASSUME TypesInv, NEW t \in Threads, SyncAdopt(t)
  PROVE  \E y : Effect(t, y) /\ Onward(th[t], y)
<1>. DEFINE a == Head(th[t].todo)
<1>1. th[t].pc \in {"renumber", "retire", "adopt"} /\ th[t].pc \in SyncSteps
  BY DEF SyncAdopt, SyncSteps
<1>2. th[t].todo # <<>> /\ th[t] \in ThreadState BY <1>1, Facts DEF Holds, AtAgent
<1>3. CASE th[t].pc = "renumber"
  <2>. DEFINE v == NextVersion(View(t), a)
              p == IF th[t].adopt THEN "retire" ELSE "adopt"
              x == [To(t, p) EXCEPT !.n = v]
  <2>1. Local(t, x) BY <1>3 DEF SyncAdopt
  <2>2. v \in Nat \ {0} BY Facts, NextVersionTyped
  <2>3. /\ To(t, p) \in ThreadState /\ To(t, p).pc = p /\ To(t, p).req = th[t].req
        /\ To(t, p).back = th[t].back /\ To(t, p).todo = th[t].todo /\ p \in {"retire", "adopt"}
    BY <1>2, ToState DEF SyncSteps
  <2>. HIDE DEF v, p
  <2>4. x \in ThreadState /\ x.pc = p /\ x.req = th[t].req /\ x.back = th[t].back /\ x.n = v
        /\ x.todo = th[t].todo
    BY <2>2, <2>3 DEF ThreadState
  <2>. HIDE DEF x
  <2>5. InRequest(x) BY <1>1, <2>3, <2>4, Facts DEF InRequest, SyncSteps
  <2>6. Holds(x) BY <1>1, <1>2, <2>2, <2>3, <2>4, Facts DEF Holds, SyncSteps
  <2>7. x.pc \in SyncSteps BY <2>3, <2>4 DEF SyncSteps
  <2>. QED BY <1>1, <2>1, <2>4, <2>5, <2>6, <2>7, SyncLocal
<1>4. CASE th[t].pc = "retire"
  <2>. DEFINE x == To(t, "adopt")
              H == {k \in DOMAIN View(t) : IsConfig(k, a) /\ View(t)[k].active}
              rows == [k \in Awaited(t, H) |-> [View(t)[k] EXCEPT !.active = FALSE]]
  <2>1. Statement(t, H, rows, x) BY <1>4, RetireStatement
  <2>2. x \in ThreadState /\ x.pc = "adopt" /\ InRequest(x) /\ Holds(x)
    BY <1>1, <1>2, <1>4, Facts, SyncToState DEF AtAgent, Holds
  <2>3. H \subseteq DOMAIN View(t) /\ H \subseteq Keys /\ \A k \in H : k[1] = "config"
    BY Facts DEF IsConfig, Table, Rows
  <2>4. Awaited(t, H) \subseteq H BY DEF Awaited
  <2>5. Written(rows) /\ \A k \in DOMAIN rows : k[1] = "config" BY <2>3, <2>4, Facts, SwitchRows
  <2>. HIDE DEF x, rows, H
  <2>6. x.pc \in SyncSteps BY <2>2 DEF SyncSteps
  <2>. QED BY <1>1, <2>1, <2>2, <2>3, <2>5, <2>6, SyncStatement
<1>5. CASE th[t].pc = "adopt"
  <2>. DEFINE x == NextAgent(t)
              k == ConfigKey(a, DefaultScope, th[t].n)
              row == [content |-> th[t].req.yaml[a], source |-> "yaml", active |-> th[t].adopt]
  <2>1. Insert(t, k, row, x) BY <1>5 DEF SyncAdopt
  <2>2. Statement(t, {}, Only(k, row), x) BY <2>1, InsertStatement
  <2>3. x \in ThreadState /\ x.pc = "agent" /\ InRequest(x) /\ Holds(x)
    BY <1>1, <1>2, NextAgentState
  <2>4. /\ a \in Agents /\ th[t].req.yaml[a] \in Contents /\ ScopeOf(th[t].req.yaml[a]) = DefaultScope
        /\ th[t].n \in Nat \ {0} /\ th[t].adopt \in BOOLEAN
    BY <1>1, <1>2, <1>5, FileTyped, Facts DEF Holds, ThreadState
  <2>5. k \in Keys /\ k[1] = "config" /\ k[3] = DefaultScope BY <2>4, KeysTyped, AdminConstants, SMTT(60)
  <2>6. row \in ConfigRow /\ ScopeOf(row.content) = DefaultScope BY <2>4 DEF ConfigRow
  <2>. HIDE DEF x, row, k
  <2>7. GoodRow(k, row) BY <2>5, <2>6 DEF GoodRow
  <2>8. Written(Only(k, row)) BY <2>5, <2>7, OnlyWritten
  <2>9. DOMAIN Only(k, row) = {k} BY OnlyRow
  <2>10. x.pc \in SyncSteps BY <2>3 DEF SyncSteps
  <2>. QED BY <1>1, <2>2, <2>3, <2>5, <2>8, <2>9, <2>10, SyncStatement
<1>. QED BY <1>1, <1>3, <1>4, <1>5

LEMMA SyncOrphansStep ==
  ASSUME TypesInv, NEW t \in Threads, SyncOrphans(t)
  PROVE  \E y : Effect(t, y) /\ Onward(th[t], y)
<1>. DEFINE x == To(t, "sync_commit")
            H == {k \in DOMAIN View(t) : k[1] = "agent" /\ (th[t].wait # {} \/ (k[2] \notin DOMAIN th[t].req.yaml /\ \E j \in ActiveIn(View(t), k[2]) : View(t)[j].source = "yaml"))}
            rows == [k \in Awaited(t, H) |-> [enabled |-> FALSE, stamp |-> th[t].began]]
<1>1. th[t].pc = "agent" /\ th[t].pc \in SyncSteps BY DEF SyncOrphans, SyncSteps
<1>2. Statement(t, H, rows, x) BY OrphansStatement
<1>3. x \in ThreadState /\ x.pc = "sync_commit" /\ x.req = th[t].req /\ x.back = th[t].back
      /\ x.todo = th[t].todo
  BY Facts, ToState DEF SyncSteps
<1>4. H \subseteq DOMAIN View(t) /\ H \subseteq Keys /\ \A k \in H : k[1] = "agent"
  BY Facts DEF Table, Rows
<1>5. Awaited(t, H) \subseteq H BY DEF Awaited
<1>6. DOMAIN rows = Awaited(t, H) /\ rows \in [DOMAIN rows -> AgentRow]
  BY Facts DEF AgentRow, ThreadState
<1>. HIDE DEF x, rows, H
<1>7. Written(rows) /\ \A k \in DOMAIN rows : k[1] = "agent" BY <1>4, <1>5, <1>6, Facts, AgentRows
<1>8. InRequest(x) BY <1>1, <1>3, Facts DEF InRequest, SyncSteps
<1>9. Holds(x) BY <1>1, <1>3, Facts DEF Holds, SyncSteps, AtAgent
<1>10. x.pc \in SyncSteps BY <1>3 DEF SyncSteps
<1>. QED BY <1>1, <1>2, <1>3, <1>4, <1>7, <1>8, <1>9, <1>10, SyncStatement
(* Turns and capabilities.                                                   *)

LEMMA AtRun ==
  ASSUME TypesInv, NEW t \in Threads, th[t].pc = "run",
         th[t].req.kind \notin {"activate", "create", "status"}
  PROVE  /\ pend[t] = NoRows /\ th[t] \in ThreadState /\ th[t].back = "idle"
         /\ th[t].req \in Requests /\ InRequest(th[t])
BY Facts DEF Started

LEMMA FromRun ==
  ASSUME TypesInv, NEW t \in Threads, th[t].pc = "run",
         th[t].req.kind \notin {"activate", "create", "status"},
         NEW x \in ThreadState, InRequest(x), Holds(x), x.pc # "store", Local(t, x)
  PROVE  \E y : Effect(t, y) /\ Onward(th[t], y)
<1>1. Effect(t, Unwaiting(x)) BY AtRun, LocalEffect
<1>. QED BY <1>1, UnwaitingState DEF Onward
LEMMA FinishFromRun ==
  ASSUME TypesInv, NEW t \in Threads, th[t].pc = "run",
         th[t].req.kind \notin {"activate", "create", "status"}, Finish(t)
  PROVE  \E y : Effect(t, y) /\ Onward(th[t], y)
<1>1. Idle.pc = "idle" BY DEF Idle
<1>. QED BY <1>1, FromRun, IdleState DEF Finish

LEMMA ReloadAgentsStep ==
  ASSUME TypesInv, NEW t \in Threads, reload_agents(t)
  PROVE  \E y : Effect(t, y) /\ Onward(th[t], y)
<1>. DEFINE x == To(t, "reload")
<1>1. th[t].req.kind = "reload" /\ th[t].pc = "run" /\ Local(t, x) BY DEF reload_agents
<1>2. x \in ThreadState /\ x.pc = "reload" /\ x.req = th[t].req /\ x.back = "idle"
  BY <1>1, AtRun, ToState
<1>. HIDE DEF x
<1>3. InRequest(x) BY <1>1, <1>2, AtRun DEF InRequest, SyncSteps
<1>4. Holds(x) BY <1>2 DEF Holds, SyncSteps, AtAgent
<1>. QED BY <1>1, <1>2, <1>3, <1>4, FromRun

LEMMA TurnSelectStep ==
  ASSUME TypesInv, NEW t \in Threads, TurnSelect(t)
  PROVE  \E y : Effect(t, y) /\ Onward(th[t], y)
<1>. DEFINE r == th[t].req
            snap == reg[th[t].proc].snap
            one == Only(r.agent, snap[r.agent])
            x == [To(t, "resolve") EXCEPT !.read.snap = one]
<1>1. r.kind = "turn" /\ th[t].pc = "run" BY DEF TurnSelect
<1>2. CASE r.agent \in DOMAIN snap
  <2>1. Local(t, x) BY <1>2 DEF TurnSelect
  <2>2. snap \in Served BY <1>1, AtRun DEF TypesInv, RegistriesOK, RegistryState, ThreadState
  <2>3. one \in Served /\ DOMAIN one = {r.agent}
    <3>1. /\ r.agent \in Agents /\ snap[r.agent] \in Contents
          /\ ScopeOf(snap[r.agent]) = DefaultScope
      BY <1>2, <2>2 DEF Served, Maps
    <3>2. DOMAIN one = {r.agent} /\ one[r.agent] = snap[r.agent] /\ one = [j \in DOMAIN one |-> one[j]]
      BY OnlyRow
    <3>. HIDE DEF one, snap
    <3>3. one \in [{r.agent} -> Contents] /\ {r.agent} \in SUBSET Agents BY <3>1, <3>2
    <3>4. one \in Maps(Agents, Contents) BY <3>3 DEF Maps
    <3>. QED BY <3>1, <3>2, <3>4 DEF Served
  <2>. HIDE DEF one, snap
  <2>4. /\ To(t, "resolve") \in ThreadState /\ To(t, "resolve").pc = "resolve"
        /\ To(t, "resolve").req = r /\ To(t, "resolve").back = "idle"
    BY <1>1, AtRun, ToState
  <2>5. /\ x \in ThreadState /\ x.pc = "resolve" /\ x.req = r /\ x.back = "idle"
        /\ x.read.snap = one
    BY <2>3, <2>4 DEF ThreadState, Read
  <2>. HIDE DEF x
  <2>6. InRequest(x) BY <1>1, <2>5, AtRun DEF InRequest, SyncSteps
  <2>7. Holds(x) BY <1>1, <2>3, <2>5 DEF Holds, SyncSteps, AtAgent
  <2>. QED BY <1>1, <2>1, <2>5, <2>6, <2>7, FromRun
<1>3. CASE r.agent \notin DOMAIN snap
  <2>1. Finish(t) BY <1>3 DEF TurnSelect
  <2>. QED BY <1>1, <2>1, FinishFromRun
<1>. QED BY <1>2, <1>3

LEMMA ResolveEffect ==
  ASSUME TypesInv, NEW t \in Threads, resolve_for_scope(t)
  PROVE  Effect(t, Idle) /\ th[t].pc = "resolve"
<1>1. th[t].pc = "resolve" /\ Finish(t) BY DEF resolve_for_scope
<1>2. pend[t] = NoRows BY <1>1, Facts DEF Resting
<1>. QED BY <1>1, <1>2, FinishEffect

(* Capability requests write no agents.                                      *)
CapSteps == {"insert", "update", "delete", "cascade", "clear", "put_insert", "commit"}
LEMMA CapFacts ==
  ASSUME NEW x, x.req.kind \in {"cap_create", "cap_update", "cap_delete", "put"}, x.pc \in CapSteps
  PROVE  Tables(x) = {"cap", "member"} /\ ~Resting(x) /\ x.pc # "run"
BY DEF Tables, ConfigWriter, Resting, SyncSteps, CapSteps

LEMMA CapStatement ==
  ASSUME TypesInv, NEW t \in Threads, th[t].pc \in CapSteps,
         th[t].req.kind \in {"cap_create", "cap_update", "cap_delete", "put"},
         NEW x \in ThreadState, InRequest(x), Holds(x), x.req = th[t].req, x.pc \in CapSteps,
         NEW H, H \subseteq Keys, \A k \in H : k[1] \in {"cap", "member"},
         NEW rows, Written(rows), \A k \in DOMAIN rows : k[1] \in {"cap", "member"},
         Statement(t, H, rows, x)
  PROVE  \E y : Effect(t, y) /\ Onward(th[t], y)
<1>1. Tables(th[t]) = {"cap", "member"} /\ Tables(x) = {"cap", "member"} BY CapFacts
<1>2. ~Resting(th[t]) /\ ~Resting(x) /\ x.pc # "run" /\ th[t].pc # "run" /\ th[t].pc # "seed_insert"
  BY CapFacts DEF CapSteps
<1>. QED BY <1>1, <1>2, StatementEffect

LEMMA CreateCapabilityStep ==
  ASSUME TypesInv, NEW t \in Threads, create_capability(t)
  PROVE  \E y : Effect(t, y) /\ Onward(th[t], y)
<1>. DEFINE r == th[t].req
<1>1. r.kind = "cap_create" /\ th[t].pc \in {"run", "insert"} BY DEF create_capability, Writes
<1>2. CASE th[t].pc = "run" /\ Finish(t) BY <1>1, <1>2, FinishFromRun
<1>3. CASE th[t].pc = "run" /\ ~Finish(t)
  <2>. DEFINE x == To(t, "insert")
  <2>1. Local(t, x) BY <1>1, <1>3 DEF create_capability, Writes
  <2>2. x \in ThreadState /\ x.pc = "insert" /\ x.req = r /\ x.back = "idle"
    BY <1>1, <1>3, AtRun, ToState
  <2>. HIDE DEF x
  <2>3. InRequest(x) BY <1>1, <1>3, <2>2, AtRun DEF InRequest, SyncSteps
  <2>4. Holds(x) BY <1>1, <2>2 DEF Holds, SyncSteps, AtAgent
  <2>. QED BY <1>1, <1>3, <2>1, <2>2, <2>3, <2>4, FromRun
<1>4. CASE th[t].pc = "insert"
  <2>. DEFINE x == To(t, "commit")
              k == CapKey(r.scope)
              row == [id |-> made + 1, status |-> r.status]
  <2>1. Insert(t, k, row, x) BY <1>1, <1>4 DEF create_capability, Writes
  <2>2. Statement(t, {}, Only(k, row), x) BY <2>1, InsertStatement
  <2>3. x \in ThreadState /\ x.pc = "commit" /\ x.req = r /\ x.back = "idle" /\ r \in Requests
    BY <1>1, <1>4, Facts, ToState
  <2>4. r.scope \in Scopes /\ r.status \in Statuses /\ made \in Nat
    BY <1>1, <2>3, AdminRequests DEF TypesInv, RegistriesOK
  <2>5. k \in Keys /\ k[1] = "cap" BY <2>4, KeysTyped
  <2>6. row \in CapRow BY <2>4 DEF CapRow
  <2>. HIDE DEF x, row, k
  <2>7. InRequest(x) BY <1>1, <2>3 DEF InRequest, SyncSteps
  <2>8. Holds(x) BY <1>1, <2>3 DEF Holds, SyncSteps, AtAgent
  <2>9. Written(Only(k, row)) BY <2>5, <2>6, OnlyWritten DEF GoodRow
  <2>10. DOMAIN Only(k, row) = {k} BY OnlyRow
  <2>. QED BY <1>1, <1>4, <2>2, <2>3, <2>5, <2>7, <2>8, <2>9, <2>10, CapStatement DEF CapSteps
<1>. QED BY <1>1, <1>2, <1>3, <1>4

LEMMA ReadCapabilityStep ==
  ASSUME TypesInv, NEW t \in Threads, NEW kind, NEW next, ReadCapability(t, kind, next),
         <<kind, next>> \in {<<"cap_update", "update">>, <<"cap_delete", "delete">>}
  PROVE  \E y : Effect(t, y) /\ Onward(th[t], y)
<1>. DEFINE r == th[t].req
<1>1. r.kind = kind /\ th[t].pc = "run" BY DEF ReadCapability, Writes
<1>2. CASE Finish(t) BY <1>1, <1>2, FinishFromRun
<1>3. CASE ~Finish(t)
  <2>1. PICK k \in Row(t) : Local(t, [To(t, next) EXCEPT !.n = db[k].id])
    BY <1>3 DEF ReadCapability
  <2>. DEFINE x == [To(t, next) EXCEPT !.n = db[k].id]
  <2>2. r.scope \in Scopes BY <1>1, AtRun, AdminRequests
  <2>3. k \in DOMAIN db /\ k[1] = "cap" BY <2>1, <2>2, KeysTyped DEF Row
  <2>4. db[k] \in CapRow BY <2>3 DEF TypesInv, TablesOK, Table, GoodRow
  <2>5. db[k].id \in Nat BY <2>4 DEF CapRow
  <2>6. /\ To(t, next) \in ThreadState /\ To(t, next).pc = next /\ To(t, next).req = r
        /\ To(t, next).back = "idle"
    BY <1>1, AtRun, ToState
  <2>7. x \in ThreadState /\ x.pc = next /\ x.req = r /\ x.back = "idle"
    BY <2>5, <2>6 DEF ThreadState
  <2>8. Local(t, x) BY <2>1
  <2>. HIDE DEF x
  <2>9. InRequest(x) BY <1>1, <2>7, AtRun DEF InRequest, SyncSteps
  <2>10. Holds(x) BY <1>1, <2>7 DEF Holds, SyncSteps, AtAgent
  <2>. QED BY <1>1, <2>7, <2>8, <2>9, <2>10, FromRun
<1>. QED BY <1>2, <1>3

LEMMA UpdateCapabilityStep ==
  ASSUME TypesInv, NEW t \in Threads, update_capability(t)
  PROVE  \E y : Effect(t, y) /\ Onward(th[t], y)
<1>. DEFINE r == th[t].req
<1>1. CASE ReadCapability(t, "cap_update", "update") BY <1>1, ReadCapabilityStep
<1>2. CASE ~ReadCapability(t, "cap_update", "update")
  <2>. DEFINE x == To(t, "commit")
              H == {k \in DOMAIN View(t) : ById(t, k)}
              rows == [k \in Awaited(t, H) |-> [View(t)[k] EXCEPT !.status = r.status]]
  <2>1. r.kind = "cap_update" /\ th[t].pc = "update" BY <1>2 DEF update_capability, Writes
  <2>2. Statement(t, H, rows, x) BY <2>1, UpdateCapabilityStatement
  <2>3. x \in ThreadState /\ x.pc = "commit" /\ x.req = r /\ x.back = "idle" /\ r \in Requests
    BY <2>1, Facts, ToState
  <2>4. r.status \in Statuses BY <2>1, <2>3, AdminRequests
  <2>5. H \subseteq DOMAIN View(t) /\ H \subseteq Keys /\ \A k \in H : k[1] = "cap"
    BY Facts DEF ById, Table, Rows
  <2>6. Awaited(t, H) \subseteq H BY DEF Awaited
  <2>7. DOMAIN rows = Awaited(t, H) /\ rows = [k \in DOMAIN rows |-> rows[k]] OBVIOUS
  <2>8. ASSUME NEW k \in DOMAIN rows
        PROVE  GoodRow(k, rows[k])
    <3>1. k \in DOMAIN View(t) /\ k[1] = "cap" BY <2>5, <2>6, <2>7
    <3>2. View(t)[k] \in CapRow BY <3>1, Facts DEF Table, GoodRow
    <3>3. rows[k] = [View(t)[k] EXCEPT !.status = r.status] BY <2>8
    <3>4. rows[k] \in CapRow BY <2>4, <3>2, <3>3 DEF CapRow
    <3>. QED BY <3>1, <3>4 DEF GoodRow
  <2>. HIDE DEF x, rows, H
  <2>9. Written(rows)
    <3>1. IsFiniteSet(DOMAIN rows) BY <2>5, <2>6, <2>7, Facts, FS_Subset DEF Table, Rows
    <3>. QED BY <3>1, <2>5, <2>6, <2>7, <2>8 DEF Written, Rows
  <2>10. InRequest(x) BY <2>1, <2>3 DEF InRequest, SyncSteps
  <2>11. Holds(x) BY <2>1, <2>3 DEF Holds, SyncSteps, AtAgent
  <2>. QED BY <2>1, <2>2, <2>3, <2>5, <2>6, <2>7, <2>9, <2>10, <2>11, CapStatement DEF CapSteps
<1>. QED BY <1>1, <1>2
LEMMA DeleteCapabilityStep ==
  ASSUME TypesInv, NEW t \in Threads, delete_capability(t)
  PROVE  \E y : Effect(t, y) /\ Onward(th[t], y)
<1>. DEFINE r == th[t].req
<1>1. CASE ReadCapability(t, "cap_delete", "delete") BY <1>1, ReadCapabilityStep
<1>2. CASE ~ReadCapability(t, "cap_delete", "delete") /\ th[t].pc = "delete"
  <2>. DEFINE x == To(t, "cascade")
              H == {k \in DOMAIN View(t) : ById(t, k)}
              rows == [k \in Awaited(t, H) |-> Gone]
  <2>1. r.kind = "cap_delete" BY <1>2 DEF delete_capability, Writes
  <2>2. Statement(t, H, rows, x) BY <1>2, DeleteCapabilityStatement
  <2>3. x \in ThreadState /\ x.pc = "cascade" /\ x.req = r /\ x.back = "idle" /\ r \in Requests
    BY <1>2, Facts, ToState
  <2>4. H \subseteq DOMAIN View(t) /\ H \subseteq Keys /\ \A k \in H : k[1] = "cap"
    BY Facts DEF ById, Table, Rows
  <2>5. Awaited(t, H) \subseteq H BY DEF Awaited
  <2>6. Written(rows) /\ \A k \in DOMAIN rows : k[1] \in {"cap", "member"}
    BY <2>4, <2>5, Facts, GoneRows
  <2>. HIDE DEF x, rows, H
  <2>7. InRequest(x) BY <2>1, <2>3 DEF InRequest, SyncSteps
  <2>8. Holds(x) BY <2>1, <2>3 DEF Holds, SyncSteps, AtAgent
  <2>. QED BY <1>2, <2>1, <2>2, <2>3, <2>4, <2>6, <2>7, <2>8, CapStatement DEF CapSteps
<1>3. CASE ~ReadCapability(t, "cap_delete", "delete") /\ th[t].pc # "delete"
  <2>. DEFINE x == To(t, "commit")
              H == {k \in DOMAIN View(t) : IsMember(k, th[t].n)}
              rows == [k \in Awaited(t, H) |-> Gone]
  <2>1. r.kind = "cap_delete" /\ th[t].pc = "cascade" BY <1>3 DEF delete_capability, Writes
  <2>2. Statement(t, H, rows, x) BY <2>1, CascadeStatement
  <2>3. x \in ThreadState /\ x.pc = "commit" /\ x.req = r /\ x.back = "idle" /\ r \in Requests
    BY <2>1, Facts, ToState
  <2>4. H \subseteq DOMAIN View(t) /\ H \subseteq Keys /\ \A k \in H : k[1] = "member"
    BY Facts DEF IsMember, Table, Rows
  <2>5. Awaited(t, H) \subseteq H BY DEF Awaited
  <2>6. Written(rows) /\ \A k \in DOMAIN rows : k[1] \in {"cap", "member"}
    BY <2>4, <2>5, Facts, GoneRows
  <2>. HIDE DEF x, rows, H
  <2>7. InRequest(x) BY <2>1, <2>3 DEF InRequest, SyncSteps
  <2>8. Holds(x) BY <2>1, <2>3 DEF Holds, SyncSteps, AtAgent
  <2>. QED BY <2>1, <2>2, <2>3, <2>4, <2>6, <2>7, <2>8, CapStatement DEF CapSteps
<1>. QED BY <1>1, <1>2, <1>3

LEMMA PositionTyped ==
  ASSUME NEW list \in Seq(Agents), NEW todo \in Seq(Agents), Len(todo) <= Len(list)
  PROVE  [order |-> Position(list, todo)] \in MemberRow
<1>1. Len(list) - Len(todo) + 1 \in Nat \ {0} OBVIOUS
<1>. QED BY <1>1 DEF Position, MemberRow

LEMMA SetAgentsStep ==
  ASSUME TypesInv, NEW t \in Threads, set_capability_agents(t)
  PROVE  \E y : Effect(t, y) /\ Onward(th[t], y)
<1>. DEFINE r == th[t].req
<1>1. r.kind = "put" /\ th[t].pc \in {"run", "clear", "put_insert"}
  BY DEF set_capability_agents, Writes
<1>2. th[t] \in ThreadState /\ th[t].back = "idle" /\ r \in Requests /\ r.agents \in Seq(Agents)
      /\ r.scope \in Scopes
  BY <1>1, Facts, AdminRequests
<1>3. CASE th[t].pc = "run" /\ Finish(t) BY <1>1, <1>3, FinishFromRun
<1>4. CASE th[t].pc = "run" /\ ~Finish(t)
  <2>1. PICK k \in Row(t) : Local(t, [To(t, "clear") EXCEPT !.n = db[k].id, !.todo = r.agents])
    BY <1>1, <1>4 DEF set_capability_agents, Writes
  <2>. DEFINE x == [To(t, "clear") EXCEPT !.n = db[k].id, !.todo = r.agents]
  <2>2. k \in DOMAIN db /\ k[1] = "cap" BY <2>1, <1>2, KeysTyped DEF Row
  <2>3. db[k] \in CapRow BY <2>2 DEF TypesInv, TablesOK, Table, GoodRow
  <2>4. db[k].id \in Nat \ {0} BY <2>3 DEF CapRow
  <2>5. /\ To(t, "clear") \in ThreadState /\ To(t, "clear").pc = "clear" /\ To(t, "clear").req = r
        /\ To(t, "clear").back = "idle"
    BY <1>2, ToState
  <2>6. x \in ThreadState /\ x.pc = "clear" /\ x.req = r /\ x.back = "idle" /\ x.n = db[k].id
        /\ x.todo = r.agents
    BY <2>4, <2>5, <1>2 DEF ThreadState
  <2>7. Local(t, x) BY <2>1
  <2>. HIDE DEF x
  <2>8. InRequest(x) BY <1>1, <1>2, <2>6 DEF InRequest, SyncSteps
  <2>9. Holds(x) BY <1>1, <1>2, <2>4, <2>6 DEF Holds, SyncSteps, AtAgent
  <2>. QED BY <1>1, <1>4, <2>6, <2>7, <2>8, <2>9, FromRun
<1>5. CASE th[t].pc = "clear"
  <2>. DEFINE x == To(t, "put_insert")
              H == {k \in DOMAIN View(t) : IsMember(k, th[t].n)}
              rows == [k \in Awaited(t, H) |-> Gone]
  <2>1. Clear(t) BY <1>1, <1>5 DEF set_capability_agents, Writes
  <2>2. Statement(t, H, rows, x) BY <2>1, ClearStatement
  <2>3. x \in ThreadState /\ x.pc = "put_insert" /\ x.req = r /\ x.back = "idle" /\ x.n = th[t].n
        /\ x.todo = th[t].todo
    BY <1>2, ToState
  <2>4. H \subseteq DOMAIN View(t) /\ H \subseteq Keys /\ \A k \in H : k[1] = "member"
    BY Facts DEF IsMember, Table, Rows
  <2>5. Awaited(t, H) \subseteq H BY DEF Awaited
  <2>6. Written(rows) /\ \A k \in DOMAIN rows : k[1] \in {"cap", "member"}
    BY <2>4, <2>5, Facts, GoneRows
  <2>. HIDE DEF x, rows, H
  <2>7. InRequest(x) BY <1>1, <1>2, <2>3 DEF InRequest, SyncSteps
  <2>8. Holds(x) BY <1>1, <1>5, <2>3, Facts DEF Holds, SyncSteps, AtAgent
  <2>. QED BY <1>1, <1>5, <2>2, <2>3, <2>4, <2>6, <2>7, <2>8, CapStatement DEF CapSteps
<1>6. CASE th[t].pc = "put_insert"
  <2>. DEFINE x == [th[t] EXCEPT !.todo = Tail(@)]
              k == MemberKey(th[t].n, Head(th[t].todo))
              row == [order |-> Position(r.agents, th[t].todo)]
  <2>1. th[t].todo # <<>> /\ Insert(t, k, row, x) BY <1>1, <1>6 DEF set_capability_agents, Writes
  <2>2. Statement(t, {}, Only(k, row), x) BY <2>1, InsertStatement
  <2>3. /\ th[t].todo \in Seq(Agents) /\ th[t].n \in Nat \ {0} /\ Len(th[t].todo) <= Len(r.agents)
    BY <1>2, <1>6, Facts DEF Holds, ThreadState
  <2>4. /\ Head(th[t].todo) \in Agents /\ Tail(th[t].todo) \in Seq(Agents)
        /\ Len(Tail(th[t].todo)) <= Len(r.agents)
    BY <1>2, <2>1, <2>3, HeadTailProperties
  <2>5. /\ x \in ThreadState /\ x.pc = "put_insert" /\ x.req = r /\ x.back = "idle" /\ x.n = th[t].n
        /\ x.todo = Tail(th[t].todo)
    BY <1>2, <1>6, <2>4 DEF ThreadState
  <2>6. k \in Keys /\ k[1] = "member" BY <2>3, <2>4, KeysTyped
  <2>7. row \in MemberRow BY <1>2, <2>3, PositionTyped
  <2>. HIDE DEF x, row, k
  <2>8. InRequest(x) BY <1>1, <1>2, <2>5 DEF InRequest, SyncSteps
  <2>9. Holds(x) BY <1>1, <1>6, <2>3, <2>4, <2>5 DEF Holds, SyncSteps, AtAgent
  <2>10. Written(Only(k, row)) BY <2>6, <2>7, OnlyWritten DEF GoodRow
  <2>11. DOMAIN Only(k, row) = {k} BY OnlyRow
  <2>. QED BY <1>1, <1>6, <2>2, <2>5, <2>6, <2>8, <2>9, <2>10, <2>11, CapStatement DEF CapSteps
<1>. QED BY <1>1, <1>3, <1>4, <1>5, <1>6

(* The seed.                                                                 *)
LEMMA SeedReadStep ==
  ASSUME TypesInv, NEW t \in Threads, SeedRead(t)
  PROVE  \E y : Effect(t, y) /\ Onward(th[t], y)
<1>. DEFINE i == db[CapKey(DefaultScope)].id
            y == To(t, "seed_insert")
            x == [y EXCEPT !.n = i, !.todo = SeedList]
            z == To(t, "reload")
<1>1. /\ th[t].pc = "seed"
      /\ \/ CapKey(DefaultScope) \in DOMAIN db /\ Local(t, x)
         \/ Local(t, z)
  BY DEF SeedRead
<1>2. /\ th[t] \in ThreadState /\ th[t].back = "idle" /\ th[t].req \in Requests
      /\ th[t].req.kind = "boot" /\ pend[t] = NoRows
  BY <1>1, Facts DEF InRequest, Resting
<1>3. CASE CapKey(DefaultScope) \in DOMAIN db /\ Local(t, x)
  <2>1. db[CapKey(DefaultScope)] \in CapRow
    BY <1>3, KeysTyped, AdminConstants DEF TypesInv, TablesOK, Table, GoodRow
  <2>2. i \in Nat \ {0} BY <2>1 DEF CapRow
  <2>3. y \in ThreadState /\ y.pc = "seed_insert" /\ y.req = th[t].req /\ y.back = "idle"
        /\ y.proc = th[t].proc
    BY <1>2, ToState
  <2>. HIDE DEF y, i
  <2>4. /\ x \in ThreadState /\ x.pc = "seed_insert" /\ x.req = th[t].req /\ x.back = "idle" /\ x.n = i
        /\ x.todo = SeedList /\ x.proc = th[t].proc
    BY <2>2, <2>3, AdminRequests DEF ThreadState
  <2>5. Local(t, x) BY <1>3
  <2>. HIDE DEF x
  <2>6. InRequest(x) BY <1>2, <2>4 DEF InRequest, SyncSteps
  <2>7. Holds(x) BY <2>2, <2>4, AdminRequests DEF Holds, SyncSteps, AtAgent
  <2>8. Effect(t, Unwaiting(x)) BY <1>2, <2>4, <2>5, <2>6, <2>7, LocalEffect
  <2>. QED BY <1>1, <2>4, <2>6, <2>7, <2>8, UnwaitingState DEF Onward
<1>4. CASE Local(t, z)
  <2>1. z \in ThreadState /\ z.pc = "reload" /\ z.req = th[t].req /\ z.back = "idle"
        /\ z.proc = th[t].proc
    BY <1>2, ToState
  <2>. HIDE DEF z
  <2>2. InRequest(z) BY <1>2, <2>1 DEF InRequest, SyncSteps
  <2>3. Holds(z) BY <2>1 DEF Holds, SyncSteps, AtAgent
  <2>4. Effect(t, Unwaiting(z)) BY <1>2, <1>4, <2>1, <2>2, <2>3, LocalEffect
  <2>. QED BY <1>1, <2>1, <2>2, <2>3, <2>4, UnwaitingState DEF Onward
<1>. QED BY <1>1, <1>3, <1>4

LEMMA SeedInsertStep ==
  ASSUME TypesInv, NEW t \in Threads, SeedInsert(t)
  PROVE  \E y : Effect(t, y) /\ Onward(th[t], y)
<1>. DEFINE a == Head(th[t].todo)
            x == [th[t] EXCEPT !.todo = Tail(@)]
            k == MemberKey(th[t].n, a)
            row == [order |-> Position(SeedList, th[t].todo)]
            busy == Conflicts(t, Only(k, [order |-> 0]))
<1>1. th[t].pc = "seed_insert" /\ th[t].todo # <<>> BY DEF SeedInsert
<1>2. \/ Local(t, x)
      \/ busy # {} /\ Block(t, {}, busy)
      \/ Apply(t, Only(k, row), x)
  BY DEF SeedInsert
<1>3. /\ th[t] \in ThreadState /\ th[t].back = "idle" /\ th[t].req \in Requests
      /\ th[t].req.kind = "boot" /\ InRequest(th[t]) /\ Holds(th[t])
      /\ th[t].todo \in Seq(Agents) /\ th[t].n \in Nat \ {0} /\ Len(th[t].todo) <= Len(SeedList)
  BY <1>1, Facts DEF InRequest, Holds, ThreadState
<1>4. /\ a \in Agents /\ Tail(th[t].todo) \in Seq(Agents) /\ Len(Tail(th[t].todo)) <= Len(SeedList)
  BY <1>1, <1>3, AdminRequests, HeadTailProperties
<1>5. /\ x \in ThreadState /\ x.pc = "seed_insert" /\ x.req = th[t].req /\ x.back = "idle"
      /\ x.n = th[t].n /\ x.todo = Tail(th[t].todo) /\ x.proc = th[t].proc
  BY <1>1, <1>3, <1>4 DEF ThreadState
<1>6. k \in Keys /\ k[1] = "member" BY <1>3, <1>4, KeysTyped
<1>7. row \in MemberRow BY <1>3, <1>4, AdminRequests, PositionTyped
<1>. HIDE DEF x, k, row
<1>8. InRequest(x) /\ Holds(x)
  BY <1>1, <1>3, <1>4, <1>5 DEF InRequest, Holds, SyncSteps, AtAgent
<1>9. Tables(th[t]) = {"cap", "member"} /\ Tables(x) = {"cap", "member"} /\ ~Resting(x) /\ ~Resting(th[t])
  BY <1>1, <1>3, <1>5 DEF Tables, ConfigWriter, Resting, SyncSteps
<1>10. CASE Local(t, x)
  <2>1. Effect(t, Unwaiting(x)) BY <1>5, <1>8, <1>9, <1>10, LocalEffect
  <2>. QED BY <1>1, <1>5, <1>8, <2>1, UnwaitingState DEF Onward
<1>11. CASE busy # {} /\ Block(t, {}, busy)
  <2>1. DOMAIN Only(k, [order |-> 0]) = {k} BY OnlyRow
  <2>2. \A u \in Threads : DOMAIN pend[u] \subseteq Keys BY DEF TypesInv, TablesOK, Written, Rows
  <2>3. \A j \in busy : j \in Keys /\ j[1] \in {"cap", "member"}
    BY <1>6, <2>1, <2>2, ConflictKinds
  <2>4. busy \in SUBSET Keys BY <2>3
  <2>. HIDE DEF busy
  <2>. QED BY <1>1, <1>3, <1>9, <1>11, <2>3, <2>4, Facts, BlockEffect
<1>12. CASE Apply(t, Only(k, row), x)
  <2>1. Written(Only(k, row)) BY <1>6, <1>7, OnlyWritten DEF GoodRow
  <2>2. DOMAIN Only(k, row) = {k} BY OnlyRow
  <2>. QED BY <1>1, <1>3, <1>5, <1>6, <1>8, <1>9, <1>12, <2>1, <2>2, ApplyEffect
<1>. QED BY <1>2, <1>10, <1>11, <1>12

LEMMA CommitMembersStep ==
  ASSUME TypesInv, NEW t \in Threads, CommitMembers(t)
  PROVE  \E y : Effect(t, y) /\ Onward(th[t], y)
<1>. DEFINE x == IF th[t].req.kind = "boot" THEN To(t, "reload") ELSE Idle
<1>1. th[t].pc \in {"put_insert", "seed_insert"} /\ Commit(t, x) BY DEF CommitMembers
<1>2. /\ th[t] \in ThreadState /\ th[t].back = "idle" /\ th[t].req \in Requests
      /\ th[t].pc = "seed_insert" <=> th[t].req.kind = "boot"
  BY <1>1, Facts DEF InRequest
<1>3. x \in ThreadState /\ InRequest(x) /\ Holds(x) /\ x.pc \in {"reload", "idle"}
      /\ (th[t].req.kind = "boot" => x.pc = "reload" /\ x.proc = th[t].proc)
  <2>1. CASE th[t].req.kind = "boot"
    <3>. DEFINE z == To(t, "reload")
    <3>1. z \in ThreadState /\ z.pc = "reload" /\ z.req = th[t].req /\ z.back = "idle"
          /\ z.proc = th[t].proc
      BY <1>2, ToState
    <3>. HIDE DEF z
    <3>2. InRequest(z) /\ Holds(z) BY <1>2, <3>1 DEF InRequest, Holds, SyncSteps, AtAgent
    <3>3. x = z BY <2>1 DEF z
    <3>. QED BY <3>1, <3>2, <3>3
  <2>2. CASE th[t].req.kind # "boot"
    <3>1. x = Idle /\ Idle.pc = "idle" BY <2>2 DEF Idle
    <3>. QED BY <2>2, <3>1, IdleState
  <2>. QED BY <2>1, <2>2
<1>. HIDE DEF x
<1>4. Effect(t, Unwaiting(x)) BY <1>1, <1>3, CommitEffect
<1>. QED BY <1>1, <1>2, <1>3, <1>4, UnwaitingState DEF Onward

LEMMA CommitCapabilityStep ==
  ASSUME TypesInv, NEW t \in Threads, CommitCapability(t)
  PROVE  \E y : Effect(t, y) /\ Onward(th[t], y)
<1>1. th[t].pc = "commit" /\ Commit(t, Idle) BY DEF CommitCapability, Writes
<1>2. Effect(t, Unwaiting(Idle)) BY <1>1, IdleState, CommitEffect
<1>3. Unwaiting(Idle) = Idle /\ Idle.pc = "idle" BY IdleState, NotWaiting DEF Idle
<1>. QED BY <1>1, <1>2, <1>3 DEF Onward

LEMMA DeadlockAction ==
  ASSUME TypesInv, NEW t \in Threads, Deadlock(t)
  PROVE  \E y : Effect(t, y) /\ Onward(th[t], y)
<1>1. th[t].wait # {} /\ Fail(t) BY DEF Deadlock
<1>2. ~Resting(th[t]) BY <1>1, Facts
<1>3. th[t].pc \notin {"reload", "store", "seed"} BY <1>2 DEF Resting
<1>. QED BY <1>1, <1>3, Facts, FailEffect
-----------------------------------------------------------------------------
(* Commits of configurations, and the reload they lead to.                   *)

\* The thread that committed still has the registry to load.
LEMMA ConfigCommit ==
  ASSUME TypesInv, NEW t \in Threads, NEW p \in {"reload", "seed"}, Commit(t, To(t, p)),
         \/ p = "reload" /\ th[t].pc = "commit" /\ th[t].req.kind \in {"activate", "create", "status"}
         \/ p = "seed" /\ th[t].pc = "sync_commit"
  PROVE  \E y : Effect(t, y) /\ Onward(th[t], y) /\ y.pc \in {"reload", "seed"} /\ y.proc = th[t].proc
<1>. DEFINE x == To(t, p)
<1>1. /\ th[t] \in ThreadState /\ InRequest(th[t]) /\ th[t].back = "idle" /\ th[t].req \in Requests
  BY Facts
<1>2. /\ x \in ThreadState /\ x.pc = p /\ x.req = th[t].req /\ x.back = "idle" /\ x.proc = th[t].proc
  BY <1>1, ToState
<1>3. Commit(t, x) OBVIOUS
<1>. HIDE DEF x
<1>4. InRequest(x) BY <1>1, <1>2 DEF InRequest, SyncSteps
<1>5. Holds(x) BY <1>2 DEF Holds, SyncSteps, AtAgent
<1>6. Effect(t, Unwaiting(x)) BY <1>2, <1>3, <1>4, <1>5, CommitEffect
<1>7. Onward(th[t], Unwaiting(x)) BY <1>2, <1>4, <1>5, UnwaitingState DEF Onward
<1>. QED BY <1>2, <1>4, <1>5, <1>6, <1>7, UnwaitingState

LEMMA ReloadReadStep ==
  ASSUME TypesInv, NEW t \in Threads, ReloadRead(t)
  PROVE  \E y : /\ Effect(t, y) /\ y.pc = "store" /\ y.proc = th[t].proc
                /\ y.read.snap = Snapshot(db) /\ y.read.at = commits
                /\ db' = db /\ commits' = commits
<1>. DEFINE read == [snap |-> Snapshot(db), max |-> Newest(Stamps(db, DOMAIN Snapshot(db))),
                     at |-> commits]
            x == [To(t, "store") EXCEPT !.read = read]
<1>1. th[t].pc = "reload" /\ Local(t, x) BY DEF ReloadRead
<1>2. /\ th[t] \in ThreadState /\ InRequest(th[t]) /\ th[t].req \in Requests /\ pend[t] = NoRows
  BY <1>1, Facts DEF Resting
<1>3. Table(db) /\ commits \in Nat BY DEF TypesInv, TablesOK, RegistriesOK
<1>4. read \in Read /\ read.snap = Snapshot(db) /\ read.at = commits BY <1>3, SnapshotServed DEF Read
<1>5. /\ To(t, "store") \in ThreadState /\ To(t, "store").pc = "store"
      /\ To(t, "store").req = th[t].req /\ To(t, "store").back = th[t].back
      /\ To(t, "store").proc = th[t].proc
  BY <1>2, ToState
<1>. HIDE DEF read
<1>6. /\ x \in ThreadState /\ x.pc = "store" /\ x.req = th[t].req /\ x.back = th[t].back
      /\ x.proc = th[t].proc /\ x.read = read
  BY <1>4, <1>5 DEF ThreadState
<1>. HIDE DEF x
<1>7. InRequest(x) BY <1>1, <1>2, <1>6 DEF InRequest, SyncSteps
<1>8. Holds(x) BY <1>6 DEF Holds, SyncSteps, AtAgent
<1>9. Effect(t, Unwaiting(x)) BY <1>1, <1>2, <1>6, <1>7, <1>8, LocalEffect
<1>10. db' = db /\ commits' = commits BY <1>1 DEF Local
<1>. QED BY <1>4, <1>6, <1>7, <1>8, <1>9, <1>10, UnwaitingState

\* After the reload the request goes on, or the thread is done.
LEMMA ReloadedEffect ==
  ASSUME TypesInv, NEW t \in Threads, th[t].pc \in {"reload", "store"},
         NEW read \in Read,
         Local(t, IF th[t].back = "idle" THEN Idle
                  ELSE [To(t, th[t].back) EXCEPT !.read = read, !.back = "idle"])
  PROVE  \E y : Effect(t, y) /\ y.pc \notin {"reload", "store"} /\ db' = db /\ commits' = commits
<1>0. db' = db /\ commits' = commits BY DEF Local
<1>1. /\ th[t] \in ThreadState /\ InRequest(th[t]) /\ th[t].req \in Requests /\ pend[t] = NoRows
      /\ th[t].back \in {"idle", "run"}
  BY Facts DEF Resting, ThreadState
<1>2. CASE th[t].back = "idle"
  <2>1. Finish(t) BY <1>2 DEF Finish
  <2>. QED BY <1>0, <1>1, <2>1, FinishEffect DEF Idle
<1>3. CASE th[t].back = "run"
  <2>. DEFINE x == [To(t, "run") EXCEPT !.read = read, !.back = "idle"]
  <2>1. Local(t, x) BY <1>3
  <2>2. To(t, "run") \in ThreadState /\ To(t, "run").pc = "run" /\ To(t, "run").req = th[t].req
    BY <1>1, ToState
  <2>3. x \in ThreadState /\ x.pc = "run" /\ x.req = th[t].req /\ x.back = "idle"
    BY <2>2 DEF ThreadState
  <2>. HIDE DEF x
  <2>4. InRequest(x) BY <1>1, <1>3, <2>3 DEF InRequest, SyncSteps
  <2>5. Holds(x) BY <2>3 DEF Holds, SyncSteps, AtAgent
  <2>6. Effect(t, Unwaiting(x)) BY <1>1, <2>1, <2>3, <2>4, <2>5, LocalEffect
  <2>. QED BY <1>0, <2>3, <2>4, <2>5, <2>6, UnwaitingState
<1>. QED BY <1>1, <1>2, <1>3

LEMMA ReloadStoreStep ==
  ASSUME TypesInv, NEW t \in Threads, ReloadStore(t)
  PROVE  \E y : Effect(t, y) /\ y.pc \notin {"reload", "store"} /\ db' = db /\ commits' = commits
<1>1. th[t].pc = "store" BY DEF ReloadStore
<1>2. Local(t, IF th[t].back = "idle" THEN Idle
               ELSE [To(t, th[t].back) EXCEPT !.read = NoRead, !.back = "idle"])
  BY DEF ReloadStore
<1>. QED BY <1>1, <1>2, IdleState, ReloadedEffect

LEMMA ReloadFailsStep ==
  ASSUME TypesInv, NEW t \in Threads, ReloadFails(t)
  PROVE  \E y : Effect(t, y) /\ y.pc \notin {"reload", "store"} /\ db' = db /\ commits' = commits
<1>1. th[t].pc = "reload" BY DEF ReloadFails
<1>2. Local(t, IF th[t].back = "idle" THEN Idle ELSE [To(t, th[t].back) EXCEPT !.back = "idle"])
  BY DEF ReloadFails
<1>3. th[t] \in ThreadState /\ th[t].read \in Read /\ th[t].back \in {"idle", "run"}
  BY Facts DEF ThreadState
<1>4. ASSUME th[t].back # "idle"
      PROVE  [To(t, th[t].back) EXCEPT !.back = "idle"]
               = [To(t, th[t].back) EXCEPT !.read = th[t].read, !.back = "idle"]
  <2>. DEFINE z == To(t, th[t].back)
  <2>1. z \in ThreadState /\ z.read = th[t].read BY <1>3, ToState
  <2>. HIDE DEF z
  <2>2. [z EXCEPT !.back = "idle"] = [z EXCEPT !.read = th[t].read, !.back = "idle"]
    BY <2>1 DEF ThreadState
  <2>. QED BY <2>2 DEF z
<1>5. Local(t, IF th[t].back = "idle" THEN Idle
               ELSE [To(t, th[t].back) EXCEPT !.read = th[t].read, !.back = "idle"])
  <2>1. CASE th[t].back = "idle" BY <1>2, <2>1
  <2>2. CASE th[t].back # "idle"
    <3>1. Local(t, [To(t, th[t].back) EXCEPT !.back = "idle"]) BY <1>2, <2>2
    <3>2. Local(t, [To(t, th[t].back) EXCEPT !.read = th[t].read, !.back = "idle"])
      BY <1>4, <2>2, <3>1
    <3>. QED BY <2>2, <3>2
  <2>. QED BY <2>1, <2>2
<1>. QED BY <1>1, <1>3, <1>5, ReloadedEffect

\* A step of a thread, other than the reload's and the resolution's.
LEMMA HandlerStep ==
  ASSUME TypesInv, NEW t \in Threads,
         \/ reload_agents(t) \/ activate_config_version(t) \/ create_config_version(t)
         \/ update_agent_status(t) \/ sync(t) \/ TurnSelect(t)
         \/ CapabilityStep(t) \/ DeadlockStep(t)
  PROVE  \/ late' = late /\ \E y : Effect(t, y) /\ Onward(th[t], y)
         \/ OthersLate(t) /\ \E y : /\ Effect(t, y) /\ Onward(th[t], y)
                                    /\ y.pc \in {"reload", "seed"} /\ y.proc = th[t].proc
<1>1. CASE reload_agents(t) BY <1>1, ReloadAgentsStep DEF reload_agents, registryVars
<1>2. CASE activate_config_version(t)
  <2>1. CASE th[t].pc = "commit"
    <3>1. CommitConfig(t, To(t, "reload")) /\ th[t].req.kind = "activate"
      BY <1>2, <2>1 DEF activate_config_version
    <3>. QED BY <2>1, <3>1, ConfigCommit DEF CommitConfig
  <2>2. CASE th[t].pc # "commit"
    BY <1>2, <2>2, ActivateStep DEF activate_config_version
  <2>. QED BY <2>1, <2>2
<1>3. CASE create_config_version(t)
  <2>1. CASE th[t].pc = "commit"
    <3>1. CommitConfig(t, To(t, "reload")) /\ th[t].req.kind = "create"
      BY <1>3, <2>1 DEF create_config_version
    <3>. QED BY <2>1, <3>1, ConfigCommit DEF CommitConfig
  <2>2. CASE th[t].pc # "commit"
    BY <1>3, <2>2, CreateStep DEF create_config_version
  <2>. QED BY <2>1, <2>2
<1>4. CASE update_agent_status(t)
  <2>1. CASE th[t].pc = "commit"
    <3>1. CommitConfig(t, To(t, "reload")) /\ th[t].req.kind = "status"
      BY <1>4, <2>1 DEF update_agent_status
    <3>. QED BY <2>1, <3>1, ConfigCommit DEF CommitConfig
  <2>2. CASE th[t].pc # "commit"
    BY <1>4, <2>2, StatusStep DEF update_agent_status
  <2>. QED BY <2>1, <2>2
<1>5. CASE sync(t)
  <2>1. CASE th[t].pc = "sync_commit" /\ CommitConfig(t, To(t, "seed"))
    BY <2>1, ConfigCommit DEF CommitConfig
  <2>2. CASE /\ \/ SyncBegin(t) \/ SyncAgent(t) \/ SyncCompare(t) \/ SyncReclaim(t)
                \/ SyncAdopt(t) \/ SyncOrphans(t)
             /\ UNCHANGED late
    BY <2>2, SyncBeginStep, SyncAgentStep, SyncCompareStep, SyncReclaimStep, SyncAdoptStep,
       SyncOrphansStep
  <2>. QED BY <1>5, <2>1, <2>2 DEF sync
<1>6. CASE TurnSelect(t) BY <1>6, TurnSelectStep DEF TurnSelect, registryVars
<1>7. CASE CapabilityStep(t)
  <2>1. late' = late BY <1>7 DEF CapabilityStep, registryVars
  <2>. QED BY <1>7, <2>1, CreateCapabilityStep, UpdateCapabilityStep, DeleteCapabilityStep,
              SetAgentsStep, SeedReadStep, SeedInsertStep, CommitCapabilityStep, CommitMembersStep
       DEF CapabilityStep
<1>8. CASE DeadlockStep(t) BY <1>8, DeadlockAction DEF DeadlockStep, registryVars
<1>. QED BY <1>1, <1>2, <1>3, <1>4, <1>5, <1>6, <1>7, <1>8
-----------------------------------------------------------------------------
(* Every step keeps the types.                                               *)

\* No transaction deletes an agent or a configuration.
LEMMA KeysKept ==
  ASSUME TypesInv, NEW t \in Threads, NEW y, Effect(t, y),
         NEW k \in DOMAIN db, k[1] \in {"agent", "config"}
  PROVE  k \in DOMAIN db'
<1>1. CASE db' = db BY <1>1
<1>2. CASE db' = View(t)
  <2>1. Table(db) /\ Written(pend[t]) BY DEF TypesInv, TablesOK
  <2>2. k \in DOMAIN pend[t] => pend[t][k] # Gone
    <3>. SUFFICES ASSUME k \in DOMAIN pend[t] PROVE pend[t][k] # Gone OBVIOUS
    <3>1. GoodRow(k, pend[t][k]) BY <2>1 DEF Written
    <3>2. k \in Keys BY <2>1 DEF Written, Rows
    <3>. QED BY <3>1, <3>2, RowNotGone
  <2>3. k \in DOMAIN View(t) BY <2>1, <2>2, ViewTable
  <2>. QED BY <1>2, <2>3
<1>. QED BY <1>1, <1>2 DEF Effect

LEMMA StartedKept ==
  ASSUME TypesInv, NEW t \in Threads, NEW y, Effect(t, y), NEW x, Started(x, db)
  PROVE  Started(x, db')
<1>1. CASE x.req.kind = "activate" /\ \E k \in DOMAIN db : IsConfig(k, x.req.agent) /\ k[4] = x.req.version
  <2>1. PICK k \in DOMAIN db : IsConfig(k, x.req.agent) /\ k[4] = x.req.version BY <1>1
  <2>2. k \in DOMAIN db' BY <2>1, KeysKept DEF IsConfig
  <2>. QED BY <1>1, <2>1, <2>2 DEF Started
<1>2. CASE x.req.kind \in {"create", "status"} /\ AgentKey(x.req.agent) \in DOMAIN db
  <2>1. AgentKey(x.req.agent)[1] = "agent" BY DEF AgentKey
  <2>2. AgentKey(x.req.agent) \in DOMAIN db' BY <1>2, <2>1, KeysKept
  <2>. QED BY <1>2, <2>2 DEF Started
<1>. QED BY <1>1, <1>2 DEF Started

LEMMA EffectTypes ==
  ASSUME TypesInv, NEW t \in Threads, NEW y, Effect(t, y)
  PROVE  ThreadsOK' /\ TablesOK' /\ commits' \in Nat /\ commits <= commits'
<1>1. /\ th \in [Threads -> ThreadState] /\ th' = [th EXCEPT ![t] = y] /\ y \in ThreadState
      /\ th' \in [Threads -> ThreadState] /\ th'[t] = y
      /\ \A u \in Threads : u # t => th'[u] = th[u]
  BY DEF Effect, TypesInv, ThreadsOK
<1>2. ThreadsOK'
  <2>. SUFFICES ASSUME NEW u \in Threads PROVE InRequest(th'[u]) /\ Holds(th'[u])
    BY <1>1 DEF ThreadsOK
  <2>1. CASE u = t BY <1>1, <2>1 DEF Effect
  <2>2. CASE u # t BY <1>1, <2>2 DEF TypesInv, ThreadsOK
  <2>. QED BY <2>1, <2>2
<1>3. Table(db) /\ Written(pend[t]) /\ pend = [u \in Threads |-> pend[u]] BY DEF TypesInv, TablesOK
<1>4. Table(db') BY <1>3, ViewTable DEF Effect
<1>. DEFINE Adds(rows) ==
              /\ Written(rows) /\ (\A k \in DOMAIN rows : k[1] \in Tables(th[t]))
              /\ pend'[t] = Over(rows, pend[t])
              /\ Tables(y) = Tables(th[t]) /\ ~Resting(y) /\ (\A k \in y.wait : k[1] \in Tables(y))
              /\ y.pc = "run" => Started(y, db)
<1>5. /\ pend' = [u \in Threads |-> pend'[u]] /\ \A u \in Threads : u # t => pend'[u] = pend[u]
      /\ \/ pend'[t] = NoRows /\ y.wait = {}
         \/ \E rows : Adds(rows)
         \/ /\ pend'[t] = pend[t] /\ y.wait = {}
            /\ pend[t] = NoRows \/ (~Resting(y) /\ y.pc # "run" /\ Tables(y) = Tables(th[t]))
  BY <1>3 DEF Effect, TableChange
<1>6. ASSUME NEW u \in Threads
      PROVE  /\ Written(pend'[u])
             /\ \A k \in DOMAIN pend'[u] \cup th'[u].wait : k[1] \in Tables(th'[u])
             /\ Resting(th'[u]) => pend'[u] = NoRows /\ th'[u].wait = {}
             /\ th'[u].pc = "run" /\ DOMAIN pend'[u] # {} => Started(th'[u], db')
  <2>1. CASE u # t
    <3>1. pend'[u] = pend[u] /\ th'[u] = th[u] BY <1>1, <1>5, <2>1
    <3>2. /\ Written(pend[u]) /\ \A k \in DOMAIN pend[u] \cup th[u].wait : k[1] \in Tables(th[u])
          /\ Resting(th[u]) => pend[u] = NoRows /\ th[u].wait = {}
          /\ th[u].pc = "run" /\ DOMAIN pend[u] # {} => Started(th[u], db)
      BY DEF TypesInv, TablesOK
    <3>3. Started(th[u], db) => Started(th[u], db') BY StartedKept
    <3>. QED BY <3>1, <3>2, <3>3
  <2>2. CASE u = t /\ pend'[t] = NoRows /\ y.wait = {} BY <1>1, <2>2, NoRowsWritten
  <2>3. CASE u = t /\ \E rows : Adds(rows)
    <3>1. PICK rows : Adds(rows) BY <2>3
    <3>2. Written(Over(rows, pend[t])) BY <1>3, <3>1, OverWritten
    <3>3. DOMAIN Over(rows, pend[t]) = DOMAIN rows \cup DOMAIN pend[t] BY OverRows
    <3>4. \A k \in DOMAIN pend[t] : k[1] \in Tables(th[t]) BY DEF TypesInv, TablesOK
    <3>5. \A k \in DOMAIN pend'[t] : k[1] \in Tables(y) BY <3>1, <3>3, <3>4
    <3>6. y.pc = "run" => Started(y, db') BY <3>1, StartedKept
    <3>. QED BY <1>1, <2>3, <3>1, <3>2, <3>5, <3>6
  <2>4. CASE /\ u = t /\ pend'[t] = pend[t] /\ y.wait = {}
             /\ pend[t] = NoRows \/ (~Resting(y) /\ y.pc # "run" /\ Tables(y) = Tables(th[t]))
    <3>1. CASE pend[t] = NoRows BY <1>1, <2>4, <3>1, NoRowsWritten
    <3>2. CASE ~Resting(y) /\ y.pc # "run" /\ Tables(y) = Tables(th[t])
      <4>1. \A k \in DOMAIN pend[t] : k[1] \in Tables(th[t]) BY DEF TypesInv, TablesOK
      <4>. QED BY <1>1, <1>3, <2>4, <3>2, <4>1
    <3>. QED BY <2>4, <3>1, <3>2
  <2>. QED BY <1>5, <2>1, <2>2, <2>3, <2>4
<1>7. TablesOK' BY <1>4, <1>5, <1>6 DEF TablesOK
<1>8. commits' \in Nat /\ commits <= commits' BY DEF Effect, TypesInv, RegistriesOK
<1>. QED BY <1>2, <1>7, <1>8

LEMMA HandlerFrame ==
  ASSUME NEW t \in Threads,
         \/ reload_agents(t) \/ activate_config_version(t) \/ create_config_version(t)
         \/ update_agent_status(t) \/ sync(t) \/ TurnSelect(t)
         \/ CapabilityStep(t) \/ DeadlockStep(t)
  PROVE  reg' = reg /\ serving' = serving /\ started' = started /\ spent' = spent
BY DEF reload_agents, activate_config_version, create_config_version, update_agent_status, sync,
       TurnSelect, CapabilityStep, DeadlockStep, registryVars, processVars, budgetVars

LEMMA MadeStep ==
  ASSUME made \in Nat, NEW t \in Threads, Step(t)
  PROVE  made' \in Nat
<1>1. CASE ConfigStep(t) \/ DeadlockStep(t) BY <1>1 DEF ConfigStep, DeadlockStep, capVars
<1>2. CASE CapabilityStep(t) BY <1>2 DEF CapabilityStep, capVars, create_capability
<1>. QED BY <1>1, <1>2 DEF Step

(* The scope nearest to the caller.                                          *)
LEMMA FirstOf ==
  ASSUME NEW S, S # {}, NEW caller
  PROVE  First(S, caller) \in S /\ \A r \in S : Rank(First(S, caller), caller) <= Rank(r, caller)
<1>1. \A s \in S : Rank(s, caller) \in 0..3 BY DEF Rank
<1>2. \E s \in S : \A r \in S : Rank(s, caller) <= Rank(r, caller)
  <2>1. CASE \E s \in S : Rank(s, caller) = 0 BY <1>1, <2>1
  <2>2. CASE (~\E s \in S : Rank(s, caller) = 0) /\ \E s \in S : Rank(s, caller) = 1 BY <1>1, <2>2
  <2>3. CASE (~\E s \in S : Rank(s, caller) \in {0, 1}) /\ \E s \in S : Rank(s, caller) = 2
    BY <1>1, <2>3
  <2>4. CASE ~\E s \in S : Rank(s, caller) \in {0, 1, 2} BY <1>1, <2>4
  <2>. QED BY <2>1, <2>2, <2>3, <2>4
<1>. QED BY <1>2 DEF First

\* What a caller's scope resolves to was written for a scope that applies to it.
LEMMA ScopedApplies ==
  ASSUME NEW view, Table(view), NEW caller, NEW a, NEW agent, ScopeOf(agent) = DefaultScope
  PROVE  Applies(ScopeOf(Scoped(view, caller, a, agent)), caller)
<1>. DEFINE own == {k[3] : k \in {j \in ActiveIn(view, a) :
                                   Applies(j[3], caller) /\ j[3] # DefaultScope}}
            k == CHOOSE j \in ActiveIn(view, a) : j[3] = First(own, caller)
<1>1. CASE own = {}
  <2>1. Scoped(view, caller, a, agent) = agent BY <1>1 DEF Scoped
  <2>. QED BY <2>1 DEF Applies, DefaultScope
<1>2. CASE own # {}
  <2>1. Scoped(view, caller, a, agent) = view[k].content BY <1>2 DEF Scoped
  <2>2. First(own, caller) \in own
    <3>. HIDE DEF own
    <3>. QED BY <1>2, FirstOf
  <2>3. k \in ActiveIn(view, a) /\ k[3] = First(own, caller) BY <2>2
  <2>4. Applies(k[3], caller) BY <2>2, <2>3
  <2>5. k \in DOMAIN view /\ k[1] = "config" BY <2>3 DEF ActiveIn, IsConfig
  <2>6. ScopeOf(view[k].content) = k[3] BY <2>5 DEF Table, GoodRow
  <2>. HIDE DEF k, own
  <2>. QED BY <2>1, <2>4, <2>6
<1>. QED BY <1>1, <1>2

LEMMA ReplacedState ==
  ASSUME NEW r, RegistryState(r), NEW read \in Read
  PROVE  /\ RegistryState(Replaced(r, read)) /\ Replaced(r, read).snap = read.snap
         /\ Replaced(r, read).at = read.at /\ Replaced(r, read).version = r.version + 1
         /\ Replaced(r, read).cache = r.cache
<1>. DEFINE q == Replaced(r, read)
<1>1. r \in [snap : Served, max : Nat, at : Nat, version : Nat, cache : {r.cache}] /\ Entries(r.cache)
  BY DEF RegistryState
<1>2. read.snap \in Served /\ read.max \in Nat /\ read.at \in Nat BY DEF Read
<1>3. r.version + 1 \in Nat BY <1>1
<1>4. q = [r EXCEPT !.snap = read.snap, !.max = read.max, !.at = read.at, !.version = r.version + 1]
  BY DEF Replaced
<1>5. /\ q \in [snap : Served, max : Nat, at : Nat, version : Nat, cache : {r.cache}]
      /\ q.snap = read.snap /\ q.at = read.at /\ q.version = r.version + 1 /\ q.cache = r.cache
  <2>. HIDE DEF q
  <2>. QED BY <1>1, <1>2, <1>3, <1>4
<1>. HIDE DEF q
<1>6. RegistryState(q) BY <1>1, <1>5 DEF RegistryState
<1>. QED BY <1>5, <1>6 DEF q

LEMMA CachedState ==
  ASSUME NEW r, RegistryState(r), NEW cache, Entries(cache)
  PROVE  LET q == [r EXCEPT !.cache = cache]
         IN  /\ RegistryState(q) /\ q.snap = r.snap /\ q.at = r.at /\ q.version = r.version
             /\ q.cache = cache
<1>. DEFINE q == [r EXCEPT !.cache = cache]
<1>1. r \in [snap : Served, max : Nat, at : Nat, version : Nat, cache : {r.cache}] BY DEF RegistryState
<1>2. /\ q \in [snap : Served, max : Nat, at : Nat, version : Nat, cache : {cache}]
      /\ q.snap = r.snap /\ q.at = r.at /\ q.version = r.version /\ q.cache = cache
  BY <1>1
<1>. HIDE DEF q
<1>3. RegistryState(q) BY <1>2 DEF RegistryState
<1>. QED BY <1>2, <1>3 DEF q
-----------------------------------------------------------------------------
(* The registries.                                                           *)

LEMMA EntriesAdded ==
  ASSUME NEW kept, Entries(kept), NEW v \in Nat, NEW c \in Callers, NEW a, NEW content,
         Applies(ScopeOf(content), c)
  PROVE  Entries(Over(Only(<<v, c, a>>, content), kept))
<1>. DEFINE key == <<v, c, a>>
            one == Only(key, content)
            cache == Over(one, kept)
<1>1. key[1] = v /\ key[2] = c /\ key[3] = a /\ key = <<key[1], key[2], key[3]>> OBVIOUS
<1>. HIDE DEF key
<1>2. DOMAIN one = {key} /\ one[key] = content BY OnlyRow
<1>. HIDE DEF one
<1>3. /\ DOMAIN cache = DOMAIN one \cup DOMAIN kept /\ cache = [e \in DOMAIN cache |-> cache[e]]
      /\ \A e \in DOMAIN one : cache[e] = one[e]
      /\ \A e \in (DOMAIN kept) \ (DOMAIN one) : cache[e] = kept[e]
  BY DEF Over
<1>. HIDE DEF cache
<1>4. ASSUME NEW e \in DOMAIN cache
      PROVE  /\ e = <<e[1], e[2], e[3]>> /\ e[1] \in Nat /\ e[2] \in Callers
             /\ Applies(ScopeOf(cache[e]), e[2])
  <2>1. CASE e = key BY <1>1, <1>2, <1>3, <2>1
  <2>2. CASE e # key BY <1>2, <1>3, <2>2 DEF Entries
  <2>. QED BY <2>1, <2>2
<1>5. Entries(cache) BY <1>3, <1>4 DEF Entries
<1>. QED BY <1>5 DEF cache, one, key

LEMMA NoEntries == Entries(NoRows)
BY DEF Entries, NoRows

\* What resolve_for_scope does to the registry.
LEMMA ResolveRegistry ==
  ASSUME TypesInv, NEW t \in Threads, resolve_for_scope(t)
  PROVE  LET p == th[t].proc
             r == th[t].req
             agent == th[t].read.snap[r.agent]
             key == <<reg[p].version, r.caller, r.agent>>
         IN  /\ p \in Processes /\ r.caller \in Callers
             /\ \/ reg' = reg /\ late' = late
                \/ \E kept \in {NoRows, reg[p].cache} :
                     LET cache == Over(Only(key, Scoped(db, r.caller, r.agent, agent)), kept)
                     IN  /\ Entries(cache) /\ reg' = [reg EXCEPT ![p] = [@ EXCEPT !.cache = cache]]
                         /\ late' = [late EXCEPT ![p] =
                              IF r.agent \in DOMAIN reg[p].snap /\ reg[p].snap[r.agent] = agent
                              THEN @ ELSE @ \cup {"older agent"}]
<1>. DEFINE p == th[t].proc
            r == th[t].req
            agent == th[t].read.snap[r.agent]
            key == <<reg[p].version, r.caller, r.agent>>
            content == Scoped(db, r.caller, r.agent, agent)
            Late == late' = [late EXCEPT ![p] =
                              IF r.agent \in DOMAIN reg[p].snap /\ reg[p].snap[r.agent] = agent
                              THEN @ ELSE @ \cup {"older agent"}]
<1>1. th[t].pc = "resolve" BY DEF resolve_for_scope
<1>2. /\ p \in Processes /\ r \in Requests /\ r.kind = "turn" /\ th[t].read.snap \in Served
      /\ r.agent \in DOMAIN th[t].read.snap
  BY <1>1, Facts DEF ThreadState, Read, InRequest, Holds
<1>3. r.caller \in Callers BY <1>2, AdminRequests
<1>4. RegistryState(reg[p]) BY <1>2 DEF TypesInv, RegistriesOK
<1>5. Entries(reg[p].cache) /\ reg[p].version \in Nat BY <1>4 DEF RegistryState
<1>6. ScopeOf(agent) = DefaultScope BY <1>2 DEF Served
<1>7. Applies(ScopeOf(content), r.caller)
  <2>. HIDE DEF agent
  <2>. QED BY <1>6, ScopedApplies DEF TypesInv, TablesOK
<1>8. \/ reg' = reg /\ late' = late
      \/ /\ \E kept \in {NoRows, reg[p].cache} :
              reg' = [reg EXCEPT ![p] = [@ EXCEPT !.cache = Over(Only(key, content), kept)]]
         /\ Late
  <2>1. CASE UNCHANGED registryVars BY <2>1 DEF registryVars
  <2>2. CASE ~UNCHANGED registryVars
    <3>. DEFINE kept == IF Cardinality(DOMAIN reg[p].cache) >= CacheMax THEN NoRows
                        ELSE reg[p].cache
    <3>1. reg' = [reg EXCEPT ![p].cache = Over(Only(key, content), kept)] /\ Late
      BY <2>2 DEF resolve_for_scope
    <3>2. kept \in {NoRows, reg[p].cache} OBVIOUS
    <3>. HIDE DEF kept, content, key
    <3>3. reg' = [reg EXCEPT ![p] = [@ EXCEPT !.cache = Over(Only(key, content), kept)]] BY <3>1
    <3>. QED BY <3>1, <3>2, <3>3
  <2>. QED BY <2>1, <2>2
<1>. HIDE DEF content, Late
<1>9. \A kept \in {NoRows, reg[p].cache} : Entries(Over(Only(key, content), kept))
  BY <1>3, <1>5, <1>7, NoEntries, EntriesAdded
<1>10. \/ reg' = reg /\ late' = late
       \/ \E kept \in {NoRows, reg[p].cache} :
            /\ Entries(Over(Only(key, content), kept))
            /\ reg' = [reg EXCEPT ![p] = [@ EXCEPT !.cache = Over(Only(key, content), kept)]]
            /\ Late
  BY <1>8, <1>9
<1>. QED BY <1>2, <1>3, <1>10 DEF content, Late

LEMMA StepEffect ==
  ASSUME TypesInv, NEW t \in Threads, Step(t)
  PROVE  \E y : Effect(t, y)
<1>1. CASE ReloadRead(t) BY <1>1, ReloadReadStep
<1>2. CASE ReloadStore(t) BY <1>2, ReloadStoreStep
<1>3. CASE ReloadFails(t) BY <1>3, ReloadFailsStep
<1>4. CASE resolve_for_scope(t) BY <1>4, ResolveEffect
<1>5. CASE \/ reload_agents(t) \/ activate_config_version(t) \/ create_config_version(t)
           \/ update_agent_status(t) \/ sync(t) \/ TurnSelect(t)
           \/ CapabilityStep(t) \/ DeadlockStep(t)
  BY <1>5, HandlerStep
<1>. QED BY <1>1, <1>2, <1>3, <1>4, <1>5 DEF Step, ConfigStep

LEMMA OthersLateTyped ==
  ASSUME late \in [Processes -> SUBSET Reasons], NEW t, OthersLate(t)
  PROVE  late' \in [Processes -> SUBSET Reasons]
BY DEF OthersLate, Reasons

LEMMA RegistriesStep ==
  ASSUME TypesInv, NEW t \in Threads, Step(t)
  PROVE  RegistriesOK'
<1>. DEFINE p == th[t].proc
<1>1. commits' \in Nat /\ made' \in Nat
  BY StepEffect, EffectTypes, MadeStep DEF TypesInv, RegistriesOK
<1>2. /\ reg = [q \in Processes |-> reg[q]] /\ \A q \in Processes : RegistryState(reg[q])
      /\ late \in [Processes -> SUBSET Reasons]
      /\ serving \in Processes /\ started \in Processes /\ spent \in 0..MaxActivities
  BY DEF TypesInv, RegistriesOK
<1>3. th[t] \in ThreadState /\ p \in Processes /\ th[t].read \in Read BY Facts DEF ThreadState
<1>. HIDE DEF p
<1>4. CASE reg' = reg /\ serving' = serving /\ started' = started /\ spent' = spent
           /\ late' \in [Processes -> SUBSET Reasons]
  BY <1>1, <1>2, <1>4 DEF RegistriesOK
<1>5. ASSUME NEW q, RegistryState(q), reg' = [reg EXCEPT ![p] = q], serving' \in Processes,
             started' = started, spent' = spent, late' \in [Processes -> SUBSET Reasons]
      PROVE  RegistriesOK'
  <2>1. reg' = [u \in Processes |-> reg'[u]] /\ \A u \in Processes : reg'[u] = IF u = p THEN q ELSE reg[u]
    BY <1>2, <1>5
  <2>2. \A u \in Processes : RegistryState(reg'[u]) BY <1>2, <1>5, <2>1
  <2>. QED BY <1>1, <1>2, <1>5, <2>1, <2>2 DEF RegistriesOK
<1>6. CASE ReloadRead(t) BY <1>2, <1>4, <1>6 DEF ReloadRead, registryVars, processVars, budgetVars
<1>7. CASE ReloadStore(t)
  <2>1. /\ reg' = [reg EXCEPT ![p] = Replaced(reg[p], th[t].read)]
        /\ serving' \in {p, serving} /\ started' = started /\ spent' = spent
        /\ late' = [late EXCEPT ![p] = CASE th[t].read.at = commits -> {}
                                         [] th[t].read.at < reg[p].at -> @ \cup {"older read"}
                                         [] OTHER -> @]
    BY <1>7 DEF ReloadStore, budgetVars, p
  <2>2. RegistryState(Replaced(reg[p], th[t].read)) BY <1>2, <1>3, ReplacedState
  <2>3. late' \in [Processes -> SUBSET Reasons]
    <3>. DEFINE S == CASE th[t].read.at = commits -> {}
                       [] th[t].read.at < reg[p].at -> late[p] \cup {"older read"}
                       [] OTHER -> late[p]
    <3>1. late[p] \subseteq Reasons /\ "older read" \in Reasons BY <1>2, <1>3 DEF Reasons
    <3>2. S \in SUBSET Reasons BY <3>1
    <3>3. late' = [late EXCEPT ![p] = S] BY <2>1
    <3>. HIDE DEF S
    <3>. QED BY <1>2, <3>2, <3>3
  <2>. QED BY <1>2, <1>3, <1>5, <2>1, <2>2, <2>3
<1>8. CASE ReloadFails(t)
  <2>1. late' = [late EXCEPT ![p] = late[p] \cup {"reload failed"}]
    BY <1>8 DEF ReloadFails, p
  <2>2. late' \in [Processes -> SUBSET Reasons] BY <1>2, <1>3, <2>1 DEF Reasons
  <2>. QED BY <1>4, <1>8, <2>2 DEF ReloadFails, processVars
<1>9. CASE resolve_for_scope(t)
  <2>1. serving' = serving /\ started' = started /\ spent' = spent
    BY <1>9 DEF resolve_for_scope, processVars, budgetVars
  <2>2. \/ reg' = reg /\ late' = late
        \/ \E cache, S : /\ Entries(cache) /\ reg' = [reg EXCEPT ![p] = [@ EXCEPT !.cache = cache]]
                         /\ late' = [late EXCEPT ![p] = S]
                         /\ S \in {late[p], late[p] \cup {"older agent"}}
    <3>. DEFINE r == th[t].req
                agent == th[t].read.snap[r.agent]
                S == IF r.agent \in DOMAIN reg[p].snap /\ reg[p].snap[r.agent] = agent
                     THEN late[p] ELSE late[p] \cup {"older agent"}
    <3>1. \/ reg' = reg /\ late' = late
          \/ \E cache : /\ Entries(cache) /\ reg' = [reg EXCEPT ![p] = [@ EXCEPT !.cache = cache]]
                        /\ late' = [late EXCEPT ![p] = S]
      BY <1>9, ResolveRegistry DEF p
    <3>2. S \in {late[p], late[p] \cup {"older agent"}} OBVIOUS
    <3>. HIDE DEF S
    <3>. QED BY <3>1, <3>2
  <2>3. CASE reg' = reg /\ late' = late BY <1>2, <1>4, <2>1, <2>3
  <2>4. ASSUME NEW cache, NEW S, Entries(cache), reg' = [reg EXCEPT ![p] = [@ EXCEPT !.cache = cache]],
               late' = [late EXCEPT ![p] = S], S \in {late[p], late[p] \cup {"older agent"}}
        PROVE  RegistriesOK'
    <3>1. RegistryState([reg[p] EXCEPT !.cache = cache]) BY <1>2, <1>3, <2>4, CachedState
    <3>2. reg' = [reg EXCEPT ![p] = [reg[p] EXCEPT !.cache = cache]] BY <2>4
    <3>3. S \in SUBSET Reasons BY <1>2, <1>3, <2>4 DEF Reasons
    <3>4. late' \in [Processes -> SUBSET Reasons] BY <1>2, <2>4, <3>3
    <3>. QED BY <1>2, <1>5, <2>1, <3>1, <3>2, <3>4
  <2>. QED BY <2>2, <2>3, <2>4
<1>10. CASE \/ reload_agents(t) \/ activate_config_version(t) \/ create_config_version(t)
            \/ update_agent_status(t) \/ sync(t) \/ TurnSelect(t)
            \/ CapabilityStep(t) \/ DeadlockStep(t)
  BY <1>2, <1>4, <1>10, HandlerStep, HandlerFrame, OthersLateTyped
<1>. QED BY <1>6, <1>7, <1>8, <1>9, <1>10 DEF Step, ConfigStep
-----------------------------------------------------------------------------
(* Requests and starts arrive.                                               *)

LEMMA AloneKept ==
  ASSUME NEW x \in ThreadState, NEW b \in BOOLEAN
  PROVE  LET y == [x EXCEPT !.alone = b]
         IN  /\ y \in ThreadState /\ y.pc = x.pc /\ y.req = x.req /\ y.proc = x.proc /\ y.wait = x.wait
             /\ y.read = x.read /\ y.n = x.n /\ y.todo = x.todo
             /\ (InRequest(x) => InRequest(y)) /\ (Holds(x) => Holds(y))
             /\ Tables(y) = Tables(x) /\ Resting(y) = Resting(x)
             /\ \A table : Started(y, table) = Started(x, table)
<1>. DEFINE y == [x EXCEPT !.alone = b]
<1>1. /\ y \in ThreadState /\ y.pc = x.pc /\ y.req = x.req /\ y.proc = x.proc /\ y.wait = x.wait
      /\ y.read = x.read /\ y.n = x.n /\ y.todo = x.todo /\ y.back = x.back
  BY DEF ThreadState
<1>. HIDE DEF y
<1>2. InRequest(x) => InRequest(y) BY <1>1 DEF InRequest
<1>3. Holds(x) => Holds(y) BY <1>1 DEF Holds
<1>4. Tables(y) = Tables(x) /\ Resting(y) = Resting(x) BY <1>1 DEF Tables, ConfigWriter, Resting
<1>5. \A table : Started(y, table) = Started(x, table) BY <1>1 DEF Started
<1>. QED BY <1>1, <1>2, <1>3, <1>4, <1>5 DEF y

LEMMA ArriveThreads ==
  ASSUME TypesInv, NEW t \in Threads, NEW r \in Requests, Arrive(t, r)
  PROVE  \E x :
           /\ x \in ThreadState /\ InRequest(x) /\ Holds(x) /\ x.wait = {} /\ x.read = NoRead
           /\ x.pc \in {"run", "reload", "seed", "lock"} /\ th[t].pc = "idle"
           /\ th' = [u \in Threads |-> IF u = t THEN x ELSE [th[u] EXCEPT !.alone = (@ /\ th[u].pc = "idle")]]
           /\ started' \in Processes /\ spent' \in 0..MaxActivities
<1>1. PICK pc \in FirstStep(r) :
       th' = [u \in Threads |->
         IF u = t
         THEN [Idle EXCEPT !.pc = pc, !.req = r, !.began = spent + 1,
                           !.back = IF pc = "reload" THEN "run" ELSE "idle",
                           !.proc = IF r.kind = "boot" THEN started + 1 ELSE serving,
                           !.alone = \A w \in Others(t) : th[w].pc = "idle"]
         ELSE [th[u] EXCEPT !.alone = (@ /\ th[u].pc = "idle")]]
  BY DEF Arrive
<1>. DEFINE b == \A w \in Others(t) : th[w].pc = "idle"
            back == IF pc = "reload" THEN "run" ELSE "idle"
            p == IF r.kind = "boot" THEN started + 1 ELSE serving
            x == [Idle EXCEPT !.pc = pc, !.req = r, !.began = spent + 1, !.back = back, !.proc = p,
                              !.alone = b]
<1>2. /\ \/ pc \in {"run", "reload"} /\ r.kind # "boot"
         \/ pc \in {"seed", "lock"} /\ r.kind = "boot"
  BY DEF FirstStep, AfterCheck
<1>3. started \in Processes /\ serving \in Processes /\ spent \in 0..MaxActivities
      /\ MaxActivities \in Nat /\ MaxStarts \in Nat
  BY AdminConstants DEF TypesInv, RegistriesOK
<1>4. th[t].pc = "idle" /\ spent < MaxActivities /\ (r.kind = "boot" => started < MaxStarts)
      /\ spent' = spent + 1 /\ started' = IF r.kind = "boot" THEN started + 1 ELSE started
  BY DEF Arrive
<1>5. p \in Processes /\ started' \in Processes BY <1>3, <1>4 DEF Processes
<1>6. spent' \in 0..MaxActivities /\ spent + 1 \in Nat BY <1>3, <1>4
<1>7. back \in {"idle", "run"} /\ b \in BOOLEAN /\ (back = "run" => pc = "reload") OBVIOUS
<1>8. Idle \in ThreadState /\ Idle.wait = {} /\ Idle.todo = <<>> /\ Idle.read = NoRead
  BY IdleState DEF Idle
<1>. HIDE DEF p, back, b
<1>9. /\ x \in ThreadState /\ x.pc = pc /\ x.req = r /\ x.back = back /\ x.todo = <<>> /\ x.wait = {}
      /\ x.read = NoRead
  BY <1>2, <1>5, <1>6, <1>7, <1>8 DEF ThreadState
<1>10. th' = [u \in Threads |-> IF u = t THEN x ELSE [th[u] EXCEPT !.alone = (@ /\ th[u].pc = "idle")]]
  BY <1>1 DEF p, back, b
<1>. HIDE DEF x
<1>11. InRequest(x) BY <1>2, <1>7, <1>9 DEF InRequest, SyncSteps
<1>12. Holds(x) BY <1>2, <1>9 DEF Holds, SyncSteps, AtAgent
<1>. QED BY <1>2, <1>4, <1>5, <1>6, <1>9, <1>10, <1>11, <1>12

LEMMA ArriveTypes ==
  ASSUME TypesInv, NEW t \in Threads, NEW r \in Requests, Arrive(t, r), UNCHANGED capVars
  PROVE  TypesInv'
<1>1. PICK x :
           /\ x \in ThreadState /\ InRequest(x) /\ Holds(x) /\ x.wait = {} /\ x.read = NoRead
           /\ x.pc \in {"run", "reload", "seed", "lock"} /\ th[t].pc = "idle"
           /\ th' = [u \in Threads |-> IF u = t THEN x ELSE [th[u] EXCEPT !.alone = (@ /\ th[u].pc = "idle")]]
           /\ started' \in Processes /\ spent' \in 0..MaxActivities
  BY ArriveThreads
<1>2. /\ db' = db /\ pend' = pend /\ commits' = commits /\ reg' = reg /\ late' = late
      /\ serving' = serving /\ made' = made
  BY DEF Arrive, capVars
<1>3. th \in [Threads -> ThreadState] BY DEF TypesInv, ThreadsOK
<1>. DEFINE c(u) == (th[u].alone /\ th[u].pc = "idle")
<1>4. /\ th'[t] = x
      /\ \A u \in Threads : u # t => th'[u] = [th[u] EXCEPT !.alone = c(u)] /\ c(u) \in BOOLEAN
  BY <1>1
<1>. HIDE DEF c
<1>5. \A u \in Threads : th'[u] \in ThreadState /\ InRequest(th'[u]) /\ Holds(th'[u])
  BY <1>1, <1>3, <1>4, AloneKept DEF TypesInv, ThreadsOK
<1>6. ThreadsOK' BY <1>1, <1>5 DEF ThreadsOK
<1>7. ASSUME NEW u \in Threads
      PROVE  /\ Written(pend[u])
             /\ \A k \in DOMAIN pend[u] \cup th'[u].wait : k[1] \in Tables(th'[u])
             /\ Resting(th'[u]) => pend[u] = NoRows /\ th'[u].wait = {}
             /\ th'[u].pc = "run" /\ DOMAIN pend[u] # {} => Started(th'[u], db)
  <2>1. /\ Written(pend[u]) /\ \A k \in DOMAIN pend[u] \cup th[u].wait : k[1] \in Tables(th[u])
        /\ Resting(th[u]) => pend[u] = NoRows /\ th[u].wait = {}
        /\ th[u].pc = "run" /\ DOMAIN pend[u] # {} => Started(th[u], db)
    BY DEF TypesInv, TablesOK
  <2>2. CASE u = t
    <3>1. pend[t] = NoRows BY <1>1, <2>1, <2>2 DEF Resting
    <3>. QED BY <1>1, <1>4, <2>2, <3>1, NoRowsWritten
  <2>3. CASE u # t
    <3>1. th'[u] = [th[u] EXCEPT !.alone = c(u)] /\ c(u) \in BOOLEAN /\ th[u] \in ThreadState
      BY <1>3, <1>4, <2>3
    <3>2. /\ th'[u].pc = th[u].pc /\ th'[u].wait = th[u].wait /\ Tables(th'[u]) = Tables(th[u])
          /\ Resting(th'[u]) = Resting(th[u]) /\ Started(th'[u], db) = Started(th[u], db)
      BY <3>1, AloneKept
    <3>. QED BY <2>1, <3>2
  <2>. QED BY <2>2, <2>3
<1>8. TablesOK' BY <1>2, <1>7 DEF TablesOK, TypesInv
<1>9. RegistriesOK' BY <1>1, <1>2 DEF TypesInv, RegistriesOK
<1>. QED BY <1>6, <1>8, <1>9 DEF TypesInv

LEMMA InitTable ==
  ASSUME NEW d \in Databases
  PROVE  Table(d)
<1>1. d = [k \in DOMAIN d |-> d[k]] /\ IsFiniteSet(DOMAIN d) /\ Columns(d) /\ OfItsScope(d)
  BY AdminDatabases
<1>2. ASSUME NEW k \in DOMAIN d
      PROVE  k \in Keys /\ GoodRow(k, d[k])
  <2>1. CASE k \in {AgentKey(a) : a \in Agents} /\ d[k] \in AgentRow
    BY <2>1, KeysTyped DEF GoodRow
  <2>2. CASE /\ k[1] = "config" /\ k = ConfigKey(k[2], k[3], k[4])
             /\ k[2] \in Agents /\ k[3] \in Scopes /\ k[4] \in Nat \ {0}
             /\ d[k] \in ConfigRow
    <3>1. ScopeOf(d[k].content) = k[3] BY <1>1, <2>2 DEF OfItsScope
    <3>2. k \in Keys BY <2>2, KeysTyped
    <3>. QED BY <2>2, <3>1, <3>2 DEF GoodRow
  <2>3. CASE k \in {CapKey(s) : s \in Scopes} /\ d[k] \in CapRow
    BY <2>3, KeysTyped DEF GoodRow
  <2>4. CASE /\ k[1] = "member" /\ k = MemberKey(k[2], k[3])
             /\ k[2] \in Nat \ {0} /\ k[3] \in Agents
             /\ d[k] \in MemberRow
    BY <2>4, KeysTyped DEF GoodRow
  <2>. QED BY <1>1, <2>1, <2>2, <2>3, <2>4 DEF Columns
<1>. QED BY <1>1, <1>2 DEF Table, Rows

LEMMA InitTypes == Init => TypesInv
<1>. SUFFICES ASSUME Init PROVE TypesInv OBVIOUS
<1>1. Table(db) BY InitTable DEF Init
<1>2. th = [t \in Threads |-> Idle] /\ pend = [t \in Threads |-> NoRows] BY DEF Init
<1>3. ThreadsOK BY <1>2, IdleState DEF ThreadsOK
<1>4. ASSUME NEW t \in Threads
      PROVE  /\ Written(pend[t]) /\ pend[t] = NoRows /\ th[t].wait = {} /\ DOMAIN pend[t] = {}
  BY <1>2, NoRowsWritten, IdleState
<1>5. TablesOK BY <1>1, <1>2, <1>4 DEF TablesOK
<1>6. Snapshot(db) \in Served /\ Newest(Stamps(db, DOMAIN Snapshot(db))) \in Nat
  BY <1>1, SnapshotServed
<1>7. RegistryState(Empty) /\ RegistryState([Empty EXCEPT !.snap = Snapshot(db), !.version = 1,
                                 !.max = Newest(Stamps(db, DOMAIN Snapshot(db)))])
  <2>1. NoRows \in Served BY IdleState DEF NoRead, Read
  <2>2. RegistryState(Empty) BY <2>1, NoEntries DEF Empty, RegistryState
  <2>. DEFINE m == Newest(Stamps(db, DOMAIN Snapshot(db)))
              s == Snapshot(db)
              q == [Empty EXCEPT !.snap = s, !.version = 1, !.max = m]
  <2>. HIDE DEF m, s
  <2>3. q \in [snap : Served, max : Nat, at : Nat, version : Nat, cache : {NoRows}] /\ q.cache = NoRows
    BY <1>6, <2>1 DEF Empty, m, s
  <2>. HIDE DEF q
  <2>4. RegistryState(q) BY <2>3, NoEntries DEF RegistryState
  <2>. QED BY <2>2, <2>4 DEF q, m, s
<1>8. /\ reg = [p \in Processes |-> reg[p]]
      /\ \A p \in Processes : reg[p] \in {Empty, [Empty EXCEPT !.snap = Snapshot(db), !.version = 1,
                                 !.max = Newest(Stamps(db, DOMAIN Snapshot(db)))]}
  <2>. DEFINE q == [Empty EXCEPT !.snap = Snapshot(db), !.version = 1,
                                 !.max = Newest(Stamps(db, DOMAIN Snapshot(db)))]
  <2>1. reg = [p \in Processes |-> IF p # 0 THEN Empty ELSE q] BY DEF Init
  <2>. HIDE DEF q
  <2>2. /\ reg = [p \in Processes |-> reg[p]] /\ \A p \in Processes : reg[p] \in {Empty, q} BY <2>1
  <2>. QED BY <2>2 DEF q
<1>9. made \in Nat
  <2>. DEFINE caps == {j \in DOMAIN db : j[1] = "cap"}
              f == [k \in caps |-> db[k].id]
  <2>1. IsFiniteSet(caps)
    <3>1. caps \subseteq DOMAIN db OBVIOUS
    <3>. HIDE DEF caps
    <3>. QED BY <1>1, <3>1, FS_Subset DEF Table, Rows
  <2>2. f \in [caps -> Nat]
    <3>. SUFFICES ASSUME NEW k \in caps PROVE db[k].id \in Nat OBVIOUS
    <3>1. db[k] \in CapRow BY <1>1 DEF Table, GoodRow
    <3>. QED BY <3>1 DEF CapRow
  <2>3. CapIds(db) = {f[k] : k \in caps} BY DEF CapIds
  <2>4. Newest({f[k] : k \in caps}) \in Nat
    <3>. HIDE DEF caps, f
    <3>. QED BY <2>1, <2>2, NewestOf
  <2>. QED BY <2>3, <2>4 DEF Init
<1>10. RegistriesOK
  <2>1. \A p \in Processes : RegistryState(reg[p]) BY <1>7, <1>8
  <2>2. late \in [Processes -> SUBSET Reasons] BY DEF Init
  <2>3. /\ serving \in Processes /\ started \in Processes /\ spent \in 0..MaxActivities
        /\ commits \in Nat
    BY AdminConstants DEF Init, Processes
  <2>. QED BY <1>8, <1>9, <2>1, <2>2, <2>3 DEF RegistriesOK
<1>. QED BY <1>3, <1>5, <1>10 DEF TypesInv

LEMMA TypesStep == TypesInv /\ [Next]_vars => TypesInv'
<1>. SUFFICES ASSUME TypesInv, [Next]_vars PROVE TypesInv' OBVIOUS
<1>1. CASE \E t \in Threads, r \in Requests : Arrive(t, r) /\ UNCHANGED capVars
  BY <1>1, ArriveTypes
<1>2. CASE \E t \in Threads : Step(t) BY <1>2, StepEffect, EffectTypes, RegistriesStep DEF TypesInv
<1>3. CASE UNCHANGED vars
  <2>1. /\ db' = db /\ pend' = pend /\ th' = th /\ commits' = commits /\ reg' = reg /\ late' = late
        /\ serving' = serving /\ started' = started /\ spent' = spent /\ made' = made
    BY <1>3 DEF vars, registryVars, processVars, budgetVars, capVars
  <2>2. ThreadsOK' BY <2>1 DEF ThreadsOK, TypesInv
  <2>3. TablesOK' BY <2>1 DEF TablesOK, TypesInv
  <2>4. RegistriesOK' BY <2>1 DEF RegistriesOK, TypesInv
  <2>. QED BY <2>2, <2>3, <2>4 DEF TypesInv
<1>. QED BY <1>1, <1>2, <1>3 DEF Next, Done

LEMMA TypesCorrect == Spec => []TypesInv
<1>. QED BY InitTypes, TypesStep, PTL DEF Spec

\* A tenant is never served another tenant's configuration: resolve_for_scope caches what its query
\* found for the caller, and neither a reload, nor a stale agent, nor the eviction mixes callers.
THEOREM CallersAreServedTheirOwn == Spec => []NoCrossTenant
<1>1. TypesInv => NoCrossTenant
  BY DEF TypesInv, RegistriesOK, RegistryState, Entries, NoCrossTenant
<1>. QED BY <1>1, TypesCorrect, PTL
-----------------------------------------------------------------------------
(* The serving process is current: the inductive invariant.                  *)

\* A thread that will load, or has just read, what process p serves.
Loads(x, p) ==
  /\ x.proc = p
  /\ \/ x.pc \in {"reload", "seed", "seed_insert"}
     \/ x.pc = "store" /\ x.read.at = commits
ReadOK(x) ==
  x.pc = "store" =>
    x.read.at <= commits /\ (x.read.at = commits => x.read.snap = Snapshot(db))
CachedOK(r) ==
  \A e \in DOMAIN r.cache : e[1] = r.version =>
    e[3] \in DOMAIN r.snap /\ r.cache[e] = Scoped(db, e[2], e[3], r.snap[e[3]])
ProcessOK(p) ==
  /\ reg[p].at <= commits
  /\ \A e \in DOMAIN reg[p].cache : e[1] <= reg[p].version
  /\ late[p] = {} => reg[p].at = commits \/ \E t \in Threads : Loads(th[t], p)
  /\ reg[p].at = commits /\ reg[p].version > 0 =>
       /\ reg[p].snap = Snapshot(db)
       /\ late[p] = {} => CachedOK(reg[p])
CurrentInv ==
  /\ \A t \in Threads : ReadOK(th[t])
  /\ \A p \in Processes : ProcessOK(p)
  /\ reg[serving].version > 0

(* What the registry reads are the agents and the configurations.            *)
Configs(f) == {k \in DOMAIN f : k[1] \in {"agent", "config"}}
SameConfigs(f, g) == Configs(f) = Configs(g) /\ \A k \in Configs(f) : f[k] = g[k]

LEMMA SameReads ==
  ASSUME NEW f, NEW g, SameConfigs(f, g)
  PROVE  /\ Snapshot(f) = Snapshot(g)
         /\ \A caller, a, agent : Scoped(f, caller, a, agent) = Scoped(g, caller, a, agent)
<1>1. Enabled(f) = Enabled(g)
  <2>1. \A a : AgentKey(a)[1] = "agent" BY DEF AgentKey
  <2>. QED BY <2>1 DEF Enabled, SameConfigs, Configs
<1>2. \A a : ActiveIn(f, a) = ActiveIn(g, a) /\ \A k \in ActiveIn(f, a) : f[k] = g[k]
  <2>. SUFFICES ASSUME NEW a
                PROVE  ActiveIn(f, a) = ActiveIn(g, a) /\ \A k \in ActiveIn(f, a) : f[k] = g[k]
    OBVIOUS
  <2>1. \A k : k \in ActiveIn(f, a) <=> k \in Configs(f) /\ k[1] = "config" /\ k[2] = a /\ f[k].active
    BY DEF ActiveIn, IsConfig, Configs
  <2>2. \A k : k \in ActiveIn(g, a) <=> k \in Configs(g) /\ k[1] = "config" /\ k[2] = a /\ g[k].active
    BY DEF ActiveIn, IsConfig, Configs
  <2>3. \A k : k \in ActiveIn(f, a) <=> k \in ActiveIn(g, a) BY <2>1, <2>2 DEF SameConfigs
  <2>4. ActiveIn(f, a) = ActiveIn(g, a) BY <2>3
  <2>. QED BY <2>1, <2>4 DEF SameConfigs
<1>3. \A a : HasDefault(f, a) = HasDefault(g, a) /\ DefaultOf(f, a) = DefaultOf(g, a)
  BY <1>2 DEF HasDefault, DefaultOf
<1>4. Snapshot(f) = Snapshot(g)
  <2>. DEFINE D == {b \in Enabled(f) : HasDefault(f, b)}
  <2>1. D = {b \in Enabled(g) : HasDefault(g, b)} BY <1>1, <1>3
  <2>2. \A a \in D : f[DefaultOf(f, a)].content = g[DefaultOf(g, a)].content
    <3>. SUFFICES ASSUME NEW a \in D PROVE f[DefaultOf(f, a)] = g[DefaultOf(g, a)] OBVIOUS
    <3>1. DefaultOf(f, a) \in ActiveIn(f, a) BY DEF HasDefault, DefaultOf
    <3>. QED BY <1>2, <1>3, <3>1
  <2>3. Snapshot(f) = [a \in D |-> f[DefaultOf(f, a)].content] BY DEF Snapshot
  <2>4. Snapshot(g) = [a \in D |-> g[DefaultOf(g, a)].content] BY <2>1 DEF Snapshot
  <2>. HIDE DEF D
  <2>. QED BY <2>2, <2>3, <2>4
<1>5. ASSUME NEW caller, NEW a, NEW agent
      PROVE  Scoped(f, caller, a, agent) = Scoped(g, caller, a, agent)
  <2>. DEFINE own(v) == {k[3] : k \in {j \in ActiveIn(v, a) :
                                        Applies(j[3], caller) /\ j[3] # DefaultScope}}
              pick(S, w) == CHOOSE j \in S : j[3] = w
              k == pick(ActiveIn(f, a), First(own(f), caller))
  <2>1. own(f) = own(g) BY <1>2
  <2>2. Scoped(f, caller, a, agent) = IF own(f) = {} THEN agent ELSE f[k].content BY DEF Scoped
  <2>3. Scoped(g, caller, a, agent)
          = IF own(g) = {} THEN agent ELSE g[pick(ActiveIn(g, a), First(own(g), caller))].content
    BY DEF Scoped
  <2>4. own(f) # {} => k \in ActiveIn(f, a)
    <3>. SUFFICES ASSUME own(f) # {} PROVE k \in ActiveIn(f, a) OBVIOUS
    <3>1. First(own(f), caller) \in own(f)
      <4>. HIDE DEF own
      <4>. QED BY FirstOf
    <3>. QED BY <3>1
  <2>. HIDE DEF own, pick
  <2>5. k = pick(ActiveIn(g, a), First(own(g), caller)) BY <1>2, <2>1
  <2>6. own(f) # {} => f[k] = g[k] BY <1>2, <2>4
  <2>. HIDE DEF k
  <2>. QED BY <2>1, <2>2, <2>3, <2>5, <2>6
<1>. QED BY <1>4, <1>5

LEMMA EffectConfigs ==
  ASSUME TypesInv, NEW t \in Threads, NEW y, Effect(t, y), commits' = commits
  PROVE  SameConfigs(db, db')
<1>1. CASE db' = db BY <1>1 DEF SameConfigs
<1>2. CASE db' = View(t) /\ ~\E k \in DOMAIN pend[t] : k[1] \in {"agent", "config"}
  <2>1. Table(db) /\ Written(pend[t]) BY DEF TypesInv, TablesOK
  <2>2. \A k : k \in Configs(db) <=> k \in Configs(View(t)) BY <1>2, <2>1, ViewTable DEF Configs
  <2>3. \A k \in Configs(db) : View(t)[k] = db[k] BY <1>2, <2>1, <2>2, ViewTable DEF Configs
  <2>. QED BY <1>2, <2>2, <2>3 DEF SameConfigs
<1>3. commits \in Nat BY DEF TypesInv, RegistriesOK
<1>. QED BY <1>1, <1>2, <1>3 DEF Effect

\* Only the commits of the admin routes and of the synchronisation count.
LEMMA StatementCommits ==
  ASSUME NEW t, NEW H, NEW rows, NEW x, Statement(t, H, rows, x)
  PROVE  commits' = commits
BY DEF Statement, Apply, Fail, Block

ConfigCommits(t) ==
  \/ /\ CommitConfig(t, To(t, "reload"))
     /\ th[t].pc = "commit" /\ th[t].req.kind \in {"activate", "create", "status"}
  \/ CommitConfig(t, To(t, "seed")) /\ th[t].pc = "sync_commit"

LEMMA CommitsElsewhere ==
  ASSUME TypesInv, NEW t \in Threads,
         \/ reload_agents(t) \/ activate_config_version(t) \/ create_config_version(t)
         \/ update_agent_status(t) \/ sync(t) \/ TurnSelect(t)
         \/ CapabilityStep(t) \/ DeadlockStep(t)
  PROVE  \/ late' = late /\ commits' = commits
         \/ ConfigCommits(t)
<1>1. CASE reload_agents(t) BY <1>1 DEF reload_agents, Local, registryVars
<1>2. CASE activate_config_version(t)
  <2>1. \/ \E x : Deactivate(t, th[t].req.agent, x) \/ Activate(t, th[t].req.agent, th[t].req.version, x)
        \/ Finish(t) \/ ConfigCommits(t)
    BY <1>2 DEF activate_config_version, ConfigCommits
  <2>2. late' = late \/ ConfigCommits(t) BY <1>2 DEF activate_config_version, ConfigCommits
  <2>3. ConfigCommits(t) \/ commits' = commits
    BY <2>1, DeactivateStatement, ActivateStatement, StatementCommits DEF Finish, Local
  <2>. QED BY <2>2, <2>3
<1>3. CASE create_config_version(t)
  <2>1. \/ \E x : Deactivate(t, th[t].req.agent, x) \/ Local(t, x)
        \/ \E k, row, x : Insert(t, k, row, x)
        \/ ConfigCommits(t)
    BY <1>3 DEF create_config_version, Finish, ConfigCommits
  <2>2. late' = late \/ ConfigCommits(t) BY <1>3 DEF create_config_version, ConfigCommits
  <2>3. ConfigCommits(t) \/ commits' = commits
    BY <2>1, DeactivateStatement, InsertStatement, StatementCommits DEF Local
  <2>. QED BY <2>2, <2>3
<1>4. CASE update_agent_status(t)
  <2>1. CASE th[t].pc = "run" /\ AgentKey(th[t].req.agent) \in DOMAIN db
    BY <1>4, <2>1, StatusStatement, StatementCommits DEF update_agent_status
  <2>2. CASE ~(th[t].pc = "run" /\ AgentKey(th[t].req.agent) \in DOMAIN db)
    BY <1>4, <2>2 DEF update_agent_status, Finish, Local, ConfigCommits
  <2>. QED BY <2>1, <2>2
<1>5. CASE sync(t)
  <2>0. \/ th[t].pc = "sync_commit" /\ CommitConfig(t, To(t, "seed"))
        \/ /\ \/ SyncBegin(t) \/ SyncAgent(t) \/ SyncCompare(t) \/ SyncReclaim(t)
              \/ SyncAdopt(t) \/ SyncOrphans(t)
           /\ late' = late
    BY <1>5 DEF sync
  <2>1. SyncBegin(t) => commits' = commits BY DEF SyncBegin, Local
  <2>2. SyncAgent(t) => commits' = commits
    <3>1. CASE AgentKey(Head(th[t].todo)) \in DOMAIN View(t)
      BY <3>1, SyncAgentStatement, StatementCommits
    <3>2. CASE AgentKey(Head(th[t].todo)) \notin DOMAIN View(t)
      BY <3>2 DEF SyncAgent, Apply, Fail
    <3>. QED BY <3>1, <3>2
  <2>3. SyncCompare(t) => commits' = commits BY DEF SyncCompare, Local
  <2>4. SyncReclaim(t) => commits' = commits
    <3>. SUFFICES ASSUME SyncReclaim(t) PROVE commits' = commits OBVIOUS
    <3>1. th[t].pc = "reclaim" \/ \E a, v, x : Activate(t, a, v, x) BY DEF SyncReclaim
    <3>. QED BY <3>1, ReclaimStatement, ActivateStatement, StatementCommits
  <2>5. SyncAdopt(t) => commits' = commits
    <3>. SUFFICES ASSUME SyncAdopt(t) PROVE commits' = commits OBVIOUS
    <3>1. \/ th[t].pc = "retire" \/ \E x : Local(t, x)
          \/ \E k, row, x : Insert(t, k, row, x)
      BY DEF SyncAdopt
    <3>. QED BY <3>1, RetireStatement, InsertStatement, StatementCommits DEF Local
  <2>6. SyncOrphans(t) => commits' = commits BY OrphansStatement, StatementCommits
  <2>. QED BY <2>0, <2>1, <2>2, <2>3, <2>4, <2>5, <2>6 DEF ConfigCommits
<1>6. CASE TurnSelect(t) BY <1>6 DEF TurnSelect, Finish, Local, registryVars
<1>7. CASE CapabilityStep(t)
  <2>0. late' = late BY <1>7 DEF CapabilityStep, registryVars
  <2>1. CASE create_capability(t)
    BY <2>0, <2>1, InsertStatement, StatementCommits DEF create_capability, Finish, Local
  <2>2. CASE update_capability(t)
    BY <2>0, <2>2, UpdateCapabilityStatement, StatementCommits
       DEF update_capability, ReadCapability, Writes, Finish, Local
  <2>3. CASE delete_capability(t)
    BY <2>0, <2>3, DeleteCapabilityStatement, CascadeStatement, StatementCommits
       DEF delete_capability, ReadCapability, Writes, Finish, Local
  <2>4. CASE set_capability_agents(t)
    BY <2>0, <2>4, ClearStatement, InsertStatement, StatementCommits
       DEF set_capability_agents, Writes, Finish, Local
  <2>5. CASE SeedRead(t) BY <2>0, <2>5 DEF SeedRead, Local
  <2>6. CASE SeedInsert(t) BY <2>0, <2>6 DEF SeedInsert, Local, Block, Apply, Fail
  <2>7. CASE CommitCapability(t) \/ CommitMembers(t)
    <3>1. \A k \in DOMAIN pend[t] : k[1] \in Tables(th[t]) BY DEF TypesInv, TablesOK
    <3>2. InRequest(th[t]) BY Facts
    <3>3. Tables(th[t]) = {"cap", "member"}
      BY <2>7, <3>2 DEF CommitCapability, CommitMembers, Writes, Tables, ConfigWriter, InRequest, SyncSteps
    <3>4. \E x : Commit(t, x) BY <2>7 DEF CommitCapability, CommitMembers
    <3>. QED BY <2>0, <3>1, <3>3, <3>4 DEF Commit
  <2>. QED BY <1>7, <2>1, <2>2, <2>3, <2>4, <2>5, <2>6, <2>7 DEF CapabilityStep
<1>8. CASE DeadlockStep(t) BY <1>8 DEF DeadlockStep, Deadlock, Fail, registryVars
<1>. QED BY <1>1, <1>2, <1>3, <1>4, <1>5, <1>6, <1>7, <1>8

LEMMA HandlerCommits ==
  ASSUME TypesInv, NEW t \in Threads,
         \/ reload_agents(t) \/ activate_config_version(t) \/ create_config_version(t)
         \/ update_agent_status(t) \/ sync(t) \/ TurnSelect(t)
         \/ CapabilityStep(t) \/ DeadlockStep(t)
  PROVE  \E y :
           /\ Effect(t, y) /\ Onward(th[t], y)
           /\ \/ late' = late /\ commits' = commits
              \/ OthersLate(t) /\ y.pc \in {"reload", "seed"} /\ y.proc = th[t].proc
<1>1. CASE late' = late /\ commits' = commits BY <1>1, HandlerStep
<1>2. CASE ConfigCommits(t)
  <2>1. OthersLate(t) BY <1>2 DEF ConfigCommits, CommitConfig
  <2>2. \E y : Effect(t, y) /\ Onward(th[t], y) /\ y.pc \in {"reload", "seed"} /\ y.proc = th[t].proc
    BY <1>2, ConfigCommit DEF ConfigCommits, CommitConfig
  <2>. QED BY <2>1, <2>2
<1>. QED BY <1>1, <1>2, CommitsElsewhere

\* What a process serves stays right when the tables' configurations do not change.
LEMMA ThreadKept ==
  ASSUME TypesInv, SameConfigs(db, db') \/ commits' > commits, commits' >= commits, commits' \in Nat,
         NEW u \in Threads, ReadOK(th[u]), th'[u] = th[u]
  PROVE  ReadOK(th[u])'
<1>0. commits \in Nat BY DEF TypesInv, RegistriesOK
<1>. SUFFICES ASSUME th[u].pc = "store"
              PROVE  th[u].read.at <= commits' /\ (th[u].read.at = commits' => th[u].read.snap = Snapshot(db'))
  BY DEF ReadOK
<1>1. th[u].read.at \in Nat BY Facts DEF ThreadState, Read
<1>2. th[u].read.at <= commits /\ (th[u].read.at = commits => th[u].read.snap = Snapshot(db))
  BY DEF ReadOK
<1>3. SameConfigs(db, db') => Snapshot(db) = Snapshot(db') BY SameReads
<1>. QED BY <1>0, <1>1, <1>2, <1>3

LEMMA LoadsKept ==
  ASSUME NEW t \in Threads, NEW y, th \in [Threads -> ThreadState], th' = [th EXCEPT ![t] = y], Onward(th[t], y),
         commits' = commits, NEW p, \E u \in Threads : Loads(th[u], p)
  PROVE  \E u \in Threads : Loads(th[u], p)'
<1>1. PICK u \in Threads : Loads(th[u], p) OBVIOUS
<1>2. CASE u # t
  <2>1. th'[u] = th[u] BY <1>2
  <2>. QED BY <1>1, <2>1 DEF Loads
<1>3. CASE u = t
  <2>1. th'[t] = y OBVIOUS
  <2>2. th[t].proc = p /\ th[t].pc \in {"seed", "seed_insert"} BY <1>1, <1>3 DEF Loads, Onward
  <2>3. y.pc \in {"seed", "seed_insert", "reload"} /\ y.proc = p BY <2>2 DEF Onward
  <2>4. Loads(th[t], p)' BY <2>1, <2>3 DEF Loads
  <2>. QED BY <2>4
<1>. QED BY <1>2, <1>3

LEMMA HandlerCurrent ==
  ASSUME TypesInv, CurrentInv, NEW t \in Threads,
         \/ reload_agents(t) \/ activate_config_version(t) \/ create_config_version(t)
         \/ update_agent_status(t) \/ sync(t) \/ TurnSelect(t)
         \/ CapabilityStep(t) \/ DeadlockStep(t)
  PROVE  CurrentInv'
<1>1. PICK y :
        /\ Effect(t, y) /\ Onward(th[t], y)
        /\ \/ late' = late /\ commits' = commits
           \/ OthersLate(t) /\ y.pc \in {"reload", "seed"} /\ y.proc = th[t].proc
  BY HandlerCommits
<1>2. reg' = reg /\ serving' = serving BY HandlerFrame
<1>3. th' = [th EXCEPT ![t] = y] /\ th \in [Threads -> ThreadState] BY <1>1 DEF Effect, TypesInv, ThreadsOK
<1>4. commits \in Nat /\ commits' \in Nat /\ commits <= commits' BY <1>1, EffectTypes DEF TypesInv, RegistriesOK
<1>5. SameConfigs(db, db') \/ commits' > commits BY <1>1, <1>4, EffectConfigs
<1>6. ASSUME NEW u \in Threads PROVE ReadOK(th[u])'
  <2>1. CASE u = t
    <3>1. th'[u].pc # "store" BY <1>1, <1>3, <2>1 DEF Onward
    <3>. QED BY <3>1 DEF ReadOK
  <2>2. CASE u # t
    <3>1. th'[u] = th[u] BY <1>3, <2>2
    <3>. QED BY <1>4, <1>5, <3>1, ThreadKept DEF CurrentInv
  <2>. QED BY <2>1, <2>2
<1>7. ASSUME NEW p \in Processes PROVE ProcessOK(p)'
  <2>1. /\ reg[p].at \in Nat /\ reg[p].at <= commits
        /\ \A e \in DOMAIN reg[p].cache : e[1] <= reg[p].version
    BY DEF TypesInv, RegistriesOK, RegistryState, CurrentInv, ProcessOK
  <2>2. reg'[p] = reg[p] /\ reg[p].at <= commits' BY <1>2, <1>4, <2>1
  <2>3. late'[p] = {} => late[p] = {} /\ (late' = late \/ p = th[t].proc)
    <3>1. CASE late' = late BY <3>1
    <3>2. CASE OthersLate(t) BY <3>2 DEF OthersLate
    <3>. QED BY <1>1, <3>1, <3>2
  <2>4. late'[p] = {} => reg[p].at = commits' \/ \E u \in Threads : Loads(th[u], p)'
    <3>. SUFFICES ASSUME late'[p] = {}
                  PROVE  reg[p].at = commits' \/ \E u \in Threads : Loads(th[u], p)'
      OBVIOUS
    <3>1. CASE late' = late /\ commits' = commits
      BY <1>1, <1>3, <2>3, <3>1, LoadsKept DEF CurrentInv, ProcessOK
    <3>2. CASE OthersLate(t) /\ y.pc \in {"reload", "seed"} /\ y.proc = th[t].proc
      <4>1. p = th[t].proc
        <5>1. CASE p # th[t].proc
          <6>1. late'[p] = late[p] \cup {"other process"} BY <3>2, <5>1 DEF OthersLate
          <6>. QED BY <6>1
        <5>. QED BY <5>1
      <4>2. th'[t] = y BY <1>3
      <4>3. Loads(th[t], p)' BY <3>2, <4>1, <4>2 DEF Loads
      <4>. QED BY <4>3
    <3>. QED BY <1>1, <3>1, <3>2
  <2>5. reg[p].at = commits' /\ reg[p].version > 0 =>
          reg[p].snap = Snapshot(db') /\ (late'[p] = {} => CachedOK(reg[p])')
    <3>. SUFFICES ASSUME reg[p].at = commits', reg[p].version > 0
                  PROVE  reg[p].snap = Snapshot(db') /\ (late'[p] = {} => CachedOK(reg[p])')
      OBVIOUS
    <3>1. commits' = commits BY <1>4, <2>1
    <3>2. SameConfigs(db, db') BY <1>5, <1>4, <3>1
    <3>3. reg[p].snap = Snapshot(db) /\ (late[p] = {} => CachedOK(reg[p]))
      BY <3>1 DEF CurrentInv, ProcessOK
    <3>4. late'[p] = {} => CachedOK(reg[p])'
      BY <2>2, <2>3, <3>2, <3>3, SameReads DEF CachedOK
    <3>. QED BY <3>2, <3>3, <3>4, SameReads
  <2>. QED BY <2>1, <2>2, <2>4, <2>5 DEF ProcessOK
<1>8. reg[serving]'.version > 0 BY <1>2 DEF CurrentInv
<1>. QED BY <1>6, <1>7, <1>8 DEF CurrentInv

\* A step that leaves the tables and the commits alone, and the registries of the other processes.
LEMMA ReloadCurrent ==
  ASSUME TypesInv, CurrentInv, NEW t \in Threads, NEW y, th' = [th EXCEPT ![t] = y],
         db' = db, commits' = commits, ReadOK(y), NEW q \in Processes, q = th[t].proc,
         \A p \in Processes : p # q => reg'[p] = reg[p] /\ late'[p] = late[p],
         ProcessOK(q)', reg'[serving'].version > 0
  PROVE  CurrentInv'
<1>1. th'[t] = y /\ \A u \in Threads : u # t => th'[u] = th[u] BY DEF TypesInv, ThreadsOK
<1>2. ASSUME NEW u \in Threads PROVE ReadOK(th[u])'
  <2>1. ReadOK(th'[u]) BY <1>1 DEF CurrentInv
  <2>. QED BY <2>1 DEF ReadOK
<1>3. ASSUME NEW p \in Processes PROVE ProcessOK(p)'
  <2>1. CASE p = q BY <2>1
  <2>2. CASE p # q
    <3>1. reg'[p] = reg[p] /\ late'[p] = late[p] BY <2>2
    <3>2. ASSUME NEW u \in Threads, Loads(th[u], p)
          PROVE  Loads(th[u], p)'
      <4>1. u # t BY <2>2, <3>2 DEF Loads
      <4>2. th'[u] = th[u] BY <1>1, <4>1
      <4>. QED BY <3>2, <4>2 DEF Loads
    <3>3. CachedOK(reg[p]) => CachedOK(reg[p])' BY <3>1 DEF CachedOK
    <3>4. ProcessOK(p) BY DEF CurrentInv
    <3>. QED BY <3>1, <3>2, <3>3, <3>4 DEF ProcessOK
  <2>. QED BY <2>1, <2>2
<1>. QED BY <1>2, <1>3 DEF CurrentInv

LEMMA ReadCurrent ==
  ASSUME TypesInv, CurrentInv, NEW t \in Threads, ReloadRead(t)
  PROVE  CurrentInv'
<1>0. PICK p \in Processes : p = th[t].proc BY Facts DEF ThreadState
<1>1. PICK y : /\ Effect(t, y) /\ y.pc = "store" /\ y.proc = th[t].proc
               /\ y.read.snap = Snapshot(db) /\ y.read.at = commits
               /\ db' = db /\ commits' = commits
  BY ReloadReadStep
<1>2. th' = [th EXCEPT ![t] = y] /\ th'[t] = y BY <1>1 DEF Effect, TypesInv, ThreadsOK
<1>3. reg' = reg /\ late' = late /\ serving' = serving BY DEF ReloadRead, registryVars, processVars
<1>4. p \in Processes /\ commits \in Nat BY DEF TypesInv, RegistriesOK
<1>5. ReadOK(y) BY <1>1, <1>4 DEF ReadOK
<1>6. Loads(th[t], p)' BY <1>0, <1>1, <1>2 DEF Loads
<1>7. ProcessOK(p) BY <1>4 DEF CurrentInv
<1>8. ProcessOK(p)' BY <1>1, <1>3, <1>6, <1>7 DEF ProcessOK, CachedOK
<1>9. reg'[serving'].version > 0 BY <1>3 DEF CurrentInv
<1>. QED BY <1>0, <1>1, <1>2, <1>3, <1>5, <1>8, <1>9, ReloadCurrent

LEMMA StoreCurrent ==
  ASSUME TypesInv, CurrentInv, NEW t \in Threads, ReloadStore(t)
  PROVE  CurrentInv'
<1>0. PICK p \in Processes : p = th[t].proc BY Facts DEF ThreadState
<1>. DEFINE read == th[t].read
<1>1. PICK y : Effect(t, y) /\ y.pc \notin {"reload", "store"} /\ db' = db /\ commits' = commits
  BY ReloadStoreStep
<1>2. /\ th' = [th EXCEPT ![t] = y] /\ th'[t] = y /\ \A u \in Threads : u # t => th'[u] = th[u]
  BY <1>1 DEF Effect, TypesInv, ThreadsOK
<1>3. /\ th[t].pc = "store" /\ serving' \in {p, serving}
      /\ reg' = [reg EXCEPT ![p] = Replaced(reg[p], read)]
      /\ late' = [late EXCEPT ![p] = CASE read.at = commits -> {}
                                       [] read.at < reg[p].at -> late[p] \cup {"older read"}
                                       [] OTHER -> late[p]]
  BY <1>0 DEF ReloadStore
<1>4. /\ p \in Processes /\ serving \in Processes /\ commits \in Nat /\ read \in Read /\ read.at \in Nat
  BY Facts DEF ThreadState, TypesInv, RegistriesOK, Read
<1>5. /\ reg = [u \in Processes |-> reg[u]] /\ RegistryState(reg[p])
      /\ late \in [Processes -> SUBSET Reasons]
  BY <1>4 DEF TypesInv, RegistriesOK
<1>6. /\ reg'[p] = Replaced(reg[p], read) /\ \A u \in Processes : u # p => reg'[u] = reg[u] /\ late'[u] = late[u]
      /\ late'[p] = CASE read.at = commits -> {}
                      [] read.at < reg[p].at -> late[p] \cup {"older read"}
                      [] OTHER -> late[p]
  BY <1>3, <1>4, <1>5
<1>7. /\ reg'[p].snap = read.snap /\ reg'[p].at = read.at /\ reg'[p].version = reg[p].version + 1
      /\ reg'[p].cache = reg[p].cache /\ reg[p].version \in Nat /\ reg[p].at \in Nat
  <2>. DEFINE r == reg[p]
  <2>1. RegistryState(r) BY <1>5
  <2>2. reg'[p] = Replaced(r, read) BY <1>6
  <2>. HIDE DEF r, read
  <2>3. r.version \in Nat /\ r.at \in Nat BY <2>1 DEF RegistryState
  <2>4. /\ Replaced(r, read).snap = read.snap /\ Replaced(r, read).at = read.at
        /\ Replaced(r, read).version = r.version + 1 /\ Replaced(r, read).cache = r.cache
    BY <1>4, <2>1, ReplacedState
  <2>5. /\ reg'[p].snap = read.snap /\ reg'[p].at = read.at /\ reg'[p].version = r.version + 1
        /\ reg'[p].cache = r.cache
    BY <2>2, <2>4
  <2>. QED BY <2>3, <2>5 DEF r
<1>8. ReadOK(y) BY <1>1 DEF ReadOK
<1>9. read.at <= commits /\ (read.at = commits => read.snap = Snapshot(db))
  BY <1>3 DEF CurrentInv, ReadOK
<1>10. /\ reg[p].at <= commits /\ \A e \in DOMAIN reg[p].cache : e[1] <= reg[p].version
       /\ late[p] = {} => reg[p].at = commits \/ \E u \in Threads : Loads(th[u], p)
  BY <1>4 DEF CurrentInv, ProcessOK
<1>11. \A e \in DOMAIN reg[p].cache : e[1] \in Nat BY <1>5 DEF RegistryState, Entries
<1>12. ProcessOK(p)'
  <2>1. /\ reg'[p].at <= commits'
        /\ \A e \in DOMAIN reg'[p].cache : e[1] < reg'[p].version
    BY <1>1, <1>7, <1>9, <1>10, <1>11
  <2>2. late'[p] = {} => reg'[p].at = commits' \/ \E u \in Threads : Loads(th[u], p)'
    <3>. SUFFICES ASSUME late'[p] = {}, read.at # commits
                  PROVE  \E u \in Threads : Loads(th[u], p)'
      BY <1>1, <1>7
    <3>1. late[p] = {} /\ read.at >= reg[p].at
      <4>1. CASE read.at < reg[p].at
        <5>1. late'[p] = late[p] \cup {"older read"} BY <1>6, <4>1
        <5>. QED BY <5>1
      <4>2. CASE ~(read.at < reg[p].at)
        <5>1. late'[p] = late[p] BY <1>6, <4>2
        <5>. QED BY <1>4, <1>7, <4>2, <5>1
      <4>. QED BY <4>1, <4>2
    <3>2. reg[p].at # commits BY <1>4, <1>7, <1>9, <1>10, <3>1
    <3>3. PICK u \in Threads : Loads(th[u], p) BY <1>10, <3>1, <3>2
    <3>4. u # t BY <1>3, <3>3 DEF Loads
    <3>5. th'[u] = th[u] BY <1>2, <3>4
    <3>6. Loads(th[u], p)' BY <1>1, <3>3, <3>5 DEF Loads
    <3>. QED BY <3>6
  <2>3. reg'[p].at = commits' => reg'[p].snap = Snapshot(db') BY <1>1, <1>7, <1>9
  <2>4. CachedOK(reg[p])'
    <3>1. \A e \in DOMAIN reg'[p].cache : e[1] # reg'[p].version BY <2>1, <1>7, <1>11
    <3>. QED BY <3>1 DEF CachedOK
  <2>5. \A e \in DOMAIN reg'[p].cache : e[1] <= reg'[p].version BY <2>1, <1>7, <1>11
  <2>. QED BY <2>1, <2>2, <2>3, <2>4, <2>5 DEF ProcessOK
<1>13. reg'[serving'].version > 0
  <2>1. reg[serving].version > 0 BY DEF CurrentInv
  <2>2. CASE serving' = p BY <1>7, <2>2
  <2>3. CASE serving' # p
    <3>1. reg'[serving'] = reg[serving] BY <1>3, <1>4, <1>6, <2>3
    <3>. QED BY <2>1, <3>1
  <2>. QED BY <2>2, <2>3
<1>. QED BY <1>0, <1>1, <1>2, <1>6, <1>8, <1>12, <1>13, ReloadCurrent

LEMMA FailCurrent ==
  ASSUME TypesInv, CurrentInv, NEW t \in Threads, ReloadFails(t)
  PROVE  CurrentInv'
<1>0. PICK p \in Processes : p = th[t].proc BY Facts DEF ThreadState
<1>1. PICK y : Effect(t, y) /\ y.pc \notin {"reload", "store"} /\ db' = db /\ commits' = commits
  BY ReloadFailsStep
<1>2. th' = [th EXCEPT ![t] = y] BY <1>1 DEF Effect
<1>3. /\ reg' = reg /\ serving' = serving
      /\ late' = [late EXCEPT ![p] = late[p] \cup {"reload failed"}]
  BY <1>0 DEF ReloadFails, processVars
<1>4. p \in Processes /\ late \in [Processes -> SUBSET Reasons]
  BY Facts DEF ThreadState, TypesInv, RegistriesOK
<1>5. late'[p] # {} /\ \A u \in Processes : u # p => late'[u] = late[u] BY <1>3, <1>4
<1>6. ReadOK(y) BY <1>1 DEF ReadOK
<1>7. ProcessOK(p) BY <1>4 DEF CurrentInv
<1>8. ProcessOK(p)' BY <1>1, <1>3, <1>5, <1>7 DEF ProcessOK
<1>9. reg'[serving'].version > 0 BY <1>3 DEF CurrentInv
<1>. QED BY <1>0, <1>1, <1>2, <1>3, <1>5, <1>6, <1>8, <1>9, ReloadCurrent

LEMMA ResolveCurrent ==
  ASSUME TypesInv, CurrentInv, NEW t \in Threads, resolve_for_scope(t)
  PROVE  CurrentInv'
<1>0. PICK p \in Processes : p = th[t].proc BY Facts DEF ThreadState
<1>. DEFINE r == th[t].req
            agent == th[t].read.snap[r.agent]
            key == <<reg[p].version, r.caller, r.agent>>
            content == Scoped(db, r.caller, r.agent, agent)
<1>1. /\ Effect(t, Idle) /\ th[t].pc = "resolve" /\ Idle.pc = "idle" BY ResolveEffect DEF Idle
<1>2. th' = [th EXCEPT ![t] = Idle] /\ th \in [Threads -> ThreadState]
  BY <1>1 DEF Effect, TypesInv, ThreadsOK
<1>3. db' = db /\ commits' = commits /\ serving' = serving
  BY DEF resolve_for_scope, Finish, Local, processVars
<1>4. p \in Processes /\ late \in [Processes -> SUBSET Reasons] /\ reg = [u \in Processes |-> reg[u]]
      /\ commits \in Nat
  BY Facts DEF ThreadState, TypesInv, RegistriesOK
<1>5. \/ reg' = reg /\ late' = late
      \/ \E kept \in {NoRows, reg[p].cache} :
           /\ reg' = [reg EXCEPT ![p] = [@ EXCEPT !.cache = Over(Only(key, content), kept)]]
           /\ late' = [late EXCEPT ![p] =
                IF r.agent \in DOMAIN reg[p].snap /\ reg[p].snap[r.agent] = agent
                THEN @ ELSE @ \cup {"older agent"}]
  BY <1>0, ResolveRegistry
<1>6. ReadOK(Idle) BY <1>1 DEF ReadOK
<1>7. ProcessOK(p) /\ reg[serving].version > 0 BY <1>4 DEF CurrentInv
<1>8. (\E u \in Threads : Loads(th[u], p)) => \E u \in Threads : Loads(th[u], p)'
  <2>1. Onward(th[t], Idle) BY <1>1 DEF Onward
  <2>. QED BY <1>0, <1>2, <1>3, <2>1, LoadsKept
<1>9. CASE reg' = reg /\ late' = late
  <2>1. ProcessOK(p)' BY <1>3, <1>7, <1>8, <1>9 DEF ProcessOK, CachedOK
  <2>. QED BY <1>0, <1>2, <1>3, <1>6, <1>7, <1>9, <2>1, ReloadCurrent
<1>10. ASSUME NEW kept \in {NoRows, reg[p].cache},
              reg' = [reg EXCEPT ![p] = [@ EXCEPT !.cache = Over(Only(key, content), kept)]],
              late' = [late EXCEPT ![p] =
                IF r.agent \in DOMAIN reg[p].snap /\ reg[p].snap[r.agent] = agent
                THEN @ ELSE @ \cup {"older agent"}]
       PROVE  CurrentInv'
  <2>. DEFINE cache == Over(Only(key, content), kept)
  <2>0. RegistryState(reg[p]) BY <1>4 DEF TypesInv, RegistriesOK
  <2>1. /\ reg'[p] = [reg[p] EXCEPT !.cache = cache]
        /\ late'[p] = IF r.agent \in DOMAIN reg[p].snap /\ reg[p].snap[r.agent] = agent
                      THEN late[p] ELSE late[p] \cup {"older agent"}
        /\ \A u \in Processes : u # p => reg'[u] = reg[u] /\ late'[u] = late[u]
    BY <1>4, <1>10
  <2>2. /\ DOMAIN cache \subseteq {key} \cup DOMAIN reg[p].cache /\ cache[key] = content
        /\ \A e \in DOMAIN cache : e # key => e \in DOMAIN reg[p].cache /\ cache[e] = reg[p].cache[e]
    <3>1. DOMAIN NoRows = {} BY DEF NoRows
    <3>2. DOMAIN Only(key, content) = {key} /\ Only(key, content)[key] = content BY OnlyRow
    <3>. HIDE DEF key, content
    <3>. QED BY <1>10, <3>1, <3>2 DEF Over
  <2>3. key[1] = reg[p].version /\ key[2] = r.caller /\ key[3] = r.agent OBVIOUS
  <2>. HIDE DEF cache, key
  <2>4. /\ reg'[p].cache = cache /\ reg'[p].snap = reg[p].snap /\ reg'[p].at = reg[p].at
        /\ reg'[p].version = reg[p].version /\ reg[p].version \in Nat
    <3>1. reg[p] \in [snap : Served, max : Nat, at : Nat, version : Nat, cache : {reg[p].cache}]
      BY <2>0 DEF RegistryState
    <3>. QED BY <2>1, <3>1
  <2>5. late'[p] = {} => /\ late[p] = {} /\ r.agent \in DOMAIN reg[p].snap
                         /\ reg[p].snap[r.agent] = agent
    BY <2>1
  <2>6. \A e \in DOMAIN cache : e[1] <= reg[p].version BY <1>7, <2>2, <2>3, <2>4 DEF ProcessOK
  <2>7. late'[p] = {} /\ CachedOK(reg[p]) => CachedOK(reg[p])'
    <3>. SUFFICES ASSUME late'[p] = {}, CachedOK(reg[p]), NEW e \in DOMAIN cache, e[1] = reg[p].version
                  PROVE  e[3] \in DOMAIN reg[p].snap /\ cache[e] = Scoped(db, e[2], e[3], reg[p].snap[e[3]])
      BY <1>3, <2>4 DEF CachedOK
    <3>1. CASE e = key
      <4>1. cache[e] = Scoped(db, r.caller, r.agent, agent) BY <2>2, <3>1
      <4>. HIDE DEF content
      <4>. QED BY <2>3, <2>5, <3>1, <4>1
    <3>2. CASE e # key BY <2>2, <3>2 DEF CachedOK
    <3>. QED BY <3>1, <3>2
  <2>8. ProcessOK(p)' BY <1>3, <1>7, <1>8, <2>4, <2>5, <2>6, <2>7 DEF ProcessOK
  <2>9. reg'[serving'].version > 0 BY <1>3, <1>7, <2>1, <2>4 DEF TypesInv, RegistriesOK
  <2>. QED BY <1>0, <1>2, <1>3, <1>6, <2>1, <2>8, <2>9, ReloadCurrent
<1>. QED BY <1>5, <1>9, <1>10

LEMMA ArriveCurrent ==
  ASSUME TypesInv, CurrentInv, NEW t \in Threads, NEW r \in Requests, Arrive(t, r)
  PROVE  CurrentInv'
<1>1. PICK x :
           /\ x \in ThreadState /\ InRequest(x) /\ Holds(x) /\ x.wait = {} /\ x.read = NoRead
           /\ x.pc \in {"run", "reload", "seed", "lock"} /\ th[t].pc = "idle"
           /\ th' = [u \in Threads |-> IF u = t THEN x ELSE [th[u] EXCEPT !.alone = (@ /\ th[u].pc = "idle")]]
           /\ started' \in Processes /\ spent' \in 0..MaxActivities
  BY ArriveThreads
<1>2. /\ db' = db /\ commits' = commits /\ reg' = reg /\ late' = late /\ serving' = serving
  BY DEF Arrive
<1>3. th \in [Threads -> ThreadState] BY DEF TypesInv, ThreadsOK
<1>4. ASSUME NEW u \in Threads, u # t
      PROVE  th'[u].pc = th[u].pc /\ th'[u].proc = th[u].proc /\ th'[u].read = th[u].read
  <2>. DEFINE c == (th[u].alone /\ th[u].pc = "idle")
  <2>1. th'[u] = [th[u] EXCEPT !.alone = c] /\ c \in BOOLEAN /\ th[u] \in ThreadState BY <1>1, <1>3, <1>4
  <2>. HIDE DEF c
  <2>. QED BY <2>1, AloneKept
<1>5. ASSUME NEW u \in Threads PROVE ReadOK(th[u])'
  <2>1. CASE u = t
    <3>1. th'[u].pc # "store" BY <1>1, <2>1
    <3>. QED BY <3>1 DEF ReadOK
  <2>2. CASE u # t BY <1>2, <1>4, <2>2 DEF CurrentInv, ReadOK
  <2>. QED BY <2>1, <2>2
<1>6. ASSUME NEW u \in Threads, NEW p, Loads(th[u], p) PROVE Loads(th[u], p)'
  <2>1. u # t BY <1>1, <1>6 DEF Loads
  <2>. QED BY <1>2, <1>4, <1>6, <2>1 DEF Loads
<1>7. ASSUME NEW p \in Processes PROVE ProcessOK(p)'
  <2>1. ProcessOK(p) BY DEF CurrentInv
  <2>. QED BY <1>2, <1>6, <2>1 DEF ProcessOK, CachedOK
<1>. QED BY <1>2, <1>5, <1>7 DEF CurrentInv

LEMMA InitCurrent == Init => CurrentInv
<1>. SUFFICES ASSUME Init PROVE CurrentInv OBVIOUS
<1>1. \A t \in Threads : th[t].pc = "idle" BY DEF Init, Idle
<1>2. \A t \in Threads : ReadOK(th[t]) BY <1>1 DEF ReadOK
<1>. DEFINE q == [Empty EXCEPT !.snap = Snapshot(db), !.version = 1,
                               !.max = Newest(Stamps(db, DOMAIN Snapshot(db)))]
<1>3. q.snap = Snapshot(db) /\ q.version = 1 /\ q.at = 0 /\ q.cache = NoRows
  <2>. DEFINE s == Snapshot(db)
              m == Newest(Stamps(db, DOMAIN Snapshot(db)))
  <2>. HIDE DEF s, m
  <2>1. LET z == [Empty EXCEPT !.snap = s, !.version = 1, !.max = m]
        IN  z.snap = s /\ z.version = 1 /\ z.at = 0 /\ z.cache = NoRows
    BY DEF Empty
  <2>. QED BY <2>1 DEF s, m
<1>4. Empty.version = 0 /\ Empty.at = 0 /\ Empty.cache = NoRows /\ DOMAIN NoRows = {} BY DEF Empty, NoRows
<1>5. /\ reg = [p \in Processes |-> IF p # 0 THEN Empty ELSE q] /\ late = [p \in Processes |-> {}]
      /\ commits = 0 /\ serving = 0 /\ 0 \in Processes
  BY AdminConstants DEF Init, Processes
<1>. HIDE DEF q
<1>6. ASSUME NEW p \in Processes PROVE ProcessOK(p)
  <2>1. CASE p = 0
    <3>1. reg[p] = q BY <1>5, <2>1
    <3>. QED BY <1>3, <1>4, <1>5, <3>1 DEF ProcessOK, CachedOK
  <2>2. CASE p # 0
    <3>1. reg[p] = Empty BY <1>5, <2>2
    <3>. QED BY <1>4, <1>5, <3>1 DEF ProcessOK
  <2>. QED BY <2>1, <2>2
<1>7. reg[serving].version > 0 BY <1>3, <1>5
<1>. QED BY <1>2, <1>6, <1>7 DEF CurrentInv

LEMMA CurrentStep == TypesInv /\ CurrentInv /\ [Next]_vars => CurrentInv'
<1>. SUFFICES ASSUME TypesInv, CurrentInv, [Next]_vars PROVE CurrentInv' OBVIOUS
<1>1. CASE \E t \in Threads, r \in Requests : Arrive(t, r) /\ UNCHANGED capVars
  BY <1>1, ArriveCurrent
<1>2. CASE \E t \in Threads : Step(t)
  BY <1>2, ReadCurrent, StoreCurrent, FailCurrent, ResolveCurrent, HandlerCurrent DEF Step, ConfigStep
<1>3. CASE UNCHANGED vars
  <2>1. db' = db /\ th' = th /\ commits' = commits /\ reg' = reg /\ late' = late /\ serving' = serving
    BY <1>3 DEF vars, registryVars, processVars
  <2>. QED BY <2>1 DEF CurrentInv, ReadOK, ProcessOK, CachedOK, Loads
<1>. QED BY <1>1, <1>2, <1>3 DEF Next, Done

LEMMA Current == Spec => [](TypesInv /\ CurrentInv)
<1>. QED BY InitTypes, TypesStep, InitCurrent, CurrentStep, PTL DEF Spec

\* When no thread is in a request, a process with no reason to be late serves the tables.
LEMMA QuietIsCurrent ==
  ASSUME CurrentInv, TypesInv, Quiet, late[serving] = {}
  PROVE  reg[serving].snap = Snapshot(db) /\ CachedOK(reg[serving])
<1>1. serving \in Processes BY DEF TypesInv, RegistriesOK
<1>2. \A u \in Threads : ~Loads(th[u], serving) BY DEF Quiet, Loads
<1>. QED BY <1>1, <1>2 DEF CurrentInv, ProcessOK

\* reload, maybe_reload and resolve_for_scope: when no request is in flight the serving process has
\* what the tables say, cached entries included, unless one of the four races of `late' happened.
THEOREM RegistryStaysCurrent == Spec => []RegistryCurrent
<1>1. TypesInv /\ CurrentInv => RegistryCurrent BY QuietIsCurrent DEF RegistryCurrent, CachedOK
<1>. QED BY <1>1, Current, PTL

\* resolve_for_user: the caller's own row of a capability wins over the inherited one before its
\* status is looked at; and a button stands for an agent that the router finds.
THEOREM SidebarStaysHonest == Spec => []SidebarHonest
<1>1. ASSUME TypesInv, CurrentInv PROVE SidebarHonest
  <2>. SUFFICES ASSUME NEW c \in Callers, NEW a \in Buttons(db, c)
                PROVE  /\ CapKey(c) \in DOMAIN db => db[CapKey(c)].status # "disabled"
                       /\ Quiet /\ late[serving] = {} /\ HasDefault(db, a) => a \in DOMAIN reg[serving].snap
    BY DEF SidebarHonest
  <2>1. a \in Agents /\ a \in Enabled(db) /\ \E s \in Resolved(db, c) : TRUE
    BY DEF Buttons, Members
  <2>2. ASSUME CapKey(c) \in DOMAIN db PROVE db[CapKey(c)].status # "disabled"
    <3>. DEFINE rows == {s \in CapScopes(db) : Applies(s, c)}
    <3>1. c \in rows
      <4>1. CapKey(c)[1] = "cap" /\ CapKey(c)[2] = c BY DEF CapKey
      <4>2. c \in CapScopes(db) BY <2>2, <4>1 DEF CapScopes
      <4>. QED BY <4>2 DEF Applies
    <3>2. First(rows, c) \in rows /\ Rank(First(rows, c), c) <= Rank(c, c)
      <4>. HIDE DEF rows
      <4>. QED BY <3>1, FirstOf
    <3>3. First(rows, c)[1] = c[1] /\ First(rows, c)[2] = c[2] BY <3>2 DEF Rank
    <3>4. rows \subseteq Scopes
      <4>1. \A k \in DOMAIN db : k[1] = "cap" => k[2] \in Scopes
        <5>. SUFFICES ASSUME NEW k \in DOMAIN db, k[1] = "cap" PROVE k[2] \in Scopes OBVIOUS
        <5>1. k \in Keys BY <1>1 DEF TypesInv, TablesOK, Table, Rows
        <5>2. PICK s \in Scopes : k = CapKey(s) BY <5>1, KeyKinds
        <5>. QED BY <5>2 DEF CapKey
      <4>. QED BY <4>1 DEF CapScopes
    <3>5. First(rows, c) = c BY <3>2, <3>3, <3>4, AdminConstants DEF Callers
    <3>6. Resolved(db, c) = {s \in {First(rows, c)} : db[CapKey(s)].status # "disabled"}
      BY <3>1 DEF Resolved
    <3>. HIDE DEF rows
    <3>. QED BY <2>1, <3>5, <3>6
  <2>3. ASSUME Quiet, late[serving] = {}, HasDefault(db, a) PROVE a \in DOMAIN reg[serving].snap
    <3>1. reg[serving].snap = Snapshot(db) BY <1>1, <2>3, QuietIsCurrent
    <3>. QED BY <2>1, <2>3, <3>1 DEF Snapshot
  <2>. QED BY <2>2, <2>3
<1>. QED BY <1>1, Current, PTL
-----------------------------------------------------------------------------
(* The keys across tables: the inductive invariant.                          *)

\* Two rows with one id are one row; and the ids there are were given out.
OneId(f, g) ==
  \A j \in DOMAIN f, k \in DOMAIN g :
    j[1] = "cap" /\ k[1] = "cap" /\ f[j] # Gone /\ g[k] # Gone /\ f[j].id = g[k].id => j = k
Given(f) == \A k \in DOMAIN f : k[1] = "cap" /\ f[k] # Gone => f[k].id <= made

\* Thread t has deleted the capability with id i.
Deletes(t, i) == \E k \in DOMAIN pend[t] : k[1] = "cap" /\ pend[t][k] = Gone /\ db[k].id = i

\* A written capability is the stored one of that scope, or a new one.
CapsOK(t) ==
  \A k \in DOMAIN pend[t] : k[1] = "cap" =>
    /\ th[t].req.kind \in {"cap_create", "cap_update", "cap_delete"}
    /\ k \in DOMAIN db <=> th[t].req.kind # "cap_create"
    /\ pend[t][k] # Gone /\ k \in DOMAIN db => pend[t][k].id = db[k].id
    /\ pend[t][k] = Gone => /\ th[t].req.kind = "cap_delete" /\ th[t].pc \in {"cascade", "commit"}
                            /\ db[k].id = th[t].n

\* An inserted member's capability is stored and no other thread deletes it; any other member a
\* thread has written is deleted, or locked until the statement that waits deletes it.
MembersOK(t) ==
  \A k \in DOMAIN pend[t] : k[1] = "member" =>
    /\ th[t].req.kind \in {"cap_delete", "put", "boot"}
    /\ pend[t][k] # Gone =>
         IF th[t].pc \in {"put_insert", "seed_insert"}
         THEN k[2] \in CapIds(db) /\ \A u \in Others(t) : ~Deletes(u, k[2])
         ELSE th[t].pc \in {"clear", "cascade"} /\ k \in th[t].wait /\ k[2] = th[t].n
    /\ pend[t][k] = Gone => th[t].pc \in {"put_insert", "commit"}

\* The members of a deleted capability: the cascade waits for all of them, and then all are deleted.
CascadeOK(t) ==
  Deletes(t, th[t].n) =>
  \A k \in MembersOf(db, th[t].n) :
    /\ th[t].pc = "cascade" /\ th[t].wait # {} => k \in th[t].wait
    /\ th[t].pc = "commit" => k \in DOMAIN pend[t] /\ pend[t][k] = Gone

RowsApart ==
  \A t, u \in Threads : t # u =>
    \A k \in DOMAIN pend[t] \cap DOMAIN pend[u] : k[1] \notin {"cap", "member"}
IdsOK ==
  /\ OneId(db, db) /\ Given(db)
  /\ \A t \in Threads : OneId(db, pend[t]) /\ Given(pend[t])
  /\ \A t, u \in Threads : OneId(pend[t], pend[u])
WritersOK == \A t \in Threads : CapsOK(t) /\ MembersOK(t) /\ CascadeOK(t)
KeysInv == RowsApart /\ IdsOK /\ WritersOK /\ MembersHaveCapability(db)

(* What a step leaves alone.                                                 *)
KeyRow(k) == k[1] \in {"cap", "member"}
SameKeys(f, g) ==
  \A k : KeyRow(k) => (k \in DOMAIN f <=> k \in DOMAIN g) /\ (k \in DOMAIN f => f[k] = g[k])

LEMMA SameCapabilities ==
  ASSUME NEW f, NEW g, SameKeys(f, g)
  PROVE  CapIds(f) = CapIds(g) /\ \A i : MembersOf(f, i) = MembersOf(g, i)
<1>1. {j \in DOMAIN f : j[1] = "cap"} = {j \in DOMAIN g : j[1] = "cap"}
      /\ \A j \in DOMAIN f : j[1] = "cap" => f[j] = g[j]
  BY DEF SameKeys, KeyRow
<1>2. \A i : MembersOf(f, i) = MembersOf(g, i) BY DEF SameKeys, KeyRow, MembersOf, IsMember
<1>. QED BY <1>1, <1>2 DEF CapIds

LEMMA HasCapId ==
  ASSUME NEW f, NEW i
  PROVE  i \in CapIds(f) <=> \E k \in DOMAIN f : k[1] = "cap" /\ f[k].id = i
BY DEF CapIds

LEMMA CapRowTyped ==
  ASSUME TypesInv
  PROVE  /\ \A k \in DOMAIN db : k[1] = "cap" => db[k] # Gone /\ db[k].id \in Nat
         /\ \A t \in Threads : \A k \in DOMAIN pend[t] :
              k[1] = "cap" /\ pend[t][k] # Gone => pend[t][k].id \in Nat
<1>1. ASSUME NEW k \in DOMAIN db, k[1] = "cap"
      PROVE  db[k] # Gone /\ db[k].id \in Nat
  <2>1. k \in Keys /\ GoodRow(k, db[k]) BY DEF TypesInv, TablesOK, Table, Rows
  <2>. QED BY <1>1, <2>1, RowNotGone DEF GoodRow, CapRow
<1>2. ASSUME NEW t \in Threads, NEW k \in DOMAIN pend[t], k[1] = "cap", pend[t][k] # Gone
      PROVE  pend[t][k].id \in Nat
  <2>1. GoodRow(k, pend[t][k]) BY <1>2 DEF TypesInv, TablesOK, Written
  <2>. QED BY <1>2, <2>1 DEF GoodRow, CapRow
<1>. QED BY <1>1, <1>2

LEMMA ThreadKinds ==
  ASSUME KeysInv, NEW t \in Threads
  PROVE  CapsOK(t) /\ MembersOK(t) /\ CascadeOK(t)
BY DEF KeysInv, WritersOK

\* A thread that writes, gives up, or commits agents and configurations: nothing changes for the
\* others if what it wrote is apart and the new ids are its own.
LEMMA WriteKeeps ==
  ASSUME TypesInv, KeysInv, NEW t \in Threads, NEW f, NEW x,
         pend' = [pend EXCEPT ![t] = f], th' = [th EXCEPT ![t] = x], SameKeys(db', db),
         made' \in Nat, made' >= made,
         \A u \in Others(t) : \A k \in DOMAIN f \cap DOMAIN pend[u] : ~KeyRow(k),
         OneId(db, f), OneId(f, f), \A u \in Others(t) : OneId(f, pend[u]),
         \A k \in DOMAIN f : k[1] = "cap" /\ f[k] # Gone => f[k].id <= made',
         \A k \in DOMAIN f : k[1] = "cap" /\ f[k] = Gone =>
           \/ k \in DOMAIN pend[t] /\ pend[t][k] = Gone
           \/ \A u \in Others(t) : \A j \in DOMAIN pend[u] : IsMember(j, db[k].id) => pend[u][j] = Gone,
         \A k \in DOMAIN f : k[1] = "cap" /\ f[k] = Gone => k \in DOMAIN db,
         CapsOK(t)', MembersOK(t)', CascadeOK(t)'
  PROVE  KeysInv'
<1>1. /\ pend'[t] = f /\ th'[t] = x
      /\ \A u \in Others(t) : pend'[u] = pend[u] /\ th'[u] = th[u]
  BY DEF TypesInv, TablesOK, ThreadsOK, Others
<1>2. RowsApart' BY <1>1 DEF RowsApart, KeysInv, Others, KeyRow
<1>3. IdsOK'
  <2>1. OneId(db, db)' /\ Given(db)'
    <3>1. OneId(db, db) /\ Given(db) BY DEF KeysInv, IdsOK
    <3>2. \A k \in DOMAIN db' : k[1] = "cap" => k \in DOMAIN db /\ db'[k] = db[k]
      BY DEF SameKeys, KeyRow
    <3>3. \A k \in DOMAIN db : k[1] = "cap" => db[k].id \in Nat BY CapRowTyped
    <3>4. OneId(db, db)' BY <3>1, <3>2 DEF OneId
    <3>5. \A k \in DOMAIN db' : k[1] = "cap" /\ db'[k] # Gone => db'[k].id <= made'
      BY <3>1, <3>2, <3>3 DEF Given, TypesInv, RegistriesOK
    <3>. QED BY <3>4, <3>5 DEF Given
  <2>2. ASSUME NEW u \in Threads
        PROVE  OneId(db, pend[u])' /\ Given(pend[u])'
    <3>1. \A k \in DOMAIN db' : k[1] = "cap" => k \in DOMAIN db /\ db'[k] = db[k]
      BY DEF SameKeys, KeyRow
    <3>2. CASE u = t BY <1>1, <3>1, <3>2 DEF OneId, Given
    <3>3. CASE u # t
      <4>1. OneId(db, pend[u]) /\ Given(pend[u]) /\ pend'[u] = pend[u]
        BY <1>1, <3>3 DEF KeysInv, IdsOK, Others
      <4>2. OneId(db, pend[u])' BY <3>1, <4>1 DEF OneId
      <4>3. \A k \in DOMAIN pend[u] : k[1] = "cap" /\ pend[u][k] # Gone => pend[u][k].id <= made'
        BY <4>1, CapRowTyped DEF Given, TypesInv, RegistriesOK
      <4>. QED BY <4>1, <4>2, <4>3 DEF Given
    <3>. QED BY <3>2, <3>3
  <2>3. ASSUME NEW u \in Threads, NEW w \in Threads
        PROVE  OneId(pend[u], pend[w])'
    <3>1. OneId(pend[u], pend[w]) BY DEF KeysInv, IdsOK
    <3>2. CASE u # t /\ w # t BY <1>1, <3>1, <3>2 DEF OneId, Others
    <3>3. CASE u = t /\ w = t BY <1>1, <3>3 DEF OneId
    <3>4. CASE u = t /\ w # t
      <4>1. w \in Others(t) BY <3>4 DEF Others
      <4>. QED BY <1>1, <3>4, <4>1 DEF OneId
    <3>5. CASE u # t /\ w = t
      <4>1. u \in Others(t) BY <3>5 DEF Others
      <4>. QED BY <1>1, <3>5, <4>1 DEF OneId
    <3>. QED BY <3>2, <3>3, <3>4, <3>5
  <2>. QED BY <2>1, <2>2, <2>3 DEF IdsOK
<1>4. CapIds(db') = CapIds(db) /\ \A i : MembersOf(db', i) = MembersOf(db, i) BY SameCapabilities
<1>5. MembersHaveCapability(db')
  <2>1. MembersHaveCapability(db) BY DEF KeysInv
  <2>. QED BY <2>1, <1>4 DEF MembersHaveCapability, SameKeys, KeyRow
<1>6. ASSUME NEW u \in Others(t)
      PROVE  CapsOK(u)' /\ MembersOK(u)' /\ CascadeOK(u)'
  <2>0. u \in Threads /\ u # t /\ pend'[u] = pend[u] /\ th'[u] = th[u] BY <1>1 DEF Others
  <2>1. CapsOK(u) /\ MembersOK(u) /\ CascadeOK(u) BY <2>0, ThreadKinds
  <2>2. \A k : k[1] = "cap" => (k \in DOMAIN db' <=> k \in DOMAIN db)
                              /\ (k \in DOMAIN db => db'[k] = db[k])
    BY DEF SameKeys, KeyRow
  <2>3. ASSUME NEW k \in DOMAIN pend[u], k[1] = "cap", pend[u][k] = Gone
        PROVE  k \in DOMAIN db
    BY <2>1, <2>3 DEF CapsOK
  <2>4. CapsOK(u)' BY <2>0, <2>1, <2>2, <2>3 DEF CapsOK
  <2>5. ASSUME NEW w \in Others(t), NEW i
        PROVE  Deletes(w, i)' <=> Deletes(w, i)
    <3>1. w \in Threads /\ pend'[w] = pend[w] BY <1>1 DEF Others
    <3>2. CapsOK(w) BY <3>1, ThreadKinds
    <3>3. \A k \in DOMAIN pend[w] : k[1] = "cap" /\ pend[w][k] = Gone => k \in DOMAIN db
      BY <3>2 DEF CapsOK
    <3>. QED BY <2>2, <3>1, <3>3 DEF Deletes
  <2>6. ASSUME NEW i, Deletes(t, i)', NEW j \in DOMAIN pend[u], IsMember(j, i), ~Deletes(t, i)
        PROVE  pend[u][j] = Gone
    <3>1. PICK k \in DOMAIN f : k[1] = "cap" /\ f[k] = Gone /\ db'[k].id = i
      BY <1>1, <2>6 DEF Deletes
    <3>2. k \in DOMAIN db /\ db[k].id = i BY <2>2, <3>1
    <3>3. ~(k \in DOMAIN pend[t] /\ pend[t][k] = Gone) BY <2>6, <3>1, <3>2 DEF Deletes
    <3>. QED BY <2>6, <3>1, <3>2, <3>3
  <2>7. MembersOK(u)'
    <3>. SUFFICES ASSUME NEW k \in DOMAIN pend[u], k[1] = "member"
                  PROVE  /\ th[u].req.kind \in {"cap_delete", "put", "boot"}
                         /\ pend[u][k] # Gone =>
                              IF th[u].pc \in {"put_insert", "seed_insert"}
                              THEN k[2] \in CapIds(db') /\ \A w \in Others(u) : ~Deletes(w, k[2])'
                              ELSE th[u].pc \in {"clear", "cascade"} /\ k \in th[u].wait /\ k[2] = th[u].n
                         /\ pend[u][k] = Gone => th[u].pc \in {"put_insert", "commit"}
      BY <2>0 DEF MembersOK
    <3>1. ASSUME pend[u][k] # Gone, th[u].pc \in {"put_insert", "seed_insert"}, NEW w \in Others(u)
          PROVE  ~Deletes(w, k[2])'
      <4>1. ~Deletes(w, k[2]) /\ w \in Threads BY <2>1, <3>1 DEF MembersOK, Others
      <4>2. CASE w = t BY <2>6, <3>1, <4>1, <4>2 DEF IsMember
      <4>3. CASE w # t BY <2>5, <4>1, <4>3 DEF Others
      <4>. QED BY <4>2, <4>3
    <3>. QED BY <1>4, <2>1, <3>1 DEF MembersOK
  <2>8. CascadeOK(u)'
    <3>1. ASSUME Deletes(u, th[u].n)'
          PROVE  Deletes(u, th[u].n)
      BY <2>0, <2>2, <2>3, <3>1 DEF Deletes
    <3>2. ASSUME Deletes(u, th[u].n)', NEW k \in MembersOf(db', th[u].n)
          PROVE  /\ th[u].pc = "cascade" /\ th[u].wait # {} => k \in th[u].wait
                 /\ th[u].pc = "commit" => k \in DOMAIN pend[u] /\ pend[u][k] = Gone
      BY <1>4, <2>1, <3>1, <3>2 DEF CascadeOK
    <3>. QED BY <2>0, <3>2 DEF CascadeOK
  <2>. QED BY <2>4, <2>7, <2>8
<1>7. WritersOK' BY <1>6 DEF WritersOK, Others
<1>. QED BY <1>2, <1>3, <1>5, <1>7 DEF KeysInv

\* A thread that has written no capability and no member when its step ends.
LEMMA ClearedKeeps ==
  ASSUME TypesInv, KeysInv, NEW t \in Threads, NEW f, NEW x,
         pend' = [pend EXCEPT ![t] = f], th' = [th EXCEPT ![t] = x], SameKeys(db', db),
         made' = made, \A k \in DOMAIN f : ~KeyRow(k)
  PROVE  KeysInv'
<1>1. pend'[t] = f BY DEF TypesInv, TablesOK
<1>2. \A k \in DOMAIN f : k[1] # "cap" /\ k[1] # "member" BY DEF KeyRow
<1>3. CapsOK(t)' BY <1>1, <1>2 DEF CapsOK
<1>4. MembersOK(t)' BY <1>1, <1>2 DEF MembersOK
<1>5. CascadeOK(t)' BY <1>1, <1>2 DEF CascadeOK, Deletes
<1>6. OneId(db, f) /\ OneId(f, f) /\ \A u \in Others(t) : OneId(f, pend[u]) BY <1>2 DEF OneId
<1>7. made' \in Nat /\ made' >= made BY DEF TypesInv, RegistriesOK
<1>. QED BY <1>2, <1>3, <1>4, <1>5, <1>6, <1>7, WriteKeeps

LEMMA SameDb ==
  ASSUME db' = db
  PROVE  SameKeys(db', db)
BY DEF SameKeys

LEMMA NoKeyRows ==
  /\ \A k \in DOMAIN NoRows : ~KeyRow(k)
  /\ \A k : k[1] \in {"agent", "config"} => ~KeyRow(k)
<1>1. DOMAIN NoRows = {} BY DEF NoRows
<1>. QED BY <1>1 DEF KeyRow

LEMMA FailKeeps ==
  ASSUME TypesInv, KeysInv, NEW t \in Threads, Fail(t), made' = made
  PROVE  KeysInv'
<1>1. pend' = [pend EXCEPT ![t] = NoRows] /\ db' = db BY DEF Fail
<1>2. \E x : th' = [th EXCEPT ![t] = x] BY DEF Fail, Go
<1>. QED BY <1>1, <1>2, SameDb, NoKeyRows, ClearedKeeps

LEMMA LocalKeeps ==
  ASSUME TypesInv, KeysInv, NEW t \in Threads, NEW x, Local(t, x), pend[t] = NoRows, made' = made
  PROVE  KeysInv'
<1>1. pend' = pend /\ db' = db BY DEF Local
<1>2. \E y : th' = [th EXCEPT ![t] = y] BY DEF Local, Go
<1>3. pend' = [pend EXCEPT ![t] = NoRows] BY <1>1 DEF TypesInv, TablesOK
<1>. QED BY <1>1, <1>2, <1>3, SameDb, NoKeyRows, ClearedKeeps

\* Statements and commits on agents and configurations.
LEMMA ConfigKeeps ==
  ASSUME TypesInv, KeysInv, NEW t \in Threads, NEW y, Effect(t, y), made' = made,
         Tables(th[t]) = {"agent", "config"}
  PROVE  KeysInv'
<1>0. /\ pend = [u \in Threads |-> pend[u]] /\ Table(db) /\ Written(pend[t])
      /\ \A k \in DOMAIN pend[t] : k[1] \in {"agent", "config"}
  BY DEF TypesInv, TablesOK
<1>1. th' = [th EXCEPT ![t] = y] BY DEF Effect
<1>2. \A k \in DOMAIN pend[t] : ~KeyRow(k) BY <1>0, NoKeyRows
<1>3. \E f : pend' = [pend EXCEPT ![t] = f] /\ \A k \in DOMAIN f : ~KeyRow(k)
  <2>1. CASE pend' = [pend EXCEPT ![t] = NoRows] BY <2>1, NoKeyRows
  <2>2. ASSUME NEW rows, \A k \in DOMAIN rows : k[1] \in Tables(th[t]),
               pend' = [pend EXCEPT ![t] = Over(rows, pend[t])]
        PROVE  \E f : pend' = [pend EXCEPT ![t] = f] /\ \A k \in DOMAIN f : ~KeyRow(k)
    <3>1. DOMAIN Over(rows, pend[t]) = DOMAIN rows \cup DOMAIN pend[t] BY OverRows
    <3>2. \A k \in DOMAIN rows : ~KeyRow(k) BY <2>2, NoKeyRows
    <3>3. \A k \in DOMAIN Over(rows, pend[t]) : ~KeyRow(k) BY <1>2, <3>1, <3>2
    <3>. QED BY <2>2, <3>3
  <2>3. CASE pend' = pend
    <3>1. pend' = [pend EXCEPT ![t] = pend[t]] BY <1>0, <2>3
    <3>. QED BY <1>2, <3>1
  <2>. QED BY <2>1, <2>2, <2>3 DEF Effect, TableChange
<1>4. SameKeys(db', db)
  <2>1. CASE db' = db BY <2>1, SameDb
  <2>2. CASE db' = View(t)
    <3>1. \A k : k \in DOMAIN View(t) <=> \/ k \in DOMAIN pend[t] /\ pend[t][k] # Gone
                                          \/ k \in (DOMAIN db) \ (DOMAIN pend[t])
      BY <1>0, ViewTable
    <3>2. \A k \in DOMAIN View(t) : View(t)[k] = IF k \in DOMAIN pend[t] THEN pend[t][k] ELSE db[k]
      BY <1>0, ViewTable
    <3>. QED BY <1>2, <2>2, <3>1, <3>2 DEF SameKeys
  <2>. QED BY <2>1, <2>2 DEF Effect
<1>. QED BY <1>1, <1>3, <1>4, ClearedKeeps

\* A new row with the id of an old one is the old one.
LEMMA OldIds ==
  ASSUME TypesInv, KeysInv, NEW t \in Threads, NEW f,
         \A k \in DOMAIN f : k[1] = "cap" /\ f[k] # Gone =>
           \/ k \in DOMAIN db /\ f[k].id = db[k].id
           \/ k \in DOMAIN pend[t] /\ pend[t][k] # Gone /\ f[k].id = pend[t][k].id
  PROVE  /\ OneId(db, f) /\ OneId(f, f) /\ \A u \in Threads : OneId(f, pend[u])
         /\ \A k \in DOMAIN f : k[1] = "cap" /\ f[k] # Gone => f[k].id <= made
<1>1. \A k \in DOMAIN db : k[1] = "cap" => db[k] # Gone BY CapRowTyped
<1>2. OneId(db, db) /\ Given(db) /\ OneId(db, pend[t]) /\ Given(pend[t]) /\ OneId(pend[t], pend[t])
      /\ \A u \in Threads : OneId(db, pend[u]) /\ OneId(pend[t], pend[u])
  BY DEF KeysInv, IdsOK
<1>3. OneId(db, f) BY <1>1, <1>2 DEF OneId
<1>4. OneId(f, f) BY <1>1, <1>2 DEF OneId
<1>5. ASSUME NEW u \in Threads PROVE OneId(f, pend[u])
  <2>1. OneId(db, pend[u]) /\ OneId(pend[t], pend[u]) BY <1>2
  <2>. QED BY <1>1, <2>1 DEF OneId
<1>6. \A k \in DOMAIN f : k[1] = "cap" /\ f[k] # Gone => f[k].id <= made BY <1>1, <1>2 DEF Given
<1>. QED BY <1>3, <1>4, <1>5, <1>6

\* A statement that waits locks rows as they are.
LEMMA BlockKeeps ==
  ASSUME TypesInv, KeysInv, NEW t \in Threads, NEW held, NEW keys, Block(t, held, keys), made' = made,
         held \subseteq DOMAIN View(t), \A u \in Others(t) : held \cap DOMAIN pend[u] = {},
         \A k \in held : k[1] = "cap" => th[t].req.kind \in {"cap_update", "cap_delete"},
         \A k \in held : k[1] = "member" =>
           /\ th[t].pc \in {"clear", "cascade"} /\ th[t].req.kind \in {"cap_delete", "put"}
           /\ k \in keys /\ k[2] = th[t].n,
         th[t].pc \in {"clear", "cascade"} =>
           \A k \in DOMAIN View(t) : IsMember(k, th[t].n) /\ (th[t].wait = {} \/ k \in th[t].wait) => k \in keys
  PROVE  KeysInv'
<1>. DEFINE f == Over(Restrict(View(t), held), pend[t])
            x == [th[t] EXCEPT !.wait = keys]
<1>0. /\ Table(db) /\ Written(pend[t]) /\ th[t] \in ThreadState BY DEF TypesInv, TablesOK, ThreadsOK
<1>1. /\ pend' = [pend EXCEPT ![t] = f] /\ th' = [th EXCEPT ![t] = x] /\ db' = db
  BY DEF Block, TypesInv, ThreadsOK
<1>2. /\ x.pc = th[t].pc /\ x.req = th[t].req /\ x.n = th[t].n /\ x.wait = keys
  BY <1>0 DEF ThreadState
<1>3. DOMAIN f = held \cup DOMAIN pend[t] BY DEF Over, Restrict
<1>4. ASSUME NEW k \in DOMAIN f
      PROVE  \/ k \in DOMAIN pend[t] /\ f[k] = pend[t][k]
             \/ k \in held /\ k \in DOMAIN db /\ f[k] = db[k] /\ k \notin DOMAIN pend[t]
  <2>1. k \in held => f[k] = View(t)[k] BY DEF Over, Restrict
  <2>2. k \notin held => k \in DOMAIN pend[t] /\ f[k] = pend[t][k] BY DEF Over, Restrict
  <2>3. k \in held => k \in DOMAIN View(t) OBVIOUS
  <2>4. k \in DOMAIN View(t) => /\ View(t)[k] = IF k \in DOMAIN pend[t] THEN pend[t][k] ELSE db[k]
                                /\ k \in DOMAIN pend[t] \/ k \in DOMAIN db
    BY <1>0, ViewTable
  <2>. QED BY <2>1, <2>2, <2>3, <2>4
<1>5. pend'[t] = f /\ th'[t] = x BY <1>1 DEF TypesInv, TablesOK, ThreadsOK
<1>6. CapsOK(t) /\ MembersOK(t) /\ CascadeOK(t) BY ThreadKinds
<1>7. \A k \in DOMAIN db : k[1] = "cap" => db[k] # Gone /\ db[k].id \in Nat BY CapRowTyped
<1>8. \A k \in DOMAIN db : k[1] = "member" => db[k] # Gone
  <2>. SUFFICES ASSUME NEW k \in DOMAIN db, k[1] = "member" PROVE db[k] # Gone OBVIOUS
  <2>1. k \in Keys /\ GoodRow(k, db[k]) BY <1>0 DEF Table, Rows
  <2>. QED BY <2>1, RowNotGone
<1>. HIDE DEF f, x
<1>9. /\ OneId(db, f) /\ OneId(f, f) /\ \A u \in Threads : OneId(f, pend[u])
      /\ \A k \in DOMAIN f : k[1] = "cap" /\ f[k] # Gone => f[k].id <= made
  <2>1. \A k \in DOMAIN f : k[1] = "cap" /\ f[k] # Gone =>
           \/ k \in DOMAIN db /\ f[k].id = db[k].id
           \/ k \in DOMAIN pend[t] /\ pend[t][k] # Gone /\ f[k].id = pend[t][k].id
    BY <1>4
  <2>. QED BY <2>1, OldIds
<1>10. \A u \in Others(t) : \A k \in DOMAIN f \cap DOMAIN pend[u] : ~KeyRow(k)
  BY <1>3 DEF KeysInv, RowsApart, Others, KeyRow
<1>11. \A k \in DOMAIN f : k[1] = "cap" /\ f[k] = Gone => k \in DOMAIN pend[t] /\ pend[t][k] = Gone
  BY <1>4, <1>7
<1>12. CapsOK(t)' BY <1>1, <1>2, <1>4, <1>5, <1>6, <1>7 DEF CapsOK
<1>13. \A k \in DOMAIN f : k[1] = "cap" /\ f[k] = Gone => k \in DOMAIN db
  BY <1>6, <1>11 DEF CapsOK
<1>14. ASSUME NEW i, Deletes(t, i)' PROVE Deletes(t, i) BY <1>1, <1>5, <1>11, <1>14 DEF Deletes
<1>15. MembersOK(t)'
  <2>. SUFFICES ASSUME NEW k \in DOMAIN f, k[1] = "member"
                PROVE  /\ x.req.kind \in {"cap_delete", "put", "boot"}
                       /\ f[k] # Gone =>
                            IF x.pc \in {"put_insert", "seed_insert"}
                            THEN k[2] \in CapIds(db) /\ \A u \in Others(t) : ~Deletes(u, k[2])'
                            ELSE x.pc \in {"clear", "cascade"} /\ k \in x.wait /\ k[2] = x.n
                       /\ f[k] = Gone => x.pc \in {"put_insert", "commit"}
    BY <1>1, <1>5 DEF MembersOK
  <2>1. CASE k \in held /\ k \in DOMAIN db /\ f[k] = db[k] /\ k \notin DOMAIN pend[t]
    BY <1>2, <1>8, <2>1
  <2>2. CASE k \in DOMAIN pend[t] /\ f[k] = pend[t][k]
    <3>1. ASSUME NEW u \in Others(t), NEW i PROVE Deletes(u, i)' <=> Deletes(u, i)
      <4>1. pend'[u] = pend[u] BY <1>1 DEF Others, TypesInv, TablesOK
      <4>. QED BY <1>1, <4>1 DEF Deletes
    <3>2. CASE f[k] # Gone /\ x.pc \notin {"put_insert", "seed_insert"}
      <4>1. th[t].pc \in {"clear", "cascade"} /\ k \in th[t].wait /\ k[2] = th[t].n
        BY <1>2, <1>6, <2>2, <3>2 DEF MembersOK
      <4>2. k \in DOMAIN View(t) BY <1>0, <2>2, <3>2, ViewTable
      <4>3. k \in keys BY <4>1, <4>2 DEF IsMember
      <4>. QED BY <1>2, <1>6, <2>2, <3>2, <4>1, <4>3 DEF MembersOK
    <3>. QED BY <1>2, <1>6, <2>2, <3>1, <3>2 DEF MembersOK
  <2>. QED BY <1>4, <2>1, <2>2
<1>16. CascadeOK(t)'
  <2>. SUFFICES ASSUME NEW m, m = x.n, Deletes(t, m)', NEW k \in MembersOf(db, m)
                PROVE  /\ x.pc = "cascade" /\ x.wait # {} => k \in x.wait
                       /\ x.pc = "commit" => k \in DOMAIN f /\ f[k] = Gone
    BY <1>1, <1>5 DEF CascadeOK, Deletes
  <2>1. Deletes(t, th[t].n) /\ k \in MembersOf(db, th[t].n) BY <1>2, <1>14
  <2>2. k \in DOMAIN db /\ k[1] = "member" /\ IsMember(k, th[t].n) BY <2>1 DEF MembersOf, IsMember
  <2>3. CASE th[t].pc = "cascade"
    <3>1. k \in DOMAIN View(t)
      <4>1. k \in DOMAIN pend[t] => pend[t][k] # Gone BY <1>6, <2>2, <2>3 DEF MembersOK
      <4>. QED BY <1>0, <2>2, <4>1, ViewTable
    <3>2. th[t].wait = {} \/ k \in th[t].wait BY <1>6, <2>1, <2>3 DEF CascadeOK
    <3>. QED BY <1>2, <2>2, <2>3, <3>1, <3>2
  <2>4. CASE th[t].pc = "commit"
    <3>1. k \in DOMAIN pend[t] /\ pend[t][k] = Gone BY <1>6, <2>1, <2>4 DEF CascadeOK
    <3>. QED BY <1>2, <1>3, <1>4, <2>4, <3>1
  <2>. QED BY <1>2, <2>3, <2>4
<1>17. made' \in Nat /\ made' >= made BY DEF TypesInv, RegistriesOK
<1>18. \A u \in Others(t) : OneId(f, pend[u]) BY <1>9 DEF Others
<1>. QED BY <1>1, <1>9, <1>10, <1>11, <1>12, <1>13, <1>15, <1>16, <1>17, <1>18, SameDb, WriteKeeps

(* Statements that are applied.                                              *)
LEMMA AppliedRows ==
  ASSUME TypesInv, NEW t \in Threads, NEW rows, NEW x \in ThreadState,
         Apply(t, rows, x), ~Refused(t, rows)
  PROVE  /\ pend' = [pend EXCEPT ![t] = Over(rows, pend[t])] /\ pend'[t] = Over(rows, pend[t])
         /\ th' = [th EXCEPT ![t] = Unwaiting(x)] /\ th'[t] = Unwaiting(x) /\ db' = db
         /\ Unwaiting(x).pc = x.pc /\ Unwaiting(x).req = x.req /\ Unwaiting(x).n = x.n
         /\ Unwaiting(x).wait = {}
         /\ \A u \in Others(t) : pend'[u] = pend[u]
<1>1. /\ pend' = [pend EXCEPT ![t] = Over(rows, pend[t])] /\ th' = [th EXCEPT ![t] = Unwaiting(x)]
      /\ db' = db
  BY DEF Apply, Go, Unwaiting
<1>2. /\ Unwaiting(x).pc = x.pc /\ Unwaiting(x).req = x.req /\ Unwaiting(x).n = x.n
      /\ Unwaiting(x).wait = {}
  BY DEF Unwaiting, ThreadState
<1>. QED BY <1>1, <1>2 DEF TypesInv, TablesOK, ThreadsOK, Others

\* What a statement that does not wait knows of the other transactions.
LEMMA NoConflict ==
  ASSUME NEW t \in Threads, NEW rows, Conflicts(t, rows) = {}, NEW u \in Others(t)
  PROVE  /\ DOMAIN rows \cap DOMAIN pend[u] = {}
         /\ \A k \in DOMAIN rows : k[1] = "cap" /\ rows[k] = Gone =>
              \A j \in DOMAIN pend[u] : IsMember(j, db[k].id) => pend[u][j] = Gone
         /\ \A k \in DOMAIN rows : k[1] = "member" /\ rows[k] # Gone => ~Deletes(u, k[2])
<1>1. ASSUME NEW j \in DOMAIN pend[u], NEW k \in DOMAIN rows,
             \/ j = k
             \/ k[1] = "cap" /\ rows[k] = Gone /\ IsMember(j, db[k].id) /\ pend[u][j] # Gone
             \/ j[1] = "cap" /\ pend[u][j] = Gone /\ rows[k] # Gone /\ IsMember(k, db[j].id)
      PROVE  FALSE
  <2>1. j \in Conflicts(t, rows) BY <1>1 DEF Conflicts
  <2>. QED BY <2>1
<1>2. DOMAIN rows \cap DOMAIN pend[u] = {} BY <1>1
<1>3. ASSUME NEW k \in DOMAIN rows, k[1] = "member", rows[k] # Gone, Deletes(u, k[2])
      PROVE  FALSE
  <2>1. PICK j \in DOMAIN pend[u] : j[1] = "cap" /\ pend[u][j] = Gone /\ db[j].id = k[2]
    BY <1>3 DEF Deletes
  <2>2. IsMember(k, db[j].id) BY <1>3, <2>1 DEF IsMember
  <2>. QED BY <1>1, <1>3, <2>1, <2>2
<1>. QED BY <1>1, <1>2, <1>3

\* A statement that gives no new id and deletes no capability that another thread adds a member to.
LEMMA ApplyKeeps ==
  ASSUME TypesInv, KeysInv, NEW t \in Threads, NEW rows, NEW x \in ThreadState,
         Apply(t, rows, x), ~Refused(t, rows), Conflicts(t, rows) = {}, made' = made,
         \A k \in DOMAIN rows : k[1] = "cap" =>
           k \in DOMAIN db /\ (rows[k] # Gone => rows[k].id = db[k].id),
         CapsOK(t)', MembersOK(t)', CascadeOK(t)'
  PROVE  KeysInv'
<1>. DEFINE f == Over(rows, pend[t])
<1>1. /\ DOMAIN f = DOMAIN rows \cup DOMAIN pend[t] /\ \A k \in DOMAIN rows : f[k] = rows[k]
      /\ \A k \in (DOMAIN pend[t]) \ (DOMAIN rows) : f[k] = pend[t][k]
  BY DEF Over
<1>2. pend' = [pend EXCEPT ![t] = f] /\ th' = [th EXCEPT ![t] = Unwaiting(x)] /\ db' = db
  BY AppliedRows
<1>. HIDE DEF f
<1>3. \A k \in DOMAIN f : k[1] = "cap" /\ f[k] # Gone =>
         \/ k \in DOMAIN db /\ f[k].id = db[k].id
         \/ k \in DOMAIN pend[t] /\ pend[t][k] # Gone /\ f[k].id = pend[t][k].id
  BY <1>1
<1>4. /\ OneId(db, f) /\ OneId(f, f) /\ \A u \in Threads : OneId(f, pend[u])
      /\ \A k \in DOMAIN f : k[1] = "cap" /\ f[k] # Gone => f[k].id <= made
  BY <1>3, OldIds
<1>5. \A u \in Others(t) : \A k \in DOMAIN f \cap DOMAIN pend[u] : ~KeyRow(k)
  <2>. SUFFICES ASSUME NEW u \in Others(t), NEW k \in DOMAIN f \cap DOMAIN pend[u]
                PROVE  ~KeyRow(k)
    OBVIOUS
  <2>1. k \notin DOMAIN rows BY NoConflict
  <2>. QED BY <1>1, <2>1 DEF KeysInv, RowsApart, KeyRow, Others
<1>6. ASSUME NEW k \in DOMAIN f, k[1] = "cap", f[k] = Gone
      PROVE  /\ \/ k \in DOMAIN pend[t] /\ pend[t][k] = Gone
                \/ \A u \in Others(t) : \A j \in DOMAIN pend[u] : IsMember(j, db[k].id) => pend[u][j] = Gone
             /\ k \in DOMAIN db
  <2>1. CASE k \in DOMAIN rows BY <1>1, <1>6, <2>1, NoConflict
  <2>2. CASE k \notin DOMAIN rows
    <3>1. k \in DOMAIN pend[t] /\ pend[t][k] = Gone BY <1>1, <1>6, <2>2
    <3>2. CapsOK(t) BY ThreadKinds
    <3>. QED BY <1>6, <3>1, <3>2 DEF CapsOK
  <2>. QED BY <2>1, <2>2
<1>7. made' \in Nat /\ made' >= made BY DEF TypesInv, RegistriesOK
<1>8. \A u \in Others(t) : OneId(f, pend[u]) BY <1>4 DEF Others
<1>9. \A k \in DOMAIN f : k[1] = "cap" /\ f[k] # Gone => f[k].id <= made' BY <1>4
<1>. QED BY <1>2, <1>4, <1>5, <1>6, <1>7, <1>8, <1>9, SameDb, WriteKeeps

\* A member is inserted for a capability the thread sees and nobody deletes.
LEMMA InsertedKeeps ==
  ASSUME TypesInv, KeysInv, NEW t \in Threads, th[t].pc \in {"put_insert", "seed_insert"},
         NEW k \in Keys, k[1] = "member", NEW row \in MemberRow, NEW x \in ThreadState,
         x.pc = th[t].pc, x.req = th[t].req, Apply(t, Only(k, row), x),
         Conflicts(t, Only(k, row)) = {}, made' = made
  PROVE  KeysInv'
<1>. DEFINE rows == Only(k, row)
            f == Over(rows, pend[t])
<1>1. CASE Refused(t, rows)
  <2>1. Fail(t) BY <1>1 DEF Apply
  <2>. QED BY <2>1, FailKeeps
<1>2. CASE ~Refused(t, rows)
  <2>0. /\ th[t].req.kind \in {"put", "boot"} /\ Table(db) /\ Written(pend[t])
    BY DEF TypesInv, ThreadsOK, TablesOK, InRequest
  <2>1. DOMAIN rows = {k} /\ rows[k] = row BY OnlyRow, ZenonT(60)
  <2>2. row # Gone BY RowNotGone DEF GoodRow
  <2>3. CapsOK(t) /\ MembersOK(t) BY ThreadKinds
  <2>4. \A j \in DOMAIN pend[t] : j[1] # "cap" BY <2>0, <2>3 DEF CapsOK
  <2>5. k[2] \in CapIds(db)
    <3>. DEFINE after == Live(Over(rows, View(t)))
    <3>1. k \in DOMAIN after
      <4>1. k \in DOMAIN Over(rows, View(t)) /\ Over(rows, View(t))[k] = row BY <2>1 DEF Over
      <4>. QED BY <2>2, <4>1, LiveRows
    <3>2. k[2] \in CapIds(after) BY <1>2, <2>1, <3>1 DEF Refused
    <3>3. PICK j \in DOMAIN after : j[1] = "cap" /\ after[j].id = k[2] BY <3>2, HasCapId
    <3>4. /\ j \in DOMAIN Over(rows, View(t)) /\ after[j] = Over(rows, View(t))[j] BY LiveRows
    <3>5. j \notin DOMAIN rows BY <2>1, <3>3
    <3>6. j \in DOMAIN View(t) /\ after[j] = View(t)[j] BY <3>4, <3>5 DEF Over
    <3>7. j \notin DOMAIN pend[t] BY <2>4, <3>3
    <3>8. j \in DOMAIN db /\ View(t)[j] = db[j] BY <2>0, <3>6, <3>7, ViewTable
    <3>. QED BY <3>3, <3>6, <3>8, HasCapId
  <2>6. \A u \in Others(t) : ~Deletes(u, k[2]) BY <2>1, <2>2, NoConflict
  <2>7. /\ pend'[t] = f /\ th'[t] = Unwaiting(x) /\ db' = db
        /\ Unwaiting(x).pc = th[t].pc /\ Unwaiting(x).req = th[t].req
        /\ \A u \in Others(t) : pend'[u] = pend[u]
    BY <1>2, AppliedRows
  <2>8. /\ DOMAIN f = {k} \cup DOMAIN pend[t] /\ f[k] = row
        /\ \A j \in (DOMAIN pend[t]) \ {k} : f[j] = pend[t][j]
    BY <2>1 DEF Over
  <2>. HIDE DEF f
  <2>9. CapsOK(t)' /\ CascadeOK(t)' BY <2>4, <2>7, <2>8 DEF CapsOK, CascadeOK, Deletes
  <2>10. ASSUME NEW u \in Others(t), NEW i PROVE Deletes(u, i)' <=> Deletes(u, i)
    BY <2>7 DEF Deletes
  <2>11. MembersOK(t)'
    <3>. SUFFICES ASSUME NEW j \in DOMAIN f, j[1] = "member"
                  PROVE  /\ th[t].req.kind \in {"cap_delete", "put", "boot"}
                         /\ f[j] # Gone => j[2] \in CapIds(db) /\ \A u \in Others(t) : ~Deletes(u, j[2])'
                         /\ f[j] = Gone => th[t].pc \in {"put_insert", "commit"}
      BY <2>7 DEF MembersOK
    <3>1. CASE j = k BY <2>0, <2>2, <2>5, <2>6, <2>8, <2>10, <3>1
    <3>2. CASE j # k
      <4>1. j \in DOMAIN pend[t] /\ f[j] = pend[t][j] BY <2>8, <3>2
      <4>. QED BY <2>0, <2>3, <2>10, <4>1 DEF MembersOK
    <3>. QED BY <3>1, <3>2
  <2>12. \A j \in DOMAIN rows : j[1] # "cap" BY <2>1
  <2>. QED BY <1>2, <2>9, <2>11, <2>12, ApplyKeeps
<1>. QED BY <1>1, <1>2

(* The rows a thread sees, by what they are in the tables.                   *)
LEMMA Seen ==
  ASSUME TypesInv, NEW t \in Threads, NEW k
  PROVE  /\ k \in DOMAIN View(t) <=> \/ k \in DOMAIN pend[t] /\ pend[t][k] # Gone
                                     \/ k \in DOMAIN db /\ k \notin DOMAIN pend[t]
         /\ k \in DOMAIN View(t) => View(t)[k] = IF k \in DOMAIN pend[t] THEN pend[t][k] ELSE db[k]
<1>1. Table(db) /\ Written(pend[t]) BY DEF TypesInv, TablesOK
<1>. QED BY <1>1, ViewTable

\* A capability that is seen by a request on stored ones has its stored id.
LEMMA SeenCap ==
  ASSUME TypesInv, KeysInv, NEW t \in Threads, th[t].req.kind \in {"cap_update", "cap_delete"},
         NEW k \in DOMAIN View(t), k[1] = "cap"
  PROVE  k \in DOMAIN db /\ View(t)[k].id = db[k].id
<1>1. CapsOK(t) BY ThreadKinds
<1>2. CASE k \in DOMAIN pend[t]
  <2>1. pend[t][k] # Gone /\ View(t)[k] = pend[t][k] BY <1>2, Seen
  <2>. QED BY <1>1, <1>2, <2>1 DEF CapsOK
<1>3. CASE k \notin DOMAIN pend[t] BY <1>3, Seen
<1>. QED BY <1>2, <1>3

\* A statement that waits or fails.
LEMMA StatementKeeps ==
  ASSUME TypesInv, KeysInv, NEW t \in Threads, NEW H, NEW rows, NEW x, Statement(t, H, rows, x),
         made' = made,
         DOMAIN rows \subseteq H, H \subseteq DOMAIN View(t), H # {} => DOMAIN rows = Awaited(t, H),
         \/ /\ \A k \in H : k[1] = "cap"
            /\ th[t].pc \notin {"clear", "cascade"}
            /\ th[t].req.kind \in {"cap_update", "cap_delete"}
         \/ /\ H = {k \in DOMAIN View(t) : IsMember(k, th[t].n)}
            /\ th[t].pc \in {"clear", "cascade"} /\ th[t].req.kind \in {"cap_delete", "put"},
         Conflicts(t, rows) = {} /\ Apply(t, rows, x) /\ ~Refused(t, rows) => KeysInv'
  PROVE  KeysInv'
<1>1. CASE Fail(t) BY <1>1, FailKeeps
<1>2. CASE Conflicts(t, rows) = {} /\ Apply(t, rows, x)
  <2>1. CASE Refused(t, rows)
    <3>1. Fail(t) BY <1>2, <2>1 DEF Apply
    <3>. QED BY <3>1, FailKeeps
  <2>. QED BY <1>2, <2>1
<1>3. ASSUME NEW held, NEW keys, held \subseteq DOMAIN View(t), held \subseteq DOMAIN rows,
             held \cap UNION {DOMAIN pend[u] : u \in Others(t)} = {},
             H # {} => (IF th[t].wait # {} THEN th[t].wait ELSE H) \subseteq keys,
             Block(t, held, keys)
      PROVE  KeysInv'
  <2>1. \A u \in Others(t) : held \cap DOMAIN pend[u] = {} BY <1>3
  <2>2. held \subseteq H /\ held \subseteq keys BY <1>3 DEF Awaited
  <2>3. \A k \in held : k[1] = "cap" => th[t].req.kind \in {"cap_update", "cap_delete"}
    BY <2>2 DEF IsMember
  <2>4. \A k \in held : k[1] = "member" =>
           /\ th[t].pc \in {"clear", "cascade"} /\ th[t].req.kind \in {"cap_delete", "put"}
           /\ k \in keys /\ k[2] = th[t].n
    BY <2>2 DEF IsMember
  <2>5. th[t].pc \in {"clear", "cascade"} =>
           \A k \in DOMAIN View(t) : IsMember(k, th[t].n) /\ (th[t].wait = {} \/ k \in th[t].wait) => k \in keys
    <3>. SUFFICES ASSUME th[t].pc \in {"clear", "cascade"}, NEW k \in DOMAIN View(t),
                         IsMember(k, th[t].n), th[t].wait = {} \/ k \in th[t].wait
                  PROVE  k \in keys
      OBVIOUS
    <3>1. k \in H OBVIOUS
    <3>. QED BY <1>3, <3>1
  <2>. QED BY <1>3, <2>1, <2>3, <2>4, <2>5, BlockKeeps
<1>. QED BY <1>1, <1>2, <1>3 DEF Statement

LEMMA UpdateKeeps ==
  ASSUME TypesInv, KeysInv, NEW t \in Threads, update_capability(t), th[t].pc = "update", made' = made
  PROVE  KeysInv'
<1>. DEFINE x == To(t, "commit")
            H == {k \in DOMAIN View(t) : ById(t, k)}
            rows == [k \in Awaited(t, H) |-> [View(t)[k] EXCEPT !.status = th[t].req.status]]
<1>1. th[t].req.kind = "cap_update" /\ th[t] \in ThreadState
  BY Facts DEF update_capability, ReadCapability, Writes
<1>2. Statement(t, H, rows, x) BY UpdateCapabilityStatement
<1>3. /\ x \in ThreadState /\ x.pc = "commit" /\ x.req = th[t].req /\ x.n = th[t].n
  BY <1>1, ToState
<1>4. H \subseteq DOMAIN View(t) /\ \A k \in H : k[1] = "cap" BY DEF ById
<1>5. DOMAIN rows = Awaited(t, H) /\ Awaited(t, H) \subseteq H BY DEF Awaited
<1>6. \A k \in DOMAIN rows : rows[k] = [View(t)[k] EXCEPT !.status = th[t].req.status] OBVIOUS
<1>. HIDE DEF x, H, rows
<1>7. ASSUME NEW k \in DOMAIN rows
      PROVE  k[1] = "cap" /\ k \in DOMAIN db /\ rows[k].id = db[k].id /\ rows[k] # Gone
  <2>1. k \in DOMAIN View(t) /\ k[1] = "cap" BY <1>4, <1>5
  <2>2. k \in DOMAIN db /\ View(t)[k].id = db[k].id BY <1>1, <2>1, SeenCap
  <2>3. View(t)[k] \in CapRow BY <2>1, Facts DEF Table, GoodRow
  <2>4. rows[k] \in CapRow /\ rows[k].id = View(t)[k].id
    <3>1. rows[k] = [View(t)[k] EXCEPT !.status = th[t].req.status] BY <1>6
    <3>2. th[t].req.status \in Statuses BY <1>1, AdminRequests, Facts
    <3>. QED BY <2>3, <3>1, <3>2 DEF CapRow
  <2>. QED BY <2>1, <2>2, <2>4 DEF CapRow, Gone
<1>8. ASSUME Conflicts(t, rows) = {}, Apply(t, rows, x), ~Refused(t, rows)
      PROVE  KeysInv'
  <2>. DEFINE f == Over(rows, pend[t])
  <2>1. /\ pend'[t] = f /\ th'[t] = Unwaiting(x) /\ db' = db
        /\ Unwaiting(x).pc = "commit" /\ Unwaiting(x).req = th[t].req
    BY <1>3, <1>8, AppliedRows
  <2>2. /\ DOMAIN f = DOMAIN rows \cup DOMAIN pend[t] /\ \A k \in DOMAIN rows : f[k] = rows[k]
        /\ \A k \in (DOMAIN pend[t]) \ (DOMAIN rows) : f[k] = pend[t][k]
    BY DEF Over
  <2>. HIDE DEF f
  <2>3. CapsOK(t) /\ MembersOK(t) BY ThreadKinds
  <2>4. CapsOK(t)'
    <3>. SUFFICES ASSUME NEW k \in DOMAIN f, k[1] = "cap"
                  PROVE  k \in DOMAIN db /\ f[k] # Gone /\ f[k].id = db[k].id
      BY <1>1, <2>1 DEF CapsOK
    <3>1. CASE k \in DOMAIN rows BY <1>7, <2>2, <3>1
    <3>2. CASE k \notin DOMAIN rows BY <1>1, <2>2, <2>3, <3>2 DEF CapsOK
    <3>. QED BY <3>1, <3>2
  <2>5. \A k \in DOMAIN f : k[1] # "member" BY <1>1, <1>7, <2>2, <2>3 DEF MembersOK
  <2>6. MembersOK(t)' BY <2>1, <2>5 DEF MembersOK
  <2>7. \A k \in DOMAIN f : k[1] = "cap" => f[k] # Gone
    <3>. SUFFICES ASSUME NEW k \in DOMAIN f, k[1] = "cap" PROVE f[k] # Gone OBVIOUS
    <3>1. CASE k \in DOMAIN rows BY <1>7, <2>2, <3>1
    <3>2. CASE k \notin DOMAIN rows BY <1>1, <2>2, <2>3, <3>2 DEF CapsOK
    <3>. QED BY <3>1, <3>2
  <2>8. CascadeOK(t)' BY <2>1, <2>7 DEF CascadeOK, Deletes
  <2>. QED BY <1>3, <1>7, <1>8, <2>4, <2>6, <2>8, ApplyKeeps
<1>. QED BY <1>1, <1>2, <1>4, <1>5, <1>8, StatementKeeps

LEMMA DeleteKeeps ==
  ASSUME TypesInv, KeysInv, NEW t \in Threads, delete_capability(t), th[t].pc = "delete", made' = made
  PROVE  KeysInv'
<1>. DEFINE x == To(t, "cascade")
            H == {k \in DOMAIN View(t) : ById(t, k)}
            rows == [k \in Awaited(t, H) |-> Gone]
<1>1. th[t].req.kind = "cap_delete" /\ th[t] \in ThreadState
  BY Facts DEF delete_capability, ReadCapability, Writes
<1>2. Statement(t, H, rows, x) BY DeleteCapabilityStatement
<1>3. /\ x \in ThreadState /\ x.pc = "cascade" /\ x.req = th[t].req /\ x.n = th[t].n
  BY <1>1, ToState
<1>4. H \subseteq DOMAIN View(t) /\ \A k \in H : k[1] = "cap" /\ View(t)[k].id = th[t].n BY DEF ById
<1>5. DOMAIN rows = Awaited(t, H) /\ Awaited(t, H) \subseteq H BY DEF Awaited
<1>6. \A k \in DOMAIN rows : rows[k] = Gone OBVIOUS
<1>. HIDE DEF x, H, rows
<1>7. ASSUME NEW k \in DOMAIN rows
      PROVE  k[1] = "cap" /\ k \in DOMAIN db /\ db[k].id = th[t].n
  <2>1. k \in DOMAIN View(t) /\ k[1] = "cap" /\ View(t)[k].id = th[t].n BY <1>4, <1>5
  <2>. QED BY <1>1, <2>1, SeenCap
<1>8. ASSUME Conflicts(t, rows) = {}, Apply(t, rows, x), ~Refused(t, rows)
      PROVE  KeysInv'
  <2>. DEFINE f == Over(rows, pend[t])
  <2>1. /\ pend'[t] = f /\ th'[t] = Unwaiting(x) /\ db' = db
        /\ Unwaiting(x).pc = "cascade" /\ Unwaiting(x).req = th[t].req /\ Unwaiting(x).n = th[t].n
        /\ Unwaiting(x).wait = {}
    BY <1>3, <1>8, AppliedRows
  <2>2. /\ DOMAIN f = DOMAIN rows \cup DOMAIN pend[t] /\ \A k \in DOMAIN rows : f[k] = rows[k]
        /\ \A k \in (DOMAIN pend[t]) \ (DOMAIN rows) : f[k] = pend[t][k]
    BY DEF Over
  <2>. HIDE DEF f
  <2>3. CapsOK(t) /\ MembersOK(t) BY ThreadKinds
  <2>4. CapsOK(t)'
    <3>. SUFFICES ASSUME NEW k \in DOMAIN f, k[1] = "cap"
                  PROVE  /\ k \in DOMAIN db /\ (f[k] # Gone => f[k].id = db[k].id)
                         /\ f[k] = Gone => db[k].id = th[t].n
      BY <1>1, <2>1 DEF CapsOK
    <3>1. CASE k \in DOMAIN rows BY <1>6, <1>7, <2>2, <3>1
    <3>2. CASE k \notin DOMAIN rows BY <1>1, <2>2, <2>3, <3>2 DEF CapsOK
    <3>. QED BY <3>1, <3>2
  <2>5. \A k \in DOMAIN f : k[1] # "member" BY <1>1, <1>7, <2>2, <2>3 DEF MembersOK
  <2>6. MembersOK(t)' BY <2>1, <2>5 DEF MembersOK
  <2>7. CascadeOK(t)' BY <2>1 DEF CascadeOK
  <2>. QED BY <1>3, <1>6, <1>7, <1>8, <2>4, <2>6, <2>7, ApplyKeeps
<1>. QED BY <1>1, <1>2, <1>4, <1>5, <1>8, StatementKeeps

\* A DELETE of members: all that the thread has locked or waited for are deleted when it ends.
LEMMA MembersGone ==
  ASSUME TypesInv, KeysInv, NEW t \in Threads, NEW x \in ThreadState,
         x.req = th[t].req, x.n = th[t].n,
         \/ th[t].pc = "cascade" /\ x.pc = "commit"
         \/ th[t].pc = "clear" /\ x.pc = "put_insert",
         NEW H, H = {k \in DOMAIN View(t) : IsMember(k, th[t].n)},
         NEW rows, rows = [k \in Awaited(t, H) |-> Gone], Statement(t, H, rows, x), made' = made
  PROVE  KeysInv'
<1>. DEFINE f == Over(rows, pend[t])
<1>0. /\ th[t].pc = "cascade" => th[t].req.kind = "cap_delete"
      /\ th[t].pc = "clear" => th[t].req.kind = "put"
  BY Facts DEF InRequest
<1>1. DOMAIN rows = Awaited(t, H) /\ Awaited(t, H) \subseteq H /\ \A k \in DOMAIN rows : rows[k] = Gone
  BY DEF Awaited
<1>2. \A k \in H : k \in DOMAIN View(t) /\ k[1] = "member" BY DEF IsMember
<1>3. CapsOK(t) /\ MembersOK(t) /\ CascadeOK(t) BY ThreadKinds
<1>4. /\ DOMAIN f = DOMAIN rows \cup DOMAIN pend[t] /\ \A k \in DOMAIN rows : f[k] = Gone
      /\ \A k \in (DOMAIN pend[t]) \ (DOMAIN rows) : f[k] = pend[t][k]
  BY <1>1 DEF Over
<1>. HIDE DEF f
<1>5. ASSUME Conflicts(t, rows) = {}, Apply(t, rows, x), ~Refused(t, rows)
      PROVE  KeysInv'
  <2>1. /\ pend'[t] = f /\ th'[t] = Unwaiting(x) /\ db' = db
        /\ Unwaiting(x).pc = x.pc /\ Unwaiting(x).req = th[t].req /\ Unwaiting(x).n = th[t].n
    BY <1>5, AppliedRows DEF f
  <2>2. \A k \in DOMAIN f : k[1] = "cap" => k \in DOMAIN pend[t] /\ f[k] = pend[t][k]
    BY <1>1, <1>2, <1>4
  <2>3. CapsOK(t)' BY <1>0, <1>3, <2>1, <2>2 DEF CapsOK
  <2>4. ASSUME NEW k \in DOMAIN f, k[1] = "member"
        PROVE  f[k] = Gone
    <3>. SUFFICES ASSUME k \notin DOMAIN rows PROVE FALSE BY <1>4
    <3>1. k \in DOMAIN pend[t] /\ th[t].pc \in {"clear", "cascade"} BY <1>4
    <3>2. pend[t][k] # Gone /\ k \in th[t].wait /\ k[2] = th[t].n BY <1>3, <2>4, <3>1 DEF MembersOK
    <3>3. k \in DOMAIN View(t) BY <3>1, <3>2, Seen
    <3>4. k \in H BY <2>4, <3>2, <3>3 DEF IsMember
    <3>. QED BY <1>1, <3>2, <3>4 DEF Awaited
  <2>5. MembersOK(t)' BY <1>0, <2>1, <2>4 DEF MembersOK
  <2>6. CascadeOK(t)'
    <3>. SUFFICES ASSUME Deletes(t, th[t].n)', NEW k \in MembersOf(db, th[t].n), x.pc = "commit"
                  PROVE  k \in DOMAIN rows
      BY <1>4, <2>1 DEF CascadeOK
    <3>1. Deletes(t, th[t].n) BY <2>1, <2>2 DEF Deletes
    <3>2. k \in DOMAIN db /\ k[1] = "member" /\ IsMember(k, th[t].n) BY DEF MembersOf, IsMember
    <3>3. k \in DOMAIN pend[t] => pend[t][k] # Gone BY <1>3, <3>2 DEF MembersOK
    <3>4. k \in H BY <3>2, <3>3, Seen
    <3>5. th[t].wait = {} \/ k \in th[t].wait BY <1>3, <3>1 DEF CascadeOK
    <3>. QED BY <1>1, <3>4, <3>5 DEF Awaited
  <2>7. \A k \in DOMAIN rows : k[1] # "cap" BY <1>1, <1>2
  <2>. QED BY <1>5, <2>3, <2>5, <2>6, <2>7, ApplyKeeps
<1>6. H \subseteq DOMAIN View(t) /\ DOMAIN rows \subseteq H BY <1>1, <1>2
<1>7. th[t].pc \in {"clear", "cascade"} /\ th[t].req.kind \in {"cap_delete", "put"} BY <1>0
<1>. QED BY <1>1, <1>5, <1>6, <1>7, StatementKeeps

LEMMA CascadeKeeps ==
  ASSUME TypesInv, KeysInv, NEW t \in Threads, delete_capability(t), th[t].pc = "cascade", made' = made
  PROVE  KeysInv'
<1>. DEFINE x == To(t, "commit")
            H == {k \in DOMAIN View(t) : IsMember(k, th[t].n)}
            rows == [k \in Awaited(t, H) |-> Gone]
<1>1. Statement(t, H, rows, x) BY CascadeStatement
<1>2. x \in ThreadState /\ x.pc = "commit" /\ x.req = th[t].req /\ x.n = th[t].n BY Facts, ToState
<1>. HIDE DEF x
<1>. QED BY <1>1, <1>2, MembersGone

LEMMA ClearKeeps ==
  ASSUME TypesInv, KeysInv, NEW t \in Threads, Clear(t), th[t].pc = "clear", made' = made
  PROVE  KeysInv'
<1>. DEFINE x == To(t, "put_insert")
            H == {k \in DOMAIN View(t) : IsMember(k, th[t].n)}
            rows == [k \in Awaited(t, H) |-> Gone]
<1>1. Statement(t, H, rows, x) BY ClearStatement
<1>2. x \in ThreadState /\ x.pc = "put_insert" /\ x.req = th[t].req /\ x.n = th[t].n BY Facts, ToState
<1>. HIDE DEF x
<1>. QED BY <1>1, <1>2, MembersGone

(* Inserts.                                                                  *)
LEMMA BlockedKeeps ==
  ASSUME TypesInv, KeysInv, NEW t \in Threads, NEW keys, Block(t, {}, keys), made' = made,
         th[t].pc \notin {"clear", "cascade"}
  PROVE  KeysInv'
BY BlockKeeps

\* A new capability takes the next id.
LEMMA CreateKeeps ==
  ASSUME TypesInv, KeysInv, NEW t \in Threads, create_capability(t), th[t].pc = "insert"
  PROVE  KeysInv'
<1>. DEFINE x == To(t, "commit")
            k == CapKey(th[t].req.scope)
            row == [id |-> made + 1, status |-> th[t].req.status]
            rows == Only(k, row)
            f == Over(rows, pend[t])
<1>1. /\ th[t].req.kind = "cap_create" /\ Insert(t, k, row, x)
      /\ made' = IF th'[t].pc = "commit" THEN made + 1 ELSE made
  BY DEF create_capability, Writes
<1>2. /\ th[t] \in ThreadState /\ made \in Nat /\ th \in [Threads -> ThreadState]
      /\ Table(db) /\ Written(pend[t])
  BY DEF TypesInv, ThreadsOK, RegistriesOK, TablesOK
<1>3. x \in ThreadState /\ x.pc = "commit" /\ x.req = th[t].req BY <1>2, ToState
<1>4. /\ k[1] = "cap" /\ DOMAIN rows = {k} /\ rows[k] = row /\ row.id = made + 1 /\ row # Gone
  <2>1. row # Gone BY DEF Gone
  <2>2. k[1] = "cap" BY DEF CapKey
  <2>3. row.id = made + 1 OBVIOUS
  <2>4. DOMAIN rows = {k} /\ rows[k] = row
    <3>. HIDE DEF k, row
    <3>. QED BY OnlyRow
  <2>. QED BY <2>1, <2>2, <2>3, <2>4
<1>5. /\ DOMAIN f = {k} \cup DOMAIN pend[t] /\ f[k] = row
      /\ \A j \in (DOMAIN pend[t]) \ {k} : f[j] = pend[t][j]
  BY <1>4 DEF Over
<1>. HIDE DEF x, k, row
<1>6. CASE Fail(t)
  <2>1. th'[t].pc # "commit" BY <1>2, <1>6, IdleState DEF Fail, Go, Idle
  <2>. QED BY <1>1, <1>6, <2>1, FailKeeps
<1>7. CASE Block(t, {}, Conflicts(t, rows))
  <2>1. th'[t].pc = "insert" BY <1>2, <1>7 DEF Block, ThreadState
  <2>2. made' = made BY <1>1, <2>1
  <2>. HIDE DEF rows
  <2>. QED BY <1>7, <2>2, BlockedKeeps
<1>8. CASE Conflicts(t, rows) = {} /\ k \notin DOMAIN View(t) /\ Apply(t, rows, x) /\ ~Refused(t, rows)
  <2>1. /\ pend' = [pend EXCEPT ![t] = f] /\ th' = [th EXCEPT ![t] = Unwaiting(x)] /\ db' = db
        /\ pend'[t] = f /\ th'[t] = Unwaiting(x)
        /\ Unwaiting(x).pc = "commit" /\ Unwaiting(x).req = th[t].req
    BY <1>3, <1>8, AppliedRows
  <2>2. made' = made + 1 /\ made' \in Nat /\ made' >= made BY <1>1, <1>2, <2>1
  <2>3. \A u \in Others(t) : k \notin DOMAIN pend[u] BY <1>4, <1>8, NoConflict
  <2>. HIDE DEF f, rows
  <2>4. CapsOK(t) /\ MembersOK(t) BY ThreadKinds
  <2>5. \A j \in DOMAIN pend[t] : j[1] = "cap" => pend[t][j] # Gone /\ j \notin DOMAIN db
    BY <1>1, <2>4 DEF CapsOK
  <2>6. \A j \in DOMAIN pend[t] : j[1] # "member" BY <1>1, <2>4 DEF MembersOK
  <2>7. k \notin DOMAIN db BY <1>4, <1>8, <2>5, Seen
  <2>8. \A j \in DOMAIN f : j[1] = "cap" => f[j] # Gone /\ j \notin DOMAIN db
    BY <1>4, <1>5, <2>5, <2>7
  <2>9. \A j \in DOMAIN f : j[1] # "member" BY <1>4, <1>5, <2>6
  <2>10. CapsOK(t)' BY <1>1, <2>1, <2>8 DEF CapsOK
  <2>11. MembersOK(t)' BY <2>1, <2>9 DEF MembersOK
  <2>12. CascadeOK(t)' BY <2>1, <2>8 DEF CascadeOK, Deletes
  <2>13. \A u \in Others(t) : \A j \in DOMAIN f \cap DOMAIN pend[u] : ~KeyRow(j)
    BY <1>5, <2>3 DEF KeysInv, RowsApart, Others, KeyRow
  <2>14. ASSUME NEW g, Given(g), OneId(pend[t], g),
                \A j \in DOMAIN g : j[1] = "cap" /\ g[j] # Gone => g[j].id \in Nat
         PROVE  OneId(f, g) /\ OneId(g, f)
    <3>1. ASSUME NEW j \in DOMAIN f, NEW i \in DOMAIN g, j[1] = "cap", i[1] = "cap",
                 f[j] # Gone, g[i] # Gone, f[j].id = g[i].id
          PROVE  j = i
      <4>1. g[i].id \in Nat /\ g[i].id <= made BY <2>14, <3>1 DEF Given
      <4>2. j # k BY <1>2, <1>4, <1>5, <3>1, <4>1
      <4>3. j \in DOMAIN pend[t] /\ f[j] = pend[t][j] BY <1>5, <4>2
      <4>. QED BY <2>14, <3>1, <4>3 DEF OneId
    <3>. QED BY <3>1 DEF OneId
  <2>15. /\ OneId(db, pend[t]) /\ Given(db)
         /\ \A u \in Threads : Given(pend[u]) /\ OneId(pend[t], pend[u])
    BY DEF KeysInv, IdsOK
  <2>16. OneId(pend[t], db) BY <2>15 DEF OneId
  <2>17. OneId(db, f) BY <2>14, <2>15, <2>16, CapRowTyped
  <2>18. ASSUME NEW u \in Threads PROVE OneId(f, pend[u])
    BY <2>14, <2>15, CapRowTyped
  <2>19. OneId(f, f)
    <3>. SUFFICES ASSUME NEW j \in DOMAIN f, NEW i \in DOMAIN f, j[1] = "cap", i[1] = "cap",
                         f[j].id = f[i].id
                  PROVE  j = i
      BY DEF OneId
    <3>1. OneId(f, pend[t]) /\ OneId(pend[t], f) BY <2>18 DEF OneId
    <3>2. CASE i = k /\ j = k BY <3>2
    <3>3. CASE i # k
      <4>1. i \in DOMAIN pend[t] /\ f[i] = pend[t][i] BY <1>5, <3>3
      <4>. QED BY <2>8, <3>1, <4>1 DEF OneId
    <3>4. CASE j # k
      <4>1. j \in DOMAIN pend[t] /\ f[j] = pend[t][j] BY <1>5, <3>4
      <4>. QED BY <2>8, <3>1, <4>1 DEF OneId
    <3>. QED BY <3>2, <3>3, <3>4
  <2>20. \A j \in DOMAIN f : j[1] = "cap" /\ f[j] # Gone => f[j].id <= made'
    <3>. SUFFICES ASSUME NEW j \in DOMAIN f, j[1] = "cap", f[j] # Gone PROVE f[j].id <= made'
      OBVIOUS
    <3>1. CASE j = k BY <1>2, <1>4, <1>5, <2>2, <3>1
    <3>2. CASE j # k
      <4>1. j \in DOMAIN pend[t] /\ f[j] = pend[t][j] BY <1>5, <3>2
      <4>2. pend[t][j].id \in Nat /\ pend[t][j].id <= made BY <2>15, <4>1, CapRowTyped DEF Given
      <4>. QED BY <1>2, <2>2, <4>1, <4>2
    <3>. QED BY <3>1, <3>2
  <2>21. \A u \in Others(t) : OneId(f, pend[u]) BY <2>18 DEF Others
  <2>22. \A j \in DOMAIN f : ~(j[1] = "cap" /\ f[j] = Gone) BY <2>8
  <2>. QED BY <2>1, <2>2, <2>10, <2>11, <2>12, <2>13, <2>17, <2>19, <2>20, <2>21, <2>22, SameDb, WriteKeeps
<1>. QED BY <1>1, <1>6, <1>7, <1>8 DEF Insert, Apply

LEMMA InsertMemberKeeps ==
  ASSUME TypesInv, KeysInv, NEW t \in Threads, th[t].pc \in {"put_insert", "seed_insert"},
         NEW k \in Keys, k[1] = "member", NEW row \in MemberRow, NEW x \in ThreadState,
         x.pc = th[t].pc, x.req = th[t].req, Insert(t, k, row, x), made' = made
  PROVE  KeysInv'
<1>1. CASE Fail(t) BY <1>1, FailKeeps
<1>2. CASE Block(t, {}, Conflicts(t, Only(k, row))) BY <1>2, BlockedKeeps
<1>3. CASE Conflicts(t, Only(k, row)) = {} /\ Apply(t, Only(k, row), x) BY <1>3, InsertedKeeps
<1>. QED BY <1>1, <1>2, <1>3 DEF Insert

\* ON CONFLICT DO NOTHING: the seed goes on to the next member.
LEMMA SkippedKeeps ==
  ASSUME TypesInv, KeysInv, NEW t \in Threads, th[t].pc = "seed_insert",
         NEW x \in ThreadState, x.pc = th[t].pc, x.req = th[t].req, Local(t, x), made' = made
  PROVE  KeysInv'
<1>1. th[t].req.kind = "boot" BY Facts DEF InRequest
<1>2. /\ pend' = [pend EXCEPT ![t] = pend[t]] /\ pend' = pend /\ db' = db
      /\ th' = [th EXCEPT ![t] = Unwaiting(x)] /\ th'[t] = Unwaiting(x)
  BY DEF Local, Go, Unwaiting, TypesInv, TablesOK, ThreadsOK
<1>3. Unwaiting(x).pc = "seed_insert" /\ Unwaiting(x).req = th[t].req
  BY DEF Unwaiting, ThreadState
<1>4. CapsOK(t) /\ MembersOK(t) BY ThreadKinds
<1>5. \A k \in DOMAIN pend[t] : k[1] # "cap" BY <1>1, <1>4 DEF CapsOK
<1>6. CapsOK(t)' /\ CascadeOK(t)' BY <1>2, <1>5 DEF CapsOK, CascadeOK, Deletes
<1>7. \A u, i : Deletes(u, i)' <=> Deletes(u, i) BY <1>2 DEF Deletes
<1>8. MembersOK(t)' BY <1>2, <1>3, <1>4, <1>7 DEF MembersOK
<1>9. \A u \in Others(t) : \A k \in DOMAIN pend[t] \cap DOMAIN pend[u] : ~KeyRow(k)
  BY DEF KeysInv, RowsApart, Others, KeyRow
<1>10. OneId(db, pend[t]) /\ OneId(pend[t], pend[t]) /\ \A u \in Others(t) : OneId(pend[t], pend[u])
  BY <1>5 DEF OneId
<1>11. made' \in Nat /\ made' >= made BY DEF TypesInv, RegistriesOK
<1>. QED BY <1>2, <1>5, <1>6, <1>8, <1>9, <1>10, <1>11, SameDb, WriteKeeps

LEMMA SetAgentsKeeps ==
  ASSUME TypesInv, KeysInv, NEW t \in Threads, set_capability_agents(t), th[t].pc = "put_insert",
         made' = made
  PROVE  KeysInv'
<1>. DEFINE x == [th[t] EXCEPT !.todo = Tail(@)]
            k == MemberKey(th[t].n, Head(th[t].todo))
            row == [order |-> Position(th[t].req.agents, th[t].todo)]
<1>1. th[t].req.kind = "put" /\ th[t].todo # <<>> /\ Insert(t, k, row, x)
  BY DEF set_capability_agents, Writes
<1>2. /\ th[t] \in ThreadState /\ th[t].req.agents \in Seq(Agents)
      /\ th[t].todo \in Seq(Agents) /\ th[t].n \in Nat \ {0}
      /\ Len(th[t].todo) <= Len(th[t].req.agents)
  BY <1>1, Facts, AdminRequests DEF Holds, ThreadState
<1>3. Head(th[t].todo) \in Agents /\ Tail(th[t].todo) \in Seq(Agents)
  BY <1>1, <1>2, HeadTailProperties
<1>4. x \in ThreadState /\ x.pc = th[t].pc /\ x.req = th[t].req BY <1>2, <1>3 DEF ThreadState
<1>5. k \in Keys /\ k[1] = "member" BY <1>2, <1>3, KeysTyped
<1>6. row \in MemberRow BY <1>2, PositionTyped
<1>. HIDE DEF x, k, row
<1>. QED BY <1>1, <1>4, <1>5, <1>6, InsertMemberKeeps

\* What a new member waits for does not depend on its position.
LEMMA MemberConflicts ==
  ASSUME NEW t \in Threads, NEW k, k[1] = "member", NEW r, r # Gone, NEW s, s # Gone,
         Conflicts(t, Only(k, r)) = {}
  PROVE  Conflicts(t, Only(k, s)) = {}
<1>1. /\ DOMAIN Only(k, r) = {k} /\ Only(k, r)[k] = r
      /\ DOMAIN Only(k, s) = {k} /\ Only(k, s)[k] = s
  BY OnlyRow
<1>2. ASSUME NEW j \in Conflicts(t, Only(k, s)) PROVE j \in Conflicts(t, Only(k, r))
  <2>1. PICK u \in Others(t) :
          /\ j \in DOMAIN pend[u]
          /\ \/ j = k
             \/ OneActive(k, s, j, pend[u][j])
             \/ j \in DOMAIN db /\ OneActive(k, s, j, db[j])
             \/ k[1] = "cap" /\ s = Gone /\ IsMember(j, db[k].id) /\ pend[u][j] # Gone
             \/ j[1] = "cap" /\ pend[u][j] = Gone /\ s # Gone /\ IsMember(k, db[j].id)
    BY <1>1 DEF Conflicts
  <2>2. \/ j = k
        \/ j[1] = "cap" /\ pend[u][j] = Gone /\ r # Gone /\ IsMember(k, db[j].id)
    BY <2>1 DEF OneActive
  <2>. QED BY <1>1, <2>1, <2>2 DEF Conflicts
<1>. QED BY <1>2

LEMMA SeedInsertKeeps ==
  ASSUME TypesInv, KeysInv, NEW t \in Threads, SeedInsert(t), made' = made
  PROVE  KeysInv'
<1>. DEFINE a == Head(th[t].todo)
            x == [th[t] EXCEPT !.todo = Tail(@)]
            k == MemberKey(th[t].n, a)
            row == [order |-> Position(SeedList, th[t].todo)]
            busy == Conflicts(t, Only(k, [order |-> 0]))
<1>1. th[t].pc = "seed_insert" /\ th[t].todo # <<>> BY DEF SeedInsert
<1>2. \/ Local(t, x)
      \/ Block(t, {}, busy)
      \/ busy = {} /\ Apply(t, Only(k, row), x)
  BY DEF SeedInsert
<1>3. /\ th[t] \in ThreadState /\ th[t].todo \in Seq(Agents) /\ th[t].n \in Nat \ {0}
      /\ Len(th[t].todo) <= Len(SeedList)
  BY <1>1, Facts DEF Holds, ThreadState
<1>4. a \in Agents /\ Tail(th[t].todo) \in Seq(Agents) BY <1>1, <1>3, HeadTailProperties
<1>5. x \in ThreadState /\ x.pc = th[t].pc /\ x.req = th[t].req BY <1>3, <1>4 DEF ThreadState
<1>6. k \in Keys /\ k[1] = "member" BY <1>3, <1>4, KeysTyped
<1>7. row \in MemberRow BY <1>3, AdminRequests, PositionTyped
<1>8. row # Gone /\ [order |-> 0] # Gone BY DEF Gone
<1>. HIDE DEF x, k, row
<1>9. CASE Local(t, x) BY <1>1, <1>5, <1>9, SkippedKeeps
<1>10. CASE Block(t, {}, busy) BY <1>1, <1>10, BlockedKeeps
<1>11. CASE busy = {} /\ Apply(t, Only(k, row), x)
  <2>1. Conflicts(t, Only(k, row)) = {} BY <1>6, <1>8, <1>11, MemberConflicts
  <2>. QED BY <1>1, <1>5, <1>6, <1>7, <1>11, <2>1, InsertedKeeps
<1>. QED BY <1>2, <1>9, <1>10, <1>11

(* Commits.                                                                  *)

\* A capability or a membership is committed.
LEMMA CommitKeeps ==
  ASSUME TypesInv, KeysInv, NEW t \in Threads, NEW x, Commit(t, x), made' = made,
         \/ /\ th[t].pc = "commit"
            /\ th[t].req.kind \in {"cap_create", "cap_update", "cap_delete"}
         \/ th[t].pc \in {"put_insert", "seed_insert"}
  PROVE  KeysInv'
<1>. DEFINE P == pend[t]
<1>1. /\ db' = View(t) /\ pend'[t] = NoRows /\ DOMAIN NoRows = {}
      /\ \A u \in Others(t) : u \in Threads /\ u # t /\ pend'[u] = pend[u] /\ th'[u] = th[u]
  BY NoRowsWritten DEF Commit, Go, Others, TypesInv, TablesOK, ThreadsOK
<1>2. \A k : /\ k \in DOMAIN db' <=> \/ k \in DOMAIN P /\ P[k] # Gone
                                     \/ k \in DOMAIN db /\ k \notin DOMAIN P
             /\ k \in DOMAIN db' => db'[k] = IF k \in DOMAIN P THEN P[k] ELSE db[k]
  BY <1>1, Seen
<1>3. CapsOK(t) /\ MembersOK(t) /\ CascadeOK(t) BY ThreadKinds
<1>4. th[t].pc \in {"put_insert", "seed_insert"} => th[t].req.kind \in {"put", "boot"}
  BY Facts DEF InRequest
<1>5. \A k \in DOMAIN db : k[1] = "cap" => db[k] # Gone BY CapRowTyped
<1>. HIDE DEF P
\* What is written of capabilities and members.
<1>6. ASSUME NEW k \in DOMAIN P, k[1] = "cap", P[k] # Gone, k \in DOMAIN db
      PROVE  P[k].id = db[k].id
  BY <1>3, <1>6 DEF CapsOK, P
<1>7. ASSUME NEW k \in DOMAIN P, k[1] = "cap", P[k] = Gone
      PROVE  /\ k \in DOMAIN db /\ db[k].id = th[t].n /\ th[t].pc = "commit"
             /\ th[t].req.kind = "cap_delete" /\ Deletes(t, th[t].n)
  BY <1>3, <1>4, <1>7 DEF CapsOK, P, Deletes
<1>8. ASSUME NEW k \in DOMAIN P, k[1] = "member", P[k] # Gone
      PROVE  /\ th[t].pc \in {"put_insert", "seed_insert"} /\ k[2] \in CapIds(db)
             /\ \A u \in Others(t) : ~Deletes(u, k[2])
  BY <1>3, <1>8 DEF MembersOK, P
<1>9. ASSUME NEW k \in DOMAIN db, k[1] = "cap", ~Deletes(t, db[k].id)
      PROVE  k \in DOMAIN db' /\ db'[k].id = db[k].id
  <2>1. k \in DOMAIN P => P[k] # Gone BY <1>9 DEF Deletes, P
  <2>. QED BY <1>2, <1>6, <1>9, <2>1
<1>10. ASSUME NEW i \in CapIds(db), ~Deletes(t, i) PROVE i \in CapIds(db')
  <2>1. PICK k \in DOMAIN db : k[1] = "cap" /\ db[k].id = i BY <1>10, HasCapId
  <2>2. k \in DOMAIN db' /\ db'[k].id = i BY <1>9, <1>10, <2>1
  <2>. QED BY <2>1, <2>2, HasCapId
<1>11. RowsApart' BY <1>1 DEF RowsApart, KeysInv, Others
<1>12. IdsOK'
  <2>1. /\ OneId(db, db) /\ Given(db) /\ OneId(db, P) /\ OneId(P, P) /\ Given(P)
        /\ \A u \in Threads : OneId(db, pend[u]) /\ OneId(P, pend[u]) /\ Given(pend[u])
    BY DEF KeysInv, IdsOK, P
  <2>2. OneId(db', db') BY <1>2, <1>5, <2>1 DEF OneId
  <2>3. Given(db)' BY <1>2, <1>5, <2>1 DEF Given
  <2>4. ASSUME NEW u \in Threads PROVE OneId(db, pend[u])' /\ Given(pend[u])'
    <3>1. CASE u = t BY <1>1, <3>1 DEF OneId, Given
    <3>2. CASE u # t
      <4>1. pend'[u] = pend[u] BY <1>1, <3>2 DEF Others
      <4>2. OneId(db, pend[u]) /\ OneId(P, pend[u]) /\ Given(pend[u]) BY <2>1
      <4>3. OneId(db', pend[u]) BY <1>2, <1>5, <4>2 DEF OneId
      <4>. QED BY <4>1, <4>2, <4>3 DEF Given
    <3>. QED BY <3>1, <3>2
  <2>5. ASSUME NEW u \in Threads, NEW w \in Threads PROVE OneId(pend[u], pend[w])'
    <3>1. CASE u = t \/ w = t BY <1>1, <3>1 DEF OneId
    <3>2. CASE u # t /\ w # t
      <4>1. pend'[u] = pend[u] /\ pend'[w] = pend[w] BY <1>1, <3>2 DEF Others
      <4>2. OneId(pend[u], pend[w]) BY DEF KeysInv, IdsOK
      <4>. QED BY <4>1, <4>2
    <3>. QED BY <3>1, <3>2
  <2>. QED BY <2>2, <2>3, <2>4, <2>5 DEF IdsOK
<1>13. MembersHaveCapability(db')
  <2>. SUFFICES ASSUME NEW k \in DOMAIN db', k[1] = "member" PROVE k[2] \in CapIds(db')
    BY DEF MembersHaveCapability
  <2>1. ASSUME Deletes(t, k[2]) PROVE FALSE
    <3>1. PICK j \in DOMAIN P : j[1] = "cap" /\ P[j] = Gone /\ db[j].id = k[2]
      BY <2>1 DEF Deletes, P
    <3>2. k[2] = th[t].n /\ th[t].pc = "commit" /\ Deletes(t, th[t].n) BY <1>7, <3>1
    <3>3. k \notin DOMAIN P /\ k \in DOMAIN db BY <1>2, <1>8, <3>2
    <3>4. k \in MembersOf(db, th[t].n) BY <3>2, <3>3 DEF MembersOf, IsMember
    <3>. QED BY <1>3, <3>2, <3>3, <3>4 DEF CascadeOK, P
  <2>2. k[2] \in CapIds(db)
    <3>1. CASE k \in DOMAIN P BY <1>2, <1>8, <3>1
    <3>2. CASE k \notin DOMAIN P
      <4>1. k \in DOMAIN db /\ MembersHaveCapability(db) BY <1>2, <3>2 DEF KeysInv
      <4>. QED BY <4>1 DEF MembersHaveCapability
    <3>. QED BY <3>1, <3>2
  <2>. QED BY <1>10, <2>1, <2>2
<1>14. ASSUME NEW u \in Others(t) PROVE CapsOK(u)' /\ MembersOK(u)' /\ CascadeOK(u)'
  <2>1. CapsOK(u) /\ MembersOK(u) /\ CascadeOK(u) BY <1>1, ThreadKinds
  <2>2. ASSUME NEW w \in Others(t), NEW k \in DOMAIN pend[w], k[1] \in {"cap", "member"}
        PROVE  (k \in DOMAIN db' <=> k \in DOMAIN db) /\ (k \in DOMAIN db => db'[k] = db[k])
    <3>1. k \notin DOMAIN P BY <1>1, <2>2 DEF KeysInv, RowsApart, P
    <3>. QED BY <1>2, <3>1
  <2>3. CapsOK(u)' BY <1>1, <2>1, <2>2 DEF CapsOK
  <2>4. ASSUME NEW w \in Others(t), NEW i, Deletes(w, i)' PROVE Deletes(w, i)
    <3>1. CapsOK(w) /\ pend'[w] = pend[w] BY <1>1, ThreadKinds
    <3>2. PICK k \in DOMAIN pend[w] : k[1] = "cap" /\ pend[w][k] = Gone /\ db'[k].id = i
      BY <2>4, <3>1 DEF Deletes
    <3>3. k \in DOMAIN db BY <3>1, <3>2 DEF CapsOK
    <3>4. db'[k] = db[k] BY <2>2, <3>2, <3>3
    <3>. QED BY <3>2, <3>4 DEF Deletes
  <2>5. \A i : ~Deletes(t, i)' BY <1>1 DEF Deletes
  <2>6. MembersOK(u)'
    <3>1. ASSUME NEW k \in DOMAIN pend[u], k[1] = "member", pend[u][k] # Gone,
                 th[u].pc \in {"put_insert", "seed_insert"}
          PROVE  k[2] \in CapIds(db') /\ \A w \in Others(u) : ~Deletes(w, k[2])'
      <4>1. k[2] \in CapIds(db) /\ \A w \in Others(u) : ~Deletes(w, k[2])
        BY <2>1, <3>1 DEF MembersOK
      <4>2. t \in Others(u) BY <1>1 DEF Others
      <4>3. ASSUME NEW w \in Others(u) PROVE ~Deletes(w, k[2])'
        <5>1. CASE w = t BY <2>5, <5>1
        <5>2. CASE w # t
          <6>1. w \in Others(t) BY <5>2 DEF Others
          <6>. QED BY <2>4, <4>1, <6>1
        <5>. QED BY <5>1, <5>2
      <4>. QED BY <1>10, <4>1, <4>2, <4>3
    <3>. QED BY <1>1, <2>1, <3>1 DEF MembersOK
  <2>7. CascadeOK(u)'
    <3>. SUFFICES ASSUME NEW m, m = th[u].n, Deletes(u, m)', NEW k \in MembersOf(db', m)
                  PROVE  /\ th[u].pc = "cascade" /\ th[u].wait # {} => k \in th[u].wait
                         /\ th[u].pc = "commit" => k \in DOMAIN pend[u] /\ pend[u][k] = Gone
      BY <1>1 DEF CascadeOK, Deletes
    <3>1. Deletes(u, m) BY <2>4
    <3>2. k \in DOMAIN db' /\ IsMember(k, m) /\ k[1] = "member" /\ k[2] = m
      BY DEF MembersOf, IsMember
    <3>3. k \notin DOMAIN P
      <4>1. k \in DOMAIN P => P[k] # Gone BY <1>2, <3>2
      <4>. QED BY <1>8, <3>1, <3>2, <4>1
    <3>4. k \in MembersOf(db, m) BY <1>2, <3>2, <3>3 DEF MembersOf
    <3>. QED BY <2>1, <3>1, <3>4 DEF CascadeOK
  <2>. QED BY <2>3, <2>6, <2>7
<1>15. CapsOK(t)' /\ MembersOK(t)' /\ CascadeOK(t)'
  BY <1>1 DEF CapsOK, MembersOK, CascadeOK, Deletes
<1>16. WritersOK' BY <1>14, <1>15 DEF WritersOK, Others
<1>. QED BY <1>11, <1>12, <1>13, <1>16 DEF KeysInv

(* Every step keeps the keys.                                                *)
LEMMA ReadKeeps ==
  ASSUME TypesInv, KeysInv, NEW t \in Threads, NEW x, Local(t, x), made' = made,
         \/ Resting(th[t])
         \/ th[t].pc = "run" /\ th[t].req.kind \notin {"activate", "create", "status"}
  PROVE  KeysInv'
<1>1. pend[t] = NoRows BY Facts, AtRun
<1>. QED BY <1>1, LocalKeeps

LEMMA ReadCapabilityKeeps ==
  ASSUME TypesInv, KeysInv, NEW t \in Threads, NEW kind \in {"cap_update", "cap_delete"}, NEW next,
         ReadCapability(t, kind, next), made' = made
  PROVE  KeysInv'
<1>1. th[t].pc = "run" /\ th[t].req.kind = kind BY DEF ReadCapability, Writes
<1>2. \E x : Local(t, x) BY DEF ReadCapability, Finish
<1>. QED BY <1>1, <1>2, ReadKeeps

LEMMA CapabilityKeeps ==
  ASSUME TypesInv, KeysInv, NEW t \in Threads, CapabilityStep(t)
  PROVE  KeysInv'
<1>1. CASE create_capability(t)
  <2>1. CASE th[t].pc = "insert" BY <1>1, <2>1, CreateKeeps
  <2>2. CASE th[t].pc # "insert"
    <3>1. /\ th[t].pc = "run" /\ th[t].req.kind = "cap_create" /\ made' = made
          /\ \E x : Local(t, x)
      BY <1>1, <2>2 DEF create_capability, Writes, Finish
    <3>. QED BY <3>1, ReadKeeps
  <2>. QED BY <2>1, <2>2
<1>2. CASE ~create_capability(t)
  <2>0. made' = made BY <1>2 DEF CapabilityStep, capVars
  <2>1. CASE update_capability(t)
    <3>1. CASE ReadCapability(t, "cap_update", "update") BY <2>0, <3>1, ReadCapabilityKeeps
    <3>2. CASE ~ReadCapability(t, "cap_update", "update")
      <4>1. th[t].pc = "update" BY <2>1, <3>2 DEF update_capability, Writes
      <4>. QED BY <2>0, <2>1, <4>1, UpdateKeeps
    <3>. QED BY <3>1, <3>2
  <2>2. CASE delete_capability(t)
    <3>1. CASE ReadCapability(t, "cap_delete", "delete") BY <2>0, <3>1, ReadCapabilityKeeps
    <3>2. CASE ~ReadCapability(t, "cap_delete", "delete")
      <4>1. th[t].pc \in {"delete", "cascade"} BY <2>2, <3>2 DEF delete_capability, Writes
      <4>. QED BY <2>0, <2>2, <4>1, DeleteKeeps, CascadeKeeps
    <3>. QED BY <3>1, <3>2
  <2>3. CASE set_capability_agents(t)
    <3>1. CASE th[t].pc = "put_insert" BY <2>0, <2>3, <3>1, SetAgentsKeeps
    <3>2. CASE th[t].pc = "clear"
      <4>1. Clear(t) BY <2>3, <3>2 DEF set_capability_agents, Writes
      <4>. QED BY <2>0, <3>2, <4>1, ClearKeeps
    <3>3. CASE th[t].pc \notin {"put_insert", "clear"}
      <4>1. /\ th[t].pc = "run" /\ th[t].req.kind = "put" /\ \E x : Local(t, x)
        BY <2>3, <3>3 DEF set_capability_agents, Writes, Finish
      <4>. QED BY <2>0, <4>1, ReadKeeps
    <3>. QED BY <3>1, <3>2, <3>3
  <2>4. CASE SeedRead(t)
    <3>1. Resting(th[t]) /\ \E x : Local(t, x) BY <2>4 DEF SeedRead, Resting
    <3>. QED BY <2>0, <3>1, ReadKeeps
  <2>5. CASE SeedInsert(t) BY <2>0, <2>5, SeedInsertKeeps
  <2>6. CASE CommitCapability(t)
    <3>1. /\ th[t].pc = "commit" /\ th[t].req.kind \in {"cap_create", "cap_update", "cap_delete"}
          /\ Commit(t, Idle)
      BY <2>6 DEF CommitCapability, Writes
    <3>. QED BY <2>0, <3>1, CommitKeeps
  <2>7. CASE CommitMembers(t)
    <3>1. th[t].pc \in {"put_insert", "seed_insert"} /\ \E x : Commit(t, x)
      BY <2>7 DEF CommitMembers
    <3>. QED BY <2>0, <3>1, CommitKeeps
  <2>. QED BY <1>2, <2>1, <2>2, <2>3, <2>4, <2>5, <2>6, <2>7 DEF CapabilityStep
<1>. QED BY <1>1, <1>2

LEMMA ConfigurationKeeps ==
  ASSUME TypesInv, KeysInv, NEW t \in Threads, ConfigStep(t)
  PROVE  KeysInv'
<1>0. made' = made BY DEF ConfigStep, capVars
<1>1. CASE ReloadRead(t) \/ ReloadStore(t) \/ ReloadFails(t) \/ resolve_for_scope(t)
  <2>1. Resting(th[t]) /\ \E x : Local(t, x)
    BY <1>1 DEF ReloadRead, ReloadStore, ReloadFails, resolve_for_scope, Finish, Resting
  <2>. QED BY <1>0, <2>1, ReadKeeps
<1>2. CASE reload_agents(t) \/ TurnSelect(t)
  <2>1. /\ th[t].pc = "run" /\ th[t].req.kind \in {"reload", "turn"} /\ \E x : Local(t, x)
    BY <1>2 DEF reload_agents, TurnSelect, Finish
  <2>. QED BY <1>0, <2>1, ReadKeeps
<1>3. CASE activate_config_version(t) \/ create_config_version(t) \/ update_agent_status(t)
  <2>1. Tables(th[t]) = {"agent", "config"}
    BY <1>3 DEF activate_config_version, create_config_version, update_agent_status, Tables, ConfigWriter
  <2>2. \E y : Effect(t, y) BY <1>3, HandlerStep
  <2>. QED BY <1>0, <2>1, <2>2, ConfigKeeps
<1>4. CASE sync(t)
  <2>1. CASE th[t].pc = "lock"
    <3>1. Resting(th[t]) /\ \E x : Local(t, x)
      BY <1>4, <2>1 DEF sync, SyncBegin, SyncAgent, SyncCompare, SyncReclaim, SyncAdopt, SyncOrphans,
         Resting
    <3>. QED BY <1>0, <3>1, ReadKeeps
  <2>2. CASE th[t].pc # "lock"
    <3>1. th[t].pc \in SyncSteps
      BY <1>4, <2>2 DEF sync, SyncBegin, SyncAgent, SyncCompare, SyncReclaim, SyncAdopt, SyncOrphans,
         SyncSteps
    <3>2. Tables(th[t]) = {"agent", "config"} BY <3>1 DEF Tables, ConfigWriter
    <3>3. \E y : Effect(t, y) BY <1>4, HandlerStep
    <3>. QED BY <1>0, <3>2, <3>3, ConfigKeeps
  <2>. QED BY <2>1, <2>2
<1>. QED BY <1>1, <1>2, <1>3, <1>4 DEF ConfigStep

LEMMA ArriveKeeps ==
  ASSUME TypesInv, KeysInv, NEW t \in Threads, NEW r \in Requests, Arrive(t, r), UNCHANGED capVars
  PROVE  KeysInv'
<1>1. db' = db /\ pend' = pend /\ made' = made BY DEF Arrive, capVars
<1>2. PICK x : /\ th[t].pc = "idle"
               /\ th' = [u \in Threads |-> IF u = t THEN x ELSE [th[u] EXCEPT !.alone = (@ /\ th[u].pc = "idle")]]
  BY ArriveThreads
<1>3. pend[t] = NoRows /\ DOMAIN NoRows = {} BY <1>2, Facts, NoRowsWritten DEF Resting
<1>4. /\ th'[t] = x
      /\ \A u \in Threads : u # t =>
           th'[u].pc = th[u].pc /\ th'[u].req = th[u].req /\ th'[u].n = th[u].n /\ th'[u].wait = th[u].wait
  <2>1. th \in [Threads -> ThreadState] BY DEF TypesInv, ThreadsOK
  <2>. QED BY <1>2, <2>1 DEF ThreadState
<1>5. RowsApart' BY <1>1 DEF KeysInv, RowsApart
<1>6. IdsOK' BY <1>1 DEF KeysInv, IdsOK, OneId, Given
<1>7. MembersHaveCapability(db') BY <1>1 DEF KeysInv
<1>8. \A u, i : Deletes(u, i)' <=> Deletes(u, i) BY <1>1 DEF Deletes
<1>9. ASSUME NEW u \in Threads PROVE CapsOK(u)' /\ MembersOK(u)' /\ CascadeOK(u)'
  <2>1. CapsOK(u) /\ MembersOK(u) /\ CascadeOK(u) BY ThreadKinds
  <2>2. CASE u = t
    <3>1. DOMAIN pend'[u] = {} BY <1>1, <1>3, <2>2
    <3>. QED BY <3>1 DEF CapsOK, MembersOK, CascadeOK, Deletes
  <2>3. CASE u # t
    <3>1. /\ th'[u].pc = th[u].pc /\ th'[u].req = th[u].req /\ th'[u].n = th[u].n
          /\ th'[u].wait = th[u].wait
      BY <1>4, <2>3
    <3>2. CapsOK(u)' BY <1>1, <2>1, <3>1 DEF CapsOK
    <3>3. MembersOK(u)' BY <1>1, <1>8, <2>1, <3>1 DEF MembersOK
    <3>4. CascadeOK(u)' BY <1>1, <1>8, <2>1, <3>1 DEF CascadeOK
    <3>. QED BY <3>2, <3>3, <3>4
  <2>. QED BY <2>2, <2>3
<1>. QED BY <1>5, <1>6, <1>7, <1>9 DEF KeysInv, WritersOK

LEMMA InitKeys == Init => KeysInv
<1>. SUFFICES ASSUME Init PROVE KeysInv OBVIOUS
<1>1. db \in Databases /\ \A t \in Threads : pend[t] = NoRows BY DEF Init
<1>2. DOMAIN NoRows = {} BY DEF NoRows
<1>3. IdsUnique(db) /\ MembersHaveCapability(db) /\ Table(db) BY <1>1, AdminDatabases, InitTable
<1>4. OneId(db, db) BY <1>3 DEF IdsUnique, OneId
<1>5. Given(db)
  <2>. DEFINE caps == {j \in DOMAIN db : j[1] = "cap"}
              f == [k \in caps |-> db[k].id]
  <2>1. IsFiniteSet(caps)
    <3>1. caps \subseteq DOMAIN db OBVIOUS
    <3>. HIDE DEF caps
    <3>. QED BY <1>3, <3>1, FS_Subset DEF Table, Rows
  <2>2. f \in [caps -> Nat]
    <3>. SUFFICES ASSUME NEW k \in caps PROVE db[k].id \in Nat OBVIOUS
    <3>1. db[k] \in CapRow BY <1>3 DEF Table, GoodRow
    <3>. QED BY <3>1 DEF CapRow
  <2>3. CapIds(db) = {f[k] : k \in caps} BY DEF CapIds
  <2>4. \A k \in caps : f[k] <= Newest({f[j] : j \in caps})
    <3>. HIDE DEF caps, f
    <3>. QED BY <2>1, <2>2, NewestOf
  <2>5. \A k \in caps : db[k].id <= made BY <2>3, <2>4 DEF Init
  <2>. QED BY <2>5 DEF Given
<1>6. IdsOK BY <1>1, <1>2, <1>4, <1>5 DEF IdsOK, OneId, Given
<1>7. RowsApart BY <1>1, <1>2 DEF RowsApart
<1>8. WritersOK BY <1>1, <1>2 DEF WritersOK, CapsOK, MembersOK, CascadeOK, Deletes
<1>. QED BY <1>3, <1>6, <1>7, <1>8 DEF KeysInv

LEMMA KeysStep == TypesInv /\ KeysInv /\ [Next]_vars => KeysInv'
<1>. SUFFICES ASSUME TypesInv, KeysInv, [Next]_vars PROVE KeysInv' OBVIOUS
<1>1. CASE \E t \in Threads, r \in Requests : Arrive(t, r) /\ UNCHANGED capVars
  BY <1>1, ArriveKeeps
<1>2. ASSUME NEW t \in Threads, Step(t) PROVE KeysInv'
  <2>1. CASE DeadlockStep(t)
    <3>1. Fail(t) /\ made' = made BY <2>1 DEF DeadlockStep, Deadlock, capVars
    <3>. QED BY <3>1, FailKeeps
  <2>. QED BY <1>2, <2>1, CapabilityKeeps, ConfigurationKeeps DEF Step
<1>3. CASE UNCHANGED vars
  <2>1. db' = db /\ pend' = pend /\ th' = th /\ made' = made BY <1>3 DEF vars, capVars
  <2>2. \A u, i : Deletes(u, i)' <=> Deletes(u, i) BY <2>1 DEF Deletes
  <2>3. RowsApart' /\ IdsOK' /\ MembersHaveCapability(db')
    BY <2>1 DEF KeysInv, RowsApart, IdsOK, OneId, Given
  <2>4. WritersOK' BY <2>1, <2>2 DEF KeysInv, WritersOK, CapsOK, MembersOK, CascadeOK
  <2>. QED BY <2>3, <2>4 DEF KeysInv
<1>. QED BY <1>1, <1>2, <1>3 DEF Next, Done

\* The tables keep their columns and the keys across them, whatever requests and starts interleave:
\* create_capability never reuses an id, and no member of capability_agents is left without its
\* capability when delete_capability meets set_capability_agents or the seed.
THEOREM TablesStayConsistent == Spec => []TypeOK
<1>1. TypesInv /\ KeysInv => TypeOK
  <2>. SUFFICES ASSUME TypesInv, KeysInv PROVE TypeOK OBVIOUS
  <2>1. Columns(db)
    <3>. SUFFICES ASSUME NEW k \in DOMAIN db
                  PROVE  \/ k \in {AgentKey(a) : a \in Agents} /\ db[k] \in AgentRow
                         \/ /\ k[1] = "config" /\ k = ConfigKey(k[2], k[3], k[4])
                            /\ k[2] \in Agents /\ k[3] \in Scopes /\ k[4] \in Nat \ {0}
                            /\ db[k] \in ConfigRow
                         \/ k \in {CapKey(s) : s \in Scopes} /\ db[k] \in CapRow
                         \/ /\ k[1] = "member" /\ k = MemberKey(k[2], k[3])
                            /\ k[2] \in Nat \ {0} /\ k[3] \in Agents
                            /\ db[k] \in MemberRow
      BY DEF Columns
    <3>1. k \in Keys /\ GoodRow(k, db[k]) BY DEF TypesInv, TablesOK, Table, Rows
    <3>. QED BY <3>1, KeyKinds DEF GoodRow
  <2>2. \A k \in DOMAIN db : k[1] = "cap" => db[k] # Gone BY CapRowTyped
  <2>3. OneId(db, db) /\ Given(db) /\ MembersHaveCapability(db) BY DEF KeysInv, IdsOK
  <2>4. IdsUnique(db) BY <2>2, <2>3 DEF OneId, IdsUnique
  <2>5. \A i \in CapIds(db) : i <= made BY <2>2, <2>3, HasCapId DEF Given
  <2>6. \A t \in Threads : th[t].req \in Requests \cup {NoRequest} /\ th[t].proc \in Processes
    BY DEF TypesInv, ThreadsOK, ThreadState
  <2>7. ASSUME NEW p \in Processes
        PROVE  /\ reg[p].snap \in Maps(Agents, Contents)
               /\ reg[p].version \in Nat /\ reg[p].max \in Nat
               /\ late[p] \subseteq {"older read", "reload failed", "other process", "older agent"}
    <3>1. RegistryState(reg[p]) /\ late[p] \subseteq Reasons BY DEF TypesInv, RegistriesOK
    <3>2. reg[p].snap \in Served /\ reg[p].version \in Nat /\ reg[p].max \in Nat
      BY <3>1 DEF RegistryState
    <3>. QED BY <3>1, <3>2 DEF Served, Reasons
  <2>8. serving \in Processes /\ started \in Processes /\ spent \in 0..MaxActivities
    BY DEF TypesInv, RegistriesOK
  <2>. QED BY <2>1, <2>3, <2>4, <2>5, <2>6, <2>7, <2>8 DEF TypeOK
<1>2. Spec => []KeysInv
  <2>1. Init /\ []TypesInv /\ [][Next]_vars => []KeysInv BY InitKeys, KeysStep, PTL
  <2>. QED BY <2>1, TypesCorrect, PTL DEF Spec
<1>. QED BY <1>1, <1>2, TypesCorrect, PTL
=============================================================================
