----------------------------- MODULE AdminTables -----------------------------
(***************************************************************************)
(* The tables agents, agent_configs, capabilities and capability_agents,    *)
(* and the statements the requests run on them.                             *)
(*                                                                          *)
(* PostgreSQL at READ COMMITTED is modelled from how the code uses it: a     *)
(* statement sees what was committed when it began and its own transaction's *)
(* writes, waits for the rows another transaction has written, then         *)
(* re-evaluates its condition on them.  A unique index is checked when the   *)
(* statement ends; a cycle of waits costs one transaction.                  *)
(***************************************************************************)
EXTENDS Naturals, Sequences, FiniteSetsExt, Functions

CONSTANTS
  Threads,        \* the threads that serve requests or start a process
  Agents,         \* agent keys
  RemoteAgents,   \* the remote_flow ones among them
  AgentOrder,     \* the order of their YAML files
  Contents,       \* agent configurations, one per checksum
  Default,        \* the scope value 'default'
  Scopes,         \* <<tenant, organization>> pairs
  Requests,       \* what may be asked of the program
  Databases,      \* what the tables may hold at first
  MaxActivities,  \* bound: requests and process starts
  MaxStarts,      \* bound: process starts
  MaxFaults       \* bound: queries of the registry that fail

DefaultScope == <<Default, Default>>
ASSUME AdminConstants ==
  /\ RemoteAgents \subseteq Agents
  /\ AgentOrder \in Seq(Agents) /\ Agents = {AgentOrder[i] : i \in DOMAIN AgentOrder}
  /\ DefaultScope \in Scopes /\ \A s \in Scopes : s = <<s[1], s[2]>>
  /\ MaxActivities \in Nat /\ MaxStarts \in Nat /\ MaxFaults \in Nat

VARIABLES
  db,       \* the committed rows: a function from row keys to rows
  pend,     \* what each thread's open transaction has written, deletions included
  th,       \* each thread: program point, request, process and local variables
  commits,  \* how many transactions changed agents or agent_configs
  broken    \* history: the database refused a request that ran alone

AgentKey(a) == <<"agent", a>>
ConfigKey(a, s, v) == <<"config", a, s, v>>
CapKey(s) == <<"cap", s>>
MemberKey(i, a) == <<"member", i, a>>
IsConfig(k, a) == k[1] = "config" /\ k[2] = a
IsMember(k, i) == k[1] = "member" /\ k[2] = i

Gone == [gone |-> TRUE]
NoRows == [k \in {} |-> Gone]
NoRead == [snap |-> NoRows, max |-> 0, at |-> 0]
NoRequest == [kind |-> "none"]
Idle == [pc |-> "idle", req |-> NoRequest, proc |-> 0, alone |-> TRUE, began |-> 0,
         wait |-> {}, back |-> "idle", n |-> 0, adopt |-> FALSE, read |-> NoRead, todo |-> <<>>]

\* The TLC module's :> and @@, which the provers do not know.
Only(k, row) == [j \in {k} |-> row]
Over(new, old) ==
  [k \in DOMAIN new \cup DOMAIN old |-> IF k \in DOMAIN new THEN new[k] ELSE old[k]]

Live(rows) == Restrict(rows, {k \in DOMAIN rows : rows[k] # Gone})
View(t) == Live(Over(pend[t], db))
Others(t) == Threads \ {t}
Go(t, next) == th' = [th EXCEPT ![t] = [next EXCEPT !.wait = {}]]
To(t, pc) == [th[t] EXCEPT !.pc = pc]

-----------------------------------------------------------------------------
(* Constraints.                                                              *)

\* uq_agent_cfg_one_active: one active configuration per agent and scope.
OneActive(j, r, k, s) ==
  /\ j # k /\ j[1] = "config" /\ k[1] = "config"
  /\ j[2] = k[2] /\ j[3] = k[3] /\ r # Gone /\ s # Gone /\ r.active /\ s.active

\* A capability's id in the table, and the members that go with its row.
CapIds(view) == {view[k].id : k \in {j \in DOMAIN view : j[1] = "cap"}}
MembersOf(view, i) == {k \in DOMAIN view : IsMember(k, i)}

\* What thread t would have to wait for before it may write rows: the same row, a
\* row of a unique index with it, a capability being deleted and a new member of it.
Conflicts(t, rows) ==
  {j \in UNION {DOMAIN pend[u] : u \in Others(t)} :
     \E u \in Others(t), k \in DOMAIN rows :
        /\ j \in DOMAIN pend[u]
        /\ \/ j = k
           \/ OneActive(k, rows[k], j, pend[u][j])
           \/ j \in DOMAIN db /\ OneActive(k, rows[k], j, db[j])
           \/ k[1] = "cap" /\ rows[k] = Gone /\ IsMember(j, db[k].id) /\ pend[u][j] # Gone
           \/ j[1] = "cap" /\ pend[u][j] = Gone /\ rows[k] # Gone /\ IsMember(k, db[j].id)}

\* A unique index or a foreign key refuses the rows.
Refused(t, rows) ==
  LET after == Live(Over(rows, View(t)))
  IN \/ \E j \in DOMAIN rows \cap DOMAIN after, k \in DOMAIN after :
           OneActive(j, after[j], k, after[k])
     \/ \E k \in DOMAIN rows \cap DOMAIN after : k[1] = "member" /\ k[2] \notin CapIds(after)

-----------------------------------------------------------------------------
(* Statements.                                                               *)

\* The transaction is lost.  Only the membership seed survives that: the process
\* start goes on to load the registry; every other request ends with an error.
Fail(t) ==
  /\ pend' = [pend EXCEPT ![t] = NoRows]
  /\ Go(t, IF th[t].pc = "seed_insert" THEN To(t, "reload") ELSE Idle)
  /\ broken' = (broken \/ th[t].alone)
  /\ UNCHANGED <<db, commits>>

Apply(t, rows, next) ==
  IF Refused(t, rows)
  THEN Fail(t)
  ELSE /\ pend' = [pend EXCEPT ![t] = Over(rows, @)]
       /\ Go(t, next)
       /\ UNCHANGED <<db, commits, broken>>

\* The statement waits, having locked some of the rows it will write.
Block(t, held, keys) ==
  /\ ~(keys \subseteq th[t].wait)
  /\ pend' = [pend EXCEPT ![t] = Over(Restrict(View(t), held), @)]
  /\ th' = [th EXCEPT ![t].wait = keys]
  /\ UNCHANGED <<db, commits, broken>>

\* UPDATE or DELETE of the rows with Hit, each becoming New.
Write(t, Hit(_), New(_), next) ==
  LET keys == IF th[t].wait # {} THEN th[t].wait ELSE {k \in DOMAIN View(t) : Hit(k)}
      rows == [k \in {j \in keys \cap DOMAIN View(t) : Hit(j)} |-> New(k)]
      busy == (keys \cap UNION {DOMAIN pend[u] : u \in Others(t)}) \cup Conflicts(t, rows)
  IN \/ busy = {} /\ Apply(t, rows, next)
     \/ busy # {} /\ \E held \in SUBSET (DOMAIN rows \ busy) : Block(t, held, keys \cup busy)

Insert(t, k, row, next) ==
  LET busy == Conflicts(t, Only(k, row))
  IN \/ busy # {} /\ Block(t, {}, busy)
     \/ busy = {} /\ k \in DOMAIN View(t) /\ Fail(t)
     \/ busy = {} /\ k \notin DOMAIN View(t) /\ Apply(t, Only(k, row), next)

\* A read, or a step outside the database.
Local(t, next) == Go(t, next) /\ UNCHANGED <<db, pend, commits, broken>>
Finish(t) == Local(t, Idle)

Commit(t, next) ==
  /\ db' = View(t)
  /\ pend' = [pend EXCEPT ![t] = NoRows]
  /\ commits' = IF \E k \in DOMAIN pend[t] : k[1] \in {"agent", "config"}
                THEN commits + 1 ELSE commits
  /\ Go(t, next)
  /\ UNCHANGED broken

\* PostgreSQL's deadlock detector ends one of the transactions that wait for each other.
Deadlock(t) ==
  /\ \E S \in SUBSET Threads :
       /\ t \in S
       /\ \A u \in S : \E w \in S \ {u} : th[u].wait \cap DOMAIN pend[w] # {}
  /\ Fail(t)
=============================================================================
