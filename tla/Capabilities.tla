---------------------------- MODULE Capabilities ----------------------------
(***************************************************************************)
(* Capabilities, the cards of the sidebar, and the agents under them: the    *)
(* admin routes that edit them, the seed a starting process runs between     *)
(* the synchronisation and the registry's load, and the document a caller    *)
(* is shown.  Composed with AgentConfigs: the same threads, tables and       *)
(* processes.  One capability key; a scope may have a row of its own.        *)
(***************************************************************************)
EXTENDS AgentConfigs

CONSTANTS
  SeedList,     \* DEFAULT_MEMBERSHIP of the capability
  Permits(_, _) \* AccessSpec.matches: a configuration and a caller

VARIABLES
  made,    \* capability rows created so far: the last id
  lists,   \* history: the memberships requests asked for, <<id, members>>
  mixed    \* history: capabilities whose membership two writers wrote at once

capVars == <<made, lists, mixed>>
vars == <<db, pend, th, commits, broken, registryVars, processVars, budgetVars, capVars>>

-----------------------------------------------------------------------------
(* The document of a caller.                                                  *)

CapScopes(view) == {k[2] : k \in {j \in DOMAIN view : j[1] = "cap"}}

\* Mutant: disabled rows are left out before the winner is picked.
ResolvedEnabledFirst(view, caller) ==
  LET rows == {s \in CapScopes(view) : Applies(s, caller) /\ view[CapKey(s)].status # "disabled"}
  IN IF rows = {} THEN {} ELSE {First(rows, caller)}

\* _CAPABILITIES_SQL: the most specific row wins; only then is its status looked at.
Resolved(view, caller) ==
  LET rows == {s \in CapScopes(view) : Applies(s, caller)}
      winners == IF rows = {} THEN {} ELSE {First(rows, caller)}
  IN {s \in winners : view[CapKey(s)].status # "disabled"}

\* The configuration an agent has for the caller's scope, and whether it lets the caller in.
Allowed(view, caller, a) ==
  LET scopes == {k[3] : k \in {j \in ActiveIn(view, a) : Applies(j[3], caller)}}
  IN /\ scopes # {}
     /\ Permits(view[CHOOSE k \in ActiveIn(view, a) : k[3] = First(scopes, caller)].content, caller)
Members(view, caller) ==
  {a \in Agents : \E s \in Resolved(view, caller) :
     MemberKey(view[CapKey(s)].id, a) \in DOMAIN view /\ Allowed(view, caller, a)}

\* _AGENTS_SQL and _access_permits: the enabled members.
Buttons(view, caller) == Members(view, caller) \cap Enabled(view)

-----------------------------------------------------------------------------
(* The admin routes.                                                          *)

Writes(t, kind, pc) == th[t].req.kind = kind /\ th[t].pc = pc
Row(t) == IF CapKey(th[t].req.scope) \in DOMAIN db THEN {CapKey(th[t].req.scope)} ELSE {}
ById(t, k) == k[1] = "cap" /\ View(t)[k].id = th[t].n

create_capability(t) ==
  \/ /\ Writes(t, "cap_create", "run")
     /\ IF Row(t) # {} THEN Finish(t) ELSE Local(t, To(t, "insert"))
     /\ UNCHANGED made
  \/ /\ Writes(t, "cap_create", "insert")
     /\ Insert(t, CapKey(th[t].req.scope), [id |-> made + 1, status |-> th[t].req.status],
               To(t, "commit"))
     /\ made' = IF th'[t].pc = "commit" THEN made + 1 ELSE made

\* The row is read first and then written by its id.
ReadCapability(t, kind, next) ==
  /\ Writes(t, kind, "run")
  /\ \/ Row(t) = {} /\ Finish(t)
     \/ \E k \in Row(t) : Local(t, [To(t, next) EXCEPT !.n = db[k].id])

update_capability(t) ==
  \/ ReadCapability(t, "cap_update", "update")
  \/ /\ Writes(t, "cap_update", "update")
     /\ Write(t, LAMBDA k : ById(t, k),
              LAMBDA k : [View(t)[k] EXCEPT !.status = th[t].req.status], To(t, "commit"))

\* Mutant: the membership stays.
DeleteOnlyRow(t) ==
  \/ ReadCapability(t, "cap_delete", "delete")
  \/ /\ Writes(t, "cap_delete", "delete")
     /\ Write(t, LAMBDA k : ById(t, k), LAMBDA k : Gone, To(t, "commit"))

\* The membership goes with its capability (ON DELETE CASCADE).
delete_capability(t) ==
  \/ ReadCapability(t, "cap_delete", "delete")
  \/ /\ Writes(t, "cap_delete", "delete")
     /\ Write(t, LAMBDA k : ById(t, k), LAMBDA k : Gone, To(t, "cascade"))
  \/ /\ Writes(t, "cap_delete", "cascade")
     /\ Write(t, LAMBDA k : IsMember(k, th[t].n), LAMBDA k : Gone, To(t, "commit"))

\* display_order follows the list.
Position(list, todo) == Len(list) - Len(todo) + 1

\* Mutant: only the members that are listed again are deleted.
ClearListed(t) ==
  Write(t, LAMBDA k : IsMember(k, th[t].n) /\ \E i \in DOMAIN th[t].todo : th[t].todo[i] = k[3],
        LAMBDA k : Gone, To(t, "put_insert"))
Clear(t) == Write(t, LAMBDA k : IsMember(k, th[t].n), LAMBDA k : Gone, To(t, "put_insert"))

\* Every agent is looked up before anything is written; then the members are
\* deleted and the list inserted.
set_capability_agents(t) ==
  LET list == th[t].req.agents
  IN \/ /\ Writes(t, "put", "run")
        /\ IF \E i \in DOMAIN list : AgentKey(list[i]) \notin DOMAIN db
           THEN Finish(t)
           ELSE \/ Row(t) = {} /\ Finish(t)
                \/ \E k \in Row(t) :
                     Local(t, [To(t, "clear") EXCEPT !.n = db[k].id, !.todo = list])
     \/ Writes(t, "put", "clear") /\ Clear(t)
     \/ /\ Writes(t, "put", "put_insert") /\ th[t].todo # <<>>
        /\ Insert(t, MemberKey(th[t].n, Head(th[t].todo)),
                  [order |-> Position(list, th[t].todo)],
                  [th[t] EXCEPT !.todo = Tail(@)])

-----------------------------------------------------------------------------
(* seed_default_membership, in a session of its own.                          *)

SeedRead(t) ==
  /\ th[t].pc = "seed"
  /\ IF CapKey(DefaultScope) \in DOMAIN db /\ MembersOf(db, db[CapKey(DefaultScope)].id) = {}
     THEN Local(t, [To(t, "seed_insert") EXCEPT !.n = db[CapKey(DefaultScope)].id,
                                                !.todo = SeedList])
     ELSE Local(t, To(t, "reload"))

\* INSERT ... SELECT ... ON CONFLICT DO NOTHING.
SeedInsert(t) ==
  LET a == Head(th[t].todo)
      next == [th[t] EXCEPT !.todo = Tail(@)]
      k == MemberKey(th[t].n, a)
      busy == Conflicts(t, Only(k, [order |-> 0]))
  IN /\ th[t].pc = "seed_insert" /\ th[t].todo # <<>>
     /\ CASE AgentKey(a) \notin DOMAIN db -> Local(t, next)
          [] OTHER -> \/ busy # {} /\ Block(t, {}, busy)
                      \/ busy = {} /\ k \in DOMAIN View(t) /\ Local(t, next)
                      \/ /\ busy = {} /\ k \notin DOMAIN View(t)
                         /\ Apply(t, Only(k, [order |-> Position(SeedList, th[t].todo)]), next)

Membership(view, i) == [k \in MembersOf(view, i) |-> view[k].order]
AsMembership(i, list, known) ==
  [k \in {MemberKey(i, list[j]) : j \in known} |->
     CHOOSE j \in DOMAIN list : list[j] = k[3]]

\* A thread has begun to change the membership of capability i.
WritesMembers(u, i) ==
  /\ th[u].n = i
  /\ th[u].pc \in {"put_insert", "seed_insert"} \/ (th[u].pc = "clear" /\ th[u].wait # {})

CommitMembers(t) ==
  LET list == IF th[t].req.kind = "boot" THEN SeedList ELSE th[t].req.agents
      known == {j \in DOMAIN list : AgentKey(list[j]) \in DOMAIN db}
      i == th[t].n
  IN /\ th[t].pc \in {"put_insert", "seed_insert"} /\ th[t].todo = <<>>
     /\ Commit(t, IF th[t].req.kind = "boot" THEN To(t, "reload") ELSE Idle)
     /\ lists' = lists \cup {<<i, AsMembership(i, list, known)>>}
     /\ mixed' = IF \E u \in Others(t) : WritesMembers(u, i) THEN mixed \cup {i} ELSE mixed

CommitCapability(t) ==
  /\ \E kind \in {"cap_create", "cap_update", "cap_delete"} : Writes(t, kind, "commit")
  /\ Commit(t, Idle)

-----------------------------------------------------------------------------
Init ==
  /\ db \in Databases
  /\ pend = [t \in Threads |-> NoRows]
  /\ th = [t \in Threads |-> Idle]
  /\ commits = 0 /\ broken = FALSE
  /\ reg = [p \in Processes |->
              IF p # 0 THEN Empty
              ELSE [Empty EXCEPT !.snap = Snapshot(db), !.version = 1,
                                 !.max = Newest(Stamps(db, DOMAIN Snapshot(db)))]]
  /\ late = [p \in Processes |-> {}]
  /\ serving = 0 /\ started = 0 /\ spent = 0 /\ faults = 0
  /\ made = Newest(CapIds(db))
  /\ lists = {<<i, Membership(db, i)>> : i \in CapIds(db)}
  /\ mixed = {}

CapabilityStep(t) ==
  /\ \/ create_capability(t) /\ UNCHANGED <<lists, mixed>>
     \/ /\ \/ update_capability(t) \/ delete_capability(t) \/ set_capability_agents(t)
           \/ SeedRead(t) \/ SeedInsert(t) \/ CommitCapability(t)
        /\ UNCHANGED capVars
     \/ CommitMembers(t) /\ UNCHANGED made
  /\ UNCHANGED <<registryVars, processVars, budgetVars>>

ConfigStep(t) ==
  /\ \/ ReloadRead(t) \/ ReloadStore(t) \/ ReloadFails(t)
     \/ reload_agents(t) \/ activate_config_version(t) \/ create_config_version(t)
     \/ update_agent_status(t) \/ sync(t) \/ TurnSelect(t) \/ resolve_for_scope(t)
  /\ UNCHANGED capVars

DeadlockStep(t) == Deadlock(t) /\ UNCHANGED <<registryVars, processVars, budgetVars, capVars>>
Step(t) == ConfigStep(t) \/ CapabilityStep(t) \/ DeadlockStep(t)

Done == spent = MaxActivities /\ (\A t \in Threads : th[t].pc = "idle") /\ UNCHANGED vars

Next ==
  \/ \E t \in Threads, r \in Requests : Arrive(t, r) /\ UNCHANGED capVars
  \/ \E t \in Threads : Step(t)
  \/ Done   \* the bound is reached

Spec == Init /\ [][Next]_vars
=============================================================================
