---------------------------- MODULE AgentConfigs ----------------------------
(***************************************************************************)
(* Agent configurations: the admin routes that version and activate them,   *)
(* the startup synchronisation with the YAML files, the registry that holds  *)
(* the served snapshot, and its cache of per-tenant configurations.         *)
(*                                                                          *)
(* One process serves at a time; another may be starting beside it, and     *)
(* takes over the requests once its registry is loaded.  Requests already   *)
(* with the old process finish there.                                       *)
(***************************************************************************)
EXTENDS AdminTables

CONSTANT CacheMax   \* _SCOPE_CACHE_MAX

VARIABLES
  reg,      \* the registry of each process
  serving,  \* the process that gets new requests
  started,  \* processes started so far
  spent,    \* requests and process starts so far; also the clock behind now()
  faults,   \* queries of the registry that failed
  late      \* history: why a process's registry may be behind the tables

registryVars == <<reg, late>>
processVars == <<serving, started>>
budgetVars == <<spent, faults>>

Processes == 0..MaxStarts
Empty == [snap |-> NoRows, max |-> 0, at |-> 0, version |-> 0, cache |-> NoRows]

-----------------------------------------------------------------------------
(* What the queries read.                                                    *)

Enabled(view) == {a \in Agents : AgentKey(a) \in DOMAIN view /\ view[AgentKey(a)].enabled}
ActiveIn(view, a) == {k \in DOMAIN view : IsConfig(k, a) /\ view[k].active}
HasDefault(view, a) == \E k \in ActiveIn(view, a) : k[3] = DefaultScope
DefaultOf(view, a) == CHOOSE k \in ActiveIn(view, a) : k[3] = DefaultScope
Stamps(view, S) == {view[AgentKey(a)].stamp : a \in S}
Newest(S) == Max({0} \cup S)
NextVersion(view, a) == 1 + Newest({k[4] : k \in {j \in DOMAIN view : IsConfig(j, a)}})

\* reload: the enabled agents with an active configuration in the default scope.
Snapshot(view) ==
  [a \in {b \in Enabled(view) : HasDefault(view, b)} |-> view[DefaultOf(view, a)].content]

\* The scopes a caller <<tenant, organization>> may see, the organization's first,
\* then the tenant's.
Applies(scope, caller) ==
  scope[1] \in {caller[1], Default} /\ scope[2] \in {caller[2], Default}
Rank(scope, caller) ==
  (IF scope[2] = caller[2] THEN 0 ELSE 2) + (IF scope[1] = caller[1] THEN 0 ELSE 1)
First(S, caller) ==
  CHOOSE s \in S : \A r \in S : Rank(s, caller) <= Rank(r, caller)

\* Mutant: the query forgets the tenant.
ScopedAnyTenant(view, caller, a, agent) ==
  LET own == {k \in ActiveIn(view, a) : k[3] # DefaultScope}
  IN IF own = {} THEN agent ELSE view[CHOOSE k \in own : TRUE].content

\* resolve_for_scope's query: the caller's own configuration, else the agent as it is.
Scoped(view, caller, a, agent) ==
  LET own == {k[3] : k \in {j \in ActiveIn(view, a) :
                             Applies(j[3], caller) /\ j[3] # DefaultScope}}
  IN IF own = {} THEN agent
     ELSE view[CHOOSE k \in ActiveIn(view, a) : k[3] = First(own, caller)].content

-----------------------------------------------------------------------------
(* Requests arrive at the serving process; a start makes a process of its own. *)

\* maybe_reload, before every request: the registry was loaded less than a TTL ago, or
\* MAX(updated_at) of the enabled agents is the one it knows; otherwise it reloads.
AfterCheck ==
  {"run"} \cup IF Newest(Stamps(db, Enabled(db))) # reg[serving].max THEN {"reload"} ELSE {}
FirstStep(r) ==
  CASE r.kind # "boot" -> AfterCheck
    [] r.kind = "boot" /\ r.mode = "off" -> {"seed"}
    [] OTHER -> {"lock"}

Arrive(t, r) ==
  /\ th[t].pc = "idle" /\ spent < MaxActivities
  /\ r.kind = "boot" => started < MaxStarts
  /\ spent' = spent + 1
  /\ started' = IF r.kind = "boot" THEN started + 1 ELSE started
  /\ \E pc \in FirstStep(r) :
       th' = [u \in Threads |->
         IF u = t
         THEN [Idle EXCEPT !.pc = pc, !.req = r, !.began = spent + 1,
                           !.back = IF pc = "reload" THEN "run" ELSE "idle",
                           !.proc = IF r.kind = "boot" THEN started + 1 ELSE serving,
                           !.alone = \A w \in Others(t) : th[w].pc = "idle"]
         ELSE [th[u] EXCEPT !.alone = (@ /\ th[u].pc = "idle")]]
  /\ UNCHANGED <<db, pend, commits, broken, reg, late, serving, faults>>

ReloadRead(t) ==
  /\ th[t].pc = "reload"
  /\ Local(t, [To(t, "store") EXCEPT
       !.read = [snap |-> Snapshot(db), max |-> Newest(Stamps(db, DOMAIN Snapshot(db))),
                 at |-> commits]])
  /\ UNCHANGED <<registryVars, processVars, budgetVars>>

\* Mutant: the version stays, and with it the entries of the scope cache.
ReplacedSameVersion(r, read) ==
  [r EXCEPT !.snap = read.snap, !.max = read.max, !.at = read.at]

Replaced(r, read) ==
  [r EXCEPT !.snap = read.snap, !.max = read.max, !.at = read.at, !.version = @ + 1]

\* The snapshot is replaced and the version moves on.  A process that starts begins
\* to serve.
ReloadStore(t) ==
  LET p == th[t].proc
      read == th[t].read
  IN /\ th[t].pc = "store"
     /\ reg' = [reg EXCEPT ![p] = Replaced(@, read)]
     /\ late' = [late EXCEPT ![p] = CASE read.at = commits -> {}
                                      [] read.at < reg[p].at -> @ \cup {"older read"}
                                      [] OTHER -> @]
     /\ serving' = IF th[t].req.kind = "boot" THEN p ELSE serving
     /\ Local(t, IF th[t].back = "idle" THEN Idle
                 ELSE [To(t, th[t].back) EXCEPT !.read = NoRead, !.back = "idle"])
     /\ UNCHANGED <<started, budgetVars>>

\* The query fails: the snapshot stays, and a process that starts gives up.
ReloadFails(t) ==
  /\ th[t].pc = "reload" /\ faults < MaxFaults
  /\ faults' = faults + 1
  /\ late' = [late EXCEPT ![th[t].proc] = @ \cup {"reload failed"}]
  /\ Local(t, IF th[t].back = "idle" THEN Idle ELSE [To(t, th[t].back) EXCEPT !.back = "idle"])
  /\ UNCHANGED <<reg, processVars, spent>>

-----------------------------------------------------------------------------
(* The admin routes.                                                          *)

OthersLate(t) ==
  late' = [p \in Processes |->
    IF p = th[t].proc THEN late[p] ELSE late[p] \cup {"other process"}]

\* COMMIT; the registries of the other processes do not hear of it.
CommitConfig(t, next) == Commit(t, next) /\ OthersLate(t)

\* Mutants: an UPDATE is left out.
DeactivateNothing(t, a, next) == Local(t, next)
ActivateNothing(t, a, v, next) == Local(t, next)

Deactivate(t, a, next) ==
  Write(t, LAMBDA k : IsConfig(k, a), LAMBDA k : [View(t)[k] EXCEPT !.active = FALSE], next)
Activate(t, a, v, next) ==
  Write(t, LAMBDA k : IsConfig(k, a) /\ k[4] = v,
        LAMBDA k : [View(t)[k] EXCEPT !.active = TRUE], next)

reload_agents(t) ==
  /\ th[t].req.kind = "reload" /\ th[t].pc = "run"
  /\ Local(t, To(t, "reload"))
  /\ UNCHANGED <<registryVars, processVars, budgetVars>>

activate_config_version(t) ==
  LET r == th[t].req
  IN /\ r.kind = "activate"
     /\ \/ /\ th[t].pc = "run"
           /\ IF \E k \in DOMAIN db : IsConfig(k, r.agent) /\ k[4] = r.version
              THEN Deactivate(t, r.agent, To(t, "on")) ELSE Finish(t)
           /\ UNCHANGED late
        \/ th[t].pc = "on" /\ Activate(t, r.agent, r.version, To(t, "commit")) /\ UNCHANGED late
        \/ th[t].pc = "commit" /\ CommitConfig(t, To(t, "reload"))
     /\ UNCHANGED <<reg, processVars, budgetVars>>

\* Deactivated before the insert, numbered after it, over every scope of the agent.
create_config_version(t) ==
  LET r == th[t].req
  IN /\ r.kind = "create"
     /\ \/ /\ th[t].pc = "run"
           /\ IF AgentKey(r.agent) \in DOMAIN db
              THEN Deactivate(t, r.agent, To(t, "number")) ELSE Finish(t)
           /\ UNCHANGED late
        \/ /\ th[t].pc = "number"
           /\ Local(t, [To(t, "insert") EXCEPT !.n = NextVersion(View(t), r.agent)])
           /\ UNCHANGED late
        \/ /\ th[t].pc = "insert"
           /\ Insert(t, ConfigKey(r.agent, DefaultScope, th[t].n),
                     [content |-> r.content, source |-> "db", active |-> TRUE], To(t, "commit"))
           /\ UNCHANGED late
        \/ th[t].pc = "commit" /\ CommitConfig(t, To(t, "reload"))
     /\ UNCHANGED <<reg, processVars, budgetVars>>

\* now() is the time the transaction began.
update_agent_status(t) ==
  LET r == th[t].req
  IN /\ r.kind = "status"
     /\ \/ /\ th[t].pc = "run"
           /\ IF AgentKey(r.agent) \in DOMAIN db
              THEN Write(t, LAMBDA k : k = AgentKey(r.agent),
                         LAMBDA k : [enabled |-> r.enabled, stamp |-> th[t].began],
                         To(t, "commit"))
              ELSE Finish(t)
           /\ UNCHANGED late
        \/ th[t].pc = "commit" /\ CommitConfig(t, To(t, "reload"))
     /\ UNCHANGED <<reg, processVars, budgetVars>>

-----------------------------------------------------------------------------
(* ConfigSyncService.sync, run by a process that starts.                      *)

SyncSteps == {"agent", "compare", "reclaim", "reactivate", "renumber", "retire", "adopt",
              "sync_commit"}
\* The agents from the next one that has a file.
FilesFrom(t, order) ==
  LET files == {i \in DOMAIN order : order[i] \in DOMAIN th[t].req.yaml}
  IN IF files = {} THEN <<>> ELSE SubSeq(order, Min(files), Len(order))
NextAgent(t) ==
  [To(t, "agent") EXCEPT !.todo = FilesFrom(t, Tail(@)), !.n = 0, !.adopt = FALSE]

\* pg_advisory_xact_lock, then the YAML files, validated before anything is written.
SyncBegin(t) ==
  /\ th[t].pc = "lock"
  /\ \A u \in Others(t) : th[u].pc \notin SyncSteps
  /\ Local(t, [To(t, "agent") EXCEPT !.todo = FilesFrom(t, AgentOrder)])

\* A new agent is inserted with its first configuration; a known one gets its identity
\* columns, and a remote_flow agent the status that MITRA_ENABLED says.
SyncAgent(t) ==
  LET r == th[t].req
      a == Head(th[t].todo)
  IN /\ th[t].pc = "agent" /\ th[t].todo # <<>>
     /\ IF AgentKey(a) \notin DOMAIN View(t)
        THEN Apply(t, Over(Only(AgentKey(a), [enabled |-> a \notin RemoteAgents \/ r.mitra,
                                              stamp |-> th[t].began]),
                           Only(ConfigKey(a, DefaultScope, 1),
                                [content |-> r.yaml[a], source |-> "yaml", active |-> TRUE])),
                   NextAgent(t))
        ELSE Write(t, LAMBDA k : k = AgentKey(a),
                   LAMBDA k : [enabled |-> IF a \in RemoteAgents THEN r.mitra
                                           ELSE View(t)[k].enabled,
                               stamp |-> th[t].began],
                   To(t, "compare"))

\* Mutant: a changed file always wins.
AdoptsAlways(mode, active) == TRUE

\* force means "the YAML is truth"; otherwise an override stays.
Adopts(mode, active) == mode = "force" \/ active # "db"
Reclaims(mode, active) == mode = "force" /\ active = "db"

\* The newest YAML version is compared with the file.  Which active row the query
\* returns first is open: it does not ask for a scope.
SyncCompare(t) ==
  LET r == th[t].req
      a == Head(th[t].todo)
      view == View(t)
      files == {k \in DOMAIN view : IsConfig(k, a) /\ view[k].source = "yaml"}
      same(k) == (\A j \in files : j[4] <= k[4]) /\ view[k].content = r.yaml[a]
      source == {view[k].source : k \in ActiveIn(view, a)}
  IN /\ th[t].pc = "compare"
     /\ \E active \in IF source = {} THEN {"none"} ELSE source :
          IF \E k \in files : same(k)
          THEN Local(t, IF Reclaims(r.mode, active)
                        THEN [To(t, "reclaim") EXCEPT !.n = Newest({k[4] : k \in files})]
                        ELSE NextAgent(t))
          ELSE Local(t, [To(t, "renumber") EXCEPT !.adopt = Adopts(r.mode, active)])

\* force: the newest YAML version takes over from an override.
SyncReclaim(t) ==
  LET a == Head(th[t].todo)
  IN \/ /\ th[t].pc = "reclaim"
        /\ Write(t, LAMBDA k : IsConfig(k, a) /\ k[4] # th[t].n,
                 LAMBDA k : [View(t)[k] EXCEPT !.active = FALSE], To(t, "reactivate"))
     \/ /\ th[t].pc = "reactivate"
        /\ Activate(t, a, th[t].n, NextAgent(t))

\* The file changed: a new version, active unless an override is kept.
SyncAdopt(t) ==
  LET a == Head(th[t].todo)
  IN \/ /\ th[t].pc = "renumber"
        /\ Local(t, [To(t, IF th[t].adopt THEN "retire" ELSE "adopt") EXCEPT
                       !.n = NextVersion(View(t), a)])
     \/ /\ th[t].pc = "retire"
        /\ Write(t, LAMBDA k : IsConfig(k, a) /\ View(t)[k].active,
                 LAMBDA k : [View(t)[k] EXCEPT !.active = FALSE], To(t, "adopt"))
     \/ /\ th[t].pc = "adopt"
        /\ Insert(t, ConfigKey(a, DefaultScope, th[t].n),
                  [content |-> th[t].req.yaml[a], source |-> "yaml", active |-> th[t].adopt],
                  NextAgent(t))

\* Agents that run on a YAML version but have no file any more are disabled.
SyncOrphans(t) ==
  LET view == View(t)
      orphan(a) == /\ a \notin DOMAIN th[t].req.yaml
                   /\ \E k \in ActiveIn(view, a) : view[k].source = "yaml"
  IN /\ th[t].pc = "agent" /\ th[t].todo = <<>>
     /\ Write(t, LAMBDA k : k[1] = "agent" /\ (th[t].wait # {} \/ orphan(k[2])),
              LAMBDA k : [enabled |-> FALSE, stamp |-> th[t].began], To(t, "sync_commit"))

sync(t) ==
  /\ \/ /\ \/ SyncBegin(t) \/ SyncAgent(t) \/ SyncCompare(t) \/ SyncReclaim(t)
           \/ SyncAdopt(t) \/ SyncOrphans(t)
        /\ UNCHANGED late
     \/ th[t].pc = "sync_commit" /\ CommitConfig(t, To(t, "seed"))
  /\ UNCHANGED <<reg, processVars, budgetVars>>

-----------------------------------------------------------------------------
(* A turn that names its agent, resolved for the caller's tenant.             *)

TurnSelect(t) ==
  LET r == th[t].req
      snap == reg[th[t].proc].snap
  IN /\ r.kind = "turn" /\ th[t].pc = "run"
     /\ IF r.agent \in DOMAIN snap
        THEN Local(t, [To(t, "resolve") EXCEPT !.read.snap = Only(r.agent, snap[r.agent])])
        ELSE Finish(t)
     /\ UNCHANGED <<registryVars, processVars, budgetVars>>

\* resolve_for_scope: the cache is keyed by the registry's version, read now.
resolve_for_scope(t) ==
  LET r == th[t].req
      p == th[t].proc
      agent == th[t].read.snap[r.agent]
      key == <<reg[p].version, r.caller, r.agent>>
      kept == IF Cardinality(DOMAIN reg[p].cache) >= CacheMax THEN NoRows ELSE reg[p].cache
  IN /\ th[t].pc = "resolve"
     /\ \/ \* the default tenant, a cached entry, or a query that fails
           UNCHANGED registryVars
        \/ /\ r.caller[1] # Default /\ key \notin DOMAIN reg[p].cache
           /\ reg' = [reg EXCEPT ![p].cache = Over(Only(key, Scoped(db, r.caller, r.agent, agent)), kept)]
           /\ late' = [late EXCEPT ![p] =
                IF r.agent \in DOMAIN reg[p].snap /\ reg[p].snap[r.agent] = agent
                THEN @ ELSE @ \cup {"older agent"}]
     /\ Finish(t)
     /\ UNCHANGED <<processVars, budgetVars>>
=============================================================================
