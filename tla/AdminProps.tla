------------------------------ MODULE AdminProps ------------------------------
(***************************************************************************)
(* What the configuration tables, the registry and the sidebar promise.      *)
(***************************************************************************)
EXTENDS Capabilities

CONSTANT ScopeOf(_)   \* the scope a configuration was written for

Callers == Scopes
Quiet == \A t \in Threads : th[t].pc = "idle"
Maps(S, T) == UNION {[D -> T] : D \in SUBSET S}

-----------------------------------------------------------------------------
(* The tables' columns, and what the program is given.                        *)

Statuses == {"active", "disabled", "coming_soon"}
AgentRow == [enabled : BOOLEAN, stamp : Nat]
ConfigRow == [content : Contents, source : {"yaml", "db"}, active : BOOLEAN]
CapRow == [id : Nat \ {0}, status : Statuses]
MemberRow == [order : Nat \ {0}]

Columns(table) ==
  \A k \in DOMAIN table :
    \/ k \in {AgentKey(a) : a \in Agents} /\ table[k] \in AgentRow
    \/ /\ k[1] = "config" /\ k = ConfigKey(k[2], k[3], k[4])
       /\ k[2] \in Agents /\ k[3] \in Scopes /\ k[4] \in Nat \ {0}
       /\ table[k] \in ConfigRow
    \/ k \in {CapKey(s) : s \in Scopes} /\ table[k] \in CapRow
    \/ /\ k[1] = "member" /\ k = MemberKey(k[2], k[3])
       /\ k[2] \in Nat \ {0} /\ k[3] \in Agents
       /\ table[k] \in MemberRow

\* The primary key of capabilities and the foreign key of capability_agents.
IdsUnique(table) ==
  \A j, k \in DOMAIN table :
    j[1] = "cap" /\ k[1] = "cap" /\ table[j].id = table[k].id => j = k
MembersHaveCapability(table) ==
  \A k \in DOMAIN table : k[1] = "member" => k[2] \in CapIds(table)

\* A configuration is stored for the scope it was written for.
OfItsScope(table) ==
  \A k \in DOMAIN table : k[1] = "config" => ScopeOf(table[k].content) = k[3]

ASSUME AdminDatabases ==
  \A d \in Databases :
    /\ d = [k \in DOMAIN d |-> d[k]] /\ IsFiniteSet(DOMAIN d) /\ Columns(d)
    /\ IdsUnique(d) /\ MembersHaveCapability(d) /\ OfItsScope(d)

\* Admin requests and YAML files are for the default scope.
ASSUME AdminRequests ==
  /\ SeedList \in Seq(Agents)
  /\ \A r \in Requests :
       /\ r.kind \in {"activate", "create", "status", "turn"} => r.agent \in Agents
       /\ r.kind = "create" => r.content \in Contents /\ ScopeOf(r.content) = DefaultScope
       /\ r.kind = "status" => r.enabled \in BOOLEAN
       /\ r.kind = "turn" => r.caller \in Callers
       /\ r.kind \in {"cap_create", "cap_update", "cap_delete", "put"} => r.scope \in Scopes
       /\ r.kind \in {"cap_create", "cap_update"} => r.status \in Statuses
       /\ r.kind = "put" => r.agents \in Seq(Agents)
       /\ r.kind = "boot" =>
            /\ r.mode \in {"safe", "force", "off"} /\ r.mitra \in BOOLEAN
            /\ r.yaml \in Maps(Agents, Contents)
            /\ \A a \in DOMAIN r.yaml : ScopeOf(r.yaml[a]) = DefaultScope

-----------------------------------------------------------------------------
\* Every row has its table's columns and satisfies the keys across tables, and every thread's
\* request is one that was asked.
TypeOK ==
  /\ Columns(db) /\ IdsUnique(db) /\ MembersHaveCapability(db)
  /\ \A i \in CapIds(db) : i <= made
  /\ \A t \in Threads : th[t].req \in Requests \cup {NoRequest} /\ th[t].proc \in Processes
  /\ \A p \in Processes : /\ reg[p].snap \in Maps(Agents, Contents)
                          /\ reg[p].version \in Nat /\ reg[p].max \in Nat
                          /\ late[p] \subseteq {"older read", "reload failed", "other process",
                                                "older agent"}
  /\ serving \in Processes /\ started \in Processes /\ spent \in 0..MaxActivities

\* A request or a start that runs alone is never refused by an index, a foreign key or a
\* deadlock: the statements of every handler are in an order the constraints accept.
LoneRequestSucceeds == ~broken

\* An agent that has an active configuration in the default scope loses it only when an
\* admin activates a version number which that scope does not have.
KeepsDefault ==
  [][\A a \in Agents : HasDefault(db, a) /\ ~HasDefault(db', a) =>
       \E t \in Threads : /\ th[t].req.kind = "activate" /\ th[t].req.agent = a
                          /\ ConfigKey(a, DefaultScope, th[t].req.version) \notin DOMAIN db]_vars

SafeStart(t) ==
  \A a \in Agents :
    /\ AgentKey(a) \in DOMAIN db /\ a \notin RemoteAgents /\ a \notin Enabled(db)
         => a \notin Enabled(db')
    /\ th[t].alone /\ HasDefault(db, a) /\ db[DefaultOf(db, a)].source = "db" =>
         HasDefault(db', a) /\ DefaultOf(db', a) = DefaultOf(db, a)
ForceStart(t) ==
  th[t].alone =>
  \A a \in DOMAIN th[t].req.yaml :
    \/ HasDefault(db', a) /\ db'[DefaultOf(db', a)].content = th[t].req.yaml[a]
    \/ HasDefault(db, a) /\ db[DefaultOf(db, a)].source = "yaml"
       /\ \E v \in 1..NextVersion(db, a) :
            /\ v > DefaultOf(db, a)[4] /\ ConfigKey(a, DefaultScope, v) \in DOMAIN db
            /\ db[ConfigKey(a, DefaultScope, v)].content = th[t].req.yaml[a]

\* sync: a start in safe mode that runs alone keeps every override an admin activated, and leaves
\* a disabled llm agent disabled.  One in force mode that runs alone makes the YAML's configuration
\* the active one of every agent it names, unless an older YAML version is the active one and the
\* file has not changed.
StartRespectsMode ==
  [][\A t \in Threads : th[t].pc = "sync_commit" /\ th'[t].pc = "seed" =>
       /\ th[t].req.mode = "safe" => SafeStart(t)
       /\ th[t].req.mode = "force" => ForceStart(t)]_vars

\* reload, maybe_reload and resolve_for_scope: when no request is in flight the serving process's
\* snapshot is what the tables say, and a cached entry of the present version is what the caller's
\* scope resolves to; unless an older read replaced a newer one, a reload failed, another process
\* changed the tables, or an agent of an older snapshot was cached under a newer version.
RegistryCurrent ==
  LET r == reg[serving]
  IN Quiet /\ late[serving] = {} =>
       /\ r.snap = Snapshot(db)
       /\ \A e \in DOMAIN r.cache : e[1] = r.version =>
            e[3] \in DOMAIN r.snap /\ r.cache[e] = Scoped(db, e[2], e[3], r.snap[e[3]])

\* Whatever is cached for a caller was written for a scope that applies to the caller: a tenant is
\* never served another tenant's configuration.
NoCrossTenant ==
  \A p \in Processes : \A e \in DOMAIN reg[p].cache : Applies(ScopeOf(reg[p].cache[e]), e[2])

\* The membership of a capability is the list of one request or of the seed, unless two of them
\* wrote it at once; so a reader never sees half of a list.
MembershipOfOneRequest ==
  \A i \in CapIds(db) \ mixed :
    MembersOf(db, i) = {} \/ <<i, Membership(db, i)>> \in lists

\* resolve_for_user against the router: a caller is shown no button of a capability that the
\* caller's own scope disabled, not even the inherited row's; and when no request is in flight and
\* the registry is current, every button starts an agent the router finds, if the agent has its
\* default configuration.
SidebarHonest ==
  \A c \in Callers : \A a \in Buttons(db, c) :
    /\ CapKey(c) \in DOMAIN db => db[CapKey(c)].status # "disabled"
    /\ Quiet /\ late[serving] = {} /\ HasDefault(db, a) => a \in DOMAIN reg[serving].snap
=============================================================================
