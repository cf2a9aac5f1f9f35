------------------------------- MODULE MCAdmin -------------------------------
(* A small instance: one llm and one remote_flow agent, two tenants.        *)
EXTENDS AdminProps, TLC

CONSTANTS chat, story,       \* agents
          c1, c2, custom,       \* configurations: two of the default scope, one of the tenant
          tenant, other, org,  \* two tenants, an organization
          t1, t2             \* threads

MCAgentOrder == <<chat, story>>
MCScopes == {<<Default, Default>>, <<tenant, Default>>, <<tenant, org>>, <<other, org>>}
MCScopeOf(c) == IF c = custom THEN <<tenant, Default>> ELSE <<Default, Default>>
MCPermits(c, caller) == c # c2 \/ caller[1] # Default

Active(c, src) == [content |-> c, source |-> src, active |-> TRUE]
Base(agents) ==
  [k \in {AgentKey(a) : a \in agents} |-> [enabled |-> TRUE, stamp |-> 0]]
  @@ [k \in {ConfigKey(a, <<Default, Default>>, 1) : a \in agents} |-> Active(c1, "yaml")]
  @@ CapKey(<<Default, Default>>) :> [id |-> 1, status |-> "active"]
Custom(v, active) ==
  ConfigKey(chat, <<tenant, Default>>, v) :> [Active(custom, "db") EXCEPT !.active = active]
NoCapability(d) == [k \in DOMAIN d \ {CapKey(<<Default, Default>>)} |-> d[k]]
\* In one, the tenant has configurations of its own, the older with the default scope's version
\* number, the newer with another, and the capability was removed; in the other, the capability
\* has no members.  Each has an agent that is not yet in the tables.
MCDatabases == {NoCapability(Base({chat})) @@ Custom(1, FALSE) @@ Custom(2, TRUE),
                Base({story})}

Boots == {[kind |-> "boot", mode |-> "safe", yaml |-> chat :> c2, mitra |-> TRUE],
          [kind |-> "boot", mode |-> "force", yaml |-> chat :> c1 @@ story :> c1, mitra |-> FALSE],
          [kind |-> "boot", mode |-> "off", yaml |-> chat :> c1, mitra |-> TRUE]}
Configs == [kind : {"create"}, agent : {chat}, content : {c2}]
           \cup [kind : {"activate"}, agent : {chat}, version : {1, 2}]
           \cup [kind : {"status"}, agent : {chat}, enabled : {FALSE}]
           \cup [kind : {"turn"}, agent : {chat}, caller : {<<tenant, org>>, <<other, org>>}]
           \cup {[kind |-> "reload"]}
Caps == [kind : {"cap_create"}, scope : {<<tenant, Default>>}, status : {"disabled"}]
        \cup [kind : {"cap_update"}, scope : {<<Default, Default>>}, status : {"disabled"}]
        \cup [kind : {"cap_delete"}, scope : {<<Default, Default>>}]
        \cup [kind : {"put"}, scope : {<<Default, Default>>}, agents : {<<story>>, <<chat, story>>}]
MCRequests == Boots \cup Configs \cup Caps
Symmetry == Permutations(Threads)
=============================================================================
