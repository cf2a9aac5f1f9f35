\* Two threads, three requests or starts, one failing query.
CONSTANTS
  chat = chat
  story = story
  c1 = c1
  c2 = c2
  custom = custom
  tenant = tenant
  other = other
  org = org
  t1 = t1
  t2 = t2
  Threads = {t1, t2}
  Agents = {chat, story}
  RemoteAgents = {story}
  AgentOrder <- MCAgentOrder
  Contents = {c1, c2, custom}
  Default = Default
  Scopes <- MCScopes
  Requests <- MCRequests
  Databases <- MCDatabases
  SeedList <- MCAgentOrder
  Permits <- MCPermits
  ScopeOf <- MCScopeOf
  CacheMax = 2
  MaxActivities = 3
  MaxStarts = 1
  MaxFaults = 1
SPECIFICATION Spec
SYMMETRY Symmetry
INVARIANTS TypeOK  RegistryCurrent NoCrossTenant MembershipOfOneRequest SidebarHonest
PROPERTIES KeepsDefault StartRespectsMode
