\* Two feeds, one of them in the OPML file; two agents and one token; one command
\* after the other next to serve.
SPECIFICATION FairSpec
CONSTANTS
  u1 = u1
  u2 = u2
  a1 = a1
  a2 = a2
  k1 = k1
  c1 = c1
  Urls = {u1, u2}
  Tokens = {k1}
  Agents = {a1, a2}
  Commands = {c1}
  Opml = {u2}
  NoUrl = NoUrl
  MaxChanges = 2
INVARIANTS
  ProbedOnce
  AuditedUnlessKilled
PROPERTIES
  ConfigurationWins
