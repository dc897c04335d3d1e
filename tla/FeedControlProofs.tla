-------------------------- MODULE FeedControlProofs --------------------------
(***************************************************************************)
(* Proofs about FeedControl, for every set of feeds, tokens, agents and    *)
(* commands.  TypeCorrect first; the other two theorems take it as known   *)
(* and strengthen their invariant by what an agent is about to do between  *)
(* its transactions.                                                       *)
(***************************************************************************)
EXTENDS FeedControl, TLAPS

USE DEF processVars, ghostVars, Bounded

\* An agent at work knows its operation and its feed.
AtWork == \A a \in Agents : agent[a].at # "idle" =>
  /\ agent[a].url \in Urls
  /\ agent[a].op \in {"feed.add", "feed.disable"}
  /\ agent[a].at = "upsert" => agent[a].op = "feed.add"

TypeInv == TypeOK /\ AtWork

\* An upsert keeps the feeds table well formed.
LEMMA UpsertType ==
  ASSUME TypeOK, NEW u \in Urls, NEW origin \in {"config", "opml", "agent"},
         NEW enabled \in BOOLEAN, Upsert(u, origin, enabled)
  PROVE  feed' \in FeedRows
  BY DEF TypeOK, Upsert, FeedRows

LEMMA InitType == Init => TypeInv
<1> SUFFICES ASSUME Init PROVE TypeOK /\ AtWork
  BY DEF TypeInv
<1>1. feed \in FeedRows /\ token \in TokenRows /\ agent \in AgentJobs
  BY DEF Init, FeedRows, TokenRows, AgentJobs, Unknown, NoToken, IdleAgent
<1>2. command \in CommandJobs /\ serve \in ServeJobs
  BY DEF Init, CommandJobs, ServeJobs, IdleCommand, Down, Entries
<1>3. TypeOK
  BY <1>1, <1>2 DEF Init, TypeOK
<1>4. AtWork
  BY DEF Init, AtWork, IdleAgent
<1> QED
  BY <1>3, <1>4

\* The steps of agents (FeedControlService).
LEMMA AgentType ==
  ASSUME TypeOK, AtWork, NEW a \in Agents,
         \/ AddFeed(a) \/ Audit(a) \/ KillAgent(a)
         \/ \E u \in Urls : Disable(a, u)
         \/ \E u \in Urls, k \in Tokens : Consume(a, k, u)
  PROVE  TypeOK' /\ AtWork'
<1>1. ASSUME NEW u \in Urls, NEW k \in Tokens, Consume(a, k, u)
      PROVE  TypeOK' /\ AtWork'
  <2>1. token' \in TokenRows
    BY <1>1 DEF Consume, TypeOK, TokenRows
  <2>2. agent' \in AgentJobs
    BY <1>1 DEF Consume, TypeOK, AgentJobs
  <2>3. spends' \in [Tokens -> Nat] /\ changes' \in Nat
    BY <1>1 DEF Consume, TypeOK
  <2>4. TypeOK'
    BY <1>1, <2>1, <2>2, <2>3 DEF Consume, TypeOK
  <2>5. AtWork'
    BY <1>1 DEF Consume, AtWork, TypeOK, AgentJobs
  <2> QED
    BY <2>4, <2>5
<1>2. CASE AddFeed(a)
  <2>1. agent[a].url \in Urls
    BY <1>2 DEF AddFeed, AtWork
  <2>2. feed' \in FeedRows
    BY <1>2, <2>1, UpsertType DEF AddFeed
  <2>3. agent' \in AgentJobs
    BY <1>2 DEF AddFeed, TypeOK, AgentJobs
  <2>4. changed' \in SUBSET AgentChanges
    BY <1>2, <2>1 DEF AddFeed, TypeOK, AgentChanges
  <2>5. TypeOK'
    BY <1>2, <2>2, <2>3, <2>4 DEF AddFeed, TypeOK
  <2>6. AtWork'
    BY <1>2 DEF AddFeed, AtWork, TypeOK, AgentJobs
  <2> QED
    BY <2>5, <2>6
<1>3. ASSUME NEW u \in Urls, Disable(a, u) PROVE TypeOK' /\ AtWork'
  <2>1. feed' \in FeedRows
    BY <1>3 DEF Disable, TypeOK, FeedRows
  <2>2. agent' \in AgentJobs
    BY <1>3 DEF Disable, TypeOK, AgentJobs
  <2>3. changed' \in SUBSET AgentChanges
    BY <1>3 DEF Disable, TypeOK, AgentChanges
  <2>4. TypeOK'
    BY <1>3, <2>1, <2>2, <2>3 DEF Disable, TypeOK
  <2>5. AtWork'
    BY <1>3 DEF Disable, AtWork, TypeOK, AgentJobs
  <2> QED
    BY <2>4, <2>5
<1>4. CASE Audit(a)
  <2>1. audits' \in SUBSET AgentChanges
    BY <1>4 DEF Audit, AtWork, TypeOK, AgentChanges
  <2>2. agent' \in AgentJobs
    BY <1>4 DEF Audit, TypeOK, AgentJobs, IdleAgent
  <2>3. TypeOK'
    BY <1>4, <2>1, <2>2 DEF Audit, TypeOK
  <2>4. AtWork'
    BY <1>4 DEF Audit, AtWork, TypeOK, AgentJobs, IdleAgent
  <2> QED
    BY <2>3, <2>4
<1>5. CASE KillAgent(a)
  <2>1. agent' \in AgentJobs
    BY <1>5 DEF KillAgent, TypeOK, AgentJobs, IdleAgent
  <2>2. TypeOK'
    BY <1>5, <2>1 DEF KillAgent, TypeOK
  <2>3. AtWork'
    BY <1>5 DEF KillAgent, AtWork, TypeOK, AgentJobs, IdleAgent
  <2> QED
    BY <2>2, <2>3
<1> QED
  BY <1>1, <1>2, <1>3, <1>4, <1>5

\* The steps of the commands that read the configuration file.
LEMMA CommandType ==
  ASSUME TypeOK, NEW c \in Commands, Load(c) \/ CommandNext(c) \/ KillCommand(c)
  PROVE  TypeOK'
<1>1. CASE Load(c)
  <2>1. command' \in CommandJobs
    BY <1>1 DEF Load, TypeOK, Configured, CommandJobs
  <2> QED
    BY <1>1, <2>1 DEF Load, TypeOK
<1>2. ASSUME NEW u \in Urls, Reconcile(c, u) PROVE TypeOK'
  <2>1. feed' \in FeedRows
    BY <1>2, UpsertType DEF Reconcile, UpsertConfigured
  <2>2. command' \in CommandJobs
    BY <1>2 DEF Reconcile, TypeOK, CommandJobs
  <2> QED
    BY <1>2, <2>1, <2>2 DEF Reconcile, TypeOK
<1>3. CASE Reconciled(c)
  <2>1. [command EXCEPT ![c].at = "import", ![c].todo = Opml] \in CommandJobs
    BY FeedControlAssumption DEF TypeOK, CommandJobs
  <2>2. [command EXCEPT ![c] = IdleCommand] \in CommandJobs
    BY DEF TypeOK, CommandJobs, IdleCommand, Entries
  <2>3. \/ command' = [command EXCEPT ![c].at = "import", ![c].todo = Opml]
        \/ command' = [command EXCEPT ![c] = IdleCommand]
    BY <1>3 DEF Reconciled
  <2>4. changes' \in Nat
    BY <1>3 DEF Reconciled, TypeOK
  <2> QED
    BY <1>3, <2>1, <2>2, <2>3, <2>4 DEF Reconciled, TypeOK
<1>4. ASSUME NEW u \in Urls, Import(c, u) PROVE TypeOK'
  <2>1. feed' \in FeedRows
    BY <1>4, UpsertType DEF Import
  <2>2. command' \in CommandJobs
    BY <1>4 DEF Import, TypeOK, CommandJobs
  <2> QED
    BY <1>4, <2>1, <2>2 DEF Import, TypeOK
<1>5. ASSUME Imported(c) \/ KillCommand(c) PROVE TypeOK'
  <2>1. command' \in CommandJobs
    BY <1>5 DEF Imported, KillCommand, TypeOK, CommandJobs, IdleCommand, Entries
  <2>2. changes' \in Nat
    BY <1>5 DEF Imported, KillCommand, TypeOK
  <2> QED
    BY <1>5, <2>1, <2>2 DEF Imported, KillCommand, TypeOK
<1> QED
  BY <1>1, <1>2, <1>3, <1>4, <1>5 DEF CommandNext

\* The steps of serve.
LEMMA ServeType ==
  ASSUME TypeOK, ServeNext \/ Stop \/ \E u \in Urls : Poll(u)
  PROVE  TypeOK'
<1> USE DEF ServeStep
<1>1. ASSUME Boot \/ Schedule \/ FirstList \/ FirstDone \/ Stop PROVE TypeOK'
  <2>1. Down \in ServeJobs
    BY DEF Down, ServeJobs, Entries
  <2>2. serve' \in ServeJobs /\ polling' \in SUBSET Urls
    BY <1>1, <2>1 DEF Boot, Schedule, FirstList, FirstDone, Stop, TypeOK, ServeJobs, Down,
                      Configured, EnabledFeeds
  <2>3. changes' \in Nat
    BY <1>1 DEF Boot, Schedule, FirstList, FirstDone, Stop, TypeOK
  <2> QED
    BY <1>1, <2>2, <2>3 DEF Boot, Schedule, FirstList, FirstDone, Stop, TypeOK
<1>2. ASSUME NEW u \in Urls, ServeReconcile(u) PROVE TypeOK'
  <2>1. feed' \in FeedRows
    BY <1>2, UpsertType DEF ServeReconcile, UpsertConfigured
  <2>2. serve' \in ServeJobs
    BY <1>2 DEF ServeReconcile, TypeOK, ServeJobs
  <2> QED
    BY <1>2, <2>1, <2>2 DEF ServeReconcile, TypeOK
<1>3. ASSUME NEW u \in Urls, FirstPoll(u) \/ PollEnds(u) \/ Poll(u) PROVE TypeOK'
  <2>1. serve' \in ServeJobs /\ polling' \in SUBSET Urls
    BY <1>3 DEF FirstPoll, PollEnds, Poll, TypeOK, ServeJobs
  <2> QED
    BY <1>3, <2>1 DEF FirstPoll, PollEnds, Poll, TypeOK
<1> QED
  BY <1>1, <1>2, <1>3 DEF ServeNext

\* No step of another process touches what agents have in memory or left behind.
OtherStep ==
  \/ ServeNext \/ Stop \/ \E u \in Urls : Poll(u)
  \/ \E c \in Commands : Load(c) \/ CommandNext(c) \/ KillCommand(c)
  \/ \E u \in Urls, entry \in Entries : EditConfig(u, entry)
  \/ \E k \in Tokens : Expire(k) \/ \E u \in Urls : Probe(k, u)

LEMMA OthersLeaveAgents == OtherStep => UNCHANGED <<agent, audits, changed, spends, killed>>
  BY DEF OtherStep, ServeNext, Stop, Poll, Boot, Schedule, FirstList, FirstDone, ServeReconcile,
         FirstPoll, PollEnds, ServeStep, Load, CommandNext, KillCommand, Reconcile, Reconciled,
         Import, Imported, EditConfig, Expire, Probe

LEMMA NextSplit ==
  Next => \/ OtherStep
          \/ \E a \in Agents : AddFeed(a) \/ Audit(a) \/ KillAgent(a)
          \/ \E a \in Agents, u \in Urls : Disable(a, u)
          \/ \E a \in Agents, u \in Urls, k \in Tokens : Consume(a, k, u)
  BY DEF Next, AgentNext, OtherStep

LEMMA OtherType ==
  ASSUME TypeOK, AtWork, OtherStep
  PROVE  TypeOK' /\ AtWork'
<1>1. AtWork'
  BY OthersLeaveAgents DEF AtWork
<1>2. ASSUME NEW u \in Urls, NEW entry \in Entries, EditConfig(u, entry) PROVE TypeOK'
  <2>1. config' \in [Urls -> Entries] /\ changes' \in Nat
    BY <1>2 DEF EditConfig, TypeOK
  <2> QED
    BY <1>2, <2>1 DEF EditConfig, TypeOK
<1>3. ASSUME NEW k \in Tokens, NEW u \in Urls, Probe(k, u) PROVE TypeOK'
  <2>1. token' \in TokenRows
    BY <1>3 DEF Probe, TypeOK, TokenRows
  <2> QED
    BY <1>3, <2>1 DEF Probe, TypeOK
<1>4. ASSUME NEW k \in Tokens, Expire(k) PROVE TypeOK'
  <2>1. token' \in TokenRows
    BY <1>4 DEF Expire, TypeOK, TokenRows
  <2> QED
    BY <1>4, <2>1 DEF Expire, TypeOK
<1> QED
  BY <1>1, <1>2, <1>3, <1>4, CommandType, ServeType DEF OtherStep

LEMMA StepType == TypeInv /\ [Next]_vars => TypeInv'
<1> SUFFICES ASSUME TypeOK, AtWork, [Next]_vars PROVE TypeOK' /\ AtWork'
  BY DEF TypeInv
<1>1. CASE OtherStep
  BY <1>1, OtherType
<1>2. ASSUME NEW a \in Agents,
             \/ AddFeed(a) \/ Audit(a) \/ KillAgent(a)
             \/ \E u \in Urls : Disable(a, u)
             \/ \E u \in Urls, k \in Tokens : Consume(a, k, u)
      PROVE  TypeOK' /\ AtWork'
  BY <1>2, AgentType
<1>3. CASE UNCHANGED vars
  BY <1>3 DEF vars, TypeOK, AtWork
<1> QED
  BY <1>1, <1>2, <1>3, NextSplit

\* Every reachable state is well formed: what the processes remember of a feed or
\* of the configuration file is always one of them.
THEOREM TypeCorrect == Spec => []TypeOK
<1>1. TypeInv => TypeOK
  BY DEF TypeInv
<1> QED
  BY <1>1, InitType, StepType, PTL DEF Spec

-----------------------------------------------------------------------------
(* Probe tokens.                                                           *)

\* A token was spent on this feed.
Spent(u) == \E k \in Tokens : token[k].url = u /\ token[k].state = "spent"

\* The strengthening of ProbedOnce: a spent token is counted once and no other
\* one is, and an agent that goes on to its upsert has spent one.
Probed ==
  /\ \A k \in Tokens : spends[k] = IF token[k].state = "spent" THEN 1 ELSE 0
  /\ \A a \in Agents : agent[a].at = "upsert" => Spent(agent[a].url)
  /\ \A u \in Urls : feed[u].origin = "agent" => Spent(u)

\* A spent token stays what it is.
LEMMA SpentForever ==
  ASSUME TypeOK, [Next]_vars, NEW k \in Tokens, token[k].state = "spent"
  PROVE  token'[k] = token[k]
<1>1. ASSUME NEW kk \in Tokens, Expire(kk) \/ \E u \in Urls : Probe(kk, u)
      PROVE  token'[k] = token[k]
  BY <1>1 DEF Expire, Probe, NoToken, TypeOK, TokenRows
<1>2. ASSUME NEW a \in Agents, NEW u \in Urls, NEW kk \in Tokens, Consume(a, kk, u)
      PROVE  token'[k] = token[k]
  BY <1>2 DEF Consume, Admits, TypeOK, TokenRows
<1>3. ASSUME \/ ServeNext \/ Stop \/ \E u \in Urls : Poll(u)
             \/ \E c \in Commands : Load(c) \/ CommandNext(c) \/ KillCommand(c)
             \/ \E u \in Urls, entry \in Entries : EditConfig(u, entry)
             \/ \E a \in Agents : AddFeed(a) \/ Audit(a) \/ KillAgent(a)
             \/ \E a \in Agents, u \in Urls : Disable(a, u)
      PROVE  token'[k] = token[k]
  BY <1>3
  DEF ServeNext, Stop, Poll, Boot, Schedule, FirstList, FirstDone, ServeReconcile, FirstPoll,
      PollEnds, ServeStep, Load, CommandNext, KillCommand, Reconcile, Reconciled, Import,
      Imported, EditConfig, AddFeed, Audit, KillAgent, Disable
<1>4. CASE UNCHANGED vars
  BY <1>4 DEF vars
<1> QED
  BY <1>1, <1>2, <1>3, <1>4, NextSplit DEF OtherStep

\* Only AddFeed writes a row that says an agent added it.
LEMMA AgentRows ==
  ASSUME TypeOK, [Next]_vars, NEW u \in Urls, feed'[u].origin = "agent"
  PROVE  \/ feed[u].origin = "agent"
         \/ \E a \in Agents : agent[a].at = "upsert" /\ agent[a].url = u
<1>1. ASSUME NEW origin \in {"config", "opml"}, NEW v \in Urls, NEW enabled, Upsert(v, origin, enabled)
      PROVE  feed[u].origin = "agent"
  BY <1>1 DEF Upsert, TypeOK, FeedRows
<1>2. ASSUME NEW v \in Urls, NEW c \in Commands, Reconcile(c, v) \/ Import(c, v)
      PROVE  feed[u].origin = "agent"
  BY <1>1, <1>2 DEF Reconcile, Import, UpsertConfigured
<1>3. ASSUME NEW v \in Urls, ServeReconcile(v) PROVE feed[u].origin = "agent"
  BY <1>1, <1>3 DEF ServeReconcile, UpsertConfigured
<1>4. ASSUME NEW a \in Agents, AddFeed(a)
      PROVE  \/ feed[u].origin = "agent"
             \/ agent[a].at = "upsert" /\ agent[a].url = u
  <2>1. CASE agent[a].url = u
    BY <1>4, <2>1 DEF AddFeed
  <2>2. CASE agent[a].url # u
    BY <1>4, <2>2 DEF AddFeed, Upsert, TypeOK, FeedRows
  <2> QED
    BY <2>1, <2>2
<1>5. ASSUME NEW a \in Agents, NEW v \in Urls, Disable(a, v) PROVE feed[u].origin = "agent"
  BY <1>5 DEF Disable, TypeOK, FeedRows
<1>6. ASSUME \/ Boot \/ Schedule \/ FirstList \/ FirstDone \/ Stop
             \/ \E v \in Urls : FirstPoll(v) \/ PollEnds(v) \/ Poll(v)
             \/ \E c \in Commands : Load(c) \/ Reconciled(c) \/ Imported(c) \/ KillCommand(c)
             \/ \E v \in Urls, entry \in Entries : EditConfig(v, entry)
             \/ \E k \in Tokens : Expire(k) \/ \E v \in Urls : Probe(k, v)
             \/ \E a \in Agents : Audit(a) \/ KillAgent(a)
             \/ \E a \in Agents, v \in Urls, k \in Tokens : Consume(a, k, v)
             \/ UNCHANGED vars
      PROVE  feed' = feed
  BY <1>6
  DEF Boot, Schedule, FirstList, FirstDone, Stop, FirstPoll, PollEnds, Poll, ServeStep, Load,
      Reconciled, Imported, KillCommand, EditConfig, Expire, Probe, Audit, KillAgent, Consume, vars
<1> QED
  BY <1>2, <1>3, <1>4, <1>5, <1>6, NextSplit DEF OtherStep, ServeNext, CommandNext

\* An agent gets to its upsert by a token it consumes, and nobody else moves it.
LEMMA AgentUpserts ==
  ASSUME TypeOK, [Next]_vars, NEW a \in Agents, agent'[a].at = "upsert"
  PROVE  \/ agent[a].at = "upsert" /\ agent'[a].url = agent[a].url
         \/ Spent(agent[a].url)'
<1>1. ASSUME NEW b \in Agents, NEW u \in Urls, NEW k \in Tokens, Consume(b, k, u)
      PROVE  agent'[a] = agent[a] \/ Spent(agent[a].url)'
  <2>1. token'[k].url = u /\ token'[k].state = "spent"
    BY <1>1 DEF Consume, Admits, TypeOK, TokenRows
  <2>2. agent'[a] = agent[a] \/ agent'[a].url = u
    BY <1>1 DEF Consume, TypeOK, AgentJobs
  <2> QED
    BY <2>1, <2>2 DEF Spent
<1>2. ASSUME NEW b \in Agents, AddFeed(b)
      PROVE  agent'[a] = agent[a]
  BY <1>2 DEF AddFeed, TypeOK, AgentJobs
<1>3. ASSUME NEW b \in Agents, Audit(b) \/ KillAgent(b) \/ \E u \in Urls : Disable(b, u)
      PROVE  agent'[a] = agent[a]
  BY <1>3 DEF Audit, KillAgent, Disable, IdleAgent, TypeOK, AgentJobs
<1>4. CASE OtherStep \/ UNCHANGED vars
  BY <1>4, OthersLeaveAgents DEF vars
<1> QED
  BY <1>1, <1>2, <1>3, <1>4, NextSplit

\* Only consuming a token counts it, and only fresh ones are consumed.
LEMMA SpendsCounted ==
  ASSUME TypeOK, [Next]_vars, NEW k \in Tokens,
         spends[k] = IF token[k].state = "spent" THEN 1 ELSE 0
  PROVE  spends'[k] = IF token'[k].state = "spent" THEN 1 ELSE 0
<1>1. ASSUME NEW a \in Agents, NEW u \in Urls, NEW kk \in Tokens, Consume(a, kk, u)
      PROVE  spends'[k] = IF token'[k].state = "spent" THEN 1 ELSE 0
  BY <1>1 DEF Consume, Admits, TypeOK, TokenRows
<1>2. ASSUME NEW kk \in Tokens, Expire(kk) \/ \E u \in Urls : Probe(kk, u)
      PROVE  spends' = spends /\ (token'[k].state = "spent" <=> token[k].state = "spent")
  BY <1>2 DEF Expire, Probe, NoToken, TypeOK, TokenRows
<1>3. ASSUME \/ ServeNext \/ Stop \/ \E u \in Urls : Poll(u)
             \/ \E c \in Commands : Load(c) \/ CommandNext(c) \/ KillCommand(c)
             \/ \E u \in Urls, entry \in Entries : EditConfig(u, entry)
             \/ \E a \in Agents : AddFeed(a) \/ Audit(a) \/ KillAgent(a)
             \/ \E a \in Agents, u \in Urls : Disable(a, u)
             \/ UNCHANGED vars
      PROVE  spends' = spends /\ token' = token
  BY <1>3
  DEF ServeNext, Stop, Poll, Boot, Schedule, FirstList, FirstDone, ServeReconcile, FirstPoll,
      PollEnds, ServeStep, Load, CommandNext, KillCommand, Reconcile, Reconciled, Import,
      Imported, EditConfig, AddFeed, Audit, KillAgent, Disable, vars
<1> QED
  BY <1>1, <1>2, <1>3, NextSplit DEF OtherStep

\* However many agents present a token, it admits one feed-add, and every feed that
\* was last written by an agent was probed (consume_feed_probe, add).
THEOREM ProbedOnceAlways == Spec => []ProbedOnce
<1>1. Init => Probed
  BY DEF Init, Probed, NoToken, IdleAgent, Unknown
<1>2. TypeOK /\ Probed /\ [Next]_vars => Probed'
  <2> SUFFICES ASSUME TypeOK, Probed, [Next]_vars PROVE Probed'
    OBVIOUS
  <2>1. \A u : Spent(u) => Spent(u)'
    BY SpentForever DEF Spent
  <2>2. \A k \in Tokens : spends'[k] = IF token'[k].state = "spent" THEN 1 ELSE 0
    BY SpendsCounted DEF Probed
  <2>3. ASSUME NEW a \in Agents, agent'[a].at = "upsert" PROVE Spent(agent[a].url)'
    BY <2>1, <2>3, AgentUpserts DEF Probed
  <2>4. ASSUME NEW u \in Urls, feed'[u].origin = "agent" PROVE Spent(u)'
    BY <2>1, <2>4, AgentRows DEF Probed
  <2> QED
    BY <2>2, <2>3, <2>4 DEF Probed
<1>3. Probed => ProbedOnce
  BY DEF Probed, ProbedOnce, Spent
<1> QED
  BY <1>1, <1>2, <1>3, TypeCorrect, PTL DEF Spec

-----------------------------------------------------------------------------
(* The audit log.                                                          *)

\* Nobody dies.
LEMMA NobodyDied ==
  ASSUME [Next]_vars, ~killed'
  PROVE  ~killed /\ \A a \in Agents : ~KillAgent(a)
<1>1. killed => killed'
  <2>1. \A a \in Agents : KillAgent(a) => killed'
    BY DEF KillAgent
  <2>2. \A a \in Agents : AddFeed(a) \/ Audit(a) => killed' = killed
    BY DEF AddFeed, Audit
  <2>3. \A a \in Agents, u \in Urls : Disable(a, u) => killed' = killed
    BY DEF Disable
  <2>4. \A a \in Agents, u \in Urls, k \in Tokens : Consume(a, k, u) => killed' = killed
    BY DEF Consume
  <2>5. UNCHANGED vars => killed' = killed
    BY DEF vars
  <2> QED
    BY <2>1, <2>2, <2>3, <2>4, <2>5, NextSplit, OthersLeaveAgents
<1> QED
  BY <1>1 DEF KillAgent

\* A change an agent committed is recorded, or its agent is about to record it:
\* nobody else writes over what the agent remembers (FeedControlService.add and
\* disable, whose last transaction is record_mutation_audit).
THEOREM AuditedUnlessKilledAlways == Spec => []AuditedUnlessKilled
<1> DEFINE Covered(change) ==
      \/ change \in audits
      \/ \E a \in Agents : agent[a].at = "audit" /\ <<agent[a].op, agent[a].url>> = change
<1>1. Init => AuditedUnlessKilled
  BY DEF Init, AuditedUnlessKilled
<1>2. TypeInv /\ AuditedUnlessKilled /\ [Next]_vars => AuditedUnlessKilled'
  <2> SUFFICES ASSUME TypeOK, AtWork, AuditedUnlessKilled, [Next]_vars, ~killed',
                      NEW change \in changed'
               PROVE  Covered(change)'
    BY DEF TypeInv, AuditedUnlessKilled
  <2>1. ~killed /\ \A a \in Agents : ~KillAgent(a)
    BY NobodyDied
  <2>2. \A c \in changed : Covered(c)
    BY <2>1 DEF AuditedUnlessKilled
  <2>3. ASSUME NEW a \in Agents, NEW u \in Urls, NEW k \in Tokens, Consume(a, k, u)
        PROVE  Covered(change)'
    <3>1. \A b \in Agents : agent[b].at = "audit" => agent'[b] = agent[b]
      BY <2>3 DEF Consume, TypeOK, AgentJobs
    <3> QED
      BY <2>2, <2>3, <3>1 DEF Consume
  <2>4. ASSUME NEW a \in Agents, AddFeed(a) PROVE Covered(change)'
    <3>1. \A b \in Agents : agent[b].at = "audit" => agent'[b] = agent[b]
      BY <2>4 DEF AddFeed, TypeOK, AgentJobs
    <3>2. /\ agent'[a].at = "audit"
          /\ <<agent'[a].op, agent'[a].url>> = <<"feed.add", agent[a].url>>
      BY <2>4 DEF AddFeed, AtWork, TypeOK, AgentJobs
    <3>3. audits' = audits /\ changed' = changed \cup {<<"feed.add", agent[a].url>>}
      BY <2>4 DEF AddFeed
    <3> QED
      BY <2>2, <3>1, <3>2, <3>3
  <2>5. ASSUME NEW a \in Agents, NEW u \in Urls, Disable(a, u) PROVE Covered(change)'
    <3>1. \A b \in Agents : agent[b].at = "audit" => agent'[b] = agent[b]
      BY <2>5 DEF Disable, TypeOK, AgentJobs
    <3>2. agent'[a].at = "audit" /\ <<agent'[a].op, agent'[a].url>> = <<"feed.disable", u>>
      BY <2>5 DEF Disable, TypeOK, AgentJobs
    <3>3. audits' = audits /\ changed' = changed \cup {<<"feed.disable", u>>}
      BY <2>5 DEF Disable
    <3> QED
      BY <2>2, <3>1, <3>2, <3>3
  <2>6. ASSUME NEW a \in Agents, Audit(a) PROVE Covered(change)'
    <3>1. \A b \in Agents \ {a} : agent'[b] = agent[b]
      BY <2>6 DEF Audit, TypeOK, AgentJobs
    <3>2. audits' = audits \cup {<<agent[a].op, agent[a].url>>} /\ changed' = changed
      BY <2>6 DEF Audit
    <3> QED
      BY <2>2, <3>1, <3>2
  <2>7. CASE OtherStep \/ UNCHANGED vars
    <3>1. UNCHANGED <<agent, audits, changed>>
      BY <2>7, OthersLeaveAgents DEF vars
    <3> QED
      BY <2>2, <3>1
  <2> QED
    BY <2>1, <2>3, <2>4, <2>5, <2>6, <2>7, NextSplit
<1> QED
  BY <1>1, <1>2, InitType, StepType, PTL DEF Spec

=============================================================================
