----------------------------- MODULE FeedControl -----------------------------
(***************************************************************************)
(* The feeds table and everyone who changes it: agents (feed-probe,        *)
(* feed-add, feed-disable: FeedControlService), the commands that start by *)
(* reconciling the configuration file (init, status, sync, import-opml),   *)
(* an OPML import, and serve, which reconciles the configuration when it   *)
(* starts, schedules the feeds enabled then and polls them (FeedScheduler).*)
(*                                                                         *)
(* Every repository method is a transaction of its own, hence an action.   *)
(* Of a feed the model keeps who wrote it last and whether it is enabled:  *)
(* upsert_feed writes name, categories, language and poll interval in the  *)
(* same statement as these two.                                            *)
(***************************************************************************)
EXTENDS Naturals, FiniteSets

CONSTANTS
  Urls,      \* normalized feed URLs
  Tokens,    \* probe tokens (uuid4: never issued twice)
  Agents,    \* feed-add and feed-disable commands
  Commands,  \* init, status, sync and import-opml commands
  Opml,      \* the URLs of the OPML file
  NoUrl,
  MaxChanges \* bound of the model: agents' changes, imports, edits and crashes

ASSUME FeedControlAssumption ==
  /\ Opml \subseteq Urls /\ NoUrl \notin Urls
  /\ Agents \cap Commands = {} /\ MaxChanges \in Nat

VARIABLES
  config,    \* each feed in the configuration file: absent, on or off
  feed,      \* feeds: origin ("none" without a row) and enabled
  token,     \* feed_probe_tokens
  audits,    \* mutation_audit: operation, URL, and which change it records
  agent, command, serve,  \* what the processes have in memory
  polling,   \* the feeds serve is fetching
  spends,    \* ghost: how many feed-adds each token has admitted
  changed,   \* ghost: the agents' committed changes
  killed,    \* ghost: an agent died
  changes

processVars == <<agent, command, serve, polling>>
ghostVars   == <<spends, changed, killed>>
vars == <<config, feed, token, audits, processVars, ghostVars, changes>>

\* What the configuration file says of a feed.
Entries == {"absent", "on", "off"}

FeedRows  == [Urls -> [origin : {"none", "config", "opml", "agent"}, enabled : BOOLEAN]]
TokenRows == [Tokens -> [url : Urls \cup {NoUrl}, state : {"none", "fresh", "spent", "expired"}]]
AgentJobs == [Agents -> [at : {"idle", "upsert", "audit"},
                         op : {"none", "feed.add", "feed.disable"}, url : Urls \cup {NoUrl}]]
CommandJobs == [Commands -> [at : {"idle", "reconcile", "import"},
                             conf : [Urls -> Entries], todo : SUBSET Urls]]
ServeJobs == [at : {"down", "reconcile", "first", "sync", "run"}, conf : [Urls -> Entries],
              todo : SUBSET Urls, scheduled : SUBSET Urls]
AgentChanges == {"feed.add", "feed.disable"} \X Urls

Unknown == [origin |-> "none", enabled |-> FALSE]
NoToken == [url |-> NoUrl, state |-> "none"]
IdleAgent == [at |-> "idle", op |-> "none", url |-> NoUrl]
IdleCommand == [at |-> "idle", conf |-> [u \in Urls |-> "absent"], todo |-> {}]
Down == [at |-> "down", conf |-> [u \in Urls |-> "absent"], todo |-> {}, scheduled |-> {}]

Init ==
  /\ config \in [Urls -> Entries]
  /\ feed = [u \in Urls |-> Unknown]
  /\ token = [k \in Tokens |-> NoToken]
  /\ audits = {} /\ changed = {}
  /\ agent = [a \in Agents |-> IdleAgent]
  /\ command = [c \in Commands |-> IdleCommand]
  /\ serve = Down /\ polling = {}
  /\ spends = [k \in Tokens |-> 0] /\ killed = FALSE
  /\ changes = 0

Bounded == changes < MaxChanges /\ changes' = changes + 1

\* upsert_feed: who comes last decides all of the row.
Upsert(u, origin, enabled) ==
  feed' = [feed EXCEPT ![u] = [origin |-> origin, enabled |-> enabled]]

Exists(u)  == feed[u].origin # "none"
EnabledFeeds == {u \in Urls : Exists(u) /\ feed[u].enabled}
Configured(conf) == {u \in Urls : conf[u] # "absent"}

-----------------------------------------------------------------------------
(* FeedControlService.                                                     *)

\* probe fetches and parses the feed, and writes nothing but the token.
Probe(k, u) ==
  /\ token[k] = NoToken
  /\ token' = [token EXCEPT ![k] = [url |-> u, state |-> "fresh"]]
  /\ UNCHANGED <<config, feed, audits, processVars, ghostVars, changes>>

\* Fifteen minutes later.
Expire(k) ==
  /\ token[k].state = "fresh"
  /\ token' = [token EXCEPT ![k].state = "expired"]
  /\ UNCHANGED <<config, feed, audits, processVars, ghostVars, changes>>

AdmitsAnyUrl(k, u) == token[k].state = "fresh"

\* consume_feed_probe looks and marks in one BEGIN IMMEDIATE transaction.
Admits(k, u) == token[k].url = u /\ token[k].state = "fresh"

\* add, with a token and a URL of the agent's choice.
Consume(a, k, u) ==
  /\ agent[a].at = "idle" /\ Admits(k, u) /\ Bounded
  /\ token' = [token EXCEPT ![k].state = "spent"]
  /\ spends' = [spends EXCEPT ![k] = @ + 1]
  /\ agent' = [agent EXCEPT ![a] = [at |-> "upsert", op |-> "feed.add", url |-> u]]
  /\ UNCHANGED <<config, feed, audits, command, serve, polling, changed, killed>>

AddFeed(a) ==
  /\ agent[a].at = "upsert"
  /\ Upsert(agent[a].url, "agent", TRUE)
  /\ changed' = changed \cup {<<"feed.add", agent[a].url>>}
  /\ agent' = [agent EXCEPT ![a].at = "audit"]
  /\ UNCHANGED <<config, token, audits, command, serve, polling, spends, killed, changes>>

DisableUnaudited(a, u) ==
  /\ agent[a].at = "idle" /\ Exists(u) /\ Bounded
  /\ feed' = [feed EXCEPT ![u].enabled = FALSE]
  /\ changed' = changed \cup {<<"feed.disable", u>>}
  /\ UNCHANGED <<config, token, audits, processVars, spends, killed>>

\* disable: set_feed_enabled.
Disable(a, u) ==
  /\ agent[a].at = "idle" /\ Exists(u) /\ Bounded
  /\ feed' = [feed EXCEPT ![u].enabled = FALSE]
  /\ changed' = changed \cup {<<"feed.disable", u>>}
  /\ agent' = [agent EXCEPT ![a] = [at |-> "audit", op |-> "feed.disable", url |-> u]]
  /\ UNCHANGED <<config, token, audits, command, serve, polling, spends, killed>>

\* record_mutation_audit, the last transaction of add and disable.
Audit(a) ==
  /\ agent[a].at = "audit"
  /\ audits' = audits \cup {<<agent[a].op, agent[a].url>>}
  /\ agent' = [agent EXCEPT ![a] = IdleAgent]
  /\ UNCHANGED <<config, feed, token, command, serve, polling, ghostVars, changes>>

-----------------------------------------------------------------------------
(* Commands that reconcile the configuration first.                        *)

Load(c) ==
  /\ command[c].at = "idle"
  /\ command' = [command EXCEPT ![c] =
       [at |-> "reconcile", conf |-> config, todo |-> Configured(config)]]
  /\ UNCHANGED <<config, feed, token, audits, agent, serve, polling, ghostVars, changes>>

\* The metadata of the configuration is for new feeds only.
UpsertIfNew(conf, u) ==
  IF Exists(u) THEN UNCHANGED feed ELSE Upsert(u, "config", conf[u] = "on")

\* One round of reconcile_config_feeds.
UpsertConfigured(conf, u) == Upsert(u, "config", conf[u] = "on")

Reconcile(c, u) ==
  /\ command[c].at = "reconcile" /\ u \in command[c].todo
  /\ UpsertConfigured(command[c].conf, u)
  /\ command' = [command EXCEPT ![c].todo = @ \ {u}]
  /\ UNCHANGED <<config, token, audits, agent, serve, polling, ghostVars, changes>>

\* import-opml goes on with its file, the others are done with the table.
Reconciled(c) ==
  /\ command[c].at = "reconcile" /\ command[c].todo = {}
  /\ \/ /\ Bounded
        /\ command' = [command EXCEPT ![c].at = "import", ![c].todo = Opml]
     \/ /\ command' = [command EXCEPT ![c] = IdleCommand]
        /\ UNCHANGED changes
  /\ UNCHANGED <<config, feed, token, audits, agent, serve, polling, ghostVars>>

\* One outline of import_opml_file: enabled, whatever it was before.
Import(c, u) ==
  /\ command[c].at = "import" /\ u \in command[c].todo
  /\ Upsert(u, "opml", TRUE)
  /\ command' = [command EXCEPT ![c].todo = @ \ {u}]
  /\ UNCHANGED <<config, token, audits, agent, serve, polling, ghostVars, changes>>

Imported(c) ==
  /\ command[c].at = "import" /\ command[c].todo = {}
  /\ command' = [command EXCEPT ![c] = IdleCommand]
  /\ UNCHANGED <<config, feed, token, audits, agent, serve, polling, ghostVars, changes>>

-----------------------------------------------------------------------------
(* serve: one at a time, by the lock file next to the database.            *)

ServeStep == UNCHANGED <<config, token, audits, agent, command, ghostVars, changes>>

Boot ==
  /\ serve.at = "down"
  /\ serve' = [Down EXCEPT !.at = "reconcile", !.conf = config, !.todo = Configured(config)]
  /\ UNCHANGED <<feed, polling>> /\ ServeStep

ServeReconcile(u) ==
  /\ serve.at = "reconcile" /\ u \in serve.todo
  /\ UpsertConfigured(serve.conf, u)
  /\ serve' = [serve EXCEPT !.todo = @ \ {u}]
  /\ UNCHANGED polling /\ ServeStep

\* schedule: an interval job for every feed that is enabled now.
Schedule ==
  /\ serve.at = "reconcile" /\ serve.todo = {}
  /\ serve' = [serve EXCEPT !.at = "first", !.scheduled = EnabledFeeds]
  /\ UNCHANGED <<feed, polling>> /\ ServeStep

\* run_once reads the table again, once for all the feeds it polls in turn.
FirstList ==
  /\ serve.at = "first"
  /\ serve' = [serve EXCEPT !.at = "sync", !.todo = EnabledFeeds]
  /\ UNCHANGED <<feed, polling>> /\ ServeStep

FirstPoll(u) ==
  /\ serve.at = "sync" /\ u \in serve.todo /\ polling = {}
  /\ serve' = [serve EXCEPT !.todo = @ \ {u}]
  /\ polling' = {u}
  /\ UNCHANGED feed /\ ServeStep

FirstDone ==
  /\ serve.at = "sync" /\ serve.todo = {} /\ polling = {}
  /\ serve' = [serve EXCEPT !.at = "run"]
  /\ UNCHANGED <<feed, polling>> /\ ServeStep

\* _sync_url asks again whether the feed is there and enabled.
StillEnabled(u) == Exists(u) /\ feed[u].enabled

\* A job of the scheduler.  It never overlaps itself.
Poll(u) ==
  /\ serve.at = "run" /\ u \in serve.scheduled \ polling
  /\ StillEnabled(u)
  /\ polling' = polling \cup {u}
  /\ UNCHANGED <<feed, serve>> /\ ServeStep

PollEnds(u) ==
  /\ u \in polling
  /\ polling' = polling \ {u}
  /\ UNCHANGED <<feed, serve>> /\ ServeStep

-----------------------------------------------------------------------------
(* Environment.                                                            *)

EditConfig(u, entry) ==
  /\ entry # config[u] /\ Bounded
  /\ config' = [config EXCEPT ![u] = entry]
  /\ UNCHANGED <<feed, token, audits, processVars, ghostVars>>

KillAgent(a) ==
  /\ agent[a].at # "idle" /\ Bounded
  /\ agent' = [agent EXCEPT ![a] = IdleAgent]
  /\ killed' = TRUE
  /\ UNCHANGED <<config, feed, token, audits, command, serve, polling, spends, changed>>

KillCommand(c) ==
  /\ command[c].at # "idle" /\ Bounded
  /\ command' = [command EXCEPT ![c] = IdleCommand]
  /\ UNCHANGED <<config, feed, token, audits, agent, serve, polling, ghostVars>>

Stop ==
  /\ serve.at # "down" /\ Bounded
  /\ serve' = Down /\ polling' = {}
  /\ UNCHANGED <<config, feed, token, audits, agent, command, ghostVars>>

-----------------------------------------------------------------------------

ServeNext ==
  \/ Boot \/ Schedule \/ FirstList \/ FirstDone
  \/ \E u \in Urls : ServeReconcile(u) \/ FirstPoll(u) \/ PollEnds(u)

CommandNext(c) ==
  \/ Reconciled(c) \/ Imported(c)
  \/ \E u \in Urls : Reconcile(c, u) \/ Import(c, u)

AgentNext(a) == AddFeed(a) \/ Audit(a)

Next ==
  \/ \E k \in Tokens : Expire(k) \/ \E u \in Urls : Probe(k, u)
  \/ \E a \in Agents :
       \/ AgentNext(a) \/ KillAgent(a)
       \/ \E u \in Urls : Disable(a, u) \/ \E k \in Tokens : Consume(a, k, u)
  \/ \E c \in Commands : Load(c) \/ CommandNext(c) \/ KillCommand(c)
  \/ ServeNext \/ Stop
  \/ \E u \in Urls : Poll(u)
  \/ \E u \in Urls, entry \in Entries : EditConfig(u, entry)

Spec == Init /\ [][Next]_vars

\* Commands that were started go on to their end, and serve is started again by
\* systemd.  Nobody has to start a command.
FairSpec ==
  /\ Spec
  /\ \A a \in Agents : WF_vars(AgentNext(a))
  /\ \A c \in Commands : WF_vars(CommandNext(c))
  /\ WF_vars(ServeNext)

-----------------------------------------------------------------------------
(* Properties.                                                             *)

TypeOK ==
  /\ config \in [Urls -> Entries]
  /\ feed \in FeedRows /\ token \in TokenRows
  /\ agent \in AgentJobs /\ command \in CommandJobs /\ serve \in ServeJobs
  /\ polling \in SUBSET Urls
  /\ audits \in SUBSET AgentChanges /\ changed \in SUBSET AgentChanges
  /\ spends \in [Tokens -> Nat] /\ killed \in BOOLEAN /\ changes \in Nat

\* A token admits one feed-add at most, however many agents present it, and a
\* feed that agents added is one that was probed with a token spent on it.
ProbedOnce ==
  /\ \A k \in Tokens : spends[k] <= 1
  /\ \A u \in Urls : feed[u].origin = "agent" =>
       \E k \in Tokens : token[k].url = u /\ token[k].state = "spent"

\* Every change an agent committed is in the audit log or about to be, unless
\* an agent died between the change and its record: they are two transactions.
AuditedUnlessKilled ==
  killed \/ \A change \in changed :
    \/ change \in audits
    \/ \E a \in Agents : agent[a].at = "audit" /\ <<agent[a].op, agent[a].url>> = change

\* Whatever agents, imports and older commands wrote, the configuration file
\* decides in the end about the feeds it lists, also that a feed an agent
\* disabled is enabled again, as long as commands that read it are run.
ConfigurationWins ==
  []<>(\E c \in Commands : command[c].at = "reconcile")
    => <>[](\A u \in Configured(config) :
              feed[u] = [origin |-> "config", enabled |-> config[u] = "on"])

=============================================================================
