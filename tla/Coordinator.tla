----------------------------- MODULE Coordinator -----------------------------
(***************************************************************************)
(* Which editions exist, of which topic version and for which date: the    *)
(* deadline-run that a timer starts every minute (DeadlineCoordinator),    *)
(* the operator's edition-build and dry runs, the agents' topic-apply, and *)
(* the configuration file, which is edited under them.                     *)
(*                                                                         *)
(* A topic version's content is a member of Contents; what the schedule    *)
(* reads of it (time zone, deadline, preparation, enabled) are functions   *)
(* of it.  Instants count the ticks of UTC, a day has DayLength of them.   *)
(* What happens inside a build is EditionBuild's subject: here an edition  *)
(* is open until it is queued, and a build of it may raise.                *)
(***************************************************************************)
EXTENDS Integers, Sequences, FiniteSetsExt

CONSTANTS
  Order,       \* config.topics, in the order of the file (a sequence)
  Contents,    \* what a version of a topic may say
  NoContent,   \* no such version is stored
  Offset, Deadline, Preparation, Enabled,  \* of each content
  DayLength,
  MaxVersion,
  Overrides,   \* what operators pass as --deadline-at
  Runs,        \* deadline-run processes
  Hands,       \* edition-build and deadline-run --dry-run processes
  FirstConfig, \* the configuration the system starts with
  Horizon, MaxInterventions  \* bounds of the model

Topics   == {Order[i] : i \in DOMAIN Order}
Versions == 1..MaxVersion
Instants == 0..Horizon
Items    == [version : Versions, content : Contents]
Jobs     == Runs \cup Hands

LocalDay(c, instant) == (instant + Offset[c]) \div DayLength

Days == {LocalDay(c, instant) : c \in Contents, instant \in Instants}

DeadlineUnshifted(c, day) == day * DayLength + Deadline[c]

\* The UTC instant of a local deadline.
DeadlineAt(c, day) == day * DayLength + Deadline[c] - Offset[c]

\* What edition-build may give an edition as its deadline: --deadline-at, or the
\* deadline of the topic.
EditionSchedule(c, day) == Overrides \cup {DeadlineAt(c, day)}

Opens(c, day) == DeadlineAt(c, day) - Preparation[c]

ASSUME CoordinatorAssumption ==
  /\ Len(Order) \in Nat \ {0} /\ DOMAIN Order = 1..Len(Order)
  /\ \A i, j \in DOMAIN Order : Order[i] = Order[j] => i = j
  /\ NoContent \notin Contents
  /\ DayLength \in Nat \ {0} /\ MaxVersion \in Nat \ {0} /\ Horizon \in Nat
  /\ Offset \in [Contents -> Int] /\ Deadline \in [Contents -> Nat]
  /\ Preparation \in [Contents -> Nat] /\ Enabled \in [Contents -> BOOLEAN]
  /\ \A c \in Contents : Deadline[c] < DayLength
  /\ Overrides \subseteq Int
  /\ Runs \cap Hands = {}
  /\ FirstConfig \in [Topics -> Items]

VARIABLES
  config,    \* the topics of the configuration file
  profiles,  \* topic_profiles: the content of each version
  editions,  \* edition_runs, by topic, version and local date
  broken,    \* editions whose build raises whenever it is tried
  audits,    \* the versions mutation_audit has a record of
  now,
  job,       \* what each process has in memory
  agent,     \* the topic-apply command at work
  interventions, \* what operators, agents and failures did so far
  verdict    \* history: what the last dry run said of a topic as it is configured

store == <<profiles, editions, audits>>
vars == <<config, store, broken, now, job, agent, interventions, verdict>>

Absent == [status |-> "none", deadline |-> 0]
Idle == [at |-> "idle", started |-> 0, conf |-> FirstConfig, next |-> 1,
         key |-> <<Order[1], 1, 0>>, deadline |-> 0]
Keys == Topics \X Versions \X Days

ProfileRows == [Topics -> [Versions -> Contents \cup {NoContent}]]
EditionRows == [Keys -> [status : {"none", "open", "queued"}, deadline : Int]]
JobRow ==
  [at : {"idle", "validate", "reconcile", "create", "visit", "open", "build"},
   started : Instants, conf : [Topics -> Items], next : DOMAIN Order,
   key : Topics \X Versions \X Int, deadline : Int]

Init ==
  /\ config = FirstConfig
  /\ profiles = [t \in Topics |-> [v \in Versions |-> NoContent]]
  /\ editions = [k \in Keys |-> Absent]
  /\ broken = {} /\ audits = {}
  /\ now = 0
  /\ job = [p \in Jobs |-> Idle]
  /\ agent = <<>>
  /\ interventions = 0
  /\ verdict = [t \in Topics |-> "none"]

At(p, step) == job[p].at = step
Ends(p) == job' = [job EXCEPT ![p] = Idle]
Intervenes == interventions < MaxInterventions /\ interventions' = interventions + 1

-----------------------------------------------------------------------------
(* topic_profiles.                                                         *)

Stored(t) == {v \in Versions : profiles[t][v] # NoContent}

\* latest_topic_profile: 0 if there is none.
Latest(t) == IF Stored(t) = {} THEN 0 ELSE Max(Stored(t))

InsertedOrReplaced(t, v, c) == c

\* create_topic_profile: INSERT OR IGNORE, and what is there now.
Inserted(t, v, c) == IF profiles[t][v] = NoContent THEN c ELSE profiles[t][v]

CreateProfile(t, v, c) == profiles' = [profiles EXCEPT ![t][v] = Inserted(t, v, c)]

\* ValueError: a different profile uses this version already.
Clashes(t, v, c) == Inserted(t, v, c) # c

\* An item that is stored under the configuration: a dry run's consent is void if
\* it is a later version, or another content of the same one.
Supersedes(t, item) ==
  verdict' = IF verdict[t] = "accepted" /\ item.version >= config[t].version /\ item # config[t]
             THEN [verdict EXCEPT ![t] = "none"] ELSE verdict

-----------------------------------------------------------------------------
(* deadline-run.                                                           *)

Topic(r) == Order[job[r].next]
Item(r)  == job[r].conf[Topic(r)]

\* The configuration and the clock are read once, when the command starts.
Start(r) ==
  /\ r \in Runs /\ At(r, "idle")
  /\ job' = [job EXCEPT ![r] = [Idle EXCEPT !.at = "reconcile", !.started = now,
                                            !.conf = config]]
  /\ UNCHANGED <<config, store, broken, now, agent, interventions, verdict>>

\* reconcile_config_topics: a version that went backwards ends the command.
Compare(r) ==
  /\ r \in Runs /\ At(r, "reconcile")
  /\ IF Latest(Topic(r)) > Item(r).version
       THEN Ends(r)
       ELSE job' = [job EXCEPT ![r].at = "create"]
  /\ UNCHANGED <<config, store, broken, now, agent, interventions, verdict>>

\* All topics are reconciled before the first edition is looked at.
Create(r) ==
  /\ r \in Runs /\ At(r, "create")
  /\ CreateProfile(Topic(r), Item(r).version, Item(r).content)
  /\ IF Clashes(Topic(r), Item(r).version, Item(r).content)
       THEN Ends(r)
       ELSE IF job[r].next < Len(Order)
            THEN job' = [job EXCEPT ![r].at = "reconcile", ![r].next = @ + 1]
            ELSE job' = [job EXCEPT ![r].at = "visit", ![r].next = 1]
  /\ Supersedes(Topic(r), Item(r))
  /\ UNCHANGED <<config, editions, audits, broken, now, agent, interventions>>

ContinuesOrGivesUp(r) == Ends(r)

\* On with the next topic.
Continues(r) ==
  IF job[r].next < Len(Order)
    THEN job' = [job EXCEPT ![r].at = "visit", ![r].next = @ + 1]
    ELSE Ends(r)

IsDue(c, instant) == Enabled[c] /\ instant >= Opens(c, LocalDay(c, instant))

\* A disabled topic, or not_due.
Pass(r) ==
  /\ r \in Runs /\ At(r, "visit") /\ ~IsDue(Item(r).content, job[r].started)
  /\ Continues(r)
  /\ UNCHANGED <<config, store, broken, now, agent, interventions, verdict>>

\* The edition of the local day on which the command started.
Visit(r) ==
  /\ r \in Runs /\ At(r, "visit") /\ IsDue(Item(r).content, job[r].started)
  /\ LET c == Item(r).content
         day == LocalDay(c, job[r].started)
     IN job' = [job EXCEPT ![r].at = "open",
                           ![r].key = <<Topic(r), Item(r).version, day>>,
                           ![r].deadline = DeadlineAt(c, day)]
  /\ UNCHANGED <<config, store, broken, now, agent, interventions, verdict>>

-----------------------------------------------------------------------------
(* edition-build: the latest version that is stored, for any date.         *)

Choose(h) ==
  /\ h \in Hands /\ At(h, "idle")
  /\ Intervenes
  /\ \E t \in Topics, day \in Days :
       /\ Latest(t) # 0
       /\ \E deadline \in EditionSchedule(profiles[t][Latest(t)], day) :
            job' = [job EXCEPT ![h] =
                     [Idle EXCEPT !.at = "open", !.key = <<t, Latest(t), day>>,
                                  !.deadline = deadline]]
  /\ UNCHANGED <<config, store, broken, now, agent, verdict>>

-----------------------------------------------------------------------------
(* deadline-run --dry-run, which writes nothing.                           *)

Rehearse(h) ==
  /\ h \in Hands /\ At(h, "idle")
  /\ Intervenes
  /\ job' = [job EXCEPT ![h] = [Idle EXCEPT !.at = "validate", !.conf = config]]
  /\ UNCHANGED <<config, store, broken, now, agent, verdict>>

ValidatesNewest(t, item) == Latest(t) = item.version => profiles[t][Latest(t)] = item.content

\* One topic of validate_config_topics: only the latest version is looked at.
Validates(t, item) ==
  Latest(t) # 0 => /\ Latest(t) <= item.version
                   /\ Latest(t) = item.version => profiles[t][Latest(t)] = item.content

\* The first topic that is refused ends the command.
Validate(h) ==
  /\ At(h, "validate")
  /\ IF Validates(Topic(h), Item(h)) /\ job[h].next < Len(Order)
       THEN job' = [job EXCEPT ![h].next = @ + 1]
       ELSE Ends(h)
  /\ verdict' = IF Item(h) # config[Topic(h)] THEN verdict
                ELSE [verdict EXCEPT ![Topic(h)] =
                        IF Validates(Topic(h), Item(h)) THEN "accepted" ELSE "refused"]
  /\ UNCHANGED <<config, store, broken, now, agent, interventions>>

-----------------------------------------------------------------------------
(* EditionBuilder.build, as its callers see it.                            *)

\* create_edition_run.  An edition with another deadline is a ValueError.
Open(p) ==
  /\ At(p, "open")
  /\ LET k == job[p].key
         found == editions[k]
     IN IF found.status = "none"
          THEN /\ editions' = [editions EXCEPT ![k] = [status |-> "open",
                                                       deadline |-> job[p].deadline]]
               /\ job' = [job EXCEPT ![p].at = "build"]
          ELSE /\ UNCHANGED editions
               /\ IF found.deadline = job[p].deadline
                    THEN job' = [job EXCEPT ![p].at = "build"]
                    ELSE Ends(p)
  /\ UNCHANGED <<config, profiles, audits, broken, now, agent, interventions, verdict>>

Build(p) ==
  /\ At(p, "build") /\ job[p].key \notin broken
  /\ editions' = [editions EXCEPT ![job[p].key].status = "queued"]
  /\ IF p \in Runs THEN Continues(p) ELSE Ends(p)
  /\ UNCHANGED <<config, profiles, audits, broken, now, agent, interventions, verdict>>

\* The builder raises, and with it the loop over the topics ends.
Raise(p) ==
  /\ At(p, "build") /\ job[p].key \in broken
  /\ Ends(p)
  /\ UNCHANGED <<config, store, broken, now, agent, interventions, verdict>>

-----------------------------------------------------------------------------
(* topic-apply: the version is committed before the audit record.          *)

Apply(t, v, c) ==
  /\ agent = <<>>
  /\ Intervenes
  /\ CreateProfile(t, v, c)
  /\ agent' = IF Clashes(t, v, c) THEN <<>> ELSE <<t, v>>
  /\ Supersedes(t, [version |-> v, content |-> c])
  /\ UNCHANGED <<config, editions, audits, broken, now, job>>

Audit ==
  /\ agent # <<>>
  /\ audits' = audits \cup {agent}
  /\ agent' = <<>>
  /\ UNCHANGED <<config, profiles, editions, broken, now, job, interventions, verdict>>

-----------------------------------------------------------------------------
(* Environment.                                                            *)

\* The operator edits a topic, with or without a new version.
Edit(t, item) ==
  /\ Intervenes
  /\ config' = [config EXCEPT ![t] = item]
  /\ verdict' = [verdict EXCEPT ![t] = "none"]
  /\ UNCHANGED <<store, broken, now, job, agent>>

Tick ==
  /\ now < Horizon /\ now' = now + 1
  /\ UNCHANGED <<config, store, broken, job, agent, interventions, verdict>>

\* From now on this edition does not render to what was recorded.
Break(k) ==
  /\ editions[k].status = "open"
  /\ Intervenes
  /\ broken' = broken \cup {k}
  /\ UNCHANGED <<config, store, now, job, agent, verdict>>

\* A process dies, or something it calls raises.
Crash(p) ==
  /\ ~At(p, "idle")
  /\ Intervenes
  /\ Ends(p)
  /\ UNCHANGED <<config, store, broken, now, agent, verdict>>

AgentCrash ==
  /\ agent # <<>>
  /\ Intervenes
  /\ agent' = <<>>
  /\ UNCHANGED <<config, store, broken, now, job, verdict>>

-----------------------------------------------------------------------------

Work(p) ==
  \/ Start(p) \/ Compare(p) \/ Create(p) \/ Pass(p) \/ Visit(p)
  \/ Validate(p) \/ Open(p) \/ Build(p) \/ Raise(p)

Next ==
  \/ \E p \in Jobs : Work(p) \/ Choose(p) \/ Rehearse(p) \/ Crash(p)
  \/ \E t \in Topics, v \in Versions, c \in Contents : Apply(t, v, c)
  \/ \E t \in Topics, item \in Items : Edit(t, item)
  \/ Audit \/ AgentCrash
  \/ Tick
  \/ \E k \in Keys : Break(k)

Spec == Init /\ [][Next]_vars

\* The timer starts deadline-run every minute, a command goes on until it is
\* done, and time passes.
FairSpec ==
  /\ Spec
  /\ \A p \in Jobs : WF_vars(Work(p))
  /\ WF_vars(Tick)

-----------------------------------------------------------------------------
(* Properties.                                                             *)

TypeOK ==
  /\ config \in [Topics -> Items]
  /\ profiles \in ProfileRows /\ editions \in EditionRows /\ job \in [Jobs -> JobRow]
  /\ broken \in SUBSET Keys /\ audits \in SUBSET (Topics \X Versions)
  /\ now \in Instants
  /\ agent \in {<<>>} \cup Topics \X Versions
  /\ interventions \in Nat
  /\ verdict \in [Topics -> {"none", "accepted", "refused"}]

\* Whatever agents apply and operators edit while it runs, a deadline-run that
\* has come to its editions works on exactly the versions that are stored:
\* reconciliation of all topics precedes the first edition, and a stored
\* version never changes.
WorksOnStoredVersions ==
  \A r \in Runs : job[r].at \in {"visit", "open", "build"} =>
    \A t \in Topics : profiles[t][job[r].conf[t].version] = job[r].conf[t].content

\* The instant is on the version's local date, at its local time of delivery.
FallsOn(c, day, instant) ==
  LocalDay(c, instant) = day /\ (instant + Offset[c]) % DayLength = Deadline[c]

\* An edition belongs to a stored version and is due at that version's time of
\* delivery on the edition's own local date, however far from UTC that is, or when
\* an operator said: a configuration that changed a topic without raising its
\* version never makes an edition of its own.
KeepsItsSchedule ==
  \A t \in Topics, v \in Versions, day \in Days :
    LET edition == editions[<<t, v, day>>]
    IN edition.status # "none" =>
         /\ profiles[t][v] # NoContent
         /\ edition.deadline \in Overrides \/ FallsOn(profiles[t][v], day, edition.deadline)

\* Reconciling the topic, or the whole configuration, as it is would succeed.
ReconcilesTopic(t, item) == Latest(t) <= item.version /\ ~Clashes(t, item.version, item.content)

Reconciles(conf) == \A t \in Topics : ReconcilesTopic(t, conf[t])

\* What a dry run said of a topic holds at the next deadline-run, whatever agents
\* and runs store in between: a refused one is refused until it is edited, and an
\* accepted one is reconciled unless somebody edited it or stored a later version
\* of it, or another content of this one, after the dry run looked.
DryRunAgrees ==
  \A t \in Topics : /\ verdict[t] = "accepted" => ReconcilesTopic(t, config[t])
                    /\ verdict[t] = "refused" => ~ReconcilesTopic(t, config[t])

\* The edition of a topic on its last day.
LastKey(t) == LET c == config[t].content
              IN <<t, config[t].version, LocalDay(c, Horizon)>>

\* Nothing stops a deadline-run at this topic: its build does not raise, and
\* nobody gave its edition another deadline.
Passable(t) ==
  /\ LastKey(t) \notin broken
  /\ editions[LastKey(t)].status = "none"
       \/ editions[LastKey(t)].deadline = DeadlineAt(config[t].content, LastKey(t)[3])

\* A topic whose window is open gets its edition queued, whatever crashed
\* before, if the whole configuration reconciles and no topic ahead of it in
\* the file stops the run: topics that are disabled, not yet due or already
\* queued do not keep the later ones from being built.
EventuallyBuilt ==
  \A i \in DOMAIN Order :
    <>[](Reconciles(config) /\ \A j \in 1..i : Passable(Order[j]))
      => <>(IsDue(config[Order[i]].content, Horizon)
              => editions[LastKey(Order[i])].status = "queued")

=============================================================================
