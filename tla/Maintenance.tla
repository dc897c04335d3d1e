---------------------------- MODULE Maintenance ----------------------------
(***************************************************************************)
(* What every command does to the database file before its own work        *)
(* (Database.initialize: schema migrations behind a pre-migration          *)
(* snapshot), and the two commands that follow it with a backup: backup    *)
(* and retention apply, which deletes expired articles behind one.  There  *)
(* is no lock between commands, and any of them may die anywhere.          *)
(*                                                                         *)
(* Of the schema the model keeps which migrations' tables and which        *)
(* versions are there, of the contents the version each item is at.  That  *)
(* an edition keeps its articles from deletion is in FeedSync.             *)
(***************************************************************************)
EXTENDS Naturals, Sequences, FiniteSetsExt

CONSTANTS
  First, Last,  \* the schema found and the one of this release
  Keep,         \* pre-migration snapshots that are kept
  Commands,     \* command processes
  Items,
  Date,         \* the UTC date of each second
  Days,         \* retention of backups: dates, and
  Count,        \* how many files in the settings that each command read
  MaxVersion, MaxNow, MaxFaults  \* bounds of the model

ASSUME MaintenanceAssumption ==
  /\ First \in Nat /\ Last \in Nat /\ First <= Last /\ Keep \in Nat \ {0}
  /\ Days \in Nat \ {0} /\ Count \in [Commands -> Nat \ {0}]
  /\ MaxVersion \in Nat /\ MaxNow \in Nat \ {0} /\ MaxFaults \in Nat
  /\ Date \in [1..MaxNow -> Nat] /\ \A s, t \in 1..MaxNow : s <= t => Date[s] <= Date[t]

VARIABLES
  tables,     \* the migrations whose tables exist
  recorded,   \* schema_migrations
  snapshots,  \* backups/pre-migration, by name
  present,    \* the items of the database, and
  version,    \* what each one says, or said last
  expired,    \* the items older than their retention period
  backups,    \* the file of each second: {contents}, or {} if there is none
  tmp,        \* and its .tmp
  now,
  command,
  since,      \* ghost: snapshots taken since the schema moved, up to Keep
  collided,   \* ghost: two backups were at work in the same second
  robbed,     \* ghost: a command that keeps one file removed a newer one
  faults

schemaVars  == <<tables, recorded, snapshots, since>>
contentVars == <<present, version, expired>>
fileVars    == <<backups, tmp, collided, robbed>>
vars == <<schemaVars, contentVars, fileVars, now, command, faults>>

Seconds == 1..MaxNow

Idle == [at |-> "idle", found |-> First, next |-> First,
         second |-> 1, doomed |-> {}, todo |-> {}]

Init ==
  /\ tables = 1..First /\ recorded = 1..First
  /\ snapshots = <<>> /\ since = 0
  /\ present = {} /\ version = [i \in Items |-> 0] /\ expired = {}
  /\ backups = [s \in Seconds |-> {}] /\ tmp = [s \in Seconds |-> {}]
  /\ now = 1 /\ collided = FALSE /\ robbed = FALSE
  /\ command = [p \in Commands |-> Idle]
  /\ faults = 0

At(p, step) == command[p].at = step
Ends(p) == command' = [command EXCEPT ![p] = Idle]
Goes(p, step) == command' = [command EXCEPT ![p].at = step]

-----------------------------------------------------------------------------
(* Database.initialize.                                                    *)

SchemaVersion == IF recorded = {} THEN 0 ELSE Max(recorded)

\* The version is read before any transaction.
Begin(p) ==
  /\ At(p, "idle")
  /\ LET v == SchemaVersion
     IN command' = [command EXCEPT ![p] =
          [Idle EXCEPT !.found = v, !.next = v + 1,
                       !.at = IF v >= Last THEN "ready" ELSE IF v > 0 THEN "snapshot" ELSE "apply"]]
  /\ UNCHANGED <<schemaVars, contentVars, fileVars, now, faults>>

\* By name, which has the version found and then the time.
Filed(s, all) ==
  LET place == Cardinality({i \in DOMAIN all : all[i].from <= s.from}) + 1
  IN  [i \in 1..Len(all) + 1 |-> IF i < place THEN all[i] ELSE IF i = place THEN s ELSE all[i - 1]]

\* _backup_before_migration.
Snapshot(p) ==
  /\ At(p, "snapshot")
  /\ snapshots' = Filed([from |-> command[p].found, schema |-> SchemaVersion], snapshots)
  /\ since' = IF SchemaVersion > First /\ since < Keep THEN since + 1 ELSE since
  /\ Goes(p, "prune")
  /\ UNCHANGED <<tables, recorded, contentVars, fileVars, now, faults>>

KeptOneLess(all) ==
  IF Len(all) < Keep THEN all ELSE SubSeq(all, Len(all) - Keep + 2, Len(all))

\* The last Keep by name.
Kept(all) == IF Len(all) <= Keep THEN all ELSE SubSeq(all, Len(all) - Keep + 1, Len(all))

PruneSnapshots(p) ==
  /\ At(p, "prune")
  /\ snapshots' = Kept(snapshots)
  /\ Goes(p, "apply")
  /\ UNCHANGED <<tables, recorded, since, contentVars, fileVars, now, faults>>

\* One of two commands that have listed the same files finds that the other
\* was faster: FileNotFoundError.
PruneRaces(p) ==
  /\ At(p, "prune") /\ Len(snapshots) > Keep
  /\ snapshots' = Kept(snapshots)
  /\ \E q \in Commands \ {p} :
       At(q, "prune") /\ command' = [command EXCEPT ![p].at = "apply", ![q] = Idle]
  /\ UNCHANGED <<tables, recorded, since, contentVars, fileVars, now, faults>>

ApplyUnrecorded(p) ==
  /\ At(p, "apply")
  /\ LET v == command[p].next
     IN IF v \in tables
          THEN Ends(p) /\ UNCHANGED tables
          ELSE /\ tables' = tables \cup {v}
               /\ command' = [command EXCEPT ![p].next = v + 1,
                                             ![p].at = IF v = Last THEN "ready" ELSE "apply"]
  /\ UNCHANGED <<recorded, snapshots, since, contentVars, fileVars, now, faults>>

\* _apply_migration: the tables and their version in one transaction.  It is
\* rolled back, and the command raises, where another one has applied it.
Apply(p) ==
  /\ At(p, "apply")
  /\ LET v == command[p].next
     IN IF v \in tables \cup recorded
          THEN Ends(p) /\ UNCHANGED <<tables, recorded>>
          ELSE /\ tables' = tables \cup {v}
               /\ recorded' = recorded \cup {v}
               /\ command' = [command EXCEPT ![p].next = v + 1,
                                             ![p].at = IF v = Last THEN "ready" ELSE "apply"]
  /\ UNCHANGED <<snapshots, since, contentVars, fileVars, now, faults>>

-----------------------------------------------------------------------------
(* backup and retention apply.                                             *)

Contents == {<<i, version[i]>> : i \in present}

\* What retention_counts counts, and apply_retention deletes.
Candidates == {<<i, version[i]>> : i \in present \cap expired}

\* Any other command, as far as it is modelled here.
Other(p) ==
  /\ At(p, "ready")
  /\ Ends(p)
  /\ UNCHANGED <<schemaVars, contentVars, fileVars, now, faults>>

\* The time passes between the steps of commands: to the next second at most,
\* when a name is given.
NextSecond == {s \in Seconds : s \in {now, now + 1}}

ReadyOrBackedUp(p) ==
  /\ At(p, "ready")
  /\ \E s \in NextSecond :
       /\ now' = s
       /\ command' = [command EXCEPT ![p] =
            [Idle EXCEPT !.at = IF \E b \in Seconds : backups[b] # {} THEN "delete" ELSE "copy",
                         !.second = s, !.doomed = Candidates]]
  /\ UNCHANGED <<schemaVars, contentVars, fileVars, faults>>

\* The cutoffs are fixed, and the file gets its name, by the second.
Ready(p) ==
  /\ At(p, "ready")
  /\ \E s \in NextSecond :
       /\ now' = s
       /\ command' = [command EXCEPT ![p] =
            [Idle EXCEPT !.at = "copy", !.second = s, !.doomed = Candidates]]
       /\ collided' = (collided \/ \E q \in Commands \ {p} :
                          command[q].at \in {"copy", "publish"} /\ command[q].second = s)
  /\ UNCHANGED <<schemaVars, contentVars, backups, tmp, robbed, faults>>

\* The online backup, into the .tmp file.
Copy(p) ==
  /\ At(p, "copy")
  /\ tmp' = [tmp EXCEPT ![command[p].second] = {Contents}]
  /\ Goes(p, "publish")
  /\ UNCHANGED <<schemaVars, contentVars, backups, collided, robbed, now, faults>>

\* _verify_integrity, and the rename.
Publish(p) ==
  /\ At(p, "publish") /\ tmp[command[p].second] # {}
  /\ backups' = [backups EXCEPT ![command[p].second] = tmp[command[p].second]]
  /\ tmp' = [tmp EXCEPT ![command[p].second] = {}]
  /\ Goes(p, "list")
  /\ UNCHANGED <<schemaVars, contentVars, collided, robbed, now, faults>>

\* Another backup of this second took the .tmp away: either the rename fails,
\* or opening it for the verification makes a new, empty and sound database.
PublishStolen(p) ==
  /\ At(p, "publish") /\ tmp[command[p].second] = {}
  /\ \/ Ends(p) /\ UNCHANGED backups
     \/ /\ backups' = [backups EXCEPT ![command[p].second] = {{}}]
        /\ Goes(p, "list")
  /\ UNCHANGED <<schemaVars, contentVars, tmp, collided, robbed, now, faults>>

Files == {s \in Seconds : backups[s] # {}}

Newest(n, seconds) == {s \in seconds : Cardinality({t \in seconds : t > s}) < n}

\* _prune_backups: the file just made, and the newest of the others that are
\* not too old.
Retained(p) ==
  LET own == command[p].second
  IN {own} \cup Newest(Count[p] - 1, {s \in Files \ {own} : Date[s] + Days >= Date[own]})

List(p) ==
  /\ At(p, "list")
  /\ command' = [command EXCEPT ![p].at = "unlink", ![p].todo = Files \ Retained(p)]
  /\ UNCHANGED <<schemaVars, contentVars, fileVars, now, faults>>

\* The latest one first.  backup_failed if another command was faster.
Unlink(p) ==
  /\ At(p, "unlink")
  /\ \E s \in command[p].todo :
       /\ \A t \in command[p].todo : t <= s
       /\ IF backups[s] = {}
            THEN Ends(p) /\ UNCHANGED <<backups, robbed>>
            ELSE /\ backups' = [backups EXCEPT ![s] = {}]
                 /\ command' = [command EXCEPT ![p].todo = @ \ {s}]
                 /\ robbed' = (robbed \/ (Count[p] = 1 /\ s > command[p].second))
  /\ UNCHANGED <<schemaVars, contentVars, tmp, collided, now, faults>>

\* The end of backup; retention goes on.
BackedUp(p) ==
  /\ At(p, "unlink") /\ command[p].todo = {}
  /\ Ends(p) \/ Goes(p, "delete")
  /\ UNCHANGED <<schemaVars, contentVars, fileVars, now, faults>>

\* apply_retention: one transaction, with the cutoffs of before the backup.
Delete(p) ==
  /\ At(p, "delete")
  /\ present' = {i \in present : <<i, version[i]>> \notin command[p].doomed}
  /\ expired' = expired \cap present'
  /\ Ends(p)
  /\ UNCHANGED <<schemaVars, version, fileVars, now, faults>>

-----------------------------------------------------------------------------
(* Environment.                                                            *)

\* A sync stores an item, or a new version of it.
Seen(i) ==
  /\ version[i] < MaxVersion
  /\ version' = [version EXCEPT ![i] = @ + 1]
  /\ present' = present \cup {i} /\ expired' = expired \ {i}
  /\ UNCHANGED <<schemaVars, fileVars, now, command, faults>>

\* The retention period of an item passes.  A command takes less.
Age(i) ==
  /\ i \in present \ expired /\ \A p \in Commands : At(p, "idle")
  /\ expired' = expired \cup {i}
  /\ UNCHANGED <<schemaVars, present, version, fileVars, now, command, faults>>

\* Killed, or out of disk space.
Crash(p) ==
  /\ ~At(p, "idle") /\ faults < MaxFaults
  /\ faults' = faults + 1
  /\ Ends(p)
  /\ UNCHANGED <<schemaVars, contentVars, fileVars, now>>

-----------------------------------------------------------------------------

Work(p) ==
  \/ Begin(p) \/ Snapshot(p) \/ PruneSnapshots(p) \/ PruneRaces(p) \/ Apply(p)
  \/ Other(p) \/ Ready(p) \/ Copy(p) \/ Publish(p) \/ PublishStolen(p)
  \/ List(p) \/ Unlink(p) \/ BackedUp(p) \/ Delete(p)

Next ==
  \/ \E p \in Commands : Work(p) \/ Crash(p)
  \/ \E i \in Items : Seen(i) \/ Age(i)

Spec == Init /\ [][Next]_vars

\* Timers and systemd start commands again and again, and they go on.
FairSpec == Spec /\ \A p \in Commands : WF_vars(Work(p))

-----------------------------------------------------------------------------
(* Properties.                                                             *)

\* What a database said: which items, and at which version.
Copies == SUBSET (Items \X (1..MaxVersion))

CommandRow ==
  [at : {"idle", "snapshot", "prune", "apply", "ready", "copy", "publish", "list", "unlink",
         "delete"},
   found : 0..Last, next : 0..Last+1,
   second : Seconds, doomed : Copies, todo : SUBSET Seconds]

TypeOK ==
  /\ tables \subseteq 1..Last /\ recorded \subseteq 1..Last
  /\ snapshots \in Seq([from : 1..Last, schema : 1..Last]) /\ since \in 0..Keep
  /\ present \subseteq Items /\ expired \subseteq present
  /\ version \in [Items -> 0..MaxVersion]
  /\ backups \in [Seconds -> SUBSET Copies] /\ tmp \in [Seconds -> SUBSET Copies]
  /\ now \in Seconds /\ collided \in BOOLEAN /\ robbed \in BOOLEAN /\ faults \in Nat
  /\ command \in [Commands -> CommandRow]

\* The schema an upgrade started from can be restored, however many commands
\* start at once, fail and are started again, until Keep further snapshots
\* have been taken.
UpgradeCanBeUndone ==
  First > 0 /\ SchemaVersion > First /\ since < Keep
    => \E i \in DOMAIN snapshots : snapshots[i].schema = First

\* No item is deleted that is not, as it was, in a backup which is there at
\* that moment, whatever other backups, prunings and syncs go on: unless two
\* backups were made in the same second, or a command that is to keep one file
\* removed the newer one that another command had just made.
BackedUpBeforeDeletion ==
  [][collided \/ robbed \/ \A i \in present \ present' :
       \E s \in Seconds : \E c \in backups[s] : <<i, version[i]>> \in c]_vars

\* Rivals and crashes in the middle of an upgrade do not keep the schema from
\* reaching this release's version.
EventuallyUpgraded == <>[](recorded = 1..Last /\ tables = 1..Last)

=============================================================================
