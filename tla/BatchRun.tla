------------------------------ MODULE BatchRun ------------------------------
(***************************************************************************)
(* One checkpointed batch: translate or extract over a materialized,       *)
(* ordered selection of articles, and the processes that resume it.        *)
(*                                                                         *)
(* The row that stores the result of an article, the checkpoint of its     *)
(* item, the checkpoints of the items a spent budget skips and the status  *)
(* of the run are separate transactions, and between them are the calls of *)
(* providers: one for a translation; for an extraction the search and then *)
(* the translation of what it found.  A process may die between any two of *)
(* them.  What translate_article does in itself is TranslationWork's       *)
(* subject: here it is one call, and one row.                              *)
(***************************************************************************)
EXTENDS Naturals, FiniteSetsExt

CONSTANTS
  Runners,    \* translate or extract processes
  Articles,   \* the selected articles, by their positions
  Limit,      \* --limit, or limits.max_*_articles_per_run
  Budget,     \* calls of providers the run budget of a process pays for
  MaxCrashes, MaxOverlaps  \* bounds of the model

ASSUME BatchAssumption ==
  /\ Limit \in Nat \ {0} /\ Budget \in Nat \ {0} /\ MaxCrashes \in Nat
  /\ MaxOverlaps \in Nat
  /\ \E n \in Articles : n \in Nat \ {0} /\ Articles = 1..n

VARIABLES
  command,  \* batch_runs.command
  run,      \* batch_runs.status, "none" before create_batch_run
  item,     \* batch_run_items.status of each article
  stored,   \* status of the latest extraction, or of the translation
  job,      \* what each process has in memory
  done,     \* history: how often the work on an article has succeeded
  crashes,
  overlaps  \* history: commands begun while another was at work on the run

results == <<stored, done>>
faults  == <<crashes, overlaps>>
vars == <<command, run, item, results, job, faults>>

RunStatus  == {"running", "interrupted", "succeeded", "failed"}
ItemStatus == {"pending", "succeeded", "failed", "skipped"}

\* extractions.status; a translation has the first and the last of these.
ResultStatus == {"failed", "translation_failed", "succeeded"}

JobRow ==
  [at : {"idle", "work", "found", "mark", "skip", "finish"}, todo : SUBSET Articles,
   outcome : ItemStatus, spent : 0..Budget, failures : Nat, next : RunStatus]

Idle == [at |-> "idle", todo |-> {}, outcome |-> "pending", spent |-> 0, failures |-> 0,
         next |-> "running"]

Init ==
  /\ command = "none" /\ run = "none"
  /\ item = [a \in Articles |-> "pending"]
  /\ stored = [a \in Articles |-> "none"]
  /\ job = [r \in Runners |-> Idle]
  /\ done = [a \in Articles |-> 0]
  /\ crashes = 0 /\ overlaps = 0

At(r, step) == job[r].at = step

\* The first of the articles it has still to do.
Article(r) == Min(job[r].todo)
TodoLeft(r) == job[r].todo \ {Article(r)}

Ends(r) == job' = [job EXCEPT ![r] = Idle]

ResumableAny(a) == TRUE

ResumablePending(a) == item[a] \in {"pending", "failed"}

\* The only error that skips an item is the budget's, so every skip resumes.
Resumable(a) == item[a] \in {"pending", "failed", "skipped"}

\* The first of these articles, as many as this command may do.
FirstOf(articles) == {a \in articles : Cardinality({b \in articles : b < a}) < Limit}

\* batch_run_resumable_article_ids, cut off by the limit of this command.
ToResume == FirstOf({a \in Articles : Resumable(a)})

\* Nothing in the database says that a command is at work on the run.
Overlaps(r) == \E s \in Runners \ {r} : ~At(s, "idle")

\* A new process works on these articles, with a run budget of its own.
Begins(r, articles) ==
  /\ job' = [job EXCEPT ![r] = [Idle EXCEPT !.at = "work", !.todo = articles]]
  /\ Overlaps(r) => overlaps < MaxOverlaps
  /\ overlaps' = IF Overlaps(r) THEN overlaps + 1 ELSE overlaps

\* A fresh command stores its selection before any external work.
Create(r) ==
  /\ At(r, "idle") /\ run = "none"
  /\ run' = "running" /\ command' \in {"translate", "extract"}
  /\ Begins(r, Articles)
  /\ UNCHANGED <<item, results, crashes>>

\* --resume, with the command that made the run, does not touch its status.
\* Nothing to resume is an error.
Resume(r) ==
  /\ At(r, "idle") /\ run # "none"
  /\ ToResume # {}
  /\ Begins(r, ToResume)
  /\ UNCHANGED <<command, run, item, results, crashes>>

Working(r, step) == At(r, step) /\ job[r].todo # {}

AffordsOneMore(r) == job[r].spent <= Budget

\* RunBudget.reserve, before each call: it refuses the one past the ceiling.
Affords(r) == job[r].spent < Budget

\* The step of the last call for an article.
LastCall == IF command = "extract" THEN "found" ELSE "work"

\* record_extraction or save_translation, after the call.
Stores(r, status) ==
  /\ stored' = [stored EXCEPT ![Article(r)] = status]
  /\ job' = [job EXCEPT ![r].at = "mark", ![r].spent = @ + 1,
                        ![r].outcome = IF status = "succeeded" THEN status ELSE "failed"]
  /\ UNCHANGED <<command, run, item, faults>>

\* AnySearchExtractor.extract has the text of the article.
Search(r) ==
  /\ Working(r, "work") /\ command = "extract" /\ Affords(r)
  /\ job' = [job EXCEPT ![r].at = "found", ![r].spent = @ + 1]
  /\ UNCHANGED <<command, run, item, results, faults>>

SearchFails(r) ==
  /\ Working(r, "work") /\ command = "extract" /\ Affords(r)
  /\ Stores(r, "failed")
  /\ UNCHANGED done

Succeeds(r, a) ==
  /\ Working(r, LastCall) /\ Article(r) = a /\ Affords(r)
  /\ Stores(r, "succeeded")
  /\ done' = [done EXCEPT ![a] = @ + 1]

Fails(r) ==
  /\ Working(r, LastCall) /\ Affords(r)
  /\ Stores(r, IF command = "extract" THEN "translation_failed" ELSE "failed")
  /\ UNCHANGED done

\* provider_budget_exhausted: this article, also if its text was found, and the
\* rest of the list are skipped.
Exhausts(r) ==
  /\ Working(r, "work") \/ Working(r, "found")
  /\ ~Affords(r)
  /\ job' = [job EXCEPT ![r].at = "skip"]
  /\ UNCHANGED <<command, run, item, results, faults>>

\* complete_batch_run_item, whatever the item says by now.
Mark(r) ==
  /\ At(r, "mark")
  /\ item' = [item EXCEPT ![Article(r)] = job[r].outcome]
  /\ job' = [job EXCEPT ![r].at = "work", ![r].todo = TodoLeft(r),
                        ![r].failures = @ + (IF job[r].outcome = "failed" THEN 1 ELSE 0)]
  /\ UNCHANGED <<command, run, results, faults>>

Skip(r) ==
  /\ At(r, "skip") /\ job[r].todo # {}
  /\ item' = [item EXCEPT ![Article(r)] = "skipped"]
  /\ job' = [job EXCEPT ![r].todo = TodoLeft(r)]
  /\ UNCHANGED <<command, run, results, faults>>

SkipEnds(r) ==
  /\ At(r, "skip") /\ job[r].todo = {}
  /\ run' = "interrupted"
  /\ Ends(r)
  /\ UNCHANGED <<command, item, results, faults>>

TallyByFailures(r) == IF job[r].failures = 0 THEN "succeeded" ELSE "interrupted"

\* The status the run gets: read from all items, not only this command's.
Tally(r) ==
  IF \E a \in Articles : Resumable(a) THEN "interrupted"
  ELSE IF job[r].failures = 0 THEN "succeeded" ELSE "failed"

Count(r) ==
  /\ At(r, "work") /\ job[r].todo = {}
  /\ job' = [job EXCEPT ![r].at = "finish", ![r].next = Tally(r)]
  /\ UNCHANGED <<command, run, item, results, faults>>

\* update_batch_run_status
Finish(r) ==
  /\ At(r, "finish")
  /\ run' = job[r].next
  /\ Ends(r)
  /\ UNCHANGED <<command, item, results, faults>>

\* A process dies, or gives up on an error other than the budget's.
Crash(r) ==
  /\ ~At(r, "idle") /\ crashes < MaxCrashes
  /\ crashes' = crashes + 1
  /\ Ends(r)
  /\ UNCHANGED <<command, run, item, results, overlaps>>

Works(r) ==
  \/ Create(r) \/ Resume(r)
  \/ Search(r) \/ SearchFails(r) \/ Fails(r) \/ Exhausts(r) \/ Mark(r) \/ Skip(r) \/ SkipEnds(r)
  \/ Count(r) \/ Finish(r)
  \/ \E a \in Articles : Succeeds(r, a)

Next == \E r \in Runners : Works(r) \/ Crash(r)

Spec == Init /\ [][Next]_vars

\* The operator resumes the run as long as something is left, and no call for
\* an article fails for ever.
FairSpec ==
  /\ Spec
  /\ \A r \in Runners : WF_vars(Works(r))
  /\ \A a \in Articles : /\ SF_vars(\E r \in Runners : Succeeds(r, a))
                        /\ SF_vars(\E r \in Runners : Search(r) /\ Article(r) = a)

-----------------------------------------------------------------------------
(* Properties.                                                             *)

TypeOK ==
  /\ command \in {"none", "translate", "extract"} /\ run \in RunStatus \cup {"none"}
  /\ item \in [Articles -> ItemStatus] /\ job \in [Runners -> JobRow]
  /\ stored \in [Articles -> ResultStatus \cup {"none"}] /\ done \in [Articles -> Nat]
  /\ crashes \in 0..MaxCrashes /\ overlaps \in 0..MaxOverlaps

\* A checkpoint only vouches for work that has succeeded, whoever set it.  While
\* no two commands overlap it vouches for what is stored, though a repeated attempt
\* may replace a success by a failure, and a run that succeeded has no article
\* left, whatever was resumed, skipped or interrupted before.
CheckpointsAreTrue ==
  /\ \A a \in Articles : item[a] = "succeeded" => done[a] > 0
  /\ overlaps = 0 =>
       /\ \A a \in Articles : item[a] = "succeeded" => stored[a] = "succeeded"
       /\ run = "succeeded" => \A a \in Articles : item[a] = "succeeded"

\* Resuming does not repeat what has succeeded, but for once each that a process
\* dies between the work and its checkpoint, and once each that a command begins
\* while another is at work: whatever they overwrite of each other's checkpoints
\* afterwards, no article is repeated oftener.
SuccessOnce == \A a \in Articles : done[a] <= 1 + crashes + overlaps

\* However often the budget ends, articles fail or processes die, resuming
\* the run gets every article done, if the budget of one process is enough for
\* an extraction: what a search found is not kept for the next one.
EventuallyDone ==
  Budget >= 2 => <>[](\A a \in Articles : item[a] = "succeeded")

\* "succeeded: no retryable batch items remain": and then the run says so.
EventuallySucceeded == <>[](run = "succeeded")

=============================================================================
