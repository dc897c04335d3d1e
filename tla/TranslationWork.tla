-------------------------- MODULE TranslationWork --------------------------
(***************************************************************************)
(* One article, its translation row, and the processes that work on both:  *)
(*   - syncs: the feed job of serve, or the sync command, which fetch the  *)
(*     feed, reconcile the article and translate it when it changed;       *)
(*   - retries: the translation-retries job of serve;                      *)
(*   - orders: the translate command, which forces a translation.          *)
(* They share the database and nothing else: APScheduler runs the two jobs *)
(* of serve in different threads, and the commands take no lock.           *)
(*                                                                         *)
(* A text is the version number of the article's content (and stands for   *)
(* its content_hash); 0 means that there is none.                          *)
(***************************************************************************)
EXTENDS UsageLedger, Sequences

CONSTANTS
  Syncs, Retries, Orders,  \* processes, by what they do
  Budgeted,                \* those of serve: they have a PersistentProviderBudget
  Chain,                   \* the providers in the declared order (a sequence)
  Chunks,                  \* length of each request an article takes (a sequence)
  MaxAttempts,             \* service.translation_max_attempts
  RunRequests,             \* max_provider_requests_per_run of the translate command
  MaxTexts, MaxCrashes, MaxOrders  \* bounds of the model

Workers == Syncs \cup Retries \cup Orders

ASSUME WorkAssumption ==
  /\ MaxAttempts \in Nat \ {0} /\ RunRequests \in Nat \ {0}
  /\ Chain \in Seq(Providers) /\ Chain # <<>>
  /\ Chunks \in Seq(Lengths) /\ Chunks # <<>>
  /\ \E last \in Days : last \in Nat \ {0} /\ Days = 1..last
  /\ Budgeted \subseteq Syncs \cup Retries
  /\ MaxTexts \in Nat \ {0}

VARIABLES
  published,         \* the entry as the feed serves it now
  etag, text,        \* feeds.etag and the articles row
  row,               \* the translations row
  day,
  job,               \* what each process has in memory
  crashes, orders

feedVars   == <<published, etag>>
envVars    == <<day, crashes, orders>>
vars == <<feedVars, text, row, ledgerVars, envVars, job>>

Outcomes == {"ok", "retryable", "permanent", "exhausted"}
Texts == 0..MaxTexts

TranslationRow ==
  [status : {"none", "pending", "succeeded", "failed"}, source : Texts, shows : Texts,
   attempts : Nat, due : BOOLEAN, terminal : BOOLEAN, error : Outcomes]

JobRow ==
  [at : {"idle", "match", "store", "feed", "detect", "latest", "begin", "reserve", "send",
         "save"},
   fetched : Texts, known : Texts, art : Texts, base : Nat,
   provider : DOMAIN Chain, chunk : DOMAIN Chunks, under : Days \cup {0},
   spent : 0..RunRequests, outcome : Outcomes]

NoRow == [status |-> "none", source |-> 0, shows |-> 0, attempts |-> 0,
          due |-> FALSE, terminal |-> FALSE, error |-> "ok"]

Idle == [at |-> "idle", fetched |-> 0, known |-> 0, art |-> 0, base |-> 0,
         provider |-> 1, chunk |-> 1, under |-> 0, spent |-> 0,
         outcome |-> "ok"]

Init ==
  /\ published = 1 /\ etag = 0 /\ text = 0
  /\ row = NoRow
  /\ LedgerInit
  /\ day = 1 /\ crashes = 0 /\ orders = 0
  /\ job = [w \in Workers |-> Idle]

At(w, step) == job[w].at = step
Goto(w, step) == job' = [job EXCEPT ![w].at = step]
Ends(w) == job' = [job EXCEPT ![w] = Idle]

\* After its translation a sync goes on with its feed; the others are done.
Returns(w) == IF w \in Syncs THEN Goto(w, "feed") ELSE Ends(w)

-----------------------------------------------------------------------------
(* FeedSyncService.sync_feed.                                              *)

FetchRemembers(w) ==
  /\ w \in Syncs /\ At(w, "idle") /\ etag # published
  /\ etag' = published
  /\ job' = [job EXCEPT ![w] = [Idle EXCEPT !.at = "match", !.fetched = published]]
  /\ UNCHANGED <<published, text, row, ledgerVars, envVars>>

\* The answer is 304: record_feed_success without an ETag keeps the old one.
NotModified(w) ==
  /\ w \in Syncs /\ At(w, "idle") /\ etag = published
  /\ UNCHANGED vars

\* A conditional request that is answered with the feed.
Fetch(w) ==
  /\ w \in Syncs /\ At(w, "idle") /\ etag # published
  /\ job' = [job EXCEPT ![w] = [Idle EXCEPT !.at = "match", !.fetched = published]]
  /\ UNCHANGED <<feedVars, text, row, ledgerVars, envVars>>

\* reconcile_article, its SELECT: no transaction is open yet.
Match(w) ==
  /\ At(w, "match")
  /\ job' = [job EXCEPT ![w].at = "store", ![w].known = text]
  /\ UNCHANGED <<feedVars, text, row, ledgerVars, envVars>>

Changed(w) == job[w].known # job[w].fetched

\* reconcile_article, its INSERT or UPDATE.  An INSERT next to a row that came
\* into being meanwhile is an IntegrityError, which nothing handles.
Store(w) ==
  /\ At(w, "store")
  /\ \/ /\ job[w].known = 0 => text = 0
        /\ text' = job[w].fetched
        /\ Goto(w, IF Changed(w) THEN "detect" ELSE "feed")
     \/ job[w].known = 0 /\ text # 0 /\ Ends(w) /\ UNCHANGED text
  /\ UNCHANGED <<feedVars, row, ledgerVars, envVars>>

\* record_feed_success
FeedDone(w) ==
  /\ At(w, "feed")
  /\ etag' = job[w].fetched
  /\ Ends(w)
  /\ UNCHANGED <<published, text, row, ledgerVars, envVars>>

-----------------------------------------------------------------------------
(* The retry job and the translate command.                                *)

DueFailuresOnly == row.status = "failed" /\ ~row.terminal /\ row.due

\* list_due_translations
Due == row.status \in {"pending", "failed"} /\ ~row.terminal /\ row.due

\* The list is read once; by its turn the row may have moved on.
ListDue(w) ==
  /\ w \in Retries /\ At(w, "idle") /\ Due
  /\ Goto(w, "detect")
  /\ UNCHANGED <<feedVars, text, row, ledgerVars, envVars>>

Order(w) ==
  /\ w \in Orders /\ At(w, "idle") /\ text # 0 /\ orders < MaxOrders
  /\ orders' = orders + 1
  /\ Goto(w, "detect")
  /\ UNCHANGED <<feedVars, text, row, ledgerVars, day, crashes>>

-----------------------------------------------------------------------------
(* TranslationService.translate_article.                                   *)

\* update_article_languages returns the article as it is now.  Only a sync
\* does not force the translation.
Detect(w) ==
  /\ At(w, "detect")
  /\ job' = [job EXCEPT ![w].at = IF w \in Syncs THEN "latest" ELSE "begin",
                        ![w].art = text]
  /\ UNCHANGED <<feedVars, text, row, ledgerVars, envVars>>

\* latest_translation: is this text translated already?
Latest(w) ==
  /\ At(w, "latest")
  /\ IF row.status = "succeeded" /\ row.source = job[w].art
       THEN Returns(w)
       ELSE Goto(w, "begin")
  /\ UNCHANGED <<feedVars, text, row, ledgerVars, envVars>>

AttemptsForgotten(w) == 0

\* A new text starts counting afresh.
AttemptsSoFar(w) == IF row.source = job[w].art THEN row.attempts ELSE 0

\* begin_translation: pending is committed before any provider is called.
Begin(w) ==
  /\ At(w, "begin")
  /\ row' = [status |-> "pending", source |-> job[w].art, shows |-> 0,
             attempts |-> AttemptsSoFar(w), due |-> TRUE, terminal |-> FALSE,
             error |-> "ok"]
  /\ job' = [job EXCEPT ![w].at = "reserve", ![w].base = AttemptsSoFar(w),
                        ![w].provider = 1, ![w].chunk = 1]
  /\ UNCHANGED <<feedVars, text, ledgerVars, envVars>>

Name(w) == Chain[job[w].provider]
Length(w) == Chunks[job[w].chunk]

\* The provider chain ends with this outcome.
Decide(w, outcome) == job' = [job EXCEPT ![w].at = "save", ![w].outcome = outcome]

ReserveDayUnchecked(w) ==
  /\ At(w, "reserve") /\ w \in Budgeted
  /\ reserved' = [reserved EXCEPT ![<<day, Name(w)>>] = Plus(@, Length(w))]
  /\ job' = [job EXCEPT ![w].at = "send", ![w].under = day]
  /\ UNCHANGED <<feedVars, text, row, called, envVars>>

\* PersistentProviderBudget.reserve.  Today's date is read here.
ReserveDay(w) ==
  /\ At(w, "reserve") /\ w \in Budgeted
  /\ \/ /\ Reserve(day, Name(w), Length(w))
        /\ job' = [job EXCEPT ![w].at = "send", ![w].under = day]
     \/ /\ ~Fits(reserved[<<day, Name(w)>>], Length(w))
        /\ Decide(w, "exhausted")
        /\ UNCHANGED ledgerVars
  /\ UNCHANGED <<feedVars, text, row, envVars>>

\* RunBudget.reserve, in memory: past the limit the command ends there.  The
\* sync command has no budget at all.
ReserveRun(w) ==
  /\ At(w, "reserve") /\ w \notin Budgeted
  /\ \/ /\ w \in Orders => job[w].spent < RunRequests
        /\ job' = [job EXCEPT ![w].at = "send",
                              ![w].spent = IF w \in Orders THEN @ + 1 ELSE 0]
     \/ w \in Orders /\ job[w].spent >= RunRequests /\ Ends(w)
  /\ UNCHANGED <<feedVars, text, row, ledgerVars, envVars>>

\* The request leaves the host; a process that reserves counts it under the day of
\* its reservation.  Nothing asks the ledger again.
Crosses(w) ==
  /\ called' = IF w \in Budgeted
                 THEN [called EXCEPT ![<<job[w].under, Name(w)>>] = Plus(@, Length(w))]
                 ELSE called
  /\ UNCHANGED reserved

\* The provider answers: on with the next chunk, or everything is translated.
Answers(w) ==
  /\ At(w, "send")
  /\ Crosses(w)
  /\ IF job[w].chunk < Len(Chunks)
       THEN job' = [job EXCEPT ![w].at = "reserve", ![w].chunk = @ + 1]
       ELSE Decide(w, "ok")
  /\ UNCHANGED <<feedVars, text, row, envVars>>

FailsPastTheLast(w) ==
  /\ At(w, "send")
  /\ Crosses(w)
  /\ \E error \in {"retryable", "permanent"} :
       IF job[w].provider <= Len(Chain)
         THEN job' = [job EXCEPT ![w].at = "reserve", ![w].provider = @ + 1,
                                 ![w].chunk = 1]
         ELSE Decide(w, error)
  /\ UNCHANGED <<feedVars, text, row, envVars>>

\* A TranslationProviderError: the next provider starts from the title again,
\* and the last provider's error is the one that counts.
Fails(w) ==
  /\ At(w, "send")
  /\ Crosses(w)
  /\ \E error \in {"retryable", "permanent"} :
       IF job[w].provider < Len(Chain)
         THEN job' = [job EXCEPT ![w].at = "reserve", ![w].provider = @ + 1,
                                 ![w].chunk = 1]
         ELSE Decide(w, error)
  /\ UNCHANGED <<feedVars, text, row, envVars>>

IsTerminal(w) == job[w].outcome = "permanent" \/ job[w].base + 1 >= MaxAttempts

SourceNow(w) == text

\* source_hash: of the article as this process read it, which is the text it
\* has translated.
Source(w) == job[w].art

\* save_translation replaces the whole row, with what this process remembers.
Save(w) ==
  /\ At(w, "save")
  /\ row' = IF job[w].outcome = "ok"
              THEN [status |-> "succeeded", source |-> Source(w), shows |-> job[w].art,
                    attempts |-> job[w].base + 1, due |-> FALSE, terminal |-> FALSE,
                    error |-> "ok"]
              ELSE [status |-> "failed", source |-> Source(w), shows |-> 0,
                    attempts |-> job[w].base + 1, due |-> FALSE,
                    terminal |-> IsTerminal(w), error |-> job[w].outcome]
  /\ Returns(w)
  /\ UNCHANGED <<feedVars, text, ledgerVars, envVars>>

-----------------------------------------------------------------------------
(* Environment.                                                            *)

Publish ==
  /\ published < MaxTexts /\ published' = published + 1
  /\ UNCHANGED <<etag, text, row, ledgerVars, envVars, job>>

\* next_retry_at of a failed translation is reached.
BackoffEnds ==
  /\ row.status = "failed" /\ ~row.terminal /\ ~row.due
  /\ row' = [row EXCEPT !.due = TRUE]
  /\ UNCHANGED <<feedVars, text, ledgerVars, envVars, job>>

Midnight ==
  /\ day + 1 \in Days /\ day' = day + 1
  /\ UNCHANGED <<feedVars, text, row, ledgerVars, crashes, orders, job>>

Crash(w) ==
  /\ ~At(w, "idle") /\ crashes < MaxCrashes
  /\ crashes' = crashes + 1
  /\ Ends(w)
  /\ UNCHANGED <<feedVars, text, row, ledgerVars, day, orders>>

-----------------------------------------------------------------------------

Translate(w) ==
  \/ Detect(w) \/ Latest(w) \/ Begin(w)
  \/ ReserveDay(w) \/ ReserveRun(w) \/ Answers(w) \/ Fails(w) \/ Save(w)

Work(w) ==
  \/ NotModified(w) \/ Fetch(w) \/ Match(w) \/ Store(w) \/ FeedDone(w)
  \/ ListDue(w)
  \/ Translate(w)

Next ==
  \/ \E w \in Workers : Work(w) \/ Order(w) \/ Crash(w)
  \/ Publish \/ BackoffEnds \/ Midnight

Spec == Init /\ [][Next]_vars

\* serve polls its feeds and its due translations for ever, started work goes
\* on, and time passes.  Nobody has to order a translation.
FairSpec ==
  /\ Spec
  /\ \A w \in Workers : WF_vars(Work(w))
  /\ WF_vars(BackoffEnds)

-----------------------------------------------------------------------------
(* Properties.                                                             *)

TypeOK ==
  /\ published \in 1..MaxTexts /\ etag \in Texts /\ text \in Texts
  /\ row \in TranslationRow /\ job \in [Workers -> JobRow]
  /\ LedgerTypeOK
  /\ day \in Days /\ crashes \in Nat /\ orders \in Nat

\* What a row says it translates is what it shows, whichever process saved it
\* and whatever happened to the article in the meantime.
Attributed == row.status = "succeeded" => row.shows = row.source

\* Whatever dies in the middle, a translation that was begun is decided.
EventuallyDecided ==
  <>[](row.status = "none" \/ row.status = "succeeded" \/ row.terminal)

\* ... and the article ends up with the text the feed serves last.
EventuallyStored == <>[](text = published)

\* The article ends up translated, or given up on, in its last text.
EventuallyTranslated ==
  <>[](row.source = text /\ (row.status = "succeeded" \/ row.terminal))

\* So it does while serve runs on and the text stays as it is, however the
\* feed job and the retry job overlap on it.
TranslatedWhenQuiet == [](crashes = 0 /\ published = 1) => EventuallyTranslated

\* Running out of the daily budget is not the end of a translation.
ExhaustionIsRetryable == row.error = "exhausted" => ~row.terminal

=============================================================================
