---------------------------- MODULE EditionBuild ----------------------------
(***************************************************************************)
(* EditionBuilder.build for one edition (one topic version and local date):*)
(* create, select, freeze, optional Pi editorial, render, write the        *)
(* Markdown artifact, transition, enqueue.                                 *)
(*                                                                         *)
(* deadline-run starts a builder every minute while the preparation window *)
(* is open, and an operator may run edition-build beside it.  A builder    *)
(* keeps the edition record and the article records it read in memory      *)
(* while other processes go on: each repository call and the file write is *)
(* one step, and the process may die between any two of them.              *)
(*                                                                         *)
(* A rendering stands for the Markdown text and, its SHA-256 being         *)
(* injective for our purposes, for its digest.                             *)
(***************************************************************************)
EXTENDS Integers, Sequences, FiniteSets

CONSTANTS
  Builders,             \* deadline-run and edition-build processes
  Ranked,               \* the matching articles, newest first (a sequence)
  EditorialModes,       \* values editorial.enabled may have
  IncludeUntranslated,  \* topic.selection.include_untranslated
  MaxSize,              \* topic.safety_limits.max_rendered_bytes
  NoRendering,          \* NULL digest, missing file, nothing in memory
  MaxDrift,             \* bound of the model: article and translation changes
  MaxFaults             \* bound of the model: crashes and lost files

Articles == {Ranked[i] : i \in DOMAIN Ranked}

ASSUME BuildAssumption ==
  /\ MaxSize \in Nat /\ MaxDrift \in Nat /\ MaxFaults \in Nat
  /\ EditorialModes \subseteq BOOLEAN /\ IncludeUntranslated \in BOOLEAN
  /\ Ranked \in Seq(Articles) /\ Cardinality(Articles) = Len(Ranked)

VARIABLES
  \* articles: text version, and the version its translation shows (0: none)
  text, translated,
  \* config.editorial.enabled, the same for every process
  editorialOn,
  \* edition_runs and edition_run_items of the edition
  status, reason, digest, items,
  \* edition_editorial_results: status and order
  editorial, order,
  \* delivery_outbox.payload_sha256, and the artifact on disk
  payload, file,
  \* calls of Pi so far
  piCalls,
  \* builder processes: position, edition status last read, rendering in hand
  pc, seen, draft,
  drift, faults,
  \* history: two builders were at work at once
  overlapped

inputVars   == <<text, translated, editorialOn>>
runVars     == <<status, reason, digest, items>>
editVars    == <<editorial, order, piCalls>>
outVars     == <<payload, file>>
procVars    == <<pc, seen, draft>>
envVars     == <<drift, faults, overlapped>>
vars == <<inputVars, runVars, editVars, outVars, procVars, envVars>>

Steps == {"idle", "lookup", "refresh", "advance", "choose", "freeze", "reloadFrozen",
          "load", "editorial", "begin", "interrupted", "pi", "finish",
          "reloadEdited", "render", "commit", "enqueue", "existing"}
RunStatus == {"planned", "refreshing", "selecting", "frozen", "editorial",
              "rendered", "degraded", "queued"}

-----------------------------------------------------------------------------
(* Rendering.                                                              *)

\* _content_source: what the selected article will be shown as.
SourceOf(a) == IF translated[a] > 0 THEN "translated" ELSE "original"

\* A section of the edition.  Its title follows the current translation, its
\* body the source that was frozen: no translation, no body.
Section(a, source) ==
  [ article |-> a, source |-> source,
    title |-> IF translated[a] > 0 THEN translated[a] ELSE -text[a],
    body  |-> IF source = "translated" THEN translated[a] ELSE -text[a] ]

Incomplete(section) == section.source = "original" \/ section.title < 0

Rendering(sections, isDegraded, isEdited) ==
  [sections |-> sections, degraded |-> isDegraded, edited |-> isEdited]

SectionsOf(chosen) == [i \in DOMAIN chosen |-> Section(chosen[i].article, chosen[i].source)]

Draft(chosen) ==
  LET sections == SectionsOf(chosen)
  IN  Rendering(sections, \E i \in DOMAIN sections : Incomplete(sections[i]), FALSE)

\* The editorial title and introduction take room too.
Size(r) == Len(r.sections) + (IF r.edited THEN 1 ELSE 0)

\* _select, cut off by _fit_render_limit.
Qualifies(a) == translated[a] > 0 \/ IncludeUntranslated

\* The positions of the matching articles, and how many of them come no later.
Matching == {i \in DOMAIN Ranked : Qualifies(Ranked[i])}
Place(i) == Cardinality({j \in Matching : j <= i})

Selected ==
  LET size == IF Cardinality(Matching) < MaxSize THEN Cardinality(Matching) ELSE MaxSize
      Nth(k) == Ranked[CHOOSE i \in Matching : Place(i) = k]
  IN  [k \in 1..size |-> [article |-> Nth(k), source |-> SourceOf(Nth(k))]]

ItemsOf(r) == [i \in DOMAIN r.sections |->
                 [article |-> r.sections[i].article, source |-> r.sections[i].source]]

\* by_id: the sections in the order Pi returned.
Reordered(sections, ids) ==
  [i \in DOMAIN ids |-> CHOOSE s \in {sections[j] : j \in DOMAIN sections} :
                          s.article = ids[i]]

Edited(r, ids) == Rendering(Reordered(r.sections, ids), r.degraded, TRUE)

Fallback(r) == Rendering(r.sections, TRUE, r.edited)

Permuted(r) ==
  LET ids == {r.sections[i].article : i \in DOMAIN r.sections}
  IN  {p \in [DOMAIN r.sections -> ids] : \A a \in ids : \E i \in DOMAIN p : p[i] = a}

-----------------------------------------------------------------------------

Init ==
  /\ text = [a \in Articles |-> 1]
  /\ translated \in [Articles -> {0, 1}]
  /\ editorialOn \in EditorialModes
  /\ status = "planned" /\ reason = "none" /\ digest = NoRendering /\ items = <<>>
  /\ editorial = "none" /\ order = <<>> /\ piCalls = 0
  /\ payload = NoRendering /\ file = NoRendering
  /\ pc = [b \in Builders |-> "idle"]
  /\ seen = [b \in Builders |-> "planned"]
  /\ draft = [b \in Builders |-> NoRendering]
  /\ drift = 0 /\ faults = 0 /\ overlapped = FALSE

At(b, step) == pc[b] = step
Goto(b, step) == pc' = [pc EXCEPT ![b] = step]

\* build returned or raised: the process is over.
Ends(b) ==
  /\ pc' = [pc EXCEPT ![b] = "idle"]
  /\ seen' = [seen EXCEPT ![b] = "planned"]
  /\ draft' = [draft EXCEPT ![b] = NoRendering]

Raises(b) == Ends(b) /\ UNCHANGED <<inputVars, runVars, editVars, outVars, envVars>>

\* create_edition_run: INSERT OR IGNORE, then SELECT.  A row that does not
\* exist yet and a planned one look the same from here on.
Open(b) ==
  /\ At(b, "idle")
  /\ seen' = [seen EXCEPT ![b] = status]
  /\ Goto(b, "lookup")
  /\ overlapped' = (overlapped \/ \E c \in Builders \ {b} : ~At(c, "idle"))
  /\ UNCHANGED <<draft, inputVars, runVars, editVars, outVars, drift, faults>>

\* delivery_for_edition decides between checking and building; building
\* continues at the status that was read before.
Lookup(b) ==
  /\ At(b, "lookup")
  /\ Goto(b, IF payload # NoRendering THEN "existing" ELSE
             CASE seen[b] = "planned"    -> "refresh"
               [] seen[b] = "refreshing" -> "advance"
               [] seen[b] = "selecting"  -> "choose"
               [] OTHER                  -> "load")
  /\ UNCHANGED <<seen, draft, inputVars, runVars, editVars, outVars, envVars>>

Lifecycle == INSTANCE EditionLifecycle
               WITH Editions <- {"edition"}, status <- [e \in {"edition"} |-> status]

AllowedAlways(old, new) == TRUE

\* _EDITION_TRANSITIONS
Allowed(old, new) == new \in Lifecycle!Transitions[old]

\* transition_edition_run checks the status in the database, not the one read.
Transition(b, from, new, to) ==
  /\ At(b, from)
  /\ \/ /\ Allowed(status, new)
        /\ status' = new
        /\ seen' = [seen EXCEPT ![b] = new]
        /\ Goto(b, to)
        /\ UNCHANGED <<draft, reason, digest, items, inputVars, editVars, outVars, envVars>>
     \/ ~Allowed(status, new) /\ Raises(b)

Refresh(b) == Transition(b, "refresh", "refreshing", "advance")
Advance(b) == Transition(b, "advance", "selecting", "choose")

\* _select, one read of articles and translations.
Choose(b) ==
  /\ At(b, "choose")
  /\ draft' = [draft EXCEPT ![b] = Draft(Selected)]
  /\ Goto(b, "freeze")
  /\ UNCHANGED <<seen, inputVars, runVars, editVars, outVars, envVars>>

RefreezeAllowed(b) == status \in {"selecting", "frozen"}

MayFreeze(b) == items = <<>> /\ status = "selecting"

\* freeze_edition_items: the first set of items stays.
Freeze(b) ==
  /\ At(b, "freeze")
  /\ \/ /\ MayFreeze(b)
        /\ items' = ItemsOf(draft[b])
        /\ status' = "frozen"
        /\ Goto(b, "reloadFrozen")
        /\ UNCHANGED <<seen, draft, reason, digest, inputVars, editVars, outVars, envVars>>
     \/ /\ items # <<>> /\ items = ItemsOf(draft[b])
        /\ Goto(b, "reloadFrozen")
        /\ UNCHANGED <<seen, draft, inputVars, runVars, editVars, outVars, envVars>>
     \/ /\ ~MayFreeze(b) /\ (items = <<>> \/ items # ItemsOf(draft[b]))
        /\ Raises(b)

AfterItems(read) ==
  IF editorialOn /\ read \in {"frozen", "editorial"} THEN "editorial" ELSE "render"

\* get_edition_run after freezing and after the editorial block.
Reload(b) ==
  /\ pc[b] \in {"reloadFrozen", "reloadEdited"}
  /\ seen' = [seen EXCEPT ![b] = status]
  /\ Goto(b, IF At(b, "reloadFrozen") THEN AfterItems(status) ELSE "render")
  /\ UNCHANGED <<draft, inputVars, runVars, editVars, outVars, envVars>>

LoadSelected(b) ==
  /\ At(b, "load")
  /\ draft' = [draft EXCEPT ![b] = Draft(Selected)]
  /\ Goto(b, AfterItems(seen[b]))
  /\ UNCHANGED <<seen, inputVars, runVars, editVars, outVars, envVars>>

\* _records_for_frozen_items: the frozen articles with today's content.
Load(b) ==
  /\ At(b, "load")
  /\ draft' = [draft EXCEPT ![b] = Draft(items)]
  /\ Goto(b, AfterItems(seen[b]))
  /\ UNCHANGED <<seen, inputVars, runVars, editVars, outVars, envVars>>

-----------------------------------------------------------------------------
(* The editorial block.                                                    *)

AdoptSilently(b, decided, ids) ==
  /\ draft' = [draft EXCEPT ![b] = IF decided = "succeeded" THEN Edited(@, ids) ELSE @]
  /\ Goto(b, "reloadEdited")

\* What the builder goes on with once the editorial row is decided.
Adopt(b, decided, ids) ==
  /\ draft' = [draft EXCEPT ![b] = IF decided = "succeeded" THEN Edited(@, ids)
                                                             ELSE Fallback(@)]
  /\ Goto(b, "reloadEdited")

ReadEditorialRetrying(b) ==
  /\ At(b, "editorial")
  /\ CASE editorial = "none"    -> Goto(b, "begin") /\ UNCHANGED draft
       [] editorial = "running" -> Goto(b, "pi") /\ UNCHANGED draft
       [] OTHER                 -> Adopt(b, editorial, order)
  /\ UNCHANGED <<seen, inputVars, runVars, editVars, outVars, envVars>>

\* begin_editorial, its first read: nothing yet, or a result to resume with.
\* A running row is a call that never came back: fall back, do not repeat it.
ReadEditorial(b) ==
  /\ At(b, "editorial")
  /\ CASE editorial = "none"    -> Goto(b, "begin") /\ UNCHANGED draft
       [] editorial = "running" -> Goto(b, "interrupted") /\ UNCHANGED draft
       [] OTHER                 -> Adopt(b, editorial, order)
  /\ UNCHANGED <<seen, inputVars, runVars, editVars, outVars, envVars>>

\* begin_editorial, its transaction: "running" is committed before Pi is called.
Begin(b) ==
  /\ At(b, "begin")
  /\ \/ /\ status = "frozen"
        /\ editorial' = "running" /\ status' = "editorial"
        /\ Goto(b, "pi")
        /\ UNCHANGED <<seen, draft, order, piCalls, reason, digest, items, inputVars,
                       outVars, envVars>>
     \/ status # "frozen" /\ Raises(b)

\* EditorialService.attempt starts the Pi process.
CallPi(b) ==
  /\ At(b, "pi")
  /\ piCalls' = piCalls + 1
  /\ Goto(b, "finish")
  /\ UNCHANGED <<seen, draft, editorial, order, inputVars, runVars, outVars, envVars>>

\* finish_editorial: UPDATE ... WHERE status = 'running'.
FinishEditorial(b, decided, ids) ==
  \/ /\ editorial = "running"
     /\ editorial' = decided /\ order' = ids
     /\ Adopt(b, decided, ids)
     /\ UNCHANGED <<seen, piCalls, inputVars, runVars, outVars, envVars>>
  \/ editorial # "running" /\ Raises(b)

\* Pi answered in time, with exactly the frozen articles, ...
PiEdits(b) == At(b, "finish") /\ \E ids \in Permuted(draft[b]) :
                                   FinishEditorial(b, "succeeded", ids)

PiFailsUnlisted(b) == At(b, "finish") /\ FinishEditorial(b, "failed", <<>>)

\* ... or failed, timed out, exceeded a limit or answered something else.
PiFails(b) == At(b, "finish") /\ FinishEditorial(b, "fallback", <<>>)

Interrupted(b) == At(b, "interrupted") /\ FinishEditorial(b, "fallback", <<>>)

-----------------------------------------------------------------------------
(* Artifact and outbox.                                                    *)

\* The status the builder goes by is the one it read last.
Committable(b) == seen[b] \in {"frozen", "editorial"}

RenderedOnly(b) == seen[b] = "rendered"

Rendered(b) == seen[b] \in {"rendered", "degraded"}

WriteArtifact(b) ==
  /\ At(b, "render") /\ Size(draft[b]) <= MaxSize /\ Committable(b)
  /\ file' = draft[b]
  /\ Goto(b, "commit")
  /\ UNCHANGED <<seen, draft, payload, inputVars, runVars, editVars, envVars>>

CheckArtifactUnchecked(b) ==
  /\ At(b, "render") /\ Size(draft[b]) <= MaxSize /\ Rendered(b)
  /\ file' = draft[b]
  /\ Goto(b, "enqueue")
  /\ UNCHANGED <<seen, draft, payload, inputVars, runVars, editVars, envVars>>

\* A rendering made before: the same bytes, or nothing is done.
CheckArtifact(b) ==
  /\ At(b, "render") /\ Size(draft[b]) <= MaxSize /\ Rendered(b) /\ digest = draft[b]
  /\ file' = draft[b]
  /\ Goto(b, "enqueue")
  /\ UNCHANGED <<seen, draft, payload, inputVars, runVars, editVars, envVars>>

RenderRaises(b) ==
  /\ At(b, "render")
  /\ \/ Size(draft[b]) > MaxSize
     \/ Rendered(b) /\ digest # draft[b]
     \/ ~Committable(b) /\ ~Rendered(b)
  /\ Raises(b)

\* transition_edition_run to rendered or degraded, with digest and reason.
Commit(b) ==
  LET new == IF draft[b].degraded THEN "degraded" ELSE "rendered"
  IN  /\ At(b, "commit")
      /\ \/ /\ Allowed(status, new)
            /\ status' = new
            /\ seen' = [seen EXCEPT ![b] = new]
            /\ digest' = draft[b]
            /\ reason' = CASE editorial = "fallback" /\ editorialOn -> "editorial"
                           [] draft[b].degraded                     -> "translation"
                           [] OTHER                                 -> reason
            /\ Goto(b, "enqueue")
            /\ UNCHANGED <<draft, items, inputVars, editVars, outVars, envVars>>
         \/ ~Allowed(status, new) /\ Raises(b)

\* create_delivery_outbox_item: one row, for the artifact of the edition.  A row
\* that is there already is returned or refused: nothing changes either way.
Enqueue(b) ==
  /\ At(b, "enqueue")
  /\ \/ /\ payload = NoRendering
        /\ status \in {"rendered", "degraded"} /\ digest = draft[b]
        /\ payload' = draft[b]
        /\ status' = "queued"
        /\ Ends(b)
        /\ UNCHANGED <<file, reason, digest, items, inputVars, editVars, envVars>>
     \/ /\ payload # NoRendering \/ status \notin {"rendered", "degraded"} \/ digest # draft[b]
        /\ Raises(b)

\* _result_from_existing: render again, compare, restore the file.
Rebuilt ==
  LET sections == SectionsOf(items)
      plain == Rendering(sections, reason # "none", FALSE)
  IN  IF editorial = "succeeded" THEN Edited(plain, order) ELSE plain

\* The record read at the start already had an artifact, and it still renders
\* to the recorded digest.
Reproducible(b) ==
  /\ seen[b] \in {"rendered", "degraded", "queued"}
  /\ Rebuilt = digest /\ Rebuilt = payload

ExistingForgetsFile(b) == At(b, "existing") /\ Raises(b)

Existing(b) ==
  /\ At(b, "existing")
  /\ \/ /\ Reproducible(b)
        /\ file' = Rebuilt
        /\ Ends(b)
        /\ UNCHANGED <<payload, inputVars, runVars, editVars, envVars>>
     \/ ~Reproducible(b) /\ Raises(b)

-----------------------------------------------------------------------------
(* Other processes.                                                        *)

Changes == drift < MaxDrift /\ drift' = drift + 1 /\ UNCHANGED <<faults, overlapped>>

\* sync stores a new text of the article, ...
ArticleChanges(a) ==
  /\ Changes
  /\ text' = [text EXCEPT ![a] = @ + 1]
  /\ UNCHANGED <<translated, editorialOn, runVars, editVars, outVars, procVars>>

\* ... begins to translate it again, which clears the old translation, ...
TranslationBegins(a) ==
  /\ Changes
  /\ translated[a] > 0
  /\ translated' = [translated EXCEPT ![a] = 0]
  /\ UNCHANGED <<text, editorialOn, runVars, editVars, outVars, procVars>>

\* ... and saves the result.
TranslationSucceeds(a) ==
  /\ Changes
  /\ translated[a] # text[a]
  /\ translated' = [translated EXCEPT ![a] = text[a]]
  /\ UNCHANGED <<text, editorialOn, runVars, editVars, outVars, procVars>>

Fault == faults < MaxFaults /\ faults' = faults + 1 /\ UNCHANGED <<drift, overlapped>>

Crash(b) ==
  /\ ~At(b, "idle")
  /\ Fault
  /\ Ends(b)
  /\ UNCHANGED <<inputVars, runVars, editVars, outVars>>

FileLost ==
  /\ file # NoRendering
  /\ Fault
  /\ file' = NoRendering
  /\ UNCHANGED <<payload, inputVars, runVars, editVars, procVars>>

-----------------------------------------------------------------------------

Build(b) ==
  \/ Open(b) \/ Lookup(b)
  \/ Refresh(b) \/ Advance(b) \/ Choose(b) \/ Freeze(b) \/ Reload(b) \/ Load(b)
  \/ ReadEditorial(b) \/ Begin(b) \/ CallPi(b) \/ PiEdits(b) \/ PiFails(b)
  \/ Interrupted(b)
  \/ WriteArtifact(b) \/ CheckArtifact(b) \/ RenderRaises(b)
  \/ Commit(b) \/ Enqueue(b) \/ Existing(b)

Next ==
  \/ \E b \in Builders : Build(b)
  \/ \E b \in Builders : Crash(b)
  \/ \E a \in Articles : \/ ArticleChanges(a)
                         \/ TranslationBegins(a)
                         \/ TranslationSucceeds(a)
  \/ FileLost

Spec == Init /\ [][Next]_vars

\* The deadline timer starts a builder every minute, and builders run on.
FairSpec == Spec /\ \A b \in Builders : WF_vars(Build(b))

-----------------------------------------------------------------------------
(* Properties.                                                             *)

TypeOK ==
  /\ text \in [Articles -> Nat] /\ translated \in [Articles -> Nat]
  /\ editorialOn \in BOOLEAN
  /\ status \in RunStatus /\ reason \in {"none", "translation", "editorial"}
  /\ editorial \in {"none", "running", "succeeded", "fallback"}
  /\ piCalls \in Nat /\ drift \in Nat /\ overlapped \in BOOLEAN
  /\ \A r \in {digest, payload, file} \cup {draft[b] : b \in Builders} :
       r = NoRendering \/ DOMAIN r = {"sections", "degraded", "edited"}
  /\ \A b \in Builders : pc[b] \in Steps /\ seen[b] \in RunStatus

\* Whatever builders race or die, what is queued for delivery is the artifact
\* the edition recorded, and it is queued exactly when the edition says so.
QueuedIsRecorded ==
  /\ (payload # NoRendering) <=> (status = "queued")
  /\ payload # NoRendering => payload = digest

\* An edition is only called complete if every section is translated, and a
\* degraded one says why.
DegradedIsReported ==
  /\ status = "rendered" => \A i \in DOMAIN digest.sections :
                              ~Incomplete(digest.sections[i]) /\ ~digest.degraded
  /\ digest # NoRendering => (digest.degraded <=> reason # "none")

\* The frozen articles, each once.
ShowsItems(r) ==
  /\ {ItemsOf(r)[i] : i \in DOMAIN r.sections} = {items[i] : i \in DOMAIN items}
  /\ Len(r.sections) = Len(items)

\* The recorded edition shows exactly the frozen articles, each once, in the
\* frozen order or in the order Pi gave.
ShowsFrozenArticles ==
  digest # NoRendering => ShowsItems(digest) /\ (~digest.edited => ItemsOf(digest) = items)

\* The artifact on disk is the recorded one or lost, although every builder
\* writes it before its transition is compared: while the articles stay as they
\* are, whatever builders overlap and die, and while no two builders overlap,
\* whatever the articles do.  In any case it shows the frozen articles.
ArtifactIntact ==
  /\ status \in {"rendered", "degraded", "queued"} /\ (drift = 0 \/ ~overlapped)
       => file \in {digest, NoRendering}
  /\ file # NoRendering => ShowsItems(file)

\* Pi is called at most once for an edition, across crashes and rivals.
PiOnce == piCalls <= 1

\* Selection and digest are written once.
FrozenForGood ==
  [][/\ items # <<>> => items' = items
     /\ digest # NoRendering => digest' = digest
     /\ payload # NoRendering => payload' = payload]_vars

\* "Reaches delivery or a recorded terminal state": the edition gets queued.
EventuallyQueued == <>(status = "queued")

\* So it does while the articles stay as they are: without Pi whatever dies,
\* and with Pi, whatever it answers, if nothing dies and its title has room.
QueuedWhenSettled ==
  [](drift = 0 /\ (editorialOn => faults = 0 /\ Len(Ranked) < MaxSize)) => EventuallyQueued

\* A lost artifact of a queued edition is reconstructed, if the articles stay
\* as they are.
ArtifactRestored ==
  [](drift = 0) => ((status = "queued" /\ file = NoRendering) ~> (file = payload))

LifecycleSpec == Lifecycle!Spec

=============================================================================
