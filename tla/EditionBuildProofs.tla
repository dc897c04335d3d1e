-------------------------- MODULE EditionBuildProofs --------------------------
(***************************************************************************)
(* Proofs about EditionBuild, for every number of builders, every list of  *)
(* articles and any number of changes and faults: the status of the        *)
(* edition moves as EditionLifecycle promises, Pi is called once, what is  *)
(* queued is what was recorded, what was recorded stays, and it says when  *)
(* something in it is not translated.                                      *)
(***************************************************************************)
EXTENDS EditionBuild, FiniteSetTheorems, TLAPS

\* The steps that leave the edition's record, its items and its outbox row alone.
QuietStep(b) ==
  \/ Open(b) \/ Lookup(b) \/ Choose(b) \/ Reload(b) \/ Load(b)
  \/ ReadEditorial(b) \/ CallPi(b) \/ PiEdits(b) \/ PiFails(b) \/ Interrupted(b)
  \/ WriteArtifact(b) \/ CheckArtifact(b) \/ RenderRaises(b) \/ Existing(b) \/ Crash(b)

EnvironmentStep ==
  \/ \E a \in Articles : ArticleChanges(a) \/ TranslationBegins(a) \/ TranslationSucceeds(a)
  \/ FileLost

LEMMA NextSplit ==
  Next => \/ \E b \in Builders : \/ QuietStep(b)
                                 \/ Refresh(b) \/ Advance(b) \/ Freeze(b) \/ Begin(b)
                                 \/ Commit(b) \/ Enqueue(b)
          \/ EnvironmentStep
  BY DEF Next, Build, QuietStep, EnvironmentStep

LEMMA QuietLeavesTheRecord ==
  ASSUME EnvironmentStep \/ \E b \in Builders : QuietStep(b)
  PROVE  UNCHANGED <<status, digest, items, payload>>
<1> USE DEF runVars, outVars
<1>1. ASSUME NEW b \in Builders, Open(b) \/ Lookup(b) \/ Choose(b) \/ Reload(b) \/ Load(b)
      PROVE  UNCHANGED <<status, digest, items, payload>>
  BY <1>1 DEF Open, Lookup, Choose, Reload, Load
<1>2. ASSUME NEW b \in Builders, ReadEditorial(b) \/ CallPi(b)
      PROVE  UNCHANGED <<status, digest, items, payload>>
  BY <1>2 DEF ReadEditorial, CallPi
<1>3. ASSUME NEW b \in Builders, PiEdits(b) \/ PiFails(b) \/ Interrupted(b)
      PROVE  UNCHANGED <<status, digest, items, payload>>
  BY <1>3 DEF PiEdits, PiFails, Interrupted, FinishEditorial, Raises
<1>4. ASSUME NEW b \in Builders,
             \/ WriteArtifact(b) \/ CheckArtifact(b) \/ RenderRaises(b) \/ Existing(b) \/ Crash(b)
      PROVE  UNCHANGED <<status, digest, items, payload>>
  BY <1>4 DEF WriteArtifact, CheckArtifact, RenderRaises, Existing, Crash, Raises
<1>5. CASE EnvironmentStep
  BY <1>5 DEF EnvironmentStep, ArticleChanges, TranslationBegins, TranslationSucceeds, FileLost
<1> QED
  BY <1>1, <1>2, <1>3, <1>4, <1>5 DEF QuietStep

-----------------------------------------------------------------------------
(* The status.                                                             *)

StatusOK == status \in RunStatus

\* Every step of the status is one of the table's.
LEMMA StatusMoves ==
  ASSUME StatusOK, [Next]_vars
  PROVE  /\ status' \in RunStatus
         /\ status' = status \/ Allowed(status, status')
<1> USE DEF StatusOK, RunStatus, runVars
<1>1. ASSUME NEW b \in Builders, Refresh(b) \/ Advance(b)
      PROVE  status' = status \/ (status' \in RunStatus /\ Allowed(status, status'))
  BY <1>1 DEF Refresh, Advance, Transition, Raises
<1>2. ASSUME NEW b \in Builders, Freeze(b)
      PROVE  status' = status \/ (status' \in RunStatus /\ Allowed(status, status'))
  BY <1>2 DEF Freeze, MayFreeze, Raises, Allowed, Lifecycle!Transitions
<1>3. ASSUME NEW b \in Builders, Begin(b)
      PROVE  status' = status \/ (status' \in RunStatus /\ Allowed(status, status'))
  BY <1>3 DEF Begin, Raises, Allowed, Lifecycle!Transitions
<1>4. ASSUME NEW b \in Builders, Commit(b)
      PROVE  status' = status \/ (status' \in RunStatus /\ Allowed(status, status'))
  BY <1>4 DEF Commit, Raises
<1>5. ASSUME NEW b \in Builders, Enqueue(b)
      PROVE  status' = status \/ (status' \in RunStatus /\ Allowed(status, status'))
  BY <1>5 DEF Enqueue, Raises, Allowed, Lifecycle!Transitions
<1>6. ASSUME UNCHANGED vars PROVE status' = status
  BY <1>6 DEF vars
<1> QED
  BY <1>1, <1>2, <1>3, <1>4, <1>5, <1>6, NextSplit, QuietLeavesTheRecord

LEMMA StatusAlways == Spec => []StatusOK
<1>1. Init => StatusOK
  BY DEF Init, StatusOK, RunStatus
<1>2. StatusOK /\ [Next]_vars => StatusOK'
  BY StatusMoves DEF StatusOK
<1> QED
  BY <1>1, <1>2, PTL DEF Spec

\* The builders move the edition along _EDITION_TRANSITIONS and nowhere else,
\* whatever they race: the detailed specification implements EditionLifecycle.
THEOREM ImplementsLifecycle == Spec => LifecycleSpec
<1>1. Init => Lifecycle!Init
  BY DEF Init, Lifecycle!Init
<1>2. StatusOK /\ [Next]_vars => [Lifecycle!Next]_([e \in {"edition"} |-> status])
  <2> SUFFICES ASSUME StatusOK, [Next]_vars
               PROVE  Lifecycle!Next
    OBVIOUS
  <2>1. status' \in RunStatus /\ (status' = status \/ Allowed(status, status'))
    BY StatusMoves
  <2>2. [e \in {"edition"} |-> status'] \in [{"edition"} -> Lifecycle!Status]
    BY <2>1 DEF RunStatus, Lifecycle!Status
  <2>3. Lifecycle!MayMove(status, status')
    BY <2>1 DEF Allowed, Lifecycle!MayMove
  <2> QED
    BY <2>2, <2>3 DEF Lifecycle!Next
<1> QED
  BY <1>1, <1>2, StatusAlways, PTL DEF Spec, LifecycleSpec, Lifecycle!Spec

-----------------------------------------------------------------------------
(* Positions of the builders.                                              *)

PositionsOK == pc \in [Builders -> Steps]

\* The builder goes on to another position of build, to Pi's only by begin_editorial.
Moves(b) == \E step \in Steps : /\ pc' = [pc EXCEPT ![b] = step]
                                /\ step = "pi" => Begin(b) /\ status = "frozen"

\* Every step is of one builder at most, and moves no other one.
LEMMA OneBuilderMoves ==
  ASSUME PositionsOK, [Next]_vars
  PROVE  pc' = pc \/ \E b \in Builders : Moves(b)
<1> USE DEF Steps, Goto, Ends, Raises, Moves
<1>1. ASSUME NEW b \in Builders, Open(b) \/ Choose(b) \/ Existing(b) PROVE Moves(b)
  BY <1>1 DEF Open, Choose, Existing
<1>2. ASSUME NEW b \in Builders, Lookup(b) PROVE Moves(b)
  BY <1>2 DEF Lookup
<1>3. ASSUME NEW b \in Builders, Reload(b) \/ Load(b) PROVE Moves(b)
  BY <1>3 DEF Reload, Load, AfterItems
<1>4. ASSUME NEW b \in Builders, ReadEditorial(b) \/ CallPi(b) PROVE Moves(b)
  BY <1>4 DEF ReadEditorial, Adopt, CallPi
<1>5. ASSUME NEW b \in Builders, PiEdits(b) \/ PiFails(b) \/ Interrupted(b) PROVE Moves(b)
  BY <1>5 DEF PiEdits, PiFails, Interrupted, FinishEditorial, Adopt
<1>6. ASSUME NEW b \in Builders, WriteArtifact(b) \/ CheckArtifact(b) \/ RenderRaises(b) \/ Crash(b)
      PROVE  Moves(b)
  BY <1>6 DEF WriteArtifact, CheckArtifact, RenderRaises, Crash
<1>7. ASSUME NEW b \in Builders, Refresh(b) \/ Advance(b) \/ Freeze(b) PROVE Moves(b)
  BY <1>7 DEF Refresh, Advance, Transition, Freeze
<1>8. ASSUME NEW b \in Builders, Begin(b) PROVE Moves(b)
  BY <1>8 DEF Begin
<1>9. ASSUME NEW b \in Builders, Commit(b) \/ Enqueue(b) PROVE Moves(b)
  BY <1>9 DEF Commit, Enqueue
<1>10. ASSUME EnvironmentStep \/ UNCHANGED vars PROVE pc' = pc
  BY <1>10 DEF EnvironmentStep, ArticleChanges, TranslationBegins, TranslationSucceeds, FileLost,
               vars, procVars
<1> HIDE DEF Moves
<1> QED
  BY <1>1, <1>2, <1>3, <1>4, <1>5, <1>6, <1>7, <1>8, <1>9, <1>10, NextSplit DEF QuietStep

LEMMA PositionsAlways == Spec => []PositionsOK
<1>1. Init => PositionsOK
  BY DEF Init, PositionsOK, Steps
<1>2. PositionsOK /\ [Next]_vars => PositionsOK'
  <2> SUFFICES ASSUME PositionsOK, [Next]_vars PROVE PositionsOK'
    OBVIOUS
  <2>1. CASE pc' = pc
    BY <2>1 DEF PositionsOK
  <2>2. ASSUME NEW b \in Builders, Moves(b) PROVE PositionsOK'
    BY <2>2 DEF Moves, PositionsOK
  <2> QED
    BY <2>1, <2>2, OneBuilderMoves
<1> QED
  BY <1>1, <1>2, PTL DEF Spec

-----------------------------------------------------------------------------
(* Pi.                                                                     *)

\* The statuses before begin_editorial has committed.
Early == {"planned", "refreshing", "selecting", "frozen"}

\* The strengthening of PiOnce: one builder at most is about to call Pi, nobody
\* has called it yet then, and nobody does before begin_editorial.
PiReserved ==
  /\ piCalls \in {0, 1}
  /\ status \in Early => piCalls = 0 /\ \A b \in Builders : pc[b] # "pi"
  /\ \A b \in Builders : pc[b] = "pi" => piCalls = 0
  /\ \A b, c \in Builders : pc[b] = "pi" /\ pc[c] = "pi" => b = c

\* The status never goes back before begin_editorial.
LEMMA EarlyIsOver ==
  ASSUME StatusOK, [Next]_vars, status' \in Early PROVE status \in Early
  BY StatusMoves DEF StatusOK, RunStatus, Early, Allowed, Lifecycle!Transitions

LEMMA BeginEndsEarly ==
  ASSUME NEW b \in Builders, Begin(b), status = "frozen"
  PROVE  status' = "editorial" /\ piCalls' = piCalls
  BY DEF Begin

\* Only CallPi calls Pi.
LEMMA PiCalls ==
  ASSUME [Next]_vars, piCalls' # piCalls
  PROVE  \E b \in Builders : CallPi(b)
<1> USE DEF editVars, Raises
<1>1. ASSUME NEW b \in Builders, \/ Open(b) \/ Lookup(b) \/ Choose(b) \/ Reload(b) \/ Load(b)
                                \/ ReadEditorial(b) \/ Existing(b) \/ Crash(b)
      PROVE  piCalls' = piCalls
  BY <1>1 DEF Open, Lookup, Choose, Reload, Load, ReadEditorial, Existing, Crash
<1>2. ASSUME NEW b \in Builders, PiEdits(b) \/ PiFails(b) \/ Interrupted(b)
      PROVE  piCalls' = piCalls
  BY <1>2 DEF PiEdits, PiFails, Interrupted, FinishEditorial
<1>3. ASSUME NEW b \in Builders, \/ WriteArtifact(b) \/ CheckArtifact(b) \/ RenderRaises(b)
                                \/ Refresh(b) \/ Advance(b) \/ Freeze(b)
      PROVE  piCalls' = piCalls
  BY <1>3 DEF WriteArtifact, CheckArtifact, RenderRaises, Refresh, Advance, Transition, Freeze
<1>4. ASSUME NEW b \in Builders, Begin(b) \/ Commit(b) \/ Enqueue(b)
      PROVE  piCalls' = piCalls
  BY <1>4 DEF Begin, Commit, Enqueue
<1>5. ASSUME EnvironmentStep \/ UNCHANGED vars PROVE piCalls' = piCalls
  BY <1>5 DEF EnvironmentStep, ArticleChanges, TranslationBegins, TranslationSucceeds, FileLost,
              vars
<1> QED
  BY <1>1, <1>2, <1>3, <1>4, <1>5, NextSplit DEF QuietStep

\* Pi is called at most once for an edition: begin_editorial commits "running"
\* first, and no crash or rival builder brings that moment back.
THEOREM PiOnceAlways == Spec => []PiOnce
<1>1. Init => PiReserved
  BY DEF Init, PiReserved
<1>2. StatusOK /\ PositionsOK /\ PiReserved /\ [Next]_vars => PiReserved'
  <2> SUFFICES ASSUME StatusOK, PositionsOK, PiReserved, [Next]_vars PROVE PiReserved'
    OBVIOUS
  <2>1. CASE \E b \in Builders : CallPi(b)
    <3>1. PICK b \in Builders : CallPi(b)
      BY <2>1
    <3>2. pc[b] = "pi" /\ pc' = [pc EXCEPT ![b] = "finish"] /\ piCalls' = piCalls + 1
      BY <3>1 DEF CallPi, At, Goto
    <3>3. \A c \in Builders : pc'[c] # "pi"
      BY <3>2 DEF PositionsOK, PiReserved
    <3>4. status' \notin Early
      BY <3>2, EarlyIsOver DEF PiReserved
    <3> QED
      BY <3>2, <3>3, <3>4 DEF PiReserved
  <2>2. CASE /\ piCalls' = piCalls
             /\ \A b \in Builders : pc'[b] = "pi" => pc[b] = "pi"
    BY <2>2, EarlyIsOver DEF PiReserved
  <2>3. CASE \E b \in Builders : /\ Begin(b) /\ status = "frozen"
                                 /\ pc' = [pc EXCEPT ![b] = "pi"]
    <3>1. PICK b \in Builders : Begin(b) /\ status = "frozen" /\ pc' = [pc EXCEPT ![b] = "pi"]
      BY <2>3
    <3>2. \A c \in Builders : pc'[c] = "pi" => c = b
      BY <3>1 DEF PiReserved, PositionsOK, Early
    <3>3. status' \notin Early /\ piCalls' = 0
      BY <3>1, BeginEndsEarly DEF PiReserved, Early
    <3> QED
      BY <3>2, <3>3 DEF PiReserved
  <2>4. ASSUME NEW b \in Builders, Moves(b)
        PROVE  \/ \A c \in Builders : pc'[c] = "pi" => pc[c] = "pi"
               \/ Begin(b) /\ status = "frozen" /\ pc' = [pc EXCEPT ![b] = "pi"]
    BY <2>4 DEF Moves, PositionsOK
  <2> QED
    BY <2>1, <2>2, <2>3, <2>4, PiCalls, OneBuilderMoves
<1>3. PiReserved => PiOnce
  BY DEF PiReserved, PiOnce
<1> QED
  BY <1>1, <1>2, <1>3, StatusAlways, PositionsAlways, PTL DEF Spec

-----------------------------------------------------------------------------
(* The recorded artifact and the outbox.                                   *)

\* The positions of build with a rendering in hand.
Drafted == {"freeze", "reloadFrozen", "editorial", "begin", "interrupted", "pi", "finish",
            "reloadEdited", "render", "commit", "enqueue"}

IsRendering(r) == \E sections, isDegraded, isEdited : r = Rendering(sections, isDegraded, isEdited)

DraftsOK ==
  /\ draft = [b \in Builders |-> draft[b]]
  /\ \A b \in Builders : pc[b] \in Drafted => IsRendering(draft[b])

LEMMA DraftsAlways == Spec => []DraftsOK
<1>1. Init => DraftsOK
  BY DEF Init, DraftsOK, Drafted
<1>2. PositionsOK /\ DraftsOK /\ [Next]_vars => DraftsOK'
  <2> SUFFICES ASSUME PositionsOK, DraftsOK, [Next]_vars PROVE DraftsOK'
    OBVIOUS
  <2> USE DEF PositionsOK
  <2>1. ASSUME draft' = draft, NEW b \in Builders, NEW step, pc' = [pc EXCEPT ![b] = step],
               step \in Drafted => pc[b] \in Drafted
        PROVE  DraftsOK'
    BY <2>1 DEF DraftsOK
  <2>2. ASSUME NEW b \in Builders, NEW step, pc' = [pc EXCEPT ![b] = step],
               NEW r, draft' = [draft EXCEPT ![b] = r], step \in Drafted => IsRendering(r)
        PROVE  DraftsOK'
    BY <2>2 DEF DraftsOK
  <2>3. ASSUME NEW b \in Builders, Ends(b) PROVE DraftsOK'
    BY <2>3 DEF Ends, Drafted, DraftsOK
  <2>4. ASSUME NEW b \in Builders, Open(b) \/ Lookup(b) PROVE DraftsOK'
    <3>1. PICK step : pc' = [pc EXCEPT ![b] = step] /\ step \notin Drafted
      BY <2>4 DEF Open, Lookup, Goto, Drafted
    <3> QED
      BY <2>1, <2>4, <3>1 DEF Open, Lookup
  <2>5. ASSUME NEW b \in Builders, Choose(b) \/ Load(b) PROVE DraftsOK'
    <3>1. PICK chosen, step : /\ draft' = [draft EXCEPT ![b] = Draft(chosen)]
                              /\ pc' = [pc EXCEPT ![b] = step]
      BY <2>5 DEF Choose, Load, Goto
    <3>2. IsRendering(Draft(chosen))
      BY DEF Draft, IsRendering
    <3> QED
      BY <2>2, <3>1, <3>2
  <2>6. ASSUME NEW b \in Builders, NEW decided, NEW ids, Adopt(b, decided, ids) PROVE DraftsOK'
    <3>1. \/ draft' = [draft EXCEPT ![b] = Edited(draft[b], ids)]
          \/ draft' = [draft EXCEPT ![b] = Fallback(draft[b])]
      BY <2>6 DEF Adopt
    <3>2. IsRendering(Edited(draft[b], ids)) /\ IsRendering(Fallback(draft[b]))
      BY DEF IsRendering, Edited, Fallback
    <3>3. pc' = [pc EXCEPT ![b] = "reloadEdited"]
      BY <2>6 DEF Adopt, Goto
    <3> QED
      BY <2>2, <3>1, <3>2, <3>3
  <2>7. ASSUME NEW b \in Builders, PiEdits(b) \/ PiFails(b) \/ Interrupted(b) PROVE DraftsOK'
    BY <2>3, <2>6, <2>7 DEF PiEdits, PiFails, Interrupted, FinishEditorial, Raises
  <2>8. ASSUME NEW b \in Builders, ReadEditorial(b) PROVE DraftsOK'
    <3>1. \/ draft' = draft /\ \E step : pc' = [pc EXCEPT ![b] = step]
          \/ \E decided, ids : Adopt(b, decided, ids)
      BY <2>8 DEF ReadEditorial, Goto
    <3>2. pc[b] \in Drafted
      BY <2>8 DEF ReadEditorial, At, Drafted
    <3> QED
      BY <2>1, <2>6, <3>1, <3>2
  <2>9. ASSUME NEW b \in Builders,
               \/ Reload(b) \/ CallPi(b) \/ WriteArtifact(b) \/ CheckArtifact(b)
               \/ (Begin(b) \/ Freeze(b) \/ Commit(b)) /\ ~Ends(b)
        PROVE  DraftsOK'
    <3>1. pc[b] \in Drafted /\ draft' = draft
      BY <2>9 DEF Reload, CallPi, WriteArtifact, CheckArtifact, Begin, Freeze, Commit, Raises, At,
                  Drafted
    <3>2. \E step : pc' = [pc EXCEPT ![b] = step]
      BY <2>9 DEF Reload, CallPi, WriteArtifact, CheckArtifact, Begin, Freeze, Commit, Raises, Goto
    <3> QED
      BY <2>1, <3>1, <3>2
  <2>10. ASSUME NEW b \in Builders, Refresh(b) \/ Advance(b) PROVE DraftsOK'
    <3>1. \/ Ends(b)
          \/ /\ draft' = draft
             /\ \E step : pc' = [pc EXCEPT ![b] = step] /\ step \notin Drafted
      BY <2>10 DEF Refresh, Advance, Transition, Raises, Goto, Drafted
    <3> QED
      BY <2>1, <2>3, <3>1
  <2>11. ASSUME NEW b \in Builders, Enqueue(b) \/ Existing(b) \/ RenderRaises(b) \/ Crash(b)
         PROVE  DraftsOK'
    BY <2>3, <2>11 DEF Enqueue, Existing, RenderRaises, Crash, Raises
  <2>12. ASSUME EnvironmentStep \/ UNCHANGED vars PROVE DraftsOK'
    BY <2>12 DEF EnvironmentStep, ArticleChanges, TranslationBegins, TranslationSucceeds, FileLost,
                 vars, procVars, DraftsOK
  <2> QED
    BY <2>3, <2>4, <2>5, <2>7, <2>8, <2>9, <2>10, <2>11, <2>12, NextSplit DEF QuietStep
<1> QED
  BY <1>1, <1>2, PositionsAlways, PTL DEF Spec

\* The strengthening of QueuedIsRecorded: a digest is only there once the edition
\* has been rendered.
RecordOK ==
  /\ (payload # NoRendering) <=> (status = "queued")
  /\ payload # NoRendering => payload = digest
  /\ digest # NoRendering => status \in {"rendered", "degraded", "queued"}

\* What a step may do to the record of the edition.
RecordStep ==
  \/ UNCHANGED <<status, digest, items, payload>>
  \/ /\ UNCHANGED <<digest, items, payload>>
     /\ status \in Early /\ status' \in {"refreshing", "selecting", "frozen", "editorial"}
  \/ /\ UNCHANGED <<digest, payload>>
     /\ items = <<>> /\ status = "selecting" /\ status' = "frozen"
  \/ /\ UNCHANGED <<items, payload>>
     /\ status \in Early \cup {"editorial"} /\ status' \in {"rendered", "degraded"}
  \/ /\ UNCHANGED <<digest, items>>
     /\ status \in {"rendered", "degraded"} /\ status' = "queued"
     /\ payload = NoRendering /\ payload' = digest /\ payload' # NoRendering

LEMMA RecordSteps ==
  ASSUME ~IsRendering(NoRendering), StatusOK, DraftsOK, [Next]_vars
  PROVE  RecordStep
<1> USE DEF runVars, outVars, Raises, Early
<1>1. ASSUME NEW b \in Builders, Refresh(b) \/ Advance(b) PROVE RecordStep
  <2>1. \/ UNCHANGED <<status, digest, items, payload>>
        \/ /\ UNCHANGED <<digest, items, payload>>
           /\ status' \in {"refreshing", "selecting"} /\ Allowed(status, status')
    BY <1>1 DEF Refresh, Advance, Transition
  <2>2. ASSUME status' \in {"refreshing", "selecting"}, Allowed(status, status') PROVE status \in Early
    BY <2>2 DEF Allowed, Lifecycle!Transitions, StatusOK, RunStatus
  <2> QED
    BY <2>1, <2>2 DEF RecordStep
<1>2. ASSUME NEW b \in Builders, Freeze(b) PROVE RecordStep
  BY <1>2 DEF Freeze, MayFreeze, RecordStep
<1>3. ASSUME NEW b \in Builders, Begin(b) PROVE RecordStep
  BY <1>3 DEF Begin, RecordStep
<1>4. ASSUME NEW b \in Builders, Commit(b) PROVE RecordStep
  <2>1. \/ UNCHANGED <<status, digest, items, payload>>
        \/ /\ UNCHANGED <<items, payload>>
           /\ status' \in {"rendered", "degraded"} /\ Allowed(status, status')
    BY <1>4 DEF Commit
  <2>2. ASSUME status' \in {"rendered", "degraded"}, Allowed(status, status')
        PROVE  status \in Early \cup {"editorial"}
    BY <2>2 DEF Allowed, Lifecycle!Transitions, StatusOK, RunStatus
  <2> QED
    BY <2>1, <2>2 DEF RecordStep
<1>5. ASSUME NEW b \in Builders, Enqueue(b) PROVE RecordStep
  <2>1. IsRendering(draft[b])
    BY <1>5 DEF Enqueue, At, DraftsOK, Drafted
  <2>2. draft[b] # NoRendering
    BY <2>1 DEF IsRendering
  <2> QED
    BY <1>5, <2>2 DEF Enqueue, RecordStep
<1>6. ASSUME UNCHANGED vars PROVE RecordStep
  BY <1>6 DEF vars, RecordStep
<1>7. ASSUME EnvironmentStep \/ \E b \in Builders : QuietStep(b) PROVE RecordStep
  BY <1>7, QuietLeavesTheRecord DEF RecordStep
<1> QED
  BY <1>1, <1>2, <1>3, <1>4, <1>5, <1>6, <1>7, NextSplit

LEMMA RecordAlways ==
  ASSUME ~IsRendering(NoRendering)
  PROVE  Spec => []RecordOK
<1>1. Init => RecordOK
  BY DEF Init, RecordOK
<1>2. RecordOK /\ RecordStep => RecordOK'
  BY DEF RecordOK, RecordStep, Early
<1>3. StatusOK /\ DraftsOK /\ [Next]_vars => RecordStep
  BY RecordSteps
<1> QED
  BY <1>1, <1>2, <1>3, StatusAlways, DraftsAlways, PTL DEF Spec

\* What is in the outbox is the rendering whose digest the edition recorded, and it
\* is there exactly when the edition is queued, whoever rendered it beside.
THEOREM QueuedIsRecordedAlways ==
  ASSUME ~IsRendering(NoRendering)
  PROVE  Spec => []QueuedIsRecorded
<1>1. RecordOK => QueuedIsRecorded
  BY DEF RecordOK, QueuedIsRecorded
<1> QED
  BY <1>1, RecordAlways, PTL

\* No builder, however late it comes, changes the frozen selection, the recorded
\* digest or the queued payload: the statuses it would need are over by then.
THEOREM FrozenForGoodAlways ==
  ASSUME ~IsRendering(NoRendering)
  PROVE  Spec => FrozenForGood
<1> DEFINE Stay == /\ items # <<>> => items' = items
                   /\ digest # NoRendering => digest' = digest
                   /\ payload # NoRendering => payload' = payload
<1>1. RecordOK /\ RecordStep => Stay
  BY DEF RecordOK, RecordStep, Early
<1>2. StatusOK /\ DraftsOK /\ [Next]_vars => RecordStep
  BY RecordSteps
<1>3. RecordOK /\ StatusOK /\ DraftsOK /\ [Next]_vars => [Stay]_vars
  BY <1>1, <1>2
<1> QED
  BY <1>3, RecordAlways, StatusAlways, DraftsAlways, PTL DEF Spec, FrozenForGood

-----------------------------------------------------------------------------
(* What an edition says of itself.                                         *)

\* The statuses with frozen items, and the positions that are reached with them.
Late    == {"frozen", "editorial", "rendered", "degraded", "queued"}
Unread  == {"reloadFrozen", "editorial", "begin", "interrupted", "pi", "finish"}
Settled == Unread \cup {"load", "reloadEdited", "render", "commit", "enqueue"}
Decided == {"succeeded", "fallback"}

Shown(r) == {r.sections[i].article : i \in DOMAIN r.sections}
Picked   == {items[i].article : i \in DOMAIN items}

\* A rendering that is not called degraded is translated throughout.
Honest(r) ==
  /\ r.degraded \in BOOLEAN
  /\ r.degraded = FALSE => \A i \in DOMAIN r.sections : ~Incomplete(r.sections[i])

MayCommit(b) == pc[b] \in {"reloadEdited", "commit"} \/ (pc[b] = "render" /\ Committable(b))

\* What a builder holds: a rendering that is honest, of the frozen articles, and
\* degraded if the editorial fell back.
BuilderOK(b) ==
  /\ pc[b] \in Settled => status \in Late
  /\ seen[b] \in Late => status \in Late
  /\ pc[b] \in Drafted => Honest(draft[b])
  /\ pc[b] \in Unread => Shown(draft[b]) = Picked
  /\ editorialOn /\ MayCommit(b) =>
       /\ editorial \in Decided
       /\ editorial = "fallback" => draft[b].degraded = TRUE

EditionOK ==
  /\ seen \in [Builders -> RunStatus]
  /\ editorialOn \in BOOLEAN
  /\ editorial \in {"none", "running"} \cup Decided
  /\ items # <<>> => status \in Late
  /\ editorial # "none" => status \in Late \ {"frozen"}
  /\ editorial = "succeeded" => \A i \in DOMAIN order : order[i] \in Picked
  /\ digest = NoRendering => reason = "none"
  /\ digest # NoRendering => digest.degraded = (reason # "none")
  /\ status = "rendered" => digest # NoRendering /\ digest.degraded = FALSE /\ Honest(digest)

\* What no step takes back.
Onward ==
  /\ editorialOn' = editorialOn
  /\ status \in Late => status' \in Late /\ items' = items
  /\ editorial \in Decided => editorial' = editorial /\ order' = order

\* A builder that does not move keeps what it has.
LEMMA RivalKept ==
  ASSUME NEW b, BuilderOK(b), Onward, pc'[b] = pc[b], seen'[b] = seen[b], draft'[b] = draft[b]
  PROVE  BuilderOK(b)'
<1>1. /\ pc'[b] \in Settled => status' \in Late
      /\ seen'[b] \in Late => status' \in Late
  BY DEF BuilderOK, Onward
<1>2. pc'[b] \in Drafted => Honest(draft'[b])
  BY DEF BuilderOK
<1>3. pc'[b] \in Unread => Shown(draft'[b]) = Picked'
  <2>1. pc[b] \in Unread => pc[b] \in Settled
    BY DEF Settled
  <2> QED
    BY <2>1 DEF BuilderOK, Onward, Picked
<1>4. editorialOn' /\ MayCommit(b)' =>
        /\ editorial' \in Decided
        /\ editorial' = "fallback" => draft'[b].degraded = TRUE
  BY DEF BuilderOK, Onward, MayCommit, Committable
<1> QED
  BY <1>1, <1>2, <1>3, <1>4 DEF BuilderOK

-----------------------------------------------------------------------------
(* Renderings.                                                             *)

LEMMA DraftHonest == ASSUME NEW chosen PROVE Honest(Draft(chosen))
  BY DEF Honest, Draft, Rendering

LEMMA DraftShows ==
  ASSUME NEW chosen
  PROVE  Shown(Draft(chosen)) = {chosen[i].article : i \in DOMAIN chosen}
<1>1. /\ Draft(chosen).sections = SectionsOf(chosen)
      /\ DOMAIN SectionsOf(chosen) = DOMAIN chosen
      /\ \A i \in DOMAIN chosen : SectionsOf(chosen)[i].article = chosen[i].article
  BY DEF Draft, Rendering, SectionsOf, Section
<1> QED
  BY <1>1 DEF Shown

LEMMA ItemsShow ==
  ASSUME NEW r PROVE {ItemsOf(r)[i].article : i \in DOMAIN ItemsOf(r)} = Shown(r)
<1>1. /\ DOMAIN ItemsOf(r) = DOMAIN r.sections
      /\ \A i \in DOMAIN r.sections : ItemsOf(r)[i].article = r.sections[i].article
  BY DEF ItemsOf
<1> QED
  BY <1>1 DEF Shown

LEMMA FallbackHonest == ASSUME NEW r PROVE Honest(Fallback(r)) /\ Fallback(r).degraded = TRUE
  BY DEF Honest, Fallback, Rendering

LEMMA EditedHonest ==
  ASSUME NEW r, Honest(r), NEW ids, \A i \in DOMAIN ids : ids[i] \in Shown(r)
  PROVE  Honest(Edited(r, ids))
<1> DEFINE sections == r.sections
           new == Reordered(sections, ids)
<1>1. Edited(r, ids).degraded = r.degraded /\ Edited(r, ids).sections = new
  BY DEF Edited, Rendering
<1>2. DOMAIN new = DOMAIN ids
  BY DEF Reordered
<1>3. ASSUME NEW i \in DOMAIN ids PROVE \E j \in DOMAIN sections : new[i] = sections[j]
  <2> DEFINE all == {sections[j] : j \in DOMAIN sections}
  <2>1. \E x \in all : x.article = ids[i]
    BY DEF Shown
  <2>2. new[i] = CHOOSE x \in all : x.article = ids[i]
    BY DEF Reordered
  <2> HIDE DEF all, new
  <2>3. new[i] \in all
    BY <2>1, <2>2
  <2> QED
    BY <2>3 DEF all
<1> HIDE DEF new
<1> QED
  BY <1>1, <1>2, <1>3 DEF Honest

-----------------------------------------------------------------------------
(* The editorial result.                                                   *)

BeginStep(b) == Begin(b) /\ status = "frozen"

FinishStep(b) == \E decided, ids : /\ PiEdits(b) \/ PiFails(b) \/ Interrupted(b)
                                   /\ editorial = "running"
                                   /\ editorial' = decided /\ order' = ids
                                   /\ Adopt(b, decided, ids)
                                   /\ \/ decided = "succeeded" /\ ids \in Permuted(draft[b])
                                      \/ decided = "fallback" /\ ids = <<>>

LEMMA EditorialSteps ==
  ASSUME [Next]_vars
  PROVE  /\ editorialOn' = editorialOn
         /\ \/ UNCHANGED <<editorial, order>>
            \/ \E b \in Builders : BeginStep(b) \/ FinishStep(b)
<1> USE DEF editVars, inputVars, Raises
<1> DEFINE Quiet == UNCHANGED <<editorialOn, editorial, order>>
<1>1. ASSUME NEW b \in Builders, \/ Open(b) \/ Lookup(b) \/ Choose(b) \/ Reload(b) \/ Load(b)
                                \/ ReadEditorial(b) \/ CallPi(b) \/ Existing(b) \/ Crash(b)
      PROVE  Quiet
  BY <1>1 DEF Open, Lookup, Choose, Reload, Load, ReadEditorial, CallPi, Existing, Crash
<1>2. ASSUME NEW b \in Builders, PiEdits(b) \/ PiFails(b) \/ Interrupted(b)
      PROVE  editorialOn' = editorialOn /\ (Quiet \/ FinishStep(b))
  BY <1>2 DEF PiEdits, PiFails, Interrupted, FinishEditorial, FinishStep
<1>3. ASSUME NEW b \in Builders, \/ WriteArtifact(b) \/ CheckArtifact(b) \/ RenderRaises(b)
                                \/ Refresh(b) \/ Advance(b) \/ Freeze(b)
      PROVE  Quiet
  BY <1>3 DEF WriteArtifact, CheckArtifact, RenderRaises, Refresh, Advance, Transition, Freeze
<1>4. ASSUME NEW b \in Builders, Commit(b) \/ Enqueue(b)
      PROVE  Quiet
  BY <1>4 DEF Commit, Enqueue
<1>5. ASSUME NEW b \in Builders, Begin(b)
      PROVE  editorialOn' = editorialOn /\ (Quiet \/ BeginStep(b))
  BY <1>5 DEF Begin, BeginStep
<1>6. ASSUME EnvironmentStep \/ UNCHANGED vars PROVE Quiet
  BY <1>6 DEF EnvironmentStep, ArticleChanges, TranslationBegins, TranslationSucceeds, FileLost,
              vars
<1> QED
  BY <1>1, <1>2, <1>3, <1>4, <1>5, <1>6, NextSplit DEF QuietStep

LEMMA OnwardAlways ==
  ASSUME ~IsRendering(NoRendering), StatusOK, DraftsOK, EditionOK, [Next]_vars
  PROVE  Onward
<1>1. status \in Late => status' \in Late
  BY StatusMoves DEF StatusOK, RunStatus, Late, Allowed, Lifecycle!Transitions
<1>2. status \in Late => items' = items
  BY RecordSteps DEF RecordStep, Late
<1>3. editorialOn' = editorialOn /\ (editorial \in Decided => editorial' = editorial /\ order' = order)
  <2>1. ASSUME NEW b \in Builders, BeginStep(b) PROVE editorial = "none"
    BY <2>1 DEF BeginStep, EditionOK
  <2>2. ASSUME NEW b \in Builders, FinishStep(b) PROVE editorial = "running"
    BY <2>2 DEF FinishStep
  <2> QED
    BY <2>1, <2>2, EditorialSteps DEF Decided
<1> QED
  BY <1>1, <1>2, <1>3 DEF Onward

-----------------------------------------------------------------------------
(* The builder that moves.                                                 *)

LEMMA EndsKept ==
  ASSUME PositionsOK, EditionOK, NEW b \in Builders, Ends(b) PROVE BuilderOK(b)'
<1>1. pc'[b] = "idle" /\ seen'[b] = "planned"
  BY DEF Ends, PositionsOK, EditionOK
<1> QED
  BY <1>1 DEF BuilderOK, Settled, Unread, Drafted, Late, MayCommit

\* Going on with a rendering and a status that are left as they were.
LEMMA StepKept ==
  ASSUME PositionsOK, NEW b \in Builders, BuilderOK(b), Onward,
         NEW step, pc' = [pc EXCEPT ![b] = step], UNCHANGED <<seen, draft>>,
         step \in Settled => pc[b] \in Settled,
         step \in Drafted => pc[b] \in Drafted,
         step \in Unread => pc[b] \in Unread,
         step \notin {"reloadEdited", "render"}, step = "commit" => MayCommit(b)
  PROVE  BuilderOK(b)'
<1>1. pc'[b] = step
  BY DEF PositionsOK
<1>2. /\ pc'[b] \in Settled => status' \in Late
      /\ seen'[b] \in Late => status' \in Late
      /\ pc'[b] \in Drafted => Honest(draft'[b])
  BY <1>1 DEF BuilderOK, Onward
<1>3. pc'[b] \in Unread => Shown(draft'[b]) = Picked'
  <2>1. pc[b] \in Unread => pc[b] \in Settled
    BY DEF Settled
  <2> QED
    BY <1>1, <2>1 DEF BuilderOK, Onward, Picked
<1>4. editorialOn' /\ MayCommit(b)' =>
        /\ editorial' \in Decided
        /\ editorial' = "fallback" => draft'[b].degraded = TRUE
  <2>1. MayCommit(b)' => step = "commit"
    BY <1>1 DEF MayCommit
  <2> QED
    BY <2>1 DEF BuilderOK, Onward
<1> QED
  BY <1>2, <1>3, <1>4 DEF BuilderOK

LEMMA EarlyStepsKept ==
  ASSUME PositionsOK, DraftsOK, EditionOK, NEW b \in Builders, BuilderOK(b), Onward,
         Open(b) \/ Lookup(b) \/ Refresh(b) \/ Advance(b) \/ Choose(b)
  PROVE  BuilderOK(b)'
<1> USE DEF PositionsOK, DraftsOK, EditionOK, At, Goto
<1>1. CASE Open(b)
  <2>1. pc'[b] = "lookup" /\ seen'[b] = status /\ status' = status
    BY <1>1 DEF Open, runVars
  <2> QED
    BY <2>1 DEF BuilderOK, Settled, Unread, Drafted, MayCommit
<1>2. CASE Lookup(b)
  <2>1. UNCHANGED <<seen, draft, status>>
    BY <1>2 DEF Lookup, runVars
  <2>2. \/ pc'[b] \in {"existing", "refresh", "advance", "choose"}
        \/ pc'[b] = "load" /\ seen[b] \in Late
    BY <1>2 DEF Lookup, RunStatus, Late
  <2> QED
    BY <2>1, <2>2 DEF BuilderOK, Settled, Unread, Drafted, MayCommit
<1>3. CASE Refresh(b) \/ Advance(b)
  <2>1. \/ Ends(b)
        \/ pc'[b] \in {"advance", "choose"} /\ seen'[b] \in {"refreshing", "selecting"}
    BY <1>3 DEF Refresh, Advance, Transition, Raises
  <2>2. CASE Ends(b)
    BY <2>2, EndsKept
  <2>3. CASE pc'[b] \in {"advance", "choose"} /\ seen'[b] \in {"refreshing", "selecting"}
    BY <2>3 DEF BuilderOK, Settled, Unread, Drafted, MayCommit, Late
  <2> QED
    BY <2>1, <2>2, <2>3
<1>4. CASE Choose(b)
  <2>1. pc'[b] = "freeze" /\ draft'[b] = Draft(Selected) /\ seen' = seen /\ status' = status
    BY <1>4 DEF Choose, runVars
  <2>2. Honest(draft'[b])
    BY <2>1, DraftHonest
  <2> QED
    BY <2>1, <2>2 DEF BuilderOK, Settled, Unread, MayCommit
<1> QED
  BY <1>1, <1>2, <1>3, <1>4

LEMMA ItemStepsKept ==
  ASSUME PositionsOK, DraftsOK, EditionOK, NEW b \in Builders, BuilderOK(b), Onward,
         Freeze(b) \/ Reload(b) \/ Load(b)
  PROVE  BuilderOK(b)'
<1> USE DEF PositionsOK, DraftsOK, EditionOK, At, Goto
<1>1. CASE Freeze(b)
  <2>1. CASE Ends(b)
    BY <2>1, EndsKept
  <2>2. CASE ~Ends(b)
    <3>1. /\ pc[b] = "freeze" /\ pc'[b] = "reloadFrozen" /\ seen' = seen /\ draft' = draft
          /\ items' = ItemsOf(draft[b]) /\ status' \in Late
      BY <1>1, <2>2 DEF Freeze, Raises, Late, runVars
    <3>2. Shown(draft'[b]) = Picked'
      BY <3>1, ItemsShow DEF Picked
    <3>3. Honest(draft'[b])
      BY <3>1 DEF BuilderOK, Drafted
    <3> QED
      BY <3>1, <3>2, <3>3 DEF BuilderOK, MayCommit
  <2> QED
    BY <2>1, <2>2
<1>2. CASE Reload(b) /\ pc[b] = "reloadFrozen"
  <2>1. /\ seen'[b] = status /\ draft' = draft
        /\ UNCHANGED <<status, items, editorialOn, editorial>>
        /\ \/ pc'[b] = "editorial"
           \/ pc'[b] = "render" /\ ~(editorialOn /\ seen'[b] \in {"frozen", "editorial"})
    BY <1>2 DEF Reload, AfterItems, runVars, editVars, inputVars
  <2>2. status \in Late /\ Honest(draft[b]) /\ Shown(draft[b]) = Picked
    BY <1>2 DEF BuilderOK, Settled, Drafted, Unread
  <2> QED
    BY <2>1, <2>2 DEF BuilderOK, Unread, MayCommit, Committable, Picked
<1>3. CASE Reload(b) /\ pc[b] = "reloadEdited"
  <2>1. /\ seen'[b] = status /\ draft' = draft
        /\ UNCHANGED <<status, editorialOn, editorial>>
        /\ pc'[b] = "render"
    BY <1>3 DEF Reload, runVars, editVars, inputVars
  <2>2. /\ status \in Late /\ Honest(draft[b])
        /\ editorialOn => editorial \in Decided /\ (editorial = "fallback" => draft[b].degraded = TRUE)
    BY <1>3 DEF BuilderOK, Settled, Drafted, MayCommit
  <2> QED
    BY <2>1, <2>2 DEF BuilderOK, Unread
<1>4. CASE Load(b)
  <2>1. /\ pc[b] = "load" /\ seen' = seen /\ draft'[b] = Draft(items)
        /\ UNCHANGED <<status, items, editorialOn, editorial>>
        /\ \/ pc'[b] = "editorial"
           \/ pc'[b] = "render" /\ ~(editorialOn /\ seen'[b] \in {"frozen", "editorial"})
    BY <1>4 DEF Load, AfterItems, runVars, editVars, inputVars
  <2>2. Honest(draft'[b]) /\ Shown(draft'[b]) = Picked
    BY <2>1, DraftHonest, DraftShows DEF Picked
  <2>3. status \in Late
    BY <2>1 DEF BuilderOK, Settled
  <2> QED
    BY <2>1, <2>2, <2>3 DEF BuilderOK, Unread, MayCommit, Committable, Picked
<1> QED
  BY <1>1, <1>2, <1>3, <1>4 DEF Reload

\* What a builder goes on with is honest, and degraded if it is a fallback.
LEMMA AdoptKept ==
  ASSUME PositionsOK, DraftsOK, EditionOK, NEW b \in Builders, BuilderOK(b), Onward,
         pc[b] \in Unread, seen' = seen,
         NEW decided, NEW ids, Adopt(b, decided, ids), editorial' = decided, decided \in Decided,
         decided = "succeeded" => \A i \in DOMAIN ids : ids[i] \in Shown(draft[b])
  PROVE  BuilderOK(b)'
<1>1. /\ pc'[b] = "reloadEdited"
      /\ draft'[b] = IF decided = "succeeded" THEN Edited(draft[b], ids) ELSE Fallback(draft[b])
  BY DEF Adopt, Goto, PositionsOK, DraftsOK
<1>2. Honest(draft[b]) /\ status' \in Late
  BY DEF BuilderOK, Unread, Settled, Drafted, Onward
<1>3. Honest(draft'[b]) /\ (decided = "fallback" => draft'[b].degraded = TRUE)
  <2>1. CASE decided = "succeeded"
    BY <1>1, <1>2, <2>1, EditedHonest
  <2>2. CASE decided # "succeeded"
    BY <1>1, <2>2, FallbackHonest
  <2> QED
    BY <2>1, <2>2
<1> QED
  BY <1>1, <1>2, <1>3 DEF BuilderOK, Unread, MayCommit

LEMMA PiStepsKept ==
  ASSUME PositionsOK, DraftsOK, EditionOK, NEW b \in Builders, BuilderOK(b), Onward,
         \/ ReadEditorial(b) \/ Begin(b) \/ CallPi(b) \/ PiEdits(b) \/ PiFails(b) \/ Interrupted(b)
  PROVE  BuilderOK(b)'
<1> USE DEF At, Goto
<1>1. CASE Ends(b)
  BY <1>1, EndsKept
<1>2. CASE ReadEditorial(b)
  <2>1. pc[b] = "editorial" /\ seen' = seen /\ editorial' = editorial
    BY <1>2 DEF ReadEditorial, editVars
  <2>2. CASE editorial \in {"none", "running"}
    <3>1. PICK step \in {"begin", "interrupted"} : pc' = [pc EXCEPT ![b] = step] /\ draft' = draft
      BY <1>2, <2>2 DEF ReadEditorial
    <3> QED
      BY <2>1, <3>1, StepKept DEF Settled, Drafted, Unread
  <2>3. CASE editorial \in Decided
    <3>1. Adopt(b, editorial, order)
      BY <1>2, <2>3 DEF ReadEditorial, Decided
    <3>2. pc[b] \in Unread /\ Shown(draft[b]) = Picked
      BY <2>1 DEF BuilderOK, Unread
    <3>3. editorial = "succeeded" => \A i \in DOMAIN order : order[i] \in Shown(draft[b])
      BY <3>2 DEF EditionOK
    <3> QED
      BY <2>1, <2>3, <3>1, <3>2, <3>3, AdoptKept
  <2> QED
    BY <2>2, <2>3 DEF EditionOK
<1>3. CASE (Begin(b) \/ CallPi(b)) /\ ~Ends(b)
  <2>1. PICK step \in {"pi", "finish"} : pc' = [pc EXCEPT ![b] = step] /\ UNCHANGED <<seen, draft>>
    BY <1>3 DEF Begin, CallPi, Raises
  <2>2. pc[b] \in {"begin", "pi"}
    BY <1>3 DEF Begin, CallPi
  <2> QED
    BY <2>1, <2>2, StepKept DEF Settled, Drafted, Unread
<1>4. CASE FinishStep(b)
  <2>1. PICK decided, ids : /\ editorial' = decided /\ Adopt(b, decided, ids)
                            /\ \/ decided = "succeeded" /\ ids \in Permuted(draft[b])
                               \/ decided = "fallback" /\ ids = <<>>
    BY <1>4 DEF FinishStep
  <2>2. pc[b] \in {"finish", "interrupted"}
    BY <1>4 DEF FinishStep, PiEdits, PiFails, Interrupted
  <2>3. seen' = seen
    BY <1>4 DEF FinishStep, PiEdits, PiFails, Interrupted, FinishEditorial, Raises, Adopt, Ends
  <2>4. decided = "succeeded" => \A i \in DOMAIN ids : ids[i] \in Shown(draft[b])
    BY <2>1 DEF Permuted, Shown
  <2> QED
    BY <2>1, <2>2, <2>3, <2>4, AdoptKept DEF Unread, Decided
<1>5. PiEdits(b) \/ PiFails(b) \/ Interrupted(b) => Ends(b) \/ FinishStep(b)
  BY DEF PiEdits, PiFails, Interrupted, FinishEditorial, FinishStep, Raises
<1> QED
  BY <1>1, <1>2, <1>3, <1>4, <1>5

LEMMA OutputStepsKept ==
  ASSUME PositionsOK, DraftsOK, EditionOK, NEW b \in Builders, BuilderOK(b), Onward,
         \/ WriteArtifact(b) \/ CheckArtifact(b) \/ RenderRaises(b) \/ Commit(b) \/ Enqueue(b)
         \/ Existing(b) \/ Crash(b)
  PROVE  BuilderOK(b)'
<1> USE DEF At, Goto
<1>1. CASE Ends(b)
  BY <1>1, EndsKept
<1>2. CASE WriteArtifact(b) \/ CheckArtifact(b)
  <2>1. PICK step \in {"commit", "enqueue"} : /\ pc' = [pc EXCEPT ![b] = step]
                                              /\ UNCHANGED <<seen, draft>> /\ pc[b] = "render"
                                              /\ step = "commit" => Committable(b)
    BY <1>2 DEF WriteArtifact, CheckArtifact
  <2> QED
    BY <2>1, StepKept DEF Settled, Drafted, Unread, MayCommit
<1>3. CASE Commit(b) /\ ~Ends(b)
  <2>1. /\ pc[b] = "commit" /\ pc'[b] = "enqueue" /\ draft' = draft
        /\ seen'[b] = status' /\ status' \in Late
    BY <1>3 DEF Commit, Raises, PositionsOK, EditionOK, Late
  <2> QED
    BY <2>1 DEF BuilderOK, Unread, Drafted, MayCommit
<1> QED
  BY <1>1, <1>2, <1>3 DEF RenderRaises, Enqueue, Existing, Crash, Raises

\* One builder moves at most, and the others keep what they have.
LEMMA OthersStay ==
  ASSUME PositionsOK, DraftsOK, EditionOK, NEW b \in Builders, Build(b) \/ Crash(b),
         NEW c \in Builders, c # b
  PROVE  pc'[c] = pc[c] /\ seen'[c] = seen[c] /\ draft'[c] = draft[c]
<1> USE DEF PositionsOK, DraftsOK, EditionOK, Goto, Ends, Raises
<1> DEFINE Stays == pc'[c] = pc[c] /\ seen'[c] = seen[c] /\ draft'[c] = draft[c]
<1>1. CASE Open(b) \/ Lookup(b) \/ Choose(b) \/ Reload(b) \/ Load(b)
  BY <1>1 DEF Open, Lookup, Choose, Reload, Load
<1>2. CASE Refresh(b) \/ Advance(b) \/ Freeze(b)
  BY <1>2 DEF Refresh, Advance, Transition, Freeze
<1>3. CASE ReadEditorial(b) \/ Begin(b) \/ CallPi(b)
  BY <1>3 DEF ReadEditorial, Adopt, Begin, CallPi
<1>4. CASE PiEdits(b) \/ PiFails(b) \/ Interrupted(b)
  BY <1>4 DEF PiEdits, PiFails, Interrupted, FinishEditorial, Adopt
<1>5. CASE WriteArtifact(b) \/ CheckArtifact(b) \/ RenderRaises(b)
  BY <1>5 DEF WriteArtifact, CheckArtifact, RenderRaises
<1>6. CASE Commit(b) \/ Enqueue(b) \/ Existing(b) \/ Crash(b)
  BY <1>6 DEF Commit, Enqueue, Existing, Crash
<1> QED
  BY <1>1, <1>2, <1>3, <1>4, <1>5, <1>6 DEF Build

LEMMA BuildersKept ==
  ASSUME ~IsRendering(NoRendering), StatusOK, PositionsOK, DraftsOK, EditionOK,
         \A b \in Builders : BuilderOK(b), [Next]_vars
  PROVE  \A b \in Builders : BuilderOK(b)'
<1>1. Onward
  BY OnwardAlways
<1>2. ASSUME NEW b \in Builders, Build(b) \/ Crash(b), NEW c \in Builders PROVE BuilderOK(c)'
  <2>1. CASE c = b
    BY <1>1, <1>2, <2>1, EarlyStepsKept, ItemStepsKept, PiStepsKept, OutputStepsKept DEF Build
  <2>2. CASE c # b
    BY <1>1, <1>2, <2>2, OthersStay, RivalKept
  <2> QED
    BY <2>1, <2>2
<1>3. ASSUME EnvironmentStep \/ UNCHANGED vars, NEW c \in Builders PROVE BuilderOK(c)'
  <2>1. UNCHANGED <<pc, seen, draft>>
    BY <1>3 DEF EnvironmentStep, ArticleChanges, TranslationBegins, TranslationSucceeds, FileLost,
                vars, procVars
  <2> QED
    BY <1>1, <2>1, RivalKept
<1> QED
  BY <1>2, <1>3 DEF Next, EnvironmentStep

-----------------------------------------------------------------------------
(* The edition.                                                            *)

LEMMA SeenKept ==
  ASSUME StatusOK, EditionOK, [Next]_vars PROVE seen' \in [Builders -> RunStatus]
<1> USE DEF EditionOK, StatusOK, Ends, Raises
<1> DEFINE Typed == seen' \in [Builders -> RunStatus]
<1>1. "planned" \in RunStatus
  BY DEF RunStatus
<1>2. ASSUME NEW b \in Builders, Open(b) \/ Lookup(b) \/ Choose(b) \/ Reload(b) \/ Load(b)
      PROVE  Typed
  BY <1>2 DEF Open, Lookup, Choose, Reload, Load
<1>3. ASSUME NEW b \in Builders, Refresh(b) \/ Advance(b) \/ Freeze(b) PROVE Typed
  BY <1>1, <1>3 DEF Refresh, Advance, Transition, Freeze, RunStatus
<1>4. ASSUME NEW b \in Builders, ReadEditorial(b) \/ Begin(b) \/ CallPi(b) PROVE Typed
  BY <1>1, <1>4 DEF ReadEditorial, Begin, CallPi
<1>5. ASSUME NEW b \in Builders, PiEdits(b) \/ PiFails(b) \/ Interrupted(b) PROVE Typed
  BY <1>1, <1>5 DEF PiEdits, PiFails, Interrupted, FinishEditorial
<1>6. ASSUME NEW b \in Builders, WriteArtifact(b) \/ CheckArtifact(b) \/ RenderRaises(b) PROVE Typed
  BY <1>1, <1>6 DEF WriteArtifact, CheckArtifact, RenderRaises
<1>7. ASSUME NEW b \in Builders, Commit(b) \/ Enqueue(b) \/ Existing(b) \/ Crash(b) PROVE Typed
  BY <1>1, <1>7 DEF Commit, Enqueue, Existing, Crash, RunStatus
<1>8. ASSUME EnvironmentStep \/ UNCHANGED vars PROVE Typed
  BY <1>8 DEF EnvironmentStep, ArticleChanges, TranslationBegins, TranslationSucceeds, FileLost,
              vars, procVars
<1> QED
  BY <1>2, <1>3, <1>4, <1>5, <1>6, <1>7, <1>8 DEF Next, Build, EnvironmentStep

\* What the edition records is written by Commit alone.
CommitStep(b) ==
  /\ pc[b] = "commit" /\ status \notin {"rendered", "degraded", "queued"}
  /\ digest' = draft[b]
  /\ status' = IF draft[b].degraded THEN "degraded" ELSE "rendered"
  /\ reason' = CASE editorial = "fallback" /\ editorialOn -> "editorial"
                 [] draft[b].degraded                     -> "translation"
                 [] OTHER                                 -> reason

LEMMA CommitSteps ==
  ASSUME StatusOK, [Next]_vars
  PROVE  \/ /\ UNCHANGED <<digest, reason>>
            /\ status' \in {"rendered", "degraded"} => status' = status
         \/ \E b \in Builders : CommitStep(b)
<1> USE DEF runVars, Raises
<1> DEFINE Quiet == /\ UNCHANGED <<digest, reason>>
                    /\ status' \in {"rendered", "degraded"} => status' = status
<1>1. ASSUME NEW b \in Builders, \/ Open(b) \/ Lookup(b) \/ Choose(b) \/ Reload(b) \/ Load(b)
                                \/ ReadEditorial(b) \/ CallPi(b) \/ Existing(b) \/ Crash(b)
      PROVE  Quiet
  BY <1>1 DEF Open, Lookup, Choose, Reload, Load, ReadEditorial, CallPi, Existing, Crash
<1>2. ASSUME NEW b \in Builders, PiEdits(b) \/ PiFails(b) \/ Interrupted(b)
      PROVE  Quiet
  BY <1>2 DEF PiEdits, PiFails, Interrupted, FinishEditorial
<1>3. ASSUME NEW b \in Builders, WriteArtifact(b) \/ CheckArtifact(b) \/ RenderRaises(b)
      PROVE  Quiet
  BY <1>3 DEF WriteArtifact, CheckArtifact, RenderRaises
<1>4. ASSUME NEW b \in Builders, Refresh(b) \/ Advance(b) \/ Freeze(b) \/ Begin(b) \/ Enqueue(b)
      PROVE  Quiet
  BY <1>4 DEF Refresh, Advance, Transition, Freeze, Begin, Enqueue
<1>5. ASSUME NEW b \in Builders, Commit(b) PROVE Quiet \/ CommitStep(b)
  <2>1. CASE UNCHANGED runVars
    BY <2>1
  <2>2. CASE ~UNCHANGED runVars
    <3>1. /\ pc[b] = "commit" /\ Allowed(status, status') /\ status' \in {"rendered", "degraded"}
          /\ digest' = draft[b]
          /\ status' = IF draft[b].degraded THEN "degraded" ELSE "rendered"
          /\ reason' = CASE editorial = "fallback" /\ editorialOn -> "editorial"
                         [] draft[b].degraded                     -> "translation"
                         [] OTHER                                 -> reason
      BY <1>5, <2>2 DEF Commit, At
    <3>2. status \notin {"rendered", "degraded", "queued"}
      BY <3>1 DEF Allowed, Lifecycle!Transitions
    <3> QED
      BY <3>1, <3>2 DEF CommitStep
  <2> QED
    BY <2>1, <2>2
<1>6. ASSUME EnvironmentStep \/ UNCHANGED vars PROVE Quiet
  BY <1>6 DEF EnvironmentStep, ArticleChanges, TranslationBegins, TranslationSucceeds, FileLost,
              vars
<1> QED
  BY <1>1, <1>2, <1>3, <1>4, <1>5, <1>6, NextSplit DEF QuietStep

LEMMA EditionKept ==
  ASSUME ~IsRendering(NoRendering), StatusOK, PositionsOK, DraftsOK, RecordOK, EditionOK,
         \A b \in Builders : BuilderOK(b), [Next]_vars
  PROVE  EditionOK'
<1>1. /\ seen' \in [Builders -> RunStatus] /\ editorialOn' \in BOOLEAN
      /\ Onward /\ RecordStep
  BY SeenKept, EditorialSteps, OnwardAlways, RecordSteps DEF EditionOK
<1>2. items' # <<>> => status' \in Late
  BY <1>1 DEF EditionOK, Onward, RecordStep, Late
<1>3. /\ editorial' \in {"none", "running"} \cup Decided
      /\ editorial' # "none" => status' \in Late \ {"frozen"}
  <2>1. status \in Late \ {"frozen"} => status' \in Late \ {"frozen"}
    BY <1>1, StatusMoves DEF Onward, StatusOK, RunStatus, Late, Allowed, Lifecycle!Transitions
  <2>2. CASE editorial' = editorial
    BY <2>1, <2>2 DEF EditionOK
  <2>3. ASSUME NEW b \in Builders, BeginStep(b)
        PROVE  editorial' = "running" /\ status' = "editorial"
    BY <2>3 DEF BeginStep, Begin
  <2>4. ASSUME NEW b \in Builders, FinishStep(b)
        PROVE  editorial = "running" /\ editorial' \in Decided
    BY <2>4 DEF FinishStep, Decided
  <2> QED
    BY <2>1, <2>2, <2>3, <2>4, EditorialSteps DEF EditionOK, Late
<1>4. editorial' = "succeeded" => \A i \in DOMAIN order' : order'[i] \in Picked'
  <2>1. status \in Late => Picked' = Picked
    BY <1>1 DEF Onward, Picked
  <2>2. CASE UNCHANGED <<editorial, order>>
    BY <2>1, <2>2 DEF EditionOK
  <2>3. ASSUME NEW b \in Builders, BeginStep(b) PROVE editorial' = "running"
    BY <2>3 DEF BeginStep, Begin
  <2>4. ASSUME NEW b \in Builders, FinishStep(b)
        PROVE  editorial' = "succeeded" => \A i \in DOMAIN order' : order'[i] \in Picked'
    <3>1. pc[b] \in Unread /\ editorial = "running"
      BY <2>4 DEF FinishStep, PiEdits, PiFails, Interrupted, At, Unread
    <3>2. Shown(draft[b]) = Picked /\ status \in Late
      BY <3>1 DEF BuilderOK, EditionOK
    <3>3. editorial' = "succeeded" => order' \in Permuted(draft[b])
      BY <2>4 DEF FinishStep
    <3>4. \A p \in Permuted(draft[b]) : \A i \in DOMAIN p : p[i] \in Shown(draft[b])
      BY DEF Permuted, Shown
    <3> QED
      BY <2>1, <3>2, <3>3, <3>4
  <2> QED
    BY <2>2, <2>3, <2>4, EditorialSteps
<1>5. /\ digest' = NoRendering => reason' = "none"
      /\ digest' # NoRendering => digest'.degraded = (reason' # "none")
      /\ status' = "rendered" => digest' # NoRendering /\ digest'.degraded = FALSE /\ Honest(digest')
  <2>1. CASE UNCHANGED <<digest, reason>> /\ (status' = "rendered" => status = "rendered")
    BY <2>1 DEF EditionOK
  <2>2. ASSUME NEW b \in Builders, CommitStep(b)
        PROVE  /\ digest' # NoRendering
               /\ digest'.degraded = (reason' # "none")
               /\ status' = "rendered" => digest'.degraded = FALSE /\ Honest(digest')
    <3>1. IsRendering(draft[b]) /\ Honest(draft[b])
      BY <2>2 DEF CommitStep, DraftsOK, BuilderOK, Drafted
    <3>2. digest = NoRendering /\ reason = "none"
      BY <2>2 DEF CommitStep, RecordOK, EditionOK
    <3>3. editorial = "fallback" /\ editorialOn => draft[b].degraded = TRUE
      BY <2>2 DEF CommitStep, BuilderOK, MayCommit, EditionOK
    <3>4. draft[b].degraded \in BOOLEAN
      BY <3>1 DEF Honest
    <3>5. digest' = draft[b] /\ draft[b] # NoRendering
      BY <2>2, <3>1 DEF CommitStep
    <3>6. CASE draft[b].degraded = TRUE
      <4>1. reason' \in {"editorial", "translation"} /\ status' = "degraded"
        BY <2>2, <3>6 DEF CommitStep
      <4> QED
        BY <3>5, <3>6, <4>1
    <3>7. CASE draft[b].degraded = FALSE
      <4>1. reason' = "none"
        BY <2>2, <3>2, <3>3, <3>7 DEF CommitStep, EditionOK
      <4> QED
        BY <3>1, <3>5, <3>7, <4>1
    <3> QED
      BY <3>4, <3>6, <3>7
  <2> QED
    BY <2>1, <2>2, CommitSteps
<1> QED
  BY <1>1, <1>2, <1>3, <1>4, <1>5 DEF EditionOK

LEMMA BuildersAlways ==
  ASSUME ~IsRendering(NoRendering)
  PROVE  Spec => [](EditionOK /\ \A b \in Builders : BuilderOK(b))
<1> DEFINE AllOK == EditionOK /\ \A b \in Builders : BuilderOK(b)
<1>1. Init => AllOK
  <2> SUFFICES ASSUME Init PROVE AllOK
    OBVIOUS
  <2>1. EditionOK
    BY BuildAssumption DEF Init, EditionOK, RunStatus, Late, Decided
  <2>2. ASSUME NEW b \in Builders PROVE BuilderOK(b)
    BY DEF Init, BuilderOK, Settled, Unread, Drafted, Late, MayCommit
  <2> QED
    BY <2>1, <2>2
<1>2. StatusOK /\ PositionsOK /\ DraftsOK /\ RecordOK /\ AllOK /\ [Next]_vars => AllOK'
  BY EditionKept, BuildersKept
<1> QED
  BY <1>1, <1>2, StatusAlways, PositionsAlways, DraftsAlways, RecordAlways, PTL DEF Spec

LEMMA EditionAlways ==
  ASSUME ~IsRendering(NoRendering)
  PROVE  Spec => []EditionOK
<1>1. (EditionOK /\ \A b \in Builders : BuilderOK(b)) => EditionOK
  OBVIOUS
<1> QED
  BY <1>1, BuildersAlways, PTL

\* An edition is only called complete if every section of it is translated, and a degraded
\* one says why, whichever builder of several recorded it and whatever Pi had answered.
THEOREM DegradedIsReportedAlways ==
  ASSUME ~IsRendering(NoRendering)
  PROVE  Spec => []DegradedIsReported
<1>1. EditionOK => DegradedIsReported
  BY DEF EditionOK, Honest, DegradedIsReported
<1> QED
  BY <1>1, EditionAlways, PTL

-----------------------------------------------------------------------------
(* Types.                                                                  *)

IsSheet(r) == r = NoRendering \/ IsRendering(r)

SheetsOK ==
  /\ IsSheet(digest) /\ IsSheet(payload) /\ IsSheet(file)
  /\ draft = [b \in Builders |-> draft[b]]
  /\ \A b \in Builders : IsSheet(draft[b])

\* A step leaves each rendering as it is, or puts one in its place.
LEMMA SheetsKept == ASSUME SheetsOK, [Next]_vars PROVE SheetsOK'
<1> USE DEF SheetsOK
<1>1. ASSUME NEW r PROVE IsSheet(NoRendering) /\ IsSheet(Fallback(r)) /\ IsSheet(Draft(r))
  BY DEF IsSheet, IsRendering, Fallback, Draft
<1>2. ASSUME NEW r, NEW ids PROVE IsSheet(Edited(r, ids))
  BY DEF IsSheet, IsRendering, Edited
<1>3. IsSheet(Rebuilt)
  BY DEF IsSheet, IsRendering, Edited, Rebuilt
<1>4. ASSUME NEW b \in Builders, NEW r, IsSheet(r),
             draft' = draft \/ draft' = [draft EXCEPT ![b] = r],
             NEW q \in {r, draft[b]},
             digest' \in {digest, q}, payload' \in {payload, q}, file' \in {file, q}
      PROVE  SheetsOK'
  BY <1>4
<1> USE DEF runVars, outVars, procVars
<1>5. ASSUME NEW b \in Builders, Ends(b), UNCHANGED <<digest, payload, file>> PROVE SheetsOK'
  <2>1. draft' = [draft EXCEPT ![b] = NoRendering]
    BY <1>5 DEF Ends
  <2> QED
    BY <1>1, <1>4, <1>5, <2>1
<1>6. ASSUME NEW b \in Builders, NEW decided, NEW ids, Adopt(b, decided, ids),
             UNCHANGED <<digest, payload, file>>
      PROVE  SheetsOK'
  <2>1. PICK r \in {Edited(draft[b], ids), Fallback(draft[b])} : draft' = [draft EXCEPT ![b] = r]
    BY <1>6 DEF Adopt
  <2>2. IsSheet(r)
    BY <1>1, <1>2
  <2> QED
    BY <1>4, <1>6, <2>1, <2>2
<1>7. ASSUME NEW b \in Builders, Open(b) \/ Lookup(b) \/ Reload(b) \/ CallPi(b) PROVE SheetsOK'
  BY <1>7 DEF Open, Lookup, Reload, CallPi
<1>8. ASSUME NEW b \in Builders, Choose(b) \/ Load(b) PROVE SheetsOK'
  <2>1. PICK chosen \in {Selected, items} : draft' = [draft EXCEPT ![b] = Draft(chosen)]
    BY <1>8 DEF Choose, Load
  <2>2. UNCHANGED <<digest, payload, file>> /\ IsSheet(Draft(chosen))
    BY <1>1, <1>8 DEF Choose, Load
  <2> QED
    BY <1>4, <2>1, <2>2
<1>9. ASSUME NEW b \in Builders, Refresh(b) \/ Advance(b) \/ Freeze(b) \/ Begin(b) PROVE SheetsOK'
  <2>1. UNCHANGED <<digest, payload, file>> /\ (draft' = draft \/ Ends(b))
    BY <1>9 DEF Refresh, Advance, Transition, Freeze, Begin, Raises
  <2> QED
    BY <1>5, <2>1
<1>10. ASSUME NEW b \in Builders, \/ ReadEditorial(b) \/ PiEdits(b) \/ PiFails(b) \/ Interrupted(b)
       PROVE  SheetsOK'
  <2>1. /\ UNCHANGED <<digest, payload, file>>
        /\ \/ draft' = draft
           \/ Ends(b)
           \/ \E decided, ids : Adopt(b, decided, ids)
    BY <1>10 DEF ReadEditorial, PiEdits, PiFails, Interrupted, FinishEditorial, Raises
  <2> QED
    BY <1>5, <1>6, <2>1
<1>11. ASSUME NEW b \in Builders, WriteArtifact(b) \/ CheckArtifact(b) PROVE SheetsOK'
  BY <1>11 DEF WriteArtifact, CheckArtifact
<1>12. ASSUME NEW b \in Builders, RenderRaises(b) \/ Crash(b) PROVE SheetsOK'
  BY <1>5, <1>12 DEF RenderRaises, Crash, Raises
<1>13. ASSUME NEW b \in Builders, Commit(b) PROVE SheetsOK'
  <2>1. CASE Ends(b)
    BY <1>5, <1>13, <2>1 DEF Commit, Raises
  <2>2. CASE ~Ends(b)
    <3>1. digest' = draft[b] /\ UNCHANGED <<draft, payload, file>>
      BY <1>13, <2>2 DEF Commit, Raises
    <3> QED
      BY <3>1
  <2> QED
    BY <2>1, <2>2
<1>14. ASSUME NEW b \in Builders, Enqueue(b) PROVE SheetsOK'
  <2>1. draft' = [draft EXCEPT ![b] = NoRendering]
    BY <1>14 DEF Enqueue, Raises, Ends
  <2>2. digest' = digest /\ file' = file /\ payload' \in {payload, draft[b]}
    BY <1>14 DEF Enqueue, Raises
  <2> QED
    BY <1>1, <1>4, <2>1, <2>2
<1>15. ASSUME NEW b \in Builders, Existing(b) PROVE SheetsOK'
  <2>1. draft' = [draft EXCEPT ![b] = NoRendering]
    BY <1>15 DEF Existing, Raises, Ends
  <2>2. digest' = digest /\ payload' = payload /\ file' \in {file, Rebuilt}
    BY <1>15 DEF Existing, Raises
  <2> QED
    BY <1>1, <1>3, <2>1, <2>2
<1>16. ASSUME EnvironmentStep \/ UNCHANGED vars PROVE SheetsOK'
  BY <1>1, <1>16 DEF EnvironmentStep, ArticleChanges, TranslationBegins, TranslationSucceeds,
                     FileLost, vars
<1> QED
  BY <1>7, <1>8, <1>9, <1>10, <1>11, <1>12, <1>13, <1>14, <1>15, <1>16
  DEF Next, Build, EnvironmentStep

\* Only a builder that starts is remembered, and only the articles drift.
LEMMA HistorySteps ==
  ASSUME [Next]_vars
  PROVE  /\ UNCHANGED overlapped \/ \E b \in Builders : Open(b)
         /\ UNCHANGED <<text, translated, drift>> \/ drift' = drift + 1
<1> USE DEF envVars, inputVars, Raises
<1> DEFINE Quiet == UNCHANGED <<text, translated, drift, overlapped>>
<1>1. ASSUME NEW b \in Builders, Lookup(b) \/ Choose(b) \/ Reload(b) \/ Load(b) \/ ReadEditorial(b)
      PROVE  Quiet
  BY <1>1 DEF Lookup, Choose, Reload, Load, ReadEditorial
<1>2. ASSUME NEW b \in Builders, Refresh(b) \/ Advance(b) \/ Freeze(b) \/ Begin(b) \/ CallPi(b)
      PROVE  Quiet
  BY <1>2 DEF Refresh, Advance, Transition, Freeze, Begin, CallPi
<1>3. ASSUME NEW b \in Builders, PiEdits(b) \/ PiFails(b) \/ Interrupted(b) PROVE Quiet
  BY <1>3 DEF PiEdits, PiFails, Interrupted, FinishEditorial
<1>4. ASSUME NEW b \in Builders, WriteArtifact(b) \/ CheckArtifact(b) \/ RenderRaises(b) PROVE Quiet
  BY <1>4 DEF WriteArtifact, CheckArtifact, RenderRaises
<1>5. ASSUME NEW b \in Builders, Commit(b) \/ Enqueue(b) \/ Existing(b) \/ Crash(b) PROVE Quiet
  BY <1>5 DEF Commit, Enqueue, Existing, Crash, Fault
<1>6. ASSUME NEW b \in Builders, Open(b) PROVE UNCHANGED <<text, translated, drift>>
  BY <1>6 DEF Open
<1>7. ASSUME NEW a \in Articles, ArticleChanges(a) \/ TranslationBegins(a) \/ TranslationSucceeds(a)
      PROVE  UNCHANGED overlapped /\ drift' = drift + 1
  BY <1>7 DEF ArticleChanges, TranslationBegins, TranslationSucceeds, Changes
<1>8. FileLost \/ UNCHANGED vars => Quiet
  BY DEF FileLost, Fault, vars
<1> QED
  BY <1>1, <1>2, <1>3, <1>4, <1>5, <1>6, <1>7, <1>8 DEF Next, Build

InputsOK ==
  /\ text \in [Articles -> Nat] /\ translated \in [Articles -> Nat]
  /\ reason \in {"none", "translation", "editorial"}
  /\ piCalls \in Nat /\ drift \in Nat /\ overlapped \in BOOLEAN

LEMMA InputsKept == ASSUME StatusOK, InputsOK, [Next]_vars PROVE InputsOK'
<1>1. text' \in [Articles -> Nat] /\ translated' \in [Articles -> Nat]
  <2>1. ASSUME NEW b \in Builders, Build(b) \/ Crash(b) PROVE UNCHANGED <<text, translated>>
    <3> USE DEF inputVars, Raises
    <3>1. CASE Open(b) \/ Lookup(b) \/ Choose(b) \/ Reload(b) \/ Load(b) \/ ReadEditorial(b)
      BY <3>1 DEF Open, Lookup, Choose, Reload, Load, ReadEditorial
    <3>2. CASE Refresh(b) \/ Advance(b) \/ Freeze(b) \/ Begin(b) \/ CallPi(b)
      BY <3>2 DEF Refresh, Advance, Transition, Freeze, Begin, CallPi
    <3>3. CASE PiEdits(b) \/ PiFails(b) \/ Interrupted(b)
      BY <3>3 DEF PiEdits, PiFails, Interrupted, FinishEditorial
    <3>4. CASE WriteArtifact(b) \/ CheckArtifact(b) \/ RenderRaises(b)
      BY <3>4 DEF WriteArtifact, CheckArtifact, RenderRaises
    <3>5. CASE Commit(b) \/ Enqueue(b) \/ Existing(b) \/ Crash(b)
      BY <3>5 DEF Commit, Enqueue, Existing, Crash
    <3> QED
      BY <2>1, <3>1, <3>2, <3>3, <3>4, <3>5 DEF Build
  <2>2. ASSUME NEW a \in Articles, ArticleChanges(a) \/ TranslationBegins(a) \/ TranslationSucceeds(a)
        PROVE  text' \in [Articles -> Nat] /\ translated' \in [Articles -> Nat]
    BY <2>2 DEF InputsOK, ArticleChanges, TranslationBegins, TranslationSucceeds
  <2>3. CASE FileLost \/ UNCHANGED vars
    BY <2>3 DEF FileLost, vars, inputVars, InputsOK
  <2> QED
    BY <2>1, <2>2, <2>3 DEF Next, InputsOK
<1>2. reason' \in {"none", "translation", "editorial"}
  BY CommitSteps DEF InputsOK, CommitStep
<1>3. piCalls' \in Nat
  <2>1. ASSUME NEW b \in Builders, CallPi(b) PROVE piCalls' \in Nat
    BY <2>1 DEF CallPi, InputsOK
  <2> QED
    BY <2>1, PiCalls DEF InputsOK
<1>4. drift' \in Nat
  BY HistorySteps DEF InputsOK
<1>5. overlapped' \in BOOLEAN
  <2>1. ASSUME NEW b \in Builders, Open(b) PROVE overlapped' \in BOOLEAN
    <3>1. overlapped' = (overlapped \/ \E c \in Builders \ {b} : ~At(c, "idle"))
      BY <2>1 DEF Open
    <3> QED
      BY <3>1, Zenon
  <2> QED
    BY <2>1, HistorySteps DEF InputsOK
<1> QED
  BY <1>1, <1>2, <1>3, <1>4, <1>5 DEF InputsOK

LEMMA InputsAlways == Spec => []InputsOK
<1>1. Init => InputsOK
  <2> SUFFICES ASSUME Init PROVE InputsOK
    OBVIOUS
  <2>1. text \in [Articles -> Nat] /\ translated \in [Articles -> Nat]
    BY DEF Init
  <2>2. overlapped \in BOOLEAN
    BY DEF Init
  <2> QED
    BY <2>1, <2>2 DEF Init, InputsOK
<1>2. InputsOK /\ StatusOK /\ [Next]_vars => InputsOK'
  BY InputsKept
<1> QED
  BY <1>1, <1>2, StatusAlways, PTL DEF Spec

\* Every variable keeps its type: whatever a digest, an outbox row, the artifact or a
\* builder holds is a whole rendering or none.
THEOREM TypeCorrect ==
  ASSUME ~IsRendering(NoRendering)
  PROVE  Spec => []TypeOK
<1>1. Init => SheetsOK
  BY DEF Init, SheetsOK, IsSheet
<1>2. SheetsOK /\ [Next]_vars => SheetsOK'
  BY SheetsKept
<1>3. SheetsOK /\ InputsOK /\ StatusOK /\ PositionsOK /\ EditionOK => TypeOK
  <2>1. ASSUME NEW r, IsSheet(r)
        PROVE  r = NoRendering \/ DOMAIN r = {"sections", "degraded", "edited"}
    BY <2>1 DEF IsSheet, IsRendering, Rendering
  <2> SUFFICES ASSUME SheetsOK, InputsOK, StatusOK, PositionsOK, EditionOK PROVE TypeOK
    OBVIOUS
  <2>2. \A r \in {digest, payload, file} \cup {draft[b] : b \in Builders} : IsSheet(r)
    BY DEF SheetsOK
  <2> QED
    BY <2>1, <2>2 DEF TypeOK, InputsOK, StatusOK, PositionsOK, EditionOK, Decided
<1> QED
  BY <1>1, <1>2, <1>3, InputsAlways, StatusAlways, PositionsAlways, EditionAlways, PTL DEF Spec

-----------------------------------------------------------------------------
(* The frozen articles.                                                    *)

IsList(f) == \E n \in Nat : f = [i \in 1..n |-> f[i]]

\* A list of items in which an article has one source.
IsSelection(its) ==
  /\ IsList(its)
  /\ \A i \in DOMAIN its : its[i] = [article |-> its[i].article, source |-> its[i].source]
  /\ \A i, j \in DOMAIN its : its[i].article = its[j].article => its[i] = its[j]

ItemSet(its) == {its[i] : i \in DOMAIN its}

\* A rendering of these items, in their order unless it is edited.
ShowsOf(r, its) ==
  /\ IsList(r.sections) /\ DOMAIN r.sections = DOMAIN its
  /\ ItemSet(ItemsOf(r)) = ItemSet(its)
  /\ ~r.edited => ItemsOf(r) = its

\* ... in their order.
PlainOf(r, its) == r.edited = FALSE /\ IsList(r.sections) /\ ItemsOf(r) = its

LEMMA SameLength ==
  ASSUME NEW f, NEW g, IsList(f), IsList(g), DOMAIN f = DOMAIN g
  PROVE  Len(f) = Len(g)
<1>1. PICK n \in Nat : f = [i \in 1..n |-> f[i]]
  BY DEF IsList
<1>2. PICK m \in Nat : g = [i \in 1..m |-> g[i]]
  BY DEF IsList
<1>3. Len(f) = n
  BY <1>1
<1>4. Len(g) = m
  BY <1>2
<1>5. n = m
  BY <1>1, <1>2
<1> QED
  BY <1>3, <1>4, <1>5

LEMMA PlainShows == ASSUME NEW r, NEW its, PlainOf(r, its) PROVE ShowsOf(r, its)
  BY DEF PlainOf, ShowsOf, ItemsOf

LEMMA DraftItems ==
  ASSUME NEW chosen, IsList(chosen)
  PROVE  /\ Draft(chosen).edited = FALSE /\ IsList(Draft(chosen).sections)
         /\ ItemsOf(Draft(chosen)) =
              [i \in DOMAIN chosen |-> [article |-> chosen[i].article, source |-> chosen[i].source]]
<1>1. /\ Draft(chosen).edited = FALSE
      /\ Draft(chosen).sections = SectionsOf(chosen)
  BY DEF Draft, Rendering
<1>2. /\ SectionsOf(chosen) = [i \in DOMAIN chosen |-> SectionsOf(chosen)[i]]
      /\ DOMAIN SectionsOf(chosen) = DOMAIN chosen
      /\ \A i \in DOMAIN chosen : /\ SectionsOf(chosen)[i].article = chosen[i].article
                                  /\ SectionsOf(chosen)[i].source = chosen[i].source
  BY DEF SectionsOf, Section
<1>3. IsList(SectionsOf(chosen))
  <2>1. PICK n \in Nat : chosen = [i \in 1..n |-> chosen[i]]
    BY DEF IsList
  <2>2. DOMAIN chosen = 1..n
    BY <2>1
  <2> QED
    BY <1>2, <2>2 DEF IsList
<1> QED
  BY <1>1, <1>2, <1>3 DEF ItemsOf

\* What _select gives: each article as it is shown at that moment.
LEMMA SelectedIsSelection == IsSelection(Selected)
<1> DEFINE size == IF Cardinality(Matching) < MaxSize THEN Cardinality(Matching) ELSE MaxSize
           Nth(k) == Ranked[CHOOSE i \in Matching : Place(i) = k]
<1>1. size \in Nat
  <2>1. IsFiniteSet(DOMAIN Ranked)
    BY BuildAssumption, FS_Interval
  <2>2. Matching \in SUBSET DOMAIN Ranked
    BY DEF Matching
  <2>3. Cardinality(Matching) \in Nat
    BY <2>1, <2>2, FS_Subset, FS_CardinalityType
  <2> QED
    BY <2>3, BuildAssumption
<1>2. Selected = [k \in 1..size |-> [article |-> Nth(k), source |-> SourceOf(Nth(k))]]
  BY DEF Selected
<1> HIDE DEF size, Nth
<1>3. DOMAIN Selected = 1..size
  BY <1>2
<1>4. ASSUME NEW k \in 1..size
      PROVE  /\ Selected[k] = [article |-> Selected[k].article, source |-> Selected[k].source]
             /\ Selected[k].source = SourceOf(Selected[k].article)
  BY <1>2
<1>5. IsList(Selected)
  BY <1>1, <1>2, <1>3 DEF IsList
<1>6. ASSUME NEW i \in 1..size, NEW j \in 1..size, Selected[i].article = Selected[j].article
      PROVE  Selected[i] = Selected[j]
  BY <1>4, <1>6
<1> QED
  BY <1>3, <1>4, <1>5, <1>6 DEF IsSelection

\* Freezing a draft of a selection freezes the selection.
LEMMA DraftOfSelection ==
  ASSUME NEW chosen, IsSelection(chosen)
  PROVE  PlainOf(Draft(chosen), chosen)
<1>1. chosen = [i \in DOMAIN chosen |-> chosen[i]]
  BY DEF IsSelection, IsList
<1>2. [i \in DOMAIN chosen |-> [article |-> chosen[i].article, source |-> chosen[i].source]] = chosen
  BY <1>1 DEF IsSelection
<1> QED
  BY <1>2, DraftItems DEF PlainOf, IsSelection

\* An order that Pi may give: by_id finds each frozen article, and all of them.
IsOrder(ids, its) ==
  /\ DOMAIN ids = DOMAIN its
  /\ {ids[i] : i \in DOMAIN ids} = {its[i].article : i \in DOMAIN its}

LEMMA PermutedIsOrder ==
  ASSUME NEW r, NEW its, PlainOf(r, its), NEW ids \in Permuted(r)
  PROVE  IsOrder(ids, its)
<1>1. /\ DOMAIN r.sections = DOMAIN its
      /\ \A i \in DOMAIN its : r.sections[i].article = its[i].article
  BY DEF PlainOf, ItemsOf
<1> DEFINE all == {r.sections[i].article : i \in DOMAIN r.sections}
<1>2. ids \in [DOMAIN r.sections -> all] /\ \A a \in all : \E i \in DOMAIN ids : ids[i] = a
  BY DEF Permuted
<1>3. all = {its[i].article : i \in DOMAIN its}
  BY <1>1
<1> HIDE DEF all
<1>4. DOMAIN ids = DOMAIN its /\ {ids[i] : i \in DOMAIN ids} = all
  BY <1>1, <1>2
<1> QED
  BY <1>3, <1>4 DEF IsOrder

LEMMA EditedShows ==
  ASSUME NEW r, NEW its, NEW ids, IsSelection(its), PlainOf(r, its), IsOrder(ids, its)
  PROVE  ShowsOf(Edited(r, ids), its)
<1> DEFINE new == Reordered(r.sections, ids)
           all == {r.sections[j] : j \in DOMAIN r.sections}
<1>1. /\ DOMAIN r.sections = DOMAIN its
      /\ \A i \in DOMAIN its : /\ r.sections[i].article = its[i].article
                               /\ r.sections[i].source = its[i].source
  BY DEF PlainOf, ItemsOf
<1>2. DOMAIN new = DOMAIN its /\ IsList(new)
  <2>1. new = [i \in DOMAIN its |-> new[i]]
    BY DEF Reordered, IsOrder
  <2>2. PICK n \in Nat : DOMAIN its = 1..n
    BY DEF IsSelection, IsList
  <2> HIDE DEF new
  <2> QED
    BY <2>1, <2>2 DEF IsList
<1>3. ASSUME NEW i \in DOMAIN its
      PROVE  \E j \in DOMAIN its : new[i] = r.sections[j] /\ its[j].article = ids[i]
  <2>1. PICK j \in DOMAIN its : its[j].article = ids[i]
    BY DEF IsOrder
  <2>2. \E x \in all : x.article = ids[i]
    BY <1>1, <2>1
  <2>3. new[i] = CHOOSE x \in all : x.article = ids[i]
    BY DEF Reordered, IsOrder
  <2> HIDE DEF all, new
  <2>4. new[i] \in all /\ new[i].article = ids[i]
    BY <2>2, <2>3
  <2> QED
    BY <1>1, <2>4 DEF all
<1>4. /\ Edited(r, ids).sections = new /\ Edited(r, ids).edited = TRUE
  BY DEF Edited, Rendering
<1> HIDE DEF new
<1> DEFINE shown == ItemsOf(Edited(r, ids))
<1>5. /\ DOMAIN shown = DOMAIN its
      /\ \A i \in DOMAIN its : shown[i] = [article |-> new[i].article, source |-> new[i].source]
  BY <1>2, <1>4 DEF ItemsOf
<1>6. ASSUME NEW i \in DOMAIN its, NEW j \in DOMAIN its,
             new[i] = r.sections[j]
      PROVE  shown[i] = its[j]
  BY <1>1, <1>5, <1>6 DEF IsSelection
<1> HIDE DEF shown
<1>7. ASSUME NEW i \in DOMAIN its PROVE shown[i] \in ItemSet(its)
  BY <1>3, <1>6 DEF ItemSet
<1>8. ASSUME NEW k \in DOMAIN its PROVE \E i \in DOMAIN its : shown[i] = its[k]
  <2>1. PICK i \in DOMAIN its : ids[i] = its[k].article
    BY DEF IsOrder
  <2>2. PICK j \in DOMAIN its : new[i] = r.sections[j] /\ its[j].article = ids[i]
    BY <1>3
  <2>3. its[j] = its[k]
    BY <2>1, <2>2 DEF IsSelection
  <2> QED
    BY <1>6, <2>2, <2>3
<1>9. ItemSet(shown) = ItemSet(its)
  BY <1>5, <1>7, <1>8 DEF ItemSet
<1> QED
  BY <1>2, <1>4, <1>9 DEF ShowsOf, shown

LEMMA FallbackShows ==
  ASSUME NEW r, NEW its, PlainOf(r, its) PROVE ShowsOf(Fallback(r), its)
<1>1. Fallback(r).sections = r.sections /\ Fallback(r).edited = r.edited
  BY DEF Fallback, Rendering
<1>2. ItemsOf(Fallback(r)) = ItemsOf(r)
  BY <1>1 DEF ItemsOf
<1> QED
  BY <1>1, <1>2, PlainShows DEF ShowsOf

\* What a builder holds shows the selection it may freeze, or the frozen one.
ListOK(b) ==
  /\ pc[b] = "freeze" => /\ PlainOf(draft[b], ItemsOf(draft[b]))
                         /\ IsSelection(ItemsOf(draft[b]))
  /\ pc[b] \in Unread => PlainOf(draft[b], items)
  /\ pc[b] \in {"reloadEdited", "render", "commit", "enqueue"} => ShowsOf(draft[b], items)

EditionListOK ==
  /\ IsSelection(items)
  /\ editorial = "succeeded" => IsOrder(order, items)
  /\ digest # NoRendering => ShowsOf(digest, items)

LEMMA ItemsSteps ==
  ASSUME [Next]_vars
  PROVE  items' = items \/ \E b \in Builders : pc[b] = "freeze" /\ items' = ItemsOf(draft[b])
<1> USE DEF runVars, Raises
<1>1. ASSUME NEW b \in Builders, Refresh(b) \/ Advance(b) \/ Begin(b) \/ Commit(b) \/ Enqueue(b)
      PROVE  items' = items
  BY <1>1 DEF Refresh, Advance, Transition, Begin, Commit, Enqueue
<1>2. ASSUME NEW b \in Builders, Freeze(b)
      PROVE  items' = items \/ (pc[b] = "freeze" /\ items' = ItemsOf(draft[b]))
  BY <1>2 DEF Freeze, At
<1>3. UNCHANGED vars => items' = items
  BY DEF vars
<1> QED
  BY <1>1, <1>2, <1>3, NextSplit, QuietLeavesTheRecord

LEMMA ListRival ==
  ASSUME NEW b, ListOK(b), BuilderOK(b), Onward, pc'[b] = pc[b], draft'[b] = draft[b]
  PROVE  ListOK(b)'
<1>1. pc[b] \in Settled => items' = items
  BY DEF BuilderOK, Onward
<1> QED
  BY <1>1 DEF ListOK, Settled, Unread

\* What the builder goes on with once Pi's answer is known shows the frozen articles.
LEMMA ListAdopted ==
  ASSUME PositionsOK, DraftsOK, NEW b \in Builders, IsSelection(items), items' = items,
         PlainOf(draft[b], items), NEW decided, NEW ids, Adopt(b, decided, ids),
         decided = "succeeded" => IsOrder(ids, items)
  PROVE  ListOK(b)'
<1>1. /\ pc'[b] = "reloadEdited"
      /\ draft'[b] = IF decided = "succeeded" THEN Edited(draft[b], ids) ELSE Fallback(draft[b])
  BY DEF Adopt, Goto, PositionsOK, DraftsOK
<1>2. ShowsOf(draft'[b], items)
  BY <1>1, EditedShows, FallbackShows
<1> QED
  BY <1>1, <1>2 DEF ListOK, Unread

LEMMA ListMover ==
  ASSUME PositionsOK, DraftsOK, EditionOK, EditionListOK, NEW b \in Builders,
         ListOK(b), BuilderOK(b), Onward, Build(b) \/ Crash(b)
  PROVE  ListOK(b)'
<1> USE DEF At, Goto, PositionsOK, DraftsOK
<1>1. pc[b] \in Settled => items' = items
  BY DEF BuilderOK, Onward
<1>2. CASE pc'[b] \notin Unread \cup {"freeze", "reloadEdited", "render", "commit", "enqueue"}
  BY <1>2 DEF ListOK
<1>3. CASE Ends(b)
  BY <1>2, <1>3 DEF Ends, Unread
<1>4. CASE Open(b) \/ Lookup(b) \/ Refresh(b) \/ Advance(b)
  <2>1. Ends(b) \/ pc'[b] \notin Unread \cup {"freeze", "reloadEdited", "render", "commit", "enqueue"}
    BY <1>4 DEF Open, Lookup, Refresh, Advance, Transition, Raises, Unread
  <2> QED
    BY <1>2, <1>3, <2>1
<1>5. CASE Choose(b)
  <2>1. pc'[b] = "freeze" /\ draft'[b] = Draft(Selected)
    BY <1>5 DEF Choose
  <2>2. PlainOf(draft'[b], Selected)
    BY <2>1, SelectedIsSelection, DraftOfSelection
  <2>3. ItemsOf(draft'[b]) = Selected
    BY <2>2 DEF PlainOf
  <2>4. PlainOf(draft'[b], ItemsOf(draft'[b])) /\ IsSelection(ItemsOf(draft'[b]))
    BY <2>2, <2>3, SelectedIsSelection
  <2> QED
    BY <2>1, <2>4 DEF ListOK, Unread
<1>6. CASE Freeze(b) /\ ~Ends(b)
  <2>1. /\ pc[b] = "freeze" /\ pc'[b] = "reloadFrozen" /\ draft'[b] = draft[b]
        /\ items' = ItemsOf(draft[b])
    BY <1>6 DEF Freeze, Raises, runVars
  <2>2. PlainOf(draft'[b], items')
    BY <2>1 DEF ListOK
  <2> QED
    BY <2>1, <2>2 DEF ListOK
<1>7. CASE Reload(b) \/ Load(b)
  <2>1. items' = items
    BY <1>1, <1>7 DEF Reload, Load, Settled, Unread
  <2>2. CASE Reload(b) /\ pc[b] = "reloadEdited"
    <3>1. pc'[b] = "render" /\ draft'[b] = draft[b]
      BY <2>2 DEF Reload
    <3> QED
      BY <2>1, <2>2, <3>1 DEF ListOK, Unread
  <2>3. ASSUME pc'[b] \in {"editorial", "render"}, PlainOf(draft'[b], items) PROVE ListOK(b)'
    <3>1. ShowsOf(draft'[b], items)
      BY <2>3, PlainShows
    <3> QED
      BY <2>1, <2>3, <3>1 DEF ListOK
  <2>4. CASE Reload(b) /\ pc[b] = "reloadFrozen"
    <3>1. pc'[b] \in {"editorial", "render"} /\ draft'[b] = draft[b]
      BY <2>4 DEF Reload, AfterItems
    <3>2. PlainOf(draft[b], items)
      BY <2>4 DEF ListOK, Unread
    <3> QED
      BY <2>3, <3>1, <3>2
  <2>5. CASE Load(b)
    <3>1. pc'[b] \in {"editorial", "render"} /\ draft'[b] = Draft(items)
      BY <2>5 DEF Load, AfterItems
    <3>2. PlainOf(Draft(items), items)
      BY DraftOfSelection DEF EditionListOK
    <3> QED
      BY <2>3, <3>1, <3>2
  <2> QED
    BY <1>7, <2>2, <2>4, <2>5 DEF Reload
<1>8. ASSUME pc[b] \in Unread, pc'[b] \in Unread, draft'[b] = draft[b] PROVE ListOK(b)'
  BY <1>1, <1>8 DEF ListOK, Settled, Unread
<1>9. CASE ReadEditorial(b)
  <2>1. pc[b] \in Unread /\ items' = items /\ PlainOf(draft[b], items)
    BY <1>9 DEF ReadEditorial, Unread, runVars, ListOK
  <2>2. \/ pc'[b] \in Unread /\ draft' = draft
        \/ Adopt(b, editorial, order)
    BY <1>9 DEF ReadEditorial, Unread
  <2> QED
    BY <1>8, <2>1, <2>2, ListAdopted DEF EditionListOK
<1>10. CASE (Begin(b) \/ CallPi(b)) /\ ~Ends(b)
  <2>1. pc[b] \in Unread /\ pc'[b] \in Unread /\ draft' = draft
    BY <1>10 DEF Begin, CallPi, Raises, Unread
  <2> QED
    BY <1>8, <2>1
<1>11. CASE FinishStep(b)
  <2>1. PICK decided, ids : /\ Adopt(b, decided, ids)
                            /\ \/ decided = "succeeded" /\ ids \in Permuted(draft[b])
                               \/ decided = "fallback" /\ ids = <<>>
    BY <1>11 DEF FinishStep
  <2>2. pc[b] \in {"finish", "interrupted"}
    BY <1>11 DEF FinishStep, PiEdits, PiFails, Interrupted
  <2>3. items' = items /\ PlainOf(draft[b], items)
    BY <1>1, <2>2 DEF ListOK, Settled, Unread
  <2>4. decided = "succeeded" => IsOrder(ids, items)
    BY <2>1, <2>3, PermutedIsOrder
  <2> QED
    BY <2>1, <2>3, <2>4, ListAdopted DEF EditionListOK
<1>12. CASE WriteArtifact(b) \/ CheckArtifact(b) \/ (Commit(b) /\ ~Ends(b))
  <2>1. /\ pc[b] \in {"render", "commit"} /\ pc'[b] \in {"commit", "enqueue"}
        /\ draft'[b] = draft[b]
    BY <1>12 DEF WriteArtifact, CheckArtifact, Commit, Raises
  <2>2. items' = items /\ ShowsOf(draft[b], items)
    BY <1>1, <2>1 DEF ListOK, Settled
  <2> QED
    BY <2>1, <2>2 DEF ListOK, Unread
<1>13. PiEdits(b) \/ PiFails(b) \/ Interrupted(b) => Ends(b) \/ FinishStep(b)
  BY DEF PiEdits, PiFails, Interrupted, FinishEditorial, FinishStep, Raises
<1>14. RenderRaises(b) \/ Enqueue(b) \/ Existing(b) \/ Crash(b) => Ends(b)
  BY DEF RenderRaises, Enqueue, Existing, Crash, Raises
<1> QED
  BY <1>3, <1>4, <1>5, <1>6, <1>7, <1>9, <1>10, <1>11, <1>12, <1>13, <1>14 DEF Build

LEMMA ListsKept ==
  ASSUME PositionsOK, DraftsOK, EditionOK, EditionListOK, Onward, [Next]_vars,
         \A b \in Builders : BuilderOK(b) /\ ListOK(b)
  PROVE  \A b \in Builders : ListOK(b)'
<1>1. ASSUME NEW b \in Builders, Build(b) \/ Crash(b), NEW c \in Builders PROVE ListOK(c)'
  <2>1. CASE c = b
    BY <1>1, <2>1, ListMover
  <2>2. CASE c # b
    BY <1>1, <2>2, OthersStay, ListRival
  <2> QED
    BY <2>1, <2>2
<1>2. ASSUME EnvironmentStep \/ UNCHANGED vars, NEW c \in Builders PROVE ListOK(c)'
  <2>1. UNCHANGED <<pc, draft>>
    BY <1>2 DEF EnvironmentStep, ArticleChanges, TranslationBegins, TranslationSucceeds, FileLost,
                vars, procVars
  <2> QED
    BY <2>1, ListRival
<1> QED
  BY <1>1, <1>2 DEF Next, EnvironmentStep

LEMMA EditionListKept ==
  ASSUME StatusOK, RecordOK, EditionOK, EditionListOK, Onward, [Next]_vars,
         \A b \in Builders : BuilderOK(b) /\ ListOK(b)
  PROVE  EditionListOK'
<1>1. IsSelection(items')
  BY ItemsSteps DEF EditionListOK, ListOK
<1>2. status \in Late => items' = items
  BY DEF Onward
<1>3. editorial' = "succeeded" => IsOrder(order', items')
  <2>1. CASE UNCHANGED <<editorial, order>>
    BY <1>2, <2>1 DEF EditionListOK, EditionOK
  <2>2. ASSUME NEW b \in Builders, BeginStep(b) PROVE editorial' = "running"
    BY <2>2 DEF BeginStep, Begin
  <2>3. ASSUME NEW b \in Builders, FinishStep(b), editorial' = "succeeded"
        PROVE  IsOrder(order', items')
    <3>1. pc[b] \in Unread /\ order' \in Permuted(draft[b])
      BY <2>3 DEF FinishStep, PiEdits, PiFails, Interrupted, At, Unread
    <3>2. status \in Late /\ PlainOf(draft[b], items)
      BY <3>1 DEF BuilderOK, Settled, ListOK
    <3>3. IsOrder(order', items)
      BY <3>1, <3>2, PermutedIsOrder
    <3> QED
      BY <1>2, <3>2, <3>3
  <2> QED
    BY <2>1, <2>2, <2>3, EditorialSteps
<1>4. digest' # NoRendering => ShowsOf(digest', items')
  <2>1. CASE digest' = digest
    BY <1>2, <2>1 DEF EditionListOK, RecordOK, Late
  <2>2. ASSUME NEW b \in Builders, CommitStep(b) PROVE ShowsOf(digest', items')
    <3>1. digest' = draft[b] /\ ShowsOf(draft[b], items) /\ status \in Late
      BY <2>2 DEF CommitStep, ListOK, BuilderOK, Settled
    <3> QED
      BY <1>2, <3>1
  <2> QED
    BY <2>1, <2>2, CommitSteps
<1> QED
  BY <1>1, <1>3, <1>4 DEF EditionListOK

\* The lists of every builder and of the edition, as an invariant.
Lists == EditionListOK /\ \A b \in Builders : ListOK(b)

LEMMA ListsAlways == ASSUME ~IsRendering(NoRendering) PROVE Spec => []Lists
<1> DEFINE AllOK == EditionOK /\ \A b \in Builders : BuilderOK(b)
<1> USE DEF Lists
<1>1. Init => Lists
  <2> SUFFICES ASSUME Init PROVE Lists
    OBVIOUS
  <2>1. IsSelection(<<>>)
    <3>1. <<>> = [i \in 1..0 |-> <<>>[i]]
      OBVIOUS
    <3> QED
      BY <3>1 DEF IsSelection, IsList
  <2> QED
    BY <2>1 DEF Init, EditionListOK, ListOK, Unread
<1>2. /\ StatusOK /\ PositionsOK /\ DraftsOK /\ RecordOK /\ AllOK /\ Lists /\ [Next]_vars
      => Lists'
  BY OnwardAlways, ListsKept, EditionListKept
<1> QED
  BY <1>1, <1>2, StatusAlways, PositionsAlways, DraftsAlways, RecordAlways, BuildersAlways,
     PTL DEF Spec

LEMMA ShowsItemsOf ==
  ASSUME NEW r, IsSelection(items), ShowsOf(r, items) PROVE ShowsItems(r)
<1>1. DOMAIN ItemsOf(r) = DOMAIN r.sections
  BY DEF ItemsOf
<1>2. {ItemsOf(r)[i] : i \in DOMAIN r.sections} = ItemSet(ItemsOf(r))
  BY <1>1 DEF ItemSet
<1>3. Len(r.sections) = Len(items)
  BY SameLength DEF ShowsOf, IsSelection
<1> QED
  BY <1>2, <1>3 DEF ShowsOf, ShowsItems, ItemSet

\* The digest that was recorded, whichever builder recorded it and whatever changed since
\* the items were frozen, is of exactly the frozen articles: each once, with the source it
\* was frozen with, in the frozen order unless Pi gave another.
THEOREM ShowsFrozenArticlesAlways ==
  ASSUME ~IsRendering(NoRendering)
  PROVE  Spec => []ShowsFrozenArticles
<1>1. Lists => ShowsFrozenArticles
  BY ShowsItemsOf DEF Lists, EditionListOK, ShowsFrozenArticles, ShowsOf
<1> QED
  BY <1>1, ListsAlways, PTL

-----------------------------------------------------------------------------
(* The artifact on disk while no two builders have overlapped.             *)

\* Builder b takes a step while all others have ended.
Alone(b) == \A c \in Builders \ {b} : pc[c] = "idle" /\ pc'[c] = "idle"

Recorded == {"rendered", "degraded", "queued"}

\* The strengthening of ArtifactIntact: a builder that has not seen a recorded edition
\* works on one that is not recorded, and what it is about to commit is what it wrote.
ArtifactOK ==
  /\ status \in Recorded => file \in {digest, NoRendering}
  /\ \A b \in Builders :
       /\ pc[b] # "idle" /\ seen[b] \notin Recorded => status \notin Recorded
       /\ pc[b] = "commit" => file \in {draft[b], NoRendering}

\* A builder that only reads, or calls Pi: record and file stay, and what it has seen
\* is what is there.
LEMMA ReadingKeepsArtifact ==
  ASSUME PositionsOK, EditionOK, ArtifactOK, NEW b \in Builders, Alone(b),
         UNCHANGED <<status, digest, file>>,
         \/ Ends(b)
         \/ /\ \E step \in Steps \ {"commit"} : pc' = [pc EXCEPT ![b] = step]
            /\ \/ seen' = [seen EXCEPT ![b] = status]
               \/ seen' = seen /\ pc[b] # "idle"
  PROVE  ArtifactOK'
<1>1. \A c \in Builders : c = b \/ pc'[c] = "idle"
  BY DEF Alone
<1>2. CASE Ends(b)
  BY <1>1, <1>2 DEF Ends, ArtifactOK, PositionsOK
<1>3. ASSUME NEW step \in Steps \ {"commit"}, pc' = [pc EXCEPT ![b] = step],
             seen' = [seen EXCEPT ![b] = status] \/ (seen' = seen /\ pc[b] # "idle")
      PROVE  ArtifactOK'
  <2>1. pc'[b] # "commit"
    BY <1>3 DEF PositionsOK
  <2>2. seen'[b] \notin Recorded => status' \notin Recorded
    BY <1>3 DEF ArtifactOK, EditionOK
  <2> QED
    BY <1>1, <2>1, <2>2 DEF ArtifactOK
<1> QED
  BY <1>2, <1>3

\* A step of the record before it is rendered.
LEMMA EarlyKeepsArtifact ==
  ASSUME PositionsOK, EditionOK, ArtifactOK, NEW b \in Builders, Alone(b),
         Refresh(b) \/ Advance(b) \/ Freeze(b) \/ Begin(b)
  PROVE  ArtifactOK'
<1> USE DEF Raises, runVars, outVars
<1>1. CASE Ends(b)
  <2>1. pc'[b] = "idle"
    BY <1>1 DEF Ends, PositionsOK
  <2>2. UNCHANGED <<status, digest, file>>
    BY <2>1 DEF Refresh, Advance, Transition, Freeze, Begin, Goto, PositionsOK
  <2> QED
    BY <1>1, <2>2, ReadingKeepsArtifact
<1>2. CASE ~Ends(b)
  <2>1. status' \notin Recorded \/ (status' = status /\ pc[b] # "idle" /\ seen' = seen)
    BY <1>2 DEF Refresh, Advance, Transition, Freeze, Begin, Recorded, At
  <2>2. pc'[b] # "commit"
    BY <1>2 DEF Refresh, Advance, Transition, Freeze, Begin, Goto, PositionsOK
  <2>3. file' = file /\ digest' = digest
    BY <1>2 DEF Refresh, Advance, Transition, Freeze, Begin
  <2>4. \A c \in Builders : c = b \/ pc'[c] = "idle"
    BY DEF Alone
  <2> QED
    BY <2>1, <2>2, <2>3, <2>4 DEF ArtifactOK
<1> QED
  BY <1>1, <1>2

\* Writing the artifact, committing it, and writing it again.
LEMMA WritingKeepsArtifact ==
  ASSUME PositionsOK, DraftsOK, EditionOK, ArtifactOK, NEW b \in Builders, Alone(b),
         WriteArtifact(b) \/ CheckArtifact(b) \/ Commit(b) \/ Enqueue(b) \/ Existing(b)
  PROVE  ArtifactOK'
<1> USE DEF Raises, runVars, outVars
<1>1. \A c \in Builders : c = b \/ pc'[c] = "idle"
  BY DEF Alone
<1>2. CASE WriteArtifact(b)
  <2>1. /\ seen[b] \notin Recorded /\ pc[b] # "idle" /\ file' = draft'[b]
        /\ UNCHANGED <<status, digest, seen>>
    BY <1>2 DEF WriteArtifact, Committable, Recorded, At
  <2> QED
    BY <1>1, <2>1 DEF ArtifactOK
<1>3. CASE CheckArtifact(b)
  <2>1. /\ seen[b] \in Recorded /\ file' = digest' /\ pc'[b] = "enqueue"
        /\ UNCHANGED <<status, digest, seen>>
    BY <1>3 DEF CheckArtifact, Rendered, Recorded, At, Goto, PositionsOK
  <2> QED
    BY <1>1, <2>1 DEF ArtifactOK
<1>4. CASE Commit(b) /\ ~Ends(b)
  <2>1. /\ pc[b] = "commit" /\ pc'[b] = "enqueue" /\ digest' = draft[b]
        /\ file' = file /\ seen'[b] \in Recorded
    BY <1>4 DEF Commit, At, Goto, PositionsOK, EditionOK, Recorded
  <2>2. file \in {draft[b], NoRendering}
    BY <2>1 DEF ArtifactOK
  <2> QED
    BY <1>1, <2>1, <2>2 DEF ArtifactOK
<1>5. CASE Enqueue(b) /\ UNCHANGED file
  <2>1. /\ digest' = digest /\ pc'[b] = "idle"
        /\ status' = status \/ status \in Recorded
    BY <1>5 DEF Enqueue, Ends, PositionsOK, Recorded
  <2> QED
    BY <1>1, <1>5, <2>1 DEF ArtifactOK
<1>6. CASE Existing(b)
  <2>1. /\ UNCHANGED <<status, digest>> /\ pc'[b] = "idle"
        /\ file' \in {file, digest}
    BY <1>6 DEF Existing, Reproducible, Ends, PositionsOK
  <2> QED
    BY <1>1, <2>1 DEF ArtifactOK
<1>7. CASE Commit(b) /\ Ends(b)
  <2>1. pc'[b] = "idle"
    BY <1>7 DEF Ends, PositionsOK
  <2>2. UNCHANGED <<status, digest, file>>
    BY <1>7, <2>1 DEF Commit, Goto, PositionsOK
  <2> QED
    BY <1>7, <2>2, ReadingKeepsArtifact
<1>8. Enqueue(b) => UNCHANGED file
  BY DEF Enqueue
<1> QED
  BY <1>2, <1>3, <1>4, <1>5, <1>6, <1>7, <1>8

\* Builders that never overlapped take turns, ...
LoneOK == ~overlapped => \A b, c \in Builders : pc[b] # "idle" /\ pc[c] # "idle" => b = c

LEMMA AloneMoves ==
  ASSUME PositionsOK, DraftsOK, EditionOK, LoneOK, ~overlapped', [Next]_vars,
         NEW b \in Builders, Build(b) \/ Crash(b)
  PROVE  Alone(b) /\ ~overlapped
<1>1. CASE Open(b)
  <2>1. ~overlapped /\ \A c \in Builders \ {b} : pc[c] = "idle"
    BY <1>1 DEF Open, At
  <2> QED
    BY <2>1, OthersStay DEF Alone
<1>2. CASE ~Open(b)
  <2>1. pc[b] # "idle"
    <3> USE DEF At
    <3>1. CASE Lookup(b) \/ Choose(b) \/ Reload(b) \/ Load(b) \/ ReadEditorial(b)
      BY <3>1 DEF Lookup, Choose, Reload, Load, ReadEditorial
    <3>2. CASE Refresh(b) \/ Advance(b) \/ Freeze(b) \/ Begin(b) \/ CallPi(b)
      BY <3>2 DEF Refresh, Advance, Transition, Freeze, Begin, CallPi
    <3>3. CASE PiEdits(b) \/ PiFails(b) \/ Interrupted(b)
      BY <3>3 DEF PiEdits, PiFails, Interrupted
    <3>4. CASE WriteArtifact(b) \/ CheckArtifact(b) \/ RenderRaises(b)
      BY <3>4 DEF WriteArtifact, CheckArtifact, RenderRaises
    <3>5. CASE Commit(b) \/ Enqueue(b) \/ Existing(b) \/ Crash(b)
      BY <3>5 DEF Commit, Enqueue, Existing, Crash
    <3> QED
      BY <1>2, <3>1, <3>2, <3>3, <3>4, <3>5 DEF Build
  <2>2. ~overlapped
    <3>1. ASSUME NEW c \in Builders, Open(c) PROVE ~overlapped
      BY <3>1 DEF Open
    <3> QED
      BY <3>1, HistorySteps
  <2>3. \A c \in Builders \ {b} : pc[c] = "idle"
    BY <2>1, <2>2 DEF LoneOK
  <2> QED
    BY <2>2, <2>3, OthersStay DEF Alone
<1> QED
  BY <1>1, <1>2

\* ... and one that takes its turn leaves the artifact as it is recorded.
LoneArtifact == LoneOK /\ (~overlapped => ArtifactOK)

LEMMA ArtifactKept ==
  ASSUME PositionsOK, DraftsOK, EditionOK, LoneArtifact, [Next]_vars
  PROVE  LoneArtifact'
<1> USE DEF Raises, runVars, outVars, Goto, At
<1> SUFFICES ASSUME ~overlapped'
             PROVE  ArtifactOK' /\ \A b, c \in Builders : pc'[b] # "idle" /\ pc'[c] # "idle" => b = c
  BY DEF LoneArtifact, LoneOK
<1>1. ASSUME NEW b \in Builders, Build(b) \/ Crash(b)
      PROVE  ArtifactOK' /\ \A a, c \in Builders : pc'[a] # "idle" /\ pc'[c] # "idle" => a = c
  <2>0. Alone(b) /\ ~overlapped
    BY <1>1, AloneMoves DEF LoneArtifact
  <2>1. ArtifactOK
    BY <2>0 DEF LoneArtifact
  <2>2. \A a, c \in Builders : pc'[a] # "idle" /\ pc'[c] # "idle" => a = c
    BY <2>0 DEF Alone
  <2>3. CASE Open(b) \/ Lookup(b) \/ Choose(b)
    BY <2>0, <2>1, <2>2, <2>3, ReadingKeepsArtifact DEF Open, Lookup, Choose, Steps
  <2>4. CASE Reload(b) \/ Load(b)
    BY <2>0, <2>1, <2>2, <2>4, ReadingKeepsArtifact DEF Reload, Load, AfterItems, Steps
  <2>5. CASE ReadEditorial(b) \/ CallPi(b)
    BY <2>0, <2>1, <2>2, <2>5, ReadingKeepsArtifact DEF ReadEditorial, Adopt, CallPi, Steps
  <2>6. CASE PiEdits(b) \/ PiFails(b) \/ Interrupted(b)
    BY <2>0, <2>1, <2>2, <2>6, ReadingKeepsArtifact
    DEF PiEdits, PiFails, Interrupted, FinishEditorial, Adopt, Steps
  <2>7. CASE RenderRaises(b) \/ Crash(b)
    BY <2>0, <2>1, <2>2, <2>7, ReadingKeepsArtifact DEF RenderRaises, Crash
  <2> QED
    BY <1>1, <2>0, <2>1, <2>2, <2>3, <2>4, <2>5, <2>6, <2>7, EarlyKeepsArtifact, WritingKeepsArtifact
    DEF Build
<1>2. ASSUME EnvironmentStep \/ UNCHANGED vars
      PROVE  ArtifactOK' /\ \A b, c \in Builders : pc'[b] # "idle" /\ pc'[c] # "idle" => b = c
  <2>1. UNCHANGED <<status, digest, pc, seen, draft, overlapped>> /\ file' \in {file, NoRendering}
    BY <1>2 DEF EnvironmentStep, ArticleChanges, TranslationBegins, TranslationSucceeds, FileLost,
                vars, procVars, envVars, Changes, Fault
  <2>2. ArtifactOK /\ \A b, c \in Builders : pc[b] # "idle" /\ pc[c] # "idle" => b = c
    BY <2>1 DEF LoneArtifact, LoneOK
  <2> QED
    BY <2>1, <2>2 DEF ArtifactOK
<1> QED
  BY <1>1, <1>2 DEF Next, EnvironmentStep

LEMMA LoneAlways == ASSUME ~IsRendering(NoRendering) PROVE Spec => []LoneArtifact
<1>1. Init => LoneArtifact
  BY DEF Init, LoneArtifact, LoneOK, ArtifactOK, Recorded
<1>2. PositionsOK /\ DraftsOK /\ EditionOK /\ LoneArtifact /\ [Next]_vars => LoneArtifact'
  BY ArtifactKept
<1> QED
  BY <1>1, <1>2, PositionsAlways, DraftsAlways, EditionAlways, PTL DEF Spec

-----------------------------------------------------------------------------
(* The artifact on disk while the articles stay as they are.               *)

\* The artifact that every builder arrives at: the frozen articles, with Pi's
\* answer or without.
Target ==
  IF ~editorialOn THEN Draft(items)
  ELSE IF editorial = "succeeded" THEN Edited(Draft(items), order) ELSE Fallback(Draft(items))

\* What it depends on is decided.
Final == status \in Late /\ (editorialOn => editorial \in Decided)

Editing == {"editorial", "begin", "interrupted", "pi", "finish", "reloadEdited"}

SteadyBuilder(b) ==
  /\ pc[b] = "freeze" => draft[b] = Draft(Selected)
  /\ pc[b] \in Unread => draft[b] = Draft(items)
  /\ pc[b] \in Editing => editorialOn
  /\ MayCommit(b) => draft[b] = Target

SteadyRecord ==
  /\ digest # NoRendering => Final /\ digest = Target
  /\ file # NoRendering => Final /\ file = Target

Steady == drift = 0 => SteadyRecord /\ \A b \in Builders : SteadyBuilder(b)

LEMMA DraftStays ==
  ASSUME UNCHANGED <<text, translated, items>> PROVE Draft(items)' = Draft(items)
BY DEF Draft, SectionsOf, Section, Rendering

LEMMA SelectedStays ==
  ASSUME UNCHANGED <<text, translated>>
  PROVE  /\ Draft(Selected)' = Draft(Selected)
         /\ items' = Selected => Draft(items)' = Draft(Selected)
<1>1. Selected' = Selected
  BY DEF Selected, Matching, Qualifies, Place, SourceOf
<1> QED
  BY <1>1 DEF Draft, SectionsOf, Section, Rendering

LEMMA TargetStays ==
  ASSUME UNCHANGED <<text, translated>>, Onward, Final PROVE Final' /\ Target' = Target
<1>1. items' = items /\ editorialOn' = editorialOn /\ Final'
  BY DEF Onward, Final
<1>2. Draft(items)' = Draft(items)
  BY <1>1, DraftStays
<1>3. editorialOn => editorial' = editorial /\ order' = order
  BY DEF Onward, Final
<1>4. CASE ~editorialOn
  BY <1>1, <1>2, <1>4 DEF Target
<1>5. CASE editorialOn
  <2>1. /\ Fallback(Draft(items))' = Fallback(Draft(items))
        /\ Edited(Draft(items), order)' = Edited(Draft(items), order)
    BY <1>2, <1>3, <1>5 DEF Edited, Fallback, Reordered, Rendering
  <2> QED
    BY <1>1, <1>3, <1>5, <2>1 DEF Target
<1> QED
  BY <1>1, <1>4, <1>5

LEMMA FinalHolds ==
  ASSUME NEW b, BuilderOK(b), MayCommit(b) PROVE Final
BY DEF BuilderOK, MayCommit, Settled, Final

LEMMA SteadyRival ==
  ASSUME NEW b, SteadyBuilder(b), BuilderOK(b), Onward, UNCHANGED <<text, translated>>,
         pc'[b] = pc[b], seen'[b] = seen[b], draft'[b] = draft[b]
  PROVE  SteadyBuilder(b)'
<1>1. pc'[b] = "freeze" => draft'[b] = Draft(Selected)'
  BY SelectedStays DEF SteadyBuilder
<1>2. pc'[b] \in Unread => draft'[b] = Draft(items)'
  <2>1. pc[b] \in Unread => items' = items
    BY DEF BuilderOK, Onward, Settled
  <2> QED
    BY <2>1, DraftStays DEF SteadyBuilder
<1>3. pc'[b] \in Editing => editorialOn'
  BY DEF SteadyBuilder, Onward
<1>4. MayCommit(b)' => draft'[b] = Target'
  <2>1. MayCommit(b)' => MayCommit(b)
    BY DEF MayCommit, Committable
  <2> QED
    BY <2>1, FinalHolds, TargetStays DEF SteadyBuilder
<1> QED
  BY <1>1, <1>2, <1>3, <1>4 DEF SteadyBuilder

\* A builder adopts the answer that is recorded with it or before it.
LEMMA SteadyAdopted ==
  ASSUME PositionsOK, DraftsOK, EditionOK, NEW b \in Builders, BuilderOK(b), SteadyBuilder(b), Onward,
         UNCHANGED <<text, translated>>, pc[b] \in Unread \cap Editing,
         NEW decided, NEW ids, Adopt(b, decided, ids), editorial' = decided, order' = ids
  PROVE  SteadyBuilder(b)'
<1>1. /\ pc'[b] = "reloadEdited"
      /\ draft'[b] = IF decided = "succeeded" THEN Edited(draft[b], ids) ELSE Fallback(draft[b])
  BY DEF Adopt, Goto, PositionsOK, DraftsOK
<1>2. items' = items /\ editorialOn' = editorialOn /\ editorialOn /\ draft[b] = Draft(items)
  BY DEF BuilderOK, SteadyBuilder, Onward, Settled
<1>3. Draft(items)' = draft[b]
  BY <1>2, DraftStays
<1>4. Target' = draft'[b]
  BY <1>1, <1>2, <1>3 DEF Target, Edited, Fallback, Reordered, Rendering
<1> QED
  BY <1>1, <1>2, <1>4 DEF SteadyBuilder, Unread

LEMMA SteadyMover ==
  ASSUME PositionsOK, DraftsOK, EditionOK, NEW b \in Builders, BuilderOK(b), SteadyBuilder(b),
         Onward, UNCHANGED <<text, translated>>, Build(b) \/ Crash(b)
  PROVE  SteadyBuilder(b)'
<1> USE DEF At, Goto, PositionsOK, DraftsOK
<1> DEFINE Watched == Unread \cup Editing \cup {"freeze", "render", "commit"}
<1>1. CASE pc'[b] \notin Watched
  BY <1>1 DEF SteadyBuilder, MayCommit, Editing
<1>2. CASE Ends(b)
  BY <1>1, <1>2 DEF Ends, Unread, Editing
<1>3. CASE Open(b) \/ Lookup(b) \/ Refresh(b) \/ Advance(b)
  <2>1. Ends(b) \/ pc'[b] \notin Watched
    BY <1>3 DEF Open, Lookup, Refresh, Advance, Transition, Raises, Unread, Editing
  <2> QED
    BY <1>1, <1>2, <2>1
<1>4. CASE Choose(b)
  <2>1. pc'[b] = "freeze" /\ draft'[b] = Draft(Selected)
    BY <1>4 DEF Choose
  <2> QED
    BY <2>1, SelectedStays DEF SteadyBuilder, Unread, Editing, MayCommit
<1>5. CASE Freeze(b) /\ ~Ends(b)
  <2>1. /\ pc[b] = "freeze" /\ pc'[b] = "reloadFrozen" /\ draft'[b] = draft[b]
        /\ items' = ItemsOf(draft[b])
    BY <1>5 DEF Freeze, Raises, runVars
  <2>2. draft[b] = Draft(Selected) /\ ItemsOf(draft[b]) = Selected
    BY <2>1, SelectedIsSelection, DraftOfSelection DEF SteadyBuilder, PlainOf
  <2>3. Draft(items)' = draft'[b]
    BY <2>1, <2>2, SelectedStays
  <2> QED
    BY <2>1, <2>3 DEF SteadyBuilder, Editing, MayCommit
<1>6. CASE Reload(b) /\ pc[b] = "reloadEdited"
  <2>1. pc'[b] = "render" /\ draft'[b] = draft[b] /\ MayCommit(b)
    BY <1>6 DEF Reload, MayCommit
  <2> QED
    BY <2>1, FinalHolds, TargetStays DEF SteadyBuilder, Unread, Editing
<1>7. CASE (Reload(b) /\ pc[b] = "reloadFrozen") \/ Load(b)
  <2>1. /\ items' = items /\ draft'[b] = Draft(items) /\ status \in Late
        /\ UNCHANGED <<status, editorialOn, editorial, order>>
    BY <1>7 DEF Reload, Load, SteadyBuilder, BuilderOK, Unread, Settled, runVars, editVars, inputVars
  <2>2. \/ pc'[b] = "editorial" /\ editorialOn
        \/ pc'[b] = "render" /\ ~(editorialOn /\ seen'[b] \in {"frozen", "editorial"})
    BY <1>7 DEF Reload, Load, AfterItems, EditionOK
  <2>3. draft'[b] = Draft(items)'
    BY <2>1, DraftStays
  <2>4. MayCommit(b)' => ~editorialOn
    BY <2>2 DEF MayCommit, Committable
  <2>5. MayCommit(b)' => draft'[b] = Target'
    BY <2>1, <2>3, <2>4 DEF Target
  <2> QED
    BY <2>1, <2>2, <2>3, <2>5 DEF SteadyBuilder, Unread, Editing
<1>8. CASE ReadEditorial(b)
  <2>1. pc[b] \in Unread \cap Editing /\ editorial' = editorial /\ order' = order
    BY <1>8 DEF ReadEditorial, Unread, Editing, editVars
  <2>2. \/ pc'[b] \in {"begin", "interrupted"} /\ draft' = draft
        \/ Adopt(b, editorial, order)
    BY <1>8 DEF ReadEditorial
  <2>3. CASE Adopt(b, editorial, order)
    BY <2>1, <2>3, SteadyAdopted
  <2>4. CASE pc'[b] \in {"begin", "interrupted"} /\ draft' = draft
    <3>1. items' = items /\ editorialOn' = editorialOn
      BY <2>1 DEF BuilderOK, Onward, Settled
    <3> QED
      BY <2>1, <2>4, <3>1, DraftStays DEF SteadyBuilder, Unread, Editing, MayCommit
  <2> QED
    BY <2>2, <2>3, <2>4
<1>9. CASE (Begin(b) \/ CallPi(b)) /\ ~Ends(b)
  <2>1. /\ pc[b] \in Unread \cap Editing /\ pc'[b] \in {"pi", "finish"} /\ draft' = draft
    BY <1>9 DEF Begin, CallPi, Raises, Unread, Editing
  <2>2. items' = items /\ editorialOn' = editorialOn
    BY <2>1 DEF BuilderOK, Onward, Settled
  <2> QED
    BY <2>1, <2>2, DraftStays DEF SteadyBuilder, Unread, Editing, MayCommit
<1>10. CASE FinishStep(b)
  <2>1. PICK decided, ids : /\ Adopt(b, decided, ids) /\ editorial' = decided /\ order' = ids
    BY <1>10 DEF FinishStep
  <2>2. pc[b] \in Unread \cap Editing
    BY <1>10 DEF FinishStep, PiEdits, PiFails, Interrupted, Unread, Editing
  <2> QED
    BY <2>1, <2>2, SteadyAdopted
<1>11. CASE WriteArtifact(b)
  <2>1. pc'[b] = "commit" /\ draft'[b] = draft[b] /\ MayCommit(b)
    BY <1>11 DEF WriteArtifact, MayCommit
  <2> QED
    BY <2>1, FinalHolds, TargetStays DEF SteadyBuilder, Unread, Editing
<1>12. CASE CheckArtifact(b) \/ (Commit(b) /\ ~Ends(b))
  <2>1. pc'[b] = "enqueue"
    BY <1>12 DEF CheckArtifact, Commit, Raises
  <2> QED
    BY <1>1, <2>1 DEF Unread, Editing
<1>13. PiEdits(b) \/ PiFails(b) \/ Interrupted(b) => Ends(b) \/ FinishStep(b)
  BY DEF PiEdits, PiFails, Interrupted, FinishEditorial, FinishStep, Raises
<1>14. RenderRaises(b) \/ Enqueue(b) \/ Existing(b) \/ Crash(b) => Ends(b)
  BY DEF RenderRaises, Enqueue, Existing, Crash, Raises
<1> QED
  BY <1>2, <1>3, <1>4, <1>5, <1>6, <1>7, <1>8, <1>9, <1>10, <1>11, <1>12, <1>13, <1>14 DEF Build, Reload

\* The artifact is only written by a builder about to commit it, or again.
LEMMA FileSteps ==
  ASSUME [Next]_vars
  PROVE  \/ file' = file \/ file' = NoRendering \/ file' = digest
         \/ \E b \in Builders : pc[b] = "render" /\ Committable(b) /\ file' = draft[b]
<1> USE DEF outVars, Raises, At
<1>1. ASSUME NEW b \in Builders, \/ Open(b) \/ Lookup(b) \/ Choose(b) \/ Reload(b) \/ Load(b)
                                \/ ReadEditorial(b)
      PROVE  file' = file
  BY <1>1 DEF Open, Lookup, Choose, Reload, Load, ReadEditorial
<1>2. ASSUME NEW b \in Builders, Refresh(b) \/ Advance(b) \/ Freeze(b) \/ Begin(b) \/ CallPi(b)
      PROVE  file' = file
  BY <1>2 DEF Refresh, Advance, Transition, Freeze, Begin, CallPi
<1>3. ASSUME NEW b \in Builders, PiEdits(b) \/ PiFails(b) \/ Interrupted(b) PROVE file' = file
  BY <1>3 DEF PiEdits, PiFails, Interrupted, FinishEditorial
<1>4. ASSUME NEW b \in Builders, WriteArtifact(b)
      PROVE  pc[b] = "render" /\ Committable(b) /\ file' = draft[b]
  BY <1>4 DEF WriteArtifact
<1>5. ASSUME NEW b \in Builders, CheckArtifact(b) \/ Existing(b) PROVE file' = file \/ file' = digest
  BY <1>5 DEF CheckArtifact, Existing, Reproducible
<1>6. ASSUME NEW b \in Builders, RenderRaises(b) \/ Commit(b) \/ Enqueue(b) \/ Crash(b)
      PROVE  file' = file
  BY <1>6 DEF RenderRaises, Commit, Enqueue, Crash
<1>7. EnvironmentStep \/ UNCHANGED vars => file' = file \/ file' = NoRendering
  BY DEF EnvironmentStep, ArticleChanges, TranslationBegins, TranslationSucceeds, FileLost, vars
<1> QED
  BY <1>1, <1>2, <1>3, <1>4, <1>5, <1>6, <1>7 DEF Next, Build, EnvironmentStep

LEMMA SteadyAlways == ASSUME ~IsRendering(NoRendering) PROVE Spec => []Steady
<1> DEFINE AllOK == EditionOK /\ \A b \in Builders : BuilderOK(b)
<1>1. Init => Steady
  BY DEF Init, Steady, SteadyRecord, SteadyBuilder, Unread, Editing, MayCommit
<1>2. /\ InputsOK /\ StatusOK /\ PositionsOK /\ DraftsOK /\ AllOK /\ Steady /\ [Next]_vars
      => Steady'
  <2> SUFFICES ASSUME InputsOK, StatusOK, PositionsOK, DraftsOK, EditionOK, Steady, [Next]_vars,
                      \A b \in Builders : BuilderOK(b), drift' = 0
               PROVE  SteadyRecord' /\ \A b \in Builders : SteadyBuilder(b)'
    BY DEF Steady
  <2>1. drift = 0 /\ UNCHANGED <<text, translated>>
    BY HistorySteps DEF InputsOK
  <2>2. SteadyRecord /\ \A b \in Builders : SteadyBuilder(b)
    BY <2>1 DEF Steady
  <2>3. Onward
    BY OnwardAlways
  <2>4. \A b \in Builders : SteadyBuilder(b)'
    <3>1. ASSUME NEW b \in Builders, Build(b) \/ Crash(b), NEW c \in Builders
          PROVE  SteadyBuilder(c)'
      <4>1. CASE c = b
        BY <2>1, <2>2, <2>3, <3>1, <4>1, SteadyMover
      <4>2. CASE c # b
        BY <2>1, <2>2, <2>3, <3>1, <4>2, OthersStay, SteadyRival
      <4> QED
        BY <4>1, <4>2
    <3>2. ASSUME EnvironmentStep \/ UNCHANGED vars, NEW c \in Builders PROVE SteadyBuilder(c)'
      <4>1. UNCHANGED <<pc, seen, draft>>
        BY <3>2 DEF EnvironmentStep, ArticleChanges, TranslationBegins, TranslationSucceeds,
                    FileLost, vars, procVars
      <4> QED
        BY <2>1, <2>2, <2>3, <4>1, SteadyRival
    <3> QED
      BY <3>1, <3>2 DEF Next, EnvironmentStep
  <2>5. ASSUME NEW b \in Builders, MayCommit(b) PROVE Final /\ draft[b] = Target
    BY <2>2, <2>5, FinalHolds DEF SteadyBuilder
  <2>6. digest' # NoRendering => Final' /\ digest' = Target'
    <3>1. digest' = digest \/ \E b \in Builders : MayCommit(b) /\ digest' = draft[b]
      BY CommitSteps DEF CommitStep, MayCommit
    <3>2. digest' # NoRendering => Final /\ digest' = Target
      BY <2>2, <2>5, <3>1 DEF SteadyRecord
    <3> QED
      BY <2>1, <2>3, <3>2, TargetStays
  <2>7. file' # NoRendering => Final' /\ file' = Target'
    <3>1. file' # NoRendering => Final /\ file' = Target
      BY <2>2, <2>5, FileSteps DEF SteadyRecord, MayCommit
    <3> QED
      BY <2>1, <2>3, <3>1, TargetStays
  <2> QED
    BY <2>4, <2>6, <2>7 DEF SteadyRecord
<1> QED
  BY <1>1, <1>2, InputsAlways, StatusAlways, PositionsAlways, DraftsAlways, BuildersAlways, PTL DEF Spec

-----------------------------------------------------------------------------
(* The artifact on disk.                                                   *)

\* An edition that is recorded has a digest.
DigestOK == status \in Recorded => digest # NoRendering

LEMMA DigestAlways == ASSUME ~IsRendering(NoRendering) PROVE Spec => []DigestOK
<1>1. Init => DigestOK
  BY DEF Init, DigestOK, Recorded
<1>2. StatusOK /\ DraftsOK /\ DigestOK /\ [Next]_vars => DigestOK'
  <2> SUFFICES ASSUME StatusOK, DraftsOK, DigestOK, [Next]_vars PROVE DigestOK'
    OBVIOUS
  <2>1. CASE \E b \in Builders : CommitStep(b)
    <3>1. PICK b \in Builders : pc[b] = "commit" /\ digest' = draft[b]
      BY <2>1 DEF CommitStep
    <3>2. IsRendering(draft[b])
      BY <3>1 DEF DraftsOK, Drafted
    <3> QED
      BY <3>1, <3>2 DEF DigestOK
  <2>2. CASE digest' = digest /\ (status' \in {"rendered", "degraded"} => status' = status)
    <3>1. status' \in Recorded => status \in Recorded
      BY <2>2, StatusMoves DEF Recorded, Allowed, Lifecycle!Transitions, StatusOK, RunStatus
    <3> QED
      BY <2>2, <3>1 DEF DigestOK
  <2> QED
    BY <2>1, <2>2, CommitSteps
<1> QED
  BY <1>1, <1>2, StatusAlways, DraftsAlways, PTL DEF Spec

\* Whatever happens, the artifact is of the frozen articles.
FileShown == file # NoRendering => status \in Late /\ ShowsOf(file, items)

LEMMA FileShownAlways == ASSUME ~IsRendering(NoRendering) PROVE Spec => []FileShown
<1> DEFINE AllOK == EditionOK /\ \A b \in Builders : BuilderOK(b)
<1>1. Init => FileShown
  BY DEF Init, FileShown
<1>2. StatusOK /\ RecordOK /\ DraftsOK /\ AllOK /\ Lists /\ FileShown /\ [Next]_vars => FileShown'
  <2> SUFFICES ASSUME StatusOK, RecordOK, DraftsOK, AllOK, Lists, FileShown, [Next]_vars,
                      file' # NoRendering
               PROVE  status' \in Late /\ ShowsOf(file', items')
    BY DEF FileShown
  <2>1. status \in Late /\ ShowsOf(file', items)
    <3>1. CASE file' = file
      BY <3>1 DEF FileShown
    <3>2. CASE file' = digest
      BY <3>2 DEF RecordOK, Lists, EditionListOK, Late
    <3>3. ASSUME NEW b \in Builders, pc[b] = "render", file' = draft[b]
          PROVE  status \in Late /\ ShowsOf(file', items)
      BY <3>3 DEF BuilderOK, Settled, Lists, ListOK
    <3> QED
      BY <3>1, <3>2, <3>3, FileSteps
  <2>2. status' \in Late /\ items' = items
    BY <2>1, OnwardAlways DEF Onward
  <2> QED
    BY <2>1, <2>2
<1> QED
  BY <1>1, <1>2, StatusAlways, RecordAlways, DraftsAlways, BuildersAlways, ListsAlways, PTL DEF Spec

\* The artifact of a recorded edition is the recorded one or has been lost, though every
\* builder writes the file before its transition is compared with the database
\* (_atomic_write before transition_edition_run).  Without overlap a builder that has not
\* seen the edition recorded works on one that is not, so what it writes is what it commits;
\* with any overlap, crash and restart all builders arrive at the same artifact as long as
\* the articles stay as they are.  The file shows the frozen articles in any case.
THEOREM ArtifactIntactAlways ==
  ASSUME ~IsRendering(NoRendering)
  PROVE  Spec => []ArtifactIntact
<1>1. DigestOK /\ LoneArtifact /\ Steady /\ Lists /\ FileShown => ArtifactIntact
  <2> SUFFICES ASSUME DigestOK, LoneArtifact, Steady, Lists, FileShown PROVE ArtifactIntact
    OBVIOUS
  <2>1. ASSUME status \in Recorded, ~overlapped PROVE file \in {digest, NoRendering}
    BY <2>1 DEF LoneArtifact, ArtifactOK
  <2>2. ASSUME status \in Recorded, drift = 0 PROVE file \in {digest, NoRendering}
    BY <2>2 DEF Steady, SteadyRecord, DigestOK
  <2>3. file # NoRendering => ShowsItems(file)
    BY ShowsItemsOf DEF FileShown, Lists, EditionListOK
  <2> QED
    BY <2>1, <2>2, <2>3 DEF ArtifactIntact, Recorded
<1> QED
  BY <1>1, DigestAlways, LoneAlways, SteadyAlways, ListsAlways, FileShownAlways, PTL

=============================================================================
