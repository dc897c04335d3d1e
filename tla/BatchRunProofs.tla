---------------------------- MODULE BatchRunProofs ----------------------------
(***************************************************************************)
(* Proofs about BatchRun, for any selection, limit and budget, any number  *)
(* of crashes and any number of commands at work on the run at once: what  *)
(* the checkpoints vouch for, and how often what has succeeded is          *)
(* repeated.                                                               *)
(***************************************************************************)
EXTENDS BatchRun, FiniteSetTheorems, WellFoundedInduction, TLAPS

\* A set of positions has a first one.
LEMMA FirstOne ==
  ASSUME NEW S \in SUBSET Articles, S # {} PROVE Min(S) \in S
<1>1. S \subseteq Nat
  BY BatchAssumption
<1>2. PICK m \in S : \A k \in S : ~(<<k, m>> \in OpToRel(<, Nat))
  BY <1>1, NatLessThanWellFounded, WFMin
<1>3. \A k \in S : m <= k
  <2>1. ASSUME NEW k \in S, ~(<<k, m>> \in OpToRel(<, Nat)) PROVE m <= k
    <3>1. k \in Nat /\ m \in Nat
      BY <1>1
    <3>2. ~(k < m)
      BY <2>1, <3>1 DEF OpToRel
    <3> QED
      BY <3>1, <3>2
  <2> QED
    BY <1>2, <2>1
<1> QED
  BY <1>3 DEF Min

-----------------------------------------------------------------------------
(* Types.                                                                  *)

LEMMA IdleType == Idle \in JobRow
  BY BatchAssumption DEF Idle, JobRow, ItemStatus, RunStatus

LEMMA InitType == Init => TypeOK
  BY IdleType, BatchAssumption DEF Init, TypeOK, ItemStatus

\* A step of one process that keeps the type of its job.
LEMMA JobType ==
  ASSUME TypeOK, NEW r \in Runners, NEW row \in JobRow, job' = [job EXCEPT ![r] = row]
  PROVE  job' \in [Runners -> JobRow]
  BY DEF TypeOK

LEMMA EndsType ==
  ASSUME TypeOK, NEW r \in Runners, Ends(r) PROVE job' \in [Runners -> JobRow]
  BY IdleType, JobType DEF Ends

LEMMA BeginsType ==
  ASSUME TypeOK, NEW r \in Runners, NEW articles \in SUBSET Articles, Begins(r, articles)
  PROVE  job' \in [Runners -> JobRow] /\ overlaps' \in 0..MaxOverlaps
<1>1. [Idle EXCEPT !.at = "work", !.todo = articles] \in JobRow
  BY IdleType DEF JobRow
<1>2. overlaps' \in 0..MaxOverlaps
  BY BatchAssumption DEF Begins, TypeOK
<1> QED
  BY <1>1, <1>2, JobType DEF Begins

\* A process that has been paid for one more call.
LEMMA PaidType ==
  ASSUME TypeOK, NEW r \in Runners, Affords(r)
  PROVE  job[r].spent + 1 \in 0..Budget
  BY BatchAssumption DEF TypeOK, JobRow, Affords

LEMMA StoresType ==
  ASSUME TypeOK, NEW r \in Runners, NEW status \in ResultStatus, Affords(r), Stores(r, status)
  PROVE  /\ job' \in [Runners -> JobRow]
         /\ stored' \in [Articles -> ResultStatus \cup {"none"}]
         /\ UNCHANGED <<command, run, item, faults>>
<1> DEFINE outcome == IF status = "succeeded" THEN status ELSE "failed"
           row == [job[r] EXCEPT !.at = "mark", !.spent = @ + 1, !.outcome = outcome]
<1>1. row \in JobRow
  <2>1. job[r].spent + 1 \in 0..Budget /\ outcome \in ItemStatus /\ job[r] \in JobRow
    BY PaidType DEF TypeOK, ItemStatus
  <2> QED
    BY <2>1 DEF JobRow
<1>2. job' = [job EXCEPT ![r] = row]
  BY DEF Stores, TypeOK
<1> QED
  BY <1>1, <1>2, JobType DEF Stores, TypeOK

LEMMA CallType ==
  ASSUME TypeOK, NEW r \in Runners,
         Search(r) \/ SearchFails(r) \/ Fails(r) \/ \E a \in Articles : Succeeds(r, a)
  PROVE  TypeOK'
<1> USE DEF results, faults
<1>1. CASE Search(r)
  <2> DEFINE row == [job[r] EXCEPT !.at = "found", !.spent = @ + 1]
  <2>1. row \in JobRow
    <3>1. job[r].spent + 1 \in 0..Budget /\ job[r] \in JobRow
      BY <1>1, PaidType DEF Search, TypeOK
    <3> QED
      BY <3>1 DEF JobRow
  <2>2. job' = [job EXCEPT ![r] = row]
    BY <1>1 DEF Search, TypeOK
  <2> QED
    BY <1>1, <2>1, <2>2, JobType DEF Search, TypeOK
<1>2. CASE SearchFails(r)
  BY <1>2, StoresType DEF SearchFails, ResultStatus, TypeOK
<1>3. CASE Fails(r)
  <2>1. (IF command = "extract" THEN "translation_failed" ELSE "failed") \in ResultStatus
    BY DEF ResultStatus
  <2> QED
    BY <1>3, <2>1, StoresType DEF Fails, TypeOK
<1>4. ASSUME NEW a \in Articles, Succeeds(r, a) PROVE TypeOK'
  <2>1. done' \in [Articles -> Nat]
    BY <1>4 DEF Succeeds, TypeOK
  <2> QED
    BY <1>4, <2>1, StoresType DEF Succeeds, ResultStatus, TypeOK
<1> QED
  BY <1>1, <1>2, <1>3, <1>4

LEMMA WorkType ==
  ASSUME TypeOK, NEW r \in Runners,
         \/ Create(r) \/ Resume(r) \/ Exhausts(r) \/ Mark(r) \/ Skip(r) \/ SkipEnds(r)
         \/ Count(r) \/ Finish(r) \/ Crash(r)
  PROVE  TypeOK'
<1> USE DEF results, faults
<1>1. job[r] \in JobRow
  BY DEF TypeOK
<1>2. CASE Create(r)
  BY <1>2, BeginsType DEF Create, TypeOK, RunStatus
<1>3. CASE Resume(r)
  <2>1. ToResume \in SUBSET Articles
    BY DEF ToResume, FirstOf
  <2> QED
    BY <1>3, <2>1, BeginsType DEF Resume, TypeOK
<1>4. CASE Exhausts(r)
  <2>1. [job[r] EXCEPT !.at = "skip"] \in JobRow
    BY <1>1 DEF JobRow
  <2>2. job' = [job EXCEPT ![r] = [job[r] EXCEPT !.at = "skip"]]
    BY <1>4 DEF Exhausts, TypeOK
  <2> QED
    BY <1>4, <2>1, <2>2, JobType DEF Exhausts, TypeOK
<1>5. CASE Mark(r)
  <2> DEFINE fails == job[r].failures + (IF job[r].outcome = "failed" THEN 1 ELSE 0)
             row == [job[r] EXCEPT !.at = "work", !.todo = TodoLeft(r), !.failures = fails]
  <2>1. fails \in Nat /\ TodoLeft(r) \in SUBSET Articles /\ job[r].outcome \in ItemStatus
    BY <1>1 DEF JobRow, TodoLeft
  <2>2. row \in JobRow
    BY <1>1, <2>1 DEF JobRow
  <2>3. job' = [job EXCEPT ![r] = row]
    BY <1>5 DEF Mark, TypeOK
  <2>4. item' \in [Articles -> ItemStatus]
    BY <1>5, <2>1 DEF Mark, TypeOK
  <2> QED
    BY <1>5, <2>2, <2>3, <2>4, JobType DEF Mark, TypeOK
<1>6. CASE Skip(r)
  <2> DEFINE row == [job[r] EXCEPT !.todo = TodoLeft(r)]
  <2>1. row \in JobRow
    BY <1>1 DEF JobRow, TodoLeft
  <2>2. job' = [job EXCEPT ![r] = row]
    BY <1>6 DEF Skip, TypeOK
  <2>3. item' \in [Articles -> ItemStatus]
    BY <1>6 DEF Skip, TypeOK, ItemStatus
  <2> QED
    BY <1>6, <2>1, <2>2, <2>3, JobType DEF Skip, TypeOK
<1>7. CASE SkipEnds(r)
  BY <1>7, EndsType DEF SkipEnds, TypeOK, RunStatus
<1>8. CASE Count(r)
  <2> DEFINE row == [job[r] EXCEPT !.at = "finish", !.next = Tally(r)]
  <2>1. Tally(r) \in RunStatus
    BY DEF Tally, RunStatus
  <2>2. row \in JobRow
    BY <1>1, <2>1 DEF JobRow
  <2>3. job' = [job EXCEPT ![r] = row]
    BY <1>8 DEF Count, TypeOK
  <2> QED
    BY <1>8, <2>2, <2>3, JobType DEF Count, TypeOK
<1>9. CASE Finish(r)
  BY <1>1, <1>9, EndsType DEF Finish, TypeOK, JobRow
<1>10. CASE Crash(r)
  BY <1>10, EndsType, BatchAssumption DEF Crash, TypeOK
<1> QED
  BY <1>2, <1>3, <1>4, <1>5, <1>6, <1>7, <1>8, <1>9, <1>10

LEMMA StepType == TypeOK /\ [Next]_vars => TypeOK'
<1>1. TypeOK /\ UNCHANGED vars => TypeOK'
  BY DEF vars, results, faults, TypeOK
<1> QED
  BY <1>1, CallType, WorkType DEF Next, Works

\* Types hold for any selection, limits and number of commands at once.
THEOREM TypeCorrect == Spec => []TypeOK
  BY InitType, StepType, PTL DEF Spec

-----------------------------------------------------------------------------
(* The steps, by what they do to the run.                                  *)

\* What holds of positions and lists whatever commands overlap.
PlacesOK ==
  /\ run = "none" => \A a \in Articles : item[a] = "pending"
  /\ \A r \in Runners :
       /\ job[r].at # "idle" => run # "none"
       /\ job[r].at \in {"found", "mark"} => job[r].todo # {}
       /\ job[r].at \in {"idle", "finish"} => job[r].todo = {}

\* A command begins with articles that have not succeeded, ...
BeginShape(r, row) ==
  /\ job[r].at = "idle" /\ row.at = "work" /\ row.todo \in SUBSET Articles
  /\ \A a \in row.todo : item[a] # "succeeded"
  /\ overlaps' = IF Overlaps(r) THEN overlaps + 1 ELSE overlaps
  /\ run' # "none" /\ (run' = run \/ run' = "running")
  /\ UNCHANGED <<item, stored, done, crashes>>

\* ... takes a step in its memory or to the status of the run, ...
QuietShape(r, row) ==
  /\ job[r].at \notin {"idle", "mark"} /\ row.at # "mark" /\ row.todo = job[r].todo
  /\ row.at = "found" => row.todo # {}
  /\ row.at \in {"idle", "finish"} => row.todo = {}
  /\ row.at = "finish" /\ row.next = "succeeded" => \A a \in Articles : item[a] = "succeeded"
  /\ run' # "none"
  /\ run' = "succeeded" => run' = run \/ (job[r].at = "finish" /\ job[r].next = "succeeded")
  /\ UNCHANGED <<item, stored, done, crashes, overlaps>>

\* ... stores what a call gave for its first article, ...
StoreShape(r, row, status) ==
  /\ job[r].at \in {"work", "found"} /\ job[r].todo # {}
  /\ row.at = "mark" /\ row.todo = job[r].todo
  /\ row.outcome = "succeeded" <=> status = "succeeded"
  /\ stored' = [stored EXCEPT ![Article(r)] = status]
  /\ done' = IF status = "succeeded" THEN [done EXCEPT ![Article(r)] = @ + 1] ELSE done
  /\ UNCHANGED <<run, item, crashes, overlaps>>

\* ... sets its checkpoint, ...
MarkShape(r, row, status) ==
  /\ job[r].at \in {"mark", "skip"} /\ job[r].todo # {}
  /\ row.at \in {"work", "skip"} /\ row.todo = TodoLeft(r)
  /\ status = "succeeded" <=> job[r].at = "mark" /\ job[r].outcome = "succeeded"
  /\ item' = [item EXCEPT ![Article(r)] = status]
  /\ UNCHANGED <<run, stored, done, crashes, overlaps>>

\* ... or dies.
CrashShape(r, row) ==
  /\ job[r].at # "idle" /\ row = Idle /\ crashes' = crashes + 1
  /\ UNCHANGED <<run, item, stored, done, overlaps>>

Shaped(r) == \E row :
  /\ job' = [job EXCEPT ![r] = row]
  /\ \/ BeginShape(r, row) \/ QuietShape(r, row) \/ CrashShape(r, row)
     \/ \E status : StoreShape(r, row, status) \/ MarkShape(r, row, status)

LEMMA BeginShaped ==
  ASSUME TypeOK, PlacesOK, NEW r \in Runners, Create(r) \/ Resume(r) PROVE Shaped(r)
<1> USE DEF results, At
<1>1. CASE Create(r)
  <2> DEFINE row == [Idle EXCEPT !.at = "work", !.todo = Articles]
  <2>1. row.at = "work" /\ row.todo = Articles
    BY DEF Idle
  <2>2. \A a \in Articles : item[a] # "succeeded"
    BY <1>1 DEF Create, PlacesOK
  <2>3. job' = [job EXCEPT ![r] = row]
    BY <1>1 DEF Create, Begins
  <2> HIDE DEF row
  <2>4. BeginShape(r, row)
    BY <1>1, <2>1, <2>2 DEF BeginShape, Create, Begins
  <2> QED
    BY <2>3, <2>4 DEF Shaped
<1>2. CASE Resume(r)
  <2> DEFINE row == [Idle EXCEPT !.at = "work", !.todo = ToResume]
  <2>1. row.at = "work" /\ row.todo = ToResume
    BY DEF Idle
  <2>2. ToResume \in SUBSET Articles /\ \A a \in ToResume : item[a] # "succeeded"
    BY DEF ToResume, FirstOf, Resumable
  <2>3. job' = [job EXCEPT ![r] = row]
    BY <1>2 DEF Resume, Begins
  <2> HIDE DEF row
  <2>4. BeginShape(r, row)
    BY <1>2, <2>1, <2>2 DEF BeginShape, Resume, Begins
  <2> QED
    BY <2>3, <2>4 DEF Shaped
<1> QED
  BY <1>1, <1>2

LEMMA QuietShaped ==
  ASSUME TypeOK, PlacesOK, NEW r \in Runners,
         Search(r) \/ Exhausts(r) \/ SkipEnds(r) \/ Count(r) \/ Finish(r) \/ Crash(r)
  PROVE  Shaped(r)
<1> USE DEF results, faults, At
<1>1. job[r] \in JobRow
  BY DEF TypeOK
<1>2. CASE Search(r)
  <2> DEFINE row == [job[r] EXCEPT !.at = "found", !.spent = @ + 1]
  <2>1. job' = [job EXCEPT ![r] = row] /\ job[r].at = "work" /\ job[r].todo # {}
    BY <1>2 DEF Search, Working, TypeOK
  <2>2. row.at = "found" /\ row.todo = job[r].todo
    BY <1>1 DEF JobRow
  <2>3. run' # "none" /\ run' = run /\ UNCHANGED <<item, stored, done, crashes, overlaps>>
    BY <1>2, <2>1 DEF Search, PlacesOK
  <2> HIDE DEF row
  <2>4. QuietShape(r, row)
    BY <2>1, <2>2, <2>3 DEF QuietShape
  <2> QED
    BY <2>1, <2>4 DEF Shaped
<1>3. CASE Exhausts(r)
  <2> DEFINE row == [job[r] EXCEPT !.at = "skip"]
  <2>1. job' = [job EXCEPT ![r] = row] /\ job[r].at \in {"work", "found"}
    BY <1>3 DEF Exhausts, Working, TypeOK
  <2>2. row.at = "skip" /\ row.todo = job[r].todo
    BY <1>1 DEF JobRow
  <2>3. run' # "none" /\ run' = run /\ UNCHANGED <<item, stored, done, crashes, overlaps>>
    BY <1>3, <2>1 DEF Exhausts, PlacesOK
  <2> HIDE DEF row
  <2>4. QuietShape(r, row)
    BY <2>1, <2>2, <2>3 DEF QuietShape
  <2> QED
    BY <2>1, <2>4 DEF Shaped
<1>4. CASE SkipEnds(r) \/ Finish(r)
  <2>1. job' = [job EXCEPT ![r] = Idle] /\ job[r].at \in {"skip", "finish"} /\ job[r].todo = {}
    BY <1>4 DEF SkipEnds, Finish, Ends, PlacesOK
  <2>2. Idle.at = "idle" /\ Idle.todo = {}
    BY DEF Idle
  <2>3. /\ run' # "none" /\ UNCHANGED <<item, stored, done, crashes, overlaps>>
        /\ run' = "succeeded" => job[r].at = "finish" /\ job[r].next = "succeeded"
    BY <1>1, <1>4 DEF SkipEnds, Finish, JobRow, RunStatus
  <2>4. QuietShape(r, Idle)
    BY <2>1, <2>2, <2>3 DEF QuietShape
  <2> QED
    BY <2>1, <2>4 DEF Shaped
<1>5. CASE Count(r)
  <2> DEFINE row == [job[r] EXCEPT !.at = "finish", !.next = Tally(r)]
  <2>1. job' = [job EXCEPT ![r] = row] /\ job[r].at = "work" /\ job[r].todo = {}
    BY <1>5 DEF Count, TypeOK
  <2>2. row.at = "finish" /\ row.next = Tally(r) /\ row.todo = {}
    BY <1>1, <2>1 DEF JobRow
  <2>3. Tally(r) = "succeeded" => \A a \in Articles : item[a] = "succeeded"
    BY DEF Tally, Resumable, TypeOK, ItemStatus
  <2>4. run' # "none" /\ run' = run /\ UNCHANGED <<item, stored, done, crashes, overlaps>>
    BY <1>5, <2>1 DEF Count, PlacesOK
  <2> HIDE DEF row
  <2>5. QuietShape(r, row)
    BY <2>1, <2>2, <2>3, <2>4 DEF QuietShape
  <2> QED
    BY <2>1, <2>5 DEF Shaped
<1>6. CASE Crash(r)
  <2>1. job' = [job EXCEPT ![r] = Idle] /\ CrashShape(r, Idle)
    BY <1>6 DEF Crash, CrashShape, Ends
  <2> QED
    BY <2>1 DEF Shaped
<1> QED
  BY <1>2, <1>3, <1>4, <1>5, <1>6

LEMMA StoreShaped ==
  ASSUME TypeOK, PlacesOK, NEW r \in Runners, NEW status \in ResultStatus,
         Working(r, "work") \/ Working(r, "found"), Stores(r, status),
         done' = IF status = "succeeded" THEN [done EXCEPT ![Article(r)] = @ + 1] ELSE done
  PROVE  Shaped(r)
<1> DEFINE row == [job[r] EXCEPT !.at = "mark", !.spent = @ + 1,
                     !.outcome = IF status = "succeeded" THEN status ELSE "failed"]
<1>1. job[r] \in JobRow /\ job' = [job EXCEPT ![r] = row]
  BY DEF TypeOK, Stores
<1>2. /\ row.at = "mark" /\ row.todo = job[r].todo
      /\ row.outcome = IF status = "succeeded" THEN status ELSE "failed"
  BY <1>1 DEF JobRow
<1> HIDE DEF row
<1>3. StoreShape(r, row, status)
  BY <1>2 DEF StoreShape, Stores, Working, At, faults
<1> QED
  BY <1>1, <1>3 DEF Shaped

LEMMA WorkShaped ==
  ASSUME TypeOK, PlacesOK, NEW r \in Runners,
         \/ SearchFails(r) \/ Fails(r) \/ Mark(r) \/ Skip(r)
         \/ \E a \in Articles : Succeeds(r, a)
  PROVE  Shaped(r)
<1> USE DEF results, faults, At
<1>1. job[r] \in JobRow
  BY DEF TypeOK
<1>2. CASE SearchFails(r)
  <2>1. "failed" \in ResultStatus /\ Working(r, "work") /\ Stores(r, "failed") /\ done' = done
    BY <1>2 DEF SearchFails, ResultStatus
  <2> QED
    BY <2>1, StoreShaped
<1>3. CASE Fails(r)
  <2> DEFINE status == IF command = "extract" THEN "translation_failed" ELSE "failed"
  <2>1. /\ status \in ResultStatus /\ status # "succeeded"
        /\ Working(r, "work") \/ Working(r, "found")
        /\ Stores(r, status) /\ done' = done
    BY <1>3 DEF Fails, ResultStatus, LastCall
  <2> HIDE DEF status
  <2> QED
    BY <2>1, StoreShaped
<1>4. ASSUME NEW a \in Articles, Succeeds(r, a) PROVE Shaped(r)
  <2>1. /\ "succeeded" \in ResultStatus
        /\ Working(r, "work") \/ Working(r, "found")
        /\ Stores(r, "succeeded") /\ done' = [done EXCEPT ![Article(r)] = @ + 1]
    BY <1>4 DEF Succeeds, ResultStatus, LastCall
  <2> QED
    BY <2>1, StoreShaped
<1>5. CASE Mark(r)
  <2> DEFINE row == [job[r] EXCEPT !.at = "work", !.todo = TodoLeft(r),
                       !.failures = @ + (IF job[r].outcome = "failed" THEN 1 ELSE 0)]
  <2>1. job' = [job EXCEPT ![r] = row] /\ job[r].at = "mark" /\ job[r].todo # {}
    BY <1>5 DEF Mark, TypeOK, PlacesOK
  <2>2. row.at = "work" /\ row.todo = TodoLeft(r)
    BY <1>1 DEF JobRow
  <2> HIDE DEF row
  <2>3. MarkShape(r, row, job[r].outcome)
    BY <1>5, <2>1, <2>2 DEF MarkShape, Mark
  <2> QED
    BY <2>1, <2>3 DEF Shaped
<1>6. CASE Skip(r)
  <2> DEFINE row == [job[r] EXCEPT !.todo = TodoLeft(r)]
  <2>1. job' = [job EXCEPT ![r] = row] /\ job[r].at = "skip" /\ job[r].todo # {}
    BY <1>6 DEF Skip, TypeOK
  <2>2. row.at = "skip" /\ row.todo = TodoLeft(r)
    BY <1>1, <1>6 DEF Skip, JobRow
  <2> HIDE DEF row
  <2>3. MarkShape(r, row, "skipped")
    BY <1>6, <2>1, <2>2 DEF MarkShape, Skip
  <2> QED
    BY <2>1, <2>3 DEF Shaped
<1> QED
  BY <1>2, <1>3, <1>4, <1>5, <1>6

LEMMA NextShaped ==
  ASSUME TypeOK, PlacesOK, [Next]_vars
  PROVE  UNCHANGED vars \/ \E r \in Runners : Shaped(r)
  BY BeginShaped, QuietShaped, WorkShaped DEF Next, Works

\* The first article of a list that is not empty.
LEMMA ItsArticle ==
  ASSUME TypeOK, NEW r \in Runners, job[r].todo # {}
  PROVE  Article(r) \in Articles /\ Article(r) \in job[r].todo
<1>1. job[r].todo \in SUBSET Articles
  BY DEF TypeOK, JobRow
<1> QED
  BY <1>1, FirstOne DEF Article

LEMMA PlacesKept == TypeOK /\ PlacesOK /\ [Next]_vars => PlacesOK'
<1> SUFFICES ASSUME TypeOK, PlacesOK, [Next]_vars PROVE PlacesOK'
  OBVIOUS
<1>1. CASE UNCHANGED vars
  BY <1>1 DEF vars, PlacesOK
<1>2. ASSUME NEW r \in Runners, Shaped(r) PROVE PlacesOK'
  <2>1. PICK row : /\ job' = [job EXCEPT ![r] = row]
                   /\ \/ BeginShape(r, row) \/ QuietShape(r, row) \/ CrashShape(r, row)
                      \/ \E status : StoreShape(r, row, status) \/ MarkShape(r, row, status)
    BY <1>2 DEF Shaped
  <2>2. job'[r] = row /\ \A s \in Runners \ {r} : job'[s] = job[s]
    BY <2>1 DEF TypeOK
  <2>3. run' # "none"
    BY <2>1 DEF BeginShape, QuietShape, CrashShape, StoreShape, MarkShape, PlacesOK
  <2>4. /\ row.at \in {"found", "mark"} => row.todo # {}
        /\ row.at \in {"idle", "finish"} => row.todo = {}
    BY <2>1 DEF BeginShape, QuietShape, CrashShape, StoreShape, MarkShape, Idle
  <2> QED
    BY <2>2, <2>3, <2>4 DEF PlacesOK
<1> QED
  BY <1>1, <1>2, NextShaped

LEMMA PlacesAlways == Spec => []PlacesOK
<1>1. Init => PlacesOK
  BY DEF Init, PlacesOK, Idle
<1> QED
  BY <1>1, PlacesKept, TypeCorrect, PTL DEF Spec

-----------------------------------------------------------------------------
(* Repetitions.                                                            *)

\* The work on this article has succeeded, and its checkpoint is next.
Marking(r, a) == job[r].at = "mark" /\ job[r].outcome = "succeeded" /\ Article(r) = a

\* The command may still add to what the article has cost, or fail at it.
Pending(r, a) == a \in job[r].todo /\ ~Marking(r, a)

Pendings(a) == {r \in Runners : Pending(r, a)}

\* The one success that is free is there, or may be on its way.
Assured(a) ==
  \/ item[a] = "succeeded"
  \/ \E r \in Runners : Pending(r, a) \/ Marking(r, a)

One(condition) == IF condition THEN 1 ELSE 0

\* The strengthening of SuccessOnce: each success beyond the free one, and each
\* command that may yet add one, has been paid for by a crash or an overlap.
Counted == \A a \in Articles :
  done[a] + Cardinality(Pendings(a)) <= crashes + overlaps + One(Assured(a))

\* A step of one command: it settles for itself what the article costs more than before,
\* what the others may add stays.
LEMMA Counting ==
  ASSUME IsFiniteSet(Runners), TypeOK, TypeOK', NEW r \in Runners, NEW row,
         job' = [job EXCEPT ![r] = row], NEW a \in Articles,
         done[a] + Cardinality(Pendings(a)) <= crashes + overlaps + One(Assured(a)),
         done'[a] + One(Pending(r, a)') + One(Assured(a)) + crashes + overlaps
           <= done[a] + One(Pending(r, a)) + One(Assured(a)') + crashes' + overlaps'
  PROVE  done'[a] + Cardinality(Pendings(a)') <= crashes' + overlaps' + One(Assured(a)')
<1> DEFINE others == Pendings(a) \ {r}
<1>1. \A s \in Runners \ {r} : job'[s] = job[s]
  BY DEF TypeOK
<1>2. \A s \in Runners \ {r} : Pending(s, a)' <=> Pending(s, a)
  BY <1>1 DEF Pending, Marking, Article
<1>3. Pendings(a)' \ {r} = others
  BY <1>2 DEF Pendings
<1>4. IsFiniteSet(Pendings(a)) /\ IsFiniteSet(Pendings(a)') /\ IsFiniteSet(others)
  <2>1. Pendings(a) \in SUBSET Runners /\ Pendings(a)' \in SUBSET Runners /\ others \in SUBSET Runners
    BY DEF Pendings
  <2> QED
    BY <2>1, FS_Subset
<1>5. /\ Cardinality(Pendings(a)) \in Nat /\ Cardinality(Pendings(a)') \in Nat
      /\ Cardinality(others) \in Nat
  BY <1>4, FS_CardinalityType
<1>6. Cardinality(Pendings(a)) = Cardinality(others) + One(Pending(r, a))
  <2>1. Cardinality(others) =
          IF r \in Pendings(a) THEN Cardinality(Pendings(a)) - 1 ELSE Cardinality(Pendings(a))
    BY <1>4, FS_RemoveElement
  <2>2. r \in Pendings(a) <=> Pending(r, a)
    BY DEF Pendings
  <2> QED
    BY <1>5, <2>1, <2>2 DEF One
<1>7. Cardinality(Pendings(a)') = Cardinality(others) + One(Pending(r, a)')
  <2>1. Cardinality(others) =
          IF r \in Pendings(a)' THEN Cardinality(Pendings(a)') - 1 ELSE Cardinality(Pendings(a)')
    BY <1>3, <1>4, FS_RemoveElement
  <2>2. r \in Pendings(a)' <=> Pending(r, a)'
    BY DEF Pendings
  <2> QED
    BY <1>5, <2>1, <2>2 DEF One
<1>8. /\ done[a] \in Nat /\ done'[a] \in Nat /\ crashes \in Nat /\ crashes' \in Nat
      /\ overlaps \in Nat /\ overlaps' \in Nat
  BY BatchAssumption DEF TypeOK
<1> HIDE DEF others
<1>9. /\ One(Pending(r, a)) \in Nat /\ One(Pending(r, a)') \in Nat
      /\ One(Assured(a)) \in Nat /\ One(Assured(a)') \in Nat
  BY DEF One
<1> QED
  BY <1>5, <1>6, <1>7, <1>8, <1>9

\* What the others assure is not touched by a step of this one.
LEMMA RivalsAssure ==
  ASSUME TypeOK, NEW r \in Runners, NEW row, job' = [job EXCEPT ![r] = row], NEW a \in Articles
  PROVE  \E rivals \in BOOLEAN :
           /\ rivals <=> \E s \in Runners \ {r} : Pending(s, a) \/ Marking(s, a)
           /\ Assured(a) <=> item[a] = "succeeded" \/ Pending(r, a) \/ Marking(r, a) \/ rivals
           /\ Assured(a)' <=> item'[a] = "succeeded" \/ Pending(r, a)' \/ Marking(r, a)' \/ rivals
<1> DEFINE rivals == \E s \in Runners \ {r} : Pending(s, a) \/ Marking(s, a)
<1>1. \A s \in Runners \ {r} : job'[s] = job[s]
  BY DEF TypeOK
<1>2. Assured(a) <=> item[a] = "succeeded" \/ Pending(r, a) \/ Marking(r, a) \/ rivals
  BY DEF Assured
<1>3. Assured(a)' <=> item'[a] = "succeeded" \/ Pending(r, a)' \/ Marking(r, a)' \/ rivals
  <2>1. Assured(a)' <=> \/ item'[a] = "succeeded" \/ Pending(r, a)' \/ Marking(r, a)'
                       \/ \E s \in Runners \ {r} : Pending(s, a)' \/ Marking(s, a)'
    BY DEF Assured
  <2>2. (\E s \in Runners \ {r} : Pending(s, a)' \/ Marking(s, a)') <=> rivals
    BY <1>1 DEF Pending, Marking, Article
  <2> QED
    BY <2>1, <2>2
<1> QED
  BY <1>2, <1>3

LEMMA CountedKept ==
  ASSUME IsFiniteSet(Runners), TypeOK, TypeOK', PlacesOK, Counted, [Next]_vars
  PROVE  Counted'
<1>1. CASE UNCHANGED vars
  BY <1>1 DEF vars, results, faults, Counted, Pendings, Pending, Marking, Assured, Article
<1>2. ASSUME NEW r \in Runners, Shaped(r), NEW a \in Articles
      PROVE  done'[a] + Cardinality(Pendings(a)') <= crashes' + overlaps' + One(Assured(a)')
  <2>1. PICK row : /\ job' = [job EXCEPT ![r] = row]
                   /\ \/ BeginShape(r, row) \/ QuietShape(r, row) \/ CrashShape(r, row)
                      \/ \E status : StoreShape(r, row, status) \/ MarkShape(r, row, status)
    BY <1>2 DEF Shaped
  <2>2. job'[r] = row
    BY <2>1 DEF TypeOK
  <2>3. PICK rivals \in BOOLEAN :
          /\ rivals <=> \E s \in Runners \ {r} : Pending(s, a) \/ Marking(s, a)
          /\ Assured(a) <=> item[a] = "succeeded" \/ Pending(r, a) \/ Marking(r, a) \/ rivals
          /\ Assured(a)' <=> item'[a] = "succeeded" \/ Pending(r, a)' \/ Marking(r, a)' \/ rivals
    BY <2>1, RivalsAssure
  <2>4. /\ done[a] \in Nat /\ done'[a] \in Nat /\ crashes \in Nat /\ overlaps \in Nat
        /\ crashes' \in Nat /\ overlaps' \in Nat
    BY BatchAssumption DEF TypeOK
  <2> DEFINE Pays == done'[a] + One(Pending(r, a)') + One(Assured(a)) + crashes + overlaps
                       <= done[a] + One(Pending(r, a)) + One(Assured(a)') + crashes' + overlaps'
  <2>5. ASSUME BeginShape(r, row) PROVE Pays
    <3>1. ~Pending(r, a) /\ ~Marking(r, a) /\ ~Marking(r, a)'
      BY <2>2, <2>5 DEF BeginShape, PlacesOK, Pending, Marking
    <3>2. done'[a] = done[a] /\ crashes' = crashes /\ item'[a] = item[a]
      BY <2>5 DEF BeginShape
    <3>3. CASE Overlaps(r)
      <4>1. overlaps' = overlaps + 1
        BY <2>5, <3>3 DEF BeginShape
      <4>2. Assured(a) => Assured(a)'
        BY <2>3, <3>1, <3>2
      <4> QED
        BY <2>4, <3>1, <3>2, <4>1, <4>2 DEF One
    <3>4. CASE ~Overlaps(r)
      <4>1. overlaps' = overlaps
        BY <2>5, <3>4 DEF BeginShape
      <4>2. ~rivals
        BY <2>3, <3>4 DEF Overlaps, At, PlacesOK, Pending, Marking
      <4>3. Pending(r, a)' => ~Assured(a) /\ Assured(a)'
        BY <2>2, <2>3, <2>5, <3>1, <4>2 DEF BeginShape, Pending
      <4>4. ~Pending(r, a)' => (Assured(a) <=> Assured(a)')
        BY <2>3, <3>1, <3>2
      <4> QED
        BY <2>4, <3>1, <3>2, <4>1, <4>3, <4>4 DEF One
    <3> QED
      BY <3>3, <3>4
  <2>6. ASSUME QuietShape(r, row) PROVE Pays
    <3>1. /\ Pending(r, a)' <=> Pending(r, a)
          /\ ~Marking(r, a) /\ ~Marking(r, a)'
      BY <2>2, <2>6 DEF QuietShape, Pending, Marking
    <3>2. done'[a] = done[a] /\ crashes' = crashes /\ overlaps' = overlaps /\ item'[a] = item[a]
      BY <2>6 DEF QuietShape
    <3>3. Assured(a) <=> Assured(a)'
      BY <2>3, <3>1, <3>2
    <3> QED
      BY <2>4, <3>1, <3>2, <3>3 DEF One
  <2>7. ASSUME CrashShape(r, row) PROVE Pays
    <3>1. done'[a] = done[a] /\ crashes' = crashes + 1 /\ overlaps' = overlaps
      BY <2>7 DEF CrashShape
    <3>2. ~Pending(r, a)'
      BY <2>2, <2>7 DEF CrashShape, Pending, Idle
    <3> QED
      BY <2>4, <3>1, <3>2 DEF One
  <2>8. ASSUME NEW status, StoreShape(r, row, status) PROVE Pays
    <3>1. Article(r)' = Article(r) /\ Article(r) \in job[r].todo /\ Article(r) \in Articles
      BY <2>2, <2>8, ItsArticle DEF StoreShape, Article
    <3>2. crashes' = crashes /\ overlaps' = overlaps /\ item'[a] = item[a] /\ ~Marking(r, a)
      BY <2>8 DEF StoreShape, Marking
    <3>3. CASE a = Article(r) /\ status = "succeeded"
      <4>1. Pending(r, a) /\ Marking(r, a)' /\ ~Pending(r, a)'
        BY <2>2, <2>8, <3>1, <3>2, <3>3 DEF StoreShape, Pending, Marking
      <4>2. done'[a] = done[a] + 1
        BY <2>8, <3>1, <3>3 DEF StoreShape, TypeOK
      <4>3. Assured(a) /\ Assured(a)'
        BY <2>3, <4>1
      <4> QED
        BY <2>4, <3>2, <4>1, <4>2, <4>3 DEF One
    <3>4. CASE ~(a = Article(r) /\ status = "succeeded")
      <4>1. ~Marking(r, a)' /\ (Pending(r, a)' <=> Pending(r, a))
        BY <2>2, <2>8, <3>1, <3>2, <3>4 DEF StoreShape, Pending, Marking
      <4>2. done'[a] = done[a]
        BY <2>8, <3>1, <3>4 DEF StoreShape, TypeOK
      <4>3. Assured(a) <=> Assured(a)'
        BY <2>3, <3>2, <4>1
      <4> QED
        BY <2>4, <3>2, <4>1, <4>2, <4>3 DEF One
    <3> QED
      BY <3>3, <3>4
  <2>9. ASSUME NEW status, MarkShape(r, row, status) PROVE Pays
    <3>1. Article(r) \in job[r].todo /\ Article(r) \in Articles
      BY <2>9, ItsArticle DEF MarkShape
    <3>2. done'[a] = done[a] /\ crashes' = crashes /\ overlaps' = overlaps /\ ~Marking(r, a)'
      BY <2>2, <2>9 DEF MarkShape, Marking
    <3>3. CASE a = Article(r)
      <4>1. ~Pending(r, a)' /\ item'[a] = status
        BY <2>2, <2>9, <3>1, <3>3 DEF MarkShape, Pending, TodoLeft, TypeOK
      <4>2. CASE status = "succeeded"
        <5>1. ~Pending(r, a) /\ Assured(a)'
          BY <2>3, <2>9, <3>3, <4>1, <4>2 DEF MarkShape, Pending, Marking
        <5> QED
          BY <2>4, <3>2, <4>1, <5>1 DEF One
      <4>3. CASE status # "succeeded"
        <5>1. Pending(r, a)
          BY <2>9, <3>1, <3>3, <4>3 DEF MarkShape, Pending, Marking
        <5> QED
          BY <2>4, <3>2, <4>1, <5>1 DEF One
      <4> QED
        BY <4>2, <4>3
    <3>4. CASE a # Article(r)
      <4>1. item'[a] = item[a] /\ ~Marking(r, a) /\ (Pending(r, a)' <=> Pending(r, a))
        BY <2>2, <2>9, <3>2, <3>4 DEF MarkShape, Pending, Marking, TodoLeft, TypeOK
      <4>2. Assured(a) <=> Assured(a)'
        BY <2>3, <3>2, <4>1
      <4> QED
        BY <2>4, <3>2, <4>1, <4>2 DEF One
    <3> QED
      BY <3>3, <3>4
  <2>10. Pays
    BY <2>1, <2>5, <2>6, <2>7, <2>8, <2>9
  <2>11. done[a] + Cardinality(Pendings(a)) <= crashes + overlaps + One(Assured(a))
    BY DEF Counted
  <2> QED
    BY <2>1, <2>10, <2>11, Counting
<1> QED
  BY <1>1, <1>2, NextShaped DEF Counted

\* Whatever crashes and overlaps, the work on an article succeeds once, and once more at
\* most for each process that died and for each command that began beside another one
\* (batch_run_resumable_article_ids and complete_batch_run_item, which no lock joins).
THEOREM SuccessOnceAlways == ASSUME IsFiniteSet(Runners) PROVE Spec => []SuccessOnce
<1>1. Init => Counted
  <2> SUFFICES ASSUME Init, NEW a \in Articles
               PROVE  done[a] + Cardinality(Pendings(a)) <= crashes + overlaps + One(Assured(a))
    BY DEF Counted
  <2>1. Pendings(a) = {}
    BY DEF Init, Pendings, Pending, Idle
  <2>2. Cardinality(Pendings(a)) = 0
    BY <2>1, FS_EmptySet
  <2> QED
    BY <2>2 DEF Init, One
<1>2. TypeOK /\ TypeOK' /\ PlacesOK /\ Counted /\ [Next]_vars => Counted'
  BY CountedKept
<1>3. TypeOK /\ Counted => SuccessOnce
  <2> SUFFICES ASSUME TypeOK, Counted, NEW a \in Articles
               PROVE  done[a] <= 1 + crashes + overlaps
    BY DEF SuccessOnce
  <2>1. done[a] \in Nat /\ crashes \in Nat /\ overlaps \in Nat
    BY BatchAssumption DEF TypeOK
  <2>2. Cardinality(Pendings(a)) \in Nat
    <3>1. Pendings(a) \in SUBSET Runners
      BY DEF Pendings
    <3> QED
      BY <3>1, FS_Subset, FS_CardinalityType
  <2>3. done[a] + Cardinality(Pendings(a)) <= crashes + overlaps + One(Assured(a))
    BY DEF Counted
  <2> QED
    BY <2>1, <2>2, <2>3 DEF One
<1> QED
  BY <1>1, <1>2, <1>3, TypeCorrect, PlacesAlways, PTL DEF Spec

-----------------------------------------------------------------------------
(* Checkpoints.                                                            *)

\* What is marked as succeeded, or about to be, has succeeded.
EarnedOK ==
  /\ \A a \in Articles : item[a] = "succeeded" => done[a] > 0
  /\ \A r \in Runners, a \in Articles : Marking(r, a) => done[a] > 0

LEMMA EarnedKept ==
  ASSUME TypeOK, PlacesOK, EarnedOK, [Next]_vars PROVE EarnedOK'
<1>1. CASE UNCHANGED vars
  BY <1>1 DEF vars, results, EarnedOK, Marking, Article
<1>2. ASSUME NEW r \in Runners, Shaped(r) PROVE EarnedOK'
  <2>1. PICK row : /\ job' = [job EXCEPT ![r] = row]
                   /\ \/ BeginShape(r, row) \/ QuietShape(r, row) \/ CrashShape(r, row)
                      \/ \E status : StoreShape(r, row, status) \/ MarkShape(r, row, status)
    BY <1>2 DEF Shaped
  <2>2. job'[r] = row /\ \A s \in Runners \ {r} : job'[s] = job[s]
    BY <2>1 DEF TypeOK
  <2>3. \A s \in Runners \ {r}, a \in Articles : Marking(s, a)' <=> Marking(s, a)
    BY <2>2 DEF Marking, Article
  <2>4. CASE row.at # "mark" /\ UNCHANGED <<item, done>>
    BY <2>2, <2>3, <2>4 DEF EarnedOK, Marking
  <2>5. ASSUME NEW status, StoreShape(r, row, status) PROVE EarnedOK'
    <3>1. Article(r)' = Article(r) /\ Article(r) \in Articles
      BY <2>2, <2>5, ItsArticle DEF StoreShape, Article
    <3>2. \A a \in Articles : /\ done[a] > 0 => done'[a] > 0
                              /\ a = Article(r) /\ status = "succeeded" => done'[a] > 0
      BY <2>5, <3>1 DEF StoreShape, TypeOK
    <3>3. \A a \in Articles : Marking(r, a)' => a = Article(r) /\ status = "succeeded"
      BY <2>2, <2>5, <3>1 DEF StoreShape, Marking
    <3> QED
      BY <2>3, <2>5, <3>2, <3>3 DEF StoreShape, EarnedOK
  <2>6. ASSUME NEW status, MarkShape(r, row, status) PROVE EarnedOK'
    <3>1. Article(r) \in Articles
      BY <2>6, ItsArticle DEF MarkShape
    <3>2. \A a \in Articles : item'[a] = "succeeded" => item[a] = "succeeded" \/ Marking(r, a)
      BY <2>6, <3>1 DEF MarkShape, Marking, TypeOK
    <3>3. \A a \in Articles : ~Marking(r, a)'
      BY <2>2, <2>6 DEF MarkShape, Marking
    <3> QED
      BY <2>3, <2>6, <3>2, <3>3 DEF MarkShape, EarnedOK
  <2>7. BeginShape(r, row) \/ QuietShape(r, row) \/ CrashShape(r, row)
          => row.at # "mark" /\ UNCHANGED <<item, done>>
    BY DEF BeginShape, QuietShape, CrashShape, Idle
  <2> QED
    BY <2>1, <2>4, <2>5, <2>6, <2>7
<1> QED
  BY <1>1, <1>2, NextShaped

\* While nothing has overlapped: one command at most is at work, nothing it has still to
\* do has succeeded, what it is about to mark is stored, and a run it is about to call
\* succeeded is.
AloneOK ==
  /\ \A r, s \in Runners : job[r].at # "idle" /\ job[s].at # "idle" => r = s
  /\ \A a \in Articles : item[a] = "succeeded" => stored[a] = "succeeded"
  /\ run = "succeeded" => \A a \in Articles : item[a] = "succeeded"
  /\ \A r \in Runners :
       /\ \A a \in job[r].todo : item[a] # "succeeded"
       /\ job[r].at = "mark" /\ job[r].outcome = "succeeded" => stored[Article(r)] = "succeeded"
       /\ job[r].at = "finish" /\ job[r].next = "succeeded"
            => \A a \in Articles : item[a] = "succeeded"

SoloOK == overlaps = 0 => AloneOK

LEMMA SoloKept ==
  ASSUME TypeOK, PlacesOK, SoloOK, [Next]_vars PROVE SoloOK'
<1>1. CASE UNCHANGED vars
  BY <1>1 DEF vars, results, faults, SoloOK, AloneOK, Article
<1>2. ASSUME NEW r \in Runners, Shaped(r), overlaps' = 0 PROVE AloneOK'
  <2>1. PICK row : /\ job' = [job EXCEPT ![r] = row]
                   /\ \/ BeginShape(r, row) \/ QuietShape(r, row) \/ CrashShape(r, row)
                      \/ \E status : StoreShape(r, row, status) \/ MarkShape(r, row, status)
    BY <1>2 DEF Shaped
  <2>2. job'[r] = row /\ \A s \in Runners \ {r} : job'[s] = job[s]
    BY <2>1 DEF TypeOK
  <2>3. overlaps = 0 /\ (BeginShape(r, row) => ~Overlaps(r))
    <3>1. overlaps \in Nat
      BY BatchAssumption DEF TypeOK
    <3> QED
      BY <1>2, <2>1, <3>1 DEF BeginShape, QuietShape, CrashShape, StoreShape, MarkShape
  <2>4. AloneOK
    BY <2>3 DEF SoloOK
  <2>5. \A s \in Runners \ {r} : job'[s].at = "idle" /\ job'[s].todo = {}
    <3>1. \A s \in Runners \ {r} : job[s].at = "idle"
      BY <2>1, <2>3, <2>4 DEF BeginShape, QuietShape, CrashShape, StoreShape, MarkShape, AloneOK,
                              Overlaps, At
    <3> QED
      BY <2>2, <3>1 DEF PlacesOK
  <2>6. \A p, q \in Runners : job'[p].at # "idle" /\ job'[q].at # "idle" => p = q
    BY <2>5
  <2> DEFINE Mine == /\ \A a \in row.todo : item'[a] # "succeeded"
                     /\ row.at = "mark" /\ row.outcome = "succeeded"
                          => stored'[Article(r)'] = "succeeded"
                     /\ row.at = "finish" /\ row.next = "succeeded"
                          => \A a \in Articles : item'[a] = "succeeded"
             Ours == /\ \A a \in Articles : item'[a] = "succeeded" => stored'[a] = "succeeded"
                     /\ run' = "succeeded" => \A a \in Articles : item'[a] = "succeeded"
  <2>7. CASE BeginShape(r, row)
    <3>1. Mine
      BY <2>7 DEF BeginShape
    <3>2. Ours
      BY <2>4, <2>7 DEF BeginShape, AloneOK
    <3> QED
      BY <2>2, <2>5, <2>6, <3>1, <3>2 DEF AloneOK
  <2>8. CASE QuietShape(r, row)
    <3>1. Mine
      BY <2>4, <2>8 DEF QuietShape, AloneOK
    <3>2. Ours
      BY <2>4, <2>8 DEF QuietShape, AloneOK
    <3> QED
      BY <2>2, <2>5, <2>6, <3>1, <3>2 DEF AloneOK
  <2>9. CASE CrashShape(r, row)
    <3>1. Mine
      BY <2>9 DEF CrashShape, Idle
    <3>2. Ours
      BY <2>4, <2>9 DEF CrashShape, AloneOK
    <3> QED
      BY <2>2, <2>5, <2>6, <3>1, <3>2 DEF AloneOK
  <2>10. ASSUME NEW status, StoreShape(r, row, status) PROVE AloneOK'
    <3>1. /\ Article(r)' = Article(r) /\ Article(r) \in Articles
          /\ item[Article(r)] # "succeeded"
      BY <2>2, <2>4, <2>10, ItsArticle DEF StoreShape, Article, AloneOK
    <3>2. stored'[Article(r)] = status
      BY <2>10, <3>1 DEF StoreShape, TypeOK
    <3>3. Mine
      BY <2>4, <2>10, <3>1, <3>2 DEF StoreShape, AloneOK
    <3>4. Ours
      BY <2>4, <2>10, <3>1 DEF StoreShape, AloneOK, TypeOK
    <3> QED
      BY <2>2, <2>5, <2>6, <3>3, <3>4 DEF AloneOK
  <2>11. ASSUME NEW status, MarkShape(r, row, status) PROVE AloneOK'
    <3>1. /\ Article(r) \in Articles /\ item[Article(r)] # "succeeded"
          /\ run # "succeeded"
      BY <2>4, <2>11, ItsArticle DEF MarkShape, AloneOK
    <3>2. /\ item'[Article(r)] = status
          /\ \A a \in Articles \ {Article(r)} : item'[a] = item[a]
      BY <2>11, <3>1 DEF MarkShape, TypeOK
    <3>3. Mine
      <4>1. \A a \in row.todo : a \in Articles /\ a \in job[r].todo /\ a # Article(r)
        BY <2>11 DEF MarkShape, TodoLeft, TypeOK, JobRow
      <4> QED
        BY <2>4, <2>11, <3>2, <4>1 DEF MarkShape, AloneOK
    <3>4. Ours
      BY <2>4, <2>11, <3>1, <3>2 DEF MarkShape, AloneOK
    <3> QED
      BY <2>2, <2>5, <2>6, <3>3, <3>4 DEF AloneOK
  <2> QED
    BY <2>1, <2>7, <2>8, <2>9, <2>10, <2>11
<1> QED
  BY <1>1, <1>2, NextShaped DEF SoloOK

\* A checkpoint vouches for work that has succeeded, whatever commands overlap, and as long
\* as none do it vouches for the row that is stored, and a run that succeeded has nothing
\* left, for any selection, limit, budget and crashes (complete_batch_run_item after the
\* row, update_batch_run_status after all of them).
THEOREM CheckpointsAreTrueAlways == Spec => []CheckpointsAreTrue
<1>1. Init => EarnedOK /\ SoloOK
  BY DEF Init, EarnedOK, SoloOK, AloneOK, Marking, Idle
<1>2. TypeOK /\ PlacesOK /\ EarnedOK /\ SoloOK /\ [Next]_vars => EarnedOK' /\ SoloOK'
  BY EarnedKept, SoloKept
<1>3. EarnedOK /\ SoloOK => CheckpointsAreTrue
  BY DEF EarnedOK, SoloOK, AloneOK, CheckpointsAreTrue
<1> QED
  BY <1>1, <1>2, <1>3, TypeCorrect, PlacesAlways, PTL DEF Spec

=============================================================================
