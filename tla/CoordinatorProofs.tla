--------------------------- MODULE CoordinatorProofs ---------------------------
(***************************************************************************)
(* Proofs about Coordinator, for every list of topics, every content of    *)
(* their versions and every number of processes.  What carries them: a     *)
(* stored version never changes, and a process that has come to an edition *)
(* carries a version that is stored and a deadline that belongs to it.     *)
(***************************************************************************)
EXTENDS Coordinator, WellFoundedInduction, TLAPS

\* A bounded set of numbers has a largest member.
LEMMA HasLargest ==
  ASSUME NEW n \in Nat, NEW S \in SUBSET (1..n), S # {}
  PROVE  \E x \in S : \A y \in S : x >= y
<1> DEFINE T == {m \in Nat : \E y \in S : m = n - y}
<1>1. T \subseteq Nat /\ T # {}
  <2>1. PICK y \in S : TRUE
    OBVIOUS
  <2>2. n - y \in Nat
    OBVIOUS
  <2> QED
    BY <2>2
<1>2. PICK m \in T : \A k \in T : ~(<<k, m>> \in OpToRel(<, Nat))
  <2> HIDE DEF T
  <2> QED
    BY <1>1, NatLessThanWellFounded, WFMin
<1>3. \A k \in T : m <= k
  <2> HIDE DEF T
  <2>1. ASSUME NEW k \in T, ~(<<k, m>> \in OpToRel(<, Nat)) PROVE m <= k
    <3>1. k \in Nat /\ m \in Nat
      BY <1>1
    <3>2. ~(k < m)
      BY <2>1, <3>1 DEF OpToRel
    <3> QED
      BY <3>1, <3>2
  <2> QED
    BY <1>2, <2>1
<1>4. PICK x \in S : m = n - x
  OBVIOUS
<1>5. ASSUME NEW y \in S PROVE x >= y
  <2>1. n - y \in T
    OBVIOUS
  <2> QED
    BY <1>3, <1>4, <2>1
<1> QED
  BY <1>5

\* latest_topic_profile is a version that is stored, if there is one.
LEMMA LatestIsStored ==
  ASSUME NEW t \in Topics, Latest(t) # 0
  PROVE  Latest(t) \in Versions /\ profiles[t][Latest(t)] # NoContent
<1>1. Stored(t) # {} /\ Stored(t) \in SUBSET (1..MaxVersion)
  BY DEF Latest, Stored, Versions
<1>2. \E x \in Stored(t) : \A y \in Stored(t) : x >= y
  BY <1>1, HasLargest, CoordinatorAssumption
<1>3. Latest(t) \in Stored(t)
  BY <1>1, <1>2 DEF Latest, Max
<1> QED
  BY <1>3 DEF Stored

-----------------------------------------------------------------------------
(* Types.                                                                  *)

LEMMA IdleType == Idle \in JobRow
<1>1. 1 \in DOMAIN Order /\ Order[1] \in Topics
  <2>1. 1 \in DOMAIN Order
    BY CoordinatorAssumption
  <2> QED
    BY <2>1 DEF Topics
<1>2. 1 \in Versions /\ 0 \in Instants
  BY CoordinatorAssumption DEF Versions, Instants
<1> QED
  BY <1>1, <1>2, CoordinatorAssumption DEF Idle, JobRow

\* TypeOK of what the program has, without the history.
TypesOK ==
  /\ config \in [Topics -> Items]
  /\ profiles \in ProfileRows /\ editions \in EditionRows /\ job \in [Jobs -> JobRow]
  /\ broken \in SUBSET Keys /\ audits \in SUBSET (Topics \X Versions)
  /\ now \in Instants
  /\ agent \in {<<>>} \cup Topics \X Versions
  /\ interventions \in Nat

LEMMA EndsType ==
  ASSUME TypeOK, NEW p \in Jobs, Ends(p)
  PROVE  job' \in [Jobs -> JobRow]
  BY IdleType DEF TypeOK, Ends

LEMMA DayType ==
  ASSUME NEW c \in Contents, NEW instant \in Instants
  PROVE  LocalDay(c, instant) \in Days /\ LocalDay(c, instant) \in Int
<1>1. instant + Offset[c] \in Int
  BY CoordinatorAssumption DEF Instants
<1>2. (instant + Offset[c]) \div DayLength \in Int
  BY <1>1, CoordinatorAssumption
<1> QED
  BY <1>2 DEF LocalDay, Days

LEMMA DeadlineType ==
  ASSUME NEW c \in Contents, NEW day \in Int
  PROVE  DeadlineAt(c, day) \in Int /\ EditionSchedule(c, day) \subseteq Int
<1>1. day * DayLength \in Int /\ Deadline[c] \in Int /\ Offset[c] \in Int
  BY CoordinatorAssumption
<1>2. DeadlineAt(c, day) \in Int
  BY <1>1 DEF DeadlineAt
<1> QED
  BY <1>2, CoordinatorAssumption DEF EditionSchedule

LEMMA DaysAreNumbers == Days \subseteq Int
  BY DayType DEF Days

\* What a run at work reads: its topic and the configuration's item for it.
LEMMA ItemType ==
  ASSUME TypeOK, NEW r \in Runs
  PROVE  /\ Topic(r) \in Topics /\ Item(r) \in Items
         /\ Item(r).version \in Versions /\ Item(r).content \in Contents
<1>1. job[r] \in JobRow
  BY DEF TypeOK, Jobs
<1>2. Topic(r) \in Topics
  BY <1>1 DEF Topic, JobRow, Topics
<1>3. Item(r) \in Items
  BY <1>1, <1>2 DEF Item, JobRow
<1> QED
  BY <1>2, <1>3 DEF Items

LEMMA CreateType ==
  ASSUME TypeOK, NEW t \in Topics, NEW v \in Versions, NEW c \in Contents,
         CreateProfile(t, v, c)
  PROVE  profiles' \in ProfileRows
  BY DEF TypeOK, CreateProfile, Inserted, ProfileRows

LEMMA ContinuesType ==
  ASSUME TypeOK, NEW r \in Runs, Continues(r)
  PROVE  job' \in [Jobs -> JobRow]
<1>1. CASE job[r].next < Len(Order)
  <2>1. job[r] \in JobRow /\ job[r].next \in 1..Len(Order)
    BY CoordinatorAssumption DEF TypeOK, Jobs, JobRow
  <2>2. job[r].next + 1 \in DOMAIN Order
    BY <1>1, <2>1, CoordinatorAssumption
  <2>3. [job[r] EXCEPT !.at = "visit", !.next = @ + 1] \in JobRow
    BY <2>1, <2>2 DEF JobRow
  <2>4. job' = [job EXCEPT ![r] = [job[r] EXCEPT !.at = "visit", !.next = @ + 1]]
    BY <1>1 DEF Continues
  <2> QED
    BY <2>3, <2>4 DEF TypeOK
<1>2. CASE ~(job[r].next < Len(Order))
  BY <1>2, EndsType DEF Continues, Jobs
<1> QED
  BY <1>1, <1>2

LEMMA InitType == Init => TypeOK
<1> SUFFICES ASSUME Init PROVE TypeOK
  OBVIOUS
<1>1. profiles \in ProfileRows /\ editions \in EditionRows
  BY DEF Init, ProfileRows, EditionRows, Absent
<1>2. job \in [Jobs -> JobRow]
  BY IdleType DEF Init
<1>3. config \in [Topics -> Items] /\ now \in Instants
  BY CoordinatorAssumption DEF Init, Instants
<1> QED
  BY <1>1, <1>2, <1>3 DEF Init, TypeOK

LEMMA RunType ==
  ASSUME TypeOK, NEW r \in Runs,
         Start(r) \/ Compare(r) \/ Create(r) \/ Pass(r) \/ Visit(r)
  PROVE  TypesOK'
<1>1. r \in Jobs /\ job[r] \in JobRow
  BY DEF TypeOK, Jobs
<1>2. CASE Start(r)
  <2>1. [Idle EXCEPT !.at = "reconcile", !.started = now, !.conf = config] \in JobRow
    BY IdleType DEF TypeOK, JobRow
  <2>2. job' \in [Jobs -> JobRow]
    BY <1>2, <2>1 DEF Start, TypeOK
  <2> QED
    BY <1>2, <2>2 DEF Start, TypeOK, TypesOK, store
<1>3. CASE Compare(r)
  <2>1. [job[r] EXCEPT !.at = "create"] \in JobRow
    BY <1>1 DEF JobRow
  <2>2. Ends(r) \/ job' = [job EXCEPT ![r] = [job[r] EXCEPT !.at = "create"]]
    BY <1>3 DEF Compare
  <2>3. job' \in [Jobs -> JobRow]
    BY <1>1, <2>1, <2>2, EndsType DEF TypeOK
  <2> QED
    BY <1>3, <2>3 DEF Compare, TypeOK, TypesOK, store
<1>4. CASE Create(r)
  <2>1. profiles' \in ProfileRows
    <3>1. CreateProfile(Topic(r), Item(r).version, Item(r).content)
      BY <1>4 DEF Create
    <3> QED
      BY <3>1, ItemType, CreateType
  <2>2. ASSUME Ends(r) PROVE job' \in [Jobs -> JobRow]
    BY <1>1, <2>2, EndsType
  <2>3. ASSUME job[r].next < Len(Order),
               job' = [job EXCEPT ![r].at = "reconcile", ![r].next = @ + 1]
        PROVE  job' \in [Jobs -> JobRow]
    <3>1. job[r].next \in 1..Len(Order) /\ Len(Order) \in Nat
      BY <1>1, CoordinatorAssumption DEF JobRow
    <3>2. job[r].next + 1 \in DOMAIN Order
      BY <2>3, <3>1, CoordinatorAssumption
    <3>3. [job[r] EXCEPT !.at = "reconcile", !.next = @ + 1] \in JobRow
      BY <1>1, <3>2 DEF JobRow
    <3>4. job' = [job EXCEPT ![r] = [job[r] EXCEPT !.at = "reconcile", !.next = @ + 1]]
      BY <2>3
    <3> QED
      BY <3>3, <3>4 DEF TypeOK
  <2>4. ASSUME job' = [job EXCEPT ![r].at = "visit", ![r].next = 1]
        PROVE  job' \in [Jobs -> JobRow]
    <3>1. 1 \in DOMAIN Order
      BY CoordinatorAssumption
    <3>2. [job[r] EXCEPT !.at = "visit", !.next = 1] \in JobRow
      BY <1>1, <3>1 DEF JobRow
    <3>3. job' = [job EXCEPT ![r] = [job[r] EXCEPT !.at = "visit", !.next = 1]]
      BY <2>4
    <3> QED
      BY <3>2, <3>3 DEF TypeOK
  <2>5. job' \in [Jobs -> JobRow]
    BY <1>4, <2>2, <2>3, <2>4 DEF Create
  <2> QED
    BY <1>4, <2>1, <2>5 DEF Create, TypeOK, TypesOK
<1>5. CASE Pass(r)
  <2>1. job' \in [Jobs -> JobRow]
    BY <1>5, ContinuesType DEF Pass
  <2> QED
    BY <1>5, <2>1 DEF Pass, TypeOK, TypesOK, store
<1>6. CASE Visit(r)
  <2> DEFINE c == Item(r).content
             day == LocalDay(c, job[r].started)
  <2>1. Topic(r) \in Topics /\ Item(r).version \in Versions /\ c \in Contents
    BY ItemType
  <2>2. day \in Int
    BY <1>1, <2>1, DayType DEF JobRow
  <2>3. DeadlineAt(c, day) \in Int
    BY <2>1, <2>2, DeadlineType
  <2>4. job' = [job EXCEPT ![r] = [job[r] EXCEPT !.at = "open",
                  !.key = <<Topic(r), Item(r).version, day>>, !.deadline = DeadlineAt(c, day)]]
    BY <1>6 DEF Visit
  <2> HIDE DEF c, day
  <2>5. [job[r] EXCEPT !.at = "open", !.key = <<Topic(r), Item(r).version, day>>,
                       !.deadline = DeadlineAt(c, day)] \in JobRow
    BY <1>1, <2>1, <2>2, <2>3 DEF JobRow
  <2>6. job' \in [Jobs -> JobRow]
    BY <1>1, <2>4, <2>5 DEF TypeOK
  <2> QED
    BY <1>6, <2>6 DEF Visit, TypeOK, TypesOK, store
<1> QED
  BY <1>2, <1>3, <1>4, <1>5, <1>6

LEMMA BuildType ==
  ASSUME TypeOK, NEW p \in Jobs, Open(p) \/ Build(p) \/ Raise(p) \/ Crash(p)
  PROVE  TypesOK'
<1>1. job[p] \in JobRow
  BY DEF TypeOK
<1>2. CASE Open(p)
  <2>1. editions' \in EditionRows
    BY <1>1, <1>2 DEF Open, TypeOK, EditionRows, JobRow
  <2>2. [job[p] EXCEPT !.at = "build"] \in JobRow
    BY <1>1 DEF JobRow
  <2>3. Ends(p) \/ job' = [job EXCEPT ![p] = [job[p] EXCEPT !.at = "build"]]
    BY <1>2 DEF Open
  <2>4. job' \in [Jobs -> JobRow]
    BY <2>2, <2>3, EndsType DEF TypeOK
  <2> QED
    BY <1>2, <2>1, <2>4 DEF Open, TypeOK, TypesOK
<1>3. CASE Build(p)
  <2>1. editions' \in EditionRows
    BY <1>3 DEF Build, TypeOK, EditionRows
  <2>2. job' \in [Jobs -> JobRow]
    BY <1>3, EndsType, ContinuesType DEF Build
  <2> QED
    BY <1>3, <2>1, <2>2 DEF Build, TypeOK, TypesOK
<1>4. CASE Raise(p)
  <2>1. job' \in [Jobs -> JobRow]
    BY <1>4, EndsType DEF Raise
  <2> QED
    BY <1>4, <2>1 DEF Raise, TypeOK, TypesOK, store
<1>5. CASE Crash(p)
  <2>1. job' \in [Jobs -> JobRow]
    BY <1>5, EndsType DEF Crash
  <2> QED
    BY <1>5, <2>1 DEF Crash, TypeOK, TypesOK, store, Intervenes
<1> QED
  BY <1>2, <1>3, <1>4, <1>5

LEMMA ChooseType ==
  ASSUME TypeOK, NEW h \in Hands, Choose(h)
  PROVE  TypesOK'
<1>1. PICK t \in Topics, day \in Days :
        /\ Latest(t) # 0
        /\ \E deadline \in EditionSchedule(profiles[t][Latest(t)], day) :
             job' = [job EXCEPT ![h] = [Idle EXCEPT !.at = "open", !.key = <<t, Latest(t), day>>,
                                                    !.deadline = deadline]]
  BY DEF Choose
<1>2. Latest(t) \in Versions /\ profiles[t][Latest(t)] \in Contents
  BY <1>1, LatestIsStored DEF TypeOK, ProfileRows
<1>3. PICK deadline \in Int :
        job' = [job EXCEPT ![h] = [Idle EXCEPT !.at = "open", !.key = <<t, Latest(t), day>>,
                                               !.deadline = deadline]]
  BY <1>1, <1>2, DaysAreNumbers, DeadlineType
<1>4. [Idle EXCEPT !.at = "open", !.key = <<t, Latest(t), day>>, !.deadline = deadline] \in JobRow
  BY <1>2, IdleType, DaysAreNumbers DEF JobRow
<1>5. job' \in [Jobs -> JobRow]
  BY <1>3, <1>4 DEF TypeOK
<1> QED
  BY <1>5 DEF Choose, TypeOK, TypesOK, store, Intervenes

\* What a command reads of the configuration it started with.
LEMMA ReadsItems ==
  ASSUME TypeOK, NEW p \in Jobs
  PROVE  Topic(p) \in Topics /\ Item(p) \in Items
<1>1. job[p] \in JobRow
  BY DEF TypeOK
<1>2. Topic(p) \in Topics
  BY <1>1 DEF Topic, JobRow, Topics
<1> QED
  BY <1>1, <1>2 DEF Item, JobRow

LEMMA RehearsalType ==
  ASSUME TypeOK, NEW h \in Hands, Rehearse(h)
  PROVE  TypesOK'
<1>1. [Idle EXCEPT !.at = "validate", !.conf = config] \in JobRow
  BY IdleType DEF TypeOK, JobRow
<1>2. job' \in [Jobs -> JobRow]
  BY <1>1 DEF Rehearse, TypeOK
<1> QED
  BY <1>2 DEF Rehearse, TypeOK, TypesOK, store, Intervenes

LEMMA ValidateType ==
  ASSUME TypeOK, NEW p \in Jobs, Validate(p)
  PROVE  TypesOK'
<1>1. job[p] \in JobRow
  BY DEF TypeOK
<1>2. ASSUME job[p].next < Len(Order), job' = [job EXCEPT ![p].next = @ + 1]
      PROVE  job' \in [Jobs -> JobRow]
  <2>1. job[p].next \in 1..Len(Order) /\ Len(Order) \in Nat
    BY <1>1, CoordinatorAssumption DEF JobRow
  <2>2. job[p].next + 1 \in DOMAIN Order
    BY <1>2, <2>1, CoordinatorAssumption
  <2>3. [job[p] EXCEPT !.next = @ + 1] \in JobRow
    BY <1>1, <2>2 DEF JobRow
  <2>4. job' = [job EXCEPT ![p] = [job[p] EXCEPT !.next = @ + 1]]
    BY <1>2
  <2> QED
    BY <2>3, <2>4 DEF TypeOK
<1>3. job' \in [Jobs -> JobRow]
  BY <1>2, EndsType DEF Validate
<1> QED
  BY <1>3 DEF Validate, TypeOK, TypesOK, store

LEMMA EnvironmentType ==
  ASSUME TypeOK,
         \/ \E t \in Topics, v \in Versions, c \in Contents : Apply(t, v, c)
         \/ \E t \in Topics, item \in Items : Edit(t, item)
         \/ Audit \/ AgentCrash \/ Tick
         \/ \E k \in Keys : Break(k)
  PROVE  TypesOK'
<1>1. ASSUME NEW t \in Topics, NEW v \in Versions, NEW c \in Contents, Apply(t, v, c) PROVE TypesOK'
  <2>1. profiles' \in ProfileRows
    BY <1>1, CreateType DEF Apply
  <2> QED
    BY <1>1, <2>1 DEF Apply, TypeOK, TypesOK, Intervenes
<1>2. ASSUME NEW t \in Topics, NEW item \in Items, Edit(t, item) PROVE TypesOK'
  BY <1>2 DEF Edit, TypeOK, TypesOK, store, Intervenes
<1>3. CASE Audit
  BY <1>3 DEF Audit, TypeOK, TypesOK
<1>4. CASE AgentCrash
  BY <1>4 DEF AgentCrash, TypeOK, TypesOK, store, Intervenes
<1>5. CASE Tick
  <2>1. now' \in Instants
    BY <1>5, CoordinatorAssumption DEF Tick, TypeOK, Instants
  <2> QED
    BY <1>5, <2>1 DEF Tick, TypeOK, TypesOK, store
<1>6. ASSUME NEW k \in Keys, Break(k) PROVE TypesOK'
  BY <1>6 DEF Break, TypeOK, TypesOK, store, Intervenes
<1> QED
  BY <1>1, <1>2, <1>3, <1>4, <1>5, <1>6

LEMMA NextSplit ==
  Next => \/ \E r \in Runs : Start(r) \/ Compare(r) \/ Create(r) \/ Pass(r) \/ Visit(r)
          \/ \E p \in Jobs : Validate(p) \/ Open(p) \/ Build(p) \/ Raise(p) \/ Crash(p)
          \/ \E h \in Hands : Choose(h) \/ Rehearse(h)
          \/ \E t \in Topics, v \in Versions, c \in Contents : Apply(t, v, c)
          \/ \E t \in Topics, item \in Items : Edit(t, item)
          \/ Audit \/ AgentCrash \/ Tick
          \/ \E k \in Keys : Break(k)
<1>1. \A p : /\ Start(p) \/ Compare(p) \/ Create(p) \/ Pass(p) \/ Visit(p) => p \in Runs
             /\ Choose(p) \/ Rehearse(p) => p \in Hands
  BY DEF Start, Compare, Create, Pass, Visit, Choose, Rehearse
<1> QED
  BY <1>1 DEF Next, Work

\* What a dry run said is its own business: its verdict is one of three words.
LEMMA VerdictType ==
  ASSUME verdict \in [Topics -> {"none", "accepted", "refused"}], [Next]_vars
  PROVE  verdict' \in [Topics -> {"none", "accepted", "refused"}]
<1> USE DEF Supersedes
<1>1. ASSUME NEW r \in Runs, Start(r) \/ Compare(r) \/ Create(r) \/ Pass(r) \/ Visit(r)
      PROVE  verdict' \in [Topics -> {"none", "accepted", "refused"}]
  BY <1>1 DEF Start, Compare, Create, Pass, Visit
<1>2. ASSUME NEW p \in Jobs, Validate(p) \/ Open(p) \/ Build(p) \/ Raise(p) \/ Crash(p)
      PROVE  verdict' \in [Topics -> {"none", "accepted", "refused"}]
  BY <1>2 DEF Validate, Open, Build, Raise, Crash
<1>3. ASSUME \/ \E h \in Hands : Choose(h) \/ Rehearse(h)
             \/ \E t \in Topics, v \in Versions, c \in Contents : Apply(t, v, c)
             \/ \E t \in Topics, item \in Items : Edit(t, item)
             \/ Audit \/ AgentCrash \/ Tick
             \/ \E k \in Keys : Break(k)
             \/ UNCHANGED vars
      PROVE  verdict' \in [Topics -> {"none", "accepted", "refused"}]
  BY <1>3 DEF Choose, Rehearse, Apply, Edit, Audit, AgentCrash, Tick, Break, vars
<1> QED
  BY <1>1, <1>2, <1>3, NextSplit

LEMMA StepType == TypeOK /\ [Next]_vars => TypeOK'
<1> SUFFICES ASSUME TypeOK, [Next]_vars PROVE TypeOK'
  OBVIOUS
<1>1. TypesOK'
  <2>1. CASE UNCHANGED vars
    BY <2>1 DEF vars, store, TypeOK, TypesOK
  <2> QED
    BY <2>1, NextSplit, RunType, ValidateType, BuildType, ChooseType, RehearsalType,
       EnvironmentType
<1>2. verdict' \in [Topics -> {"none", "accepted", "refused"}]
  BY VerdictType DEF TypeOK
<1> QED
  BY <1>1, <1>2 DEF TypeOK, TypesOK

\* Every reachable state is well formed: whatever a process carries through a crash
\* of another one or an edit of the configuration is a version of a topic.
THEOREM TypeCorrect == Spec => []TypeOK
  BY InitType, StepType, PTL DEF Spec

-----------------------------------------------------------------------------
(* Stored versions and the editions made of them.                          *)

\* The configuration a process carries says of a topic what is stored.
StoredAs(row, t) == profiles[t][row.conf[t].version] = row.conf[t].content

\* What a deadline-run has reconciled so far.
RunOK(row) ==
  /\ row.at \in {"reconcile", "create"} =>
       \A i \in DOMAIN Order : i < row.next => StoredAs(row, Order[i])
  /\ row.at \in {"visit", "open", "build"} => \A t \in Topics : StoredAs(row, t)

\* The edition a process has come to.
JobOK(row) == row.at \in {"open", "build"} =>
  /\ row.key \in Keys
  /\ profiles[row.key[1]][row.key[2]] # NoContent
  /\ row.deadline \in EditionSchedule(profiles[row.key[1]][row.key[2]], row.key[3])
  /\ row.at = "build" => editions[row.key].status # "none"

RunsOK == \A r \in Runs : RunOK(job[r])
JobsOK == \A p \in Jobs : JobOK(job[p])

\* A stored version never changes (INSERT OR IGNORE).
LEMMA StoredForever ==
  ASSUME TypeOK, [Next]_vars, NEW t \in Topics, NEW v \in Versions, profiles[t][v] # NoContent
  PROVE  profiles'[t][v] = profiles[t][v]
<1>1. ASSUME NEW tt \in Topics, NEW vv \in Versions, NEW c \in Contents, CreateProfile(tt, vv, c)
      PROVE  profiles'[t][v] = profiles[t][v]
  BY <1>1 DEF CreateProfile, Inserted, TypeOK, ProfileRows
<1>2. ASSUME NEW r \in Runs, Create(r) PROVE profiles'[t][v] = profiles[t][v]
  <2>1. CreateProfile(Topic(r), Item(r).version, Item(r).content)
    BY <1>2 DEF Create
  <2> QED
    BY <1>1, <2>1, ItemType
<1>3. ASSUME NEW tt \in Topics, NEW vv \in Versions, NEW c \in Contents, Apply(tt, vv, c)
      PROVE  profiles'[t][v] = profiles[t][v]
  BY <1>1, <1>3 DEF Apply
<1>4. ASSUME \/ \E r \in Runs : Start(r) \/ Compare(r) \/ Pass(r) \/ Visit(r)
             \/ \E p \in Jobs : Validate(p) \/ Open(p) \/ Build(p) \/ Raise(p) \/ Crash(p)
             \/ \E h \in Hands : Choose(h) \/ Rehearse(h)
             \/ \E tt \in Topics, item \in Items : Edit(tt, item)
             \/ Audit \/ AgentCrash \/ Tick
             \/ \E k \in Keys : Break(k)
             \/ UNCHANGED vars
      PROVE  profiles' = profiles
  BY <1>4 DEF Start, Compare, Pass, Visit, Validate, Open, Build, Raise, Crash, Choose, Rehearse, Edit, Audit,
              AgentCrash, Tick, Break, vars, store
<1> QED
  BY <1>2, <1>3, <1>4, NextSplit

\* An edition keeps its deadline, and is never made away with.
LEMMA EditionForever ==
  ASSUME TypeOK, [Next]_vars, NEW k \in Keys, editions[k].status # "none"
  PROVE  editions'[k].status # "none" /\ editions'[k].deadline = editions[k].deadline
<1>1. ASSUME NEW p \in Jobs, Open(p)
      PROVE  editions'[k] = editions[k]
  BY <1>1 DEF Open, TypeOK, EditionRows
<1>2. ASSUME NEW p \in Jobs, Build(p)
      PROVE  editions'[k].status # "none" /\ editions'[k].deadline = editions[k].deadline
  BY <1>2 DEF Build, TypeOK, EditionRows
<1>3. ASSUME \/ \E r \in Runs : Start(r) \/ Compare(r) \/ Create(r) \/ Pass(r) \/ Visit(r)
             \/ \E p \in Jobs : Validate(p) \/ Raise(p) \/ Crash(p)
             \/ \E h \in Hands : Choose(h) \/ Rehearse(h)
             \/ \E t \in Topics, v \in Versions, c \in Contents : Apply(t, v, c)
             \/ \E t \in Topics, item \in Items : Edit(t, item)
             \/ Audit \/ AgentCrash \/ Tick
             \/ \E kk \in Keys : Break(kk)
             \/ UNCHANGED vars
      PROVE  editions' = editions
  BY <1>3 DEF Start, Compare, Create, Pass, Visit, Validate, Raise, Crash, Choose, Rehearse, Apply, Edit, Audit,
              AgentCrash, Tick, Break, vars, store
<1> QED
  BY <1>1, <1>2, <1>3, NextSplit

LEMMA StoredAsStays ==
  ASSUME TypeOK, [Next]_vars, NEW row \in JobRow, NEW t \in Topics, StoredAs(row, t)
  PROVE  StoredAs(row, t)'
<1>1. row.conf[t].version \in Versions /\ row.conf[t].content \in Contents
  BY DEF JobRow, Items
<1>2. profiles[t][row.conf[t].version] # NoContent
  BY <1>1, CoordinatorAssumption DEF StoredAs
<1> QED
  BY <1>1, <1>2, StoredForever DEF StoredAs

\* What holds of the memory of a process that does not move goes on to hold.
LEMMA RowsStay ==
  ASSUME TypeOK, [Next]_vars, NEW row \in JobRow
  PROVE  (RunOK(row) => RunOK(row)') /\ (JobOK(row) => JobOK(row)')
<1>1. RunOK(row) => RunOK(row)'
  <2>1. \A i \in DOMAIN Order : Order[i] \in Topics
    BY DEF Topics
  <2> QED
    BY <2>1, StoredAsStays DEF RunOK
<1>2. JobOK(row) => JobOK(row)'
  <2> SUFFICES ASSUME JobOK(row), row.at \in {"open", "build"}
               PROVE  /\ row.key \in Keys
                      /\ profiles'[row.key[1]][row.key[2]] # NoContent
                      /\ row.deadline \in EditionSchedule(profiles'[row.key[1]][row.key[2]], row.key[3])
                      /\ row.at = "build" => editions'[row.key].status # "none"
    BY DEF JobOK
  <2>1. row.key \in Keys /\ row.key[1] \in Topics /\ row.key[2] \in Versions
    BY DEF JobOK, Keys
  <2>2. profiles'[row.key[1]][row.key[2]] = profiles[row.key[1]][row.key[2]]
    BY <2>1, StoredForever DEF JobOK
  <2> QED
    BY <2>1, <2>2, EditionForever DEF JobOK
<1> QED
  BY <1>1, <1>2

LEMMA IdleOK == RunOK(Idle) /\ JobOK(Idle)
  BY DEF Idle, RunOK, JobOK

\* A process that stays where it is, or is done.
LEMMA RestsOK ==
  ASSUME TypeOK, [Next]_vars, RunsOK, JobsOK, NEW p \in Jobs,
         job'[p] = job[p] \/ job'[p] = Idle
  PROVE  (p \in Runs => RunOK(job[p])') /\ JobOK(job[p])'
<1>1. job[p] \in JobRow
  BY DEF TypeOK
<1>2. CASE job'[p] = job[p]
  BY <1>1, <1>2, RowsStay DEF RunsOK, JobsOK
<1>3. CASE job'[p] = Idle
  BY <1>3, IdleType, IdleOK, RowsStay
<1> QED
  BY <1>2, <1>3

\* On with the next topic: a run past its reconciliation stays past it.
LEMMA ContinuesOK ==
  ASSUME TypeOK, [Next]_vars, RunsOK, JobsOK, NEW r \in Runs, Continues(r),
         job[r].at \in {"visit", "open", "build"}
  PROVE  RunOK(job[r])' /\ JobOK(job[r])'
<1>1. r \in Jobs /\ job[r] \in JobRow
  BY DEF TypeOK, Jobs
<1>2. CASE job[r].next < Len(Order)
  <2>1. job'[r] = [job[r] EXCEPT !.at = "visit", !.next = @ + 1]
    BY <1>1, <1>2 DEF Continues, TypeOK
  <2>2. job'[r].at = "visit" /\ job'[r].conf = job[r].conf
    BY <1>1, <2>1 DEF JobRow
  <2>3. ASSUME NEW t \in Topics PROVE StoredAs(job[r], t)'
    <3>1. StoredAs(job[r], t)
      BY DEF RunsOK, RunOK
    <3>2. profiles'[t][job[r].conf[t].version] = job[r].conf[t].content
      BY <1>1, <3>1, StoredAsStays DEF StoredAs
    <3> QED
      BY <2>2, <3>2 DEF StoredAs
  <2> QED
    BY <2>2, <2>3 DEF RunOK, JobOK
<1>3. CASE ~(job[r].next < Len(Order))
  <2>1. job'[r] = Idle
    BY <1>1, <1>3 DEF Continues, Ends, TypeOK
  <2> QED
    BY <1>1, <2>1, RestsOK
<1> QED
  BY <1>2, <1>3

\* Reconciling a topic: the version of the configuration is stored now.
LEMMA CreateMoves ==
  ASSUME TypeOK, [Next]_vars, RunsOK, JobsOK, NEW r \in Runs, Create(r)
  PROVE  RunOK(job[r])' /\ JobOK(job[r])'
<1>1. r \in Jobs /\ job[r] \in JobRow
  BY DEF TypeOK, Jobs
<1>2. job[r].at = "create" /\ job[r].next \in DOMAIN Order
  BY <1>1 DEF Create, At, JobRow
<1>3. CASE Clashes(Topic(r), Item(r).version, Item(r).content)
  <2>1. job'[r] = Idle
    BY <1>1, <1>3 DEF Create, Ends, TypeOK
  <2> QED
    BY <1>1, <2>1, RestsOK
<1>4. CASE ~Clashes(Topic(r), Item(r).version, Item(r).content)
  <2>1. profiles'[Topic(r)][Item(r).version] = Item(r).content
    <3>1. Topic(r) \in Topics /\ Item(r).version \in Versions
      BY ItemType
    <3>2. CreateProfile(Topic(r), Item(r).version, Item(r).content)
      BY DEF Create
    <3>3. Inserted(Topic(r), Item(r).version, Item(r).content) = Item(r).content
      BY <1>4 DEF Clashes
    <3> QED
      BY <3>1, <3>2, <3>3 DEF CreateProfile, TypeOK, ProfileRows
  <2>2. job'[r].conf = job[r].conf
    BY <1>1, <1>4 DEF Create, TypeOK, JobRow
  <2>3. ASSUME NEW i \in DOMAIN Order, i < job[r].next \/ i = job[r].next
        PROVE  StoredAs(job[r], Order[i])'
    <3>1. Order[i] \in Topics
      BY DEF Topics
    <3>2. CASE i < job[r].next
      <4>1. StoredAs(job[r], Order[i])
        BY <1>2, <3>2 DEF RunsOK, RunOK
      <4>2. profiles'[Order[i]][job[r].conf[Order[i]].version] = job[r].conf[Order[i]].content
        BY <1>1, <3>1, <4>1, StoredAsStays DEF StoredAs
      <4> QED
        BY <2>2, <4>2 DEF StoredAs
    <3>3. CASE i = job[r].next
      BY <2>1, <2>2, <3>3 DEF StoredAs, Topic, Item
    <3> QED
      BY <2>3, <3>2, <3>3
  <2>4. CASE job[r].next < Len(Order)
    <3>1. job'[r].at = "reconcile" /\ job'[r].next = job[r].next + 1
      BY <1>1, <1>4, <2>4 DEF Create, TypeOK, JobRow
    <3>2. \A i \in DOMAIN Order : i < job[r].next + 1 => i < job[r].next \/ i = job[r].next
      BY <1>2, CoordinatorAssumption
    <3> QED
      BY <2>3, <3>1, <3>2 DEF RunOK, JobOK
  <2>5. CASE ~(job[r].next < Len(Order))
    <3>1. job'[r].at = "visit"
      BY <1>1, <1>4, <2>5 DEF Create, TypeOK, JobRow
    <3>2. \A i \in DOMAIN Order : i < job[r].next \/ i = job[r].next
      BY <1>2, <2>5, CoordinatorAssumption
    <3>3. ASSUME NEW t \in Topics PROVE StoredAs(job[r], t)'
      BY <2>3, <3>2 DEF Topics
    <3> QED
      BY <3>1, <3>3 DEF RunOK, JobOK
  <2> QED
    BY <2>4, <2>5
<1> QED
  BY <1>3, <1>4

\* A run that comes to an edition carries a stored version and its deadline.
LEMMA VisitMoves ==
  ASSUME TypeOK, [Next]_vars, RunsOK, JobsOK, NEW r \in Runs, Visit(r)
  PROVE  RunOK(job[r])' /\ JobOK(job[r])'
<1> DEFINE c == Item(r).content
           day == LocalDay(c, job[r].started)
<1>1. r \in Jobs /\ job[r] \in JobRow /\ job[r].at = "visit"
  BY DEF TypeOK, Jobs, Visit, At
<1>2. Topic(r) \in Topics /\ Item(r).version \in Versions /\ c \in Contents
  BY ItemType
<1>3. day \in Days
  BY <1>1, <1>2, DayType DEF JobRow
<1>4. /\ job'[r].at = "open" /\ job'[r].conf = job[r].conf
      /\ job'[r].key = <<Topic(r), Item(r).version, day>>
      /\ job'[r].deadline = DeadlineAt(c, day)
  BY <1>1 DEF Visit, TypeOK, JobRow
<1>5. ASSUME NEW t \in Topics
      PROVE  profiles'[t][job[r].conf[t].version] = job[r].conf[t].content
  BY <1>1, StoredAsStays DEF RunsOK, RunOK, StoredAs
<1>6. profiles'[Topic(r)][Item(r).version] = c
  BY <1>2, <1>5 DEF Item
<1> HIDE DEF c, day
<1>7. RunOK(job[r])'
  BY <1>4, <1>5 DEF RunOK, StoredAs
<1>8. JobOK(job[r])'
  <2>1. c # NoContent /\ DeadlineAt(c, day) \in EditionSchedule(c, day)
    BY <1>2, CoordinatorAssumption DEF EditionSchedule
  <2>2. <<Topic(r), Item(r).version, day>> \in Keys
    BY <1>2, <1>3 DEF Keys
  <2> QED
    BY <1>4, <1>6, <2>1, <2>2 DEF JobOK
<1> QED
  BY <1>7, <1>8

\* A deadline-run on its way to its editions.
LEMMA RunMoves ==
  ASSUME TypeOK, [Next]_vars, RunsOK, JobsOK, NEW r \in Runs,
         Start(r) \/ Compare(r) \/ Create(r) \/ Pass(r) \/ Visit(r)
  PROVE  RunOK(job[r])' /\ JobOK(job[r])'
<1>1. r \in Jobs /\ job[r] \in JobRow
  BY DEF TypeOK, Jobs
<1>2. ASSUME job'[r].conf = job[r].conf, NEW t \in Topics, StoredAs(job[r], t)
      PROVE  StoredAs(job[r], t)'
  <2>1. profiles'[t][job[r].conf[t].version] = job[r].conf[t].content
    BY <1>1, <1>2, StoredAsStays DEF StoredAs
  <2> QED
    BY <1>2, <2>1 DEF StoredAs
<1>3. CASE Start(r)
  <2>1. job'[r].at = "reconcile" /\ job'[r].next = 1
    BY <1>1, <1>3 DEF Start, TypeOK, Idle
  <2>2. \A i \in DOMAIN Order : ~(i < 1)
    BY CoordinatorAssumption
  <2> QED
    BY <2>1, <2>2 DEF RunOK, JobOK
<1>4. CASE Compare(r)
  <2>1. job[r].at = "reconcile"
    BY <1>4 DEF Compare, At
  <2>2. CASE Ends(r)
    BY <1>1, <2>2, RestsOK DEF Ends, TypeOK
  <2>3. CASE job' = [job EXCEPT ![r].at = "create"]
    <3>1. /\ job'[r].at = "create" /\ job'[r].next = job[r].next
          /\ job'[r].conf = job[r].conf
      BY <1>1, <2>3 DEF JobRow, TypeOK
    <3>2. ASSUME NEW i \in DOMAIN Order, i < job'[r].next PROVE StoredAs(job[r], Order[i])'
      BY <1>2, <2>1, <3>1, <3>2 DEF RunsOK, RunOK, Topics
    <3> QED
      BY <3>1, <3>2 DEF RunOK, JobOK
  <2> QED
    BY <1>4, <2>2, <2>3 DEF Compare
<1>5. CASE Pass(r)
  BY <1>5, ContinuesOK DEF Pass, At
<1> QED
  BY <1>3, <1>4, <1>5, CreateMoves, VisitMoves

\* Opening an edition and building it.
LEMMA BuildMoves ==
  ASSUME TypeOK, [Next]_vars, RunsOK, JobsOK, NEW p \in Jobs,
         Open(p) \/ Build(p) \/ Raise(p) \/ Crash(p)
  PROVE  (p \in Runs => RunOK(job[p])') /\ JobOK(job[p])'
<1>1. job[p] \in JobRow
  BY DEF TypeOK
<1>2. CASE Ends(p)
  BY <1>2, RestsOK DEF Ends, TypeOK
<1>3. CASE Open(p) /\ job' = [job EXCEPT ![p].at = "build"]
  <2>1. job[p].at = "open"
    BY <1>3 DEF Open, At
  <2>2. /\ job'[p].at = "build" /\ job'[p].conf = job[p].conf
        /\ job'[p].key = job[p].key /\ job'[p].deadline = job[p].deadline
    BY <1>1, <1>3 DEF TypeOK, JobRow
  <2>3. job[p].key \in Keys
    BY <2>1 DEF JobsOK, JobOK
  <2>4. JobOK(job[p])'
    <3>1. editions'[job[p].key].status # "none"
      BY <1>3, <2>3 DEF Open, TypeOK, EditionRows
    <3>2. profiles' = profiles
      BY <1>3 DEF Open
    <3> QED
      BY <2>1, <2>2, <3>1, <3>2 DEF JobsOK, JobOK
  <2>5. ASSUME p \in Runs PROVE RunOK(job[p])'
    <3>1. profiles' = profiles
      BY <1>3 DEF Open
    <3>2. \A t \in Topics : StoredAs(job[p], t)
      BY <2>1, <2>5 DEF RunsOK, RunOK
    <3> QED
      BY <2>2, <3>1, <3>2 DEF RunOK, StoredAs
  <2> QED
    BY <2>4, <2>5
<1>4. CASE Build(p) /\ p \in Runs /\ Continues(p)
  BY <1>4, ContinuesOK DEF Build, At
<1>5. \/ Ends(p)
      \/ Open(p) /\ job' = [job EXCEPT ![p].at = "build"]
      \/ Build(p) /\ p \in Runs /\ Continues(p)
  BY DEF Open, Build, Raise, Crash
<1> QED
  BY <1>2, <1>3, <1>4, <1>5

\* edition-build takes the latest version that is stored.
LEMMA ChooseMoves ==
  ASSUME TypeOK, NEW h \in Hands, Choose(h)
  PROVE  JobOK(job[h])'
<1>1. PICK t \in Topics, day \in Days :
        /\ Latest(t) # 0
        /\ \E deadline \in EditionSchedule(profiles[t][Latest(t)], day) :
             job' = [job EXCEPT ![h] = [Idle EXCEPT !.at = "open", !.key = <<t, Latest(t), day>>,
                                                    !.deadline = deadline]]
  BY DEF Choose
<1>2. PICK deadline \in EditionSchedule(profiles[t][Latest(t)], day) :
        job' = [job EXCEPT ![h] = [Idle EXCEPT !.at = "open", !.key = <<t, Latest(t), day>>,
                                               !.deadline = deadline]]
  BY <1>1
<1>3. Latest(t) \in Versions /\ profiles[t][Latest(t)] # NoContent
  BY <1>1, LatestIsStored
<1>4. /\ job'[h].at = "open" /\ job'[h].key = <<t, Latest(t), day>>
      /\ job'[h].deadline = deadline
  BY <1>2 DEF TypeOK, Jobs, Idle
<1>5. profiles' = profiles /\ <<t, Latest(t), day>> \in Keys
  BY <1>3 DEF Choose, store, Keys
<1> QED
  BY <1>2, <1>3, <1>4, <1>5 DEF JobOK

\* A dry run comes to no edition.
LEMMA RehearsalMoves ==
  ASSUME TypeOK, [Next]_vars, NEW p \in Jobs, Validate(p) \/ Rehearse(p)
  PROVE  (p \in Runs => RunOK(job[p])') /\ JobOK(job[p])'
<1>1. CASE job' = [job EXCEPT ![p].next = @ + 1] /\ job[p].at = "validate"
  <2>1. job'[p].at = "validate"
    BY <1>1 DEF TypeOK, JobRow
  <2> QED
    BY <2>1 DEF RunOK, JobOK
<1>2. CASE Ends(p) \/ job' = [job EXCEPT ![p] = [Idle EXCEPT !.at = "validate", !.conf = config]]
  <2>1. job'[p] = Idle \/ job'[p] = [Idle EXCEPT !.at = "validate", !.conf = config]
    BY <1>2 DEF Ends, TypeOK
  <2>2. Idle.at = "idle" /\ [Idle EXCEPT !.at = "validate", !.conf = config].at = "validate"
    BY DEF Idle
  <2>3. job'[p].at = "idle" \/ job'[p].at = "validate"
    BY <2>1, <2>2
  <2> QED
    BY <2>3 DEF RunOK, JobOK
<1> QED
  BY <1>1, <1>2 DEF Validate, Rehearse, At

\* Who moves, and that nobody moves another one.
LEMMA OneMoves ==
  ASSUME TypeOK, [Next]_vars, NEW q \in Jobs
  PROVE  \/ job'[q] = job[q]
         \/ q \in Runs /\ (Start(q) \/ Compare(q) \/ Create(q) \/ Pass(q) \/ Visit(q))
         \/ Open(q) \/ Build(q) \/ Raise(q) \/ Crash(q)
         \/ q \in Hands /\ Choose(q)
         \/ Validate(q) \/ Rehearse(q)
<1> USE DEF TypeOK
<1>1. ASSUME NEW r \in Runs, r # q, Start(r) \/ Compare(r) \/ Create(r) \/ Pass(r) \/ Visit(r)
      PROVE  job'[q] = job[q]
  BY <1>1 DEF Start, Compare, Create, Pass, Visit, Ends, Continues
<1>2. ASSUME NEW p \in Jobs, p # q, Validate(p) \/ Open(p) \/ Build(p) \/ Raise(p) \/ Crash(p)
      PROVE  job'[q] = job[q]
  BY <1>2 DEF Validate, Open, Build, Raise, Crash, Ends, Continues
<1>3. ASSUME NEW h \in Hands, h # q, Choose(h) \/ Rehearse(h) PROVE job'[q] = job[q]
  BY <1>3 DEF Choose, Rehearse
<1>4. ASSUME \/ \E t \in Topics, v \in Versions, c \in Contents : Apply(t, v, c)
             \/ \E t \in Topics, item \in Items : Edit(t, item)
             \/ Audit \/ AgentCrash \/ Tick
             \/ \E k \in Keys : Break(k)
             \/ UNCHANGED vars
      PROVE  job' = job
  BY <1>4 DEF Apply, Edit, Audit, AgentCrash, Tick, Break, vars
<1> HIDE DEF TypeOK
<1> QED
  BY <1>1, <1>2, <1>3, <1>4, NextSplit

LEMMA MemoryStep ==
  TypeOK /\ RunsOK /\ JobsOK /\ [Next]_vars => RunsOK' /\ JobsOK'
<1> SUFFICES ASSUME TypeOK, RunsOK, JobsOK, [Next]_vars,
                    NEW q \in Jobs
             PROVE  (q \in Runs => RunOK(job[q])') /\ JobOK(job[q])'
  BY DEF RunsOK, JobsOK, Jobs
<1>1. CASE job'[q] = job[q]
  BY <1>1, RestsOK
<1>2. CASE q \in Runs /\ (Start(q) \/ Compare(q) \/ Create(q) \/ Pass(q) \/ Visit(q))
  BY <1>2, RunMoves
<1>3. CASE Open(q) \/ Build(q) \/ Raise(q) \/ Crash(q)
  BY <1>3, BuildMoves
<1>4. CASE q \in Hands /\ Choose(q)
  <2>1. q \notin Runs
    BY <1>4, CoordinatorAssumption
  <2> QED
    BY <1>4, <2>1, ChooseMoves
<1>5. CASE Validate(q) \/ Rehearse(q)
  BY <1>5, RehearsalMoves
<1> QED
  BY <1>1, <1>2, <1>3, <1>4, <1>5, OneMoves

LEMMA MemoryInit == Init => RunsOK /\ JobsOK
<1> SUFFICES ASSUME Init PROVE RunsOK /\ JobsOK
  OBVIOUS
<1>1. \A p \in Jobs : job[p] = Idle
  BY DEF Init
<1> QED
  BY <1>1, IdleOK DEF RunsOK, JobsOK, Jobs

\* A deadline-run builds editions of stored versions only: what it reconciled is
\* there when it comes to its editions and stays there, whatever agents apply and
\* whoever edits the file (reconcile_config_topics before DeadlineCoordinator.run).
THEOREM WorksOnStoredVersionsAlways == Spec => []WorksOnStoredVersions
<1>1. RunsOK => WorksOnStoredVersions
  BY DEF RunsOK, RunOK, StoredAs, WorksOnStoredVersions
<1> QED
  BY <1>1, MemoryInit, MemoryStep, TypeCorrect, PTL DEF Spec

\* An edition comes into being by an Open of a process that came to it.
LEMMA NewEdition ==
  ASSUME TypeOK, JobsOK, [Next]_vars, NEW k \in Keys,
         editions[k].status = "none", editions'[k].status # "none"
  PROVE  \E p \in Jobs : Open(p) /\ job[p].key = k
<1>1. ASSUME NEW p \in Jobs, Open(p) PROVE job[p].key = k
  BY <1>1 DEF Open, TypeOK, EditionRows
<1>2. ASSUME NEW p \in Jobs, Build(p) PROVE FALSE
  <2>1. editions[job[p].key].status # "none"
    BY <1>2 DEF Build, At, JobsOK, JobOK
  <2> QED
    BY <1>2, <2>1 DEF Build, TypeOK, EditionRows
<1>3. ASSUME \/ \E r \in Runs : Start(r) \/ Compare(r) \/ Create(r) \/ Pass(r) \/ Visit(r)
             \/ \E p \in Jobs : Validate(p) \/ Raise(p) \/ Crash(p)
             \/ \E h \in Hands : Choose(h) \/ Rehearse(h)
             \/ \E t \in Topics, v \in Versions, c \in Contents : Apply(t, v, c)
             \/ \E t \in Topics, item \in Items : Edit(t, item)
             \/ Audit \/ AgentCrash \/ Tick
             \/ \E kk \in Keys : Break(kk)
             \/ UNCHANGED vars
      PROVE  editions' = editions
  BY <1>3 DEF Start, Compare, Create, Pass, Visit, Validate, Raise, Crash, Choose, Rehearse, Apply, Edit, Audit,
              AgentCrash, Tick, Break, vars, store
<1> QED
  BY <1>1, <1>2, <1>3, NextSplit

\* The strengthening of KeepsItsSchedule: the deadline is the one the code computes.
ScheduleOK ==
  \A t \in Topics, v \in Versions, day \in Days :
    editions[<<t, v, day>>].status # "none" =>
      /\ profiles[t][v] # NoContent
      /\ editions[<<t, v, day>>].deadline \in EditionSchedule(profiles[t][v], day)

LEMMA ScheduleAlways == Spec => []ScheduleOK
<1>1. Init => ScheduleOK
  BY DEF Init, ScheduleOK, Keys, Absent
<1>2. TypeOK /\ RunsOK /\ JobsOK /\ ScheduleOK /\ [Next]_vars => ScheduleOK'
  <2> SUFFICES ASSUME TypeOK, JobsOK, ScheduleOK, [Next]_vars,
                      NEW t \in Topics, NEW v \in Versions, NEW day \in Days,
                      editions'[<<t, v, day>>].status # "none"
               PROVE  /\ profiles'[t][v] # NoContent
                      /\ editions'[<<t, v, day>>].deadline \in EditionSchedule(profiles'[t][v], day)
    BY DEF ScheduleOK
  <2> DEFINE k == <<t, v, day>>
  <2>1. k \in Keys
    BY DEF Keys
  <2>2. CASE editions[k].status # "none"
    <3>1. /\ profiles[t][v] # NoContent
          /\ editions[k].deadline \in EditionSchedule(profiles[t][v], day)
      BY <2>2 DEF ScheduleOK
    <3>2. profiles'[t][v] = profiles[t][v]
      BY <3>1, StoredForever
    <3>3. editions'[k].deadline = editions[k].deadline
      BY <2>1, <2>2, EditionForever
    <3> QED
      BY <3>1, <3>2, <3>3
  <2>3. CASE editions[k].status = "none"
    <3>1. PICK p \in Jobs : Open(p) /\ job[p].key = k
      BY <2>1, <2>3, NewEdition
    <3>2. /\ profiles[t][v] # NoContent
          /\ job[p].deadline \in EditionSchedule(profiles[t][v], day)
      BY <3>1 DEF Open, At, JobsOK, JobOK
    <3>3. editions'[k].deadline = job[p].deadline
      BY <2>1, <2>3, <3>1 DEF Open, TypeOK, EditionRows
    <3>4. profiles' = profiles
      BY <3>1 DEF Open
    <3> QED
      BY <3>2, <3>3, <3>4
  <2> QED
    BY <2>2, <2>3
<1> QED
  BY <1>1, <1>2, MemoryInit, MemoryStep, TypeCorrect, PTL DEF Spec

\* A day and a time of the day are found again in the instant they make.
LEMMA DayAndTime ==
  ASSUME NEW n \in Nat \ {0}, NEW d \in Nat, d < n, NEW k \in Int
  PROVE  (k * n + d) \div n = k /\ (k * n + d) % n = d
<1> DEFINE q == (k * n + d) \div n
           r == (k * n + d) % n
<1>1. k * n \in Int
  OBVIOUS
<1>2. q \in Int /\ r \in 0..(n - 1) /\ k * n + d = n * q + r
  OBVIOUS
<1> HIDE DEF q, r
<1>3. q * n \in Int /\ n * q = q * n
  BY <1>2
<1>4. (k - q) * n = r - d
  <2>1. (k - q) * n = k * n - q * n
    BY <1>2
  <2> QED
    BY <1>1, <1>2, <1>3, <2>1
<1>5. k - q < 1
  <2> SUFFICES ASSUME k - q >= 1 PROVE FALSE
    BY <1>2
  <2>1. (k - q) * n >= n
    BY <1>2
  <2> QED
    BY <1>2, <1>4, <2>1
<1>6. k - q > -1
  <2> SUFFICES ASSUME k - q <= -1 PROVE FALSE
    BY <1>2
  <2>1. (k - q) * n <= -n
    BY <1>2
  <2> QED
    BY <1>2, <1>4, <2>1
<1>7. k = q
  BY <1>2, <1>5, <1>6
<1> QED
  BY <1>1, <1>2, <1>3, <1>7 DEF q, r

LEMMA DeadlineFalls ==
  ASSUME NEW c \in Contents, NEW day \in Int
  PROVE  FallsOn(c, day, DeadlineAt(c, day))
<1>1. day * DayLength \in Int /\ Deadline[c] \in Nat /\ Deadline[c] < DayLength /\ Offset[c] \in Int
  BY CoordinatorAssumption
<1>2. DeadlineAt(c, day) + Offset[c] = day * DayLength + Deadline[c]
  BY <1>1 DEF DeadlineAt
<1>3. DayLength \in Nat \ {0}
  BY CoordinatorAssumption
<1> QED
  BY <1>1, <1>2, <1>3, DayAndTime DEF FallsOn, LocalDay

\* Every edition is of a stored version and falls due at that version's local time on
\* the edition's own local date, or when an operator said (create_edition_run refuses
\* any other deadline, _schedule computes this one).
THEOREM KeepsItsScheduleAlways == Spec => []KeepsItsSchedule
<1>1. TypeOK /\ ScheduleOK => KeepsItsSchedule
  <2> SUFFICES ASSUME TypeOK, ScheduleOK,
                      NEW t \in Topics, NEW v \in Versions, NEW day \in Days,
                      editions[<<t, v, day>>].status # "none"
               PROVE  /\ profiles[t][v] # NoContent
                      /\ \/ editions[<<t, v, day>>].deadline \in Overrides
                         \/ FallsOn(profiles[t][v], day, editions[<<t, v, day>>].deadline)
    BY DEF KeepsItsSchedule
  <2>1. /\ profiles[t][v] # NoContent
        /\ editions[<<t, v, day>>].deadline \in EditionSchedule(profiles[t][v], day)
    BY DEF ScheduleOK
  <2>2. profiles[t][v] \in Contents /\ day \in Int
    BY <2>1, DaysAreNumbers DEF TypeOK, ProfileRows
  <2> QED
    BY <2>1, <2>2, DeadlineFalls DEF EditionSchedule
<1> QED
  BY <1>1, ScheduleAlways, TypeCorrect, PTL

-----------------------------------------------------------------------------
(* The dry run and the run.                                                *)

\* No stored version is above the latest one.
LEMMA LatestIsLargest ==
  ASSUME NEW t \in Topics, NEW v \in Versions, profiles[t][v] # NoContent
  PROVE  Latest(t) \in Versions /\ v <= Latest(t)
<1>1. Stored(t) # {} /\ Stored(t) \in SUBSET (1..MaxVersion) /\ v \in Stored(t)
  BY DEF Stored, Versions
<1>2. \E x \in Stored(t) : \A y \in Stored(t) : x >= y
  BY <1>1, HasLargest, CoordinatorAssumption
<1>3. Latest(t) \in Stored(t) /\ \A y \in Stored(t) : Latest(t) >= y
  BY <1>1, <1>2 DEF Latest, Max
<1>4. Latest(t) \in Nat /\ v \in Nat /\ Latest(t) >= v
  BY <1>1, <1>3
<1> QED
  BY <1>3, <1>4 DEF Stored

\* Of one topic: the dry run, which reads the latest version only, finds what the
\* INSERT OR IGNORE of the configured version would run into.
LEMMA DryRunOfTopic ==
  ASSUME NEW t \in Topics, NEW v \in Versions, NEW c \in Contents
  PROVE  (Latest(t) # 0 => Latest(t) <= v /\ (Latest(t) = v => profiles[t][Latest(t)] = c))
           <=> (Latest(t) <= v /\ ~Clashes(t, v, c))
<1>1. v \in Nat /\ v > 0
  BY DEF Versions
<1>2. CASE profiles[t][v] # NoContent
  <2>1. Latest(t) \in Nat /\ Latest(t) > 0 /\ v <= Latest(t)
    BY <1>2, LatestIsLargest DEF Versions
  <2>2. Clashes(t, v, c) <=> profiles[t][v] # c
    BY <1>2 DEF Clashes, Inserted
  <2> QED
    BY <1>1, <2>1, <2>2
<1>3. CASE profiles[t][v] = NoContent
  <2>1. ~Clashes(t, v, c)
    BY <1>3 DEF Clashes, Inserted
  <2>2. Latest(t) # 0 => Latest(t) \in Nat /\ Latest(t) # v
    BY <1>3, LatestIsStored DEF Versions
  <2> QED
    BY <1>1, <2>1, <2>2
<1> QED
  BY <1>2, <1>3

\* The latest version only rises.
LEMMA LatestRises ==
  ASSUME TypeOK, [Next]_vars, NEW t \in Topics
  PROVE  Latest(t) \in Nat /\ Latest(t)' \in Nat /\ Latest(t) <= Latest(t)'
<1>1. Latest(t) \in Nat
  BY LatestIsStored DEF Versions
<1>2. ASSUME Latest(t)' # 0 PROVE Latest(t)' \in Versions
  <2>1. Stored(t)' # {} /\ Stored(t)' \in SUBSET (1..MaxVersion)
    BY <1>2 DEF Latest, Stored, Versions
  <2>2. \E x \in Stored(t)' : \A y \in Stored(t)' : x >= y
    BY <2>1, HasLargest, CoordinatorAssumption
  <2> QED
    BY <2>1, <2>2 DEF Latest, Max, Versions
<1>3. ASSUME Latest(t) # 0 PROVE Latest(t) <= Latest(t)'
  <2>1. Latest(t) \in Versions /\ profiles'[t][Latest(t)] # NoContent
    BY <1>3, LatestIsStored, StoredForever
  <2>2. Latest(t) \in Stored(t)' /\ Stored(t)' \in SUBSET (1..MaxVersion)
    BY <2>1 DEF Stored, Versions
  <2>3. \E x \in Stored(t)' : \A y \in Stored(t)' : x >= y
    BY <2>2, HasLargest, CoordinatorAssumption
  <2>4. Latest(t)' \in Stored(t)' /\ \A y \in Stored(t)' : Latest(t)' >= y
    BY <2>2, <2>3 DEF Latest, Max
  <2> QED
    BY <1>1, <2>2, <2>4 DEF Stored, Versions
<1> QED
  BY <1>1, <1>2, <1>3 DEF Versions

\* What makes the reconciliation of a topic fail stays.
LEMMA RefusalStays ==
  ASSUME TypeOK, [Next]_vars, NEW t \in Topics, NEW item \in Items, ~ReconcilesTopic(t, item)
  PROVE  ~ReconcilesTopic(t, item)'
<1>1. item.version \in Versions /\ item.version \in Nat /\ item.content \in Contents
  BY DEF Items, Versions
<1>2. CASE ~(Latest(t) <= item.version)
  BY <1>1, <1>2, LatestRises DEF ReconcilesTopic
<1>3. CASE Clashes(t, item.version, item.content)
  <2>1. profiles[t][item.version] # NoContent /\ profiles[t][item.version] # item.content
    BY <1>3 DEF Clashes, Inserted
  <2>2. profiles'[t][item.version] = profiles[t][item.version]
    BY <1>1, <2>1, StoredForever
  <2> QED
    BY <2>1, <2>2 DEF ReconcilesTopic, Clashes, Inserted
<1> QED
  BY <1>2, <1>3 DEF ReconcilesTopic

\* Storing an item that is not a later version and not another content of this one
\* leaves a reconcilable topic reconcilable.
LEMMA StoringKeeps ==
  ASSUME TypeOK, [Next]_vars, NEW t \in Topics, NEW item \in Items, ReconcilesTopic(t, item),
         NEW other \in Items, CreateProfile(t, other.version, other.content),
         ~(other.version >= item.version /\ other # item)
  PROVE  ReconcilesTopic(t, item)'
<1>1. /\ item.version \in Versions /\ item.version \in Nat /\ item.content \in Contents
      /\ other.version \in Versions /\ other.version \in Nat /\ other.content \in Contents
  BY DEF Items, Versions
<1>2. profiles' = [profiles EXCEPT ![t][other.version] =
                     Inserted(t, other.version, other.content)]
  BY DEF CreateProfile
<1>3. profiles'[t] = [profiles[t] EXCEPT ![other.version] =
                        Inserted(t, other.version, other.content)]
  BY <1>2 DEF TypeOK, ProfileRows
<1>4. \A v \in Versions : v # other.version => profiles'[t][v] = profiles[t][v]
  BY <1>3 DEF TypeOK, ProfileRows
<1>5. other.version <= item.version
  BY <1>1
<1>6. Latest(t)' <= item.version
  <2> SUFFICES ASSUME Latest(t)' # 0 PROVE Latest(t)' <= item.version
    BY <1>1
  <2>1. Latest(t)' \in Versions /\ profiles'[t][Latest(t)'] # NoContent
    <3>1. Stored(t)' # {} /\ Stored(t)' \in SUBSET (1..MaxVersion)
      BY DEF Latest, Stored, Versions
    <3>2. \E x \in Stored(t)' : \A y \in Stored(t)' : x >= y
      BY <3>1, HasLargest, CoordinatorAssumption
    <3>3. Latest(t)' \in Stored(t)'
      BY <3>1, <3>2 DEF Latest, Max
    <3> QED
      BY <3>3 DEF Stored
  <2>2. CASE Latest(t)' = other.version
    BY <1>5, <2>2
  <2>3. CASE Latest(t)' # other.version
    <3>1. profiles[t][Latest(t)'] # NoContent
      BY <1>4, <2>1, <2>3
    <3>2. Latest(t) \in Versions /\ Latest(t)' <= Latest(t)
      BY <2>1, <3>1, LatestIsLargest
    <3> QED
      BY <1>1, <2>1, <3>2 DEF ReconcilesTopic, Versions
  <2> QED
    BY <2>2, <2>3
<1>7. ~Clashes(t, item.version, item.content)'
  <2>1. profiles[t][item.version] = NoContent \/ profiles[t][item.version] = item.content
    BY DEF ReconcilesTopic, Clashes, Inserted
  <2>2. CASE other.version = item.version
    <3>1. other = item
      BY <1>1, <2>2
    <3>2. profiles'[t][item.version] = Inserted(t, item.version, item.content)
      BY <1>1, <1>3, <3>1 DEF TypeOK, ProfileRows
    <3> QED
      BY <2>1, <3>2 DEF Clashes, Inserted
  <2>3. CASE other.version # item.version
    BY <1>1, <1>4, <2>1, <2>3 DEF Clashes, Inserted
  <2> QED
    BY <2>2, <2>3
<1> QED
  BY <1>6, <1>7 DEF ReconcilesTopic

\* The step of another topic, or none.
LEMMA OtherTopicKeeps ==
  ASSUME NEW t \in Topics, NEW item, profiles'[t] = profiles[t], ReconcilesTopic(t, item)
  PROVE  ReconcilesTopic(t, item)'
<1>1. Latest(t)' = Latest(t)
  BY DEF Latest, Stored
<1> QED
  BY <1>1 DEF ReconcilesTopic, Clashes, Inserted

\* What a dry run says of a topic, reading its latest version only, is what the INSERT
\* OR IGNORE of the configured version runs into later, whatever agents and runs store
\* in between (validate_config_topics against reconcile_config_topics).
THEOREM DryRunAgreesAlways == Spec => []DryRunAgrees
<1>1. Init => DryRunAgrees
  BY DEF Init, DryRunAgrees
<1>2. TypeOK /\ DryRunAgrees /\ [Next]_vars => DryRunAgrees'
  <2> SUFFICES ASSUME TypeOK, DryRunAgrees, [Next]_vars, NEW t \in Topics
               PROVE  /\ verdict'[t] = "accepted" => ReconcilesTopic(t, config[t])'
                      /\ verdict'[t] = "refused" => ~ReconcilesTopic(t, config[t])'
    BY DEF DryRunAgrees
  <2> DEFINE item == config[t]
  <2>1. item \in Items /\ item.version \in Versions /\ item.content \in Contents
    BY DEF TypeOK, Items
  <2>2. /\ verdict[t] = "accepted" => ReconcilesTopic(t, item)
        /\ verdict[t] = "refused" => ~ReconcilesTopic(t, item)
    BY DEF DryRunAgrees
  <2> DEFINE Holds == /\ verdict'[t] = "accepted" => ReconcilesTopic(t, config[t])'
                      /\ verdict'[t] = "refused" => ~ReconcilesTopic(t, config[t])'
  <2>3. ASSUME NEW h \in Jobs, Validate(h) PROVE Holds
    <3>1. config' = config /\ profiles' = profiles
      BY <2>3 DEF Validate, store
    <3>2. ReconcilesTopic(t, config[t])' <=> ReconcilesTopic(t, item)
      BY <3>1 DEF ReconcilesTopic, Latest, Stored, Clashes, Inserted
    <3>3. CASE Topic(h) = t /\ Item(h) = item
      <4>1. verdict'[t] = IF Validates(t, item) THEN "accepted" ELSE "refused"
        BY <2>3, <3>3 DEF Validate, TypeOK
      <4>2. Validates(t, item) <=> ReconcilesTopic(t, item)
        BY <2>1, DryRunOfTopic DEF Validates, ReconcilesTopic
      <4> QED
        BY <3>2, <4>1, <4>2
    <3>4. CASE ~(Topic(h) = t /\ Item(h) = item)
      <4>1. verdict'[t] = verdict[t]
        BY <2>3, <3>4 DEF Validate, TypeOK
      <4> QED
        BY <2>2, <3>2, <4>1
    <3> QED
      BY <3>3, <3>4
  <2>4. ASSUME NEW tt \in Topics, NEW other \in Items, Supersedes(tt, other),
               CreateProfile(tt, other.version, other.content), config' = config
        PROVE  Holds
    <3>1. verdict'[t] = "accepted" => verdict[t] = "accepted" /\ ReconcilesTopic(t, item)
      BY <2>2, <2>4 DEF Supersedes, TypeOK
    <3>2. verdict'[t] = "refused" => ~ReconcilesTopic(t, item)
      BY <2>2, <2>4 DEF Supersedes, TypeOK
    <3>3. ASSUME ~ReconcilesTopic(t, item) PROVE ~ReconcilesTopic(t, config[t])'
      <4>1. PICK it \in Items : it = item
        BY <2>1
      <4>2. ~ReconcilesTopic(t, it)'
        BY <3>3, <4>1, RefusalStays
      <4> QED
        BY <2>4, <4>1, <4>2
    <3>4. ASSUME verdict'[t] = "accepted" PROVE ReconcilesTopic(t, config[t])'
      <4>1. CASE tt = t
        <5>1. ~(other.version >= item.version /\ other # item)
          BY <2>4, <3>1, <3>4, <4>1 DEF Supersedes, TypeOK
        <5>2. PICK it \in Items : it = item
          BY <2>1
        <5>3. ReconcilesTopic(t, it)'
          BY <2>4, <3>1, <3>4, <4>1, <5>1, <5>2, StoringKeeps
        <5> QED
          BY <2>4, <5>2, <5>3
      <4>2. CASE tt # t
        <5>1. profiles'[t] = profiles[t]
          BY <2>4, <4>2 DEF CreateProfile, TypeOK, ProfileRows
        <5>2. PICK it \in Items : it = item
          BY <2>1
        <5>3. ReconcilesTopic(t, it)'
          BY <3>1, <3>4, <5>1, <5>2, OtherTopicKeeps
        <5> QED
          BY <2>4, <5>2, <5>3
      <4> QED
        BY <4>1, <4>2
    <3> QED
      BY <3>2, <3>3, <3>4
  <2>5. ASSUME NEW r \in Runs, Create(r) PROVE Holds
    <3>1. Topic(r) \in Topics /\ Item(r) \in Items
      BY ItemType
    <3> QED
      BY <2>4, <2>5, <3>1 DEF Create
  <2>6. ASSUME NEW tt \in Topics, NEW v \in Versions, NEW c \in Contents, Apply(tt, v, c)
        PROVE  Holds
    <3>1. [version |-> v, content |-> c] \in Items
      BY DEF Items
    <3> QED
      BY <2>4, <2>6, <3>1 DEF Apply
  <2>7. ASSUME NEW tt \in Topics, NEW new \in Items, Edit(tt, new) PROVE Holds
    <3>1. profiles' = profiles
      BY <2>7 DEF Edit, store
    <3>2. CASE tt = t
      BY <2>7, <3>2 DEF Edit, TypeOK
    <3>3. CASE tt # t
      <4>1. config'[t] = item /\ verdict'[t] = verdict[t]
        BY <2>7, <3>3 DEF Edit, TypeOK
      <4>2. ReconcilesTopic(t, config[t])' <=> ReconcilesTopic(t, item)
        BY <3>1, <4>1 DEF ReconcilesTopic, Latest, Stored, Clashes, Inserted
      <4> QED
        BY <2>2, <4>1, <4>2
    <3> QED
      BY <3>2, <3>3
  <2>8. ASSUME UNCHANGED <<config, profiles, verdict>> PROVE Holds
    <3>1. ReconcilesTopic(t, config[t])' <=> ReconcilesTopic(t, item)
      BY <2>8 DEF ReconcilesTopic, Latest, Stored, Clashes, Inserted
    <3> QED
      BY <2>2, <2>8, <3>1
  <2>9. ASSUME \/ \E r \in Runs : Start(r) \/ Compare(r) \/ Pass(r) \/ Visit(r)
               \/ \E p \in Jobs : Open(p) \/ Build(p) \/ Raise(p) \/ Crash(p)
               \/ \E h \in Hands : Choose(h) \/ Rehearse(h)
               \/ Audit \/ AgentCrash \/ Tick
               \/ \E k \in Keys : Break(k)
               \/ UNCHANGED vars
        PROVE  UNCHANGED <<config, profiles, verdict>>
    BY <2>9 DEF Start, Compare, Pass, Visit, Open, Build, Raise, Crash, Choose, Rehearse, Audit,
                AgentCrash, Tick, Break, vars, store
  <2> QED
    BY <2>3, <2>5, <2>6, <2>7, <2>8, <2>9, NextSplit
<1> QED
  BY <1>1, <1>2, TypeCorrect, PTL DEF Spec

=============================================================================
