-------------------------- MODULE MaintenanceProofs --------------------------
(***************************************************************************)
(* Proofs about Maintenance, for any number of commands, migrations,       *)
(* items, snapshots and dates: types, the order of the migrations, the     *)
(* snapshot an upgrade can be undone with, and the backup behind every     *)
(* deletion.                                                               *)
(***************************************************************************)
EXTENDS Maintenance, SequenceTheorems, FiniteSetTheorems, TLAPS

(* The schema.                                                             *)

\* An item in the database has been stored; a snapshot is of a schema that was there.
TypeInv ==
  /\ TypeOK
  /\ \A i \in present : version[i] > 0

\* The version recorded is that of the last of the migrations, which are all there.
SchemaOK ==
  /\ SchemaVersion \in First..Last
  /\ recorded = 1..SchemaVersion /\ tables = recorded
  /\ \A p \in Commands :
       /\ At(p, "snapshot") \/ At(p, "prune") =>
            /\ command[p].found \in 1..SchemaVersion /\ command[p].found < Last
            /\ command[p].next = command[p].found + 1
       /\ At(p, "apply") => command[p].next \in 1..(SchemaVersion + 1) /\ command[p].next <= Last

LEMMA MaxInterval ==
  ASSUME NEW k \in Nat PROVE (IF 1..k = {} THEN 0 ELSE Max(1..k)) = k
<1>1. CASE k = 0
  BY <1>1
<1>2. CASE k # 0
  <2>1. k \in 1..k /\ \A y \in 1..k : k >= y
    BY <1>2
  <2>2. \A x \in 1..k : (\A y \in 1..k : x >= y) => x = k
    BY <1>2
  <2>3. Max(1..k) = k
    BY <2>1, <2>2 DEF Max
  <2> QED
    BY <2>1, <2>3
<1> QED
  BY <1>1, <1>2

LEMMA VersionOf == ASSUME NEW k \in Nat, recorded = 1..k PROVE SchemaVersion = k
  BY MaxInterval DEF SchemaVersion

LEMMA VersionOfNext == ASSUME NEW k \in Nat, recorded' = 1..k PROVE SchemaVersion' = k
  BY MaxInterval DEF SchemaVersion

LEMMA IdleType == Idle \in CommandRow
  BY MaintenanceAssumption DEF Idle, CommandRow, Seconds, Copies

LEMMA InitType == Init => TypeInv /\ SchemaOK
<1> SUFFICES ASSUME Init PROVE TypeInv /\ SchemaOK
  OBVIOUS
<1>1. SchemaVersion = First
  BY VersionOf, MaintenanceAssumption DEF Init
<1>2. SchemaOK
  BY <1>1, MaintenanceAssumption DEF Init, SchemaOK, At, Idle
<1>3. <<>> \in Seq([from : 1..Last, schema : 1..Last])
  OBVIOUS
<1>4. /\ backups \in [Seconds -> SUBSET Copies] /\ tmp \in [Seconds -> SUBSET Copies]
      /\ command \in [Commands -> CommandRow] /\ version \in [Items -> 0..MaxVersion]
  BY IdleType, MaintenanceAssumption DEF Init
<1>5. /\ tables \subseteq 1..Last /\ recorded \subseteq 1..Last /\ since \in 0..Keep
      /\ now \in Seconds /\ faults \in Nat /\ collided \in BOOLEAN /\ robbed \in BOOLEAN
      /\ present \subseteq Items /\ expired \subseteq present
  <2>1. First \in Nat /\ Last \in Nat /\ First <= Last /\ Keep \in Nat /\ MaxNow \in Nat /\ 1 <= MaxNow
    BY MaintenanceAssumption
  <2>2. 1..First \subseteq 1..Last /\ 0 \in 0..Keep /\ 1 \in 1..MaxNow
    BY <2>1
  <2> QED
    BY <2>2 DEF Init, Seconds
<1>6. TypeOK
  BY <1>3, <1>4, <1>5 DEF Init, TypeOK
<1> QED
  BY <1>2, <1>6 DEF TypeInv, Init

\* What a step does to the command that takes it.
Moves(p, r) == r \in CommandRow /\ command' = [command EXCEPT ![p] = r]

LEMMA EndsMoves == ASSUME NEW p, Ends(p) PROVE Moves(p, Idle)
  BY IdleType DEF Ends, Moves

LEMMA GoesMoves ==
  ASSUME TypeInv, NEW p \in Commands, NEW step, Goes(p, step),
         step \in {"prune", "apply", "publish", "list", "delete"}
  PROVE  Moves(p, [command[p] EXCEPT !.at = step])
<1>1. command[p] \in CommandRow /\ command \in [Commands -> CommandRow]
  BY DEF TypeInv, TypeOK
<1>2. [command[p] EXCEPT !.at = step] \in CommandRow
  BY <1>1 DEF CommandRow
<1> QED
  BY <1>1, <1>2 DEF Goes, Moves

LEMMA MovesType ==
  ASSUME TypeInv, NEW p \in Commands, NEW r, Moves(p, r)
  PROVE  /\ command' \in [Commands -> CommandRow]
         /\ command'[p] = r
         /\ \A q \in Commands : q # p => command'[q] = command[q]
  BY DEF Moves, TypeInv, TypeOK

\* The schema does not move, nor a command within initialize.
LEMMA SchemaStays ==
  ASSUME TypeInv, SchemaOK, UNCHANGED <<tables, recorded>>,
         \/ UNCHANGED command
         \/ \E p \in Commands : \E r : Moves(p, r) /\ r.at \notin {"snapshot", "prune", "apply"}
  PROVE  SchemaOK'
<1>1. SchemaVersion' = SchemaVersion
  BY DEF SchemaVersion
<1>2. CASE UNCHANGED command
  BY <1>1, <1>2 DEF SchemaOK, At
<1>3. ASSUME NEW p \in Commands, NEW r, Moves(p, r), r.at \notin {"snapshot", "prune", "apply"}
      PROVE  SchemaOK'
  BY <1>1, <1>3, MovesType DEF SchemaOK, At
<1> QED
  BY <1>2, <1>3

LEMMA BeginKeeps ==
  ASSUME TypeInv, SchemaOK, NEW p \in Commands, Begin(p) PROVE TypeInv' /\ SchemaOK'
<1> DEFINE v == SchemaVersion
           r == [Idle EXCEPT !.found = v, !.next = v + 1,
                   !.at = IF v >= Last THEN "ready" ELSE IF v > 0 THEN "snapshot" ELSE "apply"]
<1>1. v \in 0..Last /\ First \in Nat /\ Last \in Nat
  BY MaintenanceAssumption DEF SchemaOK
<1>2. /\ r \in CommandRow /\ r.found = v /\ r.next = v + 1
      /\ r.at = IF v >= Last THEN "ready" ELSE IF v > 0 THEN "snapshot" ELSE "apply"
  <2> DEFINE step == IF v >= Last THEN "ready" ELSE IF v > 0 THEN "snapshot" ELSE "apply"
  <2>1. v \in 0..Last /\ v + 1 \in 0..Last+1 /\ step \in {"ready", "snapshot", "apply"}
    BY <1>1
  <2> HIDE DEF v, step
  <2>2. /\ [Idle EXCEPT !.found = v, !.next = v + 1, !.at = step] \in CommandRow
        /\ [Idle EXCEPT !.found = v, !.next = v + 1, !.at = step].found = v
        /\ [Idle EXCEPT !.found = v, !.next = v + 1, !.at = step].next = v + 1
        /\ [Idle EXCEPT !.found = v, !.next = v + 1, !.at = step].at = step
    BY <2>1, IdleType DEF CommandRow
  <2> QED
    BY <2>2 DEF step
<1>3. Moves(p, r)
  BY <1>2 DEF Begin, Moves
<1>4. UNCHANGED <<schemaVars, contentVars, fileVars, now, faults>>
  BY DEF Begin
<1> HIDE DEF r
<1>5. TypeInv'
  BY <1>3, <1>4, MovesType DEF TypeInv, TypeOK, schemaVars, contentVars, fileVars
<1>6. SchemaVersion' = SchemaVersion
  BY <1>4 DEF SchemaVersion, schemaVars
<1>7. SchemaOK'
  BY <1>1, <1>2, <1>3, <1>4, <1>6, MovesType DEF SchemaOK, At, schemaVars
<1> QED
  BY <1>5, <1>7

\* new is all with s put in at place.
PutIn(new, all, s, place) ==
  \A i \in 1..(Len(all) + 1) :
    /\ i < place => i \in 1..Len(all) /\ new[i] = all[i]
    /\ i = place => new[i] = s
    /\ i > place => i - 1 \in 1..Len(all) /\ new[i] = all[i - 1]

LEMMA FiledIsSeq ==
  ASSUME NEW S, NEW all \in Seq(S), NEW s \in S
  PROVE  /\ Filed(s, all) \in Seq(S) /\ Len(Filed(s, all)) = Len(all) + 1
         /\ \E place \in 1..(Len(all) + 1) : PutIn(Filed(s, all), all, s, place)
<1> DEFINE before == {i \in DOMAIN all : all[i].from <= s.from}
           place == Cardinality(before) + 1
<1>1. Len(all) \in Nat /\ DOMAIN all = 1..Len(all)
  BY LenProperties
<1>2. IsFiniteSet(1..Len(all)) /\ Cardinality(1..Len(all)) = Len(all)
  BY <1>1, FS_Interval
<1>3. IsFiniteSet(before) /\ Cardinality(before) <= Len(all)
  BY <1>1, <1>2, FS_Subset
<1>4. place \in 1..(Len(all) + 1)
  <2>1. Cardinality(before) \in Nat
    BY <1>3, FS_CardinalityType
  <2> QED
    BY <1>1, <1>3, <2>1
<1>5. Filed(s, all) =
        [i \in 1..(Len(all) + 1) |-> IF i < place THEN all[i] ELSE IF i = place THEN s ELSE all[i - 1]]
  BY DEF Filed
<1> HIDE DEF place, before
<1>6. ASSUME NEW i \in 1..(Len(all) + 1)
      PROVE  (IF i < place THEN all[i] ELSE IF i = place THEN s ELSE all[i - 1]) \in S
  <2>1. i < place => i \in 1..Len(all)
    BY <1>1, <1>4
  <2>2. ~(i < place) /\ i # place => i - 1 \in 1..Len(all)
    BY <1>1, <1>4
  <2> QED
    BY <2>1, <2>2, ElementOfSeq
<1>7. Filed(s, all) \in [1..(Len(all) + 1) -> S]
  BY <1>5, <1>6
<1>8. Filed(s, all) \in Seq(S)
  BY <1>1, <1>7, SeqDef
<1>9. Len(Filed(s, all)) = Len(all) + 1
  BY <1>1, <1>7, <1>8
<1>10. ASSUME NEW i \in 1..(Len(all) + 1)
       PROVE  /\ i < place => i \in 1..Len(all) /\ Filed(s, all)[i] = all[i]
              /\ i = place => Filed(s, all)[i] = s
              /\ i > place => i - 1 \in 1..Len(all) /\ Filed(s, all)[i] = all[i - 1]
  <2>1. i < place => i \in 1..Len(all)
    BY <1>1, <1>4
  <2>2. i > place => i - 1 \in 1..Len(all) /\ ~(i < place) /\ i # place
    BY <1>1, <1>4
  <2>3. i = place => ~(i < place)
    BY <1>4
  <2> QED
    BY <1>5, <2>1, <2>2, <2>3
<1> QED
  BY <1>4, <1>8, <1>9, <1>10 DEF PutIn

LEMMA KeptIsSeq ==
  ASSUME NEW S, NEW all \in Seq(S)
  PROVE  /\ Kept(all) \in Seq(S)
         /\ Len(all) <= Keep => Kept(all) = all
         /\ Len(all) > Keep =>
              /\ Len(Kept(all)) = Keep
              /\ \A i \in 1..Keep : Kept(all)[i] = all[Len(all) - Keep + i]
<1>1. Len(all) \in Nat /\ Keep \in Nat \ {0}
  BY LenProperties, MaintenanceAssumption
<1>2. CASE Len(all) <= Keep
  BY <1>1, <1>2 DEF Kept
<1>3. CASE Len(all) > Keep
  <2> DEFINE m == Len(all) - Keep + 1
             n == Len(all)
  <2>1. m \in Int /\ n \in Int /\ m <= n /\ n - m + 1 = Keep /\ m \in 1..n
    BY <1>1, <1>3
  <2>2. \A i \in m..n : all[i] \in S
    <3> SUFFICES ASSUME NEW i \in m..n PROVE all[i] \in S
      OBVIOUS
    <3>1. i \in 1..Len(all)
      BY <1>1, <1>3
    <3> QED
      BY <3>1, ElementOfSeq
  <2>3. Kept(all) = SubSeq(all, m, n)
    BY <1>1, <1>3 DEF Kept
  <2>4. /\ SubSeq(all, m, n) \in Seq(S)
        /\ Len(SubSeq(all, m, n)) = IF m <= n THEN n - m + 1 ELSE 0
        /\ \A i \in 1..(n - m + 1) : SubSeq(all, m, n)[i] = all[m + i - 1]
    BY <2>1, <2>2, SubSeqProperties
  <2>5. \A i \in 1..Keep : m + i - 1 = Len(all) - Keep + i
    BY <1>1
  <2> HIDE DEF m, n
  <2>6. Kept(all) \in Seq(S) /\ Len(Kept(all)) = Keep
    BY <2>1, <2>3, <2>4
  <2>7. \A i \in 1..Keep : Kept(all)[i] = all[Len(all) - Keep + i]
    BY <2>1, <2>3, <2>4, <2>5
  <2> QED
    BY <1>1, <1>3, <2>6, <2>7
<1> QED
  BY <1>1, <1>2, <1>3

LEMMA SnapshotKeeps ==
  ASSUME TypeInv, SchemaOK, NEW p \in Commands, Snapshot(p) PROVE TypeInv' /\ SchemaOK'
<1> DEFINE r == [command[p] EXCEPT !.at = "prune"]
           s == [from |-> command[p].found, schema |-> SchemaVersion]
<1>1. /\ SchemaVersion \in 0..Last /\ First \in Nat /\ Last \in Nat /\ Keep \in Nat
      /\ command[p].found \in 1..SchemaVersion /\ command[p].found < Last
      /\ command[p].next = command[p].found + 1
  BY MaintenanceAssumption DEF SchemaOK, Snapshot
<1>2. Moves(p, r)
  BY GoesMoves DEF Snapshot
<1>3. r.found = command[p].found /\ r.next = command[p].next /\ r.at = "prune"
  BY DEF TypeInv, TypeOK, CommandRow
<1>4. UNCHANGED <<tables, recorded, contentVars, fileVars, now, faults>>
  BY DEF Snapshot
<1>5. snapshots' \in Seq([from : 1..Last, schema : 1..Last])
  <2>1. s \in [from : 1..Last, schema : 1..Last]
    BY <1>1
  <2>2. snapshots' = Filed(s, snapshots)
    BY DEF Snapshot
  <2>3. snapshots \in Seq([from : 1..Last, schema : 1..Last])
    BY DEF TypeInv, TypeOK
  <2> HIDE DEF s
  <2> QED
    BY <2>1, <2>2, <2>3, FiledIsSeq
<1>6. since' \in 0..Keep
  BY <1>1 DEF Snapshot, TypeInv, TypeOK
<1> HIDE DEF r
<1>7. TypeInv'
  BY <1>2, <1>4, <1>5, <1>6, MovesType DEF TypeInv, TypeOK, contentVars, fileVars
<1>8. SchemaVersion' = SchemaVersion
  BY <1>4 DEF SchemaVersion
<1>9. SchemaOK'
  BY <1>1, <1>2, <1>3, <1>4, <1>8, MovesType DEF SchemaOK, At
<1> QED
  BY <1>7, <1>9

LEMMA PruneKeeps ==
  ASSUME TypeInv, SchemaOK, NEW p \in Commands, PruneSnapshots(p) PROVE TypeInv' /\ SchemaOK'
<1> DEFINE r == [command[p] EXCEPT !.at = "apply"]
<1>1. /\ SchemaVersion \in 0..Last /\ First \in Nat /\ Last \in Nat
      /\ command[p].found \in 1..SchemaVersion /\ command[p].found < Last
      /\ command[p].next = command[p].found + 1
  BY MaintenanceAssumption DEF SchemaOK, PruneSnapshots
<1>2. Moves(p, r)
  BY GoesMoves DEF PruneSnapshots
<1>3. r.found = command[p].found /\ r.next = command[p].next /\ r.at = "apply"
  BY DEF TypeInv, TypeOK, CommandRow
<1>4. UNCHANGED <<tables, recorded, since, contentVars, fileVars, now, faults>>
  BY DEF PruneSnapshots
<1>5. snapshots' \in Seq([from : 1..Last, schema : 1..Last])
  BY KeptIsSeq DEF PruneSnapshots, TypeInv, TypeOK
<1> HIDE DEF r
<1>6. TypeInv'
  BY <1>2, <1>4, <1>5, MovesType DEF TypeInv, TypeOK, contentVars, fileVars
<1>7. SchemaVersion' = SchemaVersion
  BY <1>4 DEF SchemaVersion
<1>8. SchemaOK'
  BY <1>1, <1>2, <1>3, <1>4, <1>7, MovesType DEF SchemaOK, At
<1> QED
  BY <1>6, <1>8

LEMMA RaceKeeps ==
  ASSUME TypeInv, SchemaOK, NEW p \in Commands, PruneRaces(p) PROVE TypeInv' /\ SchemaOK'
<1> DEFINE r == [command[p] EXCEPT !.at = "apply"]
<1>1. /\ SchemaVersion \in 0..Last /\ First \in Nat /\ Last \in Nat
      /\ command[p].found \in 1..SchemaVersion /\ command[p].found < Last
      /\ command[p].next = command[p].found + 1
  BY MaintenanceAssumption DEF SchemaOK, PruneRaces
<1>2. PICK q \in Commands \ {p} : command' = [command EXCEPT ![p].at = "apply", ![q] = Idle]
  BY DEF PruneRaces
<1>3. command[p] \in CommandRow /\ r \in CommandRow
  BY DEF TypeInv, TypeOK, CommandRow
<1>4. /\ command' = [command EXCEPT ![p] = r, ![q] = Idle] /\ command' \in [Commands -> CommandRow]
      /\ command'[p] = r /\ \A w \in Commands : w # p => command'[w] = command[w] \/ command'[w] = Idle
  BY <1>2, <1>3, IdleType DEF TypeInv, TypeOK
<1>5. r.found = command[p].found /\ r.next = command[p].next /\ r.at = "apply"
  BY <1>3 DEF CommandRow
<1>6. UNCHANGED <<tables, recorded, since, contentVars, fileVars, now, faults>>
  BY DEF PruneRaces
<1>7. snapshots' \in Seq([from : 1..Last, schema : 1..Last])
  BY KeptIsSeq DEF PruneRaces, TypeInv, TypeOK
<1> HIDE DEF r
<1>8. TypeInv'
  BY <1>4, <1>6, <1>7 DEF TypeInv, TypeOK, contentVars, fileVars
<1>9. SchemaVersion' = SchemaVersion
  BY <1>6 DEF SchemaVersion
<1>10. Idle.at = "idle"
  BY DEF Idle
<1>11. SchemaOK'
  BY <1>1, <1>4, <1>5, <1>6, <1>9, <1>10 DEF SchemaOK, At
<1> QED
  BY <1>8, <1>11

\* A migration is the next one, or it is rolled back.
LEMMA ApplyKeeps ==
  ASSUME TypeInv, SchemaOK, NEW p \in Commands, Apply(p)
  PROVE  TypeInv' /\ SchemaOK' /\ SchemaVersion' >= SchemaVersion
<1> DEFINE v == command[p].next
           r == [command[p] EXCEPT !.next = v + 1, !.at = IF v = Last THEN "ready" ELSE "apply"]
<1>1. /\ SchemaVersion \in 0..Last /\ SchemaVersion \in First..Last /\ First \in Nat /\ Last \in Nat
      /\ v \in 1..(SchemaVersion + 1) /\ v <= Last
      /\ recorded = 1..SchemaVersion /\ tables = recorded
  BY MaintenanceAssumption DEF SchemaOK, Apply
<1>2. UNCHANGED <<snapshots, since, contentVars, fileVars, now, faults>>
  BY DEF Apply
<1>3. CASE v \in tables \cup recorded
  <2>1. Moves(p, Idle) /\ UNCHANGED <<tables, recorded>>
    BY <1>3, EndsMoves DEF Apply
  <2>2. TypeInv'
    BY <1>2, <2>1, MovesType DEF TypeInv, TypeOK, contentVars, fileVars
  <2>3. SchemaOK'
    BY <2>1, SchemaStays DEF Idle
  <2>4. SchemaVersion' = SchemaVersion
    BY <2>1 DEF SchemaVersion
  <2> QED
    BY <1>1, <2>2, <2>3, <2>4
<1>4. CASE v \notin tables \cup recorded
  <2>1. v = SchemaVersion + 1
    BY <1>1, <1>4
  <2>2. tables' = tables \cup {v} /\ recorded' = recorded \cup {v} /\ command' = [command EXCEPT ![p] = r]
    BY <1>4 DEF Apply, TypeInv, TypeOK
  <2>3. command[p] \in CommandRow
    BY DEF TypeInv, TypeOK
  <2>4. /\ r \in CommandRow /\ r.next = v + 1
        /\ r.at = IF v = Last THEN "ready" ELSE "apply"
    <3>1. v + 1 \in 0..Last+1
      BY <1>1
    <3> HIDE DEF v
    <3> QED
      BY <3>1, <2>3 DEF CommandRow
  <2>5. Moves(p, r)
    BY <2>2, <2>4 DEF Moves
  <2>6. recorded' = 1..(SchemaVersion + 1) /\ tables' = recorded'
    BY <1>1, <2>1, <2>2
  <2>7. SchemaVersion' = SchemaVersion + 1
    BY <1>1, <2>6, VersionOfNext
  <2> HIDE DEF r
  <2>8. tables' \subseteq 1..Last /\ recorded' \subseteq 1..Last
    BY <1>1, <2>1, <2>6
  <2>9. TypeInv'
    BY <1>2, <2>5, <2>8, MovesType DEF TypeInv, TypeOK, contentVars, fileVars
  <2>10. \A q \in Commands :
           /\ At(q, "snapshot")' \/ At(q, "prune")' =>
                /\ command[q]'.found \in 1..(SchemaVersion + 1) /\ command[q]'.found < Last
                /\ command[q]'.next = command[q]'.found + 1
           /\ At(q, "apply")' => command[q]'.next \in 1..(SchemaVersion + 2) /\ command[q]'.next <= Last
    <3> SUFFICES ASSUME NEW q \in Commands
        PROVE  /\ At(q, "snapshot")' \/ At(q, "prune")' =>
                    /\ command[q]'.found \in 1..(SchemaVersion + 1) /\ command[q]'.found < Last
                    /\ command[q]'.next = command[q]'.found + 1
               /\ At(q, "apply")' => command[q]'.next \in 1..(SchemaVersion + 2) /\ command[q]'.next <= Last
      OBVIOUS
    <3>1. CASE q = p
      BY <1>1, <2>1, <2>4, <2>5, <3>1, MovesType DEF At
    <3>2. CASE q # p
      BY <1>1, <2>5, <3>2, MovesType DEF At, SchemaOK
    <3> QED
      BY <3>1, <3>2
  <2>11. SchemaVersion' \in First..Last /\ SchemaVersion' + 1 = SchemaVersion + 2
    BY <1>1, <2>1, <2>7
  <2> QED
    BY <1>1, <2>6, <2>7, <2>9, <2>10, <2>11 DEF SchemaOK
<1> QED
  BY <1>3, <1>4

LEMMA SaidIsCopy == ASSUME TypeInv PROVE Contents \in Copies /\ Candidates \in Copies
<1>1. \A i \in present : i \in Items /\ version[i] \in 1..MaxVersion
  BY MaintenanceAssumption DEF TypeInv, TypeOK
<1> QED
  BY <1>1 DEF Contents, Candidates, Copies

\* The steps that leave the schema alone, and what they do to the command that takes them.
LEMMA EndsKeep ==
  ASSUME TypeInv, SchemaOK, NEW p \in Commands, Other(p) \/ Crash(p)
  PROVE  TypeInv' /\ SchemaOK' /\ Moves(p, Idle)
<1>1. Moves(p, Idle)
  BY EndsMoves DEF Other, Crash
<1>2. UNCHANGED <<schemaVars, contentVars, fileVars, now>> /\ faults' \in Nat
  BY DEF Other, Crash, TypeInv, TypeOK
<1>3. TypeInv'
  BY <1>1, <1>2, MovesType DEF TypeInv, TypeOK, schemaVars, contentVars, fileVars
<1>4. SchemaOK'
  BY <1>1, <1>2, SchemaStays DEF Idle, schemaVars
<1> QED
  BY <1>1, <1>3, <1>4

LEMMA ReadyKeeps ==
  ASSUME TypeInv, SchemaOK, NEW p \in Commands, Ready(p)
  PROVE  /\ TypeInv' /\ SchemaOK'
         /\ \E s \in NextSecond : \E r :
              /\ Moves(p, r) /\ now' = s
              /\ r.at = "copy" /\ r.second = s /\ r.doomed = Candidates
              /\ collided' = (collided \/ \E q \in Commands \ {p} :
                                 command[q].at \in {"copy", "publish"} /\ command[q].second = s)
<1>1. PICK s \in NextSecond :
        /\ now' = s
        /\ command' = [command EXCEPT ![p] =
             [Idle EXCEPT !.at = "copy", !.second = s, !.doomed = Candidates]]
        /\ collided' = (collided \/ \E q \in Commands \ {p} :
                           command[q].at \in {"copy", "publish"} /\ command[q].second = s)
  BY DEF Ready
<1> DEFINE r == [Idle EXCEPT !.at = "copy", !.second = s, !.doomed = Candidates]
<1>2. s \in Seconds
  BY DEF NextSecond
<1>3. /\ r \in CommandRow /\ r.at = "copy" /\ r.second = s
      /\ r.doomed = Candidates
  BY <1>2, IdleType, SaidIsCopy DEF CommandRow, Idle
<1>4. Moves(p, r)
  BY <1>1, <1>3 DEF Moves
<1> HIDE DEF r
<1>5. UNCHANGED <<schemaVars, contentVars, backups, tmp, robbed, faults>> /\ collided' \in BOOLEAN
  BY <1>1 DEF Ready, TypeInv, TypeOK
<1>6. TypeInv'
  BY <1>1, <1>2, <1>4, <1>5, MovesType DEF TypeInv, TypeOK, schemaVars, contentVars
<1>7. SchemaOK'
  BY <1>3, <1>4, <1>5, SchemaStays DEF schemaVars
<1> QED
  BY <1>1, <1>3, <1>4, <1>6, <1>7

LEMMA CopyKeeps ==
  ASSUME TypeInv, SchemaOK, NEW p \in Commands, Copy(p)
  PROVE  TypeInv' /\ SchemaOK' /\ Moves(p, [command[p] EXCEPT !.at = "publish"])
<1>1. Moves(p, [command[p] EXCEPT !.at = "publish"]) /\ command[p] \in CommandRow
  BY GoesMoves DEF Copy, TypeInv, TypeOK
<1>2. UNCHANGED <<schemaVars, contentVars, backups, collided, robbed, now, faults>>
  BY DEF Copy
<1>3. tmp' \in [Seconds -> SUBSET Copies]
  BY <1>1, SaidIsCopy DEF Copy, TypeInv, TypeOK, CommandRow
<1>4. TypeInv'
  BY <1>1, <1>2, <1>3, MovesType DEF TypeInv, TypeOK, schemaVars, contentVars
<1>5. SchemaOK'
  BY <1>1, <1>2, SchemaStays DEF schemaVars, CommandRow
<1> QED
  BY <1>1, <1>4, <1>5

LEMMA PublishKeeps ==
  ASSUME TypeInv, SchemaOK, NEW p \in Commands, Publish(p)
  PROVE  TypeInv' /\ SchemaOK' /\ Moves(p, [command[p] EXCEPT !.at = "list"])
<1>1. Moves(p, [command[p] EXCEPT !.at = "list"]) /\ command[p] \in CommandRow
  BY GoesMoves DEF Publish, TypeInv, TypeOK
<1>2. UNCHANGED <<schemaVars, contentVars, collided, robbed, now, faults>>
  BY DEF Publish
<1>3. command[p].second \in Seconds
  BY <1>1 DEF CommandRow
<1>4. tmp' \in [Seconds -> SUBSET Copies] /\ backups' \in [Seconds -> SUBSET Copies]
  BY <1>3 DEF Publish, TypeInv, TypeOK
<1>5. TypeInv'
  BY <1>1, <1>2, <1>4, MovesType DEF TypeInv, TypeOK, schemaVars, contentVars
<1>6. SchemaOK'
  BY <1>1, <1>2, SchemaStays DEF schemaVars, CommandRow
<1> QED
  BY <1>1, <1>5, <1>6

LEMMA StolenKeeps ==
  ASSUME TypeInv, SchemaOK, NEW p \in Commands, PublishStolen(p) PROVE TypeInv' /\ SchemaOK'
<1>1. \E r : Moves(p, r) /\ r.at \in {"idle", "list"}
  <2>1. CASE Ends(p)
    BY <2>1, EndsMoves DEF Idle
  <2>2. CASE Goes(p, "list")
    <3>1. Moves(p, [command[p] EXCEPT !.at = "list"]) /\ command[p] \in CommandRow
      BY <2>2, GoesMoves DEF TypeInv, TypeOK
    <3>2. [command[p] EXCEPT !.at = "list"].at = "list"
      BY <3>1 DEF CommandRow
    <3> QED
      BY <3>1, <3>2
  <2> QED
    BY <2>1, <2>2 DEF PublishStolen
<1>2. UNCHANGED <<schemaVars, contentVars, tmp, collided, robbed, now, faults>>
  BY DEF PublishStolen
<1>3. backups' \in [Seconds -> SUBSET Copies]
  <2>1. backups \in [Seconds -> SUBSET Copies] /\ {} \in Copies
    BY DEF TypeInv, TypeOK, Copies
  <2>2. UNCHANGED backups \/ backups' = [backups EXCEPT ![command[p].second] = {{}}]
    BY DEF PublishStolen
  <2> QED
    BY <2>1, <2>2
<1>4. TypeInv'
  BY <1>1, <1>2, <1>3, MovesType DEF TypeInv, TypeOK, schemaVars, contentVars
<1>5. SchemaOK'
  BY <1>1, <1>2, SchemaStays DEF schemaVars
<1> QED
  BY <1>4, <1>5

LEMMA ListKeeps ==
  ASSUME TypeInv, SchemaOK, NEW p \in Commands, List(p)
  PROVE  /\ TypeInv' /\ SchemaOK'
         /\ Moves(p, [command[p] EXCEPT !.at = "unlink", !.todo = Files \ Retained(p)])
<1> DEFINE r == [command[p] EXCEPT !.at = "unlink", !.todo = Files \ Retained(p)]
<1>1. r \in CommandRow /\ r.at = "unlink"
  <2>1. Files \ Retained(p) \subseteq Seconds /\ command[p] \in CommandRow
    BY DEF Files, TypeInv, TypeOK
  <2> QED
    BY <2>1 DEF CommandRow
<1>2. Moves(p, r)
  BY <1>1 DEF List, Moves, TypeInv, TypeOK
<1> HIDE DEF r
<1>3. UNCHANGED <<schemaVars, contentVars, fileVars, now, faults>>
  BY DEF List
<1>4. TypeInv'
  BY <1>2, <1>3, MovesType DEF TypeInv, TypeOK, schemaVars, contentVars, fileVars
<1>5. SchemaOK'
  BY <1>1, <1>2, <1>3, SchemaStays DEF schemaVars
<1> QED
  BY <1>2, <1>4, <1>5 DEF r

LEMMA UnlinkKeeps ==
  ASSUME TypeInv, SchemaOK, NEW p \in Commands, Unlink(p)
  PROVE  /\ TypeInv' /\ SchemaOK'
         /\ \E s \in command[p].todo :
              /\ s \in Seconds /\ \A t \in command[p].todo : t <= s
              /\ \/ Moves(p, Idle) /\ UNCHANGED <<backups, robbed>>
                 \/ /\ Moves(p, [command[p] EXCEPT !.todo = @ \ {s}])
                    /\ backups' = [backups EXCEPT ![s] = {}]
                    /\ robbed' = (robbed \/ (Count[p] = 1 /\ s > command[p].second))
<1>1. PICK s \in command[p].todo :
        /\ \A t \in command[p].todo : t <= s
        /\ IF backups[s] = {}
             THEN Ends(p) /\ UNCHANGED <<backups, robbed>>
             ELSE /\ backups' = [backups EXCEPT ![s] = {}]
                  /\ command' = [command EXCEPT ![p].todo = @ \ {s}]
                  /\ robbed' = (robbed \/ (Count[p] = 1 /\ s > command[p].second))
  BY DEF Unlink
<1> DEFINE r == [command[p] EXCEPT !.todo = @ \ {s}]
<1>2. command[p] \in CommandRow /\ s \in Seconds
  BY DEF TypeInv, TypeOK, CommandRow
<1>3. r \in CommandRow /\ r.at = "unlink"
  BY <1>2 DEF Unlink, At, CommandRow
<1>4. UNCHANGED <<schemaVars, contentVars, tmp, collided, now, faults>>
  BY DEF Unlink
<1>5. \/ Moves(p, Idle) /\ UNCHANGED <<backups, robbed>>
      \/ /\ Moves(p, r) /\ backups' = [backups EXCEPT ![s] = {}]
         /\ robbed' = (robbed \/ (Count[p] = 1 /\ s > command[p].second))
  <2>1. CASE backups[s] = {}
    BY <1>1, <2>1, EndsMoves
  <2>2. CASE backups[s] # {}
    <3>1. command' = [command EXCEPT ![p] = r] /\ backups' = [backups EXCEPT ![s] = {}]
      BY <1>1, <2>2 DEF TypeInv, TypeOK
    <3>2. robbed' = (robbed \/ (Count[p] = 1 /\ s > command[p].second))
      BY <1>1, <2>2
    <3> QED
      BY <1>3, <3>1, <3>2 DEF Moves
  <2> QED
    BY <2>1, <2>2
<1>6. backups' \in [Seconds -> SUBSET Copies] /\ robbed' \in BOOLEAN
  BY <1>2, <1>5 DEF TypeInv, TypeOK
<1> HIDE DEF r
<1>7. \E q \in Commands : \E w : Moves(q, w) /\ w.at \in {"idle", "unlink"}
  BY <1>3, <1>5 DEF Idle
<1>8. command' \in [Commands -> CommandRow]
  BY <1>7, MovesType
<1>9. TypeInv'
  BY <1>4, <1>6, <1>8 DEF TypeInv, TypeOK, schemaVars, contentVars
<1>10. SchemaOK'
  BY <1>4, <1>7, SchemaStays DEF schemaVars
<1> QED
  BY <1>1, <1>2, <1>5, <1>9, <1>10 DEF r

LEMMA BackedUpKeeps ==
  ASSUME TypeInv, SchemaOK, NEW p \in Commands, BackedUp(p)
  PROVE  /\ TypeInv' /\ SchemaOK'
         /\ Moves(p, Idle) \/ Moves(p, [command[p] EXCEPT !.at = "delete"])
<1>1. Moves(p, Idle) \/ Moves(p, [command[p] EXCEPT !.at = "delete"])
  BY EndsMoves, GoesMoves DEF BackedUp
<1>2. \E r : Moves(p, r) /\ r.at \in {"idle", "delete"}
  BY <1>1 DEF Idle, TypeInv, TypeOK, CommandRow
<1>3. UNCHANGED <<schemaVars, contentVars, fileVars, now, faults>>
  BY DEF BackedUp
<1>4. TypeInv'
  BY <1>2, <1>3, MovesType DEF TypeInv, TypeOK, schemaVars, contentVars, fileVars
<1>5. SchemaOK'
  BY <1>2, <1>3, SchemaStays DEF schemaVars
<1> QED
  BY <1>1, <1>4, <1>5

LEMMA DeleteKeeps ==
  ASSUME TypeInv, SchemaOK, NEW p \in Commands, Delete(p)
  PROVE  TypeInv' /\ SchemaOK' /\ Moves(p, Idle)
<1>1. Moves(p, Idle)
  BY EndsMoves DEF Delete
<1>2. /\ UNCHANGED <<schemaVars, version, fileVars, now, faults>>
      /\ present' \subseteq present /\ expired' \subseteq present'
  BY DEF Delete
<1>3. TypeInv'
  BY <1>1, <1>2, MovesType DEF TypeInv, TypeOK, schemaVars, fileVars
<1>4. SchemaOK'
  BY <1>1, <1>2, SchemaStays DEF schemaVars, Idle
<1> QED
  BY <1>1, <1>3, <1>4

LEMMA TimeKeeps ==
  ASSUME TypeInv, SchemaOK, NEW i \in Items, Seen(i) \/ Age(i) PROVE TypeInv' /\ SchemaOK'
<1>1. UNCHANGED <<schemaVars, fileVars, now, command, faults>>
  BY DEF Seen, Age
<1>2. SchemaOK'
  BY <1>1, SchemaStays DEF schemaVars
<1>3. MaxVersion \in Nat
  BY MaintenanceAssumption
<1>4. CASE Seen(i)
  <2>1. /\ version' \in [Items -> 0..MaxVersion] /\ version'[i] > 0
        /\ \A j \in Items : version'[j] >= version[j]
    BY <1>3, <1>4 DEF Seen, TypeInv, TypeOK
  <2>2. present' = present \cup {i} /\ expired' = expired \ {i}
    BY <1>4 DEF Seen
  <2>3. present' \subseteq Items /\ expired' \subseteq present'
    BY <2>2 DEF TypeInv, TypeOK
  <2>4. \A j \in present' : version'[j] > 0
    BY <1>3, <2>1, <2>2 DEF TypeInv, TypeOK
  <2> QED
    BY <1>1, <1>2, <2>1, <2>3, <2>4 DEF TypeInv, TypeOK, schemaVars, fileVars
<1>5. CASE Age(i)
  BY <1>1, <1>2, <1>5 DEF Age, TypeInv, TypeOK, schemaVars, fileVars
<1> QED
  BY <1>4, <1>5

LEMMA StepKeeps ==
  ASSUME TypeInv, SchemaOK, [Next]_vars PROVE TypeInv' /\ SchemaOK'
<1>1. ASSUME NEW p \in Commands, Work(p) PROVE TypeInv' /\ SchemaOK'
  <2>1. CASE Begin(p) \/ Snapshot(p) \/ PruneSnapshots(p) \/ PruneRaces(p) \/ Apply(p)
    BY <2>1, BeginKeeps, SnapshotKeeps, PruneKeeps, RaceKeeps, ApplyKeeps
  <2>2. CASE Other(p) \/ Ready(p) \/ Copy(p) \/ Publish(p) \/ PublishStolen(p)
    BY <2>2, EndsKeep, ReadyKeeps, CopyKeeps, PublishKeeps, StolenKeeps
  <2>3. CASE List(p) \/ Unlink(p) \/ BackedUp(p) \/ Delete(p)
    BY <2>3, ListKeeps, UnlinkKeeps, BackedUpKeeps, DeleteKeeps
  <2> QED
    BY <1>1, <2>1, <2>2, <2>3 DEF Work
<1>2. ASSUME NEW p \in Commands, Crash(p) PROVE TypeInv' /\ SchemaOK'
  BY <1>2, EndsKeep
<1>3. CASE UNCHANGED vars
  BY <1>3, SchemaStays DEF vars, schemaVars, contentVars, fileVars, TypeInv, TypeOK
<1> QED
  BY <1>1, <1>2, <1>3, TimeKeeps DEF Next

LEMMA TypesAlways == Spec => [](TypeInv /\ SchemaOK)
<1>1. Init => TypeInv /\ SchemaOK
  BY InitType
<1>2. TypeInv /\ SchemaOK /\ [Next]_vars => (TypeInv /\ SchemaOK)'
  BY StepKeeps
<1> QED
  BY <1>1, <1>2, PTL DEF Spec

\* Every variable keeps its type, in particular every backup is a copy of some contents.
THEOREM TypeCorrect == Spec => []TypeOK
<1>1. TypeInv => TypeOK
  BY DEF TypeInv
<1> QED
  BY <1>1, TypesAlways, PTL

\* Whatever commands migrate at once, and wherever they die: the versions in
\* schema_migrations are 1 to the latest one without a gap, and each one's
\* tables are there exactly if its version is.
THEOREM MigrationsInOrder == Spec => [](tables = recorded /\ recorded = 1..SchemaVersion)
<1>1. SchemaOK => tables = recorded /\ recorded = 1..SchemaVersion
  BY DEF SchemaOK
<1> QED
  BY <1>1, TypesAlways, PTL

-----------------------------------------------------------------------------
(* The snapshot.                                                           *)

Later(all) == {i \in DOMAIN all : all[i].schema # First}

\* There are at most n snapshots of a later schema: they can be numbered.
Numbered(all, n) ==
  \E f \in [Later(all) -> 1..n] : \A i, j \in Later(all) : f[i] = f[j] => i = j

\* Before the first migration all snapshots are of the schema found, and no
\* command migrates before there is one.  Once since has reached Keep nothing is promised.
UndoOK ==
  /\ SchemaVersion = First => since = 0 /\ Later(snapshots) = {}
  /\ since < Keep => Numbered(snapshots, since)
  /\ First > 0 => \A p \in Commands : At(p, "prune") \/ At(p, "apply") => snapshots # <<>>
  /\ UpgradeCanBeUndone

LEMMA InitUndo == Init => UndoOK
<1> SUFFICES ASSUME Init PROVE UndoOK
  OBVIOUS
<1>1. SchemaVersion = First /\ First \in Nat /\ Keep \in Nat
  BY VersionOf, MaintenanceAssumption DEF Init
<1>2. Later(snapshots) = {}
  BY DEF Init, Later
<1>3. Numbered(snapshots, since)
  <2>1. [i \in {} |-> 0] \in [Later(snapshots) -> 1..since]
    BY <1>2
  <2> QED
    BY <1>2, <2>1 DEF Numbered
<1> QED
  BY <1>1, <1>2, <1>3 DEF Init, UndoOK, UpgradeCanBeUndone, At, Idle

\* Nothing has happened to the snapshots, and the schema did not go back.
LEMMA UndoStays ==
  ASSUME TypeInv, SchemaOK, SchemaOK', UndoOK, UNCHANGED <<snapshots, since>>,
         SchemaVersion' = SchemaVersion,
         \/ UNCHANGED command
         \/ \E p \in Commands : \E r : Moves(p, r) /\ (r.at \in {"prune", "apply"} => r.at = command[p].at \/ First = 0)
  PROVE  UndoOK'
<1>1. Later(snapshots)' = Later(snapshots)
  BY DEF Later
<1>2. Numbered(snapshots, since)' <=> Numbered(snapshots, since)
  BY <1>1 DEF Numbered
<1>3. UpgradeCanBeUndone'
  BY DEF UndoOK, UpgradeCanBeUndone
<1>4. First > 0 => \A p \in Commands : At(p, "prune")' \/ At(p, "apply")' => snapshots' # <<>>
  BY MaintenanceAssumption, MovesType DEF UndoOK, At
<1> QED
  BY <1>1, <1>2, <1>3, <1>4 DEF UndoOK

LEMMA SnapshotUndo ==
  ASSUME TypeInv, SchemaOK, UndoOK, NEW p \in Commands, Snapshot(p) PROVE UndoOK'
<1> DEFINE s == [from |-> command[p].found, schema |-> SchemaVersion]
           n == Len(snapshots)
<1>1. /\ SchemaVersion \in First..Last /\ First \in Nat /\ Last \in Nat /\ Keep \in Nat /\ since \in 0..Keep
      /\ command[p].found \in 1..SchemaVersion
  BY MaintenanceAssumption DEF SchemaOK, Snapshot, TypeInv, TypeOK
<1> DEFINE R == [from : 1..Last, schema : 1..Last]
<1>2. snapshots \in Seq(R) /\ s \in R /\ snapshots' = Filed(s, snapshots)
  BY <1>1 DEF TypeInv, TypeOK, Snapshot
<1>3. s.schema = SchemaVersion
  OBVIOUS
<1> HIDE DEF s, R
<1>4. snapshots' \in Seq(R) /\ n \in Nat /\ Len(snapshots') = n + 1
  <2>1. Filed(s, snapshots) \in Seq(R) /\ Len(Filed(s, snapshots)) = n + 1
    BY <1>2, FiledIsSeq, Zenon
  <2> QED
    BY <1>2, <2>1
<1>5. PICK place \in 1..(n + 1) : \A i \in 1..(n + 1) :
        /\ i < place => i \in 1..n /\ snapshots'[i] = snapshots[i]
        /\ i = place => snapshots'[i] = s
        /\ i > place => i - 1 \in 1..n /\ snapshots'[i] = snapshots[i - 1]
  <2>1. \E place \in 1..(n + 1) : PutIn(snapshots', snapshots, s, place)
    BY <1>2, FiledIsSeq
  <2> QED
    BY <2>1 DEF PutIn
<1>6. DOMAIN snapshots = 1..n /\ DOMAIN snapshots' = 1..(n + 1)
  BY <1>2, <1>4
<1> HIDE DEF n
<1>7. SchemaVersion' = SchemaVersion
  BY DEF Snapshot, SchemaVersion
<1>8. since' = IF SchemaVersion > First /\ since < Keep THEN since + 1 ELSE since
  BY DEF Snapshot
<1>9. ASSUME SchemaVersion = First PROVE since' = 0 /\ Later(snapshots') = {}
  <2>1. since = 0 /\ \A i \in 1..n : snapshots[i].schema = First
    BY <1>9, <1>6 DEF UndoOK, Later
  <2>2. \A i \in 1..(n + 1) : snapshots'[i].schema = First
    BY <1>3, <1>4, <1>5, <1>9, <2>1
  <2> QED
    BY <1>1, <1>8, <1>9, <1>6, <2>1, <2>2 DEF Later
<1>10. ASSUME since' < Keep PROVE Numbered(snapshots', since')
  <2>1. CASE SchemaVersion = First
    <3>1. [i \in {} |-> 0] \in [Later(snapshots') -> 1..since']
      BY <1>9, <2>1
    <3> QED
      BY <1>9, <2>1, <3>1 DEF Numbered
  <2>2. CASE SchemaVersion # First
    <3>1. since < Keep /\ since' = since + 1
      BY <1>1, <1>8, <1>10, <2>2
    <3>2. PICK f \in [Later(snapshots) -> 1..since] : \A i, j \in Later(snapshots) : f[i] = f[j] => i = j
      BY <3>1 DEF UndoOK, Numbered
    <3> DEFINE g == [i \in Later(snapshots') |->
                       IF i < place THEN f[i] ELSE IF i = place THEN since + 1 ELSE f[i - 1]]
    <3>3. \A i \in Later(snapshots') :
            /\ i \in 1..(n + 1)
            /\ i < place => i \in Later(snapshots)
            /\ i > place => i - 1 \in Later(snapshots)
      BY <1>5, <1>6 DEF Later
    <3>4. \A i \in Later(snapshots) : f[i] \in 1..since
      BY <3>2
    <3>5. \A i \in Later(snapshots') :
            g[i] \in 1..(since + 1) /\ (i = place => g[i] = since + 1) /\ (i # place => g[i] \in 1..since)
      <4> SUFFICES ASSUME NEW i \in Later(snapshots')
          PROVE g[i] \in 1..(since + 1) /\ (i = place => g[i] = since + 1) /\ (i # place => g[i] \in 1..since)
        OBVIOUS
      <4>1. i \in Nat /\ place \in Nat /\ since \in Nat
        BY <1>1, <1>4, <3>3
      <4>2. CASE i < place
        BY <3>3, <3>4, <4>1, <4>2
      <4>3. CASE i = place
        BY <4>1, <4>3
      <4>4. CASE i > place
        BY <3>3, <3>4, <4>1, <4>4
      <4> QED
        BY <4>1, <4>2, <4>3, <4>4
    <3>6. ASSUME NEW i \in Later(snapshots'), NEW j \in Later(snapshots'), g[i] = g[j] PROVE i = j
      <4>1. i \in Nat /\ j \in Nat /\ place \in Nat
        BY <1>4, <3>3
      <4>2. CASE i = place
        <5> HIDE DEF g
        <5> QED
          BY <1>1, <3>5, <3>6, <4>2
      <4>3. CASE j = place
        <5> HIDE DEF g
        <5> QED
          BY <1>1, <3>5, <3>6, <4>3
      <4>4. CASE i # place /\ j # place
        <5> DEFINE a == IF i < place THEN i ELSE i - 1
                   b == IF j < place THEN j ELSE j - 1
        <5>1. a \in Later(snapshots) /\ b \in Later(snapshots)
          BY <3>3, <4>1, <4>4
        <5>2. g[i] = f[a] /\ g[j] = f[b]
          BY <4>4
        <5>3. a = b
          BY <3>2, <3>6, <5>1, <5>2
        <5> QED
          BY <4>1, <4>4, <5>3
      <4> QED
        BY <4>2, <4>3, <4>4
    <3>7. g \in [Later(snapshots') -> 1..since']
      BY <3>1, <3>5
    <3> HIDE DEF g
    <3> QED
      BY <3>6, <3>7 DEF Numbered
  <2> QED
    BY <2>1, <2>2
<1>11. UpgradeCanBeUndone'
  <2> SUFFICES ASSUME First > 0, SchemaVersion > First, since' < Keep
               PROVE  \E i \in DOMAIN snapshots' : snapshots'[i].schema = First
    BY <1>7 DEF UpgradeCanBeUndone
  <2>1. since < Keep
    BY <1>1, <1>8
  <2>2. PICK i \in 1..n : snapshots[i].schema = First
    BY <1>7, <1>6, <2>1 DEF UndoOK, UpgradeCanBeUndone
  <2> DEFINE k == IF i < place THEN i ELSE i + 1
  <2>3. k \in 1..(n + 1) /\ (k < place => k = i) /\ (k >= place => k > place /\ k - 1 = i)
    BY <1>4, <1>5
  <2>4. snapshots'[k] = snapshots[i]
    BY <1>5, <2>3
  <2> QED
    BY <1>6, <2>2, <2>3, <2>4
<1>12. snapshots' # <<>>
  BY <1>4
<1> QED
  BY <1>7, <1>9, <1>10, <1>11, <1>12 DEF UndoOK

LEMMA PruneUndo ==
  ASSUME TypeInv, SchemaOK, UndoOK, NEW p \in Commands, PruneSnapshots(p) \/ PruneRaces(p) PROVE UndoOK'
<1> DEFINE n == Len(snapshots)
           R == [from : 1..Last, schema : 1..Last]
<1>1. /\ Keep \in Nat \ {0} /\ First \in Nat /\ since \in Nat
      /\ snapshots \in Seq(R) /\ snapshots' = Kept(snapshots)
  BY MaintenanceAssumption DEF TypeInv, TypeOK, PruneSnapshots, PruneRaces
<1>2. SchemaVersion' = SchemaVersion /\ since' = since
  BY DEF PruneSnapshots, PruneRaces, SchemaVersion
<1> HIDE DEF R
<1>3. n \in Nat /\ DOMAIN snapshots = 1..n
  BY <1>1
<1>4. \A q \in Commands : command'[q].at \in {"prune", "apply"} => command[q].at \in {"prune", "apply"}
  <2>1. CASE PruneSnapshots(p)
    BY <2>1 DEF PruneSnapshots, Goes, At, TypeInv, TypeOK, CommandRow
  <2>2. CASE PruneRaces(p)
    BY <2>2 DEF PruneRaces, Idle, At, TypeInv, TypeOK, CommandRow
  <2> QED
    BY <2>1, <2>2
<1>5. CASE n <= Keep
  <2>1. snapshots' = snapshots
    BY <1>5, <1>1, KeptIsSeq, Zenon
  <2>2. Later(snapshots)' = Later(snapshots)
    BY <2>1 DEF Later
  <2>3. Numbered(snapshots, since)' <=> Numbered(snapshots, since)
    BY <1>2, <2>2 DEF Numbered
  <2>4. UpgradeCanBeUndone'
    BY <1>2, <2>1 DEF UndoOK, UpgradeCanBeUndone
  <2>5. First > 0 => \A q \in Commands : At(q, "prune")' \/ At(q, "apply")' => snapshots' # <<>>
    BY <1>4, <2>1 DEF UndoOK, At
  <2> QED
    BY <1>2, <2>2, <2>3, <2>4, <2>5 DEF UndoOK
<1>6. CASE n > Keep
  <2>1. /\ snapshots' \in Seq(R) /\ Len(snapshots') = Keep
        /\ \A i \in 1..Keep : snapshots'[i] = snapshots[n - Keep + i]
    <3>1. /\ Kept(snapshots) \in Seq(R)
          /\ Len(snapshots) > Keep =>
               /\ Len(Kept(snapshots)) = Keep
               /\ \A i \in 1..Keep : Kept(snapshots)[i] = snapshots[Len(snapshots) - Keep + i]
      BY <1>1, KeptIsSeq, Zenon
    <3> QED
      BY <1>1, <1>6, <3>1
  <2>2. DOMAIN snapshots' = 1..Keep
    BY <1>1, <2>1
  <2> HIDE DEF n
  <2>3. \A i \in Later(snapshots') : i \in 1..Keep /\ n - Keep + i \in Later(snapshots)
    <3> SUFFICES ASSUME NEW i \in Later(snapshots')
                 PROVE  i \in 1..Keep /\ n - Keep + i \in Later(snapshots)
      OBVIOUS
    <3>1. i \in 1..Keep /\ snapshots'[i].schema # First
      BY <2>2 DEF Later
    <3>2. n - Keep + i \in 1..n
      BY <1>1, <1>3, <1>6, <3>1
    <3>3. snapshots[n - Keep + i].schema # First
      BY <2>1, <3>1
    <3> QED
      BY <1>3, <3>1, <3>2, <3>3 DEF Later
  <2>4. SchemaVersion = First => since = 0 /\ Later(snapshots') = {}
    BY <2>3 DEF UndoOK
  <2>5. ASSUME since < Keep PROVE Numbered(snapshots', since)
    <3>1. PICK f \in [Later(snapshots) -> 1..since] : \A i, j \in Later(snapshots) : f[i] = f[j] => i = j
      BY <2>5 DEF UndoOK, Numbered
    <3> DEFINE g == [i \in Later(snapshots') |-> f[n - Keep + i]]
    <3>2. g \in [Later(snapshots') -> 1..since]
      BY <2>3, <3>1
    <3>3. ASSUME NEW i \in Later(snapshots'), NEW j \in Later(snapshots'), g[i] = g[j] PROVE i = j
      <4>1. n - Keep + i = n - Keep + j
        BY <2>3, <3>1, <3>3
      <4> QED
        BY <1>1, <1>3, <2>3, <4>1
    <3> HIDE DEF g
    <3> QED
      BY <3>2, <3>3 DEF Numbered
  \* Keep snapshots cannot all be among since ones.
  <2>6. ASSUME since < Keep PROVE \E i \in 1..Keep : snapshots'[i].schema = First
    <3> SUFFICES ASSUME \A i \in 1..Keep : snapshots'[i].schema # First PROVE FALSE
      OBVIOUS
    <3>1. Later(snapshots') = 1..Keep
      BY <2>2 DEF Later
    <3>2. PICK f \in [1..Keep -> 1..since] : \A i, j \in 1..Keep : f[i] = f[j] => i = j
      BY <2>5, <2>6, <3>1 DEF Numbered
    <3>3. /\ IsFiniteSet(1..Keep) /\ Cardinality(1..Keep) = Keep
          /\ IsFiniteSet(1..since) /\ Cardinality(1..since) = since
      BY <1>1, FS_Interval
    <3>4. \E x, y \in 1..Keep : x # y /\ f[x] = f[y]
      BY <2>6, <3>3, FS_PigeonHole
    <3> QED
      BY <3>2, <3>4
  <2>7. snapshots' # <<>>
    BY <1>1, <2>1
  <2>8. UpgradeCanBeUndone'
    BY <1>2, <2>2, <2>6 DEF UpgradeCanBeUndone
  <2> QED
    BY <1>2, <2>4, <2>5, <2>7, <2>8 DEF UndoOK
<1> QED
  BY <1>1, <1>3, <1>5, <1>6

LEMMA ApplyUndo ==
  ASSUME TypeInv, SchemaOK, UndoOK, NEW p \in Commands, Apply(p) PROVE UndoOK'
<1>1. SchemaVersion' >= SchemaVersion /\ SchemaOK'
  BY ApplyKeeps
<1>2. SchemaVersion \in First..Last /\ SchemaVersion' \in First..Last /\ First \in Nat /\ Last \in Nat
  BY <1>1, MaintenanceAssumption DEF SchemaOK
<1>3. UNCHANGED <<snapshots, since>> /\ At(p, "apply")
  BY DEF Apply
<1>4. \A q \in Commands : q # p => command'[q] = command[q]
  BY DEF Apply, Ends, TypeInv, TypeOK
<1>5. Later(snapshots)' = Later(snapshots)
  BY <1>3 DEF Later
<1>6. Numbered(snapshots, since)' <=> Numbered(snapshots, since)
  BY <1>3, <1>5 DEF Numbered
<1>7. First > 0 => snapshots # <<>>
  BY <1>3 DEF UndoOK
<1>8. First > 0 => \A q \in Commands : At(q, "prune")' \/ At(q, "apply")' => snapshots' # <<>>
  BY <1>3, <1>7
<1>9. UpgradeCanBeUndone'
  <2> SUFFICES ASSUME First > 0, since < Keep PROVE \E i \in DOMAIN snapshots : snapshots[i].schema = First
    BY <1>3 DEF UpgradeCanBeUndone
  <2>1. CASE SchemaVersion > First
    BY <2>1 DEF UndoOK, UpgradeCanBeUndone
  <2>2. CASE SchemaVersion = First
    <3>1. Later(snapshots) = {}
      BY <2>2 DEF UndoOK
    <3>2. 1 \in DOMAIN snapshots
      BY <1>7 DEF TypeInv, TypeOK
    <3> QED
      BY <3>1, <3>2 DEF Later
  <2> QED
    BY <1>2, <2>1, <2>2
<1>10. SchemaVersion' = First => SchemaVersion = First
  BY <1>1, <1>2
<1> QED
  BY <1>3, <1>5, <1>6, <1>8, <1>9, <1>10 DEF UndoOK

LEMMA UndoStep ==
  ASSUME TypeInv, SchemaOK, UndoOK, [Next]_vars PROVE UndoOK'
<1>1. SchemaOK' /\ TypeInv'
  BY StepKeeps
<1>2. ASSUME NEW p \in Commands, Begin(p) PROVE UndoOK'
  <2> DEFINE v == SchemaVersion
             r == [Idle EXCEPT !.found = v, !.next = v + 1,
                     !.at = IF v >= Last THEN "ready" ELSE IF v > 0 THEN "snapshot" ELSE "apply"]
  <2>1. v \in First..Last /\ First \in Nat /\ Last \in Nat
    BY MaintenanceAssumption DEF SchemaOK
  <2>2. /\ command' = [command EXCEPT ![p] = r]
        /\ UNCHANGED <<schemaVars, contentVars, fileVars, now, faults>>
    BY <1>2 DEF Begin
  <2>3. command'[p] = r /\ command'[p] \in CommandRow
    BY <1>1, <2>2 DEF TypeInv, TypeOK
  <2>4. Moves(p, r)
    BY <2>2, <2>3 DEF Moves
  <2>5. r.at \in {"prune", "apply"} => First = 0
    BY <2>1 DEF Idle
  <2>6. SchemaVersion' = SchemaVersion
    BY <2>2 DEF SchemaVersion, schemaVars
  <2> HIDE DEF r, v
  <2> QED
    BY <1>1, <2>2, <2>4, <2>5, <2>6, UndoStays DEF schemaVars
<1>3. ASSUME NEW p \in Commands, Work(p) \/ Crash(p),
             ~Begin(p), ~Snapshot(p), ~PruneSnapshots(p), ~PruneRaces(p), ~Apply(p)
      PROVE  UndoOK'
  <2>1. UNCHANGED schemaVars
    BY <1>3 DEF Work, Other, Ready, Copy, Publish, PublishStolen, List, Unlink, BackedUp, Delete, Crash
  <2>2. SchemaVersion' = SchemaVersion
    BY <2>1 DEF SchemaVersion, schemaVars
  <2>3. \A q \in Commands : q # p => command'[q] = command[q]
    BY <1>3 DEF Work, Other, Ready, Copy, Publish, PublishStolen, List, Unlink, BackedUp, Delete, Crash,
                Ends, Goes, TypeInv, TypeOK
  <2>4. command'[p].at \notin {"prune", "apply"}
    <3>1. CASE Other(p) \/ Crash(p) \/ Delete(p)
      BY <3>1, EndsKeep, DeleteKeeps, MovesType DEF Idle
    <3>2. CASE Ready(p)
      BY <3>2, ReadyKeeps, MovesType
    <3>3. CASE Copy(p) \/ Publish(p) \/ PublishStolen(p) \/ BackedUp(p) \/ List(p)
      BY <3>3, IdleType DEF Copy, Publish, PublishStolen, BackedUp, List, Ends, Goes, Idle, TypeInv, TypeOK, CommandRow
    <3>4. CASE Unlink(p)
      <4>1. command'[p] = Idle \/ \E s \in Seconds : command'[p] = [command[p] EXCEPT !.todo = @ \ {s}]
        <5>1. PICK s \in Seconds : \/ Moves(p, Idle)
                                  \/ Moves(p, [command[p] EXCEPT !.todo = @ \ {s}])
          BY <3>4, UnlinkKeeps
        <5> QED
          BY <5>1, MovesType
      <4>2. command[p] \in CommandRow /\ command[p].at = "unlink"
        BY <3>4 DEF Unlink, At, TypeInv, TypeOK
      <4>3. \A s : [command[p] EXCEPT !.todo = @ \ {s}].at = "unlink"
        BY <4>2 DEF CommandRow
      <4>4. command'[p].at = "idle" \/ command'[p].at = "unlink"
        <5>1. CASE command'[p] = Idle
          BY <5>1 DEF Idle
        <5>2. ASSUME NEW s \in Seconds, command'[p] = [command[p] EXCEPT !.todo = @ \ {s}]
              PROVE  command'[p].at = "unlink"
          BY <4>3, <5>2, Zenon
        <5> QED
          BY <4>1, <5>1, <5>2
      <4> QED
        BY <4>4
    <3> QED
      BY <1>3, <3>1, <3>2, <3>3, <3>4 DEF Work
  <2>5. Moves(p, command'[p])
    <3>1. command'[p] \in CommandRow /\ command \in [Commands -> CommandRow] /\ command' \in [Commands -> CommandRow]
      BY <1>1 DEF TypeInv, TypeOK
    <3> QED
      BY <2>3, <3>1 DEF Moves
  <2> QED
    BY <1>1, <2>1, <2>2, <2>4, <2>5, UndoStays DEF schemaVars
<1>4. ASSUME NEW i \in Items, Seen(i) \/ Age(i) PROVE UndoOK'
  <2>1. UNCHANGED <<schemaVars, command>> /\ SchemaVersion' = SchemaVersion
    BY <1>4 DEF Seen, Age, SchemaVersion, schemaVars
  <2> QED
    BY <1>1, <2>1, UndoStays DEF schemaVars
<1>5. CASE UNCHANGED vars
  <2>1. UNCHANGED <<schemaVars, command>> /\ SchemaVersion' = SchemaVersion
    BY <1>5 DEF vars, SchemaVersion, schemaVars
  <2> QED
    BY <1>1, <2>1, UndoStays DEF schemaVars
<1> QED
  BY <1>2, <1>3, <1>4, <1>5, SnapshotUndo, PruneUndo, ApplyUndo DEF Next

\* Until Keep further snapshots have been taken, there is one of the schema an
\* upgrade started from, however many commands migrate, prune, die and start
\* again.  Inductive is that the snapshots of a later schema are at most as
\* many as have been taken since, and that none exists before the first migration.
THEOREM UpgradeCanBeUndoneAlways == Spec => []UpgradeCanBeUndone
<1>1. Init => TypeInv /\ SchemaOK /\ UndoOK
  BY InitType, InitUndo
<1>2. TypeInv /\ SchemaOK /\ UndoOK /\ [Next]_vars => (TypeInv /\ SchemaOK /\ UndoOK)'
  BY StepKeeps, UndoStep
<1>3. UndoOK => UpgradeCanBeUndone
  BY DEF UndoOK
<1> QED
  BY <1>1, <1>2, <1>3, PTL DEF Spec

-----------------------------------------------------------------------------
(* The backup.                                                             *)

\* Everything expired is in these contents, as it is now.
Good(c) == \A i \in expired : <<i, version[i]>> \in c

Backing == {"copy", "publish", "list", "unlink", "delete"}

\* What a command will delete is expired as long as it is what it was.
Named(r) ==
  r.at \in Backing =>
    /\ r.second <= now
    /\ \A d \in r.doomed :
         /\ d[2] <= version[d[1]]
         /\ d[1] \in present /\ d[2] = version[d[1]] => d[1] \in expired

\* No file is of a later second.
NamesOK ==
  /\ \A s \in Seconds : backups[s] # {} => s <= now
  /\ \A p \in Commands : Named(command[p])

\* The file can go: there is a later one, or p keeps only its own.
Outlived(p, r, s) == (Count[p] = 1 /\ s > r.second) \/ \E t \in Files : t > s

Spoiled == collided \/ robbed

\* What command p in state r can rely on, unless two backups collided, or the
\* newest one was removed.
Rests(p, r) ==
  /\ r.at = "publish" => tmp[r.second] # {} /\ \A c \in tmp[r.second] : Good(c)
  /\ r.at \in Backing => \A s \in Seconds : s > r.second => \A c \in backups[s] : Good(c)
  /\ r.at \in {"list", "unlink", "delete"} =>
       /\ \A c \in backups[r.second] : Good(c)
       /\ \E s \in Files : s >= r.second
  /\ r.at = "unlink" => \A s \in r.todo : Outlived(p, r, s)

BackupOK ==
  ~Spoiled =>
    /\ \A p, q \in Commands :
         p # q /\ {command[p].at, command[q].at} \subseteq {"copy", "publish"}
           => command[p].second # command[q].second
    /\ \A p \in Commands : Rests(p, command[p])

LEMMA InitBackup == Init => NamesOK /\ BackupOK
<1> SUFFICES ASSUME Init PROVE NamesOK /\ BackupOK
  OBVIOUS
<1>1. \A p \in Commands : command[p] = Idle /\ Idle.at = "idle"
  BY DEF Init, Idle
<1>2. NamesOK
  BY <1>1 DEF Init, NamesOK, Named, Backing
<1>3. \A p \in Commands : Rests(p, Idle)
  BY DEF Rests, Backing, Idle
<1> QED
  BY <1>1, <1>2, <1>3 DEF BackupOK

LEMMA IdleRests == ASSUME NEW p PROVE Rests(p, Idle) /\ Rests(p, Idle)'
  BY DEF Rests, Backing, Idle

\* What a copy holds of the expired items, it goes on holding.
ExpiredStay == \A i \in expired' : i \in expired /\ version'[i] = version[i]

\* What a step of another command leaves to one in state r.
LEMMA RestsStays ==
  ASSUME TypeInv, NEW p, NEW r \in CommandRow, Rests(p, r), ExpiredStay,
         r.at = "publish" => tmp'[r.second] = tmp[r.second],
         \A s \in Seconds : \A c \in backups'[s] : c \in backups[s] \/ Good(c)',
         \A s \in Files : \E t \in Seconds : t >= s /\ backups'[t] # {}
  PROVE  Rests(p, r)'
<1>1. \A c : Good(c) => Good(c)'
  BY DEF Good, ExpiredStay
<1>2. \A s \in Seconds : (\A c \in backups[s] : Good(c)) => \A c \in backups'[s] : Good(c)'
  BY <1>1
<1>3. \A s \in Files : \E t \in Files' : t >= s /\ t \in Int /\ s \in Int
  BY MaintenanceAssumption DEF Files, Seconds
<1>4. r.second \in Seconds /\ r.second \in Int /\ r.todo \subseteq Seconds /\ \A s \in Seconds : s \in Int
  BY DEF CommandRow, Seconds
<1>5. r.at = "publish" => tmp'[r.second] # {} /\ \A c \in tmp'[r.second] : Good(c)'
  BY <1>1 DEF Rests
<1>6. r.at \in Backing => \A s \in Seconds : s > r.second => \A c \in backups'[s] : Good(c)'
  BY <1>2 DEF Rests
<1>7. r.at \in {"list", "unlink", "delete"} =>
        (\A c \in backups'[r.second] : Good(c)') /\ \E s \in Files' : s >= r.second
  <2> SUFFICES ASSUME r.at \in {"list", "unlink", "delete"}
      PROVE (\A c \in backups'[r.second] : Good(c)') /\ \E s \in Files' : s >= r.second
    OBVIOUS
  <2>1. \A c \in backups'[r.second] : Good(c)'
    BY <1>2, <1>4 DEF Rests
  <2>2. PICK s \in Files : s >= r.second
    BY DEF Rests
  <2>3. PICK t \in Files' : t >= s /\ t \in Int /\ s \in Int
    BY <1>3
  <2> QED
    BY <1>4, <2>1, <2>2, <2>3
<1>8. r.at = "unlink" => \A s \in r.todo : Outlived(p, r, s)'
  <2> SUFFICES ASSUME r.at = "unlink", NEW s \in r.todo, ~(Count[p] = 1 /\ s > r.second)
               PROVE \E t \in Files' : t > s
    BY DEF Outlived
  <2>1. PICK t \in Files : t > s
    BY DEF Rests, Outlived
  <2>2. PICK u \in Files' : u >= t /\ u \in Int /\ t \in Int
    BY <1>3
  <2> QED
    BY <1>4, <2>1, <2>2
<1> QED
  BY <1>5, <1>6, <1>7, <1>8 DEF Rests

\* A command that goes on resting on what it rested on, or on less.
LEMMA OthersRest ==
  ASSUME TypeInv, BackupOK, ~Spoiled, NEW p \in Commands, NEW r, Moves(p, r), ExpiredStay,
         \A q \in Commands : q # p /\ At(q, "publish") => tmp'[command[q].second] = tmp[command[q].second],
         \A s \in Seconds : \A c \in backups'[s] : c \in backups[s] \/ Good(c)',
         \A s \in Files : \E t \in Seconds : t >= s /\ backups'[t] # {},
         Rests(p, r)',
         \A q \in Commands : q # p /\ {r.at, command[q].at} \subseteq {"copy", "publish"}
                              => command[q].second # r.second
  PROVE  BackupOK'
<1>1. \A q \in Commands : command[q] \in CommandRow
  BY DEF TypeInv, TypeOK
<1>2. command'[p] = r /\ \A q \in Commands : q # p => command'[q] = command[q]
  BY MovesType
<1>3. ASSUME NEW q \in Commands PROVE Rests(q, command[q])'
  <2>1. CASE q = p
    BY <1>2, <2>1 DEF Rests
  <2>2. CASE q # p
    <3>1. Rests(q, command[q]) /\ command'[q] = command[q] /\ command[q] \in CommandRow
      BY <1>1, <1>2, <2>2 DEF BackupOK
    <3>2. command[q].at = "publish" => tmp'[command[q].second] = tmp[command[q].second]
      BY <2>2 DEF At
    <3>3. \A w \in CommandRow : w = command[q] => Rests(q, w)'
      <4> SUFFICES ASSUME NEW w \in CommandRow, w = command[q] PROVE Rests(q, w)'
        OBVIOUS
      <4>1. Rests(q, w)
        BY <3>1
      <4> QED
        BY <3>2, <4>1, RestsStays
    <3> QED
      BY <3>1, <3>3 DEF Rests
  <2> QED
    BY <2>1, <2>2
<1>4. \A q, w \in Commands :
        q # w /\ {command'[q].at, command'[w].at} \subseteq {"copy", "publish"}
          => command'[q].second # command'[w].second
  BY <1>2 DEF BackupOK
<1> QED
  BY <1>3, <1>4 DEF BackupOK

LEMMA NumbersType ==
  ASSUME TypeInv
  PROVE  /\ now \in Nat /\ (\A s \in Seconds : s \in Nat) /\ \A i \in Items : version[i] \in Nat
         /\ \A p \in Commands : command[p].second \in Seconds /\ command[p] \in CommandRow
  BY MaintenanceAssumption DEF TypeInv, TypeOK, Seconds, CommandRow

LEMMA IdleNamed == Named(Idle) /\ Named(Idle)'
  BY DEF Named, Backing, Idle

LEMMA NamedStays ==
  ASSUME TypeInv, TypeInv', NEW r \in CommandRow, Named(r), now <= now',
         \A i \in Items : version[i] <= version'[i],
         \A i \in present' : version'[i] = version[i] => i \in present /\ (i \in expired => i \in expired')
  PROVE  Named(r)'
<1> SUFFICES ASSUME r.at \in Backing
    PROVE  /\ r.second <= now'
           /\ \A d \in r.doomed :
                /\ d[2] <= version'[d[1]]
                /\ d[1] \in present' /\ d[2] = version'[d[1]] => d[1] \in expired'
  BY DEF Named
<1>1. r.second \in Nat /\ now \in Nat /\ now' \in Nat
  BY MaintenanceAssumption DEF CommandRow, Seconds, TypeInv, TypeOK
<1>2. r.second <= now'
  BY <1>1 DEF Named
<1>3. ASSUME NEW d \in r.doomed
      PROVE  /\ d[2] <= version'[d[1]]
             /\ d[1] \in present' /\ d[2] = version'[d[1]] => d[1] \in expired'
  <2>1. d[1] \in Items /\ d[2] \in 1..MaxVersion
    BY DEF CommandRow, Copies
  <2>2. version[d[1]] \in Nat /\ version'[d[1]] \in Nat /\ d[2] \in Nat
    BY <2>1, MaintenanceAssumption DEF TypeInv, TypeOK
  <2>3. d[2] <= version[d[1]] /\ (d[1] \in present /\ d[2] = version[d[1]] => d[1] \in expired)
    BY DEF Named
  <2> QED
    BY <2>1, <2>2, <2>3
<1> QED
  BY <1>2, <1>3

\* A step of p, which goes on in state r, or is new in it.
LEMMA NamesStay ==
  ASSUME TypeInv, TypeInv', NamesOK, NEW p \in Commands, NEW r, Moves(p, r), Named(r)', now <= now',
         \A i \in Items : version[i] <= version'[i],
         \A i \in present' : version'[i] = version[i] => i \in present /\ (i \in expired => i \in expired'),
         \A s \in Seconds : backups'[s] # {} => backups[s] # {} \/ s <= now'
  PROVE  NamesOK'
<1>1. command'[p] = r /\ \A q \in Commands : q # p => command'[q] = command[q]
  BY MovesType
<1>2. ASSUME NEW q \in Commands PROVE Named(command[q])'
  <2>1. CASE q = p
    BY <1>1, <2>1 DEF Named
  <2>2. CASE q # p
    <3>1. \A w \in CommandRow : w = command[q] => Named(w)'
      <4> SUFFICES ASSUME NEW w \in CommandRow, w = command[q] PROVE Named(w)'
        OBVIOUS
      <4>1. Named(w)
        BY DEF NamesOK
      <4> QED
        BY <2>2, <4>1, NamedStays
    <3>2. command[q] \in CommandRow /\ command'[q] = command[q]
      BY <1>1, <2>2 DEF TypeInv, TypeOK
    <3> QED
      BY <3>1, <3>2 DEF Named
  <2> QED
    BY <2>1, <2>2
<1>3. ASSUME NEW s \in Seconds, backups'[s] # {} PROVE s <= now'
  <2>1. s \in Nat /\ now \in Nat /\ now' \in Nat
    BY MaintenanceAssumption DEF Seconds, TypeInv, TypeOK
  <2>2. s <= now \/ s <= now'
    BY <1>3 DEF NamesOK
  <2> QED
    BY <2>1, <2>2
<1> QED
  BY <1>2, <1>3 DEF NamesOK

BackupInv == TypeInv /\ SchemaOK /\ NamesOK /\ BackupOK

\* The command is not, or no longer, at a backup.
LEMMA NotBacking ==
  ASSUME NEW p, NEW r, r.at \notin Backing PROVE Named(r) /\ Rests(p, r) /\ Named(r)' /\ Rests(p, r)'
  BY DEF Named, Rests, Backing

\* It goes on with the same name and the same items to delete.
LEMMA GoesNamed ==
  ASSUME NamesOK, NEW p \in Commands, command[p].at \in Backing,
         NEW r, r.second = command[p].second, r.doomed = command[p].doomed
  PROVE  Named(r)
  BY DEF NamesOK, Named

LEMMA QuietBacked ==
  ASSUME BackupInv, TypeInv', NEW p \in Commands, NEW r, Moves(p, r),
         UNCHANGED <<contentVars, fileVars, now>>,
         r.at \notin {"copy", "publish"}, Named(r), ~Spoiled => Rests(p, r)
  PROVE  NamesOK' /\ BackupOK'
<1>1. UNCHANGED <<present, version, expired, backups, tmp, collided, robbed, now>>
  BY DEF contentVars, fileVars
<1>2. Named(r)' /\ (~Spoiled => Rests(p, r)')
  BY <1>1 DEF Named, Rests, Outlived, Good, Files
<1>3. now <= now' /\ \A i \in Items : version[i] <= version'[i]
  BY <1>1, MaintenanceAssumption DEF BackupInv, TypeInv, TypeOK, Seconds
<1>4. NamesOK'
  BY <1>1, <1>2, <1>3, NamesStay DEF BackupInv
<1>5. \A s \in Files : \E t \in Seconds : t >= s /\ backups'[t] # {}
  BY <1>1, MaintenanceAssumption DEF Files, Seconds
<1>6. BackupOK'
  <2>1. CASE Spoiled
    BY <1>1, <2>1 DEF BackupOK, Spoiled
  <2>2. CASE ~Spoiled
    BY <1>1, <1>2, <1>5, <2>2, OthersRest DEF BackupInv, ExpiredStay
  <2> QED
    BY <2>1, <2>2
<1> QED
  BY <1>4, <1>6

\* Whoever moves is at no backup afterwards.
LEMMA SchemaBacked ==
  ASSUME BackupInv, NEW p \in Commands,
         Begin(p) \/ Snapshot(p) \/ PruneSnapshots(p) \/ PruneRaces(p) \/ Apply(p) \/ Other(p) \/ Crash(p)
  PROVE  NamesOK' /\ BackupOK'
<1>1. UNCHANGED <<present, version, expired, backups, tmp, collided, robbed, now>>
  BY DEF Begin, Snapshot, PruneSnapshots, PruneRaces, Apply, Other, Crash, contentVars, fileVars
<1>2. \A q \in Commands : command'[q] = command[q] \/ command'[q].at \notin Backing
  <2> SUFFICES ASSUME NEW q \in Commands
               PROVE  command'[q] = command[q] \/ command'[q].at \in {"idle", "snapshot", "prune", "apply", "ready"}
    BY DEF Backing
  <2>1. command \in [Commands -> CommandRow] /\ command[q] \in CommandRow
    BY DEF BackupInv, TypeInv, TypeOK
  <2>2. CASE Begin(p)
    BY <2>1, <2>2 DEF Begin, Idle
  <2>3. CASE Snapshot(p) \/ PruneSnapshots(p)
    BY <2>1, <2>3 DEF Snapshot, PruneSnapshots, Goes, CommandRow
  <2>4. CASE PruneRaces(p)
    BY <2>1, <2>4 DEF PruneRaces, Idle, CommandRow
  <2>5. CASE Apply(p)
    BY <2>1, <2>5 DEF Apply, Ends, Idle, CommandRow
  <2>6. CASE Other(p) \/ Crash(p)
    BY <2>1, <2>6 DEF Other, Crash, Ends, Idle
  <2> QED
    BY <2>2, <2>3, <2>4, <2>5, <2>6
<1>3. ASSUME NEW q \in Commands PROVE Named(command[q])' /\ (~Spoiled => Rests(q, command[q])')
  <2>1. CASE command'[q] = command[q]
    <3>1. Named(command[q]) /\ (~Spoiled => Rests(q, command[q]))
      BY DEF BackupInv, NamesOK, BackupOK
    <3> QED
      BY <1>1, <2>1, <3>1 DEF Named, Rests, Outlived, Good, Files
  <2>2. CASE command'[q].at \notin Backing
    BY <2>2 DEF Named, Rests, Backing
  <2> QED
    BY <1>2, <2>1, <2>2
<1>4. NamesOK'
  BY <1>1, <1>3 DEF BackupInv, NamesOK
<1>5. BackupOK'
  <2> SUFFICES ASSUME ~Spoiled
               PROVE  /\ \A q, w \in Commands :
                           q # w /\ {command'[q].at, command'[w].at} \subseteq {"copy", "publish"}
                             => command'[q].second # command'[w].second
                      /\ \A q \in Commands : Rests(q, command[q])'
    BY <1>1 DEF BackupOK, Spoiled
  <2>1. \A q \in Commands : command'[q].at \in {"copy", "publish"} => command'[q] = command[q]
    BY <1>2 DEF Backing
  <2> QED
    BY <1>3, <2>1 DEF BackupInv, BackupOK
<1> QED
  BY <1>4, <1>5

LEMMA ReadyBacked == ASSUME BackupInv, NEW p \in Commands, Ready(p) PROVE NamesOK' /\ BackupOK'
<1>1. TypeInv' /\ UNCHANGED <<contentVars, backups, tmp, robbed>>
  BY ReadyKeeps DEF BackupInv, Ready
<1> PICK s \in NextSecond : \E r :
         /\ Moves(p, r) /\ now' = s
         /\ r.at = "copy" /\ r.second = s /\ r.doomed = Candidates
         /\ collided' = (collided \/ \E q \in Commands \ {p} :
                            command[q].at \in {"copy", "publish"} /\ command[q].second = s)
  BY ReadyKeeps DEF BackupInv
<1>2. PICK r :
        /\ Moves(p, r) /\ now' = s
        /\ r.at = "copy" /\ r.second = s /\ r.doomed = Candidates
        /\ collided' = (collided \/ \E q \in Commands \ {p} :
                           command[q].at \in {"copy", "publish"} /\ command[q].second = s)
  OBVIOUS
<1>3. s \in Seconds /\ now <= s /\ \A t \in Seconds : t \in Nat
  BY MaintenanceAssumption DEF NextSecond, Seconds, BackupInv, TypeInv, TypeOK
<1>4. UNCHANGED <<present, version, expired>>
  BY <1>1 DEF contentVars
<1>5. \A i \in Items : version[i] <= version'[i]
  BY <1>4, MaintenanceAssumption DEF BackupInv, TypeInv, TypeOK
<1>6. Named(r)'
  <2>1. \A d \in r.doomed : d[2] = version[d[1]] /\ d[1] \in expired /\ d[1] \in Items
    BY <1>2 DEF Candidates, BackupInv, TypeInv, TypeOK
  <2>2. \A d \in r.doomed : d[2] <= version'[d[1]] /\ d[1] \in expired'
    BY <1>4, <1>5, <2>1
  <2>3. r.second <= now' /\ r.second = now'
    BY <1>2, <1>3
  <2> QED
    BY <2>2, <2>3 DEF Named
<1>7. NamesOK'
  BY <1>1, <1>2, <1>3, <1>4, <1>5, <1>6, NamesStay DEF BackupInv
<1>8. BackupOK'
  <2> SUFFICES ASSUME ~Spoiled' PROVE BackupOK'
    BY DEF BackupOK
  <2>0. ~Spoiled
    BY <1>1, <1>2 DEF Spoiled
  <2>1. \A t \in Seconds : t > s => backups[t] = {}
    BY <1>3, NumbersType DEF BackupInv, NamesOK
  <2>2. Rests(p, r)'
    BY <1>1, <1>2, <2>1 DEF Rests, Outlived
  <2>3. \A q \in Commands : q # p /\ {r.at, command[q].at} \subseteq {"copy", "publish"}
                              => command[q].second # r.second
    BY <1>2 DEF Spoiled
  <2>4. \A t \in Files : \E u \in Seconds : u >= t /\ backups'[u] # {}
    BY <1>1, <1>3 DEF Files
  <2> QED
    BY <1>1, <1>2, <1>4, <2>0, <2>2, <2>3, <2>4, OthersRest DEF BackupInv, ExpiredStay
<1> QED
  BY <1>7, <1>8

LEMMA ContentsGood == ASSUME BackupInv PROVE Good(Contents)
  BY DEF Good, Contents, BackupInv, TypeInv, TypeOK

LEMMA CopyBacked == ASSUME BackupInv, NEW p \in Commands, Copy(p) PROVE NamesOK' /\ BackupOK'
<1> PICK own : own = command[p].second
  OBVIOUS
<1>0. Moves(p, [command[p] EXCEPT !.at = "publish"]) /\ command[p] \in CommandRow
  BY CopyKeeps, NumbersType DEF BackupInv
<1> PICK r :
      /\ Moves(p, r) /\ r.at = "publish"
      /\ r.second = command[p].second /\ r.doomed = command[p].doomed
  BY <1>0 DEF CommandRow
<1>1. TypeInv' /\ Moves(p, r)
  BY CopyKeeps DEF BackupInv
<1>2. /\ UNCHANGED <<present, version, expired, backups, collided, robbed, now>>
      /\ tmp' = [tmp EXCEPT ![own] = {Contents}] /\ command[p].at = "copy"
  BY DEF Copy, contentVars, At
<1>3. /\ r.at = "publish" /\ r.second = own /\ r.doomed = command[p].doomed
      /\ own \in Seconds /\ \A s \in Seconds : s \in Nat
  BY MaintenanceAssumption DEF BackupInv, TypeInv, TypeOK, CommandRow, Seconds
<1>4. Named(r)'
  <2>1. Named(r)
    <3>1. command[p].at \in Backing
      BY <1>2 DEF Backing
    <3> QED
      BY <1>3, <3>1, GoesNamed DEF BackupInv
  <2> QED
    BY <1>2, <2>1 DEF Named
<1>5. now <= now' /\ \A i \in Items : version[i] <= version'[i]
  <2>1. now \in Nat /\ \A i \in Items : version[i] \in Nat
    BY NumbersType DEF BackupInv
  <2> QED
    BY <1>2, <2>1
<1>6. NamesOK'
  BY <1>1, <1>2, <1>4, <1>5, NamesStay DEF BackupInv
<1>7. BackupOK'
  <2> SUFFICES ASSUME ~Spoiled PROVE BackupOK'
    BY <1>2 DEF BackupOK, Spoiled
  <2>1. \A q \in Commands : q # p /\ command[q].at \in {"copy", "publish"} => command[q].second # own
    BY <1>2 DEF BackupOK, BackupInv
  <2>2. tmp'[own] = {Contents} /\ \A s \in Seconds : s # own => tmp'[s] = tmp[s]
    BY <1>2, <1>3 DEF BackupInv, TypeInv, TypeOK
  <2>3. \A c \in tmp'[own] : Good(c)'
    BY <1>2, <2>2, ContentsGood DEF Good
  <2>4. Rests(p, command[p])
    BY DEF BackupOK, BackupInv
  <2>5. \A s \in Seconds : s > r.second => \A c \in backups'[s] : Good(c)'
    <3>1. command[p].at \in Backing
      BY <1>2 DEF Backing
    <3>2. \A c : Good(c)' <=> Good(c)
      BY <1>2 DEF Good
    <3> QED
      BY <1>2, <1>3, <2>4, <3>1, <3>2 DEF Rests
  <2>6. Rests(p, r)'
    BY <1>3, <2>2, <2>3, <2>5 DEF Rests
  <2>7. \A q \in Commands : command[q].second \in Seconds
    BY DEF BackupInv, TypeInv, TypeOK, CommandRow
  <2>8. \A s \in Files : \E t \in Seconds : t >= s /\ backups'[t] # {}
    BY <1>2, <1>3 DEF Files
  <2>9. ExpiredStay /\ \A s \in Seconds : \A c \in backups'[s] : c \in backups[s] \/ Good(c)'
    BY <1>2 DEF ExpiredStay
  <2>10. \A q \in Commands : q # p /\ At(q, "publish") => tmp'[command[q].second] = tmp[command[q].second]
    BY <2>1, <2>2, <2>7 DEF At
  <2>11. \A q \in Commands : q # p /\ {r.at, command[q].at} \subseteq {"copy", "publish"}
                                => command[q].second # r.second
    BY <1>3, <2>1
  <2> QED
    <3>1. TypeInv /\ BackupOK /\ ~Spoiled /\ Moves(p, r) /\ ExpiredStay
      BY <1>1, <2>9 DEF BackupInv
    <3>2. Rests(p, r)'
      BY <2>6
    <3>3. \A s \in Seconds : \A c \in backups'[s] : c \in backups[s] \/ Good(c)'
      BY <2>9
    <3>4. \A q \in Commands : q # p /\ At(q, "publish") => tmp'[command[q].second] = tmp[command[q].second]
      BY <2>10
    <3>5. \A s \in Files : \E t \in Seconds : t >= s /\ backups'[t] # {}
      BY <2>8
    <3>6. \A q \in Commands : q # p /\ {r.at, command[q].at} \subseteq {"copy", "publish"}
                              => command[q].second # r.second
      BY <2>11
    <3> QED
      BY <3>1, <3>2, <3>3, <3>4, <3>5, <3>6, OthersRest
<1> QED
  BY <1>6, <1>7

LEMMA PublishBacked == ASSUME BackupInv, NEW p \in Commands, Publish(p) PROVE NamesOK' /\ BackupOK'
<1> PICK own : own = command[p].second
  OBVIOUS
<1> PICK r : r = [command[p] EXCEPT !.at = "list"]
  OBVIOUS
<1>1. TypeInv' /\ Moves(p, r)
  BY PublishKeeps DEF BackupInv
<1>2. /\ UNCHANGED <<present, version, expired, collided, robbed, now>>
      /\ backups' = [backups EXCEPT ![own] = tmp[own]] /\ tmp' = [tmp EXCEPT ![own] = {}]
      /\ command[p].at = "publish" /\ tmp[own] # {}
  BY DEF Publish, contentVars, At
<1>3. /\ now \in Nat /\ (\A s \in Seconds : s \in Nat) /\ (\A i \in Items : version[i] \in Nat)
      /\ own \in Seconds /\ command[p] \in CommandRow
  BY NumbersType DEF BackupInv
<1>4. r.at = "list" /\ r.second = own /\ r.doomed = command[p].doomed /\ command[p].at \in Backing
  BY <1>2, <1>3 DEF CommandRow, Backing
<1>5. Named(r) /\ Named(r)'
  <2>1. Named(r)
    BY <1>4, GoesNamed DEF BackupInv
  <2> QED
    BY <1>2, <2>1 DEF Named
<1>6. now <= now' /\ \A i \in Items : version[i] <= version'[i]
  BY <1>2, <1>3
<1>7. /\ backups'[own] = tmp[own] /\ tmp'[own] = {}
      /\ \A s \in Seconds : s # own => backups'[s] = backups[s] /\ tmp'[s] = tmp[s]
  BY <1>2, <1>3 DEF BackupInv, TypeInv, TypeOK
<1>8. own <= now
  BY <1>4, <1>5 DEF Named, Backing
<1>9. NamesOK'
  <2>1. \A s \in Seconds : backups'[s] # {} => backups[s] # {} \/ s <= now'
    BY <1>2, <1>7, <1>8
  <2> QED
    BY <1>1, <1>2, <1>5, <1>6, <2>1, NamesStay DEF BackupInv
<1>10. BackupOK'
  <2> SUFFICES ASSUME ~Spoiled PROVE BackupOK'
    BY <1>2 DEF BackupOK, Spoiled
  <2>1. \A q \in Commands : q # p /\ command[q].at \in {"copy", "publish"} => command[q].second # own
    BY <1>2 DEF BackupOK, BackupInv
  <2>2. Rests(p, command[p])
    BY DEF BackupOK, BackupInv
  <2>3. \A c : Good(c)' <=> Good(c)
    BY <1>2 DEF Good
  <2>4. \A c \in backups'[own] : Good(c)'
    BY <1>2, <1>7, <2>2, <2>3 DEF Rests
  <2>5. \A s \in Seconds : s > own => \A c \in backups'[s] : Good(c)'
    BY <1>3, <1>4, <1>7, <2>2, <2>3 DEF Rests
  <2>6. own \in Files' /\ own >= own
    BY <1>2, <1>3, <1>7 DEF Files
  <2>7. Rests(p, r)'
    BY <1>4, <2>4, <2>5, <2>6 DEF Rests
  <2>8. \A s \in Files : \E t \in Seconds : t >= s /\ backups'[t] # {}
    BY <1>2, <1>3, <1>7 DEF Files
  <2>9. \A s \in Seconds : \A c \in backups'[s] : c \in backups[s] \/ Good(c)'
    BY <1>7, <2>4
  <2>10. \A q \in Commands : q # p /\ At(q, "publish") => tmp'[command[q].second] = tmp[command[q].second]
    BY <1>7, <2>1, NumbersType DEF BackupInv, At
  <2> QED
    BY <1>1, <1>2, <1>4, <2>7, <2>8, <2>9, <2>10, OthersRest DEF BackupInv, ExpiredStay
<1> QED
  BY <1>9, <1>10

\* Not unless two backups collided.
LEMMA StolenBacked == ASSUME BackupInv, NEW p \in Commands, PublishStolen(p) PROVE NamesOK' /\ BackupOK'
<1> PICK own : own = command[p].second
  OBVIOUS
<1>1. TypeInv' /\ command[p].at = "publish" /\ tmp[own] = {} /\ command[p].at \in Backing
  BY StolenKeeps DEF BackupInv, PublishStolen, At, Backing
<1>2. UNCHANGED <<present, version, expired, collided, robbed, now>>
  BY DEF PublishStolen, contentVars
<1>3. Spoiled
  BY <1>1 DEF BackupInv, BackupOK, Rests
<1>4. /\ now \in Nat /\ (\A s \in Seconds : s \in Nat) /\ (\A i \in Items : version[i] \in Nat)
      /\ own \in Seconds /\ command[p] \in CommandRow
  BY NumbersType DEF BackupInv
<1>5. PICK r : Moves(p, r) /\ (r = Idle \/ r = [command[p] EXCEPT !.at = "list"])
  BY EndsMoves, GoesMoves DEF PublishStolen, BackupInv
<1>6. Named(r) /\ r.at # "copy"
  <2>1. CASE r = Idle
    BY <2>1, IdleNamed DEF Idle
  <2>2. CASE r = [command[p] EXCEPT !.at = "list"]
    <3>1. r.second = command[p].second /\ r.doomed = command[p].doomed /\ r.at = "list"
      BY <1>4, <2>2 DEF CommandRow
    <3> QED
      BY <1>1, <3>1, GoesNamed DEF BackupInv
  <2> QED
    BY <1>5, <2>1, <2>2
<1>7. Named(r)'
  BY <1>2, <1>6 DEF Named
<1>8. own <= now
  BY <1>1 DEF BackupInv, NamesOK, Named
<1>9. \A s \in Seconds : backups'[s] # {} => backups[s] # {} \/ s <= now'
  BY <1>2, <1>4, <1>8 DEF PublishStolen, BackupInv, TypeInv, TypeOK
<1>10. now <= now' /\ \A i \in Items : version[i] <= version'[i]
  BY <1>2, <1>4
<1>11. NamesOK'
  BY <1>1, <1>2, <1>5, <1>7, <1>9, <1>10, NamesStay DEF BackupInv
<1> QED
  BY <1>2, <1>3, <1>11 DEF BackupOK, Spoiled

LEMMA BackedUpBacked == ASSUME BackupInv, NEW p \in Commands, BackedUp(p) PROVE NamesOK' /\ BackupOK'
<1>1. TypeInv' /\ command[p].at = "unlink" /\ command[p].at \in Backing /\ command[p] \in CommandRow
  BY BackedUpKeeps, NumbersType DEF BackupInv, BackedUp, At, Backing
<1>2. UNCHANGED <<contentVars, fileVars, now>>
  BY DEF BackedUp
<1>3. PICK r : Moves(p, r) /\ (r = Idle \/ r = [command[p] EXCEPT !.at = "delete"])
  BY BackedUpKeeps DEF BackupInv
<1>4. CASE r = Idle
  BY <1>1, <1>2, <1>3, <1>4, IdleNamed, IdleRests, QuietBacked DEF Idle
<1>5. CASE r = [command[p] EXCEPT !.at = "delete"]
  <2>1. r.second = command[p].second /\ r.doomed = command[p].doomed /\ r.at = "delete"
    BY <1>1, <1>5 DEF CommandRow
  <2>2. Named(r)
    BY <1>1, <2>1, GoesNamed DEF BackupInv
  <2>3. ~Spoiled => Rests(p, r)
    BY <1>1, <2>1 DEF BackupInv, BackupOK, Rests, Backing
  <2> QED
    BY <1>1, <1>2, <1>3, <2>1, <2>2, <2>3, QuietBacked
<1> QED
  BY <1>3, <1>4, <1>5

LEMMA DeleteBacked == ASSUME BackupInv, NEW p \in Commands, Delete(p) PROVE NamesOK' /\ BackupOK'
<1>1. TypeInv' /\ Moves(p, Idle)
  BY DeleteKeeps DEF BackupInv
<1>2. /\ UNCHANGED <<version, backups, tmp, collided, robbed, now>> /\ present' \subseteq present
      /\ expired' = expired \cap present'
  BY DEF Delete, fileVars
<1>3. /\ now \in Nat /\ (\A s \in Seconds : s \in Nat) /\ (\A i \in Items : version[i] \in Nat)
  BY NumbersType DEF BackupInv
<1>4. now <= now' /\ \A i \in Items : version[i] <= version'[i]
  BY <1>2, <1>3
<1>5. NamesOK'
  BY <1>1, <1>2, <1>4, IdleNamed, NamesStay DEF BackupInv
<1>6. ExpiredStay /\ \A s \in Files : \E t \in Seconds : t >= s /\ backups'[t] # {}
  BY <1>2, <1>3 DEF ExpiredStay, Files
<1>7. BackupOK'
  <2>1. CASE Spoiled
    BY <1>2, <2>1 DEF BackupOK, Spoiled
  <2>2. CASE ~Spoiled
    BY <1>1, <1>2, <1>6, <2>2, IdleRests, OthersRest DEF BackupInv, Idle
  <2> QED
    BY <2>1, <2>2
<1> QED
  BY <1>5, <1>7

\* The newest file there is, if not older than the one made, is retained by a
\* command that keeps two.
LEMMA NewestRetained ==
  ASSUME BackupInv, NEW p \in Commands, Count[p] > 1, NEW s \in Files, \A t \in Files : t <= s,
         NEW u \in Files, u >= command[p].second
  PROVE  s \in Retained(p)
<1> PICK own : own = command[p].second
  OBVIOUS
<1>1. /\ now \in Nat /\ (\A t \in Seconds : t \in Nat) /\ own \in Seconds /\ Files \subseteq Seconds
  BY NumbersType DEF BackupInv, Files
<1>2. u \in Nat /\ s \in Nat /\ own \in Nat /\ own <= s /\ s <= now
  <2>1. u \in Nat /\ s \in Nat /\ own \in Nat /\ u <= s /\ own <= u
    BY <1>1
  <2>2. s <= now
    BY DEF BackupInv, NamesOK, Files
  <2> QED
    BY <2>1, <2>2
<1>3. CASE s = own
  BY <1>3 DEF Retained
<1>4. CASE s # own
  <2> DEFINE others == {t \in Files \ {own} : Date[t] + Days >= Date[own]}
  <2>1. Date[own] <= Date[s] /\ Date[own] \in Nat /\ Date[s] \in Nat /\ Days \in Nat /\ Count[p] \in Nat
    BY <1>1, <1>2, MaintenanceAssumption DEF Seconds
  <2>2. s \in others
    <3>1. Date[s] + Days >= Date[own] /\ s \in Files \ {own}
      BY <1>4, <2>1
    <3> QED
      BY <3>1
  <2>3. {t \in others : t > s} = {}
    <3>1. ASSUME NEW t \in Files PROVE ~(t > s)
      <4>1. t \in Nat /\ t <= s
        BY <1>1
      <4> QED
        BY <1>2, <4>1
    <3> QED
      BY <3>1
  <2> HIDE DEF others
  <2>4. Cardinality({t \in others : t > s}) < Count[p] - 1
    <3>1. 0 < Count[p] - 1
      BY <2>1
    <3> QED
      BY <2>3, <3>1, FS_EmptySet
  <2>5. s \in Newest(Count[p] - 1, others)
    BY <2>2, <2>4 DEF Newest
  <2> QED
    BY <2>5 DEF Retained, others
<1> QED
  BY <1>3, <1>4

LEMMA ListBacked == ASSUME BackupInv, NEW p \in Commands, List(p) PROVE NamesOK' /\ BackupOK'
<1> PICK r : r = [command[p] EXCEPT !.at = "unlink", !.todo = Files \ Retained(p)]
  OBVIOUS
<1>1. TypeInv' /\ Moves(p, r) /\ command[p].at = "list" /\ command[p].at \in Backing /\ command[p] \in CommandRow
  BY ListKeeps, NumbersType DEF BackupInv, List, At, Backing
<1>2. UNCHANGED <<contentVars, fileVars, now>>
  BY DEF List
<1>3. /\ r.second = command[p].second /\ r.doomed = command[p].doomed /\ r.at = "unlink"
      /\ r.todo = Files \ Retained(p)
  BY <1>1 DEF CommandRow
<1>4. Named(r)
  BY <1>1, <1>3, GoesNamed DEF BackupInv
<1>5. ASSUME ~Spoiled PROVE Rests(p, r)
  <2>1. Rests(p, command[p])
    BY <1>5 DEF BackupInv, BackupOK
  <2>2. PICK u \in Files : u >= command[p].second
    BY <1>1, <2>1 DEF Rests
  <2>3. \A s \in Files : s \in Nat
    BY NumbersType DEF BackupInv, Files
  <2>4. ASSUME NEW s \in Files \ Retained(p) PROVE Outlived(p, r, s)
    <3>1. s # r.second /\ r.second \in Nat /\ Count[p] \in Nat \ {0} /\ s \in Nat
      BY <1>3, <2>3, <2>4, MaintenanceAssumption, NumbersType DEF Retained, BackupInv
    <3>2. CASE Count[p] > 1
      <4> SUFFICES ASSUME \A t \in Files : ~(t > s) PROVE FALSE
        BY DEF Outlived
      <4>1. \A t \in Files : t <= s
        BY <2>3
      <4> QED
        BY <2>2, <2>4, <3>2, <4>1, NewestRetained
    <3>3. CASE Count[p] = 1 /\ ~(s > r.second)
      <4>1. u > s
        BY <1>3, <2>2, <2>3, <3>1, <3>3
      <4> QED
        BY <4>1 DEF Outlived
    <3> QED
      BY <3>1, <3>2, <3>3 DEF Outlived
  <2>5. \A s \in Seconds : s > r.second => \A c \in backups[s] : Good(c)
    BY <1>1, <1>3, <2>1 DEF Rests
  <2>6. (\A c \in backups[r.second] : Good(c)) /\ \E s \in Files : s >= r.second
    BY <1>1, <1>3, <2>1 DEF Rests
  <2> QED
    BY <1>3, <2>4, <2>5, <2>6 DEF Rests
<1> QED
  BY <1>1, <1>2, <1>3, <1>4, <1>5, QuietBacked

LEMMA UnlinkBacked == ASSUME BackupInv, NEW p \in Commands, Unlink(p) PROVE NamesOK' /\ BackupOK'
<1>1. TypeInv' /\ command[p].at = "unlink" /\ command[p].at \in Backing
  BY UnlinkKeeps DEF BackupInv, Unlink, At, Backing
<1>2. UNCHANGED <<present, version, expired, tmp, collided, now>>
  BY DEF Unlink, contentVars
<1>3. /\ now \in Nat /\ (\A s \in Seconds : s \in Nat) /\ (\A i \in Items : version[i] \in Nat)
      /\ command[p].second \in Seconds /\ command[p] \in CommandRow
  BY NumbersType DEF BackupInv
<1>4. PICK s \in command[p].todo :
        /\ s \in Seconds /\ \A t \in command[p].todo : t <= s
        /\ \/ Moves(p, Idle) /\ UNCHANGED <<backups, robbed>>
           \/ /\ Moves(p, [command[p] EXCEPT !.todo = @ \ {s}])
              /\ backups' = [backups EXCEPT ![s] = {}]
              /\ robbed' = (robbed \/ (Count[p] = 1 /\ s > command[p].second))
  BY UnlinkKeeps DEF BackupInv
<1>5. CASE Moves(p, Idle) /\ UNCHANGED <<backups, robbed>>
  <2>1. UNCHANGED <<contentVars, fileVars, now>>
    BY <1>2, <1>5 DEF contentVars, fileVars
  <2> QED
    BY <1>1, <1>5, <2>1, IdleNamed, IdleRests, QuietBacked DEF Idle
<1>6. CASE /\ Moves(p, [command[p] EXCEPT !.todo = @ \ {s}]) /\ backups' = [backups EXCEPT ![s] = {}]
            /\ robbed' = (robbed \/ (Count[p] = 1 /\ s > command[p].second))
  <2> PICK r : r = [command[p] EXCEPT !.todo = @ \ {s}]
    OBVIOUS
  <2>1. /\ Moves(p, r) /\ r.at = "unlink" /\ r.todo = command[p].todo \ {s}
        /\ r.second = command[p].second /\ r.doomed = command[p].doomed
    BY <1>1, <1>3, <1>6 DEF CommandRow
  <2>2. Named(r) /\ Named(r)'
    <3>1. Named(r)
      BY <1>1, <2>1, GoesNamed DEF BackupInv
    <3> QED
      BY <1>2, <3>1 DEF Named
  <2>3. backups'[s] = {} /\ \A t \in Seconds : t # s => backups'[t] = backups[t]
    BY <1>4, <1>6 DEF BackupInv, TypeInv, TypeOK
  <2>4. now <= now' /\ \A i \in Items : version[i] <= version'[i]
    BY <1>2, <1>3
  <2>5. \A t \in Seconds : backups'[t] # {} => backups[t] # {}
    BY <2>3
  <2>6. NamesOK'
    BY <1>1, <1>2, <2>1, <2>2, <2>4, <2>5, NamesStay DEF BackupInv
  <2>7. CASE Spoiled'
    BY <1>2, <2>6, <2>7 DEF BackupOK, Spoiled
  <2>8. CASE ~Spoiled'
    <3>0. ~Spoiled /\ ~(Count[p] = 1 /\ s > command[p].second)
      BY <1>2, <1>6, <2>8 DEF Spoiled
    <3>1. Rests(p, command[p])
      BY <3>0 DEF BackupInv, BackupOK
    <3>2. PICK u \in Files : u > s
      BY <1>1, <1>4, <3>0, <3>1 DEF Rests, Outlived
    <3>3. u \in Seconds /\ u # s /\ backups'[u] # {} /\ \A t \in Seconds : t \in Nat
      BY <1>3, <1>4, <2>3, <3>2 DEF Files
    <3>4. \A t \in Files : \E v \in Seconds : v >= t /\ backups'[v] # {}
      <4> SUFFICES ASSUME NEW t \in Files PROVE \E v \in Seconds : v >= t /\ backups'[v] # {}
        OBVIOUS
      <4>1. CASE t = s
        BY <1>4, <3>2, <3>3, <4>1
      <4>2. CASE t # s
        BY <2>3, <3>3, <4>2 DEF Files
      <4> QED
        BY <4>1, <4>2
    <3>5. \A t \in Seconds : \A c \in backups'[t] : c \in backups[t]
      BY <2>3
    <3>6. Rests(p, r)
      <4>1. \A t \in r.todo : Outlived(p, r, t)
        BY <1>1, <2>1, <3>1 DEF Rests, Outlived
      <4>2. \A t \in Seconds : t > r.second => \A c \in backups[t] : Good(c)
        BY <1>1, <2>1, <3>1 DEF Rests
      <4>3. (\A c \in backups[r.second] : Good(c)) /\ \E t \in Files : t >= r.second
        BY <1>1, <2>1, <3>1 DEF Rests
      <4> QED
        BY <2>1, <4>1, <4>2, <4>3 DEF Rests
    <3>7. r \in CommandRow
      BY <2>1 DEF Moves
    <3>8. Rests(p, r)'
      BY <1>2, <2>1, <3>4, <3>5, <3>6, <3>7, RestsStays DEF BackupInv, ExpiredStay
    <3> QED
      BY <1>2, <2>1, <2>6, <3>0, <3>4, <3>5, <3>8, OthersRest DEF BackupInv, ExpiredStay
  <2> QED
    BY <2>7, <2>8
<1> QED
  BY <1>4, <1>5, <1>6

\* Nothing moves but the contents.
LEMMA TimeBacked == ASSUME BackupInv, NEW i \in Items, Seen(i) \/ Age(i) PROVE NamesOK' /\ BackupOK'
<1>1. TypeInv' /\ UNCHANGED <<backups, tmp, collided, robbed, now, command>>
  BY TimeKeeps DEF BackupInv, Seen, Age, fileVars
<1>2. /\ now \in Nat /\ (\A s \in Seconds : s \in Nat) /\ (\A j \in Items : version[j] \in Nat)
      /\ \A p \in Commands : command[p] \in CommandRow /\ Named(command[p]) /\ (~Spoiled => Rests(p, command[p]))
  BY NumbersType DEF BackupInv, NamesOK, BackupOK
<1>3. ASSUME NEW p \in Commands, NEW r, r = command[p] PROVE Named(r)' /\ (~Spoiled => Rests(p, r)')
  <2>1. CASE Age(i)
    <3>1. r.at = "idle"
      BY <1>3, <2>1 DEF Age, At
    <3> QED
      BY <3>1, NotBacking DEF Backing
  <2>2. CASE Seen(i)
    <3>1. /\ version' = [version EXCEPT ![i] = @ + 1]
          /\ present' = present \cup {i} /\ expired' = expired \ {i} /\ expired \subseteq Items
      BY <2>2 DEF Seen, BackupInv, TypeInv, TypeOK
    <3>2. version'[i] = version[i] + 1 /\ \A j \in Items : j # i => version'[j] = version[j]
      BY <3>1 DEF BackupInv, TypeInv, TypeOK
    <3>3. /\ \A j \in Items : version[j] <= version'[j]
          /\ \A j \in present' : version'[j] = version[j] => j \in present /\ (j \in expired => j \in expired')
      BY <1>2, <3>1, <3>2
    <3>4. ExpiredStay
      BY <3>1, <3>2 DEF ExpiredStay
    <3>5. now <= now' /\ now' = now
      BY <1>1, <1>2
    <3>6. Named(r)'
      BY <1>1, <1>2, <1>3, <3>3, <3>5, NamedStays DEF BackupInv
    <3>7. \A s \in Files : \E t \in Seconds : t >= s /\ backups'[t] # {}
      BY <1>1, <1>2 DEF Files
    <3>8. ~Spoiled => Rests(p, r)'
      BY <1>1, <1>2, <1>3, <3>4, <3>7, RestsStays DEF BackupInv
    <3> QED
      BY <3>6, <3>8
  <2> QED
    BY <2>1, <2>2
<1>4. \A p \in Commands : Named(command[p])' /\ (~Spoiled => Rests(p, command[p])')
  <2> SUFFICES ASSUME NEW p \in Commands PROVE Named(command[p])' /\ (~Spoiled => Rests(p, command[p])')
    OBVIOUS
  <2> PICK r : r = command[p]
    OBVIOUS
  <2>1. Named(r)' /\ (~Spoiled => Rests(p, r)')
    BY <1>3
  <2> QED
    BY <1>1, <2>1 DEF Named, Rests, Outlived
<1> QED
  BY <1>1, <1>4 DEF BackupInv, NamesOK, BackupOK, Spoiled

LEMMA BackupStep == ASSUME BackupInv, [Next]_vars PROVE BackupInv'
<1>1. TypeInv' /\ SchemaOK'
  BY StepKeeps DEF BackupInv
<1>2. ASSUME NEW p \in Commands, Work(p) \/ Crash(p) PROVE NamesOK' /\ BackupOK'
  <2>1. CASE Begin(p) \/ Snapshot(p) \/ PruneSnapshots(p) \/ PruneRaces(p) \/ Apply(p) \/ Other(p) \/ Crash(p)
    BY <2>1, SchemaBacked
  <2>2. CASE Ready(p) \/ Copy(p) \/ Publish(p) \/ PublishStolen(p)
    BY <2>2, ReadyBacked, CopyBacked, PublishBacked, StolenBacked
  <2>3. CASE List(p) \/ Unlink(p) \/ BackedUp(p) \/ Delete(p)
    BY <2>3, ListBacked, UnlinkBacked, BackedUpBacked, DeleteBacked
  <2> QED
    BY <1>2, <2>1, <2>2, <2>3 DEF Work
<1>3. CASE UNCHANGED vars
  <2>1. UNCHANGED <<present, version, expired, backups, tmp, collided, robbed, now, command>>
    BY <1>3 DEF vars, contentVars, fileVars
  <2>2. NamesOK'
    BY <2>1 DEF BackupInv, NamesOK, Named
  <2>3. BackupOK'
    BY <2>1 DEF BackupInv, BackupOK, Spoiled, Rests, Outlived, Good, Files
  <2> QED
    BY <1>1, <2>2, <2>3 DEF BackupInv
<1> QED
  BY <1>1, <1>2, <1>3, TimeBacked DEF Next, BackupInv

\* What a step deletes is, as it was, in a backup that is there.
LEMMA DeletesBackedUp ==
  ASSUME BackupInv, [Next]_vars, ~Spoiled, NEW i \in present \ present'
  PROVE  \E s \in Seconds : \E c \in backups[s] : <<i, version[i]>> \in c
<1>1. PICK p \in Commands : Delete(p)
  <2>1. ~UNCHANGED present
    OBVIOUS
  <2>2. ASSUME NEW j \in Items, Seen(j) PROVE present \subseteq present'
    BY <2>2 DEF Seen
  <2>3. ASSUME NEW p \in Commands, Work(p) \/ Crash(p), ~Delete(p) PROVE UNCHANGED present
    BY <2>3 DEF Work, Begin, Snapshot, PruneSnapshots, PruneRaces, Apply, Other, Ready, Copy, Publish, PublishStolen,
                List, Unlink, BackedUp, Crash, contentVars
  <2>4. ASSUME NEW j \in Items, Age(j) PROVE UNCHANGED present
    BY <2>4 DEF Age
  <2>5. ~UNCHANGED vars
    BY <2>1 DEF vars, contentVars
  <2> QED
    BY <2>1, <2>2, <2>3, <2>4, <2>5 DEF Next
<1>2. command[p].at = "delete" /\ command[p].at \in Backing /\ <<i, version[i]>> \in command[p].doomed
  BY <1>1 DEF Delete, At, Backing
<1>3. i \in expired
  BY <1>2 DEF BackupInv, NamesOK, Named
<1>4. Rests(p, command[p])
  BY DEF BackupInv, BackupOK
<1>5. PICK s \in Files : s >= command[p].second
  BY <1>2, <1>4 DEF Rests
<1>6. s \in Seconds /\ backups[s] # {} /\ s \in Nat /\ command[p].second \in Nat
  BY NumbersType DEF BackupInv, Files
<1>7. \A c \in backups[s] : Good(c)
  BY <1>2, <1>4, <1>5, <1>6 DEF Rests
<1>8. PICK c \in backups[s] : <<i, version[i]>> \in c
  BY <1>3, <1>6, <1>7 DEF Good
<1> QED
  BY <1>6, <1>8

\* Retention deletes nothing that is not, as it was, in a backup: whatever other
\* commands back up, prune and delete, whatever is synchronized, and wherever a
\* command dies, however many files each of them keeps: unless two backups had one
\* name, or a command that keeps one file removed a newer one.  Inductive is that the
\* files of a command's second and of later ones hold what is expired, that one of
\* them is there, and that a file to be unlinked has a later one, or else is newer
\* than the only one its command keeps.
THEOREM BackedUpBeforeDeletionAlways == Spec => BackedUpBeforeDeletion
<1>1. Init => BackupInv
  BY InitType, InitBackup DEF BackupInv
<1>2. BackupInv /\ [Next]_vars => BackupInv'
  BY BackupStep
<1>3. BackupInv /\ [Next]_vars =>
        [collided \/ robbed \/ \A i \in present \ present' :
           \E s \in Seconds : \E c \in backups[s] : <<i, version[i]>> \in c]_vars
  BY DeletesBackedUp DEF Spoiled
<1> QED
  BY <1>1, <1>2, <1>3, PTL DEF Spec, BackedUpBeforeDeletion

=============================================================================
