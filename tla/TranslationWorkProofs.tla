------------------------ MODULE TranslationWorkProofs ------------------------
(***************************************************************************)
(* Proofs about UsageLedger and TranslationWork, for any processes,        *)
(* provider chain, chunks, lengths and limits: the ceilings of the daily   *)
(* budget, the types, what a translations row says about its text, and     *)
(* that the processes which translate implement the ledger.                *)
(***************************************************************************)
EXTENDS TranslationWork, TLAPS

(* The ledger.                                                             *)

\* Counting a request keeps an amount well formed and adds exactly its size.
LEMMA PlusAmount ==
  ASSUME NEW amount \in Amount, NEW chars \in Nat
  PROVE  /\ Plus(amount, chars) \in Amount
         /\ Plus(amount, chars).requests = amount.requests + 1
         /\ Plus(amount, chars).chars = amount.chars + chars
  BY DEF Plus, Amount

\* Only reservations and calls of existing rows happen (usage_daily).
THEOREM LedgerTypeCorrect == LedgerSpec => []LedgerTypeOK
<1>1. LedgerInit => LedgerTypeOK
  BY DEF LedgerInit, LedgerTypeOK, Zero, Amount
<1>2. LedgerTypeOK /\ [LedgerNext]_ledgerVars => LedgerTypeOK'
  <2> SUFFICES ASSUME LedgerTypeOK, [LedgerNext]_ledgerVars PROVE LedgerTypeOK'
    OBVIOUS
  <2>1. ASSUME NEW d \in Days, NEW p \in Providers, NEW chars \in Lengths, Reserve(d, p, chars)
        PROVE  LedgerTypeOK'
    <3>1. chars \in Nat /\ reserved[<<d, p>>] \in Amount
      BY <2>1, LedgerAssumption DEF LedgerTypeOK
    <3>2. Plus(reserved[<<d, p>>], chars) \in Amount
      BY <3>1, PlusAmount
    <3> QED
      BY <2>1, <3>2 DEF Reserve, LedgerTypeOK
  <2>2. ASSUME NEW d \in Days, NEW p \in Providers, NEW chars \in Lengths, Call(d, p, chars)
        PROVE  LedgerTypeOK'
    <3>1. chars \in Nat /\ called[<<d, p>>] \in Amount
      BY <2>2, LedgerAssumption DEF LedgerTypeOK
    <3>2. Plus(called[<<d, p>>], chars) \in Amount
      BY <3>1, PlusAmount
    <3> QED
      BY <2>2, <3>2 DEF Call, LedgerTypeOK
  <2>3. CASE UNCHANGED ledgerVars
    BY <2>3 DEF ledgerVars, LedgerTypeOK
  <2> QED
    BY <2>1, <2>2, <2>3 DEF LedgerNext
<1> QED
  BY <1>1, <1>2, PTL DEF LedgerSpec

\* No day's calls ever exceed the ceilings (reserve_usage before every call).
THEOREM WithinCeilingAlways == LedgerSpec => []WithinCeiling
<1>1. LedgerInit => WithinCeiling
  BY LedgerAssumption DEF LedgerInit, WithinCeiling, Zero
<1>2. LedgerTypeOK /\ WithinCeiling /\ [LedgerNext]_ledgerVars => WithinCeiling'
  <2> SUFFICES ASSUME LedgerTypeOK, WithinCeiling, [LedgerNext]_ledgerVars PROVE WithinCeiling'
    OBVIOUS
  <2>1. ASSUME NEW d \in Days, NEW p \in Providers, NEW chars \in Lengths, Reserve(d, p, chars)
        PROVE  WithinCeiling'
    <3> SUFFICES ASSUME NEW key \in Days \X Providers
                 PROVE  /\ called'[key].requests <= reserved'[key].requests
                        /\ called'[key].chars <= reserved'[key].chars
                        /\ reserved'[key].requests <= MaxRequests
                        /\ reserved'[key].chars <= MaxChars
      BY DEF WithinCeiling
    <3>1. chars \in Nat /\ reserved[<<d, p>>] \in Amount /\ called[key] \in Amount
      BY <2>1, LedgerAssumption DEF LedgerTypeOK
    <3>2. CASE key = <<d, p>>
      <4>1. reserved'[key] = Plus(reserved[<<d, p>>], chars) /\ called'[key] = called[<<d, p>>]
        BY <2>1, <3>2 DEF Reserve, LedgerTypeOK
      <4>2. /\ reserved'[key].requests = reserved[<<d, p>>].requests + 1
            /\ reserved'[key].chars = reserved[<<d, p>>].chars + chars
        BY <3>1, <4>1, PlusAmount
      <4>3. /\ called[<<d, p>>].requests <= reserved[<<d, p>>].requests
            /\ called[<<d, p>>].chars <= reserved[<<d, p>>].chars
        BY DEF WithinCeiling
      <4>4. reserved[<<d, p>>].requests < MaxRequests /\ reserved[<<d, p>>].chars + chars <= MaxChars
        BY <2>1 DEF Reserve, Fits
      <4> QED
        BY <3>1, <3>2, <4>1, <4>2, <4>3, <4>4, LedgerAssumption DEF Amount
    <3>3. CASE key # <<d, p>>
      BY <2>1, <3>3 DEF Reserve, LedgerTypeOK, WithinCeiling
    <3> QED
      BY <3>2, <3>3
  <2>2. ASSUME NEW d \in Days, NEW p \in Providers, NEW chars \in Lengths, Call(d, p, chars)
        PROVE  WithinCeiling'
    <3> SUFFICES ASSUME NEW key \in Days \X Providers
                 PROVE  /\ called'[key].requests <= reserved'[key].requests
                        /\ called'[key].chars <= reserved'[key].chars
                        /\ reserved'[key].requests <= MaxRequests
                        /\ reserved'[key].chars <= MaxChars
      BY DEF WithinCeiling
    <3>1. chars \in Nat /\ called[<<d, p>>] \in Amount /\ reserved[<<d, p>>] \in Amount
      BY <2>2, LedgerAssumption DEF LedgerTypeOK
    <3>2. CASE key = <<d, p>>
      <4>1. called'[key] = Plus(called[<<d, p>>], chars) /\ reserved'[key] = reserved[<<d, p>>]
        BY <2>2, <3>2 DEF Call, LedgerTypeOK
      <4>2. /\ called'[key].requests = called[<<d, p>>].requests + 1
            /\ called'[key].chars = called[<<d, p>>].chars + chars
        BY <3>1, <4>1, PlusAmount
      <4>3. /\ called[<<d, p>>].requests < reserved[<<d, p>>].requests
            /\ called[<<d, p>>].chars + chars <= reserved[<<d, p>>].chars
        BY <2>2 DEF Call
      <4>4. reserved[<<d, p>>].requests <= MaxRequests /\ reserved[<<d, p>>].chars <= MaxChars
        BY DEF WithinCeiling
      <4> QED
        BY <3>1, <4>1, <4>2, <4>3, <4>4 DEF Amount
    <3>3. CASE key # <<d, p>>
      BY <2>2, <3>3 DEF Call, LedgerTypeOK, WithinCeiling
    <3> QED
      BY <3>2, <3>3
  <2>3. CASE UNCHANGED ledgerVars
    BY <2>3 DEF ledgerVars, WithinCeiling
  <2> QED
    BY <2>1, <2>2, <2>3 DEF LedgerNext
<1> QED
  BY <1>1, <1>2, LedgerTypeCorrect, PTL DEF LedgerSpec

\* A reservation is never given back.
THEOREM NeverRefundedAlways == LedgerSpec => NeverRefunded
<1>1. LedgerTypeOK /\ [LedgerNext]_ledgerVars =>
        [\A key \in Days \X Providers :
           /\ reserved'[key].requests >= reserved[key].requests
           /\ reserved'[key].chars >= reserved[key].chars]_ledgerVars
  <2> SUFFICES ASSUME LedgerTypeOK, LedgerNext, NEW key \in Days \X Providers
               PROVE  /\ reserved'[key].requests >= reserved[key].requests
                      /\ reserved'[key].chars >= reserved[key].chars
    OBVIOUS
  <2>1. reserved[key] \in Amount
    BY DEF LedgerTypeOK
  <2>2. ASSUME NEW d \in Days, NEW p \in Providers, NEW chars \in Lengths, Reserve(d, p, chars)
        PROVE  /\ reserved'[key].requests >= reserved[key].requests
               /\ reserved'[key].chars >= reserved[key].chars
    <3>1. chars \in Nat
      BY LedgerAssumption
    <3>2. CASE key = <<d, p>>
      <4>1. reserved'[key] = Plus(reserved[key], chars)
        BY <2>2, <3>2 DEF Reserve, LedgerTypeOK
      <4>2. /\ Plus(reserved[key], chars).requests = reserved[key].requests + 1
            /\ Plus(reserved[key], chars).chars = reserved[key].chars + chars
        BY <2>1, <3>1, PlusAmount
      <4> QED
        BY <2>1, <3>1, <4>1, <4>2 DEF Amount
    <3>3. CASE key # <<d, p>>
      <4>1. reserved'[key] = reserved[key]
        BY <2>2, <3>3 DEF Reserve, LedgerTypeOK
      <4> QED
        BY <2>1, <4>1 DEF Amount
    <3> QED
      BY <3>2, <3>3
  <2>3. ASSUME NEW d \in Days, NEW p \in Providers, NEW chars \in Lengths, Call(d, p, chars)
        PROVE  /\ reserved'[key].requests >= reserved[key].requests
               /\ reserved'[key].chars >= reserved[key].chars
    BY <2>1, <2>3 DEF Call, Amount
  <2> QED
    BY <2>2, <2>3 DEF LedgerNext
<1> QED
  BY <1>1, LedgerTypeCorrect, PTL DEF LedgerSpec, NeverRefunded

-----------------------------------------------------------------------------
(* The processes that translate.                                           *)

\* What the types alone do not say: a process that sends a request it reserved
\* knows the day of the reservation.
TypeInv ==
  /\ TypeOK
  /\ \A w \in Workers : job[w].at = "send" /\ w \in Budgeted => job[w].under \in Days

\* The positions and numbers a job may take.
LEMMA Ranges ==
  /\ 1 \in DOMAIN Chain /\ 1 \in DOMAIN Chunks
  /\ \A i \in DOMAIN Chain : Chain[i] \in Providers /\ (i < Len(Chain) => i + 1 \in DOMAIN Chain)
  /\ \A i \in DOMAIN Chunks : Chunks[i] \in Lengths /\ (i < Len(Chunks) => i + 1 \in DOMAIN Chunks)
<1>1. \A S : \A s \in Seq(S) : s # <<>> =>
        /\ 1 \in DOMAIN s
        /\ \A i \in DOMAIN s : s[i] \in S /\ (i < Len(s) => i + 1 \in DOMAIN s)
  OBVIOUS
<1> QED
  BY <1>1, WorkAssumption

LEMMA OneDay == 1 \in Days
  BY WorkAssumption

LEMMA IdleType == Idle \in JobRow
  BY Ranges, WorkAssumption DEF Idle, JobRow, Texts, Outcomes

LEMMA PlusType ==
  ASSUME NEW a \in Amount, NEW chars \in Lengths PROVE Plus(a, chars) \in Amount
  BY LedgerAssumption DEF Plus, Amount

LEMMA InitType == Init => TypeInv
<1> SUFFICES ASSUME Init PROVE TypeInv
  OBVIOUS
<1>1. LedgerTypeOK
  BY DEF Init, LedgerInit, LedgerTypeOK, Zero, Amount
<1>2. row \in TranslationRow
  BY WorkAssumption DEF Init, NoRow, TranslationRow, Texts, Outcomes
<1>3. published \in 1..MaxTexts /\ etag \in Texts /\ text \in Texts
  BY WorkAssumption DEF Init, Texts
<1> QED
  BY <1>1, <1>2, <1>3, IdleType, OneDay DEF Init, TypeInv, TypeOK, Idle

\* A step of one process that keeps the type of its job.
LEMMA JobType ==
  ASSUME TypeInv, NEW w \in Workers, NEW r \in JobRow, job' = [job EXCEPT ![w] = r],
         r.at = "send" /\ w \in Budgeted => r.under \in Days
  PROVE  /\ job' \in [Workers -> JobRow]
         /\ \A v \in Workers : job'[v].at = "send" /\ v \in Budgeted => job'[v].under \in Days
  BY DEF TypeInv, TypeOK

LEMMA EndsType ==
  ASSUME TypeInv, NEW w \in Workers, Ends(w)
  PROVE  /\ job' \in [Workers -> JobRow]
         /\ \A v \in Workers : job'[v].at = "send" /\ v \in Budgeted => job'[v].under \in Days
<1>1. Idle.at # "send"
  BY DEF Idle
<1> QED
  BY <1>1, IdleType, JobType DEF Ends

LEMMA GotoType ==
  ASSUME TypeInv, NEW w \in Workers, NEW step, Goto(w, step),
         step \in {"match", "store", "feed", "detect", "latest", "begin", "reserve", "save"}
  PROVE  /\ job' \in [Workers -> JobRow]
         /\ \A v \in Workers : job'[v].at = "send" /\ v \in Budgeted => job'[v].under \in Days
<1>1. job[w] \in JobRow
  BY DEF TypeInv, TypeOK
<1>2. [job[w] EXCEPT !.at = step] \in JobRow
  BY <1>1 DEF JobRow
<1>3. job' = [job EXCEPT ![w] = [job[w] EXCEPT !.at = step]]
  BY DEF Goto, TypeInv, TypeOK
<1>4. [job[w] EXCEPT !.at = step].at # "send"
  BY <1>1 DEF JobRow
<1> QED
  BY <1>2, <1>3, <1>4, JobType

LEMMA SyncType ==
  ASSUME TypeInv, NEW w \in Workers,
         NotModified(w) \/ Fetch(w) \/ Match(w) \/ Store(w) \/ FeedDone(w)
  PROVE  TypeInv'
<1> USE DEF feedVars, envVars, ledgerVars
<1>1. job[w] \in JobRow /\ text \in Texts /\ published \in Texts
  BY WorkAssumption DEF TypeInv, TypeOK, Texts
<1>2. CASE NotModified(w)
  BY <1>2 DEF NotModified, vars, TypeInv, TypeOK, LedgerTypeOK
<1>3. CASE Fetch(w)
  <2> DEFINE r == [Idle EXCEPT !.at = "match", !.fetched = published]
  <2>1. r \in JobRow /\ r.at # "send"
    BY <1>1, IdleType DEF JobRow
  <2> QED
    BY <1>3, <2>1, JobType DEF Fetch, TypeInv, TypeOK, LedgerTypeOK
<1>4. CASE Match(w)
  <2> DEFINE r == [job[w] EXCEPT !.at = "store", !.known = text]
  <2>1. r \in JobRow /\ r.at # "send"
    BY <1>1 DEF JobRow
  <2>2. job' = [job EXCEPT ![w] = r]
    BY <1>4 DEF Match, TypeInv, TypeOK
  <2>3. UNCHANGED <<feedVars, text, row, ledgerVars, envVars>>
    BY <1>4 DEF Match
  <2> QED
    BY <2>1, <2>2, <2>3, JobType DEF TypeInv, TypeOK, LedgerTypeOK
<1>5. CASE Store(w)
  <2>1. text' \in Texts
    BY <1>1, <1>5 DEF Store, JobRow
  <2>2. job' \in [Workers -> JobRow]
        /\ \A v \in Workers : job'[v].at = "send" /\ v \in Budgeted => job'[v].under \in Days
    BY <1>5, EndsType, GotoType DEF Store
  <2> QED
    BY <1>5, <2>1, <2>2 DEF Store, TypeInv, TypeOK, LedgerTypeOK
<1>6. CASE FeedDone(w)
  <2>1. etag' \in Texts
    BY <1>1, <1>6 DEF FeedDone, JobRow
  <2> QED
    BY <1>6, <2>1, EndsType DEF FeedDone, TypeInv, TypeOK, LedgerTypeOK
<1> QED
  BY <1>2, <1>3, <1>4, <1>5, <1>6

LEMMA ReturnsType ==
  ASSUME TypeInv, NEW w \in Workers, Returns(w)
  PROVE  /\ job' \in [Workers -> JobRow]
         /\ \A v \in Workers : job'[v].at = "send" /\ v \in Budgeted => job'[v].under \in Days
  BY EndsType, GotoType DEF Returns

LEMMA StartType ==
  ASSUME TypeInv, NEW w \in Workers,
         ListDue(w) \/ Order(w) \/ Detect(w) \/ Latest(w) \/ Begin(w) \/ Save(w)
  PROVE  TypeInv'
<1> USE DEF feedVars, envVars, ledgerVars
<1>1. job[w] \in JobRow /\ text \in Texts /\ row \in TranslationRow
  BY DEF TypeInv, TypeOK
<1>2. CASE ListDue(w)
  BY <1>2, GotoType DEF ListDue, TypeInv, TypeOK, LedgerTypeOK
<1>3. CASE Order(w)
  BY <1>3, GotoType DEF Order, TypeInv, TypeOK, LedgerTypeOK
<1>4. CASE Detect(w)
  <2> DEFINE r == [job[w] EXCEPT !.at = IF w \in Syncs THEN "latest" ELSE "begin", !.art = text]
  <2>1. r \in JobRow /\ r.at # "send"
    BY <1>1 DEF JobRow
  <2>2. job' = [job EXCEPT ![w] = r]
    BY <1>4 DEF Detect, TypeInv, TypeOK
  <2>3. UNCHANGED <<feedVars, text, row, ledgerVars, envVars>>
    BY <1>4 DEF Detect
  <2> QED
    BY <2>1, <2>2, <2>3, JobType DEF TypeInv, TypeOK, LedgerTypeOK
<1>5. CASE Latest(w)
  BY <1>5, GotoType, ReturnsType DEF Latest, TypeInv, TypeOK, LedgerTypeOK
<1>6. CASE Begin(w)
  <2>1. AttemptsSoFar(w) \in Nat
    BY <1>1 DEF AttemptsSoFar, TranslationRow
  <2> DEFINE r == [job[w] EXCEPT !.at = "reserve", !.base = AttemptsSoFar(w),
                                 !.provider = 1, !.chunk = 1]
  <2>2. r \in JobRow /\ r.at # "send"
    BY <1>1, <2>1, Ranges DEF JobRow
  <2>3. job' = [job EXCEPT ![w] = r]
    BY <1>6 DEF Begin, TypeInv, TypeOK
  <2>4. row' \in TranslationRow
    BY <1>1, <1>6, <2>1, WorkAssumption DEF Begin, TranslationRow, JobRow, Texts, Outcomes
  <2>5. UNCHANGED <<feedVars, text, ledgerVars, envVars>>
    BY <1>6 DEF Begin
  <2> QED
    BY <2>2, <2>3, <2>4, <2>5, JobType DEF TypeInv, TypeOK, LedgerTypeOK
<1>7. CASE Save(w)
  <2>1. IsTerminal(w) \in BOOLEAN
    BY DEF IsTerminal
  <2>2. row' \in TranslationRow
    BY <1>1, <1>7, <2>1, WorkAssumption DEF Save, Source, TranslationRow, JobRow, Texts, Outcomes
  <2> QED
    BY <1>7, <2>2, ReturnsType DEF Save, TypeInv, TypeOK, LedgerTypeOK
<1> QED
  BY <1>2, <1>3, <1>4, <1>5, <1>6, <1>7

\* With the current key of the ledger a job may only be in its range.
LEMMA KeyType ==
  ASSUME TypeInv, NEW w \in Workers
  PROVE  Name(w) \in Providers /\ Length(w) \in Lengths
  BY Ranges DEF TypeInv, TypeOK, JobRow, Name, Length

LEMMA DecideType ==
  ASSUME TypeInv, NEW w \in Workers, NEW outcome \in Outcomes, Decide(w, outcome)
  PROVE  /\ job' \in [Workers -> JobRow]
         /\ \A v \in Workers : job'[v].at = "send" /\ v \in Budgeted => job'[v].under \in Days
<1> DEFINE r == [job[w] EXCEPT !.at = "save", !.outcome = outcome]
<1>1. r \in JobRow /\ r.at # "send"
  BY DEF TypeInv, TypeOK, JobRow
<1>2. job' = [job EXCEPT ![w] = r]
  BY DEF Decide, TypeInv, TypeOK
<1> QED
  BY <1>1, <1>2, JobType

LEMMA ReserveType ==
  ASSUME TypeInv, NEW w \in Workers, ReserveDay(w) \/ ReserveRun(w)
  PROVE  TypeInv'
<1> USE DEF feedVars, envVars, ledgerVars
<1>1. job[w] \in JobRow /\ day \in Days
  BY DEF TypeInv, TypeOK
<1>2. CASE ReserveDay(w) /\ Reserve(day, Name(w), Length(w))
  <2> DEFINE r == [job[w] EXCEPT !.at = "send", !.under = day]
  <2>1. r \in JobRow /\ r.under \in Days
    BY <1>1 DEF JobRow
  <2>2. CASE job' = [job EXCEPT ![w].at = "send", ![w].under = day]
    <3>1. job' = [job EXCEPT ![w] = r]
      BY <2>2 DEF TypeInv, TypeOK
    <3>2. LedgerTypeOK'
      BY <1>1, <1>2, KeyType, PlusType DEF Reserve, TypeInv, TypeOK, LedgerTypeOK
    <3> QED
      BY <1>2, <2>1, <3>1, <3>2, JobType DEF ReserveDay, TypeInv, TypeOK
  <2> QED
    BY <1>2, <2>2 DEF ReserveDay, Reserve
<1>3. CASE ReserveDay(w) /\ Decide(w, "exhausted") /\ UNCHANGED ledgerVars
  BY <1>3, DecideType DEF ReserveDay, Outcomes, TypeInv, TypeOK, LedgerTypeOK
<1>4. CASE ReserveRun(w) /\ Ends(w)
  BY <1>4, EndsType DEF ReserveRun, TypeInv, TypeOK, LedgerTypeOK
<1>5. CASE ReserveRun(w) /\ ~Ends(w)
  <2> DEFINE r == [job[w] EXCEPT !.at = "send", !.spent = IF w \in Orders THEN @ + 1 ELSE 0]
  <2>1. w \notin Budgeted /\ (w \in Orders => job[w].spent < RunRequests)
    BY <1>5 DEF ReserveRun
  <2>2. r \in JobRow
    <3>1. job[w].spent \in 0..RunRequests /\ RunRequests \in Nat
      BY <1>1, WorkAssumption DEF JobRow
    <3>2. (IF w \in Orders THEN job[w].spent + 1 ELSE 0) \in 0..RunRequests
      BY <2>1, <3>1
    <3> QED
      BY <1>1, <3>2 DEF JobRow
  <2>3. job' = [job EXCEPT ![w] = r]
    BY <1>5 DEF ReserveRun, TypeInv, TypeOK
  <2> QED
    BY <1>5, <2>1, <2>2, <2>3, JobType DEF ReserveRun, TypeInv, TypeOK, LedgerTypeOK
<1>6. ASSUME ReserveDay(w)
      PROVE  \/ Reserve(day, Name(w), Length(w))
             \/ Decide(w, "exhausted") /\ UNCHANGED ledgerVars
  BY <1>6 DEF ReserveDay
<1> QED
  BY <1>2, <1>3, <1>4, <1>5, <1>6

LEMMA SendType ==
  ASSUME TypeInv, NEW w \in Workers, Answers(w) \/ Fails(w)
  PROVE  TypeInv'
<1> USE DEF feedVars, envVars, ledgerVars
<1>1. job[w] \in JobRow
  BY DEF TypeInv, TypeOK
<1>2. LedgerTypeOK'
  <2>1. Crosses(w) /\ job[w].at = "send"
    BY DEF Answers, Fails, At
  <2>2. CASE w \in Budgeted
    <3>1. job[w].under \in Days
      BY <2>1, <2>2 DEF TypeInv
    <3> QED
      BY <2>1, <2>2, <3>1, KeyType, PlusType DEF Crosses, TypeInv, TypeOK, LedgerTypeOK
  <2>3. CASE w \notin Budgeted
    BY <2>1, <2>3 DEF Crosses, TypeInv, TypeOK, LedgerTypeOK
  <2> QED
    BY <2>2, <2>3
<1>3. \/ \E outcome \in Outcomes : Decide(w, outcome)
      \/ Answers(w) /\ job[w].chunk < Len(Chunks)
           /\ job' = [job EXCEPT ![w].at = "reserve", ![w].chunk = @ + 1]
      \/ Fails(w) /\ job[w].provider < Len(Chain)
           /\ job' = [job EXCEPT ![w].at = "reserve", ![w].provider = @ + 1, ![w].chunk = 1]
  BY DEF Answers, Fails, Outcomes
<1>4. CASE \E outcome \in Outcomes : Decide(w, outcome)
  BY <1>2, <1>4, DecideType DEF Answers, Fails, TypeInv, TypeOK
<1>5. CASE Answers(w) /\ job[w].chunk < Len(Chunks)
           /\ job' = [job EXCEPT ![w].at = "reserve", ![w].chunk = @ + 1]
  <2> DEFINE r == [job[w] EXCEPT !.at = "reserve", !.chunk = @ + 1]
  <2>1. r \in JobRow /\ r.at # "send"
    BY <1>1, <1>5, Ranges DEF JobRow
  <2>2. job' = [job EXCEPT ![w] = r]
    BY <1>5 DEF TypeInv, TypeOK
  <2> QED
    BY <1>2, <1>5, <2>1, <2>2, JobType DEF Answers, TypeInv, TypeOK
<1>6. CASE Fails(w) /\ job[w].provider < Len(Chain)
           /\ job' = [job EXCEPT ![w].at = "reserve", ![w].provider = @ + 1, ![w].chunk = 1]
  <2> DEFINE r == [job[w] EXCEPT !.at = "reserve", !.provider = @ + 1, !.chunk = 1]
  <2>1. r \in JobRow /\ r.at # "send"
    BY <1>1, <1>6, Ranges DEF JobRow
  <2>2. job' = [job EXCEPT ![w] = r]
    BY <1>6 DEF TypeInv, TypeOK
  <2> QED
    BY <1>2, <1>6, <2>1, <2>2, JobType DEF Fails, TypeInv, TypeOK
<1> QED
  BY <1>3, <1>4, <1>5, <1>6

LEMMA EnvironmentType ==
  ASSUME TypeInv, Publish \/ BackoffEnds \/ Midnight \/ UNCHANGED vars \/ \E w \in Workers : Crash(w)
  PROVE  TypeInv'
<1> USE DEF feedVars, envVars, ledgerVars
<1>1. CASE Publish
  BY <1>1, WorkAssumption DEF Publish, TypeInv, TypeOK, LedgerTypeOK
<1>2. CASE BackoffEnds
  <2>1. row' \in TranslationRow
    BY <1>2 DEF BackoffEnds, TypeInv, TypeOK, TranslationRow
  <2> QED
    BY <1>2, <2>1 DEF BackoffEnds, TypeInv, TypeOK, LedgerTypeOK
<1>3. CASE Midnight
  BY <1>3 DEF Midnight, TypeInv, TypeOK, LedgerTypeOK
<1>4. CASE UNCHANGED vars
  BY <1>4 DEF vars, TypeInv, TypeOK, LedgerTypeOK
<1>5. ASSUME NEW w \in Workers, Crash(w) PROVE TypeInv'
  BY <1>5, EndsType DEF Crash, TypeInv, TypeOK, LedgerTypeOK
<1> QED
  BY <1>1, <1>2, <1>3, <1>4, <1>5

LEMMA StepType == TypeInv /\ [Next]_vars => TypeInv'
  BY SyncType, StartType, ReserveType, SendType, EnvironmentType DEF Next, Work, Translate

\* Types hold for any processes, providers, chunks and limits.
THEOREM TypeCorrect == Spec => []TypeOK
<1>1. TypeInv => TypeOK
  BY DEF TypeInv
<1> QED
  BY <1>1, InitType, StepType, PTL DEF Spec

LEMMA TypeInvAlways == Spec => []TypeInv
  BY InitType, StepType, PTL DEF Spec

-----------------------------------------------------------------------------
(* What a row says of its text.                                            *)

\* Every write of the row keeps what it shows and what it is filed under together:
\* Begin shows nothing, Save has one text for both.
LEMMA RowWrites ==
  ASSUME [Next]_vars
  PROVE  \/ row' = row
         \/ row'.status # "succeeded"
         \/ row'.shows = row'.source
<1> USE DEF feedVars, envVars, ledgerVars
<1>1. ASSUME NEW w \in Workers,
             \/ NotModified(w) \/ Fetch(w) \/ Match(w) \/ Store(w) \/ FeedDone(w)
             \/ ListDue(w) \/ Order(w) \/ Crash(w) \/ Detect(w) \/ Latest(w)
             \/ ReserveDay(w) \/ ReserveRun(w) \/ Answers(w) \/ Fails(w)
      PROVE  row' = row
  BY <1>1 DEF NotModified, vars, Fetch, Match, Store, FeedDone, ListDue, Order, Crash, Detect,
              Latest, ReserveDay, ReserveRun, Answers, Fails
<1>2. ASSUME NEW w \in Workers, Begin(w) PROVE row'.status # "succeeded"
  BY <1>2 DEF Begin
<1>3. ASSUME NEW w \in Workers, Save(w)
      PROVE  row'.status # "succeeded" \/ row'.shows = row'.source
  BY <1>3 DEF Save, Source
<1>4. CASE Publish \/ Midnight \/ UNCHANGED vars
  BY <1>4 DEF Publish, Midnight, vars
<1>5. CASE BackoffEnds
  <2>1. row.status = "failed" /\ row' = [row EXCEPT !.due = TRUE]
    BY <1>5 DEF BackoffEnds
  <2> QED
    BY <2>1
<1> QED
  BY <1>1, <1>2, <1>3, <1>4, <1>5 DEF Next, Work, Translate

\* A translation that is shown is the translation of the text it is filed under, however
\* many syncs, retries and commands translate the article at once, whichever of them
\* saves last and whatever the feed serves meanwhile.
THEOREM AttributedAlways == Spec => []Attributed
<1>1. Init => Attributed
  BY DEF Init, NoRow, Attributed
<1>2. Attributed /\ [Next]_vars => Attributed'
  BY RowWrites DEF Attributed
<1> QED
  BY <1>1, <1>2, PTL DEF Spec

-----------------------------------------------------------------------------
(* The processes implement the ledger.                                     *)

\* The sum of f over each set of processes, as a function of the set.
IsMeasure(m, f) ==
  /\ m \in [SUBSET Workers -> Nat] /\ m[{}] = 0
  /\ \A S \in SUBSET Workers : \A w \in Workers \ S : m[S \cup {w}] = m[S] + f[w]

\* What is used and what the processes still hold is there.
Covered(f, used, available) ==
  \E m : IsMeasure(m, f) /\ used + m[Workers] <= available

\* One process holds something else than before.
LEMMA MeasureMoves ==
  ASSUME NEW f \in [Workers -> Nat], NEW m, IsMeasure(m, f), NEW w \in Workers, NEW x \in Nat
  PROVE  \E n : /\ IsMeasure(n, [f EXCEPT ![w] = x])
                /\ n[Workers] + f[w] = m[Workers] + x
<1> DEFINE g == [f EXCEPT ![w] = x]
           n == [S \in SUBSET Workers |-> IF w \in S THEN m[S \ {w}] + x ELSE m[S]]
<1>1. n \in [SUBSET Workers -> Nat] /\ n[{}] = 0
  BY DEF IsMeasure
<1>2. ASSUME NEW S \in SUBSET Workers, NEW v \in Workers \ S
      PROVE  n[S \cup {v}] = n[S] + g[v]
  <2>1. m[S] \in Nat /\ m[S \ {w}] \in Nat /\ S \cup {v} \in SUBSET Workers
    BY DEF IsMeasure
  <2>2. CASE v = w
    <3>1. (S \cup {v}) \ {w} = S /\ w \notin S
      BY <2>2
    <3>2. n[S \cup {v}] = m[S] + x /\ n[S] = m[S] /\ g[v] = x
      BY <2>1, <2>2, <3>1
    <3> QED
      BY <3>2
  <2>3. CASE v # w /\ w \in S
    <3>1. (S \cup {v}) \ {w} = (S \ {w}) \cup {v} /\ v \notin S \ {w}
      BY <2>3
    <3>2. m[(S \ {w}) \cup {v}] = m[S \ {w}] + f[v]
      BY <3>1 DEF IsMeasure
    <3>3. n[S \cup {v}] = m[S \ {w}] + f[v] + x /\ n[S] = m[S \ {w}] + x /\ g[v] = f[v]
      BY <2>1, <2>3, <3>1, <3>2
    <3>4. f[v] \in Nat
      OBVIOUS
    <3> QED
      BY <2>1, <3>3, <3>4
  <2>4. CASE v # w /\ w \notin S
    <3>1. m[S \cup {v}] = m[S] + f[v]
      BY DEF IsMeasure
    <3>2. n[S \cup {v}] = m[S \cup {v}] /\ n[S] = m[S] /\ g[v] = f[v]
      BY <2>1, <2>4
    <3> QED
      BY <3>1, <3>2
  <2> QED
    BY <2>2, <2>3, <2>4
<1>3. n[Workers] + f[w] = m[Workers] + x
  <2> DEFINE R == Workers \ {w}
  <2>1. R \in SUBSET Workers /\ w \notin R /\ R \cup {w} = Workers
    OBVIOUS
  <2>2. m[Workers] = m[R] + f[w] /\ m[R] \in Nat
    BY <2>1 DEF IsMeasure
  <2>3. n[Workers] = m[R] + x
    OBVIOUS
  <2>4. f[w] \in Nat
    OBVIOUS
  <2> HIDE DEF n, R
  <2> QED
    BY <2>2, <2>3, <2>4
<1> HIDE DEF n
<1> QED
  BY <1>1, <1>2, <1>3 DEF IsMeasure

LEMMA CoveredMoves ==
  ASSUME NEW f \in [Workers -> Nat], NEW w \in Workers, NEW x \in Nat,
         NEW used \in Nat, NEW available \in Nat, NEW used2 \in Nat, NEW available2 \in Nat,
         Covered(f, used, available), used2 + x + available <= used + f[w] + available2
  PROVE  Covered([f EXCEPT ![w] = x], used2, available2)
<1>1. PICK m : IsMeasure(m, f) /\ used + m[Workers] <= available
  BY DEF Covered
<1>2. PICK n : IsMeasure(n, [f EXCEPT ![w] = x]) /\ n[Workers] + f[w] = m[Workers] + x
  BY <1>1, MeasureMoves
<1>3. m[Workers] \in Nat /\ n[Workers] \in Nat /\ f[w] \in Nat
  BY <1>1, <1>2 DEF IsMeasure
<1>4. used2 + n[Workers] <= available2
  BY <1>1, <1>2, <1>3
<1> QED
  BY <1>2, <1>4 DEF Covered

LEMMA CoveredOne ==
  ASSUME NEW f \in [Workers -> Nat], NEW w \in Workers,
         NEW used \in Nat, NEW available \in Nat, Covered(f, used, available)
  PROVE  used + f[w] <= available
<1>1. PICK m : IsMeasure(m, f) /\ used + m[Workers] <= available
  BY DEF Covered
<1> DEFINE R == Workers \ {w}
<1>2. R \in SUBSET Workers /\ w \notin R /\ R \cup {w} = Workers
  OBVIOUS
<1>3. m[Workers] = m[R] + f[w] /\ m[R] \in Nat /\ f[w] \in Nat
  BY <1>1, <1>2 DEF IsMeasure
<1> QED
  BY <1>1, <1>3

\* A process that reserved for this day and provider, and has not sent it yet.
Holds(w, key) ==
  w \in Budgeted /\ job[w].at = "send" /\ key = <<job[w].under, Name(w)>>

HeldRequests(key) == [w \in Workers |-> IF Holds(w, key) THEN 1 ELSE 0]
HeldChars(key)    == [w \in Workers |-> IF Holds(w, key) THEN Length(w) ELSE 0]

\* What the processes of serve hold is still free in the day's row, whatever died
\* with a reservation.
CallsReserved ==
  \A key \in Days \X Providers :
    /\ Covered(HeldRequests(key), called[key].requests, reserved[key].requests)
    /\ Covered(HeldChars(key), called[key].chars, reserved[key].chars)

\* What a step does to the counters and to the process that takes it: it holds
\* nothing afterwards, it reserves, or it calls the provider.
Lets(w) ==
  /\ UNCHANGED ledgerVars
  /\ \E r : job' = [job EXCEPT ![w] = r] /\ ~(w \in Budgeted /\ r.at = "send")
Takes(w) ==
  /\ w \in Budgeted /\ job[w].at = "reserve"
  /\ Reserve(day, Name(w), Length(w))
  /\ job' = [job EXCEPT ![w] = [job[w] EXCEPT !.at = "send", !.under = day]]
Sends(w) ==
  /\ job[w].at = "send" /\ Crosses(w)
  /\ \E r : job' = [job EXCEPT ![w] = r] /\ r.at # "send"

LEMMA SendSteps ==
  ASSUME TypeInv, NEW w \in Workers, Answers(w) \/ Fails(w) PROVE Sends(w)
<1>1. job[w] \in JobRow /\ job \in [Workers -> JobRow]
  BY DEF TypeInv, TypeOK
<1>2. \/ \E outcome : job' = [job EXCEPT ![w] = [job[w] EXCEPT !.at = "save", !.outcome = outcome]]
      \/ job' = [job EXCEPT ![w] = [job[w] EXCEPT !.at = "reserve", !.chunk = @ + 1]]
      \/ job' = [job EXCEPT ![w] = [job[w] EXCEPT !.at = "reserve", !.provider = @ + 1, !.chunk = 1]]
  BY <1>1 DEF Answers, Fails, Decide
<1>3. job[w].at = "send" /\ Crosses(w)
  BY DEF Answers, Fails, At
<1>4. \E r : job' = [job EXCEPT ![w] = r] /\ r.at # "send"
  <2>1. \A outcome : [job[w] EXCEPT !.at = "save", !.outcome = outcome].at # "send"
    BY <1>1 DEF JobRow
  <2>2. /\ [job[w] EXCEPT !.at = "reserve", !.chunk = @ + 1].at # "send"
        /\ [job[w] EXCEPT !.at = "reserve", !.provider = @ + 1, !.chunk = 1].at # "send"
    BY <1>1 DEF JobRow
  <2>3. ASSUME NEW r, job' = [job EXCEPT ![w] = r], r.at # "send"
        PROVE  \E q : job' = [job EXCEPT ![w] = q] /\ q.at # "send"
    BY <2>3
  <2> QED
    BY <1>2, <2>1, <2>2, <2>3
<1> QED
  BY <1>3, <1>4 DEF Sends

LEMMA LetSteps ==
  ASSUME TypeInv, NEW w \in Workers,
         \/ Fetch(w) \/ Match(w) \/ Store(w) \/ FeedDone(w)
         \/ ListDue(w) \/ Order(w) \/ Crash(w) \/ Detect(w) \/ Latest(w) \/ Begin(w)
         \/ ReserveRun(w) \/ Save(w)
  PROVE  Lets(w)
<1> USE DEF Lets
<1>1. job[w] \in JobRow /\ job \in [Workers -> JobRow]
  BY DEF TypeInv, TypeOK
<1>2. Idle.at # "send" /\ [Idle EXCEPT !.at = "match", !.fetched = published].at # "send"
  BY DEF Idle
<1>3. Ends(w) /\ UNCHANGED ledgerVars => Lets(w)
  BY <1>2 DEF Ends
<1>4. ASSUME NEW step, Goto(w, step), step # "send", UNCHANGED ledgerVars PROVE Lets(w)
  <2>1. job' = [job EXCEPT ![w] = [job[w] EXCEPT !.at = step]]
    BY <1>1, <1>4 DEF Goto
  <2>2. [job[w] EXCEPT !.at = step].at # "send"
    BY <1>1, <1>4 DEF JobRow
  <2> QED
    BY <1>4, <2>1, <2>2
<1>5. Returns(w) /\ UNCHANGED ledgerVars => Lets(w)
  BY <1>3, <1>4 DEF Returns
<1>6. CASE Fetch(w)
  BY <1>2, <1>6 DEF Fetch
<1>7. CASE Match(w) \/ Detect(w) \/ Begin(w)
  <2>1. PICK r \in {[job[w] EXCEPT !.at = "store", !.known = text],
                    [job[w] EXCEPT !.at = IF w \in Syncs THEN "latest" ELSE "begin", !.art = text],
                    [job[w] EXCEPT !.at = "reserve", !.base = AttemptsSoFar(w),
                                   !.provider = 1, !.chunk = 1]} :
             job' = [job EXCEPT ![w] = r]
    BY <1>1, <1>7 DEF Match, Detect, Begin
  <2>2. r.at # "send"
    BY <1>1 DEF JobRow
  <2>3. UNCHANGED ledgerVars
    BY <1>7 DEF Match, Detect, Begin
  <2> QED
    BY <2>1, <2>2, <2>3
<1>8. CASE Store(w) \/ FeedDone(w) \/ ListDue(w) \/ Order(w) \/ Crash(w)
  <2>1. UNCHANGED ledgerVars /\ (Ends(w) \/ \E step \in {"detect", "feed"} : Goto(w, step))
    BY <1>8 DEF Store, FeedDone, ListDue, Order, Crash
  <2> QED
    BY <1>3, <1>4, <2>1
<1>9. CASE Latest(w) \/ Save(w)
  <2>1. UNCHANGED ledgerVars /\ (Returns(w) \/ Goto(w, "begin"))
    BY <1>9 DEF Latest, Save
  <2> QED
    BY <1>4, <1>5, <2>1
<1>10. CASE ReserveRun(w)
  <2>1. w \notin Budgeted /\ UNCHANGED ledgerVars
    BY <1>10 DEF ReserveRun
  <2>2. \E r : job' = [job EXCEPT ![w] = r]
    BY <1>1, <1>10 DEF ReserveRun, Ends
  <2> QED
    BY <2>1, <2>2
<1> QED
  BY <1>6, <1>7, <1>8, <1>9, <1>10

LEMMA LedgerSteps ==
  ASSUME TypeInv, [Next]_vars
  PROVE  UNCHANGED <<ledgerVars, job>> \/ \E w \in Workers : Lets(w) \/ Takes(w) \/ Sends(w)
<1>1. ASSUME NEW w \in Workers, ReserveDay(w) PROVE Lets(w) \/ Takes(w)
  <2>1. job[w] \in JobRow /\ job \in [Workers -> JobRow]
    BY DEF TypeInv, TypeOK
  <2>2. CASE Reserve(day, Name(w), Length(w)) /\ job' = [job EXCEPT ![w].at = "send", ![w].under = day]
    BY <1>1, <2>1, <2>2 DEF ReserveDay, At, Takes
  <2>3. CASE Decide(w, "exhausted") /\ UNCHANGED ledgerVars
    <3>1. job' = [job EXCEPT ![w] = [job[w] EXCEPT !.at = "save", !.outcome = "exhausted"]]
      BY <2>1, <2>3 DEF Decide
    <3>2. [job[w] EXCEPT !.at = "save", !.outcome = "exhausted"].at # "send"
      BY <2>1 DEF JobRow
    <3> QED
      BY <2>3, <3>1, <3>2 DEF Lets
  <2> QED
    BY <1>1, <2>2, <2>3 DEF ReserveDay
<1>2. CASE Publish \/ BackoffEnds \/ Midnight \/ UNCHANGED vars
  BY <1>2 DEF Publish, BackoffEnds, Midnight, vars
<1>3. ASSUME NEW w \in Workers, NotModified(w) PROVE UNCHANGED <<ledgerVars, job>>
  BY <1>3 DEF NotModified, vars
<1> QED
  BY <1>1, <1>2, <1>3, SendSteps, LetSteps DEF Next, Work, Translate

\* Only what the moving process holds changes.
LEMMA HeldMoves ==
  ASSUME TypeInv, NEW w \in Workers, NEW r, job' = [job EXCEPT ![w] = r], NEW key
  PROVE  /\ HeldRequests(key)' = [HeldRequests(key) EXCEPT ![w] = HeldRequests(key)'[w]]
         /\ HeldChars(key)' = [HeldChars(key) EXCEPT ![w] = HeldChars(key)'[w]]
<1>1. \A v \in Workers : v # w => job'[v] = job[v]
  BY DEF TypeInv, TypeOK
<1>2. \A v \in Workers : v # w => Holds(v, key)' = Holds(v, key) /\ Length(v)' = Length(v)
  BY <1>1 DEF Holds, Name, Length
<1> QED
  BY <1>2 DEF HeldRequests, HeldChars

LEMMA HeldTypes ==
  ASSUME TypeInv, NEW key
  PROVE  HeldRequests(key) \in [Workers -> Nat] /\ HeldChars(key) \in [Workers -> Nat]
  BY KeyType, LedgerAssumption DEF HeldRequests, HeldChars

LEMMA HeldTypesNext ==
  ASSUME TypeInv', NEW w \in Workers, NEW key
  PROVE  HeldRequests(key)'[w] \in Nat /\ HeldChars(key)'[w] \in Nat
<1>1. Length(w)' \in Nat
  BY Ranges, LedgerAssumption DEF TypeInv, TypeOK, JobRow, Length
<1> QED
  BY <1>1 DEF HeldRequests, HeldChars

\* What w calls and holds more than before is reserved more than before.
Balances(w, key) ==
  /\ called'[key].requests + HeldRequests(key)'[w] + reserved[key].requests
       <= called[key].requests + HeldRequests(key)[w] + reserved'[key].requests
  /\ called'[key].chars + HeldChars(key)'[w] + reserved[key].chars
       <= called[key].chars + HeldChars(key)[w] + reserved'[key].chars

\* The step of one process that balances keeps what is held covered.
LEMMA CoverStep ==
  ASSUME TypeInv, TypeInv', CallsReserved, NEW w \in Workers, NEW r, job' = [job EXCEPT ![w] = r],
         NEW key \in Days \X Providers, Balances(w, key)
  PROVE  /\ Covered(HeldRequests(key)', called'[key].requests, reserved'[key].requests)
         /\ Covered(HeldChars(key)', called'[key].chars, reserved'[key].chars)
<1>1. /\ called[key] \in Amount /\ reserved[key] \in Amount
      /\ called'[key] \in Amount /\ reserved'[key] \in Amount
  BY DEF TypeInv, TypeOK, LedgerTypeOK
<1>2. /\ HeldRequests(key) \in [Workers -> Nat] /\ HeldChars(key) \in [Workers -> Nat]
      /\ HeldRequests(key)'[w] \in Nat /\ HeldChars(key)'[w] \in Nat
  BY HeldTypes, HeldTypesNext
<1>3. /\ HeldRequests(key)' = [HeldRequests(key) EXCEPT ![w] = HeldRequests(key)'[w]]
      /\ HeldChars(key)' = [HeldChars(key) EXCEPT ![w] = HeldChars(key)'[w]]
  BY HeldMoves
<1>4. /\ called[key].requests \in Nat /\ called[key].chars \in Nat
      /\ reserved[key].requests \in Nat /\ reserved[key].chars \in Nat
      /\ called'[key].requests \in Nat /\ called'[key].chars \in Nat
      /\ reserved'[key].requests \in Nat /\ reserved'[key].chars \in Nat
  BY <1>1 DEF Amount
<1>5. Covered([HeldRequests(key) EXCEPT ![w] = HeldRequests(key)'[w]], called'[key].requests, reserved'[key].requests)
  BY <1>2, <1>4, CoveredMoves DEF CallsReserved, Balances
<1>6. Covered([HeldChars(key) EXCEPT ![w] = HeldChars(key)'[w]], called'[key].chars, reserved'[key].chars)
  BY <1>2, <1>4, CoveredMoves DEF CallsReserved, Balances
<1> QED
  BY <1>3, <1>5, <1>6

LEMMA LetsKeep ==
  ASSUME TypeInv, TypeInv', CallsReserved, NEW w \in Workers, Lets(w)
  PROVE  CallsReserved'
<1>1. PICK r : job' = [job EXCEPT ![w] = r] /\ ~(w \in Budgeted /\ r.at = "send")
  BY DEF Lets
<1> SUFFICES ASSUME NEW key \in Days \X Providers
             PROVE  /\ Covered(HeldRequests(key)', called'[key].requests, reserved'[key].requests)
                    /\ Covered(HeldChars(key)', called'[key].chars, reserved'[key].chars)
  BY DEF CallsReserved
<1>2. called' = called /\ reserved' = reserved
  BY DEF Lets, ledgerVars
<1>3. ~Holds(w, key)'
  BY <1>1 DEF Holds, TypeInv, TypeOK
<1>4. HeldRequests(key)'[w] = 0 /\ HeldChars(key)'[w] = 0
  BY <1>3 DEF HeldRequests, HeldChars
<1>5. HeldRequests(key)[w] \in Nat /\ HeldChars(key)[w] \in Nat
  BY HeldTypes
<1>6. /\ called[key].requests \in Nat /\ called[key].chars \in Nat
      /\ reserved[key].requests \in Nat /\ reserved[key].chars \in Nat
  BY DEF TypeInv, TypeOK, LedgerTypeOK, Amount
<1>7. Balances(w, key)
  BY <1>2, <1>4, <1>5, <1>6 DEF Balances
<1> QED
  BY <1>1, <1>7, CoverStep

LEMMA TakesKeep ==
  ASSUME TypeInv, TypeInv', CallsReserved, NEW w \in Workers, Takes(w)
  PROVE  CallsReserved'
<1>1. job' = [job EXCEPT ![w] = [job[w] EXCEPT !.at = "send", !.under = day]]
  BY DEF Takes
<1> SUFFICES ASSUME NEW key \in Days \X Providers
             PROVE  /\ Covered(HeldRequests(key)', called'[key].requests, reserved'[key].requests)
                    /\ Covered(HeldChars(key)', called'[key].chars, reserved'[key].chars)
  BY DEF CallsReserved
<1> DEFINE mine == <<day, Name(w)>>
<1>2. /\ called' = called
      /\ reserved' = [reserved EXCEPT ![mine] = Plus(reserved[mine], Length(w))]
  BY DEF Takes, Reserve
<1>3. /\ called[key].requests \in Nat /\ called[key].chars \in Nat
      /\ reserved[key] \in Amount
      /\ reserved[key].requests \in Nat /\ reserved[key].chars \in Nat
      /\ Length(w) \in Nat /\ mine \in Days \X Providers
  BY KeyType, LedgerAssumption DEF TypeInv, TypeOK, LedgerTypeOK, Amount
<1>4. HeldRequests(key)[w] = 0 /\ HeldChars(key)[w] = 0
  BY DEF Takes, Holds, HeldRequests, HeldChars
<1>5. /\ Holds(w, key)' <=> key = mine
      /\ Length(w)' = Length(w)
  <2>1. job[w] \in JobRow /\ job \in [Workers -> JobRow]
    BY DEF TypeInv, TypeOK
  <2>2. /\ job'[w].at = "send" /\ job'[w].under = day
        /\ job'[w].provider = job[w].provider /\ job'[w].chunk = job[w].chunk
    BY <1>1, <2>1 DEF JobRow
  <2>3. w \in Budgeted
    BY DEF Takes
  <2> QED
    BY <2>2, <2>3 DEF Holds, Name, Length
<1>6. CASE key = mine
  <2>1. HeldRequests(key)'[w] = 1 /\ HeldChars(key)'[w] = Length(w)
    BY <1>5, <1>6 DEF HeldRequests, HeldChars
  <2>2. /\ Plus(reserved[key], Length(w)).requests = reserved[key].requests + 1
        /\ Plus(reserved[key], Length(w)).chars = reserved[key].chars + Length(w)
    BY <1>3, PlusAmount
  <2>3. reserved'[key] = Plus(reserved[key], Length(w))
    BY <1>2, <1>3, <1>6 DEF TypeInv, TypeOK, LedgerTypeOK
  <2>4. /\ reserved'[key].requests = reserved[key].requests + 1
        /\ reserved'[key].chars = reserved[key].chars + Length(w)
    BY <2>2, <2>3
  <2> HIDE DEF mine
  <2>5. Balances(w, key)
    BY <1>2, <1>3, <1>4, <2>1, <2>4 DEF Balances
  <2> QED
    BY <1>1, <2>5, CoverStep
<1>7. CASE key # mine
  <2>1. HeldRequests(key)'[w] = 0 /\ HeldChars(key)'[w] = 0
    BY <1>5, <1>7 DEF HeldRequests, HeldChars
  <2>2. reserved'[key] = reserved[key]
    BY <1>2, <1>7 DEF TypeInv, TypeOK, LedgerTypeOK
  <2> HIDE DEF mine
  <2>3. Balances(w, key)
    BY <1>2, <1>3, <1>4, <2>1, <2>2 DEF Balances
  <2> QED
    BY <1>1, <2>3, CoverStep
<1> QED
  BY <1>6, <1>7

\* A call uses up what its process holds: there is room for it in the day's row.
LEMMA SendsKeep ==
  ASSUME TypeInv, TypeInv', CallsReserved, NEW w \in Workers, Sends(w)
  PROVE  /\ CallsReserved'
         /\ \/ UNCHANGED ledgerVars
            \/ w \in Budgeted /\ Call(job[w].under, Name(w), Length(w))
<1>1. PICK r : job' = [job EXCEPT ![w] = r] /\ r.at # "send"
  BY DEF Sends
<1> DEFINE mine == <<job[w].under, Name(w)>>
<1>2. /\ reserved' = reserved
      /\ w \notin Budgeted => called' = called
      /\ w \in Budgeted => called' = [called EXCEPT ![mine] = Plus(called[mine], Length(w))]
  BY DEF Sends, Crosses
<1>3. w \in Budgeted => mine \in Days \X Providers
  BY KeyType DEF Sends, TypeInv
<1>4. ASSUME NEW key \in Days \X Providers
      PROVE  /\ called[key] \in Amount /\ reserved[key] \in Amount
             /\ called[key].requests \in Nat /\ called[key].chars \in Nat
             /\ reserved[key].requests \in Nat /\ reserved[key].chars \in Nat
             /\ Length(w) \in Nat
  BY KeyType, LedgerAssumption DEF TypeInv, TypeOK, LedgerTypeOK, Amount
<1>5. ASSUME NEW key \in Days \X Providers
      PROVE  HeldRequests(key)'[w] = 0 /\ HeldChars(key)'[w] = 0
  <2>1. ~Holds(w, key)'
    BY <1>1 DEF Holds, TypeInv, TypeOK
  <2> QED
    BY <2>1 DEF HeldRequests, HeldChars
<1>6. ASSUME w \in Budgeted
      PROVE  /\ HeldRequests(mine)[w] = 1 /\ HeldChars(mine)[w] = Length(w)
             /\ Plus(called[mine], Length(w)).requests = called[mine].requests + 1
             /\ Plus(called[mine], Length(w)).chars = called[mine].chars + Length(w)
             /\ called'[mine] = Plus(called[mine], Length(w))
  <2>1. Holds(w, mine)
    BY <1>6 DEF Sends, Holds
  <2>2. HeldRequests(mine)[w] = 1 /\ HeldChars(mine)[w] = Length(w)
    BY <2>1 DEF HeldRequests, HeldChars
  <2>3. mine \in Days \X Providers
    BY <1>3, <1>6
  <2>4. called[mine] \in Amount /\ Length(w) \in Nat
    BY <1>4, <2>3
  <2>5. /\ Plus(called[mine], Length(w)).requests = called[mine].requests + 1
        /\ Plus(called[mine], Length(w)).chars = called[mine].chars + Length(w)
    BY <2>4, PlusAmount
  <2>6. called'[mine] = Plus(called[mine], Length(w))
    BY <1>2, <1>6, <2>3 DEF TypeInv, TypeOK, LedgerTypeOK
  <2> QED
    BY <2>2, <2>5, <2>6
<1>7. CallsReserved'
  <2> SUFFICES ASSUME NEW key \in Days \X Providers
               PROVE  /\ Covered(HeldRequests(key)', called'[key].requests, reserved'[key].requests)
                      /\ Covered(HeldChars(key)', called'[key].chars, reserved'[key].chars)
    BY DEF CallsReserved
  <2>1. CASE w \in Budgeted /\ key = mine
    <3>1. /\ HeldRequests(key)[w] = 1 /\ HeldChars(key)[w] = Length(w)
          /\ called'[key].requests = called[key].requests + 1
          /\ called'[key].chars = called[key].chars + Length(w)
      BY <1>6, <2>1
    <3> HIDE DEF mine
    <3>2. Balances(w, key)
      BY <1>2, <1>4, <1>5, <3>1 DEF Balances
    <3> QED
      BY <1>1, <3>2, CoverStep
  <2>2. CASE ~(w \in Budgeted /\ key = mine)
    <3>1. called'[key] = called[key]
      BY <1>2, <1>3, <2>2 DEF TypeInv, TypeOK, LedgerTypeOK
    <3>2. HeldRequests(key)[w] \in Nat /\ HeldChars(key)[w] \in Nat
      BY HeldTypes
    <3> HIDE DEF mine
    <3>3. Balances(w, key)
      BY <1>2, <1>4, <1>5, <3>1, <3>2 DEF Balances
    <3> QED
      BY <1>1, <3>3, CoverStep
  <2> QED
    BY <2>1, <2>2
<1>8. ASSUME w \in Budgeted PROVE Call(job[w].under, Name(w), Length(w))
  <2>1. mine \in Days \X Providers
    BY <1>3, <1>8
  <2>2. /\ called[mine].requests + HeldRequests(mine)[w] <= reserved[mine].requests
        /\ called[mine].chars + HeldChars(mine)[w] <= reserved[mine].chars
    BY <1>4, <2>1, HeldTypes, CoveredOne DEF CallsReserved
  <2>3. /\ called[mine].requests < reserved[mine].requests
        /\ called[mine].chars + Length(w) <= reserved[mine].chars
    BY <1>4, <1>6, <1>8, <2>1, <2>2
  <2> QED
    BY <1>2, <1>8, <2>3 DEF Call
<1> QED
  BY <1>2, <1>7, <1>8 DEF ledgerVars

LEMMA LedgerKept ==
  ASSUME TypeInv, TypeInv', CallsReserved, [Next]_vars
  PROVE  CallsReserved' /\ [LedgerNext]_ledgerVars
<1>1. CASE UNCHANGED <<ledgerVars, job>>
  <2>1. called' = called /\ reserved' = reserved /\ job' = job
    BY <1>1 DEF ledgerVars
  <2>2. \A key : HeldRequests(key)' = HeldRequests(key) /\ HeldChars(key)' = HeldChars(key)
    BY <2>1 DEF HeldRequests, HeldChars, Holds, Name, Length
  <2> QED
    BY <1>1, <2>1, <2>2 DEF CallsReserved
<1>2. ASSUME NEW w \in Workers, Lets(w) PROVE CallsReserved' /\ [LedgerNext]_ledgerVars
  <2>1. UNCHANGED ledgerVars
    BY <1>2 DEF Lets
  <2> QED
    BY <1>2, <2>1, LetsKeep
<1>3. ASSUME NEW w \in Workers, Takes(w) PROVE CallsReserved' /\ [LedgerNext]_ledgerVars
  <2>1. day \in Days /\ Name(w) \in Providers /\ Length(w) \in Lengths
    BY KeyType DEF TypeInv, TypeOK
  <2>2. LedgerNext
    BY <1>3, <2>1 DEF Takes, LedgerNext
  <2> QED
    BY <1>3, <2>2, TakesKeep
<1>4. ASSUME NEW w \in Workers, Sends(w) PROVE CallsReserved' /\ [LedgerNext]_ledgerVars
  <2>1. w \in Budgeted => job[w].under \in Days
    BY <1>4 DEF Sends, TypeInv
  <2>2. Name(w) \in Providers /\ Length(w) \in Lengths
    BY KeyType
  <2>3. w \in Budgeted /\ Call(job[w].under, Name(w), Length(w)) => LedgerNext
    BY <2>1, <2>2 DEF LedgerNext
  <2> QED
    BY <1>4, <2>3, SendsKeep
<1> QED
  BY <1>1, <1>2, <1>3, <1>4, LedgerSteps

\* The jobs of serve implement the ledger: each request and each character that crosses to a
\* provider was reserved before, under the day of its reservation, whatever processes
\* share the day, fail over to another provider, die with a reservation or pass midnight.
THEOREM ImplementsLedger == Spec => LedgerSpec
<1>1. Init => LedgerInit /\ CallsReserved
  <2> SUFFICES ASSUME Init, NEW key \in Days \X Providers
               PROVE  /\ Covered(HeldRequests(key), called[key].requests, reserved[key].requests)
                      /\ Covered(HeldChars(key), called[key].chars, reserved[key].chars)
    BY DEF Init, CallsReserved
  <2> DEFINE none == [w \in Workers |-> 0]
             m == [S \in SUBSET Workers |-> 0]
  <2>1. \A w \in Workers : ~Holds(w, key)
    BY DEF Init, Idle, Holds
  <2>2. HeldRequests(key) = none /\ HeldChars(key) = none
    BY <2>1 DEF HeldRequests, HeldChars
  <2>3. IsMeasure(m, none)
    BY DEF IsMeasure
  <2>4. /\ called[key].requests = 0 /\ called[key].chars = 0
        /\ reserved[key].requests = 0 /\ reserved[key].chars = 0 /\ m[Workers] = 0
    BY DEF Init, LedgerInit, Zero
  <2> HIDE DEF none, m
  <2>5. Covered(none, 0, 0)
    BY <2>3, <2>4 DEF Covered
  <2> QED
    BY <2>2, <2>4, <2>5
<1>2. TypeInv /\ TypeInv' /\ CallsReserved /\ [Next]_vars => CallsReserved' /\ [LedgerNext]_ledgerVars
  BY LedgerKept
<1> QED
  BY <1>1, <1>2, TypeInvAlways, PTL DEF Spec, LedgerSpec

\* So the ceilings hold of them: no day's calls and no day's counters pass their limits,
\* and no reservation is given back.
THEOREM CallsWithinCeilingAlways == Spec => []WithinCeiling /\ NeverRefunded
  BY ImplementsLedger, WithinCeilingAlways, NeverRefundedAlways, PTL

=============================================================================
