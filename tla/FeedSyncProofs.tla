---------------------------- MODULE FeedSyncProofs ----------------------------
(***************************************************************************)
(* Proofs about FeedSync, for any feeds, versions, entries, faults and any *)
(* number of rounds at once: the rows stay well formed, a recorded success *)
(* is stored entry by entry up to the limit, and the article of an edition *)
(* remains what it is.                                                     *)
(***************************************************************************)
EXTENDS FeedSync, SequenceTheorems, FiniteSetTheorems, WellFoundedInduction, TLAPS

\* What a round has in hand: a feed, a version of it, and the entries it has not
\* come to, which are the last ones of that version.
InHand(j) ==
  /\ j.at # "idle" => j.todo # <<>>
  /\ j.at \in {"entry", "store"} =>
       LET E == Kept(Head(j.todo), j.fetched)
       IN /\ j.fetched \in Versions(Head(j.todo))
          /\ Len(j.entries) <= Len(E)
          /\ \A i \in 1..Len(j.entries) : j.entries[i] = E[Len(E) - Len(j.entries) + i]
  /\ j.at = "store" => j.entries # <<>> /\ Head(j.entries).url \notin {NoLink, BadLink}

\* Each row comes from an entry, ids are unique and bounded, and the article of an
\* edition is there.
RowsOK ==
  /\ \A f \in Feeds : \A r \in rows[f] :
       \E e \in AllLinked(f) : r.guid = e.guid /\ r.url = e.url
  /\ \A f \in Feeds : \A r, q \in rows[f] : r.id = q.id => r = q
  /\ \A f \in Feeds : \E n \in Nat : \A r \in rows[f] : r.id <= n
  /\ \A k \in frozen : \E r \in rows[k[1]] : r.id = k[2]

FeedInv == TypeOK /\ RowsOK /\ \A s \in Syncs : InHand(job[s])

\* What a row has of an entry: that it is its article, or its text besides.
Like(what, r, e) == IsOf(r, e) /\ (what = "text" => r.text = e.text)

\* The entries before those that are left are stored.
AllPassed(what, stored, f, v, left) ==
  \A i \in Linked(f, v) : i <= Len(Kept(f, v)) - Len(left) =>
    \E r \in stored : Like(what, r, Kept(f, v)[i]) /\ ~r.old

\* Whatever other rounds do, an article of this feed remains that article.
Lasting(f) == StableLinks(f) /\ f \notin reused

\* What a round found is still that article, if it is there, and its GUID or its link is
\* the entry's; and the entries the round has passed are stored.
RoundOK(s) ==
  /\ job[s].at = "store" /\ job[s].known # NoRow =>
       /\ s \notin met \/ Lasting(Feed(s)) =>
            \A r \in rows[Feed(s)] : r.id = job[s].known.id =>
              r.guid = job[s].known.guid /\ r.url = job[s].known.url
       /\ \/ Entry(s).guid # NoGuid /\ job[s].known.guid = Entry(s).guid
          \/ job[s].known.url = Entry(s).url
  /\ job[s].at \in {"entry", "store"} =>
       /\ Lasting(Feed(s)) =>
            AllPassed("article", rows[Feed(s)], Feed(s), job[s].fetched, job[s].entries)
       /\ WellFormed(Feed(s), job[s].fetched) /\ s \notin met =>
            AllPassed("text", rows[Feed(s)], Feed(s), job[s].fetched, job[s].entries)

InFeed(s) == job[s].at \in {"entry", "store"}

\* Rounds at work in one feed have met there.
MetOK == \A s, t \in Syncs :
  s # t /\ InFeed(s) /\ InFeed(t) /\ Feed(s) = Feed(t) => s \in met

SyncInv == MetOK /\ SettledIsStored /\ \A s \in Syncs : RoundOK(s)

-----------------------------------------------------------------------------
(* Types.                                                                  *)

\* Sequences: what is left after the first one, and the first of the last ones.
LEMMA TailType ==
  ASSUME NEW S, NEW q \in Seq(S), q # <<>>
  PROVE  /\ Tail(q) \in Seq(S) /\ Len(Tail(q)) = Len(q) - 1
         /\ \A i \in 1..Len(Tail(q)) : Tail(q)[i] = q[i + 1]
         /\ Len(q) > 1 => Tail(q) # <<>>
<1>1. /\ Tail(q) \in Seq(S) /\ Len(Tail(q)) = Len(q) - 1
      /\ \A i \in 1..Len(Tail(q)) : Tail(q)[i] = q[i + 1]
  BY HeadTailProperties
<1>2. ASSUME Tail(q) = <<>> PROVE Len(q) = 1
  <2>1. Len(Tail(q)) = 0
    BY <1>2, EmptySeq
  <2>2. Len(q) \in Nat /\ 0 = Len(q) - 1
    BY <1>1, <2>1, LenProperties
  <2> QED
    BY <2>2
<1> QED
  BY <1>1, <1>2

LEMMA SeqSubset ==
  ASSUME NEW S, NEW T, S \subseteq T, NEW q \in Seq(S) PROVE q \in Seq(T)
  OBVIOUS

LEMMA FirstLeft ==
  ASSUME NEW S, NEW T, NEW E \in Seq(S), NEW left \in Seq(T), left # <<>>, Len(left) <= Len(E),
         \A j \in 1..Len(left) : left[j] = E[Len(E) - Len(left) + j]
  PROVE  LET i == Len(E) - Len(left) + 1 IN i \in 1..Len(E) /\ i \in DOMAIN E /\ Head(left) = E[i]
<1>1. Len(left) \in Nat /\ Len(left) > 0 /\ Len(E) \in Nat /\ DOMAIN E = 1..Len(E)
  OBVIOUS
<1>2. Head(left) = left[1] /\ 1 \in 1..Len(left)
  BY <1>1
<1> QED
  BY <1>1, <1>2

LEMMA KeptType ==
  ASSUME NEW f \in Feeds, NEW v \in Versions(f) PROVE Kept(f, v) \in Seq(EntriesOf(f, v))
<1> DEFINE E == Entries[f][v]
           n == Min({MaxEntries, Len(E)})
<1>1. E \in Seq(EntriesOf(f, v))
  BY FeedSyncAssumption
<1>2. n \in 0..Len(E)
  <2>1. MaxEntries \in Nat /\ Len(E) \in Nat
    BY <1>1, FeedSyncAssumption
  <2> HIDE DEF E
  <2>2. CASE MaxEntries <= Len(E)
    BY <2>1, <2>2 DEF Min
  <2>3. CASE ~(MaxEntries <= Len(E))
    BY <2>1, <2>3 DEF Min
  <2> QED
    BY <2>2, <2>3
<1> HIDE DEF E, n
<1>3. Len(E) \in Nat /\ n \in Int /\ \A i \in 1..n : E[i] \in EntriesOf(f, v)
  BY <1>1, <1>2
<1>4. SubSeq(E, 1, n) \in Seq(EntriesOf(f, v))
  BY <1>3, SubSeqProperties
<1> QED
  BY <1>4 DEF Kept, E, n

LEMMA FeedOf ==
  ASSUME FeedInv, NEW s \in Syncs, job[s].at # "idle"
  PROVE  /\ job[s] \in JobRow /\ InHand(job[s])
         /\ job[s].todo \in Seq(Feeds) /\ job[s].todo # <<>> /\ Feed(s) \in Feeds
<1>1. job[s] \in JobRow /\ InHand(job[s])
  BY DEF FeedInv, TypeOK
<1>2. job[s].todo \in Seq(Feeds) /\ job[s].todo # <<>>
  BY <1>1 DEF JobRow, InHand
<1> QED
  BY <1>1, <1>2 DEF Feed

\* The version a round reads, and the entry it has come to.
LEMMA EntryOf ==
  ASSUME FeedInv, NEW s \in Syncs, job[s].at \in {"entry", "store"}
  PROVE  LET f == Feed(s)
             v == job[s].fetched
             E == Kept(f, v)
             i == Len(E) - Len(job[s].entries) + 1
         IN /\ v \in Versions(f) /\ E \in Seq(EntriesOf(f, v)) /\ DOMAIN E = 1..Len(E)
            /\ job[s].entries \in Seq(UNION {AllEntries(g) : g \in Feeds})
            /\ Len(job[s].entries) \in 0..Len(E) /\ Len(E) \in Nat
            /\ job[s].entries # <<>> =>
                 /\ i \in DOMAIN E /\ Entry(s) = E[i] /\ Entry(s) \in AllEntries(f)
                 /\ Entry(s).url \notin {NoLink, BadLink} => i \in Linked(f, v) /\ Entry(s) \in AllLinked(f)
<1> DEFINE f == Feed(s)
           v == job[s].fetched
           E == Kept(f, v)
           left == job[s].entries
           i == Len(E) - Len(left) + 1
<1>1. f \in Feeds /\ job[s] \in JobRow /\ InHand(job[s])
  BY FeedOf
<1>2. v \in Versions(f) /\ Len(left) <= Len(E) /\ \A j \in 1..Len(left) : left[j] = E[Len(E) - Len(left) + j]
  BY <1>1 DEF InHand, Feed
<1>3. E \in Seq(EntriesOf(f, v))
  BY <1>1, <1>2, KeptType
<1>4. left \in Seq(UNION {AllEntries(g) : g \in Feeds})
  BY <1>1 DEF JobRow
<1>5. DOMAIN E = 1..Len(E) /\ Len(E) \in Nat /\ Len(left) \in 0..Len(E)
  BY <1>2, <1>3, <1>4
<1>6. ASSUME left # <<>>
      PROVE  /\ i \in DOMAIN E /\ Entry(s) = E[i] /\ Entry(s) \in AllEntries(f)
             /\ Entry(s).url \notin {NoLink, BadLink} => i \in Linked(f, v) /\ Entry(s) \in AllLinked(f)
  <2> HIDE DEF f, v, E, left
  <2>1. i \in DOMAIN E /\ Head(left) = E[i]
    BY <1>2, <1>3, <1>4, <1>6, FirstLeft
  <2>2. Entry(s) = E[i]
    BY <2>1 DEF Entry, left
  <2>3. E[i] \in EntriesOf(f, v)
    BY <1>3, <2>1
  <2>4. Entry(s) \in AllEntries(f)
    BY <1>2, <2>2, <2>3 DEF AllEntries
  <2> QED
    BY <2>1, <2>2, <2>4 DEF Linked, AllLinked, E
<1> QED
  BY <1>2, <1>3, <1>4, <1>5, <1>6

\* A step of one round that keeps the type of what it has in hand.
LEMMA JobStep ==
  ASSUME FeedInv, NEW s \in Syncs, NEW j \in JobRow, InHand(j), job' = [job EXCEPT ![s] = j]
  PROVE  job' \in [Syncs -> JobRow] /\ \A t \in Syncs : InHand(job[t])'
<1>1. job' \in [Syncs -> JobRow]
  BY DEF FeedInv, TypeOK
<1>2. ASSUME NEW t \in Syncs PROVE InHand(job[t])'
  <2>1. CASE job'[t] = j
    BY <2>1 DEF InHand
  <2>2. CASE job'[t] = job[t]
    <3>1. InHand(job[t])
      BY DEF FeedInv
    <3> QED
      BY <2>2, <3>1 DEF InHand
  <2> QED
    BY <2>1, <2>2 DEF FeedInv, TypeOK
<1> QED
  BY <1>1, <1>2

LEMMA IdleType == Idle \in JobRow /\ InHand(Idle)
  BY FeedSyncAssumption DEF Idle, JobRow, InHand

Listings == [Feeds -> {0} \cup UNION {Versions(f) : f \in Feeds}]

LEMMA RoundEndsType ==
  ASSUME FeedInv, NEW s \in Syncs, RoundEnds(s)
  PROVE  job' \in [Syncs -> JobRow] /\ \A t \in Syncs : InHand(job[t])'
  BY IdleType, JobStep DEF RoundEnds

\* A round that begins or goes on with some feeds.
LEMMA FetchType ==
  ASSUME NEW todo \in Seq(Feeds), todo # <<>>, NEW listed \in Listings
  PROVE  LET j == [Idle EXCEPT !.at = "fetch", !.todo = todo, !.listed = listed]
         IN j \in JobRow /\ InHand(j)
<1> DEFINE j == [Idle EXCEPT !.at = "fetch", !.todo = todo, !.listed = listed]
<1>1. j \in JobRow
  BY IdleType DEF JobRow, Listings
<1>2. j.at = "fetch" /\ j.todo = todo
  BY DEF Idle
<1> HIDE DEF j
<1> QED
  BY <1>1, <1>2 DEF InHand, j

LEMMA FeedEndsType ==
  ASSUME FeedInv, NEW s \in Syncs, job[s].at # "idle", FeedEnds(s)
  PROVE  job' \in [Syncs -> JobRow] /\ \A t \in Syncs : InHand(job[t])'
<1>1. job[s].todo \in Seq(Feeds)
  BY FeedOf
<1>2. CASE Len(job[s].todo) > 1
  <2> DEFINE rest == Tail(job[s].todo)
             j == [Idle EXCEPT !.at = "fetch", !.todo = rest, !.listed = job[s].listed]
  <2>1. rest \in Seq(Feeds) /\ rest # <<>>
    BY <1>1, <1>2, TailType, FeedOf
  <2>2. j \in JobRow /\ InHand(j)
    <3>1. job[s].listed \in Listings
      BY FeedOf DEF JobRow, Listings
    <3> QED
      BY <2>1, <3>1, FetchType
  <2>3. job' = [job EXCEPT ![s] = j]
    BY <1>2 DEF FeedEnds
  <2> HIDE DEF j
  <2> QED
    BY <2>2, <2>3, JobStep
<1>3. CASE ~(Len(job[s].todo) > 1)
  BY <1>3, IdleType, JobStep DEF FeedEnds
<1> QED
  BY <1>2, <1>3

\* The types of what a round has in hand, whatever it does next.
LEMMA EndingType ==
  ASSUME FeedInv, NEW s \in Syncs,
         \/ Start(s) \/ NotModified(s) \/ BadEntry(s) \/ Violation(s) \/ Record(s)
         \/ FetchFails(s) \/ Crash(s)
  PROVE  job' \in [Syncs -> JobRow] /\ \A t \in Syncs : InHand(job[t])'
<1> USE DEF At
<1>1. CASE Start(s)
  <2> DEFINE j == [Idle EXCEPT !.at = "fetch", !.todo = Order, !.listed = etag]
  <2>1. j \in JobRow /\ InHand(j)
    <3>1. etag \in Listings
      BY DEF FeedInv, TypeOK, Listings
    <3> QED
      BY <3>1, FetchType, FeedSyncAssumption
  <2>2. job' = [job EXCEPT ![s] = j]
    BY <1>1 DEF Start
  <2> HIDE DEF j
  <2> QED
    BY <2>1, <2>2, JobStep
<1>2. CASE NotModified(s) \/ BadEntry(s) \/ Record(s) \/ FetchFails(s)
  <2>1. job[s].at # "idle" /\ FeedEnds(s)
    BY <1>2 DEF NotModified, BadEntry, Record, FetchFails, Fails
  <2> QED
    BY <2>1, FeedEndsType
<1>3. CASE Violation(s) \/ Crash(s)
  <2>1. RoundEnds(s)
    BY <1>3 DEF Violation, Crash
  <2> QED
    BY <2>1, RoundEndsType
<1> QED
  BY <1>1, <1>2, <1>3

LEMMA RetryType ==
  ASSUME FeedInv, NEW s \in Syncs, TransientFault(s)
  PROVE  job' \in [Syncs -> JobRow] /\ \A t \in Syncs : InHand(job[t])'
<1> USE DEF At
<1>1. job[s] \in JobRow /\ InHand(job[s]) /\ job[s].at = "fetch"
  BY FeedOf DEF TransientFault
<1>2. CASE Fails(s)
  BY <1>1, <1>2, FeedEndsType DEF Fails
<1>3. CASE job[s].attempt < MaxAttempts /\ job' = [job EXCEPT ![s].attempt = @ + 1]
  <2> DEFINE j == [job[s] EXCEPT !.attempt = @ + 1]
  <2>1. j \in JobRow
    <3>1. job[s].attempt + 1 \in 1..MaxAttempts
      BY <1>1, <1>3, FeedSyncAssumption DEF JobRow
    <3> QED
      BY <1>1, <3>1 DEF JobRow
  <2>2. j.at = "fetch" /\ j.todo = job[s].todo
    BY <1>1 DEF JobRow
  <2>3. job' = [job EXCEPT ![s] = j]
    BY <1>3 DEF FeedInv, TypeOK
  <2> HIDE DEF j
  <2>4. InHand(j)
    BY <1>1, <2>2 DEF InHand
  <2> QED
    BY <2>1, <2>3, <2>4, JobStep
<1> QED
  BY <1>2, <1>3 DEF TransientFault

\* The entries of the version the server answers with, none of them come to.
LEMMA FetchedType ==
  ASSUME FeedInv, NEW s \in Syncs, Fetch(s)
  PROVE  job' \in [Syncs -> JobRow] /\ \A t \in Syncs : InHand(job[t])'
<1> DEFINE f == Feed(s)
           v == published[f]
           j == [job[s] EXCEPT !.at = "entry", !.fetched = v, !.entries = Kept(f, v)]
<1>1. /\ job[s] \in JobRow /\ InHand(job[s]) /\ job[s].at = "fetch"
      /\ job[s].todo # <<>> /\ f \in Feeds
  BY FeedOf DEF Fetch, At
<1>2. v \in Versions(f) /\ Kept(f, v) \in Seq(EntriesOf(f, v))
  BY <1>1, KeptType DEF FeedInv, TypeOK
<1>3. EntriesOf(f, v) \subseteq UNION {AllEntries(g) : g \in Feeds}
  BY <1>1, <1>2 DEF AllEntries
<1>4. Kept(f, v) \in Seq(UNION {AllEntries(g) : g \in Feeds})
  BY <1>2, <1>3, SeqSubset
<1>5. j \in JobRow
  <2>1. v \in UNION {Versions(g) : g \in Feeds}
    BY <1>1, <1>2
  <2> QED
    BY <1>1, <1>4, <2>1 DEF JobRow
<1>6. j.at = "entry" /\ j.todo = job[s].todo /\ j.fetched = v /\ j.entries = Kept(f, v)
  BY <1>1 DEF JobRow
<1>7. job' = [job EXCEPT ![s] = j]
  BY DEF Fetch, FeedInv, TypeOK
<1> HIDE DEF j
<1>8. InHand(j)
  <2> DEFINE E == Kept(f, v)
             S == EntriesOf(f, v)
  <2>1. E \in Seq(S)
    BY <1>2
  <2> HIDE DEF E, S
  <2>2. Len(E) \in Nat /\ Len(E) <= Len(E) /\ \A i \in 1..Len(E) : E[i] = E[Len(E) - Len(E) + i]
    BY <2>1
  <2> QED
    BY <1>1, <1>2, <1>6, <2>2 DEF InHand, Feed, E
<1> QED
  BY <1>5, <1>7, <1>8, JobStep

\* On to the next entry of the version.
LEMMA PassType ==
  ASSUME FeedInv, NEW s \in Syncs, job[s].at \in {"entry", "store"}, job[s].entries # <<>>,
         NEW j \in JobRow, j.at = "entry", j.todo = job[s].todo, j.fetched = job[s].fetched,
         j.entries = Tail(job[s].entries), job' = [job EXCEPT ![s] = j]
  PROVE  job' \in [Syncs -> JobRow] /\ \A t \in Syncs : InHand(job[t])'
<1> DEFINE E == Kept(Feed(s), job[s].fetched)
           left == job[s].entries
           S == EntriesOf(Feed(s), job[s].fetched)
           T == UNION {AllEntries(g) : g \in Feeds}
<1>1. InHand(job[s]) /\ job[s].todo # <<>>
  BY FeedOf
<1>2. left \in Seq(T) /\ E \in Seq(S) /\ Len(left) <= Len(E)
      /\ \A i \in 1..Len(left) : left[i] = E[Len(E) - Len(left) + i]
  <2>1. left \in Seq(T) /\ E \in Seq(S)
    BY EntryOf
  <2> QED
    BY <1>1, <2>1 DEF InHand, Feed
<1> HIDE DEF E, left, S, T
<1> DEFINE rest == Tail(left)
<1>3. /\ Len(rest) <= Len(E)
      /\ \A i \in 1..Len(rest) : rest[i] = E[Len(E) - Len(rest) + i]
  <2>1. left # <<>>
    BY DEF left
  <2>2. Len(rest) = Len(left) - 1 /\ \A i \in 1..Len(rest) : rest[i] = left[i + 1]
    BY <1>2, <2>1, TailType
  <2> HIDE DEF rest
  <2> DEFINE n == Len(E)
             m == Len(left)
  <2>3. m \in Nat /\ n \in Nat /\ m <= n /\ Len(rest) = m - 1
    BY <1>2, <2>2, LenProperties
  <2>4. ASSUME NEW i \in 1..(m - 1) PROVE rest[i] = E[n - (m - 1) + i]
    <3>1. rest[i] = left[i + 1]
      BY <2>2, <2>3
    <3>2. left[i + 1] = E[n - m + (i + 1)]
      <4>1. i + 1 \in 1..m
        BY <2>3
      <4> QED
        BY <1>2, <4>1
    <3> HIDE DEF n, m
    <3>3. n - m + (i + 1) = n - (m - 1) + i
      BY <2>3
    <3> QED
      BY <3>1, <3>2, <3>3
  <2> HIDE DEF n, m
  <2>5. Len(rest) <= n /\ \A i \in 1..Len(rest) : rest[i] = E[n - Len(rest) + i]
    BY <2>3, <2>4
  <2> QED
    BY <2>5 DEF n
<1>4. /\ Kept(Head(j.todo), j.fetched) = E /\ j.entries = Tail(left)
      /\ j.fetched \in Versions(Head(j.todo))
  BY <1>1 DEF InHand, Feed, E, left
<1>5. InHand(j)
  BY <1>1, <1>3, <1>4 DEF InHand
<1> QED
  BY <1>5, JobStep

\* What _find_article returns.
LEMMA FindIs ==
  ASSUME NEW f, NEW e
  PROVE  \/ Find(f, e) = NoRow
         \/ /\ Find(f, e) \in rows[f]
            /\ \/ e.guid # NoGuid /\ Find(f, e).guid = e.guid
               \/ Find(f, e).url = e.url
<1>1. ASSUME NEW found, Pick(found) # NoRow PROVE Pick(found) \in found
  BY <1>1 DEF Pick
<1>2. Find(f, e) = Pick(FoundByGuid(f, e)) \/ Find(f, e) = Pick(FoundByUrl(f, e))
  BY DEF Find
<1>3. ASSUME Find(f, e) # NoRow PROVE Find(f, e) \in FoundByGuid(f, e) \cup FoundByUrl(f, e)
  BY <1>1, <1>2, <1>3
<1> QED
  BY <1>3 DEF FoundByGuid, FoundByUrl

LEMMA EntryType ==
  ASSUME FeedInv, NEW s \in Syncs, SkipEntry(s) \/ Match(s) \/ Store(s)
  PROVE  job' \in [Syncs -> JobRow] /\ \A t \in Syncs : InHand(job[t])'
<1> USE DEF At
<1> DEFINE T == UNION {AllEntries(g) : g \in Feeds}
<1>1. job[s].at \in {"entry", "store"} /\ job[s].entries # <<>>
  BY FeedOf DEF SkipEntry, Match, Store, InHand
<1>2. /\ job[s] \in JobRow /\ InHand(job[s]) /\ Feed(s) \in Feeds
      /\ job[s].entries \in Seq(T)
  BY <1>1, FeedOf, EntryOf
<1>3. Tail(job[s].entries) \in Seq(T)
  <2> HIDE DEF T
  <2> QED
    BY <1>1, <1>2, TailType
<1>4. CASE SkipEntry(s)
  <2> DEFINE j == [job[s] EXCEPT !.entries = Tail(@)]
  <2>1. j \in JobRow
    BY <1>2, <1>3 DEF JobRow
  <2>2. /\ job' = [job EXCEPT ![s] = j]
        /\ j.at = "entry" /\ j.todo = job[s].todo /\ j.fetched = job[s].fetched
        /\ j.entries = Tail(job[s].entries)
    BY <1>2, <1>4 DEF SkipEntry, FeedInv, TypeOK, JobRow
  <2> HIDE DEF j
  <2> QED
    BY <1>1, <2>1, <2>2, PassType
<1>5. CASE Store(s)
  <2> DEFINE j == [job[s] EXCEPT !.at = "entry", !.entries = Tail(@), !.known = NoRow]
  <2>1. j \in JobRow
    BY <1>2, <1>3 DEF JobRow
  <2>2. /\ job' = [job EXCEPT ![s] = j]
        /\ j.at = "entry" /\ j.todo = job[s].todo /\ j.fetched = job[s].fetched
        /\ j.entries = Tail(job[s].entries)
    BY <1>2, <1>5 DEF Store, FeedInv, TypeOK, JobRow
  <2> HIDE DEF j
  <2> QED
    BY <1>1, <2>1, <2>2, PassType
<1>6. CASE Match(s)
  <2> DEFINE known == Find(Feed(s), Entry(s))
             j == [job[s] EXCEPT !.at = "store", !.known = known]
  <2>1. known \in {NoRow} \cup RowsOf(UNION {AllLinked(f) : f \in Feeds})
    <3>1. known = NoRow \/ known \in rows[Feed(s)]
      BY FindIs
    <3>2. rows[Feed(s)] \subseteq RowsOf(AllLinked(Feed(s)))
      BY <1>2 DEF FeedInv, TypeOK, ArticleRows
    <3>3. \A A, B : A \subseteq B => RowsOf(A) \subseteq RowsOf(B)
      BY DEF RowsOf
    <3>4. AllLinked(Feed(s)) \subseteq UNION {AllLinked(f) : f \in Feeds}
      BY <1>2
    <3> QED
      BY <3>1, <3>2, <3>3, <3>4
  <2> HIDE DEF known
  <2>2. j \in JobRow
    BY <1>2, <2>1 DEF JobRow
  <2>3. /\ job' = [job EXCEPT ![s] = j]
        /\ j.at = "store" /\ j.todo = job[s].todo /\ j.fetched = job[s].fetched
        /\ j.entries = job[s].entries
    BY <1>2, <1>6 DEF Match, FeedInv, TypeOK, JobRow, known
  <2> HIDE DEF j
  <2>4. InHand(j)
    BY <1>1, <1>2, <1>6, <2>3 DEF InHand, Match, Entry
  <2> QED
    BY <2>2, <2>3, <2>4, JobStep
<1> QED
  BY <1>4, <1>5, <1>6

-----------------------------------------------------------------------------
(* Rows.                                                                   *)

LEMMA Largest ==
  ASSUME NEW n \in Nat, NEW S \in SUBSET Nat, S # {}, \A x \in S : x <= n
  PROVE  Max(S) \in Nat /\ \A y \in S : y <= Max(S)
<1> DEFINE T == {m \in Nat : \E y \in S : m = n - y}
<1>1. PICK y \in S : TRUE
  OBVIOUS
<1>2. n - y \in T
  BY <1>1
<1>3. PICK m \in T : \A k \in T : ~(<<k, m>> \in OpToRel(<, Nat))
  BY <1>2, NatLessThanWellFounded, WFMin
<1>4. PICK x \in S : m = n - x
  BY <1>3
<1>5. ASSUME NEW z \in S PROVE x >= z
  <2>1. n - z \in T
    OBVIOUS
  <2>2. ~(n - z < m)
    BY <1>3, <2>1 DEF OpToRel
  <2> QED
    BY <1>4, <2>2
<1>6. Max(S) \in S /\ \A z \in S : Max(S) >= z
  BY <1>4, <1>5 DEF Max
<1> QED
  BY <1>6

\* A new article gets an id that no article of the feed has.
LEMMA FreshId ==
  ASSUME FeedInv, NEW f \in Feeds
  PROVE  NextId(f) \in Nat /\ \A r \in rows[f] : r.id # NextId(f)
<1> DEFINE ids == {r.id : r \in rows[f]}
<1>1. CASE rows[f] = {}
  BY <1>1 DEF NextId
<1>2. CASE rows[f] # {}
  <2>1. ids \in SUBSET Nat /\ ids # {}
    BY <1>2 DEF FeedInv, TypeOK, ArticleRows, RowsOf
  <2>2. PICK n \in Nat : \A x \in ids : x <= n
    BY DEF FeedInv, RowsOK
  <2>3. Max(ids) \in Nat /\ \A x \in ids : x <= Max(ids)
    <3> HIDE DEF ids
    <3> QED
      BY <2>1, <2>2, Largest
  <2>4. NextId(f) = 1 + Max(ids)
    BY <1>2 DEF NextId
  <2>5. \A r \in rows[f] : r.id \in ids
    OBVIOUS
  <2> HIDE DEF ids
  <2> QED
    BY <2>1, <2>3, <2>4, <2>5
<1> QED
  BY <1>1, <1>2

\* What a Store writes: the row of the entry, in the place of what was found.
Stored(s) ==
  [id |-> IF job[s].known = NoRow THEN NextId(Feed(s)) ELSE job[s].known.id,
   guid |-> Entry(s).guid, url |-> Entry(s).url, text |-> Entry(s).text, old |-> FALSE]

LEMMA StoredRow ==
  ASSUME FeedInv, NEW s \in Syncs, Store(s)
  PROVE  LET f == Feed(s)
         IN /\ f \in Feeds /\ Entry(s) \in AllLinked(f)
            /\ Others(s) \subseteq rows[f] /\ Stored(s) \in ArticleRows(f)
            /\ rows' = [rows EXCEPT ![f] = Others(s) \cup {Stored(s)}]
            /\ \A r \in Others(s) : r.id # Stored(s).id
            /\ \A r \in rows[f] \ Others(s) :
                 job[s].known # NoRow /\ r.id = job[s].known.id /\ r.id = Stored(s).id
<1> DEFINE f == Feed(s)
<1>1. f \in Feeds /\ Entry(s) \in AllLinked(f)
  BY FeedOf, EntryOf DEF Store, At, InHand, Entry
<1>2. NextId(f) \in Nat /\ \A r \in rows[f] : r.id # NextId(f)
  BY <1>1, FreshId
<1>3. Stored(s).id \in Nat
  <2>1. CASE job[s].known = NoRow
    BY <1>2, <2>1 DEF Stored
  <2>2. CASE job[s].known # NoRow
    BY <1>1, <2>2 DEF Stored, Store, KnownIsThere, FeedInv, TypeOK, ArticleRows, RowsOf
  <2> QED
    BY <2>1, <2>2
<1>4. Stored(s) \in ArticleRows(f)
  BY <1>1, <1>3 DEF Stored, ArticleRows, RowsOf
<1> QED
  BY <1>1, <1>2, <1>4 DEF Stored, Store, Others

LEMMA StoreRows ==
  ASSUME FeedInv, NEW s \in Syncs, Store(s)
  PROVE  /\ DOMAIN rows' = Feeds /\ \A f \in Feeds : rows'[f] \subseteq ArticleRows(f)
         /\ RowsOK'
<1> DEFINE f == Feed(s)
           new == Stored(s)
<1>1. /\ f \in Feeds /\ Entry(s) \in AllLinked(f)
      /\ Others(s) \subseteq rows[f] /\ new \in ArticleRows(f)
      /\ rows' = [rows EXCEPT ![f] = Others(s) \cup {new}]
      /\ \A r \in Others(s) : r.id # new.id
      /\ \A r \in rows[f] \ Others(s) : r.id = new.id
  BY StoredRow
<1>2. /\ DOMAIN rows = Feeds /\ \A g \in Feeds : rows[g] \subseteq ArticleRows(g)
      /\ RowsOK
  BY DEF FeedInv, TypeOK
<1>3. /\ DOMAIN rows' = Feeds /\ rows'[f] = Others(s) \cup {new}
      /\ \A g \in Feeds \ {f} : rows'[g] = rows[g]
  BY <1>1, <1>2
<1>4. new.guid = Entry(s).guid /\ new.url = Entry(s).url
  BY DEF Stored
<1> HIDE DEF f, new
<1>5. \A g \in Feeds : rows'[g] \subseteq ArticleRows(g)
  BY <1>1, <1>2, <1>3
<1>6. \A g \in Feeds : \A r \in rows'[g] : \E e \in AllLinked(g) : r.guid = e.guid /\ r.url = e.url
  BY <1>1, <1>2, <1>3, <1>4 DEF RowsOK
<1>7. \A g \in Feeds : \A r, q \in rows'[g] : r.id = q.id => r = q
  BY <1>1, <1>2, <1>3 DEF RowsOK
<1>8. \A g \in Feeds : \E n \in Nat : \A r \in rows'[g] : r.id <= n
  <2>1. new.id \in Nat /\ \A r \in rows[f] : r.id \in Nat
    BY <1>1, <1>2 DEF ArticleRows, RowsOf
  <2>2. PICK n \in Nat : \A r \in rows[f] : r.id <= n
    BY <1>1, <1>2 DEF RowsOK
  <2>3. \A r \in rows'[f] : r.id <= n + new.id
    BY <1>1, <1>3, <2>1, <2>2
  <2>4. n + new.id \in Nat
    BY <2>1
  <2> QED
    BY <1>2, <1>3, <2>3, <2>4 DEF RowsOK
<1>9. \A k \in frozen' : \E r \in rows'[k[1]] : r.id = k[2]
  <2>1. frozen' = frozen /\ frozen \subseteq Feeds \X Nat
    BY DEF Store, FeedInv, TypeOK
  <2>2. ASSUME NEW k \in frozen PROVE \E r \in rows'[k[1]] : r.id = k[2]
    <3>1. k[1] \in Feeds
      BY <2>1
    <3>2. PICK r \in rows[k[1]] : r.id = k[2]
      BY <1>2 DEF RowsOK
    <3> QED
      BY <1>1, <1>3, <3>1, <3>2
  <2> QED
    BY <2>1, <2>2
<1> QED
  BY <1>3, <1>5, <1>6, <1>7, <1>8, <1>9 DEF RowsOK

LEMMA OtherRows ==
  ASSUME FeedInv, Age \/ Purge \/ \E f \in Feeds : \E r \in rows[f] : Freeze(f, r)
  PROVE  /\ DOMAIN rows' = Feeds /\ \A f \in Feeds : rows'[f] \subseteq ArticleRows(f)
         /\ frozen' \subseteq Feeds \X Nat
         /\ RowsOK'
<1>1. /\ DOMAIN rows = Feeds /\ \A g \in Feeds : rows[g] \subseteq ArticleRows(g)
      /\ RowsOK /\ frozen \subseteq Feeds \X Nat
  BY DEF FeedInv, TypeOK
<1>2. CASE Age
  <2> DEFINE Aged(r) == [r EXCEPT !.old = TRUE]
  <2>1. \A f \in Feeds : rows'[f] = {Aged(r) : r \in rows[f]}
    BY <1>2 DEF Age
  <2>2. ASSUME NEW f \in Feeds, NEW r \in rows[f]
        PROVE  /\ Aged(r) \in ArticleRows(f)
               /\ Aged(r).id = r.id /\ Aged(r).guid = r.guid /\ Aged(r).url = r.url
    <3>1. r \in ArticleRows(f)
      BY <1>1
    <3> QED
      BY <3>1 DEF ArticleRows, RowsOf
  <2>3. DOMAIN rows' = Feeds /\ frozen' = frozen
    BY <1>2 DEF Age
  <2> HIDE DEF Aged
  <2>4. \A f \in Feeds : \A q \in rows'[f] : \E r \in rows[f] :
          /\ q = Aged(r)
          /\ q \in ArticleRows(f) /\ q.id = r.id /\ q.guid = r.guid /\ q.url = r.url
    BY <2>1, <2>2
  <2>5. \A f \in Feeds : \A r \in rows[f] : \E q \in rows'[f] : q.id = r.id
    BY <2>1, <2>2
  <2>6. \A f \in Feeds : \A r, q \in rows'[f] : r.id = q.id => r = q
    BY <1>1, <2>4 DEF RowsOK
  <2>7. \A f \in Feeds : \E n \in Nat : \A r \in rows'[f] : r.id <= n
    BY <1>1, <2>4 DEF RowsOK
  <2>8. \A k \in frozen' : \E q \in rows'[k[1]] : q.id = k[2]
    <3>1. ASSUME NEW k \in frozen PROVE \E q \in rows'[k[1]] : q.id = k[2]
      BY <1>1, <2>5 DEF RowsOK
    <3> QED
      BY <2>3, <3>1
  <2> QED
    BY <1>1, <2>3, <2>4, <2>6, <2>7, <2>8 DEF RowsOK
<1>3. CASE Purge
  <2>1. /\ DOMAIN rows' = Feeds /\ frozen' = frozen
        /\ \A f \in Feeds : rows'[f] = rows[f] \ Expired(f)
        /\ \A f \in Feeds : \A r \in Expired(f) : <<f, r.id>> \notin frozen
    BY <1>3 DEF Purge
  <2>2. ASSUME NEW k \in frozen PROVE \E r \in rows'[k[1]] : r.id = k[2]
    <3>1. k[1] \in Feeds /\ k = <<k[1], k[2]>>
      BY <1>1
    <3>2. PICK r \in rows[k[1]] : r.id = k[2]
      BY <1>1 DEF RowsOK
    <3> QED
      BY <2>1, <3>1, <3>2
  <2> QED
    BY <1>1, <2>1, <2>2 DEF RowsOK
<1>4. ASSUME NEW f \in Feeds, NEW r \in rows[f], Freeze(f, r)
      PROVE  /\ rows' = rows /\ frozen' \subseteq Feeds \X Nat /\ RowsOK'
  <2>1. rows' = rows /\ frozen' = frozen \cup {<<f, r.id>>}
    BY <1>4 DEF Freeze
  <2>2. r.id \in Nat
    BY <1>1 DEF ArticleRows, RowsOf
  <2>3. ASSUME NEW k \in frozen' PROVE \E q \in rows'[k[1]] : q.id = k[2]
    BY <1>1, <2>1 DEF RowsOK
  <2> QED
    BY <1>1, <2>1, <2>2, <2>3 DEF RowsOK
<1> QED
  BY <1>1, <1>2, <1>3, <1>4 DEF Age, Purge

-----------------------------------------------------------------------------
(* FeedInv.                                                                *)

LEMMA InitType == Init => FeedInv
<1> SUFFICES ASSUME Init PROVE FeedInv
  OBVIOUS
<1>1. \A f \in Feeds : published[f] = 1 /\ etag[f] = 0 /\ settled[f] = 0 /\ rows[f] = {}
  BY DEF Init
<1>2. TypeOK
  BY <1>1, IdleType, FeedSyncAssumption DEF Init, TypeOK, Versions
<1>3. RowsOK
  <2>1. \A f \in Feeds : \A r \in rows[f] : r.id <= 0
    BY <1>1
  <2>2. \A f \in Feeds : \E n \in Nat : \A r \in rows[f] : r.id <= n
    BY <2>1
  <2> QED
    BY <1>1, <2>2 DEF Init, RowsOK
<1>4. \A s \in Syncs : InHand(job[s])
  BY IdleType DEF Init
<1> QED
  BY <1>2, <1>3, <1>4 DEF FeedInv

\* The columns of the feeds, and the bounds of the model.
ColumnsOK ==
  /\ \A f \in Feeds : /\ published[f] \in Versions(f)
                      /\ {etag[f], settled[f]} \subseteq Versions(f) \cup {0}
  /\ DOMAIN published = Feeds /\ etag \in Listings /\ DOMAIN settled = Feeds
  /\ failing \in [Feeds -> BOOLEAN]
  /\ faults \in Nat /\ purges \in Nat

GhostsOK == alone \subseteq Feeds /\ met \subseteq Syncs /\ reused \subseteq Feeds

LEMMA GhostsKept == FeedInv /\ [Next]_vars => GhostsOK'
<1> SUFFICES ASSUME FeedInv, [Next]_vars PROVE GhostsOK'
  OBVIOUS
<1> USE DEF history
<1>1. GhostsOK
  BY DEF FeedInv, TypeOK, GhostsOK
<1>2. CASE UNCHANGED vars
  BY <1>1, <1>2 DEF vars, GhostsOK
<1>3. ASSUME NEW s \in Syncs, Store(s) \/ Record(s) PROVE GhostsOK'
  <2>1. Feed(s) \in Feeds
    BY <1>3, FeedOf DEF Store, Record, At
  <2>2. alone' \in {alone, alone \ {Feed(s)}, alone \cup {Feed(s)}}
    BY <1>3 DEF Store, Record
  <2>3. reused' \in {reused, reused \cup {Feed(s)}}
    BY <1>3 DEF Store, Record
  <2>4. met' \in {met, met \ {s}}
    BY <1>3 DEF Store, Record, FeedEnds
  <2> QED
    BY <1>1, <2>1, <2>2, <2>3, <2>4 DEF GhostsOK
<1>4. ASSUME NEW s \in Syncs, Fetch(s) PROVE GhostsOK'
  BY <1>1, <1>4 DEF Fetch, Rivals, GhostsOK
<1>5. ASSUME NEW s \in Syncs,
             \/ Start(s) \/ NotModified(s) \/ SkipEntry(s) \/ BadEntry(s) \/ Match(s) \/ Violation(s)
             \/ TransientFault(s) \/ FetchFails(s) \/ Crash(s)
      PROVE  GhostsOK'
  <2>1. met' \in {met, met \ {s}} /\ alone' = alone /\ reused' = reused
    BY <1>5 DEF Start, NotModified, SkipEntry, BadEntry, Match, Violation, TransientFault, FetchFails,
                Crash, Fails, FeedEnds, RoundEnds
  <2> QED
    BY <1>1, <2>1 DEF GhostsOK
<1>6. ASSUME \/ \E f \in Feeds : Publish(f) \/ \E r \in rows[f] : Freeze(f, r)
             \/ Age \/ Purge
      PROVE  GhostsOK'
  BY <1>1, <1>6 DEF Publish, Freeze, Age, Purge, GhostsOK
<1> QED
  BY <1>2, <1>3, <1>4, <1>5, <1>6 DEF Next, Round

LEMMA ColumnsKept == FeedInv /\ [Next]_vars => ColumnsOK'
<1> SUFFICES ASSUME FeedInv, [Next]_vars PROVE ColumnsOK'
  OBVIOUS
<1> USE DEF history
<1>1. ColumnsOK
  BY DEF FeedInv, TypeOK, ColumnsOK, Listings
<1>2. CASE UNCHANGED vars
  BY <1>1, <1>2 DEF vars, bounds, ColumnsOK
<1>3. ASSUME NEW s \in Syncs,
             Start(s) \/ Fetch(s) \/ SkipEntry(s) \/ Match(s) \/ Violation(s) \/ Crash(s)
      PROVE  ColumnsOK'
  BY <1>1, <1>3 DEF Start, Fetch, SkipEntry, Match, Violation, Crash, ColumnsOK, bounds
<1>4. ASSUME NEW s \in Syncs, NotModified(s) \/ BadEntry(s) \/ FetchFails(s) \/ TransientFault(s)
      PROVE  ColumnsOK'
  <2>1. \/ failing' \in [Feeds -> BOOLEAN] /\ UNCHANGED <<published, etag, settled>>
        \/ UNCHANGED <<published, etag, settled, failing>>
    BY <1>1, <1>4 DEF NotModified, BadEntry, FetchFails, TransientFault, Fails, ColumnsOK
  <2>2. faults' \in Nat /\ purges' \in Nat
    <3>1. faults' \in {faults, faults + 1} /\ purges' = purges
      BY <1>4 DEF NotModified, BadEntry, FetchFails, TransientFault, bounds
    <3> QED
      BY <1>1, <3>1 DEF ColumnsOK
  <2> QED
    BY <1>1, <2>1, <2>2 DEF ColumnsOK
<1>5. ASSUME NEW s \in Syncs, Store(s) PROVE ColumnsOK'
  BY <1>1, <1>5 DEF Store, ColumnsOK, bounds
<1>6. ASSUME NEW s \in Syncs, Record(s) PROVE ColumnsOK'
  <2> DEFINE f == Feed(s)
             v == job[s].fetched
  <2>1. f \in Feeds /\ v \in Versions(f)
    BY <1>6, FeedOf, EntryOf DEF Record, At
  <2>2. /\ etag' = etag \/ etag' = [etag EXCEPT ![f] = v]
        /\ settled' = [settled EXCEPT ![f] = v] /\ failing' = [failing EXCEPT ![f] = FALSE]
        /\ UNCHANGED <<published, faults, purges>>
    BY <1>1, <1>6 DEF Record, ColumnsOK, Listings, bounds
  <2>3. v \in UNION {Versions(g) : g \in Feeds}
    BY <2>1
  <2> HIDE DEF f, v
  <2>4. etag' \in Listings
    BY <1>1, <2>1, <2>2, <2>3 DEF ColumnsOK, Listings
  <2>5. \A g \in Feeds : {etag'[g], settled'[g]} \subseteq Versions(g) \cup {0}
    BY <1>1, <2>1, <2>2 DEF ColumnsOK, Listings
  <2> QED
    BY <1>1, <2>2, <2>4, <2>5 DEF ColumnsOK
<1>7. ASSUME NEW f \in Feeds, Publish(f) \/ \E r \in rows[f] : Freeze(f, r) PROVE ColumnsOK'
  BY <1>1, <1>7 DEF Publish, Freeze, ColumnsOK, bounds
<1>8. CASE Age
  BY <1>1, <1>8 DEF Age, ColumnsOK, bounds
<1>9. CASE Purge
  BY <1>1, <1>9 DEF Purge, ColumnsOK
<1> QED
  BY <1>2, <1>3, <1>4, <1>5, <1>6, <1>7, <1>8, <1>9 DEF Next, Round

LEMMA JobKept ==
  FeedInv /\ [Next]_vars => job' \in [Syncs -> JobRow] /\ \A s \in Syncs : InHand(job[s])'
<1> SUFFICES ASSUME FeedInv, [Next]_vars
             PROVE  job' \in [Syncs -> JobRow] /\ \A s \in Syncs : InHand(job[s])'
  OBVIOUS
<1>1. CASE job' = job
  BY <1>1 DEF FeedInv, TypeOK, InHand
<1>2. ASSUME NEW s \in Syncs, Round(s) \/ TransientFault(s) \/ FetchFails(s) \/ Crash(s)
      PROVE  job' \in [Syncs -> JobRow] /\ \A t \in Syncs : InHand(job[t])'
  BY <1>2, EndingType, RetryType, FetchedType, EntryType DEF Round
<1> QED
  BY <1>1, <1>2 DEF Next, vars, Publish, Freeze, Age, Purge

LEMMA RowsKept ==
  FeedInv /\ [Next]_vars =>
    /\ DOMAIN rows' = Feeds /\ \A f \in Feeds : rows'[f] \subseteq ArticleRows(f)
    /\ frozen' \subseteq Feeds \X Nat
    /\ RowsOK'
<1> SUFFICES ASSUME FeedInv, [Next]_vars
             PROVE  /\ DOMAIN rows' = Feeds /\ \A f \in Feeds : rows'[f] \subseteq ArticleRows(f)
                    /\ frozen' \subseteq Feeds \X Nat
                    /\ RowsOK'
  OBVIOUS
<1>1. CASE UNCHANGED <<rows, frozen>>
  BY <1>1 DEF FeedInv, TypeOK, RowsOK
<1>2. ASSUME NEW s \in Syncs, Store(s) PROVE frozen' \subseteq Feeds \X Nat
  BY <1>2 DEF Store, FeedInv, TypeOK
<1>3. ASSUME NEW s \in Syncs, Round(s) \/ TransientFault(s) \/ FetchFails(s) \/ Crash(s)
      PROVE  UNCHANGED <<rows, frozen>> \/ Store(s)
  BY <1>3 DEF Round, Start, NotModified, Fetch, SkipEntry, BadEntry, Match, Violation, Record,
              TransientFault, FetchFails, Crash, Fails
<1>4. ASSUME NEW f \in Feeds, Publish(f) PROVE UNCHANGED <<rows, frozen>>
  BY <1>4 DEF Publish
<1> QED
  BY <1>1, <1>2, <1>3, <1>4, StoreRows, OtherRows DEF Next, vars

LEMMA FeedInvKept == FeedInv /\ [Next]_vars => FeedInv'
<1> SUFFICES ASSUME FeedInv, [Next]_vars PROVE FeedInv'
  OBVIOUS
<1>1. ColumnsOK'
  BY ColumnsKept
<1>2. job' \in [Syncs -> JobRow] /\ \A s \in Syncs : InHand(job[s])'
  BY JobKept
<1>3. /\ DOMAIN rows' = Feeds /\ \A f \in Feeds : rows'[f] \subseteq ArticleRows(f)
      /\ frozen' \subseteq Feeds \X Nat
      /\ RowsOK'
  BY RowsKept
<1> QED
  BY <1>1, <1>2, <1>3, GhostsKept DEF FeedInv, TypeOK, ColumnsOK, GhostsOK, Listings

THEOREM FeedInvAlways == Spec => []FeedInv
  BY InitType, FeedInvKept, PTL DEF Spec

\* Any number of rounds at once, and any faults: each row of a feed comes from an entry
\* of it that has a link, and a round reads the entries of one version of one feed.
THEOREM TypeCorrect == Spec => []TypeOK
<1>1. FeedInv => TypeOK
  BY DEF FeedInv
<1> QED
  BY <1>1, FeedInvAlways, PTL

-----------------------------------------------------------------------------
(* What is settled, and what rounds at work rely on.                       *)

\* The version a round at its Store works on, and the entry it has come to.
LEMMA StoresEntry ==
  ASSUME FeedInv, NEW s \in Syncs, Store(s)
  PROVE  LET f == Feed(s)
             v == job[s].fetched
             n == Len(Kept(f, v)) - Len(job[s].entries) + 1
         IN /\ f \in Feeds /\ v \in Versions(f)
            /\ job[s].at = "store" /\ job[s].entries # <<>>
            /\ n \in Linked(f, v) /\ Entry(s) = Kept(f, v)[n] /\ Entry(s) \in AllLinked(f)
<1>1. job[s].at = "store" /\ job[s].entries # <<>> /\ Entry(s).url \notin {NoLink, BadLink}
  BY FeedOf DEF Store, At, InHand, Entry
<1> QED
  BY <1>1, FeedOf, EntryOf

\* A linked entry of a version is one of the feed.
LEMMA LinkedIsOfFeed ==
  ASSUME NEW f \in Feeds, NEW v \in Versions(f), NEW i \in Linked(f, v)
  PROVE  Kept(f, v)[i] \in AllLinked(f)
<1>1. Kept(f, v) \in Seq(EntriesOf(f, v))
  BY KeptType
<1>2. Kept(f, v)[i] \in EntriesOf(f, v)
  BY <1>1 DEF Linked
<1> QED
  BY <1>2 DEF AllLinked, AllEntries, Linked

\* The row a Store replaces has the GUID or the link of the entry that is stored.
LEMMA Replaced ==
  ASSUME FeedInv, NEW s \in Syncs, RoundOK(s), Store(s), s \notin met \/ Lasting(Feed(s)),
         NEW r \in rows[Feed(s)], r \notin Others(s)
  PROVE  \/ Entry(s).guid # NoGuid /\ r.guid = Entry(s).guid
         \/ r.url = Entry(s).url
<1>1. job[s].at = "store" /\ job[s].known # NoRow /\ r.id = job[s].known.id
  BY StoredRow DEF Store, At
<1>2. r.guid = job[s].known.guid /\ r.url = job[s].known.url
  BY <1>1 DEF RoundOK
<1> QED
  BY <1>1, <1>2 DEF RoundOK

\* An entry of any version whose article is there keeps it, when the links of its feed
\* are stable.
LEMMA ArticleKept ==
  ASSUME FeedInv, NEW s \in Syncs, RoundOK(s), Store(s), Lasting(Feed(s)),
         NEW e \in AllLinked(Feed(s)), NEW r \in rows[Feed(s)], IsOf(r, e)
  PROVE  \E q \in rows'[Feed(s)] : IsOf(q, e) /\ (~r.old => ~q.old)
<1>1. rows'[Feed(s)] = Others(s) \cup {Stored(s)} /\ Entry(s) \in AllLinked(Feed(s))
  BY StoredRow DEF FeedInv, TypeOK
<1>2. CASE r \in Others(s)
  BY <1>1, <1>2
<1>3. CASE r \notin Others(s)
  <2>1. \/ Entry(s).guid # NoGuid /\ r.guid = Entry(s).guid
        \/ r.url = Entry(s).url
    BY <1>3, Replaced
  <2>2. r.guid = e.guid /\ r.url = e.url
    BY DEF IsOf
  <2>3. e.guid = Entry(s).guid /\ e.url = Entry(s).url
    BY <1>1, <2>1, <2>2 DEF Lasting, StableLinks
  <2>4. IsOf(Stored(s), e) /\ ~Stored(s).old
    BY <2>3 DEF IsOf, Stored
  <2> QED
    BY <1>1, <2>4
<1> QED
  BY <1>2, <1>3

\* The text of an entry remains when another entry of its version is stored by a round
\* that has the feed for itself.
LEMMA TextKept ==
  ASSUME FeedInv, NEW s \in Syncs, RoundOK(s), Store(s), s \notin met,
         WellFormed(Feed(s), job[s].fetched),
         NEW i \in Linked(Feed(s), job[s].fetched), NEW r \in rows[Feed(s)],
         StoredAs(r, Kept(Feed(s), job[s].fetched)[i])
  PROVE  \E q \in rows'[Feed(s)] : /\ StoredAs(q, Kept(Feed(s), job[s].fetched)[i])
                                   /\ ~r.old => ~q.old
<1> DEFINE f == Feed(s)
           v == job[s].fetched
           E == Kept(f, v)
           n == Len(E) - Len(job[s].entries) + 1
<1>1. rows'[f] = Others(s) \cup {Stored(s)}
  BY StoredRow DEF FeedInv, TypeOK
<1>2. CASE r \in Others(s)
  BY <1>1, <1>2
<1>3. CASE r \notin Others(s)
  <2>1. n \in Linked(f, v) /\ Entry(s) = E[n]
    BY StoresEntry
  <2>2. \/ Entry(s).guid # NoGuid /\ r.guid = Entry(s).guid
        \/ r.url = Entry(s).url
    BY <1>3, Replaced
  <2>3. r.guid = E[i].guid /\ r.url = E[i].url
    BY DEF StoredAs, IsOf
  <2>4. WellFormed(f, v) /\ i \in Linked(f, v)
    OBVIOUS
  <2> HIDE DEF n, f, v
  <2>5. i = n
    BY <2>1, <2>2, <2>3, <2>4 DEF WellFormed
  <2>6. StoredAs(Stored(s), E[i]) /\ ~Stored(s).old
    BY <2>1, <2>5 DEF StoredAs, IsOf, Stored
  <2> QED
    BY <1>1, <2>6 DEF f, v
<1> QED
  BY <1>2, <1>3

\* After a Store, the entries up to the one that was stored are.
LEMMA Passes ==
  ASSUME FeedInv, NEW s \in Syncs, Store(s), NEW what,
         AllPassed(what, rows[Feed(s)], Feed(s), job[s].fetched, job[s].entries),
         \A i \in Linked(Feed(s), job[s].fetched) : \A r \in rows[Feed(s)] :
           Like(what, r, Kept(Feed(s), job[s].fetched)[i]) =>
             \E q \in rows'[Feed(s)] : /\ Like(what, q, Kept(Feed(s), job[s].fetched)[i])
                                       /\ ~r.old => ~q.old
  PROVE  AllPassed(what, rows'[Feed(s)], Feed(s), job[s].fetched, Tail(job[s].entries))
<1> DEFINE f == Feed(s)
           v == job[s].fetched
           E == Kept(f, v)
           left == job[s].entries
           n == Len(E) - Len(left) + 1
<1>1. n \in Linked(f, v) /\ Entry(s) = E[n] /\ left # <<>>
  BY StoresEntry
<1>2. Len(Tail(left)) = Len(left) - 1 /\ Len(left) \in Nat /\ Len(E) \in Nat /\ DOMAIN E = 1..Len(E)
  <2>1. left \in Seq(UNION {AllEntries(g) : g \in Feeds}) /\ Len(E) \in Nat /\ DOMAIN E = 1..Len(E)
    BY StoresEntry, EntryOf
  <2> QED
    BY <1>1, <2>1, TailType, LenProperties
<1>3. Stored(s) \in rows'[f] /\ Like(what, Stored(s), E[n]) /\ ~Stored(s).old
  <2>1. Stored(s) \in rows'[f]
    BY StoredRow DEF FeedInv, TypeOK
  <2> HIDE DEF f, n, E
  <2> QED
    BY <1>1, <2>1 DEF Like, IsOf, Stored
<1> SUFFICES ASSUME NEW i \in Linked(f, v), i <= Len(E) - Len(Tail(left))
             PROVE  \E r \in rows'[f] : Like(what, r, E[i]) /\ ~r.old
  BY DEF AllPassed
<1>4. CASE i <= Len(E) - Len(left)
  <2>1. PICK r \in rows[f] : Like(what, r, E[i]) /\ ~r.old
    BY <1>4 DEF AllPassed
  <2> QED
    BY <2>1
<1>5. CASE ~(i <= Len(E) - Len(left))
  <2>1. i \in 1..Len(E)
    BY <1>2 DEF Linked
  <2>2. i = n
    <3> DEFINE a == Len(E)
               b == Len(left)
               c == Len(Tail(left))
    <3>1. a \in Nat /\ b \in Nat /\ c = b - 1 /\ i \in 1..a /\ i <= a - c /\ ~(i <= a - b)
      BY <1>2, <1>5, <2>1
    <3> HIDE DEF a, b, c
    <3>2. i = a - b + 1
      BY <3>1
    <3> QED
      BY <3>2 DEF a, b
  <2> HIDE DEF n, E
  <2> QED
    BY <1>3, <2>2
<1> QED
  BY <1>4, <1>5

\* What a Store leaves as it is.
LEMMA StoreFrame ==
  ASSUME FeedInv, NEW s \in Syncs, Store(s)
  PROVE  LET f == Feed(s)
             v == job[s].fetched
         IN /\ \A g \in Feeds \ {f} : rows'[g] = rows[g] /\ settled'[g] = settled[g]
            /\ settled'[f] # 0 => settled'[f] = v /\ settled[f] = v
            /\ alone' \subseteq alone /\ (f \in alone' => s \notin met)
            /\ reused \subseteq reused' /\ met' = met
            /\ \A t \in Syncs \ {s} : job'[t] = job[t]
            /\ job'[s].at = "entry" /\ job'[s].todo = job[s].todo
            /\ job'[s].fetched = v /\ job'[s].entries = Tail(job[s].entries)
            /\ Feed(s)' = f
<1>1. Feed(s) \in Feeds /\ job[s] \in JobRow
  BY StoresEntry, FeedOf
<1>2. /\ job'[s].at = "entry" /\ job'[s].todo = job[s].todo
      /\ job'[s].fetched = job[s].fetched /\ job'[s].entries = Tail(job[s].entries)
  BY <1>1 DEF Store, FeedInv, TypeOK, JobRow
<1>3. Feed(s)' = Feed(s)
  BY <1>2 DEF Feed
<1>4. \A t \in Syncs \ {s} : job'[t] = job[t]
  BY DEF Store, FeedInv, TypeOK
<1>5. \A g \in Feeds \ {Feed(s)} : rows'[g] = rows[g] /\ settled'[g] = settled[g]
  BY DEF Store, FeedInv, TypeOK
<1>6. settled'[Feed(s)] # 0 => settled'[Feed(s)] = job[s].fetched /\ settled[Feed(s)] = job[s].fetched
  BY <1>1 DEF Store, FeedInv, TypeOK
<1>7. /\ alone' \subseteq alone /\ (Feed(s) \in alone' => s \notin met)
      /\ reused \subseteq reused' /\ met' = met
  BY DEF Store
<1> QED
  BY <1>2, <1>3, <1>4, <1>5, <1>6, <1>7

LEMMA StoreSettled ==
  ASSUME FeedInv, SyncInv, NEW s \in Syncs, Store(s)
  PROVE  SettledIsStored'
<1> DEFINE f == Feed(s)
           v == job[s].fetched
<1>1. f \in Feeds /\ v \in Versions(f) /\ RoundOK(s)
  BY StoresEntry DEF SyncInv
<1>2. /\ \A g \in Feeds \ {f} : rows'[g] = rows[g] /\ settled'[g] = settled[g]
      /\ settled'[f] # 0 => settled'[f] = v /\ settled[f] = v
      /\ alone' \subseteq alone /\ (f \in alone' => s \notin met)
      /\ reused \subseteq reused'
  BY StoreFrame
<1>3. ASSUME NEW g \in Feeds, settled'[g] # 0, NEW i \in Linked(g, settled'[g])
      PROVE  LET e == Kept(g, settled'[g])[i]
             IN /\ StableLinks(g) /\ g \notin reused' => \E r \in rows'[g] : IsOf(r, e)
                /\ WellFormed(g, settled'[g]) /\ g \in alone' => \E r \in rows'[g] : StoredAs(r, e)
  <2> DEFINE e == Kept(g, settled'[g])[i]
  <2>1. settled'[g] = settled[g]
    BY <1>2, <1>3
  <2>2. /\ StableLinks(g) /\ g \notin reused => \E r \in rows[g] : IsOf(r, e)
        /\ WellFormed(g, settled[g]) /\ g \in alone => \E r \in rows[g] : StoredAs(r, e)
    BY <1>3, <2>1 DEF SyncInv, SettledIsStored
  <2>3. CASE g # f
    BY <1>2, <2>1, <2>2, <2>3
  <2>4. CASE g = f
    <3>1. settled'[g] = v /\ i \in Linked(f, v) /\ e = Kept(f, v)[i]
      BY <1>2, <1>3, <2>1, <2>4
    <3>2. ASSUME StableLinks(g), g \notin reused' PROVE \E r \in rows'[g] : IsOf(r, e)
      <4>1. Lasting(f)
        BY <1>2, <2>4, <3>2 DEF Lasting
      <4>2. PICK r \in rows[f] : IsOf(r, e)
        BY <2>2, <2>4, <4>1 DEF Lasting
      <4>3. e \in AllLinked(f)
        BY <1>1, <3>1, LinkedIsOfFeed
      <4> HIDE DEF e
      <4> QED
        BY <1>1, <2>4, <4>1, <4>2, <4>3, ArticleKept
    <3>3. ASSUME WellFormed(g, settled'[g]), g \in alone' PROVE \E r \in rows'[g] : StoredAs(r, e)
      <4>1. s \notin met /\ WellFormed(f, v)
        BY <1>2, <2>4, <3>1, <3>3
      <4>2. PICK r \in rows[f] : StoredAs(r, Kept(f, v)[i])
        BY <1>2, <2>1, <2>2, <2>4, <3>1, <3>3
      <4> QED
        BY <1>1, <2>4, <3>1, <4>1, <4>2, TextKept
    <3> QED
      BY <3>2, <3>3
  <2> QED
    BY <2>3, <2>4
<1> QED
  BY <1>3 DEF SettledIsStored, StableLinks, WellFormed, Linked, IsOf, StoredAs

\* The round that stores.
LEMMA StoreRound ==
  ASSUME FeedInv, SyncInv, NEW s \in Syncs, Store(s)
  PROVE  RoundOK(s)'
<1> DEFINE f == Feed(s)
           v == job[s].fetched
           left == job[s].entries
<1>1. /\ f \in Feeds /\ v \in Versions(f) /\ RoundOK(s) /\ job[s].at = "store"
  BY StoresEntry DEF SyncInv
<1>2. /\ reused \subseteq reused' /\ met' = met
      /\ job'[s].at = "entry" /\ job'[s].fetched = v /\ job'[s].entries = Tail(left)
      /\ Feed(s)' = f
  BY StoreFrame
<1>3. ASSUME Lasting(f) PROVE AllPassed("article", rows'[f], f, v, Tail(left))
  <2>1. AllPassed("article", rows[f], f, v, left)
    BY <1>1, <1>3 DEF RoundOK
  <2>2. ASSUME NEW i \in Linked(f, v), NEW r \in rows[f], Like("article", r, Kept(f, v)[i])
        PROVE  \E q \in rows'[f] : Like("article", q, Kept(f, v)[i]) /\ (~r.old => ~q.old)
    <3>1. Kept(f, v)[i] \in AllLinked(f) /\ IsOf(r, Kept(f, v)[i])
      BY <1>1, <2>2, LinkedIsOfFeed DEF Like
    <3>2. PICK q \in rows'[f] : IsOf(q, Kept(f, v)[i]) /\ (~r.old => ~q.old)
      BY <1>1, <1>3, <3>1, ArticleKept
    <3> QED
      BY <3>2 DEF Like
  <2> QED
    BY <2>1, <2>2, Passes
<1>4. ASSUME WellFormed(f, v), s \notin met PROVE AllPassed("text", rows'[f], f, v, Tail(left))
  <2>1. AllPassed("text", rows[f], f, v, left)
    BY <1>1, <1>4 DEF RoundOK
  <2>2. ASSUME NEW i \in Linked(f, v), NEW r \in rows[f], Like("text", r, Kept(f, v)[i])
        PROVE  \E q \in rows'[f] : Like("text", q, Kept(f, v)[i]) /\ (~r.old => ~q.old)
    <3>1. StoredAs(r, Kept(f, v)[i])
      BY <2>2 DEF Like, StoredAs
    <3>2. PICK q \in rows'[f] : StoredAs(q, Kept(f, v)[i]) /\ (~r.old => ~q.old)
      BY <1>1, <1>4, <3>1, TextKept
    <3> QED
      BY <3>2 DEF Like, StoredAs
  <2> QED
    BY <2>1, <2>2, Passes
<1>5. Lasting(f)' => Lasting(f)
  BY <1>2 DEF Lasting, StableLinks
<1> HIDE DEF f, v, left
<1>6. /\ Lasting(Feed(s))' => AllPassed("article", rows[Feed(s)], Feed(s), job[s].fetched, job[s].entries)'
      /\ WellFormed(Feed(s), job[s].fetched)' /\ s \notin met' =>
           AllPassed("text", rows[Feed(s)], Feed(s), job[s].fetched, job[s].entries)'
  <2>1. Lasting(Feed(s))' => Lasting(f)
    BY <1>2, <1>5 DEF Lasting
  <2>2. WellFormed(Feed(s), job[s].fetched)' => WellFormed(f, v)
    BY <1>2 DEF WellFormed, Linked
  <2>3. \A what : AllPassed(what, rows'[f], f, v, Tail(left)) =>
          AllPassed(what, rows[Feed(s)], Feed(s), job[s].fetched, job[s].entries)'
    BY <1>2 DEF AllPassed, Linked, Like, IsOf
  <2> QED
    BY <1>2, <1>3, <1>4, <2>1, <2>2, <2>3
<1> QED
  BY <1>2, <1>6 DEF RoundOK

\* A round whose feed's articles are as before.
LEMMA RivalKept ==
  ASSUME SyncInv, NEW t \in Syncs, rows'[Feed(t)] = rows[Feed(t)], job'[t] = job[t],
         reused \subseteq reused', t \in met => t \in met'
  PROVE  RoundOK(t)'
<1>1. RoundOK(t)
  BY DEF SyncInv
<1>2. Feed(t)' = Feed(t) /\ Entry(t)' = Entry(t)
  BY DEF Feed, Entry
<1>3. /\ Lasting(Feed(t))' => Lasting(Feed(t))
      /\ WellFormed(Feed(t), job[t].fetched)' => WellFormed(Feed(t), job[t].fetched)
  BY <1>2 DEF Lasting, StableLinks, WellFormed, Linked
<1>4. \A what : AllPassed(what, rows[Feed(t)], Feed(t), job[t].fetched, job[t].entries) =>
        AllPassed(what, rows[Feed(t)], Feed(t), job[t].fetched, job[t].entries)'
  BY <1>2 DEF AllPassed, Linked, Like, IsOf
<1> QED
  BY <1>1, <1>2, <1>3, <1>4 DEF RoundOK

\* Another round, in the same feed or not.
LEMMA StoreRival ==
  ASSUME FeedInv, SyncInv, NEW s \in Syncs, Store(s), NEW t \in Syncs \ {s}
  PROVE  RoundOK(t)'
<1>0. PICK f, g, w, left, known :
        /\ f = Feed(s) /\ g = Feed(t) /\ w = job[t].fetched
        /\ left = job[t].entries /\ known = job[t].known
  OBVIOUS
<1> USE <1>0
<1>1. f \in Feeds /\ RoundOK(s) /\ RoundOK(t) /\ job[s].at = "store"
  BY StoresEntry DEF SyncInv
<1>2. /\ \A h \in Feeds \ {f} : rows'[h] = rows[h]
      /\ reused \subseteq reused' /\ met' = met /\ job'[t] = job[t]
  BY StoreFrame
<1>3. Feed(t)' = g /\ Entry(t)' = Entry(t)
  BY <1>2 DEF Feed, Entry
<1> SUFFICES ASSUME InFeed(t) PROVE RoundOK(t)'
  BY <1>2 DEF InFeed, RoundOK
<1>4. g \in Feeds /\ w \in Versions(g) /\ job[t].at \in {"entry", "store"}
  BY EntryOf, FeedOf DEF InFeed
<1>5. Lasting(g)' => Lasting(g)
  BY <1>2 DEF Lasting, StableLinks
<1>6. CASE g # f
  <2>1. rows'[g] = rows[g]
    BY <1>2, <1>4, <1>6
  <2> QED
    BY <1>2, <2>1, RivalKept
<1>7. CASE g = f
  <2>1. t \in met
    BY <1>1, <1>7 DEF SyncInv, MetOK, InFeed
  <2>2. ASSUME Lasting(g)' PROVE AllPassed("article", rows'[g], g, w, left)
    <3>1. Lasting(f) /\ AllPassed("article", rows[g], g, w, left)
      BY <1>1, <1>4, <1>5, <1>7, <2>2 DEF RoundOK
    <3> SUFFICES ASSUME NEW i \in Linked(g, w), i <= Len(Kept(g, w)) - Len(left)
                 PROVE  \E q \in rows'[g] : Like("article", q, Kept(g, w)[i]) /\ ~q.old
      BY DEF AllPassed
    <3>2. PICK r \in rows[g] : Like("article", r, Kept(g, w)[i]) /\ ~r.old
      BY <3>1 DEF AllPassed
    <3>3. Kept(g, w)[i] \in AllLinked(f) /\ IsOf(r, Kept(g, w)[i])
      BY <1>4, <1>7, <3>2, LinkedIsOfFeed DEF Like
    <3>4. PICK q \in rows'[f] : IsOf(q, Kept(g, w)[i]) /\ (~r.old => ~q.old)
      BY <1>1, <1>7, <3>1, <3>2, <3>3, ArticleKept
    <3> QED
      BY <1>7, <3>2, <3>4 DEF Like
  <2>3. ASSUME job[t].at = "store", known # NoRow, Lasting(g)', NEW r \in rows'[g], r.id = known.id
        PROVE  r.guid = known.guid /\ r.url = known.url
    <3>1. Lasting(f) /\ \A x \in rows[f] : x.id = known.id => x.guid = known.guid /\ x.url = known.url
      BY <1>1, <1>5, <1>7, <2>3 DEF RoundOK
    <3>2. /\ rows'[f] = Others(s) \cup {Stored(s)} /\ Others(s) \subseteq rows[f]
          /\ Entry(s) \in AllLinked(f)
      BY StoredRow DEF FeedInv, TypeOK
    <3>3. CASE r \in Others(s)
      BY <2>3, <3>1, <3>2, <3>3
    <3>4. CASE r = Stored(s)
      <4>1. CASE job[s].known = NoRow
        <5>1. Stored(s).id = NextId(f)
          BY <4>1 DEF Stored
        <5>2. t \in Rivals(s) /\ At(t, "store")
          BY <1>7, <2>3 DEF Rivals, At
        <5>3. GivesAway(s)
          BY <2>3, <3>4, <4>1, <5>1, <5>2 DEF GivesAway
        <5>4. f \in reused'
          BY <5>3 DEF Store
        <5> QED
          BY <1>7, <2>3, <5>4 DEF Lasting
      <4>2. CASE job[s].known # NoRow
        <5>1. Stored(s).id = job[s].known.id
          BY <4>2 DEF Stored
        <5>2. PICK x \in rows[f] : x.id = job[s].known.id
          BY <4>2 DEF Store, KnownIsThere
        <5>3. x.guid = known.guid /\ x.url = known.url
          BY <2>3, <3>1, <3>4, <5>1, <5>2
        <5>4. \/ Entry(s).guid # NoGuid /\ x.guid = Entry(s).guid
              \/ x.url = Entry(s).url
          <6>1. x \notin Others(s)
            BY <4>2, <5>2 DEF Others
          <6> QED
            BY <1>1, <3>1, <5>2, <6>1, Replaced
        <5>5. PICK e \in AllLinked(f) : x.guid = e.guid /\ x.url = e.url
          BY <1>1 DEF FeedInv, RowsOK
        <5>6. e.guid = Entry(s).guid /\ e.url = Entry(s).url
          BY <3>1, <3>2, <5>4, <5>5 DEF Lasting, StableLinks
        <5> QED
          BY <3>4, <5>3, <5>5, <5>6 DEF Stored
      <4> QED
        BY <4>1, <4>2
    <3> QED
      BY <1>7, <3>2, <3>3, <3>4
  <2>4. ASSUME job[t].at = "store", known # NoRow
        PROVE  \/ Entry(t).guid # NoGuid /\ known.guid = Entry(t).guid
               \/ known.url = Entry(t).url
    BY <1>1, <2>4 DEF RoundOK
  <2>5. Lasting(Feed(t))' => Lasting(g)'
    BY <1>3 DEF Lasting
  <2>6. AllPassed("article", rows'[g], g, w, left) =>
          AllPassed("article", rows[Feed(t)], Feed(t), job[t].fetched, job[t].entries)'
    BY <1>2, <1>3 DEF AllPassed, Linked, Like, IsOf
  <2> QED
    BY <1>2, <1>3, <2>1, <2>2, <2>3, <2>4, <2>5, <2>6 DEF RoundOK
<1> QED
  BY <1>6, <1>7

\* What keeps the rows and what is settled keeps SettledIsStored.
LEMMA SettledKept ==
  ASSUME SettledIsStored, UNCHANGED <<rows, history>> PROVE SettledIsStored'
  BY DEF SettledIsStored, history, StableLinks, WellFormed, Linked, IsOf, StoredAs

\* Where a round is after the end of a feed.
LEMMA NextPlace ==
  ASSUME FeedInv, NEW s \in Syncs, FeedEnds(s) \/ RoundEnds(s)
  PROVE  /\ job'[s].at \in {"fetch", "idle"}
         /\ \A t \in Syncs \ {s} : job'[t] = job[t] /\ (t \in met' <=> t \in met)
<1> DEFINE next == [Idle EXCEPT !.at = "fetch", !.todo = Tail(job[s].todo), !.listed = job[s].listed]
<1>1. next.at = "fetch" /\ Idle.at = "idle"
  BY DEF Idle
<1>2. job' = [job EXCEPT ![s] = next] \/ job' = [job EXCEPT ![s] = Idle]
  BY DEF FeedEnds, RoundEnds
<1>3. met' = met \ {s}
  BY DEF FeedEnds, RoundEnds
<1> HIDE DEF next
<1> QED
  BY <1>1, <1>2, <1>3 DEF FeedInv, TypeOK

\* The rounds' part of the steps that store nothing: the round itself.
LEMMA RoundKept ==
  ASSUME FeedInv, SyncInv, NEW s \in Syncs,
         \/ Start(s) \/ NotModified(s) \/ Fetch(s) \/ SkipEntry(s) \/ BadEntry(s) \/ Match(s)
         \/ Violation(s) \/ Record(s) \/ TransientFault(s) \/ FetchFails(s) \/ Crash(s)
  PROVE  RoundOK(s)'
<1> USE DEF At
<1>1. job \in [Syncs -> JobRow] /\ RoundOK(s)
  BY DEF FeedInv, TypeOK, SyncInv
<1>2. CASE FeedEnds(s) \/ RoundEnds(s)
  <2>1. job'[s].at \in {"fetch", "idle"}
    BY <1>2, NextPlace
  <2> QED
    BY <2>1 DEF RoundOK
<1>3. CASE Start(s)
  <2>1. job'[s].at = "fetch"
    BY <1>1, <1>3 DEF Start, Idle
  <2> QED
    BY <2>1 DEF RoundOK
<1>4. CASE TransientFault(s)
  <2>1. FeedEnds(s) \/ job'[s].at = "fetch"
    <3>1. \/ FeedEnds(s)
          \/ job[s].at = "fetch" /\ job' = [job EXCEPT ![s].attempt = @ + 1]
      BY <1>4 DEF TransientFault, Fails
    <3>2. ASSUME job[s].at = "fetch", job' = [job EXCEPT ![s].attempt = @ + 1]
          PROVE  job'[s].at = "fetch"
      BY <1>1, <3>2 DEF JobRow
    <3> QED
      BY <3>1, <3>2
  <2> QED
    BY <1>2, <2>1 DEF RoundOK
<1>5. CASE Fetch(s)
  <2>0. PICK f, v : f = Feed(s) /\ v = published[f]
    OBVIOUS
  <2> DEFINE E == Kept(f, v)
  <2>1. f \in Feeds /\ v \in Versions(f)
    BY <1>5, <2>0, FeedOf DEF Fetch, FeedInv, TypeOK
  <2>2. E \in Seq(EntriesOf(f, v))
    BY <2>1, KeptType
  <2>3. Len(E) \in Nat /\ DOMAIN E = 1..Len(E)
    BY <2>2, LenProperties
  <2>4. /\ job'[s].at = "entry" /\ job'[s].fetched = v /\ job'[s].entries = E
        /\ Feed(s)' = f
    BY <1>1, <1>5, <2>0 DEF Fetch, JobRow, Feed
  <2>5. \A i \in Linked(f, v) : ~(i <= Len(E) - Len(E))
    BY <2>3 DEF Linked
  <2>6. \A what : AllPassed(what, rows[Feed(s)], Feed(s), job[s].fetched, job[s].entries)'
    BY <2>4, <2>5 DEF AllPassed, Linked
  <2> QED
    BY <2>4, <2>6 DEF RoundOK
<1>6. CASE SkipEntry(s) \/ Match(s)
  <2>0. PICK f, v, left, n : /\ f = Feed(s) /\ v = job[s].fetched /\ left = job[s].entries
                             /\ n = Len(Kept(f, v)) - Len(left) + 1
    OBVIOUS
  <2> DEFINE E == Kept(f, v)
  <2>1. /\ job[s].at = "entry" /\ left # <<>> /\ rows' = rows
        /\ met' = met /\ reused' = reused
    BY <1>6, <2>0 DEF SkipEntry, Match, history
  <2>2. /\ Lasting(f) => AllPassed("article", rows[f], f, v, left)
        /\ WellFormed(f, v) /\ s \notin met => AllPassed("text", rows[f], f, v, left)
    BY <1>1, <2>0, <2>1 DEF RoundOK
  <2>3. Lasting(f)' = Lasting(f) /\ WellFormed(f, v)' = WellFormed(f, v)
    BY <2>1 DEF Lasting, StableLinks, WellFormed, Linked
  <2>4. CASE SkipEntry(s)
    <3>1. /\ job'[s].at = "entry" /\ job'[s].fetched = v /\ job'[s].entries = Tail(left)
          /\ Feed(s)' = f
      BY <1>1, <2>0, <2>4 DEF SkipEntry, JobRow, Feed
    <3>2. left \in Seq(UNION {AllEntries(g) : g \in Feeds}) /\ Len(E) \in Nat /\ DOMAIN E = 1..Len(E)
          /\ Entry(s) = E[n]
      BY <2>0, <2>1, EntryOf
    <3>3. Len(Tail(left)) = Len(left) - 1 /\ Len(left) \in Nat
      BY <2>1, <3>2, TailType, LenProperties
    <3>4. ASSUME NEW i \in Linked(f, v), i <= Len(E) - Len(Tail(left))
          PROVE  i <= Len(E) - Len(left)
      <4>1. i # n
        BY <2>4, <3>2 DEF Linked, SkipEntry
      <4>2. i \in 1..Len(E)
        BY <3>2 DEF Linked
      <4> DEFINE a == Len(E)
                 b == Len(left)
                 c == Len(Tail(left))
      <4>3. a \in Nat /\ b \in Nat /\ c = b - 1 /\ i \in 1..a /\ i <= a - c /\ i # a - b + 1
        BY <2>0, <3>2, <3>3, <3>4, <4>1, <4>2
      <4> HIDE DEF a, b, c
      <4>4. i <= a - b
        BY <4>3
      <4> QED
        BY <4>4 DEF a, b
    <3>5. \A what : AllPassed(what, rows[f], f, v, left) =>
            AllPassed(what, rows[Feed(s)], Feed(s), job[s].fetched, job[s].entries)'
      BY <2>1, <3>1, <3>4 DEF AllPassed, Linked, Like, IsOf
    <3>6. /\ Lasting(Feed(s))' => Lasting(f)
          /\ WellFormed(Feed(s), job[s].fetched)' => WellFormed(f, v)
      BY <2>1, <3>1 DEF Lasting, StableLinks, WellFormed, Linked
    <3> QED
      BY <2>1, <2>2, <3>1, <3>5, <3>6 DEF RoundOK
  <2>5. CASE Match(s)
    <3>0. PICK known : known = Find(f, Entry(s))
      OBVIOUS
    <3>1. /\ job'[s].at = "store" /\ job'[s].fetched = v /\ job'[s].entries = left
          /\ job'[s].known = known
          /\ Feed(s)' = f /\ Entry(s)' = Entry(s)
      BY <1>1, <2>0, <2>5, <3>0 DEF Match, JobRow, Feed, Entry
    <3>2. f \in Feeds
      BY <2>0, <2>1, FeedOf
    <3>3. known # NoRow =>
            /\ \A r \in rows'[f] : r.id = known.id => r.guid = known.guid /\ r.url = known.url
            /\ \/ Entry(s).guid # NoGuid /\ known.guid = Entry(s).guid
               \/ known.url = Entry(s).url
      <4>1. known # NoRow => /\ known \in rows[f]
                             /\ \/ Entry(s).guid # NoGuid /\ known.guid = Entry(s).guid
                                \/ known.url = Entry(s).url
        BY <3>0, FindIs
      <4> QED
        BY <2>1, <3>2, <4>1 DEF FeedInv, RowsOK
    <3>4. \A what : AllPassed(what, rows[f], f, v, left) =>
            AllPassed(what, rows[Feed(s)], Feed(s), job[s].fetched, job[s].entries)'
      BY <2>1, <3>1 DEF AllPassed, Linked, Like, IsOf
    <3>5. /\ Lasting(Feed(s))' => Lasting(f)
          /\ WellFormed(Feed(s), job[s].fetched)' => WellFormed(f, v)
      BY <2>1, <3>1 DEF Lasting, StableLinks, WellFormed, Linked
    <3> QED
      BY <2>1, <2>2, <3>1, <3>3, <3>4, <3>5 DEF RoundOK
  <2> QED
    BY <1>6, <2>4, <2>5
<1> QED
  BY <1>2, <1>3, <1>4, <1>5, <1>6 DEF NotModified, BadEntry, Violation, Record, FetchFails, Crash, Fails

LEMMA RecordKept ==
  ASSUME FeedInv, SyncInv, NEW s \in Syncs, Record(s)
  PROVE  SettledIsStored'
<1>0. PICK f, v : f = Feed(s) /\ v = job[s].fetched
  OBVIOUS
<1>1. job[s].at = "entry" /\ job[s].entries = <<>>
  BY DEF Record, At
<1>2. /\ rows' = rows /\ reused' = reused /\ settled'[f] = v
      /\ \A g \in Feeds \ {f} : settled'[g] = settled[g] /\ (g \in alone' => g \in alone)
      /\ f \in alone' => s \notin met
  BY <1>0, <1>1, FeedOf DEF Record, FeedInv, TypeOK
<1>3. Len(Kept(f, v)) \in Nat /\ DOMAIN Kept(f, v) = 1..Len(Kept(f, v))
  BY <1>0, <1>1, EntryOf
<1>4. \A i \in Linked(f, v) : i <= Len(Kept(f, v)) - Len(<<>>)
  BY <1>3 DEF Linked
<1>5. /\ Lasting(f) => \A i \in Linked(f, v) : \E r \in rows[f] : IsOf(r, Kept(f, v)[i])
      /\ WellFormed(f, v) /\ s \notin met =>
           \A i \in Linked(f, v) : \E r \in rows[f] : StoredAs(r, Kept(f, v)[i])
  <2>1. /\ Lasting(f) => AllPassed("article", rows[f], f, v, <<>>)
        /\ WellFormed(f, v) /\ s \notin met => AllPassed("text", rows[f], f, v, <<>>)
    BY <1>0, <1>1 DEF SyncInv, RoundOK
  <2> QED
    BY <1>4, <2>1 DEF AllPassed, Like, StoredAs
<1>6. ASSUME NEW g \in Feeds, settled'[g] # 0, NEW i \in Linked(g, settled'[g])
      PROVE  LET e == Kept(g, settled'[g])[i]
             IN /\ StableLinks(g) /\ g \notin reused' => \E r \in rows'[g] : IsOf(r, e)
                /\ WellFormed(g, settled'[g]) /\ g \in alone' => \E r \in rows'[g] : StoredAs(r, e)
  <2>1. CASE g = f
    BY <1>2, <1>5, <1>6, <2>1 DEF Lasting
  <2>2. CASE g # f
    <3>1. settled'[g] = settled[g] /\ (g \in alone' => g \in alone)
      BY <1>2, <2>2
    <3> QED
      BY <1>2, <1>6, <3>1 DEF SyncInv, SettledIsStored
  <2> QED
    BY <2>1, <2>2
<1> QED
  BY <1>6 DEF SettledIsStored, StableLinks, WellFormed, Linked, IsOf, StoredAs

\* Whoever fetches where others are at work has met them, and they it.
LEMMA MetKept == FeedInv /\ MetOK /\ [Next]_vars => MetOK'
<1> SUFFICES ASSUME FeedInv, MetOK, [Next]_vars PROVE MetOK'
  OBVIOUS
<1>1. CASE UNCHANGED <<job, met>>
  BY <1>1 DEF MetOK, InFeed, Feed
<1>2. ASSUME NEW s \in Syncs, FeedEnds(s) \/ RoundEnds(s) PROVE MetOK'
  <2>1. /\ job'[s].at \in {"fetch", "idle"}
        /\ \A t \in Syncs \ {s} : job'[t] = job[t] /\ (t \in met' <=> t \in met)
    BY <1>2, NextPlace
  <2> SUFFICES ASSUME NEW t \in Syncs, NEW u \in Syncs,
                      t # u, InFeed(t)', InFeed(u)', Feed(t)' = Feed(u)'
               PROVE  t \in met'
    BY DEF MetOK
  <2>2. t # s /\ u # s
    BY <2>1 DEF InFeed
  <2> QED
    BY <2>1, <2>2 DEF MetOK, InFeed, Feed
<1>3. ASSUME NEW s \in Syncs, met' = met, \A t \in Syncs \ {s} : job'[t] = job[t],
             InFeed(s)' => InFeed(s) /\ Feed(s)' = Feed(s)
      PROVE  MetOK'
  <2> SUFFICES ASSUME NEW t \in Syncs, NEW u \in Syncs,
                      t # u, InFeed(t)', InFeed(u)', Feed(t)' = Feed(u)'
               PROVE  t \in met'
    BY DEF MetOK
  <2>1. ASSUME NEW x \in Syncs, InFeed(x)' PROVE InFeed(x) /\ Feed(x)' = Feed(x)
    BY <1>3, <2>1 DEF InFeed, Feed
  <2>2. InFeed(t) /\ InFeed(u) /\ Feed(t) = Feed(u)
    BY <2>1
  <2> QED
    BY <1>3, <2>2 DEF MetOK
<1>4. ASSUME NEW s \in Syncs, Start(s) \/ SkipEntry(s) \/ Match(s) \/ Store(s)
             \/ (job[s].at = "fetch" /\ met' = met /\ job' = [job EXCEPT ![s].attempt = @ + 1])
      PROVE  MetOK'
  <2>1. met' = met /\ \A t \in Syncs \ {s} : job'[t] = job[t]
    BY <1>4 DEF Start, SkipEntry, Match, Store, FeedInv, TypeOK
  <2>2. job \in [Syncs -> JobRow] /\ job[s] \in JobRow
    BY DEF FeedInv, TypeOK
  <2>3. \/ job'[s].at \in {"fetch", "idle"}
        \/ InFeed(s) /\ job'[s].todo = job[s].todo
    <3>1. CASE Start(s)
      BY <2>2, <3>1 DEF Start, Idle
    <3>2. CASE SkipEntry(s)
      BY <2>2, <3>2 DEF SkipEntry, InFeed, At, JobRow
    <3>3. CASE Match(s)
      BY <2>2, <3>3 DEF Match, InFeed, At, JobRow
    <3>4. CASE Store(s)
      BY <3>4, StoreFrame DEF Store, InFeed, At
    <3>5. CASE job[s].at = "fetch" /\ job' = [job EXCEPT ![s].attempt = @ + 1]
      BY <2>2, <3>5 DEF JobRow
    <3> QED
      BY <1>4, <3>1, <3>2, <3>3, <3>4, <3>5
  <2>4. InFeed(s)' => InFeed(s) /\ Feed(s)' = Feed(s)
    BY <2>3 DEF InFeed, Feed
  <2> QED
    BY <1>3, <2>1, <2>4
<1>5. ASSUME NEW s \in Syncs, Fetch(s) PROVE MetOK'
  <2>1. /\ \A t \in Syncs \ {s} : job'[t] = job[t] /\ Feed(t)' = Feed(t)
        /\ Feed(s)' = Feed(s)
        /\ met' = IF Rivals(s) = {} THEN met ELSE met \cup {s} \cup Rivals(s)
    BY <1>5 DEF Fetch, FeedInv, TypeOK, JobRow, Feed
  <2> SUFFICES ASSUME NEW t \in Syncs, NEW u \in Syncs,
                      t # u, InFeed(t)', InFeed(u)', Feed(t)' = Feed(u)'
               PROVE  t \in met'
    BY DEF MetOK
  <2>2. CASE t # s /\ u # s
    BY <2>1, <2>2 DEF MetOK, InFeed
  <2>3. CASE t = s
    <3>1. u \in Rivals(s)
      BY <2>1, <2>3 DEF Rivals, InFeed, At
    <3> QED
      BY <2>1, <2>3, <3>1
  <2>4. CASE u = s
    <3>1. t \in Rivals(s)
      BY <2>1, <2>4 DEF Rivals, InFeed, At
    <3> QED
      BY <2>1, <3>1
  <2> QED
    BY <2>2, <2>3, <2>4
<1>6. ASSUME NEW s \in Syncs, Round(s) \/ TransientFault(s) \/ FetchFails(s) \/ Crash(s)
      PROVE  MetOK'
  <2>1. \/ FeedEnds(s) \/ RoundEnds(s)
        \/ Start(s) \/ SkipEntry(s) \/ Match(s) \/ Store(s) \/ Fetch(s)
        \/ job[s].at = "fetch" /\ met' = met /\ job' = [job EXCEPT ![s].attempt = @ + 1]
    BY <1>6 DEF Round, NotModified, BadEntry, Violation, Record, TransientFault, FetchFails, Crash,
                Fails, At
  <2> QED
    BY <1>2, <1>4, <1>5, <2>1
<1> QED
  BY <1>1, <1>6 DEF Next, vars, Publish, Freeze, Age, Purge

LEMMA SyncInvKept == FeedInv /\ SyncInv /\ [Next]_vars => SyncInv'
<1> SUFFICES ASSUME FeedInv, SyncInv, [Next]_vars PROVE SyncInv'
  OBVIOUS
<1>0. MetOK'
  BY MetKept DEF SyncInv
<1>1. CASE UNCHANGED <<rows, history, job, met>>
  <2>1. \A s \in Syncs : RoundOK(s)'
    BY <1>1, RivalKept DEF history
  <2> QED
    BY <1>0, <1>1, <2>1, SettledKept DEF SyncInv
<1>2. ASSUME NEW s \in Syncs, Round(s) \/ TransientFault(s) \/ FetchFails(s) \/ Crash(s)
      PROVE  SyncInv'
  <2>1. RoundOK(s)'
    BY <1>2, RoundKept, StoreRound DEF Round
  <2>2. UNCHANGED <<rows, history>> \/ Store(s) \/ Record(s)
    BY <1>2 DEF Round, Start, NotModified, Fetch, SkipEntry, BadEntry, Match, Violation,
                TransientFault, FetchFails, Crash, Fails
  <2>3. SettledIsStored'
    BY <2>2, SettledKept, StoreSettled, RecordKept DEF SyncInv
  <2>4. ASSUME NEW t \in Syncs \ {s} PROVE RoundOK(t)'
    <3>1. CASE Store(s)
      BY <3>1, StoreRival
    <3>2. CASE ~Store(s)
      <4>1. rows' = rows /\ reused' = reused
        BY <2>2, <3>2 DEF history, Record
      <4>2. job'[t] = job[t] /\ (t \in met => t \in met')
        <5>1. \/ FeedEnds(s) \/ RoundEnds(s)
              \/ Start(s) \/ SkipEntry(s) \/ Match(s) \/ Fetch(s)
              \/ met' = met /\ job' = [job EXCEPT ![s].attempt = @ + 1]
          BY <1>2, <3>2 DEF Round, NotModified, BadEntry, Violation, Record, TransientFault,
                            FetchFails, Crash, Fails
        <5>2. ASSUME Start(s) \/ SkipEntry(s) \/ Match(s) \/ Fetch(s)
                     \/ (met' = met /\ job' = [job EXCEPT ![s].attempt = @ + 1])
              PROVE  job'[t] = job[t] /\ (t \in met => t \in met')
          BY <5>2 DEF Start, SkipEntry, Match, Fetch, FeedInv, TypeOK
        <5> QED
          BY <5>1, <5>2, NextPlace
      <4> QED
        BY <4>1, <4>2, RivalKept
    <3> QED
      BY <3>1, <3>2
  <2> QED
    BY <1>0, <2>1, <2>3, <2>4 DEF SyncInv
<1>3. CASE Age
  <2>1. \A s \in Syncs : RoundOK(s)'
    BY <1>3 DEF Age, At, RoundOK
  <2>2. ASSUME NEW f \in Feeds, NEW r \in rows[f]
        PROVE  \E q \in rows'[f] : q.guid = r.guid /\ q.url = r.url /\ q.text = r.text
    <3> DEFINE q == [r EXCEPT !.old = TRUE]
    <3>1. r \in ArticleRows(f)
      BY DEF FeedInv, TypeOK
    <3>2. q.guid = r.guid /\ q.url = r.url /\ q.text = r.text
      BY <3>1 DEF ArticleRows, RowsOf
    <3>3. q \in rows'[f]
      BY <1>3 DEF Age
    <3> QED
      BY <3>2, <3>3
  <2>3. settled' = settled /\ alone' = alone /\ reused' = reused
    BY <1>3 DEF Age, history
  <2>4. SettledIsStored'
    BY <2>2, <2>3 DEF SyncInv, SettledIsStored, IsOf, StoredAs, StableLinks, WellFormed, Linked
  <2> QED
    BY <1>0, <2>1, <2>4 DEF SyncInv
<1>4. CASE Purge
  <2>1. /\ job' = job /\ alone' = alone /\ met' = met /\ reused' = reused
        /\ \A f \in Feeds : rows'[f] = rows[f] \ Expired(f)
        /\ \A f \in Feeds : settled'[f] # 0 => settled'[f] = settled[f] /\ rows'[f] = rows[f]
    BY <1>4 DEF Purge
  <2>2. ASSUME NEW s \in Syncs PROVE RoundOK(s)'
    <3>1. CASE job[s].at \notin {"entry", "store"}
      BY <2>1, <3>1 DEF RoundOK
    <3>2. CASE job[s].at \in {"entry", "store"}
      <4>1. Feed(s) \in Feeds
        BY <3>2, FeedOf
      <4>2. \A r \in rows[Feed(s)] : ~r.old => r \in rows'[Feed(s)]
        BY <2>1, <4>1 DEF Expired
      <4>3. rows'[Feed(s)] \subseteq rows[Feed(s)]
        BY <2>1, <4>1
      <4>4. Feed(s)' = Feed(s) /\ Entry(s)' = Entry(s)
        BY <2>1 DEF Feed, Entry
      <4>5. \A what : AllPassed(what, rows[Feed(s)], Feed(s), job[s].fetched, job[s].entries) =>
              AllPassed(what, rows[Feed(s)], Feed(s), job[s].fetched, job[s].entries)'
        BY <2>1, <4>2, <4>4 DEF AllPassed, Linked, Like, IsOf
      <4>6. /\ Lasting(Feed(s))' => Lasting(Feed(s))
            /\ WellFormed(Feed(s), job[s].fetched)' => WellFormed(Feed(s), job[s].fetched)
        BY <2>1, <4>4 DEF Lasting, StableLinks, WellFormed, Linked
      <4>7. RoundOK(s)
        BY DEF SyncInv
      <4> QED
        BY <2>1, <4>3, <4>4, <4>5, <4>6, <4>7 DEF RoundOK
    <3> QED
      BY <3>1, <3>2
  <2>3. SettledIsStored'
    BY <2>1 DEF SyncInv, SettledIsStored, IsOf, StoredAs, StableLinks, WellFormed, Linked
  <2> QED
    BY <1>0, <2>2, <2>3 DEF SyncInv
<1>5. ASSUME NEW f \in Feeds, Publish(f) \/ \E r \in rows[f] : Freeze(f, r)
      PROVE  UNCHANGED <<rows, history, job, met>>
  BY <1>5 DEF Publish, Freeze
<1> QED
  BY <1>1, <1>2, <1>3, <1>4, <1>5 DEF Next, vars

LEMMA SyncInvInit == Init => SyncInv
<1> SUFFICES ASSUME Init PROVE SyncInv
  OBVIOUS
<1>1. SettledIsStored
  BY DEF Init, SettledIsStored
<1>2. \A s \in Syncs : RoundOK(s) /\ ~InFeed(s)
  BY DEF Init, Idle, RoundOK, InFeed
<1> QED
  BY <1>1, <1>2 DEF SyncInv, MetOK

\* Any number of rounds at once, and any faults: a feed whose success is recorded has
\* the article of every entry of that version up to the limit (sync_feed, reconcile_article),
\* and its text if the rounds that stored it had the feed for themselves.
THEOREM SettledIsStoredAlways == Spec => []SettledIsStored
<1>1. SyncInv => SettledIsStored
  BY DEF SyncInv
<1> QED
  BY <1>1, SyncInvInit, SyncInvKept, FeedInvAlways, PTL DEF Spec

\* An article of an edition remains what it is, unless its feed moves links around.
LEMMA ArticleStays ==
  ASSUME FeedInv, FeedInv', SyncInv, [Next]_vars, NEW k \in frozen
  PROVE  LET before == Means(k[1], k[2])
             after  == Means(k[1], k[2])'
         IN /\ Cardinality(after) = 1
            /\ StableLinks(k[1]) /\ k[1] \notin reused => after = before
<1> DEFINE f == k[1]
           Identity(r) == <<r.guid, r.url>>
<1>1. f \in Feeds /\ k \in frozen'
  <2>1. frozen \subseteq frozen'
    BY DEF Next, vars, Round, Start, NotModified, Fetch, SkipEntry, BadEntry, Match, Violation,
           Store, Record, TransientFault, FetchFails, Crash, Fails, Publish, Freeze, Age, Purge
  <2> QED
    BY <2>1 DEF FeedInv, TypeOK
<1>2. PICK r \in rows[f] : r.id = k[2]
  BY DEF FeedInv, RowsOK
<1>3. PICK q \in rows'[f] : q.id = k[2]
  BY <1>1 DEF FeedInv, RowsOK
<1>4. Means(f, k[2]) = {Identity(r)}
  BY <1>1, <1>2 DEF Means, FeedInv, RowsOK
<1>5. Means(f, k[2])' = {Identity(q)}
  BY <1>1, <1>3 DEF Means, FeedInv, RowsOK
<1>6. ASSUME StableLinks(f), f \notin reused PROVE q.guid = r.guid /\ q.url = r.url
  <2>1. CASE rows' = rows
    BY <1>1, <1>2, <1>3, <2>1 DEF FeedInv, RowsOK
  <2>2. ASSUME NEW s \in Syncs, Store(s) PROVE q.guid = r.guid /\ q.url = r.url
    <3>1. /\ Feed(s) \in Feeds /\ Entry(s) \in AllLinked(Feed(s))
          /\ Others(s) \subseteq rows[Feed(s)]
          /\ rows' = [rows EXCEPT ![Feed(s)] = Others(s) \cup {Stored(s)}]
          /\ \A x \in Others(s) : x.id # Stored(s).id
          /\ \A x \in rows[Feed(s)] \ Others(s) :
               job[s].known # NoRow /\ x.id = job[s].known.id /\ x.id = Stored(s).id
      BY <2>2, StoredRow
    <3>2. CASE q \in rows[f]
      BY <1>1, <1>2, <1>3, <3>2 DEF FeedInv, RowsOK
    <3>3. CASE q \notin rows[f]
      <4>1. Feed(s) = f /\ q = Stored(s) /\ r \notin Others(s)
        BY <1>1, <1>2, <1>3, <3>1, <3>3 DEF FeedInv, TypeOK
      <4>2. Lasting(Feed(s)) /\ RoundOK(s)
        BY <1>6, <4>1 DEF Lasting, SyncInv
      <4>3. \/ Entry(s).guid # NoGuid /\ r.guid = Entry(s).guid
            \/ r.url = Entry(s).url
        BY <1>2, <2>2, <4>1, <4>2, Replaced
      <4>4. PICK e \in AllLinked(f) : r.guid = e.guid /\ r.url = e.url
        BY <1>1, <1>2 DEF FeedInv, RowsOK
      <4>5. e.guid = Entry(s).guid /\ e.url = Entry(s).url
        BY <1>6, <3>1, <4>1, <4>3, <4>4 DEF StableLinks
      <4> QED
        BY <4>1, <4>4, <4>5 DEF Stored
    <3> QED
      BY <3>2, <3>3
  <2>3. CASE Age
    <3>1. PICK x \in rows[f] : q = [x EXCEPT !.old = TRUE]
      BY <1>1, <1>3, <2>3 DEF Age
    <3>2. x \in ArticleRows(f)
      BY <1>1 DEF FeedInv, TypeOK
    <3>3. q.id = x.id /\ q.guid = x.guid /\ q.url = x.url
      BY <3>1, <3>2 DEF ArticleRows, RowsOf
    <3> QED
      BY <1>1, <1>2, <1>3, <3>3 DEF FeedInv, RowsOK
  <2>4. CASE Purge
    <3>1. q \in rows[f]
      BY <1>1, <1>3, <2>4 DEF Purge
    <3> QED
      BY <1>1, <1>2, <1>3, <3>1 DEF FeedInv, RowsOK
  <2>5. rows' = rows \/ (\E s \in Syncs : Store(s)) \/ Age \/ Purge
    BY DEF Next, vars, Round, Start, NotModified, Fetch, SkipEntry, BadEntry, Match, Violation,
           Record, TransientFault, FetchFails, Crash, Fails, Publish, Freeze
  <2> QED
    BY <2>1, <2>2, <2>3, <2>4, <2>5
<1>7. Cardinality(Means(f, k[2])') = 1
  BY <1>5, FS_Singleton
<1> QED
  BY <1>4, <1>5, <1>6, <1>7

\* Any number of rounds at once: the article an edition shows is there for good, and is
\* the same article of its feed as long as the feed's links and GUIDs go together, unless
\* an id was given out under a round that held it (reconcile_article, apply_retention).
THEOREM EditionArticlesStayAlways == Spec => EditionArticlesStay
<1>1. FeedInv /\ FeedInv' /\ SyncInv /\ [Next]_vars =>
        [\A k \in frozen :
           LET before == Means(k[1], k[2])
               after  == Means(k[1], k[2])'
           IN /\ Cardinality(after) = 1
              /\ StableLinks(k[1]) /\ k[1] \notin reused => after = before]_vars
  BY ArticleStays
<1> QED
  BY <1>1, SyncInvInit, SyncInvKept, FeedInvAlways, PTL DEF Spec, EditionArticlesStay

=============================================================================
