------------------------------ MODULE FeedSync ------------------------------
(***************************************************************************)
(* Rounds over the enabled feeds (FeedSyncService.sync_all: the sync       *)
(* command, or serve), which nothing keeps from overlapping, the articles  *)
(* rows that come of them, and the two that work on these rows besides:    *)
(* the edition builder, which freezes articles, and retention apply, which *)
(* deletes those no sync has seen for long.                                *)
(*                                                                         *)
(* Of an article the model keeps its identity (GUID, URL) and its text, of *)
(* last_seen_at whether it is before retention's cutoff.  Translating what *)
(* changed is TranslationWork's subject.                                   *)
(***************************************************************************)
EXTENDS Naturals, Sequences, FiniteSetsExt

CONSTANTS
  Order,       \* the enabled feeds, by URL (a sequence)
  Entries,     \* the entries of each version of a feed (sequences)
  NoGuid,      \* an entry without an id
  NoLink, BadLink,  \* an entry without a link, and with one that is no web URL
  NoRow,
  Validating,  \* the feeds whose server sends an ETag and answers 304
  Syncs,
  MaxEntries,  \* limits.max_entries_per_feed
  MaxAttempts, \* of one request, in FeedHttpClient
  MaxFaults, MaxPurges, MaxFrozen  \* bounds of the model

Feeds == {Order[i] : i \in DOMAIN Order}
Versions(f) == DOMAIN Entries[f]
EntriesOf(f, v) == {Entries[f][v][i] : i \in DOMAIN Entries[f][v]}

ASSUME FeedSyncAssumption ==
  /\ Order \in Seq(Feeds) /\ Order # <<>>
  /\ \A i, j \in DOMAIN Order : Order[i] = Order[j] => i = j
  /\ Validating \subseteq Feeds
  /\ \A f \in Feeds : 1 \in Versions(f)
  /\ \A f \in Feeds : \A v \in Versions(f) : Entries[f][v] \in Seq(EntriesOf(f, v))
  /\ MaxEntries \in Nat \ {0}
  /\ MaxAttempts \in Nat \ {0} /\ MaxFaults \in Nat /\ MaxPurges \in Nat /\ MaxFrozen \in Nat

VARIABLES
  published,  \* the version each feed serves now
  etag,       \* feeds.etag: the version it came with, 0 if there is none
  failing,    \* feeds.last_error_code is set
  rows,       \* articles of each feed
  frozen,     \* edition_run_items: articles of an edition
  job,
  settled,    \* ghost: the version recorded last, 0 once other entries are stored
  alone,      \* ghost: its feeds, if no two rounds were storing its entries
  met,        \* ghost: the rounds that found another one at work in their feed
  reused,     \* ghost: an id was given out while a round held the article that had it
  faults, purges

history == <<settled, alone, reused>>
bounds == <<faults, purges>>
vars == <<published, etag, failing, rows, frozen, job, history, met, bounds>>

\* _parse_entries keeps the first ones only.
Kept(f, v) == SubSeq(Entries[f][v], 1, Min({MaxEntries, Len(Entries[f][v])}))

AllEntries(f) == UNION {EntriesOf(f, v) : v \in Versions(f)}
AllLinked(f)  == {e \in AllEntries(f) : e.url \notin {NoLink, BadLink}}

RowsOf(entries) ==
  [id : Nat, guid : {e.guid : e \in entries}, url : {e.url : e \in entries},
   text : {e.text : e \in entries}, old : BOOLEAN]

ArticleRows(f) == RowsOf(AllLinked(f))

JobRow ==
  [at : {"idle", "fetch", "entry", "store"}, todo : Seq(Feeds),
   listed : [Feeds -> {0} \cup UNION {Versions(f) : f \in Feeds}], attempt : 1..MaxAttempts,
   fetched : {0} \cup UNION {Versions(f) : f \in Feeds},
   entries : Seq(UNION {AllEntries(f) : f \in Feeds}),
   known : {NoRow} \cup RowsOf(UNION {AllLinked(f) : f \in Feeds})]

Idle ==
  [at |-> "idle", todo |-> <<>>, listed |-> [f \in Feeds |-> 0], attempt |-> 1, fetched |-> 0,
   entries |-> <<>>, known |-> NoRow]

Init ==
  /\ published = [f \in Feeds |-> 1] /\ etag = [f \in Feeds |-> 0]
  /\ failing = [f \in Feeds |-> FALSE]
  /\ rows = [f \in Feeds |-> {}] /\ frozen = {}
  /\ settled = [f \in Feeds |-> 0] /\ alone = {} /\ met = {} /\ reused = {}
  /\ job = [s \in Syncs |-> Idle]
  /\ faults = 0 /\ purges = 0

At(s, step) == job[s].at = step
Feed(s)  == Head(job[s].todo)
Entry(s) == Head(job[s].entries)

\* It takes the feeds and their validators from one list_feeds.
Start(s) ==
  /\ At(s, "idle")
  /\ job' = [job EXCEPT ![s] = [Idle EXCEPT !.at = "fetch", !.todo = Order, !.listed = etag]]
  /\ UNCHANGED <<published, etag, failing, rows, frozen, history, met, bounds>>

\* On with the next feed.
FeedEnds(s) ==
  /\ job' = [job EXCEPT ![s] =
       IF Len(job[s].todo) > 1
         THEN [Idle EXCEPT !.at = "fetch", !.todo = Tail(job[s].todo), !.listed = job[s].listed]
         ELSE Idle]
  /\ met' = met \ {s}

RoundEnds(s) == job' = [job EXCEPT ![s] = Idle] /\ met' = met \ {s}

EndsWithoutTheRest(s) ==
  /\ failing' = [failing EXCEPT ![Feed(s)] = TRUE]
  /\ RoundEnds(s)
  /\ UNCHANGED <<published, etag, rows, frozen, history>>

\* An AppError: record_feed_failure, and sync_all goes on.
Fails(s) ==
  /\ failing' = [failing EXCEPT ![Feed(s)] = TRUE]
  /\ FeedEnds(s)
  /\ UNCHANGED <<published, etag, rows, frozen, history>>

\* A timeout, a network error or a transient status: get_feed tries again, and
\* gives up after its last attempt.
TransientFault(s) ==
  /\ At(s, "fetch") /\ faults < MaxFaults
  /\ faults' = faults + 1
  /\ \/ /\ job[s].attempt = MaxAttempts
        /\ Fails(s)
     \/ /\ job[s].attempt < MaxAttempts
        /\ job' = [job EXCEPT ![s].attempt = @ + 1]
        /\ UNCHANGED <<published, etag, failing, rows, frozen, history, met>>
  /\ UNCHANGED purges

\* Too many redirects, too large an answer, or another status: no more attempts.
FetchFails(s) ==
  /\ At(s, "fetch") /\ faults < MaxFaults
  /\ faults' = faults + 1
  /\ Fails(s)
  /\ UNCHANGED purges

\* If-None-Match, with the validator it listed.
Unmodified(s) == Feed(s) \in Validating /\ job[s].listed[Feed(s)] = published[Feed(s)]

\* 304: record_feed_success without validators keeps the old ones.  The
\* articles are not touched.
NotModified(s) ==
  /\ At(s, "fetch") /\ Unmodified(s)
  /\ failing' = [failing EXCEPT ![Feed(s)] = FALSE]
  /\ FeedEnds(s)
  /\ UNCHANGED <<published, etag, rows, frozen, history, bounds>>

\* The other rounds at work on the entries of this feed.
Rivals(s) == {t \in Syncs \ {s} : (At(t, "entry") \/ At(t, "store")) /\ Feed(t) = Feed(s)}

Fetch(s) ==
  /\ At(s, "fetch") /\ ~Unmodified(s)
  /\ LET v == published[Feed(s)]
     IN job' = [job EXCEPT ![s].at = "entry", ![s].fetched = v,
                           ![s].entries = Kept(Feed(s), v)]
  /\ met' = IF Rivals(s) = {} THEN met ELSE met \cup {s} \cup Rivals(s)
  /\ UNCHANGED <<published, etag, failing, rows, frozen, history, bounds>>

-----------------------------------------------------------------------------
(* The entries in turn.                                                    *)

SkipEntry(s) ==
  /\ At(s, "entry") /\ job[s].entries # <<>> /\ Entry(s).url = NoLink
  /\ job' = [job EXCEPT ![s].entries = Tail(@)]
  /\ UNCHANGED <<published, etag, failing, rows, frozen, history, met, bounds>>

\* invalid_article_url ends the feed, with the entries before it stored.
BadEntry(s) ==
  /\ At(s, "entry") /\ job[s].entries # <<>> /\ Entry(s).url = BadLink
  /\ Fails(s)
  /\ UNCHANGED bounds

FoundByGuid(f, e) == {r \in rows[f] : e.guid # NoGuid /\ r.guid = e.guid}
FoundByUrl(f, e)  == {r \in rows[f] : r.url = e.url}

Pick(found) == IF found = {} THEN NoRow ELSE CHOOSE r \in found : TRUE

\* _find_article: the GUID first, then the URL.
Find(f, e) == IF FoundByGuid(f, e) # {} THEN Pick(FoundByGuid(f, e)) ELSE Pick(FoundByUrl(f, e))

\* The SELECTs of reconcile_article: no transaction is open yet.
Match(s) ==
  /\ At(s, "entry") /\ job[s].entries # <<>> /\ Entry(s).url \notin {NoLink, BadLink}
  /\ job' = [job EXCEPT ![s].at = "store", ![s].known = Find(Feed(s), Entry(s))]
  /\ UNCHANGED <<published, etag, failing, rows, frozen, history, met, bounds>>

NextId(f) == IF rows[f] = {} THEN 1 ELSE 1 + Max({r.id : r \in rows[f]})

Others(s) == {r \in rows[Feed(s)] : job[s].known = NoRow \/ r.id # job[s].known.id}

\* (feed_id, canonical_url) and (feed_id, guid) are unique.
Unique(s) == \A r \in Others(s) :
  r.url # Entry(s).url /\ (Entry(s).guid # NoGuid => r.guid # Entry(s).guid)

KnownIsThere(s) == job[s].known # NoRow => \E r \in rows[Feed(s)] : r.id = job[s].known.id

\* The new row gets the id of an article that another round has found and that
\* retention has deleted since.
GivesAway(s) ==
  job[s].known = NoRow /\
    \E t \in Rivals(s) : At(t, "store") /\ job[t].known # NoRow /\ job[t].known.id = NextId(Feed(s))

\* The INSERT or UPDATE: of identity and text, and last_seen_at.
Store(s) ==
  /\ At(s, "store") /\ Unique(s) /\ KnownIsThere(s)
  /\ LET f == Feed(s)
         e == Entry(s)
         id == IF job[s].known = NoRow THEN NextId(f) ELSE job[s].known.id
     IN rows' = [rows EXCEPT ![f] = Others(s) \cup
                  {[id |-> id, guid |-> e.guid, url |-> e.url, text |-> e.text, old |-> FALSE]}]
  /\ settled' = [settled EXCEPT ![Feed(s)] = IF @ = job[s].fetched THEN @ ELSE 0]
  /\ alone' = IF s \in met THEN alone \ {Feed(s)} ELSE alone
  /\ reused' = IF GivesAway(s) THEN reused \cup {Feed(s)} ELSE reused
  /\ job' = [job EXCEPT ![s].at = "entry", ![s].entries = Tail(@), ![s].known = NoRow]
  /\ UNCHANGED <<published, etag, failing, frozen, met, bounds>>

\* An IntegrityError, or the row is gone: no AppError, so that sync_all does
\* not catch it and the round ends, with serve if it is the first one.
Violation(s) ==
  /\ At(s, "store") /\ ~(Unique(s) /\ KnownIsThere(s))
  /\ RoundEnds(s)
  /\ UNCHANGED <<published, etag, failing, rows, frozen, history, bounds>>

RecordBeforeLast(s) ==
  /\ At(s, "entry") /\ Len(job[s].entries) <= 1
  /\ LET f == Feed(s)
     IN /\ etag' = [etag EXCEPT ![f] = IF f \in Validating THEN job[s].fetched ELSE @]
        /\ settled' = [settled EXCEPT ![f] = job[s].fetched]
        /\ alone' = IF s \in met THEN alone \ {f} ELSE alone \cup {f}
        /\ failing' = [failing EXCEPT ![f] = FALSE]
  /\ FeedEnds(s)
  /\ UNCHANGED <<published, rows, frozen, reused, bounds>>

\* record_feed_success: the validators of the answer, if it had any.
Record(s) ==
  /\ At(s, "entry") /\ job[s].entries = <<>>
  /\ LET f == Feed(s)
     IN /\ etag' = [etag EXCEPT ![f] = IF f \in Validating THEN job[s].fetched ELSE @]
        /\ settled' = [settled EXCEPT ![f] = job[s].fetched]
        /\ alone' = IF s \in met THEN alone \ {f} ELSE alone \cup {f}
        /\ failing' = [failing EXCEPT ![f] = FALSE]
  /\ FeedEnds(s)
  /\ UNCHANGED <<published, rows, frozen, reused, bounds>>

Crash(s) ==
  /\ ~At(s, "idle") /\ faults < MaxFaults
  /\ faults' = faults + 1
  /\ RoundEnds(s)
  /\ UNCHANGED <<published, etag, failing, rows, frozen, history, purges>>

-----------------------------------------------------------------------------
(* Around it.                                                              *)

Publish(f) ==
  /\ published[f] + 1 \in Versions(f)
  /\ published' = [published EXCEPT ![f] = @ + 1]
  /\ UNCHANGED <<etag, failing, rows, frozen, job, history, met, bounds>>

Freeze(f, r) ==
  /\ Cardinality(frozen) < MaxFrozen
  /\ frozen' = frozen \cup {<<f, r.id>>}
  /\ UNCHANGED <<published, etag, failing, rows, job, history, met, bounds>>

\* The retention period passes; a round takes less.
Age ==
  /\ \A s \in Syncs : At(s, "idle")
  /\ \E f \in Feeds : \E r \in rows[f] : ~r.old
  /\ purges < MaxPurges
  /\ rows' = [f \in Feeds |-> {[r EXCEPT !.old = TRUE] : r \in rows[f]}]
  /\ UNCHANGED <<published, etag, failing, frozen, job, history, met, bounds>>

Expired(f) == {r \in rows[f] : r.old}

PurgeAll ==
  /\ purges < MaxPurges /\ purges' = purges + 1
  /\ rows' = [f \in Feeds |-> rows[f] \ Expired(f)]
  /\ settled' = [f \in Feeds |-> IF Expired(f) # {} THEN 0 ELSE settled[f]]
  /\ UNCHANGED <<published, etag, failing, frozen, job, alone, met, reused, faults>>

\* apply_retention, one transaction: an article of an edition cannot be
\* deleted (ON DELETE RESTRICT), and then none is.
Purge ==
  /\ purges < MaxPurges /\ purges' = purges + 1
  /\ \A f \in Feeds : \A r \in Expired(f) : <<f, r.id>> \notin frozen
  /\ rows' = [f \in Feeds |-> rows[f] \ Expired(f)]
  /\ settled' = [f \in Feeds |-> IF Expired(f) # {} THEN 0 ELSE settled[f]]
  /\ UNCHANGED <<published, etag, failing, frozen, job, alone, met, reused, faults>>

-----------------------------------------------------------------------------

Round(s) ==
  \/ Start(s) \/ NotModified(s) \/ Fetch(s) \/ SkipEntry(s) \/ BadEntry(s)
  \/ Match(s) \/ Store(s) \/ Violation(s) \/ Record(s)

Next ==
  \/ \E s \in Syncs : Round(s) \/ TransientFault(s) \/ FetchFails(s) \/ Crash(s)
  \/ \E f \in Feeds : Publish(f) \/ \E r \in rows[f] : Freeze(f, r)
  \/ Age \/ Purge

Spec == Init /\ [][Next]_vars

\* Rounds are started again and again, and go on.
FairSpec == Spec /\ \A s \in Syncs : WF_vars(Round(s))

-----------------------------------------------------------------------------
(* Properties.                                                             *)

TypeOK ==
  /\ \A f \in Feeds : /\ published[f] \in Versions(f)
                      /\ {etag[f], settled[f]} \subseteq Versions(f) \cup {0}
                      /\ rows[f] \subseteq ArticleRows(f)
  /\ DOMAIN published = Feeds /\ etag \in [Feeds -> {0} \cup UNION {Versions(f) : f \in Feeds}]
  /\ DOMAIN settled = Feeds /\ DOMAIN rows = Feeds
  /\ failing \in [Feeds -> BOOLEAN]
  /\ frozen \subseteq Feeds \X Nat
  /\ alone \subseteq Feeds /\ met \subseteq Syncs /\ reused \subseteq Feeds
  /\ job \in [Syncs -> JobRow]
  /\ faults \in Nat /\ purges \in Nat

Linked(f, v) == {i \in DOMAIN Kept(f, v) : Kept(f, v)[i].url \notin {NoLink, BadLink}}

\* No two entries that are kept of the version share a GUID or a link.
WellFormed(f, v) ==
  \A i, j \in Linked(f, v) : i # j =>
    /\ Kept(f, v)[i].url # Kept(f, v)[j].url
    /\ Kept(f, v)[i].guid # NoGuid => Kept(f, v)[i].guid # Kept(f, v)[j].guid

\* A GUID and a link go together in all versions of the feed: no entry ever
\* moves, or takes the link of another one.
StableLinks(f) == \A e, d \in AllLinked(f) :
  /\ e.url = d.url => e.guid = d.guid
  /\ e.guid = d.guid /\ e.guid # NoGuid => e.url = d.url

Readable(f) == \A v \in Versions(f) : \A e \in EntriesOf(f, v) : e.url # BadLink

IsOf(r, e) == r.guid = e.guid /\ r.url = e.url

StoredAs(r, e) == IsOf(r, e) /\ r.text = e.text

\* Once the success of a feed is recorded, each entry of that version up to the
\* limit is there, whatever was stored before, wherever earlier rounds were cut
\* off and whatever other rounds store meanwhile: its article, if GUIDs and links
\* go together and no id was given out under a round that held it; its text too,
\* if the rounds that stored it had the feed for themselves.
SettledIsStored ==
  \A f \in Feeds : settled[f] # 0 => \A i \in Linked(f, settled[f]) :
    LET e == Kept(f, settled[f])[i]
    IN /\ StableLinks(f) /\ f \notin reused => \E r \in rows[f] : IsOf(r, e)
       /\ WellFormed(f, settled[f]) /\ f \in alone => \E r \in rows[f] : StoredAs(r, e)

Means(f, id) == {<<r.guid, r.url>> : r \in {q \in rows[f] : q.id = id}}

\* The article an edition shows is there for good, whatever rounds poll the feed
\* at once and retention deletes; and it remains the same article of its feed, if
\* GUIDs and links go together, unless an id was given out under a round that held
\* it.
EditionArticlesStay ==
  [][\A k \in frozen :
       LET before == Means(k[1], k[2])
           after  == Means(k[1], k[2])'
       IN /\ Cardinality(after) = 1
          /\ StableLinks(k[1]) /\ k[1] \notin reused => after = before]_vars

\* The server's answers to the round are stored, and no error is left.
Synced(f) ==
  /\ IF f \in Validating THEN etag[f] = published[f] ELSE settled[f] = published[f]
  /\ ~failing[f]

\* Failed fetches, crashes, and feeds that cannot be read keep no later feed
\* from being synchronized, if no feed up to it moves its links around.
EventuallySynced ==
  \A i \in DOMAIN Order :
    Readable(Order[i]) /\ (\A j \in 1..i : StableLinks(Order[j])) => <>[]Synced(Order[i])

\* README.md:122, "A feed failure is isolated; the remaining feeds continue to
\* synchronize."
FailureIsIsolated ==
  \A f \in Feeds : Readable(f) /\ StableLinks(f) => <>[]Synced(f)

=============================================================================
