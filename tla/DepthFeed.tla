------------------------------ MODULE DepthFeed ------------------------------
(***************************************************************************)
(* A consumer of the market-data stream (the main loops of mm_strategy and *)
(* mm_simulator) keeping a local order book from a REST snapshot and the   *)
(* depth events that one or several WebSocket connections of the collector *)
(* feed into one Aeron stream.                                             *)
(*                                                                         *)
(* The exchange is external.  History[id] is its book after update id.     *)
(* Every connection cuts the ids into events of its own, in order; its     *)
(* events wait in `queue' together with those of the other connections.    *)
(* An event may be lost on the way (a full channel, an exhausted retry),   *)
(* and the subscriber keeps only the last of the fragments of a poll.      *)
(***************************************************************************)
EXTENDS OrderbookSync, Sequences

CONSTANTS
  Conns,           \* the collector's depth connections
  HasPrev,         \* TRUE iff the stream's events carry the previous final id
  Lossy,           \* TRUE iff an event can be lost between exchange and stream
  PollLimit,       \* fragments one Subscriber poll may take (10 in the code)
  BidLevels, AskLevels,
  StartId, MaxId,  \* the update ids of the exchange, MaxId bounds the model
  History,         \* History[id][level]: quantity at level after update id
  TopLevels,       \* TopLevels[id]: the levels a snapshot at id contains
  QueueMax         \* bound of the model: events in flight

Levels == BidLevels \cup AskLevels
Ids    == StartId .. MaxId
Book   == [Levels -> Nat]

ASSUME FeedAssumption ==
  /\ StartId \in Nat \ {0} /\ MaxId \in Nat /\ StartId <= MaxId
  /\ HasPrev \in BOOLEAN /\ Lossy \in BOOLEAN
  /\ PollLimit \in Nat \ {0} /\ QueueMax \in Nat
  /\ History \in [Ids -> Book]
  /\ TopLevels \in [Ids -> SUBSET Levels]

(* The levels that have two different quantities somewhere in (a-1) .. b.  *)
(* An event for a .. b carries them; the others it need not mention.       *)
Touched(a, b) ==
  {l \in Levels : \E i, j \in (a - 1) .. b : History[i][l] # History[j][l]}

VARIABLES
  now,      \* last update id of the exchange
  pos,      \* pos[c]: last id that connection c has cut into an event
  queue,    \* events on their way to this consumer
  running,  \* the consumer has fetched its first snapshot
  sync,     \* its OrderbookSyncState
  book,     \* its order book; a level with quantity 0 is absent
  ready,    \* orderbook_synchronized: quotes may be published
  recent    \* the latest resync attempt was less than RESYNC_COOLDOWN_SECS ago

vars == <<now, pos, queue, running, sync, book, ready, recent>>

EmptyBook == [l \in Levels |-> 0]

(* A snapshot of limited depth: deeper levels are simply missing. *)
Snapshot(id) ==
  [l \in Levels |-> IF l \in TopLevels[id] THEN History[id][l] ELSE 0]

(* Faulty variant: quantities taken as changes. *)
ApplyBatchAsChanges(b, e) ==
  [l \in Levels |-> IF l \in Touched(e.first, e.final) THEN History[e.final][l] - b[l]
                                                       ELSE b[l]]

(* OrderBook::apply_batch: absolute quantities, 0 removes the level. *)
ApplyBatch(b, e) ==
  [l \in Levels |-> IF l \in Touched(e.first, e.final) THEN History[e.final][l]
                                                       ELSE b[l]]

TwoSided(b) == (\E l \in BidLevels : b[l] # 0) /\ (\E l \in AskLevels : b[l] # 0)

Init ==
  /\ now = StartId
  /\ pos = [c \in Conns |-> StartId]
  /\ queue = <<>>
  /\ running = FALSE
  /\ sync = NewSync(0)
  /\ book = EmptyBook
  /\ ready = FALSE
  /\ recent = FALSE

ExchangeUpdate ==
  /\ now < MaxId
  /\ now' = now + 1
  /\ UNCHANGED <<pos, queue, running, sync, book, ready, recent>>

DepthEvent(c, u) ==
  [first |-> pos[c] + 1, final |-> u, prev |-> IF HasPrev THEN pos[c] ELSE 0]

(* Connection c delivers its next event into the stream ... *)
Forward(c, u) ==
  /\ Len(queue) < QueueMax
  /\ queue' = Append(queue, DepthEvent(c, u))
  /\ pos' = [pos EXCEPT ![c] = u]
  /\ UNCHANGED <<now, running, sync, book, ready, recent>>

(* ... or it is dropped before it gets there. *)
Lose(c, u) ==
  /\ Lossy
  /\ pos' = [pos EXCEPT ![c] = u]
  /\ UNCHANGED <<now, queue, running, sync, book, ready, recent>>

(* The snapshot fetched before the main loop; the subscription is older. *)
Boot ==
  /\ ~running
  /\ running' = TRUE
  /\ sync' = NewSync(now)
  /\ book' = Snapshot(now)
  /\ UNCHANGED <<now, pos, queue, ready, recent>>

(* One poll takes k fragments and returns the last; the others are gone. *)
Poll(k) ==
  /\ running
  /\ k <= Len(queue)
  /\ queue' = SubSeq(queue, k + 1, Len(queue))

Process(k) ==
  /\ Poll(k)
  /\ Accepts(sync, queue[k])
  /\ sync' = AfterUpdate(sync, queue[k])
  /\ book' = ApplyBatch(book, queue[k])
  /\ ready' = (ready \/ TwoSided(book'))
  /\ UNCHANGED <<now, pos, running, recent>>

SkipUpdate(k) ==
  /\ Poll(k)
  /\ ~Accepts(sync, queue[k])
  /\ ~ResyncDue(AfterUpdate(sync, queue[k]), recent)
  /\ sync' = AfterUpdate(sync, queue[k])
  /\ UNCHANGED <<now, pos, running, book, ready, recent>>

(* Faulty variant: the book is not rebuilt. *)
ResyncKeepsBook(k) ==
  /\ Poll(k)
  /\ ~Accepts(sync, queue[k])
  /\ ResyncDue(AfterUpdate(sync, queue[k]), recent)
  /\ sync' = NewSync(now)
  /\ ready' = FALSE
  /\ recent' = TRUE
  /\ UNCHANGED <<now, pos, running, book>>

(* Too many skips: the same loop iteration fetches a fresh snapshot.       *)
(* A successful fetch replaces the sync state, cooldown included.          *)
ResyncOk(k) ==
  /\ Poll(k)
  /\ ~Accepts(sync, queue[k])
  /\ ResyncDue(AfterUpdate(sync, queue[k]), recent)
  /\ sync' = NewSync(now)
  /\ book' = Snapshot(now)
  /\ ready' = FALSE
  /\ recent' = TRUE
  /\ UNCHANGED <<now, pos, running>>

ResyncFails(k) ==
  /\ Poll(k)
  /\ ~Accepts(sync, queue[k])
  /\ ResyncDue(AfterUpdate(sync, queue[k]), recent)
  /\ sync' = StampAttempt(AfterUpdate(sync, queue[k]))
  /\ recent' = TRUE
  /\ UNCHANGED <<now, pos, running, book, ready>>

CooldownExpires ==
  /\ recent
  /\ recent' = FALSE
  /\ UNCHANGED <<now, pos, queue, running, sync, book, ready>>

Next ==
  \/ ExchangeUpdate
  \/ \E c \in Conns : \E u \in (pos[c] + 1) .. now : Forward(c, u) \/ Lose(c, u)
  \/ Boot
  \/ \E k \in 1 .. PollLimit :
       Process(k) \/ SkipUpdate(k) \/ ResyncOk(k) \/ ResyncFails(k)
  \/ CooldownExpires

Spec == Init /\ [][Next]_vars

-----------------------------------------------------------------------------
TypeOK ==
  /\ now \in Ids
  /\ pos \in [Conns -> Ids]
  /\ queue \in Seq(Event)
  /\ running \in BOOLEAN
  /\ sync \in SyncState
  /\ book \in Book
  /\ ready \in BOOLEAN
  /\ recent \in BOOLEAN

(* The update id the local book stands at. *)
BookId == IF sync.last = 0 THEN sync.snapshot ELSE sync.last

(* Book b, built on a snapshot at id s, holds no quantity the exchange did *)
(* not have at id, and misses no level that the snapshot contained or that *)
(* changed since.                                                          *)
Matches(b, s, id) ==
  \A l \in Levels :
    /\ b[l] \in {0, History[id][l]}
    /\ l \in TopLevels[s] \cup Touched(s + 1, id) => b[l] = History[id][l]

BookMatches(id) == Matches(book, sync.snapshot, id)

(* While should_process_update reports the book as synchronised, the book  *)
(* is the exchange's book at the last id applied, whatever was lost,       *)
(* skipped or resynchronised on the way.                                   *)
SyncedBookIsExact == running /\ sync.synced => BookMatches(sync.last)

(* Quotes are generated from `book' whenever ready is set, even after a    *)
(* gap: the book is then old, but it is still one the exchange really had  *)
(* at one single update id, never a mixture of two.                        *)
QuotableBookIsReal ==
  running => BookId \in Ids /\ BookMatches(BookId)

(* What passes for the exchange's book at an update id: it lacks at most   *)
(* levels that neither some snapshot until then had nor an id since        *)
(* changed.                                                                *)
Faithful ==
  [id \in Ids |->
     {[l \in Levels |-> IF l \in known THEN History[id][l] ELSE 0] :
        known \in {S \in SUBSET Levels :
                    \E s \in StartId .. id : TopLevels[s] \cup Touched(s + 1, id) \subseteq S}}]

Replica == INSTANCE BookReplica WITH
  latest <- now, at <- IF running THEN BookId ELSE 0, Books <- Faithful

(* With one connection whose events name their predecessor, the local book *)
(* is a replica of the exchange's that only moves forward: no event that   *)
(* is late, no gap and no resync takes it to an earlier id.                *)
ImplementsReplica == Replica!ReplicaSpec

(* A gap is never repaired from the old snapshot: to become synchronised   *)
(* again after it the consumer must have fetched a new one.                *)
GapNeedsSnapshot ==
  [][~sync.synced /\ sync.last # 0 => ~sync'.synced]_vars

(* With racing connections and no loss: once both connections have         *)
(* delivered everything and the stream is drained, replayed and reordered  *)
(* events have left no trace in a synchronised book.                       *)
DrainedBookIsExact ==
  running /\ sync.synced /\ queue = <<>> /\ (\A c \in Conns : pos[c] = now)
    => BookMatches(now)
=============================================================================
