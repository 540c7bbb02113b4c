# Verification of mm-fun

TLA+ models of the market maker in this repository: what its processes and
threads do step by step, what must hold whatever the interleaving, loss or
failure, TLC runs that check it on small instances and TLAPS proofs of what
holds on every instance.

## 1. The system

Processes exchange messages over Aeron IPC streams (10 market data, 11
collector state, 12 heartbeats, 13 trades, 14 prices, 15 quotes, 16 fills,
17 positions).

```
exchange ==WebSocket x2==> mm_collector --10,13--> mm_pricing  --14-->
   |                        | 11,12    --10--> mm_strategy  --15--> mm_simulator
   '==REST snapshot=========|=========>  (both)    ^----------16-------'
```

| Component (crate) | State | Operations | What makes it correct |
|---|---|---|---|
| Collector (`mm_app/bin/mm_collector`, `mm_ws`, `publisher_helpers`) | two racing depth and two trade connections, a queue each, two bounded channels, publisher threads, flags | read, queue or drop, parse, send, publish with retries, shut down | order kept per connection; every thread ends at shutdown |
| Depth consumer (`orderbook_sync`, main loops of strategy and simulator) | sync record, local book, ready flag | snapshot, should_process_update, apply_batch, should_resync | the book is one the exchange had |
| Order book (`mm_orderbook`) | price levels | apply_batch, update, best, trim | absolute quantities, 0 removes |
| Strategy (`mm_app/bin/mm_strategy`) | position, kill switch, publication timers | apply a fill, check the heartbeat, publish a quote | limits, kill switch |
| Quote engine (`mm_strategy`) | drift estimate, volatility, last mid price | estimate, skew, spread, size, ladder, risk check | no quote crosses, no ladder passes the limit, clear signals are quoted |
| Fill simulator (`mm_app/bin/mm_simulator`, `mm_sim_executor`) | active orders, position, undelivered fills | replace orders, fill crossed ones, publish fills | one quote active; positions agree |
| Transport (`mm_aeron`) | streams | publish (may refuse), poll | a poll keeps the last of ten fragments |
| Rate limiters (`mm_ratelimit`) | atomic words per limiter | try_acquire, acquire, available, reset | quotas under concurrency |
| Circuit breaker (`mm_http`) | state, times, counters | check_allow, record_success/failure | opens, probes, closes |
| Positions (`mm_types`) | quantity, average price, realised profit | apply_fill | the ledger balances |
| Pricing (`mm_app/bin/mm_pricing`) | book, drift estimate | apply every batch and trade, publish a fair value | no level that the exchange has not; a price near the book |
| Backtest (`mm_backtest`, `mm_app/bin/mm_backtest`) | event stream, position, statistics | replay, collect | events in order, none lost |
| Telegram bot (`mm_tg`) | permits, command channel, trading state | acquire, refill, commands | message limits |
| Binary protocol (`mm_binary`) | - | build, checksum, validate, compress symbols, parse decimals | what is published is understood |
| Presets, HTTP, CLI, config, logging | - | I/O | - |

The hard behaviour: events lost, overwritten in a poll, duplicated by the
second connection or reordered; a snapshot racing the stream; fills in flight
while the next quote is sized; a collector that falls silent; lock-free
limiters without a lock; publications that fail halfway through a batch of
fills. `PROJECT.json` lists each hazard at its line.

## 2. Modules

| Module | Models | Kind |
|---|---|---|
| `OrderbookSync` | `orderbook_sync.rs`: the sync record and its two decisions | operators |
| `BookReplica` | what a depth consumer promises its users: a copy of the book that never goes back | abstract specification |
| `DepthFeed` | exchange, connections, stream, snapshot, resync, local book | state machine, implements `BookReplica` |
| `FixedPoint` | truncating division, rates | operators |
| `Signals` | `MarketState` and `DriftEstimator`: order flow, trade window, imbalance, volatility, drift, confidence | operators |
| `Codecs` | compressed symbols, order book batches, the decimals of JSON | operators |
| `Pricing` | the pricing engine on the stream of `DepthFeed` | state machine, composes `DepthFeed`, `Signals`, `Codecs` |
| `Payloads` | what the programs hand to the codecs, before a consumer starts | state machine, composes `Pricing`, `Codecs` |
| `DepthStreamProofs` | theorems about `DepthFeed`, `Pricing`, `Codecs` and `Payloads` | proofs |
| `SumTheorems` | least and greatest elements, counting up, quotients, sums and folds | lemmas for the other proof modules |
| `RateQuota` | what a leaky bucket promises | abstract specification |
| `RateLimiters` | `MultiLimiter` over buckets and windows, one atomic access per step | state machine, implements `RateQuota` |
| `RateLimitersProofs` | theorems about `RateLimiters` | proofs |
| `WireFormat` | message layouts, and whether a checksum verifies | operators |
| `QuoteSizing` | quote sizes from inventory, and the risk check | operators |
| `Quoter` | what the strategy promises the simulator: quotes for the position it knows, none once killed | abstract specification |
| `TradingLoop` | strategy and simulator over the quote and fill streams | state machine, uses `QuoteSizing`, `WireFormat`, implements `Quoter` |
| `TradingLoopProofs` | theorems about `TradingLoop` and `WireFormat` | proofs |
| `QuoteEngine` | from the top of the book, trades and fills to the ladder that is published | state machine, uses `QuoteSizing`, `Signals`, implements `Quoter` |
| `QuoteEngineProofs` | theorems about `QuoteEngine` | proofs |
| `MergedFeed` | what the collector promises its subscribers | abstract specification |
| `Collector` | the collector's threads, queues, flags and shutdown | state machine, implements `MergedFeed` |
| `CollectorProofs` | theorems about `Collector` | proofs |
| `CircuitBreaker` | the HTTP circuit breaker, one atomic access per step | state machine |
| `CircuitBreakerProofs` | theorems about `CircuitBreaker` | proofs |
| `Ledger` | `Position::apply_fill` in fixed point | operators |
| `Backtest` | loading, the replay thread, the collection loop and its statistics | state machine, uses `Ledger`, `WireFormat`, `FixedPoint` |
| `BacktestProofs` | theorems about `Ledger` and `Backtest` | proofs |
| `MCDepthFeed`, `MCPricing`, `MCRateLimiters`, `MCTradingLoop`, `MCQuoteEngine`, `MCCollector`, `MCCircuitBreaker`, `MCBacktest` | constants for TLC | |

`Collector` and `DepthFeed` meet in `MergedFeed`: the collector is shown to
implement it, and the stream of `DepthFeed` is one (`Forward` publishes a
connection's events in order, `Lose` leaves one out).

`TradingLoop` and `QuoteEngine` meet in `Quoter`: the one knows streams and no
prices, the other prices and no streams, and both implement the same rule for
when a quote of which sizes may go out (`Allowed` of `QuoteSizing`). `DepthFeed`
implements `BookReplica` on one connection whose events carry `pu`; `at` is the
id the local book stands at (`BookId`), and `Faithful` says which books pass for
the exchange's at that id, given that a snapshot has limited depth.

Each module holds a few definitions commented as a *faulty variant*: a
plausible bug in the code, not used by the specification, that replaces a
definition once for every property to see the property fail.

### DepthFeed

The exchange's book is a function of the update id (`History`); a depth event
`[first, final, prev]` stands for the absolute quantities at `final` of the
levels touched by ids `first .. final`. Each connection cuts the ids into
events as it likes (`Forward`, `Lose`). `Process`, `SkipUpdate`, `ResyncOk`
and `ResyncFails` are the four outcomes of a loop iteration with a batch
(`mm_strategy.rs:175-236`, the same in `mm_simulator.rs:167-260`), each with
the poll that fetched it: a poll of `k` fragments hands on the last. A resync
fetches its snapshot inside the iteration, as the code does (a snapshot is
taken at the exchange's current id; events on their way may be older).
Snapshots have limited depth (`TopLevels`), so a level outside of it is
missing until an event mentions it; `Matches` says exactly which levels must
be there. `ready` is `orderbook_synchronized`: set once, cleared only by a
resync.

The skip counter saturates at the threshold, beyond which its value makes no
difference. Time only matters through the cooldown: `recent` says that the
latest attempt is younger than `RESYNC_COOLDOWN_SECS`.

### Pricing

The pricing engine keeps a book as `DepthFeed` does, but without a sync state:
it applies every batch of its own symbol (`ApplyOwn`), whatever its ids, trims
the book to `max_levels`, and skips a batch of another symbol or of one that its
codec does not keep (`OwnSymbol`). It shares nothing with the strategy but the
stream, so `kind` says which of the two consumers a behaviour has, and `book`,
`queue` and `ready` are that one's. Trades are read first (`TakeTrade`), the
fair value is published between two messages (`PublishPrice`). It never calls
`update_market_state`, so its order flow stays 0. `orderbook_synchronised` is
said to be set "from live updates" (`mm_pricing.rs:268`), but the sides of the
snapshot count. Its output is never refused, as back pressure is ignored,
and no program subscribes to it.

### Codecs

A symbol is a sequence of character numbers; `Packed` is the set of bits that
are set in the 128, so that or-ing a code which is too wide, and what of it
reaches the next word, come out as in the code. `Unpacked` reads fields until
the terminator. `Lossless` says which symbols survive: hexadecimal ones
without an `F` (stored as 16; a test's comment, `compressed_string.rs:377`,
blames the length), alphanumeric ones of up to 19 characters that neither hold
`AAA` nor end in `A`. A batch is its two counts, its levels and whether its
checksum is intact; a decimal is its sign and the digits before and after the point.
`Payloads` hands the codecs one item at a time, beside the consumer of
`Pricing` so that both can be asked of one run; its symbols, sides and digits
are constants, and the theorems hold for any of them.

### RateLimiters

Both limiters work alike: sample the clock, load `last_refill` or
`window_start`, claim it by compare-and-swap when something is due, apply what
is due, take. A thread's `pc` names the access it does next, with its local
sample (`at`) and loaded mark (`from`). A loop around a compare-and-swap of
the amount is one step at its success, since a failed round has no effect; for
the window, where a failed round checks the window again, it is `Retry`.
Memory is sequentially consistent; the orderings the code asks for (relaxed
loads of the mark) allow more than that on weakly ordered processors.
`granted`, `passed`, `inWindow` and `wiped` are history variables. A call that a
later limiter refuses leaves the earlier ones charged (`Refuse` undoes nothing),
whatever the comment of `MultiLimiter` says of complying "atomically".

### WireFormat

Each fixed-layout message is the list of its words, which gives the place of
the checksum, and the number of bytes that `calculate_crc32` covers. Seven of
the eight cover no more than what precedes the checksum (`PositionMessage` less:
its `realized_pnl` is unprotected); in `OrderFillMessage` the checksum covers its own field, and a
fill is only `Readable` if its checksum vanishes there: one or eight values
of 2^32, depending on the processor. The lemma `OnlyFillsAreUnreadable` of
`TradingLoopProofs` says so, and lets the state machines ask `Readable` of fills alone. Whether a given
fill's checksum vanishes is data: `TradingLoop` and `Backtest` leave it open,
so that their properties also speak of the code with that line repaired.

### TradingLoop

One action per half-iteration of each loop: the non-blocking poll
(`TakeFill`/`IgnoreFill`/`NoFill`, `TakeQuote`/`NoNewQuote`) and the blocking receive
(`PublishQuote`, `PublishQuoteFails`, `NoQuote`; `Trade`, `TradeFails`).
Messages arrive while a process is blocked, which is why the halves
interleave. The heartbeat check belongs to the top of the strategy's iteration
(`AfterCheck`), `due` being whether its two seconds have passed. A quote's
sizes are computed as in the code, with the floating-point factors as exact
fractions and truncation to units; its prices and confidence are data, so
whether the price checks pass is open (`NoQuote` is always possible).
An order crossed by a batch fills `fill_probability_factor` of what is left,
rounded to the nearest unit. Which orders a batch crosses is open.

### QuoteEngine

`GenerateQuotes` is `publish_quotes` with all it calls: the market state (a
missing side gets the default price), the estimator's order flow, volatility,
drift, skew, spread, sizes, the ladder and the checks of the risk manager, and
`out` is what is published by the step. `ReceiveTrade` takes trades in any
order, as two racing connections deliver them; `ReceiveFill` changes the
position by any amount; `Kill` is the heartbeat. Floating-point signals count in
1/`Scale`, rates in tenths of a basis point, cut off towards zero. What the code
has no caller for stays out: `update_daily_pnl` (so the daily loss is
never above 0), `resume`, `check_heartbeat`, `vwap`. Its order book imbalance is
(asks - bids)/total, the opposite sign of the order flow's, so the two signals
pull in opposite directions. The program quotes one level; the library's ladder
of several is enumerated too.

`TradingLoop` takes sizes from the same `QuoteSizing` and leaves prices and
confidence open: it presumes that a quote may have enough confidence. That this
leaves nothing out is the theorem `EngineIsQuoter`: whatever the market, the
first level that the engine publishes is one that `TradingLoop` may send.

### Collector

One action per step of a thread: the ingestion thread of a connection raises
its flag (`Enter`, as `run()` does whatever the flag was), tests it, blocks in
the read and queues the message or drops it (`Read`); the processing thread
tests its flag, waits in `recv_timeout`, takes a message and parses it (`Take`,
`TakeUnreadable`), blocks in `Send` on a full channel and leaves when its flag is
down (`Quit`), whatever is still in its inbox. The flag may go down between the
test and the receive, so a thread that is "waiting" may still take one message
after that; one that came back to the test with its flag down ("returned") takes
none. The publisher empties its channel, giving a message up after
`MAX_RETRIES` refusals (`Publish`), and ends when every sender is dropped
(`EndPublisher`); `main` polls `running`, lowers the flags, joins and drops the
senders in the code's order (`Stop`, `CloseChannels`, `Exit`). Messages are
numbers in the order a connection received them. `received`, `published` and
`lost` record where they went.

A publisher that cannot add its publication ends at once, while `main` keeps a
receiver of its channel, so the channel fills and a processing thread blocks
for ever; and a Ctrl-C that precedes `run()` is undone by it. `StopEnds` and
`SendsGoThrough` say so in their hypotheses.

### CircuitBreaker

`pc` names the access a request does next: `reset_window_if_needed`, the load
of the state (`Check`), the clock of a request that found it open (`Sample`), the
counting, the call, `record_success` or `record_failure`.
Times enter as the ages of `window_start` and `opened_at`, saturating at the
duration they are compared with. The code reads the clock before the other
time; if that is stored anew in between, the difference is the old one or a
negative one that an `u64` makes enormous, so the comparison may go either way
(`due`). `serial`, `openFor` and `proven` are history variables: some rules
hold only until two requests have overlapped.

### Backtest

A row is `[file, row, time]`. `Load` is the loader: each file cut to the
period, concatenated and sorted by time, stably; a file that is missing or has
a bad row counts as empty. The replay thread takes its time (`Tick`), publishes
every event that is due at it (`PublishEvent`), each taken from the stream
before it is published, so that `PublishFails` loses it and ends the thread,
and sleeps (`Sleep`), when up to `StepMax` passes: the replay speed is one
bound on that. `main` waits on three streams in turn (`Market`, `CollectFill`,
`IgnoreFill` or `NoFill`, `CollectPosition` or `NoPosition`), of each of which it keeps the
last of up to ten messages, and looks at the replay thread once per round
(`Check`). What the simulator and the strategy report is any fill and any
equity of a small set; they are the subject of `TradingLoop`.

`Ledger` does a fill as the code does: open, add, flip or reduce, with
products and quotients cut off towards zero. A fill's price and quantity pass
through `f64` and back, which is exact for the eight decimals (the way back
rounds to the nearest). `loaded`, `published`, `refused`, `paid`, `slack` and
`low` are history variables: what should be replayed and what was, the money
that the collected fills cost and the rounding that is allowed for it, and the
drawdown of every equity ever reported.

## 3. Runs

| Run | Question | Bounds |
|---|---|---|
| `DepthFeed_single` | Is the book right with one connection and `pu`, under loss, overwriting and failed resyncs? | 7 update ids, 2+2 levels, snapshot depth 1, threshold 2, polls of 2, 3 events in flight |
| `Pricing` | Do two racing connections without `pu` leave the books of both kinds of consumer right in the end, is the price near the book meanwhile, and are symbols, batches and decimals what they were? | 2 connections, ids to 7, polls of 1, 2+2 levels of which the best bid (10,002) and ask (10,001) never exist at once, `max_levels` 1, 1 trade; 3,398 symbols, sides of up to 3 levels at a count modulo 3, decimals of 2+3 digits |
| `DepthFeed_spot` (violation) | Does the sync record notice a lost event on the stream it really gets? | 5 ids |
| `RateLimiters` | Do the limiters keep their quotas under every interleaving? | 2 threads, bucket of 2 and window of 2, weights 1-2, clock to 3 |
| `RateLimiters_window` (violation) | Does a window never admit more than its limit? | window of 2, clock to 4 |
| `TradingLoop` | Do positions agree, does the exposure stay bounded, does silence end the quoting? | limit 5, base size 2, order limit 3, 1 quote and 2 fills in flight, position to 12, drift between the positions to 1 |
| `TradingLoop_fills` (violation) | Does a fill that arrives change the strategy's position? | as `TradingLoop` |
| `QuoteEngine` | Does every ladder stay uncrossed and within the position limit, is a clear signal quoted, and is half a book refused? | limit 20, order limit 8, base size 4, 4 books around 2,500 with a spread of 40 bps (one without asks, one without bids, both far from the default price), 2 levels, trades at times to 2, 2 of them kept, position to 24, fills of 6 |
| `Collector` | Is no message lost unlogged or reordered, and does every stop end the process with its channels empty? | two connections racing into one topic, 2 and 1 messages, inbox of 1, channel of 2 |
| `CircuitBreaker` | Does the breaker always recover, keep its counters together, and its other rules while requests do not overlap? | 2 requests, opens at half of 2 requests, closes after 2 successes, timeouts of 1, counters to 2 |
| `CircuitBreaker_open` (violation) | Does an open circuit stay open for `open_timeout`? | as `CircuitBreaker` |
| `Backtest` | Is history replayed in order, do the results agree with each other, does the backtest end? | two files of up to 3 rows around a period of 3 ms, 4 fills, 2 equities, one decimal, 3 messages collected, polls of 2, 2 samples kept |

Why the bounds suffice: seven ids allow a snapshot, a sync point, a gap, a
threshold of skips, a resync and a second sync point; levels are added,
changed, removed and restored in that history. Two threads are the
smallest race, and every limiter step is pairwise. In the trading loop a base
size of 2 against a limit of 5, the most that `ExposureBounded` allows, reaches every branch of the sizing (full,
reduced, zero, aggressive, emergency) in a few fills; the largest position TLC
reaches without a missed fill is below `MaxExposure`, so that bound does
not cut `ExposureBounded` short. `MaxDrift` only limits how much fills that are
overwritten or not understood may set the two positions apart; it is not
reached while nothing is missed.
In the collector the inbox, the channel and a processing thread's hand can
all be full at once with a message still to come. The breaker needs
two requests for every race (all its accesses are pairwise), two failures to
reach the threshold and two successes to tell one probe from enough. Its
counters saturate at `CountMax`, the minimum of requests: beyond it a
saturated total makes the failure rate look higher, never lower, so the
circuit opens at least as often as in the code.
The backtest's files have rows before, in and after the period, out of order
and at the same time in one file and in both; the fills open, add, reduce,
close and flip with averages that are no multiples of the unit, and three
messages are one more than a poll and the kept samples hold.
The depth history of `Pricing` is chosen so that replaying an old event makes a
level come back that the exchange has removed and the book cross; `MaxLevels` 1
makes trimming bite on the second level. Its codec inputs lie where the code
branches: the ends of a word, the lengths at which a scheme gives up, special
characters, a count one short of, at and beyond its modulus, one digit
more than is kept. In `QuoteEngine` fills of 6 against a limit of 20 reach every
utilisation (0, 30, 60, 90, 120 %) on both sides, and two levels of base size 4
come to just the 0.4 of that limit which `LadderFitsLimit` allows; 40 bps of 2,500
are ten units of price, the least spread that `MarketIsCalm` asks for; two kept trades are
the fewest with an older and a newer one, and with times to 2 and a window of
1 they may be in either order, in the window and out of it.
Deadlock is checked for the breaker and the quote engine only: the other
models' counters end (`MaxId`, `MaxTime`, `Messages`, `MessagesMax`) and the
processes may exit.

What is shown:

- `SyncedBookIsExact`, `GapNeedsSnapshot`, `ImplementsReplica`: with `pu` on
  one connection the protocol is right. Also what is quoted while
  desynchronised is a book that existed, and the id it stands at never falls.
- `DrainedBookIsExact`, `NoPhantomLevels`: absolute quantities make replays
  harmless in the end, if nothing is lost, with a sync state and without.
- `FairNearBook`: a fair value lies within 2 bps of the book it was made of,
  also of a book that is crossed for a moment (which has the highest
  confidence, since its spread is below every threshold).
- `SymbolsSurvive`, `BatchesSurvive`, `DecimalsAreExact`: exactly which symbols
  and batches come back as they were; the others are not refused but become
  something else.
- `BucketKeepsQuota`: the bucket implements `RateQuota`; `WindowKeepsLimit`
  pins the one race in which a window does not keep its limit.
- `AccountsAgree`: the positions differ by the fills in flight, until a fill
  is missed: overwritten in a poll, refused by the publication, or not
  understood; after that nothing brings them together again. In the code as it
  stands that is the first fill (see the findings).
- `ExposureBounded`: `MaxPosition + 2 * MaxOrder` while no fill is missed. The
  position limit of the configuration is checked when a quote is made and is
  no bound on the position.
- `ImplementsQuoter`: a quote goes out for the position known at that moment
  and none after the kill, although a fill, a heartbeat check and a refused
  publication may come between. `SilenceKills`: a collector that stays silent
  is noticed in the end.
- `WindowIsRecent`: late trades never stretch the window. `LadderNests`: the
  levels of a ladder do not cross. `LadderFitsLimit`: with base sizes that come to
  at most 0.4 of the limit all levels of a ladder filled on one side never pass
  it, though each is checked by itself and whatever the urgency factor of the
  other side. `OneSidedIsRefused`: where the default price of a missing side lies
  beyond the other side by a factor of two, the spread of such a book gets every
  quote refused.
- `QuotesWhenClear`: the checks never silence the engine by accident. With trades
  and order flow that agree, each by `min_confidence` and more than 0.1, a market
  whose drift, spread and skew come to at most 5 % and whose spread is more than
  rounding, and sizes of which the reduced one is not zero, a quote is published;
  where the position is urgent, its unwinding side is enlarged. What else silences
  the engine is listed below.
- `EveryMessageAccounted`, `ImplementsMergedFeed`: full inboxes drop the
  newest message, full channels block, refused publications drop the oldest;
  together they never reorder or duplicate, and every loss is one the code logs
  or a message that was still in flight.
- `ShutdownDrains`, `StopEnds`, `SendsGoThrough`: the order of the joins lets
  every thread end, with the exceptions above.
- `HalfOpenDecides`, `Recovers` for any interleaving, and `FailuresWithinTotal`:
  unless a reset has cleared only the first counter, the failures exceed the
  requests by at most one for each other request, so what many resets leave
  behind does not add up. `OpenEnduresSerially`, `ClosesOnlyWhenProven` while
  requests do not overlap.
- `ReplayFollowsHistory`, `ResultsAreComplete`: no event is published before an
  earlier one or after a hole, and only a stop or a refusal cuts a replay short.
  Either leaves results that look like any others: the code says so in the log
  only.
- `LedgerBalanced`: `unit * realised = average * quantity - paid`, up to
  two units and the quantity held for each fill, long and short and
  through zero, whichever fills a poll leaves out. `ReportIsReal`: gross profit
  less gross loss is what the position realised, and the drawdown is one
  that was reported; it may miss one that lies before the kept samples, and
  never invents one.
- `BacktestEnds`.

Findings (`PROJECT.json`), each with a run that shows it: the spot stream has no
`pu`, so a gap goes unnoticed (`DepthFeed_spot`); a window's reset erases
grants (`RateLimiters_window`); the circuit breaker stores that it is open
before the time it opened at, and a request in between makes it half-open at
once (`CircuitBreaker_open`). The gravest is the checksum of
`OrderFillMessage` (`TradingLoop_fills`): the strategy understands no fill, so it goes
on quoting as if it had no inventory while the simulator's position grows, no
position is ever published, and a backtest reports no trade.

Other places where code and words differ, met while modelling and without a run:

- A successful resync replaces the sync record and with it the time of the
  attempt (`mm_strategy.rs:198`), so the cooldown of `orderbook_sync.rs:117`
  only holds after a failed one.
- The strategy never subscribes to the trade stream: `mm_strategy.rs:58-59` says
  "For now, we'll work without trade data and rely on orderbook imbalance". But
  without trades the confidence is 0.1 (`drift_estimator.rs:328`), less than the
  default 0.5 and the configured 0.3, so nothing is ever quoted, whatever the
  imbalance. The theorem `SilentWithoutTrades` says so for all parameters.
- At the position limit nothing is quoted, not even the side that would unwind
  (theorem `SilentAtLimit`): the reduced side is zero, or beyond the limit
  `check_position_limit` refuses, and with it goes the other side of the quote.
  `inventory_manager.rs:190-196` wants an "Emergency unwind" exactly there, for
  which `quote_engine.rs:146` tightens the spread and line 186 doubles the size.
- The doc of `asymmetric_sizes` reads "When long: reduce ask size, keep bid size
  (to unwind)" (`inventory_manager.rs:131`); its code, and the comment inside it
  ("Long position: eager to sell, reluctant to buy", line 139), reduce the bid.
- The skew of a long position moves the quote up, so that the bid lies nearer
  to the market than the ask (theorem `SkewIsWithPosition`). That is the letter of
  "widen ask, tighten bid" (`quote_engine.rs:162`), which
  `inventory_manager.rs:49` takes to "encourage selling"; it makes selling
  less likely.
- `publish_quotes` takes 50,000 for a price that is missing
  (`mm_strategy.rs:268-270`). Only the width of the spread this makes keeps the
  quote back. An empty book has no spread at all, and bids above 50,000 without
  asks (or asks below it without bids) have a negative one: `MinSpread` is used,
  and the quote is published, around a middle that no market has. The first
  form of `OneSidedIsRefused` had left these books out.
- Quotes and positions always carry "BTCUSDT" (`mm_strategy.rs:285`, `327`).

**Fairness.** `Collector`: weak fairness of each thread, as the operating
system schedules them. A blocking read returns in the end, because the server
pings an idle connection; nothing makes the user press Ctrl-C.
`CircuitBreaker`: weak fairness of the clock and of each request: calls return
because the HTTP client has a timeout, and requests keep coming.
`TradingLoop`: weak fairness of the strategy's step: the loop has no unbounded
wait (`receive` returns after 30 s). Strong fairness of a check that is due: the
loop passes its top again and again and two seconds pass, so an iteration with
a check that is due keeps coming. Nothing is assumed of the collector, the
simulator or the streams. `Backtest`: weak fairness of the replay thread, which
never blocks, and of `main`, whose receives end after 30 s.

## 4. Proofs

A proof module holds the theorems of a component. Each safety theorem rests on
an inductive invariant, one lemma per action that can disturb it, and the
assumptions on the constants, which TLC evaluates in every run.

`SumTheorems` has no theorem of its own: it holds what the other proofs cite
about numbers, sums and folds. The library's induction theorems take a predicate
as a parameter, which the provers cannot instantiate; `CountUp` (a set that
holds 0 and with each number below n the next one holds 0 .. n) does the same
for a *set*, derived from well-foundedness (`LeastExists`), and each induction
below is a set that counts up. `FoldExists` and `TotalIsSum` lead from the
fold of the library to a function of partial sums, so that a sum over a
sequence can be taken apart (`TotalOfAppend`, `SumOfParts`). `QuotientFits` to
`RateWithin` bound what truncating divisions return.

`DepthStreamProofs`, for every history, snapshot depth, threshold, poll limit
and bound (`ThresholdAssumption`, `FeedAssumption`, `PricingAssumption`,
`SignalsAssumption`, `CodecAssumption`):

- `TypesHold` (any connections, any loss): the type invariant.
- `SyncedExact`, `QuotableReal`, `GapNeedsNewSnapshot`, for one connection
  whose events carry `pu` (`Conns = {c}`, `HasPrev = TRUE`). None of them is
  inductive. The inductive invariant is
  `IInv(c) == TypeInv /\ FlightInv(c) /\ SyncInv /\ BookInv`: the events in
  flight lie in id order after everything applied and name their predecessor
  (`FlightInv`); the last applied id lies between the snapshot and the oldest
  event in flight (`SyncInv`); the book matches the exchange's at the id it
  stands at (`BookInv`). A loss moves `pos` and so breaks the chain of `prev`
  ids, not their order; a gap is then seen because `prev` differs from the last
  id. `SnapshotMatches` and `ApplyMatches` say what a snapshot and a batch do to
  `Matches`, `PollFlight` and `ForwardFlight` what a poll and a new event do to
  the queue. `QuotableReal` speaks of one state and is no longer asked of a run,
  since the next theorem says more.
- `FollowsExchange`, that `DepthFeed` implements `BookReplica`. `IInv` is not
  enough: it does not say that a snapshot is never older than the book it replaces.
  `PastInv` adds that neither the connection nor a snapshot is ahead of the exchange,
  so that a resync, which takes the exchange's current id, is a step forward. What matches is `Faithful` (`MatchesFaithful`); an event that is applied
  ends at a later id than the book's (`AcceptedFits`), one that is not leaves the book
  alone (`RefusedStays`), and `StepFollows` takes the actions together.
- `DrainedExact` and `NoPhantoms`, for any number of connections without `pu`
  that lose nothing (`Racing`: `HasPrev = FALSE`, `Lossy = FALSE`,
  `PollLimit = 1`, as in the `Pricing` run). No order of ids holds any more, so
  the invariants go level by level. `StreamInv`: the last event in the stream
  that is about a level leaves it as *some* connection has it by now. `RaceInv`,
  for the consumer with a sync state: a level that no event in the stream is
  about is as some connection has it, or as in the snapshot and not changed
  since. `OwnBookInv`, for the pricing engine, which applies events however old
  and trims: such a level is absent, as some connection has it, or as at an id
  since when no connection has seen it change. Once the stream is drained every
  connection is where the exchange is. `NoPhantoms` needs a connection, and a
  symbol that its codec keeps (`OwnSymbol`), since a book that nobody updates keeps
  the levels of its snapshot.
- `FairStaysNear`, for any market, trades and history, racing and lossy or not.
  `PriceInv` adds to `FairNearBook` that the order flow is the initial one, as
  the engine never updates it, and that the trades are trades (`EstInv`). The
  bound is then arithmetic: each imbalance is at most 1 (`ImbalanceWithin`,
  `TradesWithin`), so the signals add at most 13 tenths of a basis point; the
  micro-price lies between the best prices (`MeanWithin`) and, with a spread of
  at most 28 bps, pulls by at most 7 (`DistanceWithin`); a rate of 20 leads
  no further than the ends of the market moved by 20 (`RateWithin`). That a
  book with two sides has a best level at all is `GreatestOfFinite`.
- `BatchComesBack`, `LongSideIsLost` and, in one equivalence, `BatchSurvives`:
  a batch of any length comes back if and only if both counts fit.
  `BatchesComeThrough` says so of every state of `Payloads`.
- `SymbolComesBack` and `SymbolsComeThrough`: a symbol comes back if and only
  if it is `Lossless`, which describes the scheme's characters and knows nothing
  of bits. `Packed` is a set of bits, so the proof goes by places: two codes
  share a bit only where a code is wider than its field (`OwnBits`), a field
  is the code that was put there (`FieldOfText`, over `BinaryDigits`, that the
  bits of a number add up to it), and behind the text the fields are zero,
  but for the bit an `F` leaves (`FieldAfterText`). What remains is where the
  reader stops: `EndOfFitting` for codes that fit, `FirstFEnds` for the first
  `F`, `EndOfSixBits` for letters and digits, whose three zeros are three `A`s.
- `DecimalsExact`, for any number of digits and decimals. The powers of ten are
  folds; `PowersMultiply` (by counting up) and `NumberIsNatural` are all that is needed of
  them, `ScaledIsExact` is the truncation (`PayloadAssumption`).

`TradingLoopProofs`, for any fill probability, poll limit and number of
messages under way (`SizingAssumption`, `LoopAssumption`):

- `OnlyFillsAreUnreadable`, the lemma behind `Readable`.
- `PositionsAgree`. With `LoopTypes` the property is inductive: `NetOfJoined`
  and `FillsBalance` say that the fills a batch adds to the stream weigh what
  it adds to the simulator's position, and a poll of several messages sets
  `missed`.
- `LoopIsQuoter`, that the loop implements `Quoter`: with `LoopTypes`, a step
  either sends a quote of `Allowed` for the strategy's position (`QuoteIsSent`),
  or takes some of the oldest quotes off the stream or none (`OffersStay`).
- `KillIsFinal`, an action property that no run asks any more since `Quoter`
  says more.
- `ExposureStaysBounded`, if `5 * BaseSize <= 2 * MaxPosition` and
  `QuotesMax <= PollLimit`. The configuration has base 0.1, limit 10 and polls of
  ten. The first hypothesis is what makes a reduced quote fit
  (`QuoteFits`); the second says that a poll leaves no older quote behind that
  would follow a newer one. `ExposureInv` bounds, side by side, how far the
  active order can take the simulator's position (`Reach`): by
  `MaxPosition + 2 * MaxOrder` (`ReachWithin`), also once the last quote on its
  way has replaced it (`QuoteWithin`), because a strategy that is about to quote
  knows a position that is behind by at most two orders, one if a quote is on
  its way already (`BehindByOrders`).

`CollectorProofs`, for any connections, topics and capacities
(`CollectorAssumption`):

- `CollectorIsTyped`: among others, that no queue exceeds its capacity.
- `DrainsAtShutdown`, from `DrainInv`: an ended publisher left an empty channel
  and no processing thread that could send to it, because `main` drops its
  senders only after the processing threads have ended.
- `CollectorIsMergedFeed`, that `Collector` implements `MergedFeed`. `OrderInv`
  says that along the way of a connection (published, channel, hand, inbox) the
  numbers ascend, which no single queue's order implies; one lemma per action
  that moves a message keeps it.
- `MessagesAreAccounted`. On top of `OrderInv`, `HeldInv` says what a hand holds
  and `Accounted` that a connection's messages are, as sets, the published, the
  lost and those under way; every step moves one message from one part to the
  next.

`BacktestProofs`, for any files, fills, poll limit and number of decimals
(`UnitAssumption`, `BacktestAssumption`):

- `LedgerStaysBalanced`. `LedgerBalanced` is inductive together with the types
  of what it reads (`Kept`). Its only hard step is `FillBalances`: one fill moves
  the imbalance by at most two units and the quantity held. That follows branch
  by branch (`OpenBalances`, `AddBalances`, `FlipBalances`, `ReduceBalances`) from
  what one truncation loses (`QuotientLoses`).
- `HistoryIsFollowed` and `ResultsStayComplete`, from `ReplayInv`: what was
  published is a prefix of what was loaded, what is left in the stream is the
  rest, and a hole is only possible where a refusal ends the thread. `Load`
  chooses a sorted sequence; `LoadedIsHistory` proves that there is one, by
  inserting one row after the other.
- `ReportStaysReal`, from `ReportInv`: gross profit less gross loss is what
  the position realised (a sum over all trades), and the peak and the fall of the
  kept samples do not exceed those of all that were reported (`Below`), and
  equal them while none was dropped.

`RateLimitersProofs`, for any number of threads and any list of limiters
(`LimiterAssumption`):

- `WindowsKeepLimit`. The count covers every grant of the window except
  between a claim and its reset, when nothing may have been granted yet
  (`WindowInv`).
- `BucketsKeepQuota`, that every bucket implements `RateQuota`. The invariant
  (`Credit`) is a balance: what was granted and the tokens left are worth at
  most the capacity and the time up to the mark, less the time that is
  `Owed`: the union of the spans of threads that have claimed and not yet
  applied. `SpanInv` says that these spans are disjoint and end at the mark, so
  that a claim adds to `Owed` exactly the time by which it moves the mark, and
  applying takes away exactly one span (`ClaimKeepsCredit`, `ApplyKeepsCredit`).
- `PassedAreCharged`. `CallsInv` adds to the calls that returned Ok those under
  way: what a limiter granted covers both. Their sum over the threads is the
  size of a set that has one pair for each unit of weight (`UnderWay`), so a
  step changes it by the charge of the one thread that moves
  (`OneChargeChanges`).

`CircuitBreakerProofs` proves `RateIsARate`, `OpenLasts` and `ClosesWhenProven`
for any set of requests and any thresholds. The last two hold until two requests
overlap: `OneMoves` reduces a step to the one request under way, and `CountInv`,
`OpenInv` and `ProvenInv` say at which of its points the counters, the time and
the probes may disagree. `RateIsARate` holds for any interleaving, by `NearInv`:
the failures counted and those that may still be (`Uncounted`) exceed the requests
by no more than the number of other requests, since whoever has just cleared the
failures is not among those. Assumed is `BreakerAssumption`.

`QuoteEngineProofs`, for every market, limit, size and ladder
(`EngineAssumption`, `SizingAssumption`, `SignalsAssumption`):

- `EngineIsTyped`, from `StateIsTyped`, which leaves `out` open since no step
  reads it. That the prices published are not negative and the sizes
  positive is no matter of types: a reduced size may be zero or negative and a
  wide spread leads below zero, but what is published passed the checks
  (`IsChecked`).
- `LaddersFit`. A ladder that is published begins with a quote that passed the
  checks (`LadderLevels`, `PublishedIsChecked`). What `size_factor` leaves of the
  base size is at most 15/6 of the part of the limit that is left, so n reduced
  sizes fit if n base sizes are at most 0.4 of the limit (`ReducedFits`, over
  `SharesFit`); no level is larger than the first (`LevelsFit`, over `TotalAtMost`).
- `ClearIsQuoted`, one lemma per check of the risk manager: the confidence is the
  mean of two signals that agree and are both enough (`ClearIsConfident`), the sizes
  are positive and within the order limit (`SizesInRoom`), drift, spread and skew of
  at most 5 % keep both prices within 10 % of the middle (`FairIsNear`,
  `OffsetIsNear`), and the two halves of the spread, cut off towards zero, still
  come to 31 % of it (`HalvesAreNear`), more than the prices lose by truncation
  (`NearIsUncrossed`). `CalmIsAccepted` takes them together; `AcceptedIsPublished`
  says that an accepted first level is published, `UrgentUnwinds` what its size is.
- `LaddersNest`: truncated offsets grow with the level, shares shrink with it.
- `WindowStaysRecent`: what is kept begins with the first trade that has not
  expired; `LeastExists` says that there is a first one.
- `EngineIsQuoter`, that the engine implements `Quoter`: the first level's sizes
  are those of the position (`FirstQuote`).
- `FarSideIsRefused`, if the default price is at least 100 units (it is 50,000 in the code's eight
  decimals) and no side of `Markets` has more than 10,000 coins at its best
  price. Some bound on the volumes is needed: the drift grows with the order flow,
  and some tens of thousands of coins per update could take the fair value, and
  with it the distance that gets the quote refused, down to nothing. `FlowIsBounded`
  is the invariant: an average of bounded changes is bounded (`AverageWithin`).
  The drift is then at most 26 % (`DriftWithin`), the fair value at least 0.74
  of the middle (`FairStaysUp`), the spread at least two thirds of it
  (`FarSpread`) and half of that for the most urgent quote (`SpreadShare`); so bid
  and ask lie 0.24 of the middle apart, whatever the skew, and cannot both lie
  within a tenth of it (`WideIsFar`).

Four more theorems state what the code does where its comments say otherwise
(the last list of section 3). No run asks for what they state, since it is not
what the code should do:

- `SilentAtLimit`: at the limit the reduced size is zero, beyond it the position is
  refused (`LimitRefuses`).
- `QuotesRestOnTrades`: the confidence of a level is at most that of the first,
  which exceeds 0.1 only if the signals agree; a trade imbalance other than 0
  takes an aggressive trade (`TotalOfNaturals`). `SilentWithoutTrades` follows.
- `SkewIsWithPosition`. The skew has the sign of the position (`SkewHasSign`), so of the two
  halves of the spread the one it is taken off is the smaller (`HalvesAreSkewed`). Offsets
  by these rates keep that order although both are truncated; of a negative fair
  value they would not, but then the quote is crossed and was refused
  (`OffsetsKeepOrder`).

Every invariant and action property of the passing runs is stated by a theorem.
Only model-checked is liveness, which needs fairness and ENABLED: `StopEnds`,
`SendsGoThrough`, `SilenceKills`, `HalfOpenDecides`, `Recovers`, `BacktestEnds`.

## 5. Not modelled

- The HTTP clients. `fetch_orderbook_snapshot` makes a new `BinanceClient` for
  each snapshot, so neither limiter nor breaker carries anything over from one
  request to the next; `builder.rate_limit()` is ignored, and `ping` and
  `server_time` bypass the limiter. In `DepthFeed` a snapshot succeeds or fails.
- The Telegram bot: a library that no program of the workspace depends on. Its
  refill adds permits that are still in use (`mm_tg/src/rate_limiter.rs:59`).
- The production ingestor with its metrics, health and thread pinning, which no
  program starts; the exchange presets, constants of `RateLimiters`; the process
  shell: arguments, configuration, logging.
- The backtest's other statistics and mark price, the contents of
  the collector's state messages, its buffer pool, message headers, formatting.
- HTTP calls whose future is dropped before it returns. Ctrl-C, which ends the
  loops of strategy, simulator and pricing engine at their top.
- Integers are unbounded: an `i64` in fixed point overflows above 9e10.
- `reset()` of the limiters, `reset_after_resync`, `DataReplayEngine::run` and
  `HeartbeatChecker` have no caller in the programs.

## 6. What is left

1. `QuoteEngine` inside `TradingLoop`, so that the confidence of a quote depends
   on the trades of the same behaviour; sizes and the kill switch are tied together
   by `Quoter`.
2. The bot, once a program uses it: permits and their refill, trading state.

The runs are kept to a dozen and the properties to about forty, so that all of them
can be repeated at every change. A new question replaces the one that teaches
least or is asked of an existing instance.
