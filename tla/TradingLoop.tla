------------------------------ MODULE TradingLoop ------------------------------
(***************************************************************************)
(* The quote/fill loop between the strategy (mm_strategy) and the order    *)
(* simulator (mm_simulator): quotes go over one Aeron stream, fills come   *)
(* back over another, and each process keeps a position of its own.        *)
(*                                                                         *)
(* Both are single-threaded loops that poll one stream without waiting and *)
(* then block up to 30 s on market data.  Messages arrive while a process  *)
(* is blocked, so the two halves of an iteration are steps of their own.   *)
(* A poll takes up to ten messages and hands on only the last.             *)
(*                                                                         *)
(* Market data is abstract: whether the book is ready for a quote is left  *)
(* open, and a batch may cross any of the simulator's orders (DepthFeed    *)
(* has the order book).  Of a position only the quantity is kept.  Quotes  *)
(* and heartbeats are always readable, fills are not (WireFormat).         *)
(***************************************************************************)
EXTENDS QuoteSizing, WireFormat

CONSTANTS
  FillTenths,   \* fill_probability_factor * 10
  PollLimit,    \* fragments per poll
  QuotesMax,    \* bounds of the model: quotes and fills
  FillsMax,     \* that wait in their streams
  MaxExposure,  \* bound of the model: no fill beyond this position
  MaxDrift      \* bound of the model: how far fills that a poll drops or that are not
                \* understood set the positions apart

ASSUME LoopAssumption ==
  /\ FillTenths \in 0 .. 10 /\ PollLimit \in Nat \ {0}
  /\ QuotesMax \in Nat /\ FillsMax \in Nat
  /\ MaxExposure \in Nat /\ MaxDrift \in Nat

VARIABLES
  stale,     \* the last heartbeat is older than HEARTBEAT_TIMEOUT_MS
  strategy,  \* [pc, alive, killed, position]
  quotes,    \* stream of quotes
  simulator, \* [pc, alive, orders, position]; orders: what is left of each side's, 0: none
  fills,     \* stream of fills
  missed     \* history: some fill has not reached the strategy, or was not understood

vars == <<stale, strategy, quotes, simulator, fills, missed>>

Sides == {"bid", "ask"}
NoOrders == [side \in Sides |-> 0]
Signed(m) == IF m.side = "bid" THEN m.qty ELSE -m.qty
Net(messages) == Total([i \in DOMAIN messages |-> Signed(messages[i])])

Init ==
  /\ stale = FALSE
  /\ strategy = [pc |-> "poll", alive |-> TRUE, killed |-> FALSE, position |-> 0]
  /\ quotes = <<>>
  /\ simulator = [pc |-> "poll", alive |-> TRUE, orders |-> NoOrders, position |-> 0]
  /\ fills = <<>>
  /\ missed = FALSE

-----------------------------------------------------------------------------
(* The collector's heartbeats come late or stop, and come back. *)
HeartbeatLate ==
  /\ ~stale /\ stale' = TRUE
  /\ UNCHANGED <<strategy, quotes, simulator, fills, missed>>

HeartbeatArrives ==
  /\ stale /\ stale' = FALSE
  /\ UNCHANGED <<strategy, quotes, simulator, fills, missed>>

(* Faulty variant: staleness is only logged, as in the simulator. *)
AfterCheckLogged(s, due) == s

(* Top of the strategy's loop: a check that is due (they are at least      *)
(* HEARTBEAT_CHECK_INTERVAL apart) kills the strategy if the heartbeat is  *)
(* stale, for good: nothing resumes it.                                    *)
AfterCheck(s, due) == [s EXCEPT !.killed = @ \/ (due /\ stale)]

(* Then the fills are polled: the last of k is looked at ... *)
PollFills(k) ==
  /\ strategy.alive /\ strategy.pc = "poll" /\ k <= Len(fills)
  /\ fills' = SubSeq(fills, k + 1, Len(fills))
  /\ UNCHANGED <<stale, quotes, simulator>>

DriftBounded ==
  Magnitude(strategy'.position + Net(fills') - simulator.position) <= MaxDrift

(* ... and applied if it is readable; the iteration ends there. *)
TakeFill(k, due) ==
  /\ PollFills(k)
  /\ \E checksum \in Checksum : Readable(OrderFillMessage, checksum)
  /\ strategy' = AfterCheck([strategy EXCEPT !.position = @ + Signed(fills[k])], due)
  /\ k = 1 \/ DriftBounded
  /\ missed' = (missed \/ k > 1)

(* It is not: a warning, and the iteration ends all the same. *)
IgnoreFill(k, due) ==
  /\ PollFills(k)
  /\ \E checksum \in Checksum : ~Readable(OrderFillMessage, checksum)
  /\ strategy' = AfterCheck(strategy, due)
  /\ DriftBounded
  /\ missed' = TRUE

(* ... or there is none, and the strategy waits for market data. *)
NoFill(due) ==
  /\ strategy.alive /\ strategy.pc = "poll" /\ fills = <<>>
  /\ strategy' = AfterCheck([strategy EXCEPT !.pc = "receive"], due)
  /\ UNCHANGED <<stale, quotes, simulator, fills, missed>>

(* Faulty variant: the kill switch is not consulted. *)
MayQuoteKilled(q, quote) == Accepted(q, quote)

MayQuote(q, quote) == ~strategy.killed /\ Accepted(q, quote)

(* 30 s of silence: a quote for the inventory the strategy knows of goes   *)
(* out, if the risk manager agrees and quote_publish_interval has passed.  *)
PublishQuote ==
  /\ strategy.alive /\ strategy.pc = "receive" /\ Len(quotes) < QuotesMax
  /\ \E drift \in Drift :
       LET quote == Quote(strategy.position, drift) IN
       /\ MayQuote(strategy.position, quote)
       /\ quotes' = Append(quotes, quote)
  /\ strategy' = [strategy EXCEPT !.pc = "poll"]
  /\ UNCHANGED <<stale, simulator, fills, missed>>

(* The publication refuses the quote, and the error ends the process. *)
PublishQuoteFails ==
  /\ strategy.alive /\ strategy.pc = "receive"
  /\ \E drift \in Drift : MayQuote(strategy.position, Quote(strategy.position, drift))
  /\ strategy' = [strategy EXCEPT !.alive = FALSE]
  /\ UNCHANGED <<stale, quotes, simulator, fills, missed>>

(* Market data arrives, or there is no quote: too early, the book is not   *)
(* ready (as DepthFeed has it), or the quote is refused.                    *)
NoQuote ==
  /\ strategy.alive /\ strategy.pc = "receive"
  /\ strategy' = [strategy EXCEPT !.pc = "poll"]
  /\ UNCHANGED <<stale, quotes, simulator, fills, missed>>

-----------------------------------------------------------------------------
(* One order per side: a quote cancels the orders of the one before. *)
Placed(quote) == [side \in Sides |-> IF side = "bid" THEN quote.bid ELSE quote.ask]

(* Cancel all and replace; the next iteration polls again. *)
TakeQuote(k) ==
  /\ simulator.alive /\ simulator.pc = "poll" /\ Len(quotes) > 0 /\ Min({PollLimit, Len(quotes)}) = k
  /\ simulator' = [simulator EXCEPT !.orders = Placed(quotes[k])]
  /\ quotes' = SubSeq(quotes, k + 1, Len(quotes))
  /\ UNCHANGED <<stale, strategy, fills, missed>>

NoNewQuote ==
  /\ simulator.alive /\ simulator.pc = "poll" /\ quotes = <<>>
  /\ simulator' = [simulator EXCEPT !.pc = "receive"]
  /\ UNCHANGED <<stale, strategy, quotes, fills, missed>>

(* The part of an order one crossing fills, rounded to the nearest unit. *)
FillOf(side) == [side |-> side, qty |-> (2 * FillTenths * simulator.orders[side] + 10) \div 20]

Fillable == {side \in Sides : FillOf(side).qty > 0}

(* The fills of the crossed orders, in the order in which the map yields them. *)
Fills(hits) == [j \in DOMAIN hits |-> FillOf(hits[j])]

(* Faulty variant: a fill leaves the order as large as it was. *)
AfterFillsKept(hits) == simulator.orders

AfterFills(hits) ==
  [side \in Sides |->
     simulator.orders[side] - IF \E j \in DOMAIN hits : hits[j] = side THEN FillOf(side).qty ELSE 0]

Execute(hits) ==
  /\ simulator.alive /\ simulator.pc = "receive"
  /\ Magnitude(simulator.position + Net(Fills(hits))) <= MaxExposure
  /\ simulator' = [simulator EXCEPT !.pc = "poll", !.orders = AfterFills(hits),
                                    !.position = @ + Net(Fills(hits))]

(* Faulty variant: drained twice, as in the branch that finds no data.      *)
TradeUnpublished(hits) ==
  /\ Execute(hits)
  /\ UNCHANGED <<stale, strategy, quotes, fills, missed>>

(* A batch crosses some of the orders (none that are younger than           *)
(* order_placement_latency_us); the fills are published.                    *)
Trade(hits) ==
  /\ Execute(hits)
  /\ Len(fills) + Len(hits) <= FillsMax
  /\ fills' = fills \o Fills(hits)
  /\ UNCHANGED <<stale, strategy, quotes, missed>>

(* Publishing fails after n of them, and the error ends the process and    *)
(* with it the position it kept.                                           *)
TradeFails(hits, n) ==
  /\ simulator.alive /\ simulator.pc = "receive"
  /\ Len(fills) + n <= FillsMax
  /\ simulator' = [simulator EXCEPT !.alive = FALSE, !.orders = NoOrders, !.position = 0]
  /\ fills' = fills \o SubSeq(Fills(hits), 1, n)
  /\ missed' = TRUE
  /\ UNCHANGED <<stale, strategy, quotes>>

-----------------------------------------------------------------------------
Poll(due) ==
  \/ NoFill(due)
  \/ \E k \in 1 .. PollLimit : TakeFill(k, due) \/ IgnoreFill(k, due)

StrategyStep ==
  \/ \E due \in BOOLEAN : Poll(due)
  \/ PublishQuote \/ PublishQuoteFails \/ NoQuote

SimulatorStep ==
  \/ \E k \in 1 .. PollLimit : TakeQuote(k)
  \/ NoNewQuote
  \/ \E hit \in SUBSET Fillable : \E hits \in SetToSeqs(hit) :
       \/ Trade(hits)
       \/ \E n \in 0 .. Len(hits) - 1 : TradeFails(hits, n)

Next == HeartbeatLate \/ HeartbeatArrives \/ StrategyStep \/ SimulatorStep

(* The strategy's loop never blocks for good, and a check that is possible *)
(* again and again comes due: an iteration may last seconds, not forever.  *)
Spec == /\ Init /\ [][Next]_vars
        /\ WF_vars(StrategyStep)
        /\ SF_vars(Poll(TRUE))

-----------------------------------------------------------------------------
(* As long as every fill has been published, polled on its own and         *)
(* understood, the positions of the two processes differ by exactly the    *)
(* fills in flight.                                                        *)
AccountsAgree ==
  ~missed => strategy.position + Net(fills) = simulator.position

(* mm_strategy.rs:138, "Update position tracker": a fill that is polled on *)
(* its own changes the position by its quantity.                           *)
FillsReachPosition ==
  [][fills # <<>> /\ fills' = Tail(fills)
       => strategy'.position = strategy.position + Signed(Head(fills))]_vars

(* After the kill switch no new quote is published, and it is never reset. *)
KillStopsQuoting ==
  [][strategy.killed => strategy'.killed /\ Len(quotes') <= Len(quotes)]_vars

Quoting == INSTANCE Quoter WITH
  position <- strategy.position, killed <- strategy.killed, offers <- quotes

(* Between fills, heartbeats and refused publications, a quote goes out    *)
(* only for the position known when it is sent, and none after the kill    *)
(* switch, which is final: of the stream only the oldest quotes ever go.   *)
ImplementsQuoter == Quoting!QuoterSpec

(* The position limit holds up to what stale information costs: while no   *)
(* fill is missed, an order active when the quote was sized, one still in  *)
(* the stream, and the quote itself.                                       *)
ExposureBounded ==
  ~missed => Magnitude(simulator.position) <= MaxPosition + 2 * MaxOrder

(* A collector that stays silent stops the quoting in the end.             *)
SilenceKills == <>[]stale => <>(strategy.killed \/ ~strategy.alive)
=============================================================================
