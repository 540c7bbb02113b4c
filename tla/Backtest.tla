------------------------------- MODULE Backtest -------------------------------
(***************************************************************************)
(* The backtest (mm_app/src/bin/mm_backtest.rs, mm_backtest): historical   *)
(* rows are loaded and sorted, a thread replays them over the market data  *)
(* stream and the trade stream at the pace of their timestamps, and main   *)
(* collects the fills and positions that the simulator and the strategy,   *)
(* which trade on them, publish; it ends when the replay has.              *)
(*                                                                         *)
(* A row is [file, row, time]; its prices are data, and so is the book     *)
(* main keeps for its mark price.  Main's three receives each wait up to   *)
(* 30 s and hand on the last of up to ten messages.                        *)
(***************************************************************************)
EXTENDS Ledger, WireFormat, FixedPoint

CONSTANTS
  BookFiles, TradeFiles,        \* what the two CSV files may hold: sequences of times
  FirstTime, LastTime,          \* start_time and end_time of the configuration
  InitialCapital,
  FillChoices, EquityChoices,   \* the fills and total profits that may be reported
  PollLimit,                    \* fragments per poll
  SamplesMax,                   \* 10,000
  StepMax,                      \* bound of the model: time that passes between two ticks
  MessagesMax                   \* bound of the model: fills and positions reported

ASSUME BacktestAssumption ==
  /\ BookFiles \subseteq Seq(Nat) /\ TradeFiles \subseteq Seq(Nat)
  /\ FirstTime \in Nat /\ LastTime \in Nat /\ InitialCapital \in Int
  /\ FillChoices \subseteq [side : {"bid", "ask"}, price : Int, qty : Nat]
  /\ EquityChoices \subseteq Int
  /\ PollLimit \in Nat \ {0} /\ SamplesMax \in Nat \ {0}
  /\ StepMax \in Nat \ {0} /\ MessagesMax \in Nat

VARIABLES
  loaded,                       \* history: the rows as loaded
  events,                       \* HistoricalDataStream.events
  running, replay,              \* main's flag; the thread and the time of its tick
  published,                    \* history: what the replay published
  refused,                      \* history: a publication failed
  fills, positions,             \* the two streams that main collects
  main,
  position,                     \* main's ledger
  trades, equity,               \* PerformanceTracker: profit per fill, equity_curve
  paid, slack,                  \* history: money paid for fills; rounding allowed
  low                           \* history: [seen, peak, fall] of every equity reported

replaying == <<events, replay, published, refused>>
collected == <<position, trades, paid, slack>>
sampled == <<equity, low>>
streams == <<fills, positions>>
vars == <<loaded, replaying, running, streams, main, collected, sampled>>
-----------------------------------------------------------------------------
(* load_orderbook_csv and load_trades_csv: the rows of a file.  A file     *)
(* that is missing or has a bad row gives none.                            *)
Rows(file, times) ==
  {[file |-> file, row |-> i, time |-> times[i]] : i \in DOMAIN times}

InPeriod(rows) == {e \in rows : FirstTime <= e.time /\ e.time <= LastTime}

(* The books are loaded before the trades, each file from the top. *)
LoadedBefore(e, f) == IF e.file = f.file THEN e.row < f.row ELSE e.file = "book"

(* sort_by_key looks at the time, and is stable. *)
Earlier(e, f) == e.time < f.time \/ (e.time = f.time /\ LoadedBefore(e, f))

SortedByTime(rows) ==
  CHOOSE s \in [1 .. Cardinality(rows) -> rows] :
    \A i, j \in DOMAIN s : i < j => Earlier(s[i], s[j])

(* load_historical_data; HistoricalDataStream::new sorts once more. *)
Load(books, trades_) ==
  SortedByTime(InPeriod(Rows("book", books)) \cup InPeriod(Rows("trade", trades_)))

(* main up to its loop; without data it is over at once. *)
Init ==
  /\ \E books \in BookFiles, trades_ \in TradeFiles : loaded = Load(books, trades_)
  /\ events = loaded
  /\ running = TRUE
  /\ replay = [pc |-> IF loaded = <<>> THEN "ended" ELSE "starting", now |-> 0]
  /\ published = <<>> /\ refused = FALSE
  /\ fills = <<>> /\ positions = <<>>
  /\ main = IF loaded = <<>> THEN "ended" ELSE "market"
  /\ position = Flat /\ trades = <<>>
  /\ equity = <<>>
  /\ paid = 0 /\ slack = 0
  /\ low = [seen |-> 0, peak |-> InitialCapital, fall |-> 0]
-----------------------------------------------------------------------------
(* The replay thread. *)

StartReplay ==
  /\ replay.pc = "starting"
  /\ replay' = [pc |-> "waiting", now |-> events[1].time]
  /\ UNCHANGED <<loaded, events, published, refused, running, streams, main, collected, sampled>>

(* A publication cannot be added. *)
StartFails ==
  /\ replay.pc = "starting"
  /\ replay' = [replay EXCEPT !.pc = "ended"]
  /\ refused' = TRUE
  /\ UNCHANGED <<loaded, events, published, running, streams, main, collected, sampled>>

(* The loop's test, and the time that tick works with. *)
Tick ==
  /\ replay.pc = "waiting" /\ running /\ events # <<>>
  /\ replay' = [replay EXCEPT !.pc = "publishing"]
  /\ UNCHANGED <<loaded, events, published, refused, running, streams, main, collected, sampled>>

EndReplay ==
  /\ replay.pc = "waiting" /\ ~(running /\ events # <<>>)
  /\ replay' = [replay EXCEPT !.pc = "ended"]
  /\ UNCHANGED <<loaded, events, published, refused, running, streams, main, collected, sampled>>

Due == events # <<>> /\ Head(events).time <= replay.now

PublishEvent ==
  /\ replay.pc = "publishing" /\ Due
  /\ events' = Tail(events)
  /\ published' = Append(published, Head(events))
  /\ UNCHANGED <<loaded, replay, refused, running, streams, main, collected, sampled>>

(* Faulty variant: an event that is refused is skipped. *)
PublishFailsOn ==
  /\ replay.pc = "publishing" /\ Due
  /\ events' = Tail(events)
  /\ refused' = TRUE
  /\ UNCHANGED <<loaded, replay, published, running, streams, main, collected, sampled>>

(* The event, already taken, is refused by the stream or does not encode;  *)
(* that ends the thread.                                                   *)
PublishFails ==
  /\ replay.pc = "publishing" /\ Due
  /\ events' = Tail(events)
  /\ refused' = TRUE
  /\ replay' = [replay EXCEPT !.pc = "ended"]
  /\ UNCHANGED <<loaded, published, running, streams, main, collected, sampled>>

(* Faulty variant: the break out of tick's loop leaves the thread's.       *)
SleepForGood ==
  /\ replay.pc = "publishing" /\ ~Due
  /\ replay' = [replay EXCEPT !.pc = "ended"]
  /\ UNCHANGED <<loaded, events, published, refused, running, streams, main, collected, sampled>>

(* Nothing more is due: the thread sleeps, and time passes. *)
Sleep ==
  /\ replay.pc = "publishing" /\ ~Due
  /\ \E step \in 1 .. StepMax : replay' = [pc |-> "waiting", now |-> replay.now + step]
  /\ UNCHANGED <<loaded, events, published, refused, running, streams, main, collected, sampled>>
-----------------------------------------------------------------------------
(* The simulator and the strategy. *)
Reported == Len(fills) + Len(positions) + Len(trades) + low.seen

FillArrives ==
  /\ main # "ended" /\ Reported < MessagesMax
  /\ \E fill \in FillChoices : fills' = Append(fills, fill)
  /\ UNCHANGED <<loaded, replaying, running, positions, main, collected, sampled>>

PositionArrives ==
  /\ main # "ended" /\ Reported < MessagesMax
  /\ \E total \in EquityChoices : positions' = Append(positions, InitialCapital + total)
  /\ UNCHANGED <<loaded, replaying, running, fills, main, collected, sampled>>

CtrlC ==
  /\ running /\ main # "ended" /\ running' = FALSE
  /\ UNCHANGED <<loaded, replaying, streams, main, collected, sampled>>
-----------------------------------------------------------------------------
(* Main's loop. *)

(* Its test, and the market data that moves the mark price. *)
Market ==
  /\ main = "market"
  /\ main' = IF running THEN "fills" ELSE "joining"
  /\ UNCHANGED <<loaded, replaying, running, streams, collected, sampled>>

(* The last of the k fills polled is applied and recorded with the profit  *)
(* it made.  from_fixed_point and from_f64 give back the number they got.  *)
CollectFill(k) ==
  /\ main = "fills" /\ k = Min({PollLimit, Len(fills)}) /\ k > 0
  /\ \E checksum \in Checksum : Readable(OrderFillMessage, checksum)
  /\ position' = ApplyFill(position, fills[k])
  /\ trades' = Append(trades, position'.realized - position.realized)
  /\ fills' = SubSeq(fills, k + 1, Len(fills))
  /\ paid' = paid + fills[k].price * Signed(fills[k])
  /\ slack' = slack + Rounding(position')
  /\ main' = "positions"
  /\ UNCHANGED <<loaded, replaying, running, positions, sampled>>

(* A fill that is not understood is passed over. *)
IgnoreFill(k) ==
  /\ main = "fills" /\ k = Min({PollLimit, Len(fills)}) /\ k > 0
  /\ \E checksum \in Checksum : ~Readable(OrderFillMessage, checksum)
  /\ fills' = SubSeq(fills, k + 1, Len(fills))
  /\ main' = "positions"
  /\ UNCHANGED <<loaded, replaying, running, positions, collected, sampled>>

NoFill ==
  /\ main = "fills" /\ fills = <<>>
  /\ main' = "positions"
  /\ UNCHANGED <<loaded, replaying, running, streams, collected, sampled>>

(* update_equity *)
Sampled(e) ==
  LET longer == Append(equity, e)
  IN  IF Len(longer) > SamplesMax THEN Tail(longer) ELSE longer

CollectPosition(k) ==
  LET e == positions[k]
      peak == Max({low.peak, e})
  IN  /\ main = "positions" /\ k = Min({PollLimit, Len(positions)}) /\ k > 0
      /\ equity' = Sampled(e)
      /\ low' = [seen |-> low.seen + 1, peak |-> peak, fall |-> Max({low.fall, peak - e})]
      /\ positions' = SubSeq(positions, k + 1, Len(positions))
      /\ main' = "check"
      /\ UNCHANGED <<loaded, replaying, running, fills, collected>>

NoPosition ==
  /\ main = "positions" /\ positions = <<>>
  /\ main' = "check"
  /\ UNCHANGED <<loaded, replaying, running, streams, collected, sampled>>

(* Faulty variant: the replay's end goes unnoticed. *)
CheckRunning ==
  /\ main = "check"
  /\ main' = "market"
  /\ UNCHANGED <<loaded, replaying, running, streams, collected, sampled>>

(* The loop ends with the replay thread, whatever the streams still hold. *)
Check ==
  /\ main = "check"
  /\ main' = IF replay.pc = "ended" THEN "joining" ELSE "market"
  /\ UNCHANGED <<loaded, replaying, running, streams, collected, sampled>>

(* The thread is joined, and the metrics are computed and written. *)
Report ==
  /\ main = "joining" /\ replay.pc = "ended"
  /\ main' = "ended"
  /\ UNCHANGED <<loaded, replaying, running, streams, collected, sampled>>
-----------------------------------------------------------------------------
(* calculate_metrics *)
GrossProfit == Total([i \in DOMAIN trades |-> IF trades[i] > 0 THEN trades[i] ELSE 0])
GrossLoss   == Total([i \in DOMAIN trades |-> IF trades[i] < 0 THEN -trades[i] ELSE 0])

(* Faulty variant: the peak is the first sample's equity. *)
MaxDrawdownOfSamples ==
  LET Next_(m, e) == [peak |-> Max({m.peak, e}), fall |-> Max({m.fall, Max({m.peak, e}) - e})]
  IN  IF equity = <<>> THEN 0
      ELSE FoldLeft(Next_, [peak |-> equity[1], fall |-> 0], equity).fall

(* calculate_max_drawdown *)
MaxDrawdown ==
  LET Next_(m, e) == [peak |-> Max({m.peak, e}), fall |-> Max({m.fall, Max({m.peak, e}) - e})]
  IN  FoldLeft(Next_, [peak |-> InitialCapital, fall |-> 0], equity).fall
-----------------------------------------------------------------------------
ReplayStep ==
  \/ StartReplay \/ StartFails \/ Tick \/ EndReplay
  \/ PublishEvent \/ PublishFails \/ Sleep

MainStep ==
  \/ Market \/ NoFill \/ NoPosition \/ Check \/ Report
  \/ \E k \in 1 .. PollLimit : CollectFill(k) \/ IgnoreFill(k) \/ CollectPosition(k)

Next == ReplayStep \/ MainStep \/ FillArrives \/ PositionArrives \/ CtrlC

(* Both threads keep running: no receive waits for more than 30 s. *)
Spec == Init /\ [][Next]_vars /\ WF_vars(ReplayStep) /\ WF_vars(MainStep)
-----------------------------------------------------------------------------
(* The replay plays history: times never go back, rows of a file that have *)
(* the same time keep their order, and no row is left out before another,  *)
(* also when a publication is refused.                                     *)
ReplayFollowsHistory ==
  /\ published = SubSeq(loaded, 1, Len(published))
  /\ \A i, j \in DOMAIN published :
       LET e == published[i]
           f == published[j]
       IN  i < j => /\ e.time <= f.time
                    /\ e.file = f.file /\ e.time = f.time => e.row < f.row

(* A backtest that was neither stopped nor refused a publication has       *)
(* replayed everything when it writes its results.                         *)
ResultsAreComplete ==
  main = "ended" /\ running /\ ~refused => published = loaded

(* Whatever fills in whatever order, through zero and back: the realised   *)
(* profit and the average price account for the money paid, up to the      *)
(* rounding of each fill.                                                  *)
LedgerBalanced == Imbalance(position, paid) <= slack

(* The figures of the report agree with what happened: the drawdown is one *)
(* the equity had, and the largest as long as no sample has been dropped;  *)
(* the wins and losses behind the profit factor add up to the realised     *)
(* profit.                                                                 *)
ReportIsReal ==
  /\ MaxDrawdown <= low.fall
  /\ Len(equity) = low.seen => MaxDrawdown = low.fall
  /\ GrossProfit - GrossLoss = position.realized

(* The backtest ends: with its data, with a refusal, or with Ctrl-C. *)
BacktestEnds == <>(main = "ended")
=============================================================================
