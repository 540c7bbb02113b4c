------------------------------ MODULE Collector ------------------------------
(***************************************************************************)
(* The threads of mm_collector (mm_app/src/bin/mm_collector.rs) and the    *)
(* bounded queues between them.  For every WebSocket connection c:         *)
(*                                                                         *)
(*   socket --ingestion thread--> inbox[c] --processing thread--> channel  *)
(*                                                                         *)
(* and for every topic (depth, trades), whose connections race each other, *)
(* one publisher thread that empties the topic's channel into Aeron.  The  *)
(* threads stop through `running', which main polls, and one flag per      *)
(* connection, which its two threads poll.  The model starts where main    *)
(* has connected, raised the flags, started the processing threads and set *)
(* up the Ctrl-C handler.                                                  *)
(*                                                                         *)
(* A thread that stores several flags does so in one step: every other     *)
(* thread reads at most one of them.                                       *)
(***************************************************************************)
EXTENDS Naturals, Sequences

CONSTANTS Conns, Topics, Reporters,
          TopicOf,              \* TopicOf[c]: the topic whose channel c feeds
          Messages,             \* Messages[c]: bound on the messages c receives
          InboxMax, ChannelMax  \* capacities: 10,000 and DEFAULT_CHANNEL_CAPACITY

ASSUME CollectorAssumption ==
  /\ TopicOf \in [Conns -> Topics]
  /\ Messages \in [Conns -> Nat]
  /\ InboxMax \in Nat \ {0} /\ ChannelMax \in Nat \ {0}

VARIABLES
  running,                      \* main's flag
  flag,                         \* flag[c]: BinanceIngestor.running
  ingestion, processing,        \* the two threads of each connection
  publisher,                    \* the publisher thread of each topic
  reporters,                    \* the state thread and the heartbeat thread
  main,
  received,                     \* received[c]: messages read from c's socket
  inbox, hand, channel,         \* messages in flight; hand[c] = 0: none
  published, lost               \* where c's messages ended up: a sequence, a set

threads == <<running, flag, ingestion, processing, publisher, reporters, main>>
data == <<received, inbox, hand, channel, published, lost>>
vars == <<threads, data>>

Init ==
  /\ running = TRUE
  /\ flag = [c \in Conns |-> TRUE]
  /\ ingestion = [c \in Conns |-> "spawned"]
  /\ processing = [c \in Conns |-> "waiting"]
  /\ publisher = [t \in Topics |-> "starting"]
  /\ reporters = [r \in Reporters |-> "started"]
  /\ main = "running"
  /\ received = [c \in Conns |-> 0]
  /\ inbox = [c \in Conns |-> <<>>]
  /\ hand = [c \in Conns |-> 0]
  /\ channel = [t \in Topics |-> <<>>]
  /\ published = [c \in Conns |-> <<>>]
  /\ lost = [c \in Conns |-> {}]
-----------------------------------------------------------------------------
(* The ingestion thread: BinanceIngestor::run and what follows it.         *)

(* run() raises the connection's flag, whatever it was. *)
Enter(c) ==
  /\ ingestion[c] = "spawned"
  /\ ingestion' = [ingestion EXCEPT ![c] = "testing"]
  /\ flag' = [flag EXCEPT ![c] = TRUE]
  /\ UNCHANGED <<running, processing, publisher, reporters, main, data>>

(* The loop's test; past it the thread blocks in the socket's read. *)
Test(c) ==
  /\ ingestion[c] = "testing"
  /\ ingestion' = [ingestion EXCEPT ![c] = IF flag[c] THEN "reading" ELSE "left"]
  /\ UNCHANGED <<running, flag, processing, publisher, reporters, main, data>>

(* Faulty variant: the inbox has no bound. *)
ReadOverfull(c) ==
  /\ ingestion[c] = "reading" /\ received[c] < Messages[c]
  /\ received' = [received EXCEPT ![c] = @ + 1]
  /\ inbox' = [inbox EXCEPT ![c] = Append(@, received'[c])]
  /\ ingestion' = [ingestion EXCEPT ![c] = "testing"]
  /\ UNCHANGED <<running, flag, processing, publisher, reporters, main, hand, channel, published, lost>>

(* A message: try_send drops it when the inbox is full. *)
Read(c) ==
  /\ ingestion[c] = "reading" /\ received[c] < Messages[c]
  /\ received' = [received EXCEPT ![c] = @ + 1]
  /\ IF Len(inbox[c]) < InboxMax
     THEN inbox' = [inbox EXCEPT ![c] = Append(@, received'[c])] /\ UNCHANGED lost
     ELSE lost' = [lost EXCEPT ![c] = @ \union {received'[c]}] /\ UNCHANGED inbox
  /\ ingestion' = [ingestion EXCEPT ![c] = "testing"]
  /\ UNCHANGED <<running, flag, processing, publisher, reporters, main, hand, channel, published>>

(* A frame of another kind, such as the server's ping. *)
ReadOther(c) ==
  /\ ingestion[c] = "reading"
  /\ ingestion' = [ingestion EXCEPT ![c] = "testing"]
  /\ UNCHANGED <<running, flag, processing, publisher, reporters, main, data>>

(* The server closes the connection, or the read fails. *)
ReadFails(c) ==
  /\ ingestion[c] = "reading"
  /\ ingestion' = [ingestion EXCEPT ![c] = "left"]
  /\ UNCHANGED <<running, flag, processing, publisher, reporters, main, data>>

(* However run() ended, the whole collector is to stop. *)
EndIngestion(c) ==
  /\ ingestion[c] = "left"
  /\ ingestion' = [ingestion EXCEPT ![c] = "ended"]
  /\ running' = FALSE
  /\ UNCHANGED <<flag, processing, publisher, reporters, main, data>>
-----------------------------------------------------------------------------
(* The processing thread: start_processing_thread and its callback.  It    *)
(* tests the flag and then waits in recv_timeout, where it still takes a   *)
(* message if the flag goes down meanwhile.  "waiting" is from the test on,*)
(* "returned" before it, with the flag down when the thread came back.     *)

AtTest(c) == IF flag[c] THEN "waiting" ELSE "returned"

MayTake(c) == processing[c] = "waiting" \/ (processing[c] = "returned" /\ flag[c])

Take(c) ==
  /\ MayTake(c) /\ inbox[c] # <<>>
  /\ processing' = [processing EXCEPT ![c] = "busy"]
  /\ hand' = [hand EXCEPT ![c] = Head(inbox[c])]
  /\ inbox' = [inbox EXCEPT ![c] = Tail(@)]
  /\ UNCHANGED <<running, flag, ingestion, publisher, reporters, main, received, channel, published, lost>>

(* A message that does not parse is logged and forgotten. *)
TakeUnreadable(c) ==
  /\ MayTake(c) /\ inbox[c] # <<>>
  /\ lost' = [lost EXCEPT ![c] = @ \union {Head(inbox[c])}]
  /\ inbox' = [inbox EXCEPT ![c] = Tail(@)]
  /\ processing' = [processing EXCEPT ![c] = AtTest(c)]
  /\ UNCHANGED <<running, flag, ingestion, publisher, reporters, main, received, hand, channel, published>>

(* parse_and_send_batch, parse_and_send_trade: send blocks while the       *)
(* channel is full.                                                        *)
Send(c) ==
  LET t == TopicOf[c]
  IN  /\ processing[c] = "busy" /\ Len(channel[t]) < ChannelMax
      /\ channel' = [channel EXCEPT ![t] = Append(@, [from |-> c, msg |-> hand[c]])]
      /\ processing' = [processing EXCEPT ![c] = AtTest(c)]
      /\ hand' = [hand EXCEPT ![c] = 0]
      /\ UNCHANGED <<running, flag, ingestion, publisher, reporters, main, received, inbox, published, lost>>

(* The flag is down, or the ingestor and its sender are gone and the inbox *)
(* is empty.  A message that is still in the inbox stays there.            *)
Quit(c) ==
  /\ processing[c] \in {"waiting", "returned"}
  /\ ~flag[c] \/ (ingestion[c] = "ended" /\ inbox[c] = <<>>)
  /\ processing' = [processing EXCEPT ![c] = "ended"]
  /\ UNCHANGED <<running, flag, ingestion, publisher, reporters, main, data>>
-----------------------------------------------------------------------------
(* The publisher thread: spawn_channel_publisher. *)

(* Faulty variant: a publisher that comes late gives up. *)
StartPublisherIfRunning(t) ==
  /\ publisher[t] = "starting"
  /\ publisher' = [publisher EXCEPT ![t] = IF running THEN "ready" ELSE "ended"]
  /\ UNCHANGED <<running, flag, ingestion, processing, reporters, main, data>>

StartPublisher(t) ==
  /\ publisher[t] = "starting"
  /\ \E outcome \in {"ready", "failed"} : publisher' = [publisher EXCEPT ![t] = outcome]
  /\ UNCHANGED <<running, flag, ingestion, processing, reporters, main, data>>

(* Faulty variant: the channel is a stack. *)
PublishLast(t) ==
  LET n == Len(channel[t])
      m == channel[t][n]
  IN  /\ publisher[t] = "ready" /\ channel[t] # <<>>
      /\ channel' = [channel EXCEPT ![t] = SubSeq(@, 1, n - 1)]
      /\ published' = [published EXCEPT ![m.from] = Append(@, m.msg)]
      /\ UNCHANGED <<threads, received, inbox, hand, lost>>

(* Faulty variant: the message stays in the channel. *)
PublishAgain(t) ==
  LET m == Head(channel[t])
  IN  /\ publisher[t] = "ready" /\ channel[t] # <<>>
      /\ published' = [published EXCEPT ![m.from] = Append(@, m.msg)]
      /\ UNCHANGED <<threads, channel, received, inbox, hand, lost>>

(* The head of the channel reaches Aeron, or is given up after MAX_RETRIES *)
(* refusals.                                                               *)
Publish(t) ==
  LET m == Head(channel[t])
  IN  /\ publisher[t] = "ready" /\ channel[t] # <<>>
      /\ channel' = [channel EXCEPT ![t] = Tail(@)]
      /\ \/ published' = [published EXCEPT ![m.from] = Append(@, m.msg)] /\ UNCHANGED lost
         \/ lost' = [lost EXCEPT ![m.from] = @ \union {m.msg}] /\ UNCHANGED published
      /\ UNCHANGED <<threads, received, inbox, hand>>

(* Faulty variant: the thread ends with the main loop. *)
EndPublisherAtOnce(t) ==
  /\ publisher[t] = "ready" /\ ~running
  /\ publisher' = [publisher EXCEPT ![t] = "ended"]
  /\ UNCHANGED <<running, flag, ingestion, processing, reporters, main, data>>

(* recv fails once the channel is empty and every sender is dropped: main's *)
(* own and the one in each processing thread's callback.                    *)
EndPublisher(t) ==
  /\ publisher[t] = "ready" /\ channel[t] = <<>>
  /\ main = "closed"
  /\ \A c \in Conns : TopicOf[c] = t => processing[c] = "ended"
  /\ publisher' = [publisher EXCEPT ![t] = "ended"]
  /\ UNCHANGED <<running, flag, ingestion, processing, reporters, main, data>>
-----------------------------------------------------------------------------
(* The state and heartbeat threads: a loop that ends with `running', and    *)
(* is never reached when their publication cannot be added.                *)
ReporterFails(r) ==
  /\ reporters[r] = "started"
  /\ reporters' = [reporters EXCEPT ![r] = "ended"]
  /\ UNCHANGED <<running, flag, ingestion, processing, publisher, main, data>>

EndReporter(r) ==
  /\ reporters[r] = "started" /\ ~running
  /\ reporters' = [reporters EXCEPT ![r] = "ended"]
  /\ UNCHANGED <<running, flag, ingestion, processing, publisher, main, data>>
-----------------------------------------------------------------------------
(* Ctrl-C, any number of times: shutdown_handler::setup_multi. *)
CtrlC ==
  /\ main # "ended"
  /\ running' = FALSE
  /\ flag' = [c \in Conns |-> FALSE]
  /\ UNCHANGED <<ingestion, processing, publisher, reporters, main, data>>

(* Faulty variant: the flags stay up. *)
StopMainOnly ==
  /\ main = "running" /\ ~running
  /\ main' = "joining"
  /\ UNCHANGED <<running, flag, ingestion, processing, publisher, reporters, data>>

(* main's loop ends; it lowers the flags ... *)
Stop ==
  /\ main = "running" /\ ~running
  /\ main' = "joining"
  /\ flag' = [c \in Conns |-> FALSE]
  /\ UNCHANGED <<running, ingestion, processing, publisher, reporters, data>>

(* ... joins the threads of the connections and drops the senders ... *)
CloseChannels ==
  /\ main = "joining"
  /\ \A c \in Conns : ingestion[c] = "ended" /\ processing[c] = "ended"
  /\ main' = "closed"
  /\ UNCHANGED <<running, flag, ingestion, processing, publisher, reporters, data>>

(* ... and joins the others. *)
Exit ==
  /\ main = "closed"
  /\ \A t \in Topics : publisher[t] \in {"ended", "failed"}
  /\ \A r \in Reporters : reporters[r] = "ended"
  /\ main' = "ended"
  /\ UNCHANGED <<running, flag, ingestion, processing, publisher, reporters, data>>
-----------------------------------------------------------------------------
Socket(c) == Read(c) \/ ReadOther(c) \/ ReadFails(c)

Ingest(c) == Enter(c) \/ Test(c) \/ Socket(c) \/ EndIngestion(c)

Process(c) == Take(c) \/ TakeUnreadable(c) \/ Send(c) \/ Quit(c)

PublisherStep(t) == StartPublisher(t) \/ Publish(t) \/ EndPublisher(t)

ReporterStep(r) == ReporterFails(r) \/ EndReporter(r)

MainStep == Stop \/ CloseChannels \/ Exit

Next ==
  \/ \E c \in Conns : Ingest(c) \/ Process(c)
  \/ \E t \in Topics : PublisherStep(t)
  \/ \E r \in Reporters : ReporterStep(r)
  \/ MainStep
  \/ CtrlC

(* Every thread keeps running, and a read returns in the end: the server   *)
(* pings an idle connection.  Nothing makes the user press Ctrl-C.         *)
Fairness ==
  /\ \A c \in Conns : WF_vars(Ingest(c)) /\ WF_vars(Process(c))
  /\ \A t \in Topics : WF_vars(PublisherStep(t))
  /\ \A r \in Reporters : WF_vars(ReporterStep(r))
  /\ WF_vars(MainStep)

Spec == Init /\ [][Next]_vars /\ Fairness
-----------------------------------------------------------------------------
TypeOK ==
  /\ running \in BOOLEAN /\ flag \in [Conns -> BOOLEAN]
  /\ ingestion \in [Conns -> {"spawned", "testing", "reading", "left", "ended"}]
  /\ processing \in [Conns -> {"waiting", "returned", "busy", "ended"}]
  /\ publisher \in [Topics -> {"starting", "ready", "failed", "ended"}]
  /\ reporters \in [Reporters -> {"started", "ended"}]
  /\ main \in {"running", "joining", "closed", "ended"}
  /\ \A c \in Conns :
       /\ received[c] \in 0 .. Messages[c]
       /\ inbox[c] \in Seq(1 .. received[c]) /\ Len(inbox[c]) <= InboxMax
       /\ hand[c] \in 0 .. received[c] /\ (hand[c] # 0 <=> processing[c] = "busy")
       /\ published[c] \in Seq(1 .. received[c]) /\ lost[c] \subseteq 1 .. received[c]
  /\ \A t \in Topics :
       /\ channel[t] \in Seq([from : {c \in Conns : TopicOf[c] = t}, msg : Nat])
       /\ Len(channel[t]) <= ChannelMax

Elements(q) == {q[i] : i \in DOMAIN q}

(* The messages of c that are between its socket and the publisher. *)
InFlight(c) ==
  Elements(inbox[c])
    \union ({hand[c]} \ {0})
    \union {e.msg : e \in {x \in Elements(channel[TopicOf[c]]) : x.from = c}}

(* Every message a connection has received is in exactly one place:        *)
(* published, lost where the code logs a loss, or in flight.  Nothing      *)
(* disappears between two queues and nothing is in two of them.            *)
EveryMessageAccounted ==
  \A c \in Conns :
    /\ 1 .. received[c] = Elements(published[c]) \union lost[c] \union InFlight(c)
    /\ Elements(published[c]) \intersect lost[c] = {}
    /\ InFlight(c) \intersect (Elements(published[c]) \union lost[c]) = {}

(* Shutdown keeps what was handed over: when main ends, a channel that has *)
(* a publisher is empty and no processing thread holds a message.          *)
ShutdownDrains ==
  main = "ended" =>
    /\ \A t \in Topics : publisher[t] = "ended" => channel[t] = <<>>
    /\ \A c \in Conns : hand[c] = 0

Feed == INSTANCE MergedFeed WITH Sources <- Conns, delivered <- published

(* What the collector publishes is a merged feed: however full the queues, *)
(* each connection's messages leave in the order it received them, none    *)
(* twice.                                                                  *)
ImplementsMergedFeed == Feed!FeedSpec

Entered == \A c \in Conns : ingestion[c] # "spawned"

(* Stopping ends the process, whatever the queues hold: once `running' is  *)
(* down, by Ctrl-C or because one connection ended, main ends.  Not if a   *)
(* publisher failed to start, since a processing thread may then block in  *)
(* send for ever, and not if a run() begins after main has lowered the     *)
(* flags, since it raises its flag again.                                  *)
StopEnds ==
  (main = "running" /\ ~running /\ Entered) ~> (main = "ended" \/ \E t \in Topics : publisher[t] = "failed")

(* A processing thread that waits for room in its channel gets on, also    *)
(* while the collector is being stopped: its publisher is the one thread   *)
(* main joins after it.                                                    *)
SendsGoThrough ==
  \A c \in Conns :
    hand[c] # 0 ~> (hand[c] = 0 \/ publisher[TopicOf[c]] = "failed")
=============================================================================
