--------------------------- MODULE CollectorProofs ---------------------------
(***************************************************************************)
(* Theorems about Collector for any number of connections and topics and   *)
(* any capacity of the queues.                                             *)
(***************************************************************************)
EXTENDS Collector, TLAPS

(* The part of the types that the argument needs. *)
Shapes ==
  /\ processing \in [Conns -> {"waiting", "returned", "busy", "ended"}]
  /\ publisher \in [Topics -> {"starting", "ready", "failed", "ended"}]
  /\ hand = [c \in Conns |-> hand[c]]
  /\ channel = [t \in Topics |-> channel[t]]
  /\ inbox = [c \in Conns |-> inbox[c]]

(* A message is only in the hand of a busy thread. *)
HandInv == \A c \in Conns : processing[c] # "busy" => hand[c] = 0

(* A publisher that ended left nothing, and nobody can add anything. *)
PublisherInv ==
  \A t \in Topics : publisher[t] = "ended" =>
    /\ channel[t] = <<>>
    /\ \A c \in Conns : TopicOf[c] = t => processing[c] = "ended"

(* main drops its senders after the processing threads have ended. *)
MainInv == main \in {"closed", "ended"} => \A c \in Conns : processing[c] = "ended"

DrainInv == Shapes /\ HandInv /\ PublisherInv /\ MainInv

(* Whatever the queues held when the stop came: when main ends, the        *)
(* channels of the publishers that ran are empty and no processing thread  *)
(* holds a message.                                                        *)
THEOREM DrainsAtShutdown == Spec => []ShutdownDrains
<1> USE CollectorAssumption
<1>1. Init => DrainInv
  BY DEF Init, DrainInv, Shapes, HandInv, PublisherInv, MainInv
<1>2. DrainInv /\ [Next]_vars => DrainInv'
  <2> SUFFICES ASSUME DrainInv, [Next]_vars PROVE DrainInv'
    OBVIOUS
  <2> USE DEF DrainInv, Shapes, HandInv, PublisherInv, MainInv, threads, data
  <2>1. ASSUME NEW c \in Conns,
               Enter(c) \/ Test(c) \/ Read(c) \/ ReadOther(c) \/ ReadFails(c) \/ EndIngestion(c)
        PROVE  DrainInv'
    <3>1. UNCHANGED <<processing, publisher, main, hand, channel>>
      BY <2>1 DEF Enter, Test, Read, ReadOther, ReadFails, EndIngestion
    <3>2. (inbox = [d \in Conns |-> inbox[d]])'
      BY <2>1 DEF Enter, Test, Read, ReadOther, ReadFails, EndIngestion
    <3> QED BY <3>1, <3>2
  <2>2. ASSUME NEW c \in Conns, Take(c) PROVE DrainInv'
    BY <2>2 DEF Take, MayTake
  <2>3. ASSUME NEW c \in Conns, TakeUnreadable(c) PROVE DrainInv'
    BY <2>3 DEF TakeUnreadable, MayTake, AtTest
  <2>4. ASSUME NEW c \in Conns, Send(c) PROVE DrainInv'
    BY <2>4 DEF Send, AtTest
  <2>5. ASSUME NEW c \in Conns, Quit(c) PROVE DrainInv'
    BY <2>5 DEF Quit
  <2>6. ASSUME NEW t \in Topics, StartPublisher(t) PROVE DrainInv'
    BY <2>6 DEF StartPublisher
  <2>7. ASSUME NEW t \in Topics, Publish(t) PROVE DrainInv'
    BY <2>7 DEF Publish
  <2>8. ASSUME NEW t \in Topics, EndPublisher(t) PROVE DrainInv'
    BY <2>8 DEF EndPublisher
  <2>9. ASSUME NEW r \in Reporters, ReporterFails(r) \/ EndReporter(r) PROVE DrainInv'
    BY <2>9 DEF ReporterFails, EndReporter
  <2>10. CASE Stop \/ CloseChannels \/ Exit \/ CtrlC
    BY <2>10 DEF Stop, CloseChannels, Exit, CtrlC
  <2>11. CASE UNCHANGED vars
    BY <2>11 DEF vars
  <2> HIDE DEF DrainInv
  <2> QED BY <2>1, <2>2, <2>3, <2>4, <2>5, <2>6, <2>7, <2>8, <2>9, <2>10, <2>11
          DEF Next, Ingest, Socket, Process, PublisherStep, ReporterStep, MainStep, DrainInv, Shapes
<1>3. DrainInv => ShutdownDrains
  BY DEF DrainInv, Shapes, HandInv, PublisherInv, MainInv, ShutdownDrains
<1> QED BY <1>1, <1>2, <1>3, PTL DEF Spec
-----------------------------------------------------------------------------
(***************************************************************************)
(* The order of the messages along the way of a connection: published,     *)
(* channel, hand, inbox, in ascending numbers.                             *)
(***************************************************************************)
Item == [from : Conns, msg : Nat]

Latest(c) == Feed!Latest(c)

DataTypes ==
  /\ received \in [Conns -> Nat] /\ hand \in [Conns -> Nat]
  /\ inbox \in [Conns -> Seq(Nat)] /\ published \in [Conns -> Seq(Nat)]
  /\ channel \in [Topics -> Seq(Item)]
  /\ processing \in [Conns -> {"waiting", "returned", "busy", "ended"}]

(* What is in the hand of a busy thread is a message, and a channel holds  *)
(* messages of its own connections.                                        *)
Placed ==
  /\ \A c \in Conns : processing[c] = "busy" => hand[c] # 0
  /\ \A t \in Topics : \A i \in 1 .. Len(channel[t]) : TopicOf[channel[t][i].from] = t

(* Only received messages are on their way. *)
Bounded ==
  /\ \A c \in Conns : hand[c] <= received[c] /\ Latest(c) <= received[c]
  /\ \A c \in Conns : \A i \in 1 .. Len(inbox[c]) : inbox[c][i] <= received[c]
  /\ \A t \in Topics : \A i \in 1 .. Len(channel[t]) :
       channel[t][i].msg <= received[channel[t][i].from]

InboxOrder ==
  \A c \in Conns : \A i, j \in 1 .. Len(inbox[c]) : i < j => inbox[c][i] < inbox[c][j]

HandOrder ==
  \A c \in Conns : \A i \in 1 .. Len(inbox[c]) : hand[c] < inbox[c][i]

ChannelOrder ==
  \A t \in Topics : \A i \in 1 .. Len(channel[t]) :
    LET e == channel[t][i]
    IN  /\ \A j \in 1 .. Len(channel[t]) :
             i < j /\ channel[t][j].from = e.from => e.msg < channel[t][j].msg
        /\ hand[e.from] # 0 => e.msg < hand[e.from]
        /\ \A j \in 1 .. Len(inbox[e.from]) : e.msg < inbox[e.from][j]

LatestOrder ==
  /\ \A c \in Conns : hand[c] # 0 => Latest(c) < hand[c]
  /\ \A c \in Conns : \A i \in 1 .. Len(inbox[c]) : Latest(c) < inbox[c][i]
  /\ \A t \in Topics : \A i \in 1 .. Len(channel[t]) :
       Latest(channel[t][i].from) < channel[t][i].msg

OrderInv ==
  DataTypes /\ Placed /\ Bounded /\ InboxOrder /\ HandOrder /\ ChannelOrder /\ LatestOrder

LEMMA AppendFacts ==
  ASSUME NEW S, NEW q \in Seq(S), NEW e \in S
  PROVE  /\ Append(q, e) \in Seq(S) /\ Len(Append(q, e)) = Len(q) + 1
         /\ \A i \in 1 .. Len(q) : Append(q, e)[i] = q[i]
         /\ Append(q, e)[Len(q) + 1] = e
  OBVIOUS

LEMMA TailFacts ==
  ASSUME NEW S, NEW q \in Seq(S), q # <<>>
  PROVE  /\ Tail(q) \in Seq(S) /\ Len(Tail(q)) = Len(q) - 1
         /\ Len(q) \in Nat \ {0} /\ Head(q) = q[1] /\ Head(q) \in S
         /\ \A i \in 1 .. Len(q) - 1 : Tail(q)[i] = q[i + 1]
  OBVIOUS

LEMMA Values ==
  ASSUME DataTypes
  PROVE  /\ \A c \in Conns :
              /\ received[c] \in Nat /\ hand[c] \in Nat /\ Latest(c) \in Nat
              /\ Len(inbox[c]) \in Nat
              /\ \A i \in 1 .. Len(inbox[c]) : inbox[c][i] \in Nat
         /\ \A t \in Topics :
              /\ Len(channel[t]) \in Nat
              /\ \A i \in 1 .. Len(channel[t]) :
                   channel[t][i].from \in Conns /\ channel[t][i].msg \in Nat
<1>1. ASSUME NEW c \in Conns
      PROVE  /\ received[c] \in Nat /\ hand[c] \in Nat /\ Latest(c) \in Nat
             /\ Len(inbox[c]) \in Nat
             /\ \A i \in 1 .. Len(inbox[c]) : inbox[c][i] \in Nat
  BY DEF DataTypes, Latest, Feed!Latest
<1>2. ASSUME NEW t \in Topics
      PROVE  /\ Len(channel[t]) \in Nat
             /\ \A i \in 1 .. Len(channel[t]) :
                  channel[t][i].from \in Conns /\ channel[t][i].msg \in Nat
  <2>1. channel[t] \in Seq(Item)
    BY DEF DataTypes
  <2>2. \A i \in 1 .. Len(channel[t]) : channel[t][i] \in Item
    BY <2>1
  <2> QED BY <2>1, <2>2 DEF Item
<1> QED BY <1>1, <1>2

(* A step that neither publishes nor touches the channels. *)
LEMMA LatestChannel ==
  ASSUME OrderInv, UNCHANGED <<channel, published>>
  PROVE  /\ \A d \in Conns : Latest(d)' = Latest(d)
         /\ \A t \in Topics : \A i \in 1 .. Len(channel'[t]) :
              Latest(channel[t][i].from)' < channel'[t][i].msg
<1>1. \A d \in Conns : Latest(d)' = Latest(d)
  BY DEF Latest, Feed!Latest
<1>2. ASSUME NEW t \in Topics, NEW i \in 1 .. Len(channel[t])
      PROVE  Latest(channel[t][i].from)' < channel[t][i].msg
  <2>1. channel[t][i].from \in Conns
    BY Values DEF OrderInv
  <2>2. (channel[t][i].from)' = channel[t][i].from
    OBVIOUS
  <2> QED BY <1>1, <2>1, <2>2 DEF LatestOrder, OrderInv
<1> QED BY <1>1, <1>2

LEMMA ReadKeepsOrder == ASSUME OrderInv, NEW c \in Conns, Read(c) PROVE OrderInv'
<1> USE DEF OrderInv
<1> DEFINE n == received[c] + 1
<1>1. /\ received' = [received EXCEPT ![c] = n] /\ n \in Nat
      /\ UNCHANGED <<hand, channel, published, processing>>
      /\ \A d \in Conns : Latest(d)' = Latest(d)
  BY DEF Read, DataTypes, Latest, Feed!Latest
<1>2. inbox' \in {inbox, [inbox EXCEPT ![c] = Append(inbox[c], n)]}
  BY <1>1 DEF Read, DataTypes
<1>3. /\ inbox' \in [Conns -> Seq(Nat)]
      /\ \A d \in Conns : \A i \in 1 .. Len(inbox'[d]) :
           \/ i \in 1 .. Len(inbox[d]) /\ inbox'[d][i] = inbox[d][i]
           \/ d = c /\ i = Len(inbox[c]) + 1 /\ inbox'[d][i] = n
  <2>1. CASE inbox' = inbox
    BY <2>1 DEF DataTypes
  <2>2. CASE inbox' = [inbox EXCEPT ![c] = Append(inbox[c], n)]
    <3>1. inbox[c] \in Seq(Nat) /\ n \in Nat
      BY <1>1 DEF DataTypes
    <3>2. /\ Append(inbox[c], n) \in Seq(Nat) /\ Len(Append(inbox[c], n)) = Len(inbox[c]) + 1
          /\ \A i \in 1 .. Len(inbox[c]) : Append(inbox[c], n)[i] = inbox[c][i]
          /\ Append(inbox[c], n)[Len(inbox[c]) + 1] = n
      BY <3>1, AppendFacts
    <3> QED BY <2>2, <3>1, <3>2 DEF DataTypes
  <2> QED BY <1>2, <2>1, <2>2
<1>4. DataTypes'
  BY <1>1, <1>3 DEF DataTypes
<1>5. Placed'
  BY <1>1 DEF Placed
<1> HIDE DEF n
<1>6. \A d \in Conns : received'[d] \in Nat /\ received[d] \in Nat /\ received[d] <= received'[d]
  BY <1>1 DEF DataTypes, n
<1>7. received'[c] = n /\ received[c] < n
  BY <1>1 DEF DataTypes, n
<1>8. Bounded'
  <2>1. \A d \in Conns : (hand[d] <= received[d] /\ Latest(d) <= received[d])'
    BY <1>1, <1>6, Values DEF Bounded
  <2>2. \A d \in Conns : \A i \in 1 .. Len(inbox'[d]) : inbox'[d][i] <= received'[d]
    BY <1>1, <1>3, <1>6, <1>7, Values DEF Bounded
  <2>3. ASSUME NEW t \in Topics, NEW i \in 1 .. Len(channel[t])
        PROVE  channel[t][i].msg <= received'[channel[t][i].from]
    <3>1. channel[t][i].from \in Conns /\ channel[t][i].msg \in Nat
      BY Values
    <3>2. channel[t][i].msg <= received[channel[t][i].from]
      BY DEF Bounded
    <3> QED BY <1>6, <3>1, <3>2
  <2> QED BY <1>1, <2>1, <2>2, <2>3 DEF Bounded
<1>9. ASSUME NEW d \in Conns, NEW j \in 1 .. Len(inbox'[d])
      PROVE  \/ j \in 1 .. Len(inbox[d]) /\ inbox'[d][j] = inbox[d][j]
             \/ /\ j = Len(inbox[d]) + 1 /\ inbox'[d][j] > received[d]
                /\ \A i \in 1 .. Len(inbox[d]) : inbox[d][i] < inbox'[d][j]
                /\ hand[d] < inbox'[d][j] /\ Latest(d) < inbox'[d][j]
  <2>1. /\ received[d] \in Nat /\ hand[d] \in Nat /\ Latest(d) \in Nat /\ n \in Nat
        /\ \A i \in 1 .. Len(inbox[d]) : inbox[d][i] \in Nat
    BY <1>1, Values
  <2>2. /\ hand[d] <= received[d] /\ Latest(d) <= received[d]
        /\ \A i \in 1 .. Len(inbox[d]) : inbox[d][i] <= received[d]
    BY DEF Bounded
  <2>3. CASE j \in 1 .. Len(inbox[d]) /\ inbox'[d][j] = inbox[d][j]
    BY <2>3, Zenon
  <2>4. CASE d = c /\ j = Len(inbox[c]) + 1 /\ inbox'[d][j] = n
    <3>1. inbox'[d][j] = n /\ received[d] < n /\ j = Len(inbox[d]) + 1
      BY <1>7, <2>4, Zenon
    <3> DEFINE new == inbox'[d][j]
    <3>2. new \in Nat /\ received[d] < new
      BY <2>1, <3>1
    <3> HIDE DEF new
    <3>0. \A x, y, z \in Nat : y < z => z > y /\ (x <= y => x < z)
      OBVIOUS
    <3>3. \A i \in 1 .. Len(inbox[d]) : inbox[d][i] < new
      BY <2>1, <2>2, <3>0, <3>2, Zenon
    <3>4. hand[d] < new /\ Latest(d) < new /\ new > received[d]
      BY <2>1, <2>2, <3>0, <3>2, Zenon
    <3> QED BY <3>1, <3>3, <3>4, Zenon DEF new
  <2> QED BY <1>3, <2>3, <2>4, Zenon
<1>10. ASSUME NEW d \in Conns
       PROVE  /\ Len(inbox[d]) \in Nat
              /\ \A i \in 1 .. Len(inbox[d]) : inbox[d][i] \in Nat
  BY Values
<1>11. InboxOrder'
  <2> SUFFICES ASSUME NEW d \in Conns, NEW i \in 1 .. Len(inbox'[d]),
                      NEW j \in 1 .. Len(inbox'[d]), i < j
               PROVE  inbox'[d][i] < inbox'[d][j]
    BY DEF InboxOrder
  <2>1. i \in 1 .. Len(inbox[d]) /\ inbox'[d][i] = inbox[d][i]
    BY <1>9, <1>10
  <2> QED BY <1>9, <2>1 DEF InboxOrder
<1>12. HandOrder'
  BY <1>1, <1>9 DEF HandOrder
<1>13. ChannelOrder'
  <2> SUFFICES ASSUME NEW t \in Topics, NEW i \in 1 .. Len(channel[t]),
                      NEW e, e = channel[t][i],
                      NEW j \in 1 .. Len(inbox'[e.from])
               PROVE  e.msg < inbox'[e.from][j]
    BY <1>1 DEF ChannelOrder
  <2>1. e.from \in Conns /\ e.msg \in Nat
    BY Values
  <2>2. e.msg <= received[e.from] /\ received[e.from] \in Nat
    BY <2>1, Values DEF Bounded
  <2>3. \A k \in 1 .. Len(inbox[e.from]) : e.msg < inbox[e.from][k]
    BY DEF ChannelOrder
  <2>4. inbox'[e.from][j] \in Nat
    BY <1>3, <2>1
  <2>5. CASE j \in 1 .. Len(inbox[e.from]) /\ inbox'[e.from][j] = inbox[e.from][j]
    BY <2>3, <2>5, Zenon
  <2>6. CASE inbox'[e.from][j] > received[e.from]
    <3>1. \A x, y, z \in Nat : x <= y /\ z > y => x < z
      OBVIOUS
    <3> QED BY <2>1, <2>2, <2>4, <2>6, <3>1, Zenon
  <2> QED BY <1>9, <2>1, <2>5, <2>6, Zenon
<1>14. LatestOrder'
  <2>1. \A d \in Conns : (hand[d] # 0 => Latest(d) < hand[d])'
    BY <1>1 DEF LatestOrder
  <2>2. \A d \in Conns : \A i \in 1 .. Len(inbox'[d]) : Latest(d) < inbox'[d][i]
    BY <1>9 DEF LatestOrder
  <2> QED BY <1>1, <2>1, <2>2, LatestChannel DEF LatestOrder
<1> QED BY <1>4, <1>5, <1>8, <1>11, <1>12, <1>13, <1>14

(* Taking the head of an inbox moves the others up by one place. *)
LEMMA InboxTail ==
  ASSUME OrderInv, NEW c \in Conns, inbox[c] # <<>>,
         inbox' = [inbox EXCEPT ![c] = Tail(inbox[c])]
  PROVE  /\ inbox' \in [Conns -> Seq(Nat)]
         /\ 1 \in 1 .. Len(inbox[c]) /\ Head(inbox[c]) = inbox[c][1]
         /\ \A d \in Conns : \A i \in 1 .. Len(inbox'[d]) :
              \E k \in 1 .. Len(inbox[d]) :
                /\ inbox'[d][i] = inbox[d][k]
                /\ k = IF d = c THEN i + 1 ELSE i
         /\ InboxOrder'
<1>1. inbox \in [Conns -> Seq(Nat)]
  BY DEF OrderInv, DataTypes
<1>2. inbox[c] \in Seq(Nat)
  BY <1>1
<1>3. /\ Tail(inbox[c]) \in Seq(Nat) /\ Len(Tail(inbox[c])) = Len(inbox[c]) - 1
      /\ Len(inbox[c]) \in Nat \ {0} /\ Head(inbox[c]) = inbox[c][1]
      /\ \A i \in 1 .. Len(inbox[c]) - 1 : Tail(inbox[c])[i] = inbox[c][i + 1]
  BY <1>2, TailFacts
<1>4. inbox'[c] = Tail(inbox[c]) /\ \A d \in Conns \ {c} : inbox'[d] = inbox[d]
  BY <1>1
<1>5. ASSUME NEW i \in 1 .. Len(inbox'[c])
      PROVE  i + 1 \in 1 .. Len(inbox[c]) /\ inbox'[c][i] = inbox[c][i + 1]
  <2>1. i \in 1 .. Len(inbox[c]) - 1
    BY <1>3, <1>4
  <2>2. inbox'[c][i] = Tail(inbox[c])[i]
    BY <1>4
  <2>3. Tail(inbox[c])[i] = inbox[c][i + 1]
    BY <1>3, <2>1
  <2>4. i + 1 \in 1 .. Len(inbox[c])
    <3>1. Len(inbox[c]) \in Nat
      BY <1>3
    <3> QED BY <2>1, <3>1
  <2> QED BY <2>2, <2>3, <2>4
<1>6. ASSUME NEW d \in Conns, NEW i \in 1 .. Len(inbox'[d])
      PROVE  LET k == IF d = c THEN i + 1 ELSE i
             IN  k \in 1 .. Len(inbox[d]) /\ inbox'[d][i] = inbox[d][k]
  BY <1>4, <1>5
<1>7. ASSUME NEW d \in Conns, NEW i \in 1 .. Len(inbox'[d])
      PROVE  \E k \in 1 .. Len(inbox[d]) :
               inbox'[d][i] = inbox[d][k] /\ k = IF d = c THEN i + 1 ELSE i
  BY <1>6
<1>8. InboxOrder'
  <2> SUFFICES ASSUME NEW d \in Conns, NEW i \in 1 .. Len(inbox'[d]),
                      NEW j \in 1 .. Len(inbox'[d]), i < j
               PROVE  inbox'[d][i] < inbox'[d][j]
    BY DEF InboxOrder
  <2>1. PICK k \in 1 .. Len(inbox[d]) :
          inbox'[d][i] = inbox[d][k] /\ k = IF d = c THEN i + 1 ELSE i
    BY <1>7
  <2>2. PICK l \in 1 .. Len(inbox[d]) :
          inbox'[d][j] = inbox[d][l] /\ l = IF d = c THEN j + 1 ELSE j
    BY <1>7
  <2>3. k < l
    BY <2>1, <2>2
  <2> QED BY <2>1, <2>2, <2>3 DEF OrderInv, InboxOrder
<1>9. inbox' \in [Conns -> Seq(Nat)]
  BY <1>1, <1>3
<1> QED BY <1>3, <1>7, <1>8, <1>9

LEMMA TakeUnreadableKeepsOrder ==
  ASSUME OrderInv, NEW c \in Conns, TakeUnreadable(c) PROVE OrderInv'
<1> USE DEF OrderInv
<1>1. /\ UNCHANGED <<received, hand, channel, published>>
      /\ processing' = [processing EXCEPT ![c] = AtTest(c)]
      /\ AtTest(c) \in {"waiting", "returned"}
      /\ \A d \in Conns : Latest(d)' = Latest(d)
      /\ inbox[c] # <<>> /\ inbox' = [inbox EXCEPT ![c] = Tail(inbox[c])]
  BY DEF TakeUnreadable, AtTest, DataTypes, Latest, Feed!Latest
<1>2. /\ inbox' \in [Conns -> Seq(Nat)]
      /\ \A d \in Conns : \A i \in 1 .. Len(inbox'[d]) :
           \E k \in 1 .. Len(inbox[d]) :
             inbox'[d][i] = inbox[d][k] /\ k = IF d = c THEN i + 1 ELSE i
  BY <1>1, InboxTail
<1>3. DataTypes' /\ Placed'
  BY <1>1, <1>2 DEF DataTypes, Placed
<1>4. Bounded'
  BY <1>1, <1>2, Values DEF Bounded
<1>5. InboxOrder'
  BY <1>1, InboxTail
<1>6. HandOrder'
  BY <1>1, <1>2 DEF HandOrder
<1>7. ChannelOrder'
  <2> SUFFICES ASSUME NEW t \in Topics, NEW i \in 1 .. Len(channel[t]),
                      NEW e, e = channel[t][i]
               PROVE  /\ \A j \in 1 .. Len(channel[t]) :
                           i < j /\ channel[t][j].from = e.from => e.msg < channel[t][j].msg
                      /\ hand'[e.from] # 0 => e.msg < hand'[e.from]
                      /\ \A j \in 1 .. Len(inbox'[e.from]) : e.msg < inbox'[e.from][j]
    BY <1>1 DEF ChannelOrder
  <2>1. e.from \in Conns
    BY Values
  <2>2. /\ \A j \in 1 .. Len(channel[t]) :
             i < j /\ channel[t][j].from = e.from => e.msg < channel[t][j].msg
        /\ hand[e.from] # 0 => e.msg < hand[e.from]
        /\ \A j \in 1 .. Len(inbox[e.from]) : e.msg < inbox[e.from][j]
    BY DEF ChannelOrder
  <2> QED BY <1>1, <1>2, <2>1, <2>2
<1>8. LatestOrder'
  <2>1. \A d \in Conns : (hand[d] # 0 => Latest(d) < hand[d])'
    BY <1>1 DEF LatestOrder
  <2>2. \A d \in Conns : \A i \in 1 .. Len(inbox'[d]) : Latest(d) < inbox'[d][i]
    BY <1>2 DEF LatestOrder
  <2> QED BY <1>1, <2>1, <2>2, LatestChannel DEF LatestOrder
<1> QED BY <1>3, <1>4, <1>5, <1>6, <1>7, <1>8

LEMMA TakeKeepsOrder == ASSUME OrderInv, NEW c \in Conns, Take(c) PROVE OrderInv'
<1> USE DEF OrderInv
<1>1. /\ UNCHANGED <<received, channel, published>>
      /\ hand' = [hand EXCEPT ![c] = Head(inbox[c])]
      /\ processing' = [processing EXCEPT ![c] = "busy"]
      /\ \A d \in Conns : Latest(d)' = Latest(d)
      /\ inbox[c] # <<>> /\ inbox' = [inbox EXCEPT ![c] = Tail(inbox[c])]
  BY DEF Take, DataTypes, Latest, Feed!Latest
<1>2. /\ inbox' \in [Conns -> Seq(Nat)]
      /\ 1 \in 1 .. Len(inbox[c]) /\ Head(inbox[c]) = inbox[c][1]
      /\ \A d \in Conns : \A i \in 1 .. Len(inbox'[d]) :
           \E k \in 1 .. Len(inbox[d]) :
             inbox'[d][i] = inbox[d][k] /\ k = IF d = c THEN i + 1 ELSE i
  BY <1>1, InboxTail
<1>3. /\ hand'[c] = inbox[c][1] /\ hand'[c] \in Nat \ {0}
      /\ \A d \in Conns \ {c} : hand'[d] = hand[d] /\ processing'[d] = processing[d]
  BY <1>1, <1>2, Values DEF HandOrder, DataTypes
<1>4. DataTypes'
  BY <1>1, <1>2, <1>3 DEF DataTypes
<1>5. Placed'
  BY <1>1, <1>3 DEF Placed
<1>6. Bounded'
  BY <1>1, <1>2, <1>3, Values DEF Bounded
<1>7. InboxOrder'
  BY <1>1, InboxTail
<1>8. HandOrder'
  BY <1>1, <1>2, <1>3, Values DEF HandOrder, InboxOrder
<1>9. ChannelOrder'
  <2> SUFFICES ASSUME NEW t \in Topics, NEW i \in 1 .. Len(channel[t]),
                      NEW e, e = channel[t][i]
               PROVE  /\ \A j \in 1 .. Len(channel[t]) :
                           i < j /\ channel[t][j].from = e.from => e.msg < channel[t][j].msg
                      /\ hand'[e.from] # 0 => e.msg < hand'[e.from]
                      /\ \A j \in 1 .. Len(inbox'[e.from]) : e.msg < inbox'[e.from][j]
    BY <1>1 DEF ChannelOrder
  <2>1. e.from \in Conns
    BY Values
  <2>2. /\ \A j \in 1 .. Len(channel[t]) :
             i < j /\ channel[t][j].from = e.from => e.msg < channel[t][j].msg
        /\ hand[e.from] # 0 => e.msg < hand[e.from]
        /\ \A j \in 1 .. Len(inbox[e.from]) : e.msg < inbox[e.from][j]
    BY DEF ChannelOrder
  <2> QED BY <1>2, <1>3, <2>1, <2>2
<1>10. LatestOrder'
  <2>1. \A d \in Conns : (hand[d] # 0 => Latest(d) < hand[d])'
    BY <1>1, <1>2, <1>3 DEF LatestOrder
  <2>2. \A d \in Conns : \A i \in 1 .. Len(inbox'[d]) : Latest(d) < inbox'[d][i]
    BY <1>2 DEF LatestOrder
  <2> QED BY <1>1, <2>1, <2>2, LatestChannel DEF LatestOrder
<1> QED BY <1>4, <1>5, <1>6, <1>7, <1>8, <1>9, <1>10

LEMMA SendKeepsOrder == ASSUME OrderInv, NEW c \in Conns, Send(c) PROVE OrderInv'
<1> USE DEF OrderInv
<1> DEFINE t == TopicOf[c]
           n == Len(channel[t])
           e == [from |-> c, msg |-> hand[c]]
<1>1. /\ UNCHANGED <<received, inbox, published>>
      /\ hand' = [hand EXCEPT ![c] = 0]
      /\ processing' = [processing EXCEPT ![c] = AtTest(c)]
      /\ AtTest(c) \in {"waiting", "returned"}
      /\ channel' = [channel EXCEPT ![t] = Append(channel[t], e)]
      /\ \A d \in Conns : Latest(d)' = Latest(d)
      /\ t \in Topics /\ processing[c] = "busy"
  BY CollectorAssumption DEF Send, AtTest, DataTypes, Latest, Feed!Latest
<1>2. /\ hand[c] \in Nat \ {0} /\ e \in Item /\ channel[t] \in Seq(Item)
      /\ e.from = c /\ e.msg = hand[c]
  BY <1>1 DEF Placed, DataTypes, Item
<1>3. /\ Append(channel[t], e) \in Seq(Item) /\ Len(Append(channel[t], e)) = n + 1
      /\ \A i \in 1 .. n : Append(channel[t], e)[i] = channel[t][i]
      /\ Append(channel[t], e)[n + 1] = e
  BY <1>2, AppendFacts
<1>4. /\ channel' \in [Topics -> Seq(Item)]
      /\ channel'[t] = Append(channel[t], e)
      /\ \A u \in Topics \ {t} : channel'[u] = channel[u]
      /\ n \in Nat
  BY <1>1, <1>2, <1>3 DEF DataTypes
<1> HIDE DEF e, n, t
<1>5. ASSUME NEW u \in Topics, NEW i \in 1 .. Len(channel'[u])
      PROVE  \/ i \in 1 .. Len(channel[u]) /\ channel'[u][i] = channel[u][i]
             \/ u = t /\ i = n + 1 /\ channel'[u][i] = e
  BY <1>3, <1>4 DEF n
<1>6. /\ hand'[c] = 0 /\ \A d \in Conns \ {c} : hand'[d] = hand[d]
      /\ hand' \in [Conns -> Nat]
  BY <1>1 DEF DataTypes
<1>7. DataTypes'
  BY <1>1, <1>4, <1>6 DEF DataTypes
<1>8. Placed'
  <2>1. \A d \in Conns : processing'[d] = "busy" => hand'[d] # 0
    BY <1>1, <1>6 DEF Placed, DataTypes
  <2>2. \A u \in Topics : \A i \in 1 .. Len(channel'[u]) : TopicOf[channel'[u][i].from] = u
    BY <1>2, <1>5 DEF Placed, t
  <2> QED BY <2>1, <2>2 DEF Placed
<1>9. Bounded'
  <2>1. \A d \in Conns : (hand[d] <= received[d] /\ Latest(d) <= received[d])'
    BY <1>1, <1>6, Values DEF Bounded
  <2>2. \A u \in Topics : \A i \in 1 .. Len(channel'[u]) :
          channel'[u][i].msg <= received[channel'[u][i].from]
    BY <1>2, <1>5 DEF Bounded
  <2> QED BY <1>1, <2>1, <2>2 DEF Bounded
<1>10. InboxOrder'
  BY <1>1 DEF InboxOrder
<1>11. HandOrder'
  <2> SUFFICES ASSUME NEW d \in Conns, NEW i \in 1 .. Len(inbox[d])
               PROVE  hand'[d] < inbox[d][i]
    BY <1>1 DEF HandOrder
  <2>1. hand[d] < inbox[d][i] /\ hand[d] \in Nat /\ inbox[d][i] \in Nat
    BY Values DEF HandOrder
  <2> QED BY <1>6, <2>1
<1>12. ChannelOrder'
  <2> SUFFICES ASSUME NEW u \in Topics, NEW i \in 1 .. Len(channel'[u]),
                      NEW x, x = channel'[u][i]
               PROVE  /\ \A j \in 1 .. Len(channel'[u]) :
                           i < j /\ channel'[u][j].from = x.from => x.msg < channel'[u][j].msg
                      /\ hand'[x.from] # 0 => x.msg < hand'[x.from]
                      /\ \A j \in 1 .. Len(inbox[x.from]) : x.msg < inbox[x.from][j]
    BY <1>1 DEF ChannelOrder
  <2>0. Len(channel[u]) \in Nat
    BY Values
  <2>1. CASE u = t /\ i = n + 1 /\ x = e
    <3>1. \A j \in 1 .. Len(channel'[u]) : ~(i < j)
      BY <1>3, <1>4, <2>1 DEF n
    <3>2. \A j \in 1 .. Len(inbox[c]) : hand[c] < inbox[c][j]
      BY DEF HandOrder
    <3> QED BY <1>2, <1>6, <2>1, <3>1, <3>2
  <2>2. CASE i \in 1 .. Len(channel[u]) /\ x = channel[u][i]
    <3>1. /\ x.from \in Conns /\ x.msg \in Nat
      BY <2>2, Values
    <3>2. /\ \A j \in 1 .. Len(channel[u]) :
               i < j /\ channel[u][j].from = x.from => x.msg < channel[u][j].msg
          /\ hand[x.from] # 0 => x.msg < hand[x.from]
          /\ \A j \in 1 .. Len(inbox[x.from]) : x.msg < inbox[x.from][j]
      BY <2>2 DEF ChannelOrder
    <3>3. ASSUME NEW j \in 1 .. Len(channel'[u]), i < j, channel'[u][j].from = x.from
          PROVE  x.msg < channel'[u][j].msg
      <4>1. CASE j \in 1 .. Len(channel[u]) /\ channel'[u][j] = channel[u][j]
        BY <3>2, <3>3, <4>1
      <4>2. CASE channel'[u][j] = e
        BY <1>2, <3>2, <3>3, <4>2
      <4> QED BY <1>5, <4>1, <4>2
    <3>4. hand'[x.from] # 0 => x.msg < hand'[x.from]
      BY <1>6, <3>1, <3>2
    <3> QED BY <3>2, <3>3, <3>4
  <2> QED BY <1>5, <2>1, <2>2
<1>13. LatestOrder'
  <2>1. \A d \in Conns : (hand[d] # 0 => Latest(d) < hand[d])'
    BY <1>1, <1>6 DEF LatestOrder
  <2>2. \A d \in Conns : \A i \in 1 .. Len(inbox'[d]) : Latest(d)' < inbox'[d][i]
    BY <1>1 DEF LatestOrder
  <2>3. ASSUME NEW u \in Topics, NEW i \in 1 .. Len(channel'[u])
        PROVE  Latest(channel[u][i].from)' < channel'[u][i].msg
    <3> DEFINE x == channel'[u][i]
    <3>1. CASE u = t /\ i = n + 1 /\ x = e
      <4>1. Latest(c)' < hand[c]
        BY <1>1, <1>2 DEF LatestOrder
      <4>2. Latest(channel[u][i].from)' = Latest(c)'
        BY <1>2, <3>1 DEF Latest, Feed!Latest
      <4> QED BY <1>2, <3>1, <4>1, <4>2
    <3>2. CASE i \in 1 .. Len(channel[u]) /\ x = channel[u][i]
      <4>1. channel[u][i].from \in Conns /\ Latest(channel[u][i].from) < channel[u][i].msg
        BY <3>2, Values DEF LatestOrder
      <4>2. Latest(channel[u][i].from)' = Latest(channel[u][i].from)
        BY <1>1, <3>2, <4>1 DEF Latest, Feed!Latest
      <4> QED BY <3>2, <4>1, <4>2
    <3> QED BY <1>5, <3>1, <3>2
  <2> QED BY <2>1, <2>2, <2>3 DEF LatestOrder
<1> QED BY <1>7, <1>8, <1>9, <1>10, <1>11, <1>12, <1>13

LEMMA PublishKeepsOrder ==
  ASSUME OrderInv, NEW t \in Topics, Publish(t)
  PROVE  /\ OrderInv'
         /\ Feed!FeedNext \/ UNCHANGED Feed!feedVars
<1> USE DEF OrderInv
<1> DEFINE m == Head(channel[t])
<1>1. /\ UNCHANGED <<received, inbox, hand, processing>>
      /\ channel[t] # <<>> /\ channel' = [channel EXCEPT ![t] = Tail(channel[t])]
      /\ \/ published' = published
         \/ published' = [published EXCEPT ![m.from] = Append(published[m.from], m.msg)]
  BY DEF Publish, threads
<1>2. channel[t] \in Seq(Item)
  BY DEF DataTypes
<1>3. /\ Tail(channel[t]) \in Seq(Item) /\ Len(Tail(channel[t])) = Len(channel[t]) - 1
      /\ Len(channel[t]) \in Nat \ {0} /\ m = channel[t][1] /\ m \in Item
      /\ \A i \in 1 .. Len(channel[t]) - 1 : Tail(channel[t])[i] = channel[t][i + 1]
  BY <1>1, <1>2, TailFacts
<1>4. /\ channel' \in [Topics -> Seq(Item)] /\ channel'[t] = Tail(channel[t])
      /\ \A u \in Topics \ {t} : channel'[u] = channel[u]
  BY <1>1, <1>3 DEF DataTypes
<1> HIDE DEF m
<1>5. m.from \in Conns /\ m.msg \in Nat /\ 1 \in 1 .. Len(channel[t])
  BY <1>3 DEF Item
<1>6. /\ published' \in [Conns -> Seq(Nat)]
      /\ \A d \in Conns : Latest(d)' = Latest(d) \/ (d = m.from /\ Latest(d)' = m.msg)
  <2>1. CASE published' = published
    BY <2>1 DEF DataTypes, Latest, Feed!Latest
  <2>2. CASE published' = [published EXCEPT ![m.from] = Append(published[m.from], m.msg)]
    <3> DEFINE p == published[m.from]
    <3>1. p \in Seq(Nat)
      BY <1>5 DEF DataTypes
    <3>2. /\ Append(p, m.msg) \in Seq(Nat) /\ Len(Append(p, m.msg)) = Len(p) + 1
          /\ Append(p, m.msg)[Len(p) + 1] = m.msg /\ Len(p) \in Nat
      BY <1>5, <3>1, AppendFacts
    <3>3. /\ published' \in [Conns -> Seq(Nat)] /\ published'[m.from] = Append(p, m.msg)
          /\ \A d \in Conns \ {m.from} : published'[d] = published[d]
      BY <1>5, <2>2, <3>2 DEF DataTypes
    <3>4. Append(p, m.msg) # <<>>
      <4>1. Len(Append(p, m.msg)) # Len(<<>>)
        <5>1. Len(p) + 1 # 0
          BY <3>2
        <5> QED BY <3>2, <5>1
      <4> QED BY <4>1
    <3>5. \A d \in Conns \ {m.from} : Latest(d)' = Latest(d)
      BY <3>3 DEF Latest, Feed!Latest
    <3>6. ASSUME NEW d \in Conns, d = m.from PROVE Latest(d)' = m.msg
      <4>1. published'[d] = Append(p, m.msg)
        BY <3>3, <3>6
      <4>2. published'[d] # <<>> /\ published'[d][Len(published'[d])] = m.msg
        BY <3>2, <3>4, <4>1
      <4> QED BY <4>2 DEF Latest, Feed!Latest
    <3> QED BY <3>3, <3>5, <3>6
  <2> QED BY <1>1, <2>1, <2>2
<1>7. ASSUME NEW u \in Topics, NEW i \in 1 .. Len(channel'[u])
      PROVE  \E k \in 1 .. Len(channel[u]) :
               channel'[u][i] = channel[u][k] /\ k = IF u = t THEN i + 1 ELSE i
  <2>1. CASE u = t
    <3>1. i \in 1 .. Len(channel[t]) - 1
      BY <1>3, <1>4, <2>1
    <3>2. channel'[t][i] = channel[t][i + 1]
      BY <1>3, <1>4, <3>1
    <3>3. i + 1 \in 1 .. Len(channel[t])
      <4>1. Len(channel[t]) \in Nat
        BY <1>3
      <4> QED BY <3>1, <4>1
    <3> QED BY <2>1, <3>2, <3>3
  <2>2. CASE u # t
    BY <1>4, <2>2
  <2> QED BY <2>1, <2>2
<1>8. DataTypes' /\ Placed'
  BY <1>1, <1>4, <1>6, <1>7 DEF DataTypes, Placed
<1>9. Latest(m.from) < m.msg /\ m.msg <= received[m.from]
  BY <1>3, <1>5 DEF LatestOrder, Bounded
<1>10. Bounded'
  <2>1. \A d \in Conns : hand[d] <= received[d] /\ Latest(d)' <= received[d]
    BY <1>6, <1>9 DEF Bounded
  <2>2. \A u \in Topics : \A i \in 1 .. Len(channel'[u]) :
          channel'[u][i].msg <= received[channel'[u][i].from]
    BY <1>7 DEF Bounded
  <2> QED BY <1>1, <2>1, <2>2 DEF Bounded
<1>11. InboxOrder' /\ HandOrder'
  BY <1>1 DEF InboxOrder, HandOrder
<1>12. ChannelOrder'
  <2> SUFFICES ASSUME NEW u \in Topics, NEW i \in 1 .. Len(channel'[u]),
                      NEW x, x = channel'[u][i]
               PROVE  /\ \A j \in 1 .. Len(channel'[u]) :
                           i < j /\ channel'[u][j].from = x.from => x.msg < channel'[u][j].msg
                      /\ hand[x.from] # 0 => x.msg < hand[x.from]
                      /\ \A j \in 1 .. Len(inbox[x.from]) : x.msg < inbox[x.from][j]
    BY <1>1 DEF ChannelOrder
  <2>1. PICK k \in 1 .. Len(channel[u]) :
          x = channel[u][k] /\ k = IF u = t THEN i + 1 ELSE i
    BY <1>7
  <2>2. /\ \A j \in 1 .. Len(channel[u]) :
             k < j /\ channel[u][j].from = x.from => x.msg < channel[u][j].msg
        /\ hand[x.from] # 0 => x.msg < hand[x.from]
        /\ \A j \in 1 .. Len(inbox[x.from]) : x.msg < inbox[x.from][j]
    BY <2>1 DEF ChannelOrder
  <2>3. ASSUME NEW j \in 1 .. Len(channel'[u]), i < j, channel'[u][j].from = x.from
        PROVE  x.msg < channel'[u][j].msg
    <3>1. PICK l \in 1 .. Len(channel[u]) :
            channel'[u][j] = channel[u][l] /\ l = IF u = t THEN j + 1 ELSE j
      BY <1>7
    <3>2. k < l
      BY <2>1, <2>3, <3>1
    <3> QED BY <2>2, <2>3, <3>1, <3>2
  <2> QED BY <2>2, <2>3
<1>13. /\ hand[m.from] # 0 => m.msg < hand[m.from]
       /\ \A j \in 1 .. Len(inbox[m.from]) : m.msg < inbox[m.from][j]
       /\ \A j \in 1 .. Len(channel[t]) :
            1 < j /\ channel[t][j].from = m.from => m.msg < channel[t][j].msg
  BY <1>3, <1>5 DEF ChannelOrder
<1>14. LatestOrder'
  <2>1. \A d \in Conns : hand[d] # 0 => Latest(d)' < hand[d]
    BY <1>6, <1>13 DEF LatestOrder
  <2>2. \A d \in Conns : \A i \in 1 .. Len(inbox[d]) : Latest(d)' < inbox[d][i]
    BY <1>6, <1>13 DEF LatestOrder
  <2>3. ASSUME NEW u \in Topics, NEW i \in 1 .. Len(channel'[u]),
               NEW d \in Conns, d = channel'[u][i].from
        PROVE  Latest(d)' < channel'[u][i].msg
    <3>1. PICK k \in 1 .. Len(channel[u]) :
            channel'[u][i] = channel[u][k] /\ k = IF u = t THEN i + 1 ELSE i
      BY <1>7
    <3>2. CASE Latest(d)' = Latest(d)
      BY <2>3, <3>1, <3>2 DEF LatestOrder
    <3>3. CASE d = m.from /\ Latest(d)' = m.msg
      <4>1. u = t
        BY <1>3, <1>5, <2>3, <3>1, <3>3 DEF Placed
      <4>2. k \in 1 .. Len(channel[t]) /\ k = i + 1 /\ i >= 1
        BY <3>1, <4>1
      <4>3. 1 < k
        BY <4>2
      <4> QED BY <1>13, <2>3, <3>1, <3>3, <4>1, <4>2, <4>3
    <3> QED BY <1>6, <3>2, <3>3
  <2>4. ASSUME NEW u \in Topics, NEW i \in 1 .. Len(channel'[u])
        PROVE  Latest(channel[u][i].from)' < channel'[u][i].msg
    <3>1. channel'[u][i].from \in Conns
      BY <1>7, Values
    <3>2. \A d \in Conns : d = channel'[u][i].from => Latest(d)' < channel'[u][i].msg
      BY <2>3
    <3> QED BY <3>1, <3>2 DEF Latest, Feed!Latest
  <2> QED BY <1>1, <2>1, <2>2, <2>4 DEF LatestOrder
<1>15. Feed!FeedNext \/ UNCHANGED Feed!feedVars
  <2>1. CASE published' = published
    BY <1>1, <2>1 DEF Feed!feedVars
  <2>2. CASE published' = [published EXCEPT ![m.from] = Append(published[m.from], m.msg)]
    <3>1. m.msg \in Latest(m.from) + 1 .. received[m.from]
      BY <1>5, <1>9, Values
    <3>2. Feed!Deliver(m.from)
      BY <1>1, <2>2, <3>1 DEF Feed!Deliver, Latest
    <3> QED BY <1>5, <3>2 DEF Feed!FeedNext
  <2> QED BY <1>1, <2>1, <2>2 DEF m
<1> QED BY <1>8, <1>10, <1>11, <1>12, <1>14, <1>15

(* A step of a thread that moves no message. *)
LEMMA UnmovedKeepsOrder ==
  ASSUME OrderInv, UNCHANGED data,
         processing' \in [Conns -> {"waiting", "returned", "busy", "ended"}],
         \A c \in Conns : processing'[c] = "busy" => processing[c] = "busy"
  PROVE  OrderInv'
<1>1. Placed'
  BY DEF Placed, OrderInv, data
<1>2. Bounded' /\ LatestOrder'
  BY DEF Bounded, LatestOrder, OrderInv, data, Latest, Feed!Latest
<1>3. DataTypes' /\ InboxOrder' /\ HandOrder' /\ ChannelOrder'
  BY DEF DataTypes, InboxOrder, HandOrder, ChannelOrder, OrderInv, data
<1> QED BY <1>1, <1>2, <1>3 DEF OrderInv

LEMMA OrderStarts == Init => OrderInv /\ Feed!FeedInit
<1> SUFFICES ASSUME Init PROVE OrderInv /\ Feed!FeedInit
  OBVIOUS
<1>1. DataTypes /\ Placed
  BY CollectorAssumption DEF Init, DataTypes, Placed
<1>2. Bounded /\ InboxOrder /\ HandOrder /\ ChannelOrder /\ LatestOrder
  BY DEF Init, Bounded, InboxOrder, HandOrder, ChannelOrder, LatestOrder,
         Latest, Feed!Latest
<1> QED BY <1>1, <1>2 DEF OrderInv, Init, Feed!FeedInit

LEMMA OrderIsKept ==
  OrderInv /\ [Next]_vars => OrderInv' /\ [Feed!FeedNext]_(Feed!feedVars)
<1> SUFFICES ASSUME OrderInv, [Next]_vars
             PROVE  OrderInv' /\ (Feed!FeedNext \/ UNCHANGED Feed!feedVars)
  OBVIOUS
<1>1. ASSUME UNCHANGED data,
             processing' \in [Conns -> {"waiting", "returned", "busy", "ended"}],
             \A c \in Conns : processing'[c] = "busy" => processing[c] = "busy"
      PROVE  OrderInv' /\ UNCHANGED Feed!feedVars
  BY <1>1, UnmovedKeepsOrder DEF data, Feed!feedVars
<1>2. processing \in [Conns -> {"waiting", "returned", "busy", "ended"}]
  BY DEF OrderInv, DataTypes
<1>3. ASSUME NEW c \in Conns,
             Enter(c) \/ Test(c) \/ ReadOther(c) \/ ReadFails(c) \/ EndIngestion(c)
      PROVE  OrderInv' /\ UNCHANGED Feed!feedVars
  BY <1>1, <1>2, <1>3 DEF Enter, Test, ReadOther, ReadFails, EndIngestion
<1>4. ASSUME NEW c \in Conns, Read(c) PROVE OrderInv' /\ Feed!FeedNext
  <2>1. Feed!Receive(c)
    BY <1>4 DEF Read, Feed!Receive
  <2> QED BY <1>4, <2>1, ReadKeepsOrder DEF Feed!FeedNext
<1>5. ASSUME NEW c \in Conns, Take(c) \/ TakeUnreadable(c) \/ Send(c)
      PROVE  OrderInv' /\ UNCHANGED Feed!feedVars
  BY <1>5, TakeKeepsOrder, TakeUnreadableKeepsOrder, SendKeepsOrder
     DEF Take, TakeUnreadable, Send, Feed!feedVars
<1>6. ASSUME NEW c \in Conns, Quit(c) PROVE OrderInv' /\ UNCHANGED Feed!feedVars
  BY <1>1, <1>2, <1>6 DEF Quit
<1>7. ASSUME NEW t \in Topics, StartPublisher(t) \/ EndPublisher(t)
      PROVE  OrderInv' /\ UNCHANGED Feed!feedVars
  BY <1>1, <1>2, <1>7 DEF StartPublisher, EndPublisher
<1>8. ASSUME NEW t \in Topics, Publish(t)
      PROVE  OrderInv' /\ (Feed!FeedNext \/ UNCHANGED Feed!feedVars)
  BY <1>8, PublishKeepsOrder
<1>9. ASSUME NEW r \in Reporters, ReporterStep(r)
      PROVE  OrderInv' /\ UNCHANGED Feed!feedVars
  BY <1>1, <1>2, <1>9 DEF ReporterStep, ReporterFails, EndReporter
<1>10. CASE MainStep \/ CtrlC
  BY <1>1, <1>2, <1>10 DEF MainStep, Stop, CloseChannels, Exit, CtrlC
<1>11. CASE UNCHANGED vars
  BY <1>1, <1>2, <1>11 DEF vars, threads
<1> QED BY <1>3, <1>4, <1>5, <1>6, <1>7, <1>8, <1>9, <1>10, <1>11
        DEF Next, Ingest, Socket, Process, PublisherStep

(* What the collector publishes is a merged feed: however many connections *)
(* race and however full the queues, each connection's messages leave in   *)
(* the order it received them, none twice.                                 *)
THEOREM CollectorIsMergedFeed == Spec => ImplementsMergedFeed
  BY OrderStarts, OrderIsKept, PTL DEF Spec, ImplementsMergedFeed, Feed!FeedSpec
-----------------------------------------------------------------------------
(***************************************************************************)
(* Where the messages are.  The order of a connection's messages makes     *)
(* every place hold them once, so a step that takes the first of a queue   *)
(* takes it away.                                                          *)
(***************************************************************************)
From(q, c) == {e.msg : e \in {x \in Elements(q) : x.from = c}}

Accounted(c) ==
  /\ 1 .. received[c] = Elements(published[c]) \union lost[c] \union InFlight(c)
  /\ \A n \in Elements(published[c]) : n <= Latest(c)
  /\ lost[c] \intersect (Elements(published[c]) \union InFlight(c)) = {}

(* Only a busy thread holds a message; losses are numbers. *)
HeldInv ==
  /\ \A c \in Conns : processing[c] # "busy" => hand[c] = 0
  /\ lost \in [Conns -> SUBSET Nat]

AccountInv == OrderInv /\ HeldInv /\ \A c \in Conns : Accounted(c)

LEMMA ElementsAppend ==
  ASSUME NEW S, NEW q \in Seq(S), NEW e \in S
  PROVE  Elements(Append(q, e)) = Elements(q) \union {e}
<1>1. /\ Append(q, e) \in Seq(S) /\ Len(Append(q, e)) = Len(q) + 1
      /\ \A i \in 1 .. Len(q) : Append(q, e)[i] = q[i]
      /\ Append(q, e)[Len(q) + 1] = e /\ Len(q) \in Nat
  BY AppendFacts
<1>2. DOMAIN q = 1 .. Len(q) /\ DOMAIN Append(q, e) = 1 .. Len(q) + 1
  BY <1>1
<1> HIDE DEF Elements
<1>3. ASSUME NEW x \in Elements(Append(q, e)) PROVE x \in Elements(q) \union {e}
  BY <1>1, <1>2, <1>3 DEF Elements
<1>4. ASSUME NEW x \in Elements(q) PROVE x \in Elements(Append(q, e))
  BY <1>1, <1>2, <1>4 DEF Elements
<1>5. e \in Elements(Append(q, e))
  BY <1>1, <1>2 DEF Elements
<1> QED BY <1>3, <1>4, <1>5

LEMMA ElementsTail ==
  ASSUME NEW S, NEW q \in Seq(S), q # <<>>
  PROVE  Elements(q) = {Head(q)} \union Elements(Tail(q)) /\ Head(q) = q[1]
         /\ \A x \in Elements(Tail(q)) : \E i \in 2 .. Len(q) : x = q[i]
<1>1. /\ Tail(q) \in Seq(S) /\ Len(Tail(q)) = Len(q) - 1
      /\ Len(q) \in Nat \ {0} /\ Head(q) = q[1]
      /\ \A i \in 1 .. Len(q) - 1 : Tail(q)[i] = q[i + 1]
  BY TailFacts
<1>2. DOMAIN q = 1 .. Len(q) /\ DOMAIN Tail(q) = 1 .. Len(q) - 1
  BY <1>1
<1>3. ASSUME NEW x \in Elements(q) PROVE x \in {Head(q)} \union Elements(Tail(q))
  <2>1. PICK i \in 1 .. Len(q) : x = q[i]
    BY <1>2, <1>3 DEF Elements
  <2>2. CASE i = 1
    BY <1>1, <2>1, <2>2
  <2>3. CASE i # 1
    <3>1. i - 1 \in 1 .. Len(q) - 1 /\ q[i] = q[(i - 1) + 1]
      BY <1>1, <2>3
    <3>2. x = Tail(q)[i - 1]
      BY <1>1, <2>1, <3>1
    <3> QED BY <1>2, <3>1, <3>2 DEF Elements
  <2> QED BY <2>2, <2>3
<1>4. ASSUME NEW x \in Elements(Tail(q)) PROVE \E i \in 2 .. Len(q) : x = q[i]
  <2>1. PICK i \in 1 .. Len(q) - 1 : x = Tail(q)[i]
    BY <1>2, <1>4 DEF Elements
  <2>2. x = q[i + 1] /\ i + 1 \in 2 .. Len(q)
    BY <1>1, <2>1
  <2> QED BY <2>2
<1>5. \A x \in Elements(Tail(q)) : x \in Elements(q)
  <2>1. \A i \in 2 .. Len(q) : i \in DOMAIN q
    BY <1>1, <1>2
  <2> QED BY <1>4, <2>1 DEF Elements
<1>6. Head(q) \in Elements(q)
  BY <1>1, <1>2 DEF Elements
<1> QED BY <1>1, <1>3, <1>4, <1>5, <1>6

LEMMA FromAppend ==
  ASSUME NEW q \in Seq(Item), NEW e \in Item, NEW c \in Conns
  PROVE  From(Append(q, e), c) = From(q, c) \union (IF e.from = c THEN {e.msg} ELSE {})
<1>1. Elements(Append(q, e)) = Elements(q) \union {e}
  BY ElementsAppend
<1> QED BY <1>1 DEF From

LEMMA FromTail ==
  ASSUME NEW q \in Seq(Item), q # <<>>, NEW c \in Conns
  PROVE  From(q, c) = From(Tail(q), c) \union (IF Head(q).from = c THEN {Head(q).msg} ELSE {})
<1>1. Elements(q) = {Head(q)} \union Elements(Tail(q))
  BY ElementsTail
<1> QED BY <1>1 DEF From

LEMMA InFlightIs ==
  ASSUME NEW c \in Conns
  PROVE  InFlight(c) = Elements(inbox[c]) \union ({hand[c]} \ {0}) \union From(channel[TopicOf[c]], c)
  BY DEF InFlight, From

LEMMA FromPlace ==
  ASSUME NEW q \in Seq(Item), NEW c \in Conns, NEW x \in From(q, c)
  PROVE  \E i \in 1 .. Len(q) : q[i].from = c /\ q[i].msg = x
  BY DEF From, Elements

(* A step that leaves a connection's messages where they are. *)
LEMMA UnmovedAccount ==
  ASSUME NEW d \in Conns, Accounted(d),
         received'[d] = received[d], inbox'[d] = inbox[d], hand'[d] = hand[d],
         published'[d] = published[d], lost'[d] = lost[d],
         From(channel'[TopicOf[d]], d) = From(channel[TopicOf[d]], d)
  PROVE  Accounted(d)'
<1>1. InFlight(d)' = InFlight(d)
  BY InFlightIs DEF InFlight, From
<1>2. Latest(d)' = Latest(d)
  BY DEF Latest, Feed!Latest
<1> QED BY <1>1, <1>2 DEF Accounted

(* Steps after which every message is where it was. *)
LEMMA UnmovedKeepsAccounts ==
  ASSUME AccountInv, UNCHANGED data, OrderInv',
         \A c \in Conns : processing'[c] # "busy" => hand[c] = 0
  PROVE  AccountInv'
<1>1. \A d \in Conns : Accounted(d)'
  <2> SUFFICES ASSUME NEW d \in Conns PROVE Accounted(d)'
    OBVIOUS
  <2> QED BY UnmovedAccount DEF AccountInv, data
<1> QED BY <1>1 DEF AccountInv, HeldInv, data

LEMMA ReadKeepsAccounts ==
  ASSUME AccountInv, NEW c \in Conns, Read(c), OrderInv'
  PROVE  AccountInv'
<1> DEFINE n == received[c] + 1
<1>1. /\ received \in [Conns -> Nat] /\ inbox \in [Conns -> Seq(Nat)]
      /\ lost \in [Conns -> SUBSET Nat] /\ n \in Nat
  BY DEF AccountInv, OrderInv, DataTypes, HeldInv
<1>2. /\ received' = [received EXCEPT ![c] = n]
      /\ \/ inbox' = [inbox EXCEPT ![c] = Append(inbox[c], n)] /\ lost' = lost
         \/ lost' = [lost EXCEPT ![c] = lost[c] \union {n}] /\ inbox' = inbox
      /\ UNCHANGED <<processing, hand, channel, published>>
  BY <1>1 DEF Read
<1>3. ASSUME NEW d \in Conns, d # c PROVE Accounted(d)'
  BY <1>1, <1>2, <1>3, UnmovedAccount DEF AccountInv
<1>4. received'[c] = n /\ 1 .. n = 1 .. received[c] \union {n} /\ n \notin 1 .. received[c]
  BY <1>1, <1>2
<1>5. Latest(c)' = Latest(c) /\ published'[c] = published[c]
  BY <1>2 DEF Latest, Feed!Latest
<1>6. Accounted(c)
  BY DEF AccountInv
<1> HIDE DEF n
<1>7. InFlight(c)' = Elements(inbox'[c]) \union ({hand[c]} \ {0}) \union From(channel[TopicOf[c]], c)
  BY <1>2 DEF InFlight, From
<1>8. Accounted(c)'
  <2>1. CASE inbox' = [inbox EXCEPT ![c] = Append(inbox[c], n)] /\ lost' = lost
    <3>1. Elements(inbox'[c]) = Elements(inbox[c]) \union {n}
      <4>1. inbox'[c] = Append(inbox[c], n) /\ inbox[c] \in Seq(Nat)
        BY <1>1, <2>1
      <4> QED BY <1>1, <4>1, ElementsAppend
    <3>2. InFlight(c)' = InFlight(c) \union {n}
      BY <1>7, <3>1, InFlightIs
    <3> QED BY <1>4, <1>5, <1>6, <2>1, <3>2 DEF Accounted
  <2>2. CASE lost' = [lost EXCEPT ![c] = lost[c] \union {n}] /\ inbox' = inbox
    <3>1. lost'[c] = lost[c] \union {n}
      BY <1>1, <2>2
    <3>2. InFlight(c)' = InFlight(c)
      BY <1>7, <2>2, InFlightIs
    <3> QED BY <1>4, <1>5, <1>6, <3>1, <3>2 DEF Accounted
  <2> QED BY <1>2, <2>1, <2>2
<1>9. HeldInv'
  BY <1>1, <1>2 DEF HeldInv, AccountInv
<1> QED BY <1>3, <1>8, <1>9 DEF AccountInv

(* The head of an inbox is nowhere else. *)
LEMMA InboxHeadApart ==
  ASSUME OrderInv, NEW c \in Conns, Accounted(c), inbox[c] # <<>>, hand[c] = 0
  PROVE  LET x == Head(inbox[c])
             rest == Elements(Tail(inbox[c])) \union From(channel[TopicOf[c]], c)
         IN  /\ InFlight(c) = rest \union {x} /\ x \notin rest
             /\ x \notin Elements(published[c]) /\ x \in Nat \ {0}
<1> DEFINE x == Head(inbox[c])
<1>1. inbox[c] \in Seq(Nat) /\ channel[TopicOf[c]] \in Seq(Item) /\ TopicOf[c] \in Topics
  BY CollectorAssumption DEF OrderInv, DataTypes
<1>2. /\ Elements(inbox[c]) = {x} \union Elements(Tail(inbox[c])) /\ x = inbox[c][1]
      /\ \A y \in Elements(Tail(inbox[c])) : \E i \in 2 .. Len(inbox[c]) : y = inbox[c][i]
      /\ Len(inbox[c]) \in Nat \ {0} /\ x \in Nat
  BY <1>1, ElementsTail, TailFacts
<1> HIDE DEF x
<1>3. 1 \in 1 .. Len(inbox[c])
  BY <1>2
<1>4. \A i \in 2 .. Len(inbox[c]) : x < inbox[c][i] /\ inbox[c][i] \in Nat
  BY <1>2, <1>3, Values DEF OrderInv, InboxOrder
<1>5. x \notin Elements(Tail(inbox[c]))
  BY <1>2, <1>4
<1>6. x \notin From(channel[TopicOf[c]], c)
  <2> SUFFICES ASSUME x \in From(channel[TopicOf[c]], c) PROVE FALSE
    OBVIOUS
  <2>1. PICK i \in 1 .. Len(channel[TopicOf[c]]) :
          channel[TopicOf[c]][i].from = c /\ channel[TopicOf[c]][i].msg = x
    BY <1>1, FromPlace
  <2>2. channel[TopicOf[c]][i].msg < inbox[c][1]
    BY <1>1, <1>3, <2>1 DEF OrderInv, ChannelOrder
  <2> QED BY <1>2, <2>1, <2>2
<1>7. Latest(c) < x /\ Latest(c) \in Nat
  BY <1>2, <1>3, Values DEF OrderInv, LatestOrder
<1>8. x \notin Elements(published[c])
  BY <1>2, <1>7 DEF Accounted
<1>9. InFlight(c) = Elements(Tail(inbox[c])) \union From(channel[TopicOf[c]], c) \union {x}
  BY <1>2, InFlightIs
<1> QED BY <1>2, <1>5, <1>6, <1>7, <1>8, <1>9 DEF x

LEMMA TakeKeepsAccounts ==
  ASSUME AccountInv, NEW c \in Conns, Take(c) \/ TakeUnreadable(c), OrderInv'
  PROVE  AccountInv'
<1> DEFINE x == Head(inbox[c])
           rest == Elements(Tail(inbox[c])) \union From(channel[TopicOf[c]], c)
<1>1. /\ inbox \in [Conns -> Seq(Nat)] /\ hand \in [Conns -> Nat]
      /\ lost \in [Conns -> SUBSET Nat]
      /\ processing \in [Conns -> {"waiting", "returned", "busy", "ended"}]
      /\ OrderInv /\ Accounted(c) /\ HeldInv
  BY DEF AccountInv, OrderInv, DataTypes, HeldInv
<1>2. /\ inbox[c] # <<>> /\ inbox' = [inbox EXCEPT ![c] = Tail(inbox[c])]
      /\ UNCHANGED <<received, channel, published>> /\ hand[c] = 0
      /\ \/ /\ hand' = [hand EXCEPT ![c] = x] /\ lost' = lost
            /\ processing' = [processing EXCEPT ![c] = "busy"]
         \/ /\ lost' = [lost EXCEPT ![c] = lost[c] \union {x}] /\ hand' = hand
            /\ processing' = [processing EXCEPT ![c] = AtTest(c)]
      /\ AtTest(c) \in {"waiting", "returned"}
  BY <1>1 DEF Take, TakeUnreadable, MayTake, AtTest, HeldInv
<1>3. /\ InFlight(c) = rest \union {x} /\ x \notin rest
      /\ x \notin Elements(published[c]) /\ x \in Nat \ {0}
  BY <1>1, <1>2, InboxHeadApart
<1> HIDE DEF x
<1>4. ASSUME NEW d \in Conns, d # c PROVE Accounted(d)'
  BY <1>1, <1>2, <1>4, UnmovedAccount DEF AccountInv
<1>5. InFlight(c)' = rest \union ({hand'[c]} \ {0})
  BY <1>1, <1>2 DEF InFlight, From
<1>6. Latest(c)' = Latest(c) /\ published'[c] = published[c] /\ received'[c] = received[c]
  BY <1>2 DEF Latest, Feed!Latest
<1> HIDE DEF rest
<1>7. CASE hand' = [hand EXCEPT ![c] = x] /\ lost' = lost
           /\ processing' = [processing EXCEPT ![c] = "busy"]
  <2>1. InFlight(c)' = InFlight(c)
    BY <1>1, <1>3, <1>5, <1>7
  <2>2. Accounted(c)'
    BY <1>1, <1>6, <1>7, <2>1 DEF Accounted
  <2>3. HeldInv'
    BY <1>1, <1>7 DEF HeldInv
  <2> QED BY <1>4, <2>2, <2>3 DEF AccountInv
<1>8. CASE lost' = [lost EXCEPT ![c] = lost[c] \union {x}] /\ hand' = hand
           /\ processing' = [processing EXCEPT ![c] = AtTest(c)]
  <2>1. InFlight(c)' = rest /\ lost'[c] = lost[c] \union {x}
    BY <1>1, <1>2, <1>5, <1>8
  <2>2. Accounted(c)'
    BY <1>1, <1>3, <1>6, <2>1 DEF Accounted
  <2>3. HeldInv'
    BY <1>1, <1>2, <1>3, <1>8 DEF HeldInv
  <2> QED BY <1>4, <2>2, <2>3 DEF AccountInv
<1> QED BY <1>2, <1>7, <1>8

LEMMA SendKeepsAccounts ==
  ASSUME AccountInv, NEW c \in Conns, Send(c), OrderInv'
  PROVE  AccountInv'
<1> DEFINE t == TopicOf[c]
           e == [from |-> c, msg |-> hand[c]]
<1>1. /\ hand \in [Conns -> Nat] /\ channel \in [Topics -> Seq(Item)] /\ t \in Topics
      /\ processing \in [Conns -> {"waiting", "returned", "busy", "ended"}] /\ e \in Item
      /\ e.from = c /\ e.msg = hand[c]
  BY CollectorAssumption DEF AccountInv, OrderInv, DataTypes, Item
<1>2. /\ channel' = [channel EXCEPT ![t] = Append(channel[t], e)]
      /\ hand' = [hand EXCEPT ![c] = 0] /\ processing' = [processing EXCEPT ![c] = AtTest(c)]
      /\ AtTest(c) \in {"waiting", "returned"}
      /\ UNCHANGED <<received, inbox, published, lost>> /\ hand[c] # 0
  BY DEF Send, AtTest, AccountInv, OrderInv, Placed
<1> HIDE DEF e, t
<1>3. /\ channel'[t] = Append(channel[t], e) /\ channel[t] \in Seq(Item)
      /\ \A u \in Topics \ {t} : channel'[u] = channel[u]
  BY <1>1, <1>2
<1>4. ASSUME NEW d \in Conns, d # c
      PROVE  From(channel'[TopicOf[d]], d) = From(channel[TopicOf[d]], d)
  <2>1. CASE TopicOf[d] = t
    <3>1. From(Append(channel[t], e), d)
            = From(channel[t], d) \union (IF e.from = d THEN {e.msg} ELSE {})
      BY <1>1, <1>3, FromAppend
    <3> QED BY <1>1, <1>3, <1>4, <2>1, <3>1
  <2>2. CASE TopicOf[d] # t
    <3>1. TopicOf[d] \in Topics
      BY CollectorAssumption
    <3> QED BY <1>3, <2>2, <3>1
  <2> QED BY <2>1, <2>2
<1>5. ASSUME NEW d \in Conns, d # c PROVE Accounted(d)'
  BY <1>1, <1>2, <1>4, <1>5, UnmovedAccount DEF AccountInv
<1>6. InFlight(c)' = InFlight(c)
  <2>1. From(channel'[t], c) = From(channel[t], c) \union {hand[c]}
    BY <1>1, <1>3, FromAppend
  <2>2. InFlight(c)' = Elements(inbox[c]) \union ({0} \ {0}) \union From(channel'[t], c)
    BY <1>1, <1>2 DEF InFlight, From, t
  <2> QED BY <1>2, <2>1, <2>2, InFlightIs DEF t
<1>7. Accounted(c)'
  <2>1. Latest(c)' = Latest(c) /\ Accounted(c)
    BY <1>2 DEF Latest, Feed!Latest, AccountInv
  <2> QED BY <1>2, <1>6, <2>1 DEF Accounted
<1>8. HeldInv'
  BY <1>1, <1>2 DEF HeldInv, AccountInv
<1> QED BY <1>5, <1>7, <1>8 DEF AccountInv

LEMMA PublishKeepsAccounts ==
  ASSUME AccountInv, NEW t \in Topics, Publish(t), OrderInv',
         NEW c \in Conns, NEW x \in Nat, Head(channel[t]).from = c, Head(channel[t]).msg = x
  PROVE  AccountInv'
<1> DEFINE m == Head(channel[t])
<1>1. /\ channel \in [Topics -> Seq(Item)] /\ published \in [Conns -> Seq(Nat)]
      /\ lost \in [Conns -> SUBSET Nat] /\ channel[t] \in Seq(Item) /\ OrderInv
  BY DEF AccountInv, OrderInv, DataTypes, HeldInv
<1>2. /\ channel[t] # <<>> /\ channel' = [channel EXCEPT ![t] = Tail(channel[t])]
      /\ UNCHANGED <<processing, received, inbox, hand>>
      /\ \/ published' = [published EXCEPT ![c] = Append(published[c], x)] /\ lost' = lost
         \/ lost' = [lost EXCEPT ![c] = lost[c] \union {x}] /\ published' = published
  BY DEF Publish, threads
<1>3. /\ m = channel[t][1] /\ m \in Item /\ 1 \in 1 .. Len(channel[t])
      /\ \A y \in Elements(Tail(channel[t])) : \E i \in 2 .. Len(channel[t]) : y = channel[t][i]
      /\ m.from = c /\ m.msg = x
  <2>1. m = channel[t][1] /\ m \in Item /\ Len(channel[t]) \in Nat \ {0}
    BY <1>1, <1>2, TailFacts
  <2>2. \A y \in Elements(Tail(channel[t])) : \E i \in 2 .. Len(channel[t]) : y = channel[t][i]
    BY <1>1, <1>2, ElementsTail
  <2> QED BY <2>1, <2>2
<1>4. TopicOf[c] = t
  BY <1>1, <1>3 DEF OrderInv, Placed
<1>5. ASSUME NEW d \in Conns
      PROVE  From(channel[t], d) = From(Tail(channel[t]), d) \union (IF c = d THEN {x} ELSE {})
  BY <1>1, <1>2, FromTail
<1> HIDE DEF m
<1>6. ASSUME NEW d \in Conns, d # c PROVE Accounted(d)'
  <2>1. From(channel'[TopicOf[d]], d) = From(channel[TopicOf[d]], d)
    <3>1. CASE TopicOf[d] = t
      <4>1. channel'[t] = Tail(channel[t])
        BY <1>1, <1>2
      <4>2. From(channel[t], d) = From(Tail(channel[t]), d)
        BY <1>5, <1>6
      <4> QED BY <3>1, <4>1, <4>2
    <3>2. CASE TopicOf[d] # t
      <4>1. TopicOf[d] \in Topics
        BY CollectorAssumption
      <4> QED BY <1>1, <1>2, <3>2, <4>1
    <3> QED BY <3>1, <3>2
  <2>2. published'[d] = published[d] /\ lost'[d] = lost[d]
    BY <1>1, <1>2, <1>3, <1>6
  <2> QED BY <1>2, <1>6, <2>1, <2>2, UnmovedAccount DEF AccountInv
<1> DEFINE rest == Elements(inbox[c]) \union ({hand[c]} \ {0}) \union From(Tail(channel[t]), c)
<1>7. InFlight(c) = rest \union {x} /\ InFlight(c)' = rest
  <2>1. InFlight(c)' = Elements(inbox[c]) \union ({hand[c]} \ {0}) \union From(channel'[t], c)
    BY <1>2, <1>4 DEF InFlight, From
  <2>2. channel'[t] = Tail(channel[t])
    BY <1>1, <1>2
  <2> QED BY <1>3, <1>4, <1>5, <2>1, <2>2, InFlightIs
<1>8. Latest(c) < x /\ Latest(c) \in Nat
  BY <1>1, <1>3, Values DEF OrderInv, LatestOrder
<1>9. x \notin rest
  <2>1. x \notin Elements(inbox[c])
    <3>1. \A j \in 1 .. Len(inbox[c]) : x < inbox[c][j]
      BY <1>1, <1>3 DEF OrderInv, ChannelOrder
    <3>2. inbox[c] \in Seq(Nat)
      BY <1>1, <1>3 DEF OrderInv, DataTypes
    <3> QED BY <1>3, <3>1, <3>2 DEF Elements
  <2>2. x \notin {hand[c]} \ {0}
    <3>1. hand[c] # 0 => x < hand[c]
      BY <1>1, <1>3 DEF OrderInv, ChannelOrder
    <3> QED BY <1>3, <3>1
  <2>3. x \notin From(Tail(channel[t]), c)
    <3> SUFFICES ASSUME NEW e \in Elements(Tail(channel[t])), e.from = c, e.msg = x PROVE FALSE
      BY DEF From
    <3>1. PICK i \in 2 .. Len(channel[t]) : e = channel[t][i]
      BY <1>3
    <3>2. i \in 1 .. Len(channel[t]) /\ 1 < i
      OBVIOUS
    <3>3. x < channel[t][i].msg
      BY <1>1, <1>3, <3>1, <3>2 DEF OrderInv, ChannelOrder
    <3> QED BY <1>3, <3>1, <3>3
  <2> QED BY <2>1, <2>2, <2>3
<1>10. /\ x \notin Elements(published[c]) /\ x \notin lost[c]
       /\ \A n \in Elements(published[c]) : n \in Nat
  <2>1. Accounted(c)
    BY <1>3 DEF AccountInv
  <2>2. \A n \in Elements(published[c]) : n \in Nat
    BY <1>1, <1>3 DEF Elements
  <2> QED BY <1>7, <1>8, <2>1, <2>2 DEF Accounted
<1> HIDE DEF rest
<1>11. CASE published' = [published EXCEPT ![c] = Append(published[c], x)] /\ lost' = lost
  <2>1. /\ published'[c] = Append(published[c], x) /\ published[c] \in Seq(Nat)
        /\ Elements(published'[c]) = Elements(published[c]) \union {x}
    <3>1. published'[c] = Append(published[c], x) /\ published[c] \in Seq(Nat)
      BY <1>1, <1>3, <1>11
    <3> QED BY <1>3, <3>1, ElementsAppend
  <2>2. Latest(c)' = x
    <3>1. /\ Append(published[c], x) \in Seq(Nat)
          /\ Len(Append(published[c], x)) = Len(published[c]) + 1
          /\ Append(published[c], x)[Len(published[c]) + 1] = x
      BY <1>3, <2>1, AppendFacts
    <3>2. Len(published[c]) + 1 # 0
      BY <2>1
    <3>3. published'[c] # <<>> /\ published'[c][Len(published'[c])] = x
      BY <2>1, <3>1, <3>2
    <3> QED BY <3>3 DEF Latest, Feed!Latest
  <2>3. Accounted(c) /\ received'[c] = received[c] /\ lost'[c] = lost[c]
    BY <1>2, <1>3, <1>11 DEF AccountInv
  <2>4. \A n \in Elements(published'[c]) : n <= x
    BY <1>3, <1>8, <1>10, <2>1, <2>3 DEF Accounted
  <2>5. Accounted(c)'
    BY <1>7, <1>9, <1>10, <2>1, <2>2, <2>3, <2>4 DEF Accounted
  <2>6. HeldInv'
    BY <1>2, <1>11 DEF HeldInv, AccountInv
  <2> QED BY <1>6, <2>5, <2>6 DEF AccountInv
<1>12. CASE lost' = [lost EXCEPT ![c] = lost[c] \union {x}] /\ published' = published
  <2>1. lost'[c] = lost[c] \union {x} /\ Latest(c)' = Latest(c)
    BY <1>1, <1>3, <1>12 DEF Latest, Feed!Latest
  <2>2. Accounted(c) /\ received'[c] = received[c]
    BY <1>2, <1>3 DEF AccountInv
  <2>3. Accounted(c)'
    BY <1>7, <1>9, <1>10, <1>12, <2>1, <2>2 DEF Accounted
  <2>4. HeldInv'
    BY <1>1, <1>2, <1>3, <1>12 DEF HeldInv, AccountInv
  <2> QED BY <1>6, <2>3, <2>4 DEF AccountInv
<1> QED BY <1>2, <1>11, <1>12

LEMMA AccountsStart == Init => AccountInv
<1> SUFFICES ASSUME Init PROVE AccountInv
  OBVIOUS
<1>1. OrderInv
  BY OrderStarts
<1>2. HeldInv
  BY DEF Init, HeldInv
<1>3. ASSUME NEW c \in Conns PROVE Accounted(c)
  <2>1. /\ received[c] = 0 /\ inbox[c] = <<>> /\ hand[c] = 0 /\ published[c] = <<>> /\ lost[c] = {}
        /\ channel[TopicOf[c]] = <<>>
    BY CollectorAssumption DEF Init
  <2>2. Elements(<<>>) = {}
    BY DEF Elements
  <2>3. InFlight(c) = {}
    BY <2>1, <2>2 DEF InFlight
  <2>4. 1 .. 0 = {}
    OBVIOUS
  <2> QED BY <2>1, <2>2, <2>3, <2>4 DEF Accounted
<1> QED BY <1>1, <1>2, <1>3 DEF AccountInv

LEMMA AccountsAreKept == AccountInv /\ [Next]_vars => AccountInv'
<1> SUFFICES ASSUME AccountInv, [Next]_vars PROVE AccountInv'
  OBVIOUS
<1>1. OrderInv'
  BY OrderIsKept DEF AccountInv
<1>2. /\ processing \in [Conns -> {"waiting", "returned", "busy", "ended"}]
      /\ \A c \in Conns : processing[c] # "busy" => hand[c] = 0
  BY DEF AccountInv, OrderInv, DataTypes, HeldInv
<1>3. ASSUME UNCHANGED data, \A c \in Conns : processing'[c] # "busy" => hand[c] = 0
      PROVE  AccountInv'
  BY <1>1, <1>3, UnmovedKeepsAccounts
<1>4. ASSUME NEW c \in Conns,
             Enter(c) \/ Test(c) \/ ReadOther(c) \/ ReadFails(c) \/ EndIngestion(c)
      PROVE  AccountInv'
  BY <1>2, <1>3, <1>4 DEF Enter, Test, ReadOther, ReadFails, EndIngestion
<1>5. ASSUME NEW c \in Conns, Read(c) \/ Take(c) \/ TakeUnreadable(c) \/ Send(c)
      PROVE  AccountInv'
  BY <1>1, <1>5, ReadKeepsAccounts, TakeKeepsAccounts, SendKeepsAccounts
<1>6. ASSUME NEW c \in Conns, Quit(c) PROVE AccountInv'
  BY <1>2, <1>3, <1>6 DEF Quit
<1>7. ASSUME NEW t \in Topics, StartPublisher(t) \/ EndPublisher(t) PROVE AccountInv'
  BY <1>2, <1>3, <1>7 DEF StartPublisher, EndPublisher
<1>8. ASSUME NEW t \in Topics, Publish(t) PROVE AccountInv'
  <2>1. channel[t] \in Seq(Item) /\ channel[t] # <<>>
    BY <1>8 DEF AccountInv, OrderInv, DataTypes, Publish
  <2>2. Head(channel[t]) \in Item
    BY <2>1, TailFacts
  <2>3. Head(channel[t]).from \in Conns /\ Head(channel[t]).msg \in Nat
    BY <2>2 DEF Item
  <2> QED BY <1>1, <1>8, <2>3, PublishKeepsAccounts
<1>9. ASSUME NEW r \in Reporters, ReporterStep(r) PROVE AccountInv'
  BY <1>2, <1>3, <1>9 DEF ReporterStep, ReporterFails, EndReporter
<1>10. CASE MainStep \/ CtrlC
  BY <1>2, <1>3, <1>10 DEF MainStep, Stop, CloseChannels, Exit, CtrlC
<1>11. CASE UNCHANGED vars
  BY <1>2, <1>3, <1>11 DEF vars, threads
<1> QED BY <1>4, <1>5, <1>6, <1>7, <1>8, <1>9, <1>10, <1>11
        DEF Next, Ingest, Socket, Process, PublisherStep

(* What is on its way is newer than what has been published. *)
LEMMA InFlightIsNewer ==
  ASSUME OrderInv, NEW c \in Conns, NEW x \in InFlight(c)
  PROVE  Latest(c) < x /\ x \in Nat \ {0} /\ Latest(c) \in Nat
<1>1. inbox[c] \in Seq(Nat) /\ channel[TopicOf[c]] \in Seq(Item) /\ TopicOf[c] \in Topics
  BY CollectorAssumption DEF OrderInv, DataTypes
<1>2. Latest(c) \in Nat /\ hand[c] \in Nat
  BY Values DEF OrderInv
<1>3. CASE x \in Elements(inbox[c])
  BY <1>1, <1>2, <1>3 DEF Elements, OrderInv, LatestOrder
<1>4. CASE x \in {hand[c]} \ {0}
  BY <1>2, <1>4 DEF OrderInv, LatestOrder
<1>5. CASE x \in From(channel[TopicOf[c]], c)
  <2>1. PICK i \in 1 .. Len(channel[TopicOf[c]]) :
          channel[TopicOf[c]][i].from = c /\ channel[TopicOf[c]][i].msg = x
    BY <1>1, <1>5, FromPlace
  <2>2. Latest(c) < x /\ x \in Nat
    BY <1>1, <2>1, Values DEF OrderInv, LatestOrder
  <2> QED BY <1>2, <2>2
<1> QED BY <1>3, <1>4, <1>5, InFlightIs

(* Wherever a connection's messages pile up and whatever is dropped or     *)
(* fails on the way, every one that was received is in exactly one place:  *)
(* published, counted as lost, or on its way.                              *)
THEOREM MessagesAreAccounted == Spec => []EveryMessageAccounted
<1>1. AccountInv => EveryMessageAccounted
  <2> SUFFICES ASSUME AccountInv, NEW c \in Conns
               PROVE  /\ 1 .. received[c] = Elements(published[c]) \union lost[c] \union InFlight(c)
                      /\ Elements(published[c]) \intersect lost[c] = {}
                      /\ InFlight(c) \intersect (Elements(published[c]) \union lost[c]) = {}
    BY DEF EveryMessageAccounted
  <2>1. Accounted(c)
    BY DEF AccountInv
  <2>2. \A x \in InFlight(c) : x \notin Elements(published[c])
    BY <2>1, InFlightIsNewer DEF Accounted, AccountInv
  <2> QED BY <2>1, <2>2 DEF Accounted
<1> QED BY <1>1, AccountsStart, AccountsAreKept, PTL DEF Spec
-----------------------------------------------------------------------------
(* The types, and the capacities of the queues. *)
ControlTypes ==
  /\ running \in BOOLEAN /\ flag \in [Conns -> BOOLEAN]
  /\ ingestion \in [Conns -> {"spawned", "testing", "reading", "left", "ended"}]
  /\ publisher \in [Topics -> {"starting", "ready", "failed", "ended"}]
  /\ reporters \in [Reporters -> {"started", "ended"}]
  /\ main \in {"running", "joining", "closed", "ended"}

Capacities ==
  /\ \A c \in Conns : received[c] <= Messages[c] /\ Len(inbox[c]) <= InboxMax
  /\ \A t \in Topics : Len(channel[t]) <= ChannelMax

LEMMA ControlIsTyped == ControlTypes /\ [Next]_vars => ControlTypes'
<1> SUFFICES ASSUME ControlTypes, [Next]_vars PROVE ControlTypes'
  OBVIOUS
<1> USE DEF ControlTypes
<1>1. ASSUME NEW c \in Conns, Ingest(c) PROVE ControlTypes'
  BY <1>1 DEF Ingest, Socket, Enter, Test, Read, ReadOther, ReadFails, EndIngestion
<1>2. ASSUME NEW c \in Conns, Process(c) PROVE ControlTypes'
  BY <1>2 DEF Process, Take, TakeUnreadable, Send, Quit, threads
<1>3. ASSUME NEW t \in Topics, PublisherStep(t) PROVE ControlTypes'
  BY <1>3 DEF PublisherStep, StartPublisher, Publish, EndPublisher, threads
<1>4. ASSUME NEW r \in Reporters, ReporterStep(r) PROVE ControlTypes'
  BY <1>4 DEF ReporterStep, ReporterFails, EndReporter
<1>5. CASE MainStep \/ CtrlC
  BY <1>5 DEF MainStep, Stop, CloseChannels, Exit, CtrlC
<1>6. CASE UNCHANGED vars
  BY <1>6 DEF vars, threads
<1> HIDE DEF ControlTypes
<1> QED BY <1>1, <1>2, <1>3, <1>4, <1>5, <1>6 DEF Next

LEMMA QueuesAreBounded == OrderInv /\ Capacities /\ [Next]_vars => Capacities'
<1> SUFFICES ASSUME OrderInv, Capacities, [Next]_vars PROVE Capacities'
  OBVIOUS
<1> USE CollectorAssumption DEF Capacities
<1>1. /\ received \in [Conns -> Nat] /\ inbox \in [Conns -> Seq(Nat)]
      /\ channel \in [Topics -> Seq(Item)]
  BY DEF OrderInv, DataTypes
<1>2. ASSUME UNCHANGED data PROVE Capacities'
  BY <1>2 DEF data
<1>3. ASSUME NEW c \in Conns, Read(c) PROVE Capacities'
  <2>1. /\ received' = [received EXCEPT ![c] = received[c] + 1] /\ received[c] < Messages[c]
        /\ \/ inbox' = inbox
           \/ /\ inbox' = [inbox EXCEPT ![c] = Append(inbox[c], received[c] + 1)]
              /\ Len(inbox[c]) < InboxMax
        /\ channel' = channel
    BY <1>1, <1>3 DEF Read
  <2>2. Len(Append(inbox[c], received[c] + 1)) = Len(inbox[c]) + 1
    BY <1>1, AppendFacts
  <2> QED BY <1>1, <2>1, <2>2
<1>4. ASSUME NEW c \in Conns, Take(c) \/ TakeUnreadable(c) PROVE Capacities'
  <2>1. /\ received' = received /\ channel' = channel /\ inbox[c] # <<>>
        /\ inbox' = [inbox EXCEPT ![c] = Tail(inbox[c])]
    BY <1>4 DEF Take, TakeUnreadable
  <2>2. Len(Tail(inbox[c])) = Len(inbox[c]) - 1 /\ Len(inbox[c]) \in Nat
    BY <1>1, <2>1, TailFacts
  <2> QED BY <1>1, <2>1, <2>2
<1>5. ASSUME NEW c \in Conns, Send(c) PROVE Capacities'
  <2> DEFINE t == TopicOf[c]
             e == [from |-> c, msg |-> hand[c]]
  <2>1. /\ received' = received /\ inbox' = inbox /\ t \in Topics
        /\ channel' = [channel EXCEPT ![t] = Append(channel[t], e)] /\ Len(channel[t]) < ChannelMax
    BY <1>5 DEF Send
  <2>2. e \in Item
    BY DEF OrderInv, DataTypes, Item
  <2>3. Len(Append(channel[t], e)) = Len(channel[t]) + 1
    BY <1>1, <2>1, <2>2, AppendFacts
  <2> HIDE DEF e, t
  <2> QED BY <1>1, <2>1, <2>3
<1>6. ASSUME NEW t \in Topics, Publish(t) PROVE Capacities'
  <2>1. /\ received' = received /\ inbox' = inbox /\ channel[t] # <<>>
        /\ channel' = [channel EXCEPT ![t] = Tail(channel[t])]
    BY <1>6 DEF Publish
  <2>2. Len(Tail(channel[t])) = Len(channel[t]) - 1 /\ Len(channel[t]) \in Nat
    BY <1>1, <2>1, TailFacts
  <2> QED BY <1>1, <2>1, <2>2
<1> HIDE DEF Capacities
<1>7. UNCHANGED data
      \/ (\E c \in Conns : Read(c) \/ Take(c) \/ TakeUnreadable(c) \/ Send(c))
      \/ (\E t \in Topics : Publish(t))
  BY DEF Next, Ingest, Socket, Process, PublisherStep, ReporterStep, MainStep, vars,
         Enter, Test, ReadOther, ReadFails, EndIngestion, Quit, StartPublisher, EndPublisher,
         ReporterFails, EndReporter, Stop, CloseChannels, Exit, CtrlC
<1> QED BY <1>2, <1>3, <1>4, <1>5, <1>6, <1>7

LEMMA SeqWithin ==
  ASSUME NEW S, NEW q \in Seq(S), NEW T, Elements(q) \subseteq T
  PROVE  q \in Seq(T)
<1>1. \A i \in 1 .. Len(q) : q[i] \in T
  BY DEF Elements
<1> QED BY <1>1

(* Every queue keeps to its capacity, holds only messages received and, in *)
(* a channel, only those of the connections that feed it; a processing     *)
(* thread holds a message exactly while it is busy.                        *)
THEOREM CollectorIsTyped == Spec => []TypeOK
<1> DEFINE TypeInv == AccountInv /\ ControlTypes /\ Capacities
<1>1. Init => ControlTypes /\ Capacities
  BY CollectorAssumption DEF Init, ControlTypes, Capacities
<1>2. TypeInv => TypeOK
  <2> SUFFICES ASSUME TypeInv PROVE TypeOK
    OBVIOUS
  <2>1. /\ OrderInv /\ HeldInv /\ processing \in [Conns -> {"waiting", "returned", "busy", "ended"}]
        /\ channel \in [Topics -> Seq(Item)]
    BY DEF AccountInv, OrderInv, DataTypes
  <2>2. ASSUME NEW c \in Conns
        PROVE  /\ received[c] \in 0 .. Messages[c]
               /\ inbox[c] \in Seq(1 .. received[c]) /\ Len(inbox[c]) <= InboxMax
               /\ hand[c] \in 0 .. received[c] /\ (hand[c] # 0 <=> processing[c] = "busy")
               /\ published[c] \in Seq(1 .. received[c]) /\ lost[c] \subseteq 1 .. received[c]
    <3>1. /\ received[c] \in Nat /\ hand[c] \in Nat /\ inbox[c] \in Seq(Nat)
          /\ published[c] \in Seq(Nat) /\ Messages[c] \in Nat
      BY <2>1, CollectorAssumption DEF OrderInv, DataTypes
    <3>2. /\ Elements(inbox[c]) \subseteq 1 .. received[c]
          /\ Elements(published[c]) \subseteq 1 .. received[c]
          /\ lost[c] \subseteq 1 .. received[c]
      BY InFlightIs DEF AccountInv, Accounted
    <3>3. inbox[c] \in Seq(1 .. received[c]) /\ published[c] \in Seq(1 .. received[c])
      BY <3>1, <3>2, SeqWithin
    <3>4. hand[c] <= received[c] /\ (hand[c] # 0 <=> processing[c] = "busy")
      BY <2>1 DEF OrderInv, Bounded, Placed, HeldInv
    <3> QED BY <3>1, <3>2, <3>3, <3>4 DEF Capacities
  <2>3. ASSUME NEW t \in Topics
        PROVE  /\ channel[t] \in Seq([from : {c \in Conns : TopicOf[c] = t}, msg : Nat])
               /\ Len(channel[t]) <= ChannelMax
    <3>1. channel[t] \in Seq(Item)
      BY <2>1
    <3>2. ASSUME NEW e \in Elements(channel[t])
          PROVE  e \in [from : {c \in Conns : TopicOf[c] = t}, msg : Nat]
      <4>1. PICK i \in 1 .. Len(channel[t]) : e = channel[t][i]
        BY <3>1, <3>2 DEF Elements
      <4>2. e \in Item /\ TopicOf[e.from] = t
        BY <2>1, <3>1, <4>1 DEF OrderInv, Placed
      <4> QED BY <4>2 DEF Item
    <3>3. channel[t] \in Seq([from : {c \in Conns : TopicOf[c] = t}, msg : Nat])
      BY <3>1, <3>2, SeqWithin
    <3> QED BY <3>3 DEF Capacities
  <2> QED BY <2>1, <2>2, <2>3 DEF TypeOK, ControlTypes
<1>3. TypeInv /\ [Next]_vars => TypeInv'
  BY AccountsAreKept, ControlIsTyped, QueuesAreBounded DEF AccountInv
<1> QED BY <1>1, <1>2, <1>3, AccountsStart, PTL DEF Spec
=============================================================================
