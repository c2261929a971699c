-------------------------- MODULE EchoClientProofs --------------------------
(***************************************************************************)
(* Proofs about EchoClient for any number of messages and of losses, for   *)
(* as long as the retry timer makes no surplus connection: the invariant   *)
(* of the two threads, that nothing main() has written is dropped while no *)
(* connection is lost, and that a main() which was notified has all its    *)
(* data.                                                                   *)
(***************************************************************************)
EXTENDS EchoClient, SequenceTheorems, TLAPS

Functs == [f : {"start", "stop", "send", "shutdown", "setClose", "forceClose",
                "forceCloseInLoop", "connectDestroyed"},
           c : Conns \union {NoConn}, m : 0..Messages]

Typed == TypeOK /\ queue \in Seq(Functs) /\ batch \in Seq(Functs)

\* stations of main() before the shutdown is queued
Before == {"start", "already", "append", "write", "waiting", "woken", "misled", "shutdown"}
Closing == {"down", "remove", "direct", "restart"}

MainOK ==
  /\ connect_ => main \in Before \ {"start", "shutdown"}
  /\ main = "start" => conns = 0 /\ ~trying /\ Work = <<>> /\ latch_ = 0
  /\ quit \/ loop = "exited" => main \in {"join", "ended"}
  /\ main \in {"start", "already"} => all = 0
  /\ main = "write" => all >= 1
  /\ main \notin {"start", "already", "append", "write"} => all = Messages
  /\ main \in {"setClose", "forceClose"} <=> held # NoConn
  /\ loop # "functors" => batch = <<>>
  /\ loop # "events" => active = {}
  /\ handler # "none" => loop \in {"events", "functors"}

\* without a surplus connection the connections follow each other, and up to
\* disconnect() each one is lost before the next
ConnOK ==
  /\ surplus = 0
  /\ handler # "none" => cur = conns
  /\ connection_ \in {NoConn, conns}
  /\ \A c \in Conns : c > conns => net[c] = "none" /\ state_[c] = "kConnecting"
  /\ \A c \in Conns : c < conns => net[c] = "closed" /\ state_[c] = "kDisconnected"
  /\ handler = "establish" => net[conns] = "none" /\ state_[conns] = "kConnecting"
  /\ handler \in Closing => state_[conns] = "kDisconnected"
  /\ handler = "restart" => connection_ = NoConn
  /\ conns <= losses + 1
  /\ trying => /\ connection_ = NoConn /\ conns <= losses
               /\ conns > 0 => net[conns] = "closed" /\ state_[conns] = "kDisconnected"
  /\ connect_ /\ conns > 0 => /\ net[conns] # "half"
                              /\ net[conns] = "closed" => conns <= losses
                              /\ handler \in Closing => net[conns] = "closed"

\* only the last connection carries something, and nothing once it is given up
StreamOK ==
  /\ in[NoConn] = <<>> /\ out[NoConn] = <<>>
  /\ \A c \in Conns : c # conns => in[c] = <<>> /\ out[c] = <<>>
  /\ \A c \in Conns : net[c] \in {"none", "closed"} => out[c] = <<>>
  /\ conns > 0 /\ (trying \/ (connect_ /\ handler \in Closing)) => in[conns] = <<>>

LatchOK ==
  /\ latch_ <= conns
  /\ main \notin {"start", "already"} => latch_ + 1 <= conns
  /\ handler \in {"establish", "up", "release"} => latch_ + 1 <= conns
  /\ main \notin {"start", "already"} /\ handler \in {"establish", "up", "release"} =>
       latch_ + 2 <= conns

\* the first connection, while it is not lost
FirstOK ==
  losses = 0 /\ main \in Before =>
    /\ handler \in {"up", "release"} => state_[1] = "kConnected" /\ net[1] = "up"
    /\ handler = "release" => conn_ = 1
    /\ latch_ > 0 \/ main \notin {"start", "already"} =>
         conn_ = 1 /\ state_[1] = "kConnected" /\ net[1] = "up"

StartOK == \A i \in DOMAIN Work : Work[i].f = "start" =>
  conns = 0 /\ ~trying /\ \A j \in DOMAIN Work : Work[j].f = "start" => j = i

CloseOK == \A i \in DOMAIN Work : Work[i].f \in {"forceClose", "forceCloseInLoop"} =>
  Work[i].c \in Conns /\ main \in {"quit", "join", "ended"}

ShutdownOK == \A i \in DOMAIN Work : Work[i].f = "shutdown" =>
  /\ Work[i].c \in Conns /\ ~connect_ /\ ~trying /\ main \notin Before
  /\ \/ connection_ = Work[i].c /\ main \in {"release", "destroy"}
     \/ held = Work[i].c
     \/ \E j \in DOMAIN Work : /\ i < j /\ Work[j].c = Work[i].c
                               /\ Work[j].f \in {"forceClose", "connectDestroyed"}

SendOK == \A i \in DOMAIN Work : Work[i].f = "send" =>
  /\ Work[i].c \in Conns /\ Work[i].m \in 1..Written
  /\ \A k \in DOMAIN Carried : Carried[k] < Work[i].m
  /\ \A j \in DOMAIN Work : j < i =>
       /\ Work[j].f \notin {"shutdown", "forceClose", "forceCloseInLoop"}
       /\ Work[j].f = "send" => Work[j].m < Work[i].m

DeliverOK == losses = 0 => \A i \in DOMAIN Work : Work[i].f = "send" =>
  Work[i].c = 1 /\ net[1] = "up" /\ state_[1] \in {"kConnected", "kDisconnecting"}

CarriedOK ==
  /\ \A k \in DOMAIN Carried : k <= Carried[k] /\ Carried[k] <= Written
  /\ \A k, l \in DOMAIN Carried : k <= l => Carried[k] + (l - k) <= Carried[l]

CompleteOK ==
  losses = 0 /\ loop # "exited" =>
    /\ \A k \in DOMAIN Carried : Carried[k] = k
    /\ \A m \in 1..Messages : Len(Carried) < m /\ m <= Written
         => \E i \in DOMAIN Work : Work[i].f = "send" /\ Work[i].m = m

WokenOK == main = "woken" => Len(get_) = Messages

IInv == /\ Typed /\ MainOK /\ ConnOK /\ StreamOK /\ LatchOK /\ FirstOK
        /\ StartOK /\ CloseOK /\ ShutdownOK /\ SendOK /\ DeliverOK
        /\ CarriedOK /\ CompleteOK /\ WokenOK

\* the stream of the last connection
In == in[conns]
Out == out[conns]

\* every step but one that makes a surplus connection
Plain == Next /\ surplus' = 0
-----------------------------------------------------------------------------
(***************************************************************************)
(* The functors still to run.                                              *)
(***************************************************************************)
\* r is q without its first d elements, and with f after them
Moved(q, r, d) ==
  /\ \A i \in DOMAIN r : i \in Nat /\ i > 0 /\ i + d \in DOMAIN q /\ r[i] = q[i + d]
  /\ \A i \in DOMAIN q : i \in Nat /\ i > 0 /\ (i > d => i - d \in DOMAIN r /\ r[i - d] = q[i])
Added(q, r, d, f) ==
  /\ Len(r) \in DOMAIN r /\ Len(r) \in Nat /\ r[Len(r)] = f
  /\ \A i \in DOMAIN r :
       /\ i \in Nat /\ i > 0
       /\ i = Len(r) \/ (i < Len(r) /\ i + d \in DOMAIN q /\ r[i] = q[i + d])
  /\ \A i \in DOMAIN q :
       /\ i \in Nat /\ i > 0
       /\ i > d => i - d \in DOMAIN r /\ i - d < Len(r) /\ r[i - d] = q[i]

LEMMA ConnsFacts ==
  /\ \A c : c \in Conns <=> c \in Nat /\ 1 <= c /\ c <= MaxLosses + MaxSurplus + 2
  /\ 1 \in Conns /\ NoConn \notin Conns /\ NoConn = 0
  /\ MaxLosses \in Nat /\ MaxSurplus \in Nat /\ Messages \in Nat
<1> QED  BY BoundsAssumption DEF Conns, NoConn

LEMMA ConnsTyped == Typed =>
  /\ conns \in Nat /\ conns \in Conns \union {NoConn} /\ (conns > 0 => conns \in Conns)
  /\ (conns # NoConn => conns \in Conns) /\ losses \in Nat /\ latch_ \in Nat
<1> SUFFICES ASSUME Typed
    PROVE  /\ conns \in Nat /\ conns \in Conns \union {NoConn} /\ (conns > 0 => conns \in Conns)
           /\ (conns # NoConn => conns \in Conns) /\ losses \in Nat /\ latch_ \in Nat
  OBVIOUS
<1>1. conns \in Conns \union {NoConn} /\ losses \in 0..MaxLosses /\ latch_ \in Nat
  BY DEF Typed, TypeOK
<1> QED  BY <1>1, ConnsFacts

(* A connection in use is the last one.                                     *)
InUse(c) == state_[c] \in {"kConnected", "kDisconnecting"} \/ net[c] \in {"up", "half"}

LEMMA LastConn == Typed /\ ConnOK => \A c \in Conns : InUse(c) => c = conns
<1> SUFFICES ASSUME Typed, ConnOK, NEW c \in Conns, c # conns PROVE ~InUse(c)  OBVIOUS
<1>1. c \in Nat /\ conns \in Nat  BY ConnsTyped, ConnsFacts
<1>2. CASE c > conns  BY <1>2 DEF ConnOK, InUse
<1>3. CASE c < conns  BY <1>3 DEF ConnOK, InUse
<1> QED  BY <1>1, <1>2, <1>3

LEMMA LastStream == StreamOK =>
  \A c \in Conns : in[c] # <<>> \/ out[c] # <<>> => c = conns
<1> QED  BY DEF StreamOK

LEMMA WorkTyped == Typed => Work \in Seq(Functs)
<1> QED  BY DEF Typed, Work

LEMMA AddsIs ==
  ASSUME NEW S, NEW q \in Seq(S), NEW f \in S, NEW r, r = Append(q, f)
  PROVE  Added(q, r, 0, f)
<1> QED  BY DEF Added

LEMMA TakesIs ==
  ASSUME NEW S, NEW q \in Seq(S), q # <<>>, NEW r, r = Tail(q)
  PROVE  Moved(q, r, 1)
<1>1. r \in Seq(S) /\ Len(r) = Len(q) - 1 /\ Len(q) \in Nat  OBVIOUS
<1>2. \A i \in 1 .. Len(r) : i + 1 \in 1 .. Len(q) /\ r[i] = q[i + 1]  BY <1>1
<1>3. \A i \in 1 .. Len(q) : i > 1 => i - 1 \in 1 .. Len(r) /\ r[i - 1] = q[i]  BY <1>1
<1> QED  BY <1>1, <1>2, <1>3 DEF Moved

LEMMA HeadIs ==
  ASSUME NEW S, NEW q \in Seq(S), q # <<>>
  PROVE  Head(q) \in S /\ Tail(q) \in Seq(S)
<1> QED  OBVIOUS

LEMMA TakesAdds ==
  ASSUME NEW S, NEW q \in Seq(S), q # <<>>, NEW f \in S, NEW r, r = Append(Tail(q), f)
  PROVE  Added(q, r, 1, f)
<1>1. PICK t : t = Tail(q)  OBVIOUS
<1>2. /\ t \in Seq(S) /\ Len(t) = Len(q) - 1 /\ Len(q) \in Nat
      /\ r = Append(t, f) /\ r \in Seq(S) /\ Len(r) = Len(t) + 1 /\ r[Len(r)] = f
  BY <1>1, HeadIs
<1>3. \A i \in 1 .. Len(t) : r[i] = t[i] /\ t[i] = q[i + 1]  BY <1>1, <1>2
<1>4. \A i \in 1 .. Len(r) : i = Len(r) \/ (i < Len(r) /\ i + 1 \in 1 .. Len(q) /\ r[i] = q[i + 1])
  BY <1>2, <1>3
<1>5. \A i \in 1 .. Len(q) : i > 1 => i - 1 \in 1 .. Len(r) /\ i - 1 < Len(r) /\ r[i - 1] = q[i]
  <2> SUFFICES ASSUME NEW i \in 1 .. Len(q), i > 1
      PROVE  i - 1 \in 1 .. Len(r) /\ i - 1 < Len(r) /\ r[i - 1] = q[i]
    OBVIOUS
  <2>1. i - 1 \in 1 .. Len(t) /\ (i - 1) + 1 = i  BY <1>2
  <2> QED  BY <1>2, <1>3, <2>1
<1>6. DOMAIN r = 1 .. Len(r) /\ DOMAIN q = 1 .. Len(q)  BY <1>2
<1> QED  BY <1>2, <1>4, <1>5, <1>6 DEF Added

LEMMA ConcatIs ==
  ASSUME NEW S, NEW q \in Seq(S), NEW r \in Seq(S), NEW p, p = q \o r
  PROVE  /\ p \in Seq(S) /\ Len(p) = Len(q) + Len(r)
         /\ \A k \in DOMAIN q : k \in DOMAIN p /\ p[k] = q[k]
<1> QED  OBVIOUS

LEMMA ConcatAppend ==
  ASSUME NEW S, NEW q \in Seq(S), NEW r \in Seq(S), NEW f \in S
  PROVE  q \o Append(r, f) = Append(q \o r, f)
<1> QED  OBVIOUS

LEMMA ConcatTail ==
  ASSUME NEW S, NEW q \in Seq(S), NEW r \in Seq(S), q # <<>>
  PROVE  Tail(q) \o r = Tail(q \o r) /\ q \o r # <<>> /\ Head(q \o r) = Head(q)
<1> QED  OBVIOUS
-----------------------------------------------------------------------------
MainRest == UNCHANGED <<quit, loop, batch, kept, active, handlerVars, netVars, crashed>>
LoopRest == UNCHANGED <<held, all, connect_, loop, quit>>
BatchRest == LoopRest /\ UNCHANGED <<batch, kept>>

\* The state is a state of the types.
LEMMA InitInv == Init => IInv
<1> SUFFICES ASSUME Init PROVE IInv  OBVIOUS
<1>1. Typed
  <2>1. <<>> \in Seq(Functs) /\ <<>> \in Seq(1..Messages)  OBVIOUS
  <2>2. /\ get_ \in Seq(1..Messages)
        /\ in \in [Conns \union {NoConn} -> Seq(1..Messages)]
        /\ out \in [Conns \union {NoConn} -> Seq(1..Messages)]
    BY <2>1 DEF Init
  <2>3. queue \in Seq(Functs) /\ batch \in Seq(Functs)  BY <2>1 DEF Init
  <2>4. /\ {held, connection_, conn_, cur} \subseteq Conns \union {NoConn}
        /\ {connect_, quit, trying, timer, crashed} \subseteq BOOLEAN
        /\ kept \subseteq Conns /\ active \subseteq Conns
    BY DEF Init
  <2>5. /\ state_ \in [Conns -> {"kConnecting", "kConnected", "kDisconnecting", "kDisconnected"}]
        /\ closeCb \in [Conns -> {"remove", "direct"}]
        /\ net \in [Conns -> {"none", "up", "half", "closed"}]
    BY DEF Init
  <2> QED  BY <2>2, <2>3, <2>4, <2>5, ConnsFacts DEF Init, Typed, TypeOK
<1>2. Work = <<>> /\ Carried = <<>> /\ Written = 0
  <2>1. in[conns] = <<>> /\ out[conns] = <<>>  BY DEF Init, NoConn
  <2> QED  BY <2>1 DEF Init, Work, Carried, Written
<1>3. MainOK /\ ConnOK /\ StreamOK /\ LatchOK /\ FirstOK
  BY <1>2, ConnsFacts DEF Init, MainOK, ConnOK, StreamOK, LatchOK, FirstOK, NoConn, Before, Closing
<1>4. StartOK /\ CloseOK /\ ShutdownOK /\ SendOK /\ DeliverOK
  BY <1>2 DEF StartOK, CloseOK, ShutdownOK, SendOK, DeliverOK
<1>5. CarriedOK /\ CompleteOK /\ WokenOK
  BY <1>2 DEF Init, CarriedOK, CompleteOK, WokenOK
<1> QED  BY <1>1, <1>3, <1>4, <1>5 DEF IInv

LEMMA QueueTyped ==
  ASSUME NEW S, NEW q \in Seq(S), NEW r,
         r = q \/ \E f \in S : r = Append(q, f)
  PROVE  r \in Seq(S)
<1> QED  OBVIOUS

LEMMA TypedMain == IInv /\ MainStep => Typed'
<1> SUFFICES ASSUME Typed, MainOK, MainStep PROVE Typed'  BY DEF IInv
<1> USE ConnsFacts DEF Typed, TypeOK, MainStep, mainVars, sharedVars, loopVars, handlerVars,
     attemptVars, connVars, netVars, Goes, Queued, Functor, Functs, NoConn
<1>1. CASE Connect /\ MainRest
  <2>1. queue' \in Seq(Functs)  BY <1>1 DEF Connect
  <2> QED  BY <1>1, <2>1 DEF Connect, MainRest
<1>2. CASE Already /\ MainRest
  <2>1. latch_' \in Nat  BY <1>2 DEF Already
  <2> QED  BY <1>2, <2>1 DEF Already, MainRest
<1>3. CASE AppendAll /\ MainRest
  <2>1. all' \in 0..Messages  BY <1>3 DEF AppendAll
  <2> QED  BY <1>3, <2>1 DEF AppendAll, MainRest
<1>4. CASE Write /\ MainRest
  <2>1. queue' \in Seq(Functs)
    <3>1. Functor("send", conn_, all) \in Functs  OBVIOUS
    <3>2. queue' = Append(queue, Functor("send", conn_, all)) \/ queue' = queue
      BY <1>4 DEF Write
    <3> QED  BY <3>1, <3>2, QueueTyped
  <2> QED  BY <1>4, <2>1 DEF Write, MainRest
<1>5. CASE Wait /\ MainRest  BY <1>5 DEF Wait, MainRest
<1>6. CASE DisconnectStores /\ MainRest  BY <1>6 DEF DisconnectStores, MainRest
<1>7. CASE Disconnect /\ MainRest
  <2>1. queue' \in Seq(Functs)
    <3>1. Functor("shutdown", connection_, 0) \in Functs  OBVIOUS
    <3>2. queue' = Append(queue, Functor("shutdown", connection_, 0)) \/ queue' = queue
      BY <1>7 DEF Disconnect
    <3> QED  BY <3>1, <3>2, QueueTyped
  <2>2. state_' \in [Conns -> {"kConnecting", "kConnected", "kDisconnecting", "kDisconnected"}]
    BY <1>7 DEF Disconnect
  <2> QED  BY <1>7, <2>1, <2>2 DEF Disconnect, MainRest
<1>8. CASE ReleaseConn /\ MainRest  BY <1>8 DEF ReleaseConn, MainRest
<1>9. CASE DestroyClient /\ MainRest  BY <1>9 DEF DestroyClient, MainRest
<1>10. CASE SetClose /\ MainRest
  <2>1. Functor("setClose", NoConn, 0) \in Functs  OBVIOUS
  <2>2. queue' \in Seq(Functs)  BY <1>10, <2>1 DEF SetClose
  <2> QED  BY <1>10, <2>2 DEF SetClose, MainRest
<1>11. CASE ForceClose /\ MainRest
  <2>1. Functor("forceClose", held, 0) \in Functs  OBVIOUS
  <2>2. queue' \in Seq(Functs)  BY <1>11, <2>1 DEF ForceClose
  <2> QED  BY <1>11, <2>2 DEF ForceClose, MainRest
<1>12. CASE StopConnector /\ MainRest
  <2>1. queue' \in Seq(Functs)  BY <1>12 DEF StopConnector
  <2> QED  BY <1>12, <2>1 DEF StopConnector, MainRest
<1>13. CASE Join /\ MainRest  BY <1>13 DEF Join, MainRest
<1>14. CASE Quit  BY <1>14 DEF Quit
<1> QED
  BY <1>1, <1>2, <1>3, <1>4, <1>5, <1>6, <1>7, <1>8, <1>9, <1>10, <1>11, <1>12, <1>13, <1>14
  DEF MainMoves, MainRest

LEMMA TypedStations == IInv /\ Stations /\
    UNCHANGED <<mainVars, sharedVars, handlerVars, connVars, netVars, crashed>> => Typed'
<1> SUFFICES ASSUME Typed, Stations,
      UNCHANGED <<mainVars, sharedVars, handlerVars, connVars, netVars, crashed>>
    PROVE Typed'  BY DEF IInv
<1>1. queue' \in Seq(Functs) /\ batch' \in Seq(Functs)
  <2>1. <<>> \in Seq(Functs)  OBVIOUS
  <2> QED  BY <2>1 DEF Stations, Typed
<1>2. /\ loop' \in {"ready", "testing", "events", "functors", "exited"} /\ quit' \in BOOLEAN
      /\ kept' \subseteq Conns /\ active' \subseteq Conns
  BY DEF Stations, Turn, Ready, Typed, TypeOK
<1> QED
  BY <1>1, <1>2 DEF Typed, TypeOK, mainVars, sharedVars, handlerVars, attemptVars, connVars, netVars

LEMMA TypedHandlers == IInv /\ Handlers /\ BatchRest => Typed'
<1> SUFFICES ASSUME Typed, Handlers, BatchRest PROVE Typed'  BY DEF IInv
<1> USE ConnsFacts DEF BatchRest, LoopRest, Typed, TypeOK, sharedVars, attemptVars, connVars, netVars,
     Enters, Then, Uses
<1>1. CASE NewConnection
  <2>1. conns' \in Conns /\ surplus' \in 0..MaxSurplus /\ trying' \in BOOLEAN
    <3>1. surplus' = surplus \/ (surplus < MaxSurplus /\ surplus' = surplus + 1)
      BY <1>1 DEF NewConnection
    <3>2. surplus \in 0..MaxSurplus /\ MaxSurplus \in Nat /\ trying \in BOOLEAN  OBVIOUS
    <3>3. surplus' \in 0..MaxSurplus  BY ONLY <3>1, <3>2
    <3> QED  BY <1>1, <3>2, <3>3 DEF NewConnection
  <2>2. {held', connection_', conn_', cur'} \subseteq Conns \union {NoConn}
    BY <1>1, <2>1 DEF NewConnection
  <2> QED  BY <1>1, <2>1, <2>2 DEF NewConnection
<1>2. CASE ConnectEstablished
  <2>1. /\ state_' \in [Conns -> {"kConnecting", "kConnected", "kDisconnecting", "kDisconnected"}]
        /\ net' \in [Conns -> {"none", "up", "half", "closed"}]
    BY <1>2 DEF ConnectEstablished
  <2> QED  BY <1>2, <2>1 DEF ConnectEstablished
<1>3. CASE ReportUp  BY <1>3 DEF ReportUp
<1>4. CASE Release
  <2>1. latch_' \in Nat  BY <1>4 DEF Release
  <2> QED  BY <1>4, <2>1 DEF Release
<1>5. CASE OnMessage
  <2>1. PICK c \in active : /\ get_' = get_ \o in[c] /\ in' = [in EXCEPT ![c] = <<>>]
                            /\ active' = active \ {c} /\ handler' = "compare" /\ cur' = c
    BY <1>5 DEF OnMessage
  <2>2. <<>> \in Seq(1..Messages) /\ in[c] \in Seq(1..Messages) /\ c \in Conns  OBVIOUS
  <2>3. get_ \o in[c] \in Seq(1..Messages)  BY <2>2
  <2>4. in' \in [Conns \union {NoConn} -> Seq(1..Messages)]  BY <2>1, <2>2
  <2>5. active' \subseteq Conns /\ cur' \in Conns /\ crashed' \in BOOLEAN  BY <1>5, <2>1, <2>2 DEF OnMessage
  <2>6. UNCHANGED <<main, latch_, connection_, conn_, queue, connVars, net, out, losses>>
    BY <1>5 DEF OnMessage
  <2>7. /\ {held', connection_', conn_', cur'} \subseteq Conns \union {NoConn}
        /\ {connect_', quit', trying', timer', crashed'} \subseteq BOOLEAN
        /\ kept' \subseteq Conns
    BY <2>5, <2>6
  <2>8. handler' = "compare"  BY <2>1
  <2> QED  BY <2>1, <2>3, <2>4, <2>5, <2>6, <2>7, <2>8
<1>6. CASE Notify  BY <1>6 DEF Notify
<1>7. CASE HandleClose
  <2>1. state_' \in [Conns -> {"kConnecting", "kConnected", "kDisconnecting", "kDisconnected"}]
    BY <1>7 DEF HandleClose, Closes
  <2>2. active' \subseteq Conns /\ cur' \in Conns /\ handler' = "down"  BY <1>7 DEF HandleClose, Closes
  <2>3. UNCHANGED <<main, sharedVars, queue, attemptVars, closeCb, netVars, crashed>>
    BY <1>7 DEF HandleClose
  <2> QED  BY <2>1, <2>2, <2>3
<1>8. CASE ReportDown  BY <1>8 DEF ReportDown
<1>9. CASE RemoveConnection
  <2>1. Functor("connectDestroyed", cur, 0) \in Functs  BY DEF Functor, Functs
  <2>2. queue' \in Seq(Functs)  BY <1>9, <2>1 DEF RemoveConnection, Queued
  <2> QED  BY <1>9, <2>2 DEF RemoveConnection
<1>10. CASE Restart  BY <1>10 DEF Restart
<1>11. CASE CloseDirectly
  <2>1. Functor("connectDestroyed", cur, 0) \in Functs  BY DEF Functor, Functs
  <2>2. queue' \in Seq(Functs)  BY <1>11, <2>1 DEF CloseDirectly, Queued
  <2> QED  BY <1>11, <2>2 DEF CloseDirectly
<1>12. CASE AttemptRefused
  <2>1. timer' = TRUE /\ UNCHANGED <<main, sharedVars, handlerVars, queue, active, trying, conns,
                                    surplus, state_, closeCb, netVars, crashed>>
    BY <1>12 DEF AttemptRefused
  <2>2. /\ {held', connection_', conn_', cur'} \subseteq Conns \union {NoConn}
        /\ {connect_', quit', trying', timer', crashed'} \subseteq BOOLEAN
        /\ kept' \subseteq Conns /\ active' \subseteq Conns
    BY <2>1 DEF handlerVars
  <2>3. conns' \in Conns \union {NoConn} /\ surplus' \in 0..MaxSurplus  BY <2>1
  <2>4. queue' \in Seq(Functs) /\ batch' \in Seq(Functs)  BY <2>1
  <2>5. /\ all' \in 0..Messages /\ losses' \in 0..MaxLosses /\ latch_' \in Nat
        /\ get_' \in Seq(1..Messages) /\ net' = net /\ in' = in /\ out' = out
        /\ state_' = state_ /\ closeCb' = closeCb
    BY <2>1
  <2>6. UNCHANGED <<main, loop, handler, cur>>  BY <2>1 DEF handlerVars
  <2>7. TypeOK'  BY <2>2, <2>3, <2>5, <2>6
  <2> QED  BY <2>4, <2>7
<1>13. CASE DispatchFreed
  <2>1. active' \subseteq Conns /\ crashed' \in BOOLEAN
    BY <1>13 DEF DispatchFreed
  <2>2. UNCHANGED <<main, sharedVars, handlerVars, queue, connVars, netVars>>
    BY <1>13 DEF DispatchFreed
  <2>3. /\ {held', connection_', conn_', cur'} \subseteq Conns \union {NoConn}
        /\ {connect_', quit', trying', timer', crashed'} \subseteq BOOLEAN
        /\ kept' \subseteq Conns
    BY <2>1, <2>2 DEF handlerVars
  <2>4. /\ main' = main /\ loop' = loop /\ handler' = handler /\ cur' = cur /\ get_' = get_
        /\ state_' = state_ /\ closeCb' = closeCb /\ net' = net /\ in' = in /\ out' = out
        /\ queue' \in Seq(Functs) /\ batch' \in Seq(Functs)
        /\ all' \in 0..Messages /\ conns' \in Conns \union {NoConn} /\ latch_' \in Nat
        /\ losses' \in 0..MaxLosses /\ surplus' \in 0..MaxSurplus
    BY <2>2 DEF handlerVars
  <2> QED  BY <2>1, <2>3, <2>4
<1> QED
  BY <1>1, <1>2, <1>3, <1>4, <1>5, <1>6, <1>7, <1>8, <1>9, <1>10, <1>11, <1>12, <1>13
  DEF Handlers

LEMMA TypedNet == IInv /\ NetStep => Typed'
<1> SUFFICES ASSUME Typed, NetStep PROVE Typed'  BY DEF IInv
<1> USE ConnsFacts DEF NetStep, Typed, TypeOK, mainVars, sharedVars, loopVars, handlerVars, attemptVars, connVars
<1>1. CASE Echo
  <2>1. PICK c \in Conns : /\ out[c] # <<>> /\ in' = [in EXCEPT ![c] = Append(@, Head(out[c]))]
                           /\ out' = [out EXCEPT ![c] = Tail(@)]
    BY <1>1 DEF Echo
  <2>2. in[c] \in Seq(1..Messages) /\ out[c] \in Seq(1..Messages)  OBVIOUS
  <2>3. Head(out[c]) \in 1..Messages /\ Tail(out[c]) \in Seq(1..Messages)  BY <2>1, <2>2, HeadIs
  <2>4. Append(in[c], Head(out[c])) \in Seq(1..Messages)  BY <2>2, <2>3
  <2>5. in' \in [Conns \union {NoConn} -> Seq(1..Messages)]  BY <2>1, <2>4
  <2>6. out' \in [Conns \union {NoConn} -> Seq(1..Messages)]  BY <2>1, <2>3
  <2>7. UNCHANGED <<mainVars, sharedVars, loopVars, handlerVars, attemptVars, connVars, queue, crashed,
                    net, losses>>
    BY <1>1 DEF Echo
  <2>8. /\ {held', connection_', conn_', cur'} \subseteq Conns \union {NoConn}
        /\ {connect_', quit', trying', timer', crashed'} \subseteq BOOLEAN
        /\ kept' \subseteq Conns /\ active' \subseteq Conns
    BY <2>7
  <2>9. /\ main' = main /\ loop' = loop /\ handler' = handler /\ cur' = cur /\ get_' = get_
        /\ state_' = state_ /\ closeCb' = closeCb /\ net' = net
        /\ queue' \in Seq(Functs) /\ batch' \in Seq(Functs)
        /\ all' \in 0..Messages /\ conns' \in Conns \union {NoConn} /\ latch_' \in Nat
        /\ losses' \in 0..MaxLosses /\ surplus' \in 0..MaxSurplus
    BY <2>7
  <2> QED  BY <2>5, <2>6, <2>8, <2>9
<1>2. CASE ServerCloses
  <2>1. net' \in [Conns -> {"none", "up", "half", "closed"}]  BY <1>2 DEF ServerCloses
  <2>2. UNCHANGED <<mainVars, sharedVars, loopVars, handlerVars, connVars, queue, crashed, out, in,
                    losses>>
    BY <1>2 DEF ServerCloses
  <2>3. /\ {held', connection_', conn_', cur'} \subseteq Conns \union {NoConn}
        /\ {connect_', quit', trying', timer', crashed'} \subseteq BOOLEAN
        /\ kept' \subseteq Conns /\ active' \subseteq Conns
    BY <2>2
  <2> QED  BY <2>1, <2>2, <2>3
<1>3. CASE Lose
  <2>1. PICK c \in Conns : /\ net' = [net EXCEPT ![c] = "closed"]
                           /\ out' = [out EXCEPT ![c] = <<>>] /\ in' = [in EXCEPT ![c] = <<>>]
    BY <1>3 DEF Lose
  <2>2. net' \in [Conns -> {"none", "up", "half", "closed"}]  BY <2>1
  <2>3. <<>> \in Seq(1..Messages)  OBVIOUS
  <2>4. /\ in' \in [Conns \union {NoConn} -> Seq(1..Messages)]
        /\ out' \in [Conns \union {NoConn} -> Seq(1..Messages)]
    BY <2>1, <2>3
  <2>5. losses' \in 0..MaxLosses
    <3>1. losses \in 0..MaxLosses /\ MaxLosses \in Nat  OBVIOUS
    <3> QED  BY <1>3, <3>1 DEF Lose
  <2>6. UNCHANGED <<mainVars, sharedVars, loopVars, handlerVars, connVars, queue, crashed>>  OBVIOUS
  <2>7. /\ {held', connection_', conn_', cur'} \subseteq Conns \union {NoConn}
        /\ {connect_', quit', trying', timer', crashed'} \subseteq BOOLEAN
        /\ kept' \subseteq Conns /\ active' \subseteq Conns
    BY <2>6
  <2> QED  BY <2>2, <2>4, <2>5, <2>6, <2>7
<1> QED  BY <1>1, <1>2, <1>3

(* The functor that runs is the first one of Work.                          *)
LEMMA Taken ==
  ASSUME Typed, Functors
  PROVE  /\ Work \in Seq(Functs) /\ Work # <<>> /\ 1 \in DOMAIN Work
         /\ Head(batch) = Work[1] /\ Work[1] \in Functs
         /\ queue' = queue => Work' = Tail(Work)
         /\ \A g \in Functs : queue' = Append(queue, g) => Work' = Append(Tail(Work), g)
<1>1. batch # <<>> /\ batch' = Tail(batch) /\ batch \in Seq(Functs) /\ queue \in Seq(Functs)
  BY DEF Functors, Typed
<1>2. PICK q : q = batch \o queue  OBVIOUS
<1>3. /\ q \in Seq(Functs) /\ q # <<>> /\ Head(batch) = Head(q)
      /\ Tail(batch) \o queue = Tail(q)
  BY <1>1, <1>2, ConcatTail
<1>4. 1 \in DOMAIN q /\ Head(q) = q[1] /\ q[1] \in Functs  BY <1>3
<1>5. queue' = queue => Work' = Tail(q)  BY <1>1, <1>3 DEF Work
<1>6. ASSUME NEW g \in Functs, queue' = Append(queue, g)
      PROVE  Work' = Append(Tail(q), g)
  <2>1. Work' = Tail(batch) \o Append(queue, g)  BY <1>1, <1>6 DEF Work
  <2>2. Tail(batch) \in Seq(Functs)  BY <1>1
  <2>3. Tail(batch) \o Append(queue, g) = Append(Tail(batch) \o queue, g)
    BY <1>1, <2>2, ConcatAppend
  <2> QED  BY <1>3, <2>1, <2>3
<1>7. Work = q  BY <1>2 DEF Work
<1> QED  BY <1>3, <1>4, <1>5, <1>6, <1>7

LEMMA TypedFunctors == IInv /\ Functors /\ LoopRest => Typed'
<1> SUFFICES ASSUME Typed, SendOK, CloseOK, Functors, LoopRest PROVE Typed'  BY DEF IInv
<1> USE ConnsFacts DEF LoopRest
<1>1. PICK f : f = Head(batch)  OBVIOUS
<1>2. batch # <<>> /\ f \in Functs /\ batch' = Tail(batch) /\ batch' \in Seq(Functs)
  BY <1>1 DEF Functors, Typed
<1>3. queue' \in Seq(Functs)
  <2>1. queue' = Append(queue, Functor("forceCloseInLoop", f.c, 0)) \/ queue' = queue
    BY <1>1 DEF Functors, Queued
  <2>2. Functor("forceCloseInLoop", f.c, 0) \in Functs  BY <1>2 DEF Functor, Functs
  <2> QED  BY <2>1, <2>2, QueueTyped DEF Typed
<1>4. state_' \in [Conns -> {"kConnecting", "kConnected", "kDisconnecting", "kDisconnected"}]
  <2>1. \/ state_' = state_ \/ state_' = [state_ EXCEPT ![f.c] = "kDisconnecting"]
        \/ state_' = [state_ EXCEPT ![f.c] = "kDisconnected"]
    BY <1>1 DEF Functors, Closes
  <2> QED  BY <2>1 DEF Typed, TypeOK
<1>5. closeCb' \in [Conns -> {"remove", "direct"}] /\ net' \in [Conns -> {"none", "up", "half", "closed"}]
  BY DEF Functors, Typed, TypeOK
<1>6. out' \in [Conns \union {NoConn} -> Seq(1..Messages)]
  <2>1. (out' = [out EXCEPT ![f.c] = Append(@, f.m)] /\ f.f = "send") \/ out' = out
    BY <1>1 DEF Functors
  <2>2. f.f = "send" => f.m \in 1..Messages
    <3>1. f.f = "send" => f.m \in 1..Written  BY <1>1, Taken DEF SendOK
    <3>2. Written \in Int /\ Written <= Messages  BY DEF Written, Typed, TypeOK
    <3> QED  BY <3>1, <3>2
  <2>3. f.c \in Conns \union {NoConn} /\ out[f.c] \in Seq(1..Messages)
        /\ out \in [Conns \union {NoConn} -> Seq(1..Messages)]
    BY <1>2 DEF Functs, Typed, TypeOK
  <2>4. f.f = "send" => Append(out[f.c], f.m) \in Seq(1..Messages)  BY <2>2, <2>3
  <2> QED  BY <2>1, <2>3, <2>4
<1>7. /\ handler' \in {"none", "down"} /\ cur' \in Conns \union {NoConn}
      /\ handler' # "none" => cur' \in Conns
  <2>1. f.f = "forceCloseInLoop" => f.c \in Conns  BY <1>1, Taken DEF CloseOK
  <2>2. \/ handler' = handler /\ cur' = cur /\ handler = "none"
        \/ f.f = "forceCloseInLoop" /\ handler' = "down" /\ cur' = f.c
    BY <1>1 DEF Functors, handlerVars, Closes, Enters
  <2> QED  BY <2>1, <2>2 DEF Typed, TypeOK
<1>8. trying' \in BOOLEAN /\ crashed' \in BOOLEAN /\ kept' \subseteq Conns
  BY DEF Functors, Uses, Typed, TypeOK
<1>9. UNCHANGED <<main, held, all, connect_, sharedVars, loop, quit, active, timer, conns,
                  surplus, in, losses>>
  BY DEF Functors
<1> QED
  <2>1. {held', connection_', conn_', cur'} \subseteq Conns \union {NoConn}
    BY <1>7, <1>9 DEF Typed, TypeOK, sharedVars
  <2>2. {connect_', quit', trying', timer', crashed'} \subseteq BOOLEAN /\ kept' \subseteq Conns
        /\ active' \subseteq Conns /\ surplus' \in 0..MaxSurplus
    BY <1>8, <1>9 DEF Typed, TypeOK
  <2>3. /\ get_' \in Seq(1..Messages)
        /\ in' \in [Conns \union {NoConn} -> Seq(1..Messages)]
        /\ out' \in [Conns \union {NoConn} -> Seq(1..Messages)]
    BY <1>6, <1>9 DEF Typed, TypeOK, sharedVars
  <2> QED
    BY <1>2, <1>3, <1>4, <1>5, <1>7, <1>9, <2>1, <2>2, <2>3 DEF Typed, TypeOK, sharedVars

(* Without a surplus connection, a new one follows an attempt.               *)
LEMMA PlainFacts == IInv /\ [Plain]_vars =>
  surplus = 0 /\ surplus' = 0 /\ (NewConnection => trying /\ ~trying')
<1> SUFFICES ASSUME ConnOK, [Plain]_vars
    PROVE  surplus = 0 /\ surplus' = 0 /\ (NewConnection => trying /\ ~trying')
  BY DEF IInv
<1>1. surplus = 0 /\ surplus' = 0
  BY DEF ConnOK, Plain, vars, connVars, attemptVars
<1>2. NewConnection => trying /\ ~trying'  BY <1>1 DEF NewConnection
<1> QED  BY <1>1, <1>2

LEMMA TypedNext == IInv /\ [Plain]_vars => Typed'
<1> SUFFICES ASSUME IInv, [Plain]_vars PROVE Typed'  OBVIOUS
<1>1. CASE UNCHANGED vars
  BY <1>1 DEF IInv, Typed, TypeOK, vars, mainVars, sharedVars, loopVars, handlerVars, attemptVars, connVars, netVars
<1>2. CASE WakesSpuriously /\ UNCHANGED <<loopVars, handlerVars, netVars, crashed>>
  BY <1>2 DEF WakesSpuriously, Goes, IInv, Typed, TypeOK, sharedVars, loopVars, handlerVars,
     attemptVars, connVars, netVars
<1> QED
  BY <1>1, <1>2, TypedMain, TypedStations, TypedHandlers, TypedFunctors, TypedNet
  DEF Plain, Next, LoopStep, LoopRest, BatchRest
-----------------------------------------------------------------------------
(***************************************************************************)
(* What holds of main(), of the connections and of the latch.              *)
(***************************************************************************)
LEMMA MainOKNext == IInv /\ [Plain]_vars /\ Typed' => MainOK'
<1> SUFFICES ASSUME IInv, Typed, Typed', MainOK, ConnOK, StartOK, [Plain]_vars PROVE MainOK'  BY DEF IInv
<1>1. CASE UNCHANGED vars
  BY <1>1 DEF MainOK, Work, vars, mainVars, sharedVars, loopVars, handlerVars, attemptVars, connVars, netVars
<1>2. CASE WakesSpuriously /\ UNCHANGED <<loopVars, handlerVars, netVars, crashed>>
  BY <1>2 DEF WakesSpuriously, Goes, MainOK, Before, sharedVars, loopVars, handlerVars,
     attemptVars, connVars, netVars
<1>3. CASE MainStep
  <2>0. all \in Nat /\ Messages \in Nat /\ held \in Conns \union {NoConn}
        /\ connection_ \in Conns \union {NoConn}
    BY ConnsFacts DEF Typed, TypeOK
  <2> USE <2>0 DEF MainRest, Goes, MainOK, Before, handlerVars
  <2>1. CASE Connect /\ MainRest  BY <2>1 DEF Connect
  <2>2. CASE Already /\ MainRest  BY <2>2 DEF Already
  <2>3. CASE AppendAll /\ MainRest  BY <2>3 DEF AppendAll
  <2>4. CASE Write /\ MainRest  BY <2>4 DEF Write
  <2>5. CASE Wait /\ MainRest  BY <2>5 DEF Wait
  <2>6. CASE DisconnectStores /\ MainRest  BY <2>6 DEF DisconnectStores
  <2>7. CASE Disconnect /\ MainRest  BY <2>7 DEF Disconnect
  <2>8. CASE ReleaseConn /\ MainRest  BY <2>8 DEF ReleaseConn
  <2>9. CASE DestroyClient /\ MainRest  BY <2>9 DEF DestroyClient
  <2>10. CASE SetClose /\ MainRest  BY <2>10 DEF SetClose
  <2>11. CASE ForceClose /\ MainRest  BY <2>11 DEF ForceClose
  <2>12. CASE StopConnector /\ MainRest  BY <2>12 DEF StopConnector
  <2>13. CASE Join /\ MainRest  BY <2>13 DEF Join
  <2>14. CASE Quit  BY <1>3, <2>14 DEF MainStep, Quit
  <2> QED  BY <1>3, <2>1, <2>2, <2>3, <2>4, <2>5, <2>6, <2>7, <2>8, <2>9, <2>10, <2>11, <2>12,
         <2>13, <2>14 DEF MainStep, MainMoves
<1>4. CASE /\ Stations
           /\ UNCHANGED <<mainVars, sharedVars, handlerVars, connVars, netVars, crashed>>
  <2>1. main = "start" => Work' = <<>>  
    BY <1>4 DEF Stations, Work, MainOK, Typed, mainVars
  <2> QED
    BY <1>4, <2>1 DEF Stations, Turn, MainOK, mainVars, sharedVars, handlerVars, attemptVars, connVars
<1>5. CASE Handlers /\ BatchRest
  <2> USE <1>5, ConnsFacts DEF BatchRest, LoopRest, Then, Enters, Closes, MainOK, ConnOK, sharedVars,
      attemptVars, connVars, netVars, Typed, TypeOK, Before
  <2>1. CASE NewConnection  BY <2>1, PlainFacts DEF NewConnection, Work
  <2>2. CASE ConnectEstablished  BY <2>2 DEF ConnectEstablished
  <2>3. CASE ReportUp  BY <2>3 DEF ReportUp
  <2>4. CASE Release  BY <2>4 DEF Release
  <2>5. CASE OnMessage  BY <2>5 DEF OnMessage, Work
  <2>6. CASE Notify  BY <2>6 DEF Notify
  <2>7. CASE HandleClose  BY <2>7 DEF HandleClose, Work
  <2>8. CASE ReportDown  BY <2>8 DEF ReportDown
  <2>9. CASE RemoveConnection  BY <2>9 DEF RemoveConnection
  <2>10. CASE Restart  BY <2>10 DEF Restart
  <2>11. CASE CloseDirectly  BY <2>11 DEF CloseDirectly
  <2>12. CASE AttemptRefused  BY <2>12 DEF AttemptRefused, handlerVars, Work
  <2>13. CASE DispatchFreed  BY <2>13 DEF DispatchFreed, handlerVars, Work
  <2> QED  BY <2>1, <2>2, <2>3, <2>4, <2>5, <2>6, <2>7, <2>8, <2>9, <2>10, <2>11, <2>12, <2>13 DEF Handlers
<1>6. CASE Functors /\ LoopRest
  <2>1. main # "start"  BY <1>6, Taken DEF MainOK
  <2>2. loop = "functors" /\ main' = main /\ conns' = conns /\ loop' = loop /\ connect_' = connect_
        /\ quit' = quit /\ all' = all /\ held' = held
    BY <1>6 DEF Functors, LoopRest
  <2>3. loop = "functors" /\ active' = active /\ batch' = Tail(batch)
        /\ handler' \in {handler, "down"}
    BY <1>6 DEF Functors, handlerVars, Closes, Enters
  <2> QED  BY <2>1, <2>2, <2>3 DEF MainOK
<1>7. CASE NetStep
  BY <1>7 DEF NetStep, MainOK, Work, mainVars, sharedVars, loopVars, handlerVars, attemptVars, connVars
<1> QED  BY <1>1, <1>2, <1>3, <1>4, <1>5, <1>6, <1>7 DEF Plain, Next, LoopStep, LoopRest, BatchRest

LEMMA ConnOKNext == IInv /\ [Plain]_vars /\ Typed' => ConnOK'
<1> SUFFICES ASSUME IInv, Typed, Typed', MainOK, ConnOK, [Plain]_vars PROVE ConnOK'  BY DEF IInv
<1>0. /\ conns \in Nat /\ losses \in Nat /\ NoConn = 0 /\ connection_ \in Conns \union {NoConn}
      /\ conns > 0 => conns \in Conns
      /\ handler # "none" => conns \in Conns
      /\ state_ \in [Conns -> {"kConnecting", "kConnected", "kDisconnecting", "kDisconnected"}]
      /\ net \in [Conns -> {"none", "up", "half", "closed"}]
      /\ \A c \in Conns : c \in Nat /\ c > 0
  <2>1. conns \in Nat /\ losses \in Nat  BY ConnsTyped
  <2>2. conns > 0 => conns \in Conns  BY ConnsTyped
  <2>3. handler # "none" => conns \in Conns  BY DEF Typed, TypeOK, ConnOK
  <2>4. \A c \in Conns : c \in Nat /\ c > 0  BY ConnsFacts
  <2> QED  BY <2>1, <2>2, <2>3, <2>4 DEF Typed, TypeOK, NoConn
<1> USE DEF ConnOK, Closing
<1>1. CASE UNCHANGED vars
  BY <1>1 DEF vars, mainVars, sharedVars, loopVars, handlerVars, attemptVars, connVars, netVars
<1>2. CASE WakesSpuriously /\ UNCHANGED <<loopVars, handlerVars, netVars, crashed>>
  BY <1>2 DEF WakesSpuriously, Goes, sharedVars, loopVars, handlerVars, attemptVars, connVars, netVars
<1>3. CASE MainStep
  <2> USE <1>0 DEF MainRest, Goes, MainOK, Before, handlerVars, attemptVars, connVars, sharedVars, netVars
  <2>1. CASE Connect /\ MainRest  BY <2>1 DEF Connect
  <2>2. CASE Already /\ MainRest  BY <2>2 DEF Already
  <2>3. CASE AppendAll /\ MainRest  BY <2>3 DEF AppendAll
  <2>4. CASE Write /\ MainRest  BY <2>4 DEF Write
  <2>5. CASE Wait /\ MainRest  BY <2>5 DEF Wait
  <2>6. CASE DisconnectStores /\ MainRest  BY <2>6 DEF DisconnectStores
  <2>7. CASE Disconnect /\ MainRest  BY <2>7 DEF Disconnect
  <2>8. CASE ReleaseConn /\ MainRest  BY <2>8 DEF ReleaseConn
  <2>9. CASE DestroyClient /\ MainRest  BY <2>9 DEF DestroyClient
  <2>10. CASE SetClose /\ MainRest  BY <2>10 DEF SetClose
  <2>11. CASE ForceClose /\ MainRest  BY <2>11 DEF ForceClose
  <2>12. CASE StopConnector /\ MainRest  BY <2>12 DEF StopConnector
  <2>13. CASE Join /\ MainRest  BY <2>13 DEF Join
  <2>14. CASE Quit  BY <1>3, <2>14 DEF MainStep, Quit
  <2> QED  BY <1>3, <2>1, <2>2, <2>3, <2>4, <2>5, <2>6, <2>7, <2>8, <2>9, <2>10, <2>11, <2>12,
         <2>13, <2>14 DEF MainStep, MainMoves
<1>4. CASE /\ Stations
           /\ UNCHANGED <<mainVars, sharedVars, handlerVars, connVars, netVars, crashed>>
  BY <1>4 DEF mainVars, sharedVars, handlerVars, attemptVars, connVars, netVars
<1>5. CASE Handlers /\ BatchRest
  <2> USE <1>0, <1>5 DEF BatchRest, LoopRest, Then, Enters, Closes, MainOK, sharedVars,
      attemptVars, connVars, netVars
  <2>1. CASE NewConnection  BY <2>1, PlainFacts DEF NewConnection
  <2>2. CASE ConnectEstablished  BY <2>2 DEF ConnectEstablished
  <2>3. CASE ReportUp  BY <2>3 DEF ReportUp
  <2>4. CASE Release  BY <2>4 DEF Release
  <2>5. CASE OnMessage
    <3>1. PICK c \in active : in[c] # <<>> /\ handler' = "compare" /\ cur' = c
      BY <2>5 DEF OnMessage
    <3>2. c = conns
      <4>1. c \in Conns  BY DEF Typed, TypeOK
      <4>2. StreamOK  BY DEF IInv
      <4> QED  BY <3>1, <4>1, <4>2, LastStream
    <3>3. UNCHANGED <<connection_, connVars, net, losses, connect_>>  BY <2>5 DEF OnMessage
    <3> QED  BY <3>1, <3>2, <3>3
  <2>6. CASE Notify  BY <2>6 DEF Notify
  <2>7. CASE HandleClose
    <3>1. PICK c \in Conns : /\ net[c] = "closed" /\ state_[c] \in {"kConnected", "kDisconnecting"}
                            /\ handler' = "down" /\ cur' = c
                            /\ state_' = [state_ EXCEPT ![c] = "kDisconnected"]
      BY <2>7 DEF HandleClose, Typed, TypeOK
    <3>2. c = conns  BY <3>1
    <3>3. UNCHANGED <<sharedVars, attemptVars, netVars, connect_>>  BY <2>7 DEF HandleClose
    <3> QED  BY <3>1, <3>2, <3>3
  <2>8. CASE ReportDown  BY <2>8 DEF ReportDown
  <2>9. CASE RemoveConnection  BY <2>9 DEF RemoveConnection
  <2>10. CASE Restart  BY <2>10 DEF Restart
  <2>11. CASE CloseDirectly  BY <2>11 DEF CloseDirectly
  <2>12. CASE AttemptRefused  BY <2>12 DEF AttemptRefused, handlerVars
  <2>13. CASE DispatchFreed  BY <2>13 DEF DispatchFreed, handlerVars
  <2> QED  BY <2>1, <2>2, <2>3, <2>4, <2>5, <2>6, <2>7, <2>8, <2>9, <2>10, <2>11, <2>12, <2>13 DEF Handlers
<1>6. CASE Functors /\ LoopRest
  <2>1. PICK f : f = Work[1]  OBVIOUS
  <2>2. f = Head(batch) /\ f \in Functs /\ 1 \in DOMAIN Work  BY <1>6, <2>1, Taken DEF IInv
  <2>3. UNCHANGED <<conns, connection_, losses, surplus, connect_>>
    BY <1>6 DEF Functors, LoopRest, sharedVars
  <2> USE <1>0, <2>3
  <2>4. CASE f.f \in {"start", "stop"}
    <3>1. f.f = "start" => conns = 0  BY <2>1, <2>2 DEF StartOK, IInv
    <3>2. /\ trying' = (f.f = "start")
          /\ UNCHANGED <<handler, cur, state_, net>>
      BY <1>6, <2>2, <2>4 DEF Functors, handlerVars
    <3>3. trying' => conns = 0  BY <3>1, <3>2
    <3> QED  BY <3>2, <3>3
  <2>5. CASE f.f \in {"send", "setClose", "connectDestroyed"}
    BY <1>6, <2>2, <2>5 DEF Functors, handlerVars
  <2>6. CASE f.f = "shutdown"
    <3>1. ~connect_ /\ ~trying  BY <2>1, <2>2, <2>6 DEF ShutdownOK, IInv
    <3> QED  BY <1>6, <2>2, <2>6, <3>1 DEF Functors, handlerVars
  <2>7. CASE f.f \in {"forceClose", "forceCloseInLoop"}
    <3>1. ~connect_ /\ f.c \in Conns
      BY <2>1, <2>2, <2>7 DEF CloseOK, IInv, MainOK, Before
    <3>2. \/ UNCHANGED <<state_, handler, cur>>
          \/ /\ state_[f.c] = "kConnected" /\ UNCHANGED <<handler, cur>>
             /\ state_' = [state_ EXCEPT ![f.c] = "kDisconnecting"]
          \/ /\ state_[f.c] \in {"kConnected", "kDisconnecting"}
             /\ handler' = "down" /\ cur' = f.c
             /\ state_' = [state_ EXCEPT ![f.c] = "kDisconnected"]
      BY <1>6, <2>2, <2>7 DEF Functors, handlerVars, Closes, Enters
    <3>3. UNCHANGED <<net, trying>> /\ handler = "none"  BY <1>6, <2>2, <2>7 DEF Functors
    <3>4. state_[f.c] \in {"kConnected", "kDisconnecting"} => f.c = conns
      BY <3>1, LastConn DEF InUse
    <3> QED  BY <3>1, <3>2, <3>3, <3>4
  <2> QED  BY <2>2, <2>4, <2>5, <2>6, <2>7 DEF Functs
<1>7. CASE NetStep
  <2> USE <1>0, <1>7 DEF NetStep, mainVars, sharedVars, handlerVars, attemptVars, connVars
  <2>1. CASE Echo  BY <2>1 DEF Echo
  <2>2. CASE ServerCloses  BY <2>2 DEF ServerCloses
  <2>3. CASE Lose  BY <2>3 DEF Lose
  <2> QED  BY <2>1, <2>2, <2>3
<1> QED  BY <1>1, <1>2, <1>3, <1>4, <1>5, <1>6, <1>7 DEF Plain, Next, LoopStep, LoopRest, BatchRest

(* Only the last connection carries something.                              *)
LEMMA StreamOKNext == IInv /\ [Plain]_vars /\ Typed' => StreamOK'
<1> SUFFICES ASSUME IInv, Typed, MainOK, ConnOK, StreamOK, [Plain]_vars PROVE StreamOK'  BY DEF IInv
<1>0. /\ conns \in Nat /\ NoConn = 0 /\ NoConn \notin Conns
      /\ conns > 0 => conns \in Conns
      /\ handler # "none" => conns \in Conns
      /\ \A c \in Conns : c \in Nat /\ c > 0
      /\ net \in [Conns -> {"none", "up", "half", "closed"}]
      /\ in \in [Conns \union {NoConn} -> Seq(1..Messages)]
      /\ out \in [Conns \union {NoConn} -> Seq(1..Messages)]
  <2>1. conns \in Nat /\ (conns > 0 => conns \in Conns)  BY ConnsTyped
  <2>2. handler # "none" => conns \in Conns  BY DEF Typed, TypeOK, ConnOK
  <2>3. NoConn = 0 /\ NoConn \notin Conns /\ \A c \in Conns : c \in Nat /\ c > 0  BY ConnsFacts
  <2> QED  BY <2>1, <2>2, <2>3 DEF Typed, TypeOK
<1> USE <1>0 DEF StreamOK, Closing
<1>1. CASE UNCHANGED vars
  BY <1>1 DEF vars, mainVars, sharedVars, loopVars, handlerVars, attemptVars, connVars, netVars
<1>2. CASE WakesSpuriously /\ UNCHANGED <<loopVars, handlerVars, netVars, crashed>>
  BY <1>2 DEF WakesSpuriously, Goes, sharedVars, loopVars, handlerVars, attemptVars, connVars, netVars
<1>3. CASE MainStep
  <2> USE DEF MainRest, Goes, MainOK, handlerVars, attemptVars, connVars, sharedVars, netVars
  <2>1. CASE Connect /\ MainRest  BY <2>1 DEF Connect
  <2>2. CASE Already /\ MainRest  BY <2>2 DEF Already
  <2>3. CASE AppendAll /\ MainRest  BY <2>3 DEF AppendAll
  <2>4. CASE Write /\ MainRest  BY <2>4 DEF Write
  <2>5. CASE Wait /\ MainRest  BY <2>5 DEF Wait
  <2>6. CASE DisconnectStores /\ MainRest  BY <2>6 DEF DisconnectStores
  <2>7. CASE Disconnect /\ MainRest  BY <2>7 DEF Disconnect
  <2>8. CASE ReleaseConn /\ MainRest  BY <2>8 DEF ReleaseConn
  <2>9. CASE DestroyClient /\ MainRest  BY <2>9 DEF DestroyClient
  <2>10. CASE SetClose /\ MainRest  BY <2>10 DEF SetClose
  <2>11. CASE ForceClose /\ MainRest  BY <2>11 DEF ForceClose
  <2>12. CASE StopConnector /\ MainRest  BY <2>12 DEF StopConnector
  <2>13. CASE Join /\ MainRest  BY <2>13 DEF Join
  <2>14. CASE Quit  BY <1>3, <2>14 DEF MainStep, Quit
  <2> QED  BY <1>3, <2>1, <2>2, <2>3, <2>4, <2>5, <2>6, <2>7, <2>8, <2>9, <2>10, <2>11, <2>12,
         <2>13, <2>14 DEF MainStep, MainMoves
<1>4. CASE /\ Stations
           /\ UNCHANGED <<mainVars, sharedVars, handlerVars, connVars, netVars, crashed>>
  BY <1>4 DEF mainVars, sharedVars, handlerVars, attemptVars, connVars, netVars
<1>5. CASE Handlers /\ BatchRest
  <2> USE <1>5 DEF BatchRest, LoopRest, Then, Enters, Closes, sharedVars, attemptVars, connVars, netVars
  <2>1. CASE NewConnection
    <3>1. /\ trying /\ ~trying' /\ conns' = conns + 1 /\ handler' = "establish"
          /\ UNCHANGED <<net, in, out>>
      BY <2>1, PlainFacts DEF NewConnection
    <3>2. conns > 0 => in[conns] = <<>> /\ out[conns] = <<>>
      <4>1. conns > 0 => net[conns] = "closed"  BY <3>1 DEF ConnOK
      <4>2. conns > 0 => in[conns] = <<>>  BY <3>1
      <4>3. conns > 0 => out[conns] = <<>>  BY <4>1
      <4> QED  BY <4>2, <4>3
    <3>3. \A c \in Conns : in[c] = <<>> /\ out[c] = <<>>
      <4> SUFFICES ASSUME NEW c \in Conns PROVE in[c] = <<>> /\ out[c] = <<>>  OBVIOUS
      <4>1. CASE c = conns  BY <3>2, <4>1
      <4>2. CASE c # conns  BY <4>2, LastStream
      <4> QED  BY <4>1, <4>2
    <3> QED  BY <3>1, <3>3
  <2>2. CASE ConnectEstablished  BY <2>2 DEF ConnectEstablished, ConnOK
  <2>3. CASE ReportUp  BY <2>3 DEF ReportUp
  <2>4. CASE Release  BY <2>4 DEF Release
  <2>5. CASE OnMessage
    <3>1. PICK c \in active : in' = [in EXCEPT ![c] = <<>>] /\ handler' = "compare"
      BY <2>5 DEF OnMessage
    <3>2. UNCHANGED <<connVars, net, out, losses, connect_>>  BY <2>5 DEF OnMessage
    <3> QED  BY <3>1, <3>2
  <2>6. CASE Notify  BY <2>6 DEF Notify
  <2>7. CASE HandleClose
    <3>1. PICK c \in Conns : in[c] = <<>> /\ state_[c] \in {"kConnected", "kDisconnecting"}
      BY <2>7 DEF HandleClose, Typed, TypeOK
    <3>2. c = conns  BY <3>1, LastConn DEF InUse
    <3>3. UNCHANGED <<sharedVars, attemptVars, netVars, connect_>>  BY <2>7 DEF HandleClose
    <3> QED  BY <3>1, <3>2, <3>3
  <2>8. CASE ReportDown  BY <2>8 DEF ReportDown
  <2>9. CASE RemoveConnection  BY <2>9 DEF RemoveConnection
  <2>10. CASE Restart  BY <2>10 DEF Restart
  <2>11. CASE CloseDirectly  BY <2>11 DEF CloseDirectly
  <2>12. CASE AttemptRefused  BY <2>12 DEF AttemptRefused, handlerVars
  <2>13. CASE DispatchFreed  BY <2>13 DEF DispatchFreed, handlerVars
  <2> QED  BY <2>1, <2>2, <2>3, <2>4, <2>5, <2>6, <2>7, <2>8, <2>9, <2>10, <2>11, <2>12, <2>13 DEF Handlers
<1>6. CASE Functors /\ LoopRest
  <2>1. PICK f : f = Work[1]  OBVIOUS
  <2>2. f = Head(batch) /\ f \in Functs /\ 1 \in DOMAIN Work  BY <1>6, <2>1, Taken
  <2>3. UNCHANGED <<conns, in, connect_>>  BY <1>6 DEF Functors, LoopRest
  <2> USE <2>3
  <2>4. CASE f.f \in {"start", "stop"}
    <3>1. f.f = "start" => conns = 0  BY <2>1, <2>2 DEF StartOK, IInv
    <3>2. trying' = (f.f = "start") /\ UNCHANGED <<handler, net, out>>
      BY <1>6, <2>2, <2>4 DEF Functors, handlerVars
    <3> QED  BY <3>1, <3>2
  <2>5. CASE f.f = "send"
    <3>1. f.c \in Conns  BY <2>1, <2>2, <2>5 DEF SendOK, IInv
    <3>2. UNCHANGED <<handler, trying, net>>  BY <1>6, <2>2, <2>5 DEF Functors, handlerVars
    <3>3. \/ out' = out
          \/ net[f.c] = "up" /\ out' = [out EXCEPT ![f.c] = Append(@, f.m)]
      BY <1>6, <2>2, <2>5 DEF Functors
    <3>4. net[f.c] = "up" => f.c = conns  BY <3>1, LastConn DEF InUse
    <3> QED  BY <3>1, <3>2, <3>3, <3>4
  <2>6. CASE f.f \in {"setClose", "connectDestroyed"}
    BY <1>6, <2>2, <2>6 DEF Functors, handlerVars
  <2>7. CASE f.f = "shutdown"
    BY <1>6, <2>2, <2>7 DEF Functors, handlerVars
  <2>8. CASE f.f \in {"forceClose", "forceCloseInLoop"}
    <3>1. ~connect_  BY <2>1, <2>2, <2>8 DEF CloseOK, IInv, MainOK, Before
    <3>2. UNCHANGED <<net, out, trying>>  BY <1>6, <2>2, <2>8 DEF Functors
    <3> QED  BY <3>1, <3>2
  <2> QED  BY <2>2, <2>4, <2>5, <2>6, <2>7, <2>8 DEF Functs
<1>7. CASE NetStep
  <2> USE <1>7 DEF NetStep, mainVars, sharedVars, handlerVars, attemptVars, connVars
  <2>1. CASE Echo
    <3>1. PICK c \in Conns : /\ net[c] \in {"up", "half"} /\ out[c] # <<>>
                            /\ in' = [in EXCEPT ![c] = Append(@, Head(out[c]))]
                            /\ out' = [out EXCEPT ![c] = Tail(@)]
      BY <2>1 DEF Echo
    <3>2. c = conns /\ net' = net  BY <2>1, <3>1, LastConn DEF Echo, InUse
    <3>3. UNCHANGED <<conns, trying, connect_, handler>>  OBVIOUS
    <3>4. ~trying /\ ~(connect_ /\ handler \in {"down", "remove", "direct", "restart"})
      BY <3>1, <3>2 DEF ConnOK
    <3> QED  BY <3>1, <3>2, <3>3, <3>4
  <2>2. CASE ServerCloses  BY <2>2 DEF ServerCloses
  <2>3. CASE Lose
    <3>1. PICK c \in Conns : /\ net' = [net EXCEPT ![c] = "closed"]
                            /\ out' = [out EXCEPT ![c] = <<>>] /\ in' = [in EXCEPT ![c] = <<>>]
      BY <2>3 DEF Lose
    <3>2. UNCHANGED <<conns, trying, connect_, handler>>  OBVIOUS
    <3> QED  BY <3>1, <3>2
  <2> QED  BY <2>1, <2>2, <2>3
<1> QED  BY <1>1, <1>2, <1>3, <1>4, <1>5, <1>6, <1>7 DEF Plain, Next, LoopStep, LoopRest, BatchRest

LEMMA LatchOKNext == IInv /\ [Plain]_vars /\ Typed' => LatchOK'
<1> SUFFICES ASSUME Typed, MainOK, ConnOK, LatchOK, [Plain]_vars PROVE LatchOK'  BY DEF IInv
<1>0. latch_ \in Nat /\ conns \in Nat  BY ConnsTyped
<1> USE <1>0 DEF LatchOK
<1>1. CASE UNCHANGED vars
  BY <1>1 DEF vars, mainVars, sharedVars, loopVars, handlerVars, attemptVars, connVars, netVars
<1>2. CASE WakesSpuriously /\ UNCHANGED <<loopVars, handlerVars, netVars, crashed>>
  BY <1>2 DEF WakesSpuriously, Goes, sharedVars, loopVars, handlerVars, attemptVars, connVars, netVars
<1>3. CASE MainStep
  <2> USE DEF MainRest, Goes, MainOK, handlerVars, attemptVars, connVars, sharedVars
  <2>1. CASE Connect /\ MainRest  BY <2>1 DEF Connect
  <2>2. CASE Already /\ MainRest  BY <2>2 DEF Already
  <2>3. CASE AppendAll /\ MainRest  BY <2>3 DEF AppendAll
  <2>4. CASE Write /\ MainRest  BY <2>4 DEF Write
  <2>5. CASE Wait /\ MainRest  BY <2>5 DEF Wait
  <2>6. CASE DisconnectStores /\ MainRest  BY <2>6 DEF DisconnectStores
  <2>7. CASE Disconnect /\ MainRest  BY <2>7 DEF Disconnect
  <2>8. CASE ReleaseConn /\ MainRest  BY <2>8 DEF ReleaseConn
  <2>9. CASE DestroyClient /\ MainRest  BY <2>9 DEF DestroyClient
  <2>10. CASE SetClose /\ MainRest  BY <2>10 DEF SetClose
  <2>11. CASE ForceClose /\ MainRest  BY <2>11 DEF ForceClose
  <2>12. CASE StopConnector /\ MainRest  BY <2>12 DEF StopConnector
  <2>13. CASE Join /\ MainRest  BY <2>13 DEF Join
  <2>14. CASE Quit  BY <1>3, <2>14 DEF MainStep, Quit
  <2> QED  BY <1>3, <2>1, <2>2, <2>3, <2>4, <2>5, <2>6, <2>7, <2>8, <2>9, <2>10, <2>11, <2>12,
         <2>13, <2>14 DEF MainStep, MainMoves
<1>4. CASE /\ Stations
           /\ UNCHANGED <<mainVars, sharedVars, handlerVars, connVars, netVars, crashed>>
  BY <1>4 DEF mainVars, sharedVars, handlerVars, attemptVars, connVars, netVars
<1>5. CASE Handlers /\ BatchRest
  <2> USE <1>5 DEF BatchRest, LoopRest, Then, Enters, Closes, sharedVars, attemptVars, connVars
  <2>1. CASE NewConnection  BY <2>1 DEF NewConnection
  <2>2. CASE ConnectEstablished  BY <2>2 DEF ConnectEstablished
  <2>3. CASE ReportUp  BY <2>3 DEF ReportUp
  <2>4. CASE Release  BY <2>4 DEF Release
  <2>5. CASE OnMessage  BY <2>5 DEF OnMessage
  <2>6. CASE Notify  BY <2>6 DEF Notify
  <2>7. CASE HandleClose  BY <2>7 DEF HandleClose
  <2>8. CASE ReportDown  BY <2>8 DEF ReportDown
  <2>9. CASE RemoveConnection  BY <2>9 DEF RemoveConnection
  <2>10. CASE Restart  BY <2>10 DEF Restart
  <2>11. CASE CloseDirectly  BY <2>11 DEF CloseDirectly
  <2>12. CASE AttemptRefused  BY <2>12 DEF AttemptRefused, handlerVars
  <2>13. CASE DispatchFreed  BY <2>13 DEF DispatchFreed, handlerVars
  <2> QED  BY <2>1, <2>2, <2>3, <2>4, <2>5, <2>6, <2>7, <2>8, <2>9, <2>10, <2>11, <2>12, <2>13 DEF Handlers
<1>6. CASE Functors /\ LoopRest
  <2>1. UNCHANGED <<main, latch_, conns>> /\ handler' \in {"none", "down"}
    BY <1>6 DEF Functors, sharedVars, handlerVars, Closes, Enters
  <2> QED  BY <2>1
<1>7. CASE NetStep
  BY <1>7 DEF NetStep, mainVars, sharedVars, handlerVars, attemptVars, connVars
<1> QED  BY <1>1, <1>2, <1>3, <1>4, <1>5, <1>6, <1>7 DEF Plain, Next, LoopStep, LoopRest, BatchRest

LEMMA FirstOKNext == IInv /\ [Plain]_vars /\ Typed' => FirstOK'
<1> SUFFICES ASSUME IInv, Typed, MainOK, ConnOK, LatchOK, FirstOK, [Plain]_vars PROVE FirstOK'  BY DEF IInv
<1>0. /\ latch_ \in Nat /\ conns \in Nat /\ losses \in Nat /\ 1 \in Conns
      /\ handler # "none" => conns > 0
      /\ \A c \in Conns : c \in Nat /\ c > 0
      /\ state_ \in [Conns -> {"kConnecting", "kConnected", "kDisconnecting", "kDisconnected"}]
      /\ net \in [Conns -> {"none", "up", "half", "closed"}]
  <2>1. conns \in Nat /\ losses \in Nat /\ latch_ \in Nat  BY ConnsTyped
  <2>2. handler # "none" => conns > 0
    <3>1. handler # "none" => conns \in Conns  BY DEF Typed, TypeOK, ConnOK
    <3> QED  BY <3>1, ConnsFacts
  <2>3. 1 \in Conns /\ \A c \in Conns : c \in Nat /\ c > 0  BY ConnsFacts
  <2> QED  BY <2>1, <2>2, <2>3 DEF Typed, TypeOK
<1> USE <1>0 DEF FirstOK, Before
<1>1. CASE UNCHANGED vars
  BY <1>1 DEF vars, mainVars, sharedVars, loopVars, handlerVars, attemptVars, connVars, netVars
<1>2. CASE WakesSpuriously /\ UNCHANGED <<loopVars, handlerVars, netVars, crashed>>
  BY <1>2 DEF WakesSpuriously, Goes, sharedVars, loopVars, handlerVars, attemptVars, connVars, netVars
<1>3. CASE MainStep
  <2> USE DEF MainRest, Goes, MainOK, handlerVars, attemptVars, connVars, sharedVars, netVars
  <2>1. CASE Connect /\ MainRest  BY <2>1 DEF Connect
  <2>2. CASE Already /\ MainRest  BY <2>2 DEF Already
  <2>3. CASE AppendAll /\ MainRest  BY <2>3 DEF AppendAll
  <2>4. CASE Write /\ MainRest  BY <2>4 DEF Write
  <2>5. CASE Wait /\ MainRest  BY <2>5 DEF Wait
  <2>6. CASE DisconnectStores /\ MainRest  BY <2>6 DEF DisconnectStores
  <2>7. CASE Disconnect /\ MainRest  BY <2>7 DEF Disconnect
  <2>8. CASE ReleaseConn /\ MainRest  BY <2>8 DEF ReleaseConn
  <2>9. CASE DestroyClient /\ MainRest  BY <2>9 DEF DestroyClient
  <2>10. CASE SetClose /\ MainRest  BY <2>10 DEF SetClose
  <2>11. CASE ForceClose /\ MainRest  BY <2>11 DEF ForceClose
  <2>12. CASE StopConnector /\ MainRest  BY <2>12 DEF StopConnector
  <2>13. CASE Join /\ MainRest  BY <2>13 DEF Join
  <2>14. CASE Quit  BY <1>3, <2>14 DEF MainStep, Quit
  <2> QED  BY <1>3, <2>1, <2>2, <2>3, <2>4, <2>5, <2>6, <2>7, <2>8, <2>9, <2>10, <2>11, <2>12,
         <2>13, <2>14 DEF MainStep, MainMoves
<1>4. CASE /\ Stations
           /\ UNCHANGED <<mainVars, sharedVars, handlerVars, connVars, netVars, crashed>>
  BY <1>4 DEF mainVars, sharedVars, handlerVars, attemptVars, connVars, netVars
<1>5. CASE Handlers /\ BatchRest
  <2> USE <1>5 DEF BatchRest, LoopRest, Then, Enters, Closes, LatchOK, ConnOK, sharedVars, attemptVars, connVars, netVars
  <2>1. CASE NewConnection  BY <2>1 DEF NewConnection
  <2>2. CASE ConnectEstablished  BY <2>2 DEF ConnectEstablished
  <2>3. CASE ReportUp  BY <2>3 DEF ReportUp
  <2>4. CASE Release  BY <2>4 DEF Release
  <2>5. CASE OnMessage  BY <2>5 DEF OnMessage
  <2>6. CASE Notify  BY <2>6 DEF Notify
  <2>7. CASE HandleClose  BY <2>7 DEF HandleClose
  <2>8. CASE ReportDown  BY <2>8 DEF ReportDown, Closing
  <2>9. CASE RemoveConnection  BY <2>9 DEF RemoveConnection
  <2>10. CASE Restart  BY <2>10 DEF Restart
  <2>11. CASE CloseDirectly  BY <2>11 DEF CloseDirectly
  <2>12. CASE AttemptRefused  BY <2>12 DEF AttemptRefused, handlerVars
  <2>13. CASE DispatchFreed  BY <2>13 DEF DispatchFreed, handlerVars
  <2> QED  BY <2>1, <2>2, <2>3, <2>4, <2>5, <2>6, <2>7, <2>8, <2>9, <2>10, <2>11, <2>12, <2>13 DEF Handlers
<1>6. CASE Functors /\ LoopRest
  <2>1. PICK f : f = Work[1]  OBVIOUS
  <2>2. f = Head(batch) /\ f \in Functs /\ 1 \in DOMAIN Work  BY <1>6, <2>1, Taken DEF IInv
  <2>3. main \in Before => f.f \notin {"shutdown", "forceClose", "forceCloseInLoop"}
    BY <2>1, <2>2 DEF IInv, ShutdownOK, CloseOK
  <2>4. UNCHANGED <<main, latch_, conn_, losses>>  BY <1>6 DEF Functors, sharedVars
  <2>5. main \in Before => UNCHANGED <<state_, net, handler>>
    BY <1>6, <2>2, <2>3 DEF Functors, handlerVars
  <2> QED  BY <2>4, <2>5
<1>7. CASE NetStep
  <2> USE <1>7 DEF NetStep, mainVars, sharedVars, handlerVars, attemptVars, connVars
  <2>1. CASE Echo  BY <2>1 DEF Echo
  <2>2. CASE ServerCloses  BY <2>2 DEF ServerCloses
  <2>3. CASE Lose  BY <2>3 DEF Lose
  <2> QED  BY <2>1, <2>2, <2>3
<1> QED  BY <1>1, <1>2, <1>3, <1>4, <1>5, <1>6, <1>7 DEF Plain, Next, LoopStep, LoopRest, BatchRest

-----------------------------------------------------------------------------
(***************************************************************************)
(* What main() has written and how far it has come.                        *)
(***************************************************************************)
LEMMA StreamTyped == Typed => /\ get_ \in Seq(1..Messages) /\ In \in Seq(1..Messages)
                             /\ Out \in Seq(1..Messages)
<1> SUFFICES ASSUME Typed
    PROVE  get_ \in Seq(1..Messages) /\ In \in Seq(1..Messages) /\ Out \in Seq(1..Messages)
  OBVIOUS
<1>1. /\ get_ \in Seq(1..Messages)
      /\ in \in [Conns \union {NoConn} -> Seq(1..Messages)]
      /\ out \in [Conns \union {NoConn} -> Seq(1..Messages)]
  BY DEF Typed, TypeOK
<1>2. conns \in Conns \union {NoConn}  BY ConnsTyped
<1> QED  BY <1>1, <1>2 DEF In, Out

LEMMA CarriedIs == Carried = get_ \o In \o Out
<1> QED  BY DEF Carried, In, Out

LEMMA CarriedTyped ==
  Typed => /\ Carried \in Seq(1..Messages) /\ Written \in Int /\ Written <= Messages
           /\ Len(Carried) = Len(get_) + Len(In) + Len(Out)
           /\ Len(get_) \in Nat /\ Len(In) \in Nat /\ Len(Out) \in Nat
           /\ \A k \in DOMAIN get_ : k \in DOMAIN Carried /\ Carried[k] = get_[k]
<1> SUFFICES ASSUME Typed
    PROVE  /\ Carried \in Seq(1..Messages) /\ Written \in Int /\ Written <= Messages
           /\ Len(Carried) = Len(get_) + Len(In) + Len(Out)
           /\ Len(get_) \in Nat /\ Len(In) \in Nat /\ Len(Out) \in Nat
           /\ \A k \in DOMAIN get_ : k \in DOMAIN Carried /\ Carried[k] = get_[k]
  OBVIOUS
<1>1. get_ \in Seq(1..Messages) /\ In \in Seq(1..Messages) /\ Out \in Seq(1..Messages)
  BY StreamTyped
<1>2. PICK a : a = get_ \o In  OBVIOUS
<1>3. a \in Seq(1..Messages) /\ Len(a) = Len(get_) + Len(In)
      /\ \A k \in DOMAIN get_ : k \in DOMAIN a /\ a[k] = get_[k]
  BY <1>1, <1>2
<1>4. Carried = a \o Out  BY <1>2, CarriedIs
<1>5. /\ Carried \in Seq(1..Messages) /\ Len(Carried) = Len(a) + Len(Out)
      /\ \A k \in DOMAIN a : k \in DOMAIN Carried /\ Carried[k] = a[k]
  <2>1. a \in Seq(1..Messages) /\ Out \in Seq(1..Messages)  BY <1>1, <1>3
  <2>2. PICK c : c = a \o Out  OBVIOUS
  <2>3. /\ c \in Seq(1..Messages) /\ Len(c) = Len(a) + Len(Out)
        /\ \A k \in DOMAIN a : k \in DOMAIN c /\ c[k] = a[k]
    BY ONLY <2>1, <2>2, ConcatIs
  <2> QED  BY <1>4, <2>2, <2>3
<1>6. Written \in Int /\ Written <= Messages  BY ConnsFacts DEF Typed, TypeOK, Written
<1> QED  BY <1>1, <1>3, <1>4, <1>5, <1>6

(* What a step does to Carried.                                             *)
Prefix(q, r) == /\ r \in Seq(1..Messages)
                /\ \A k \in DOMAIN r : k \in DOMAIN q /\ r[k] = q[k]

LEMMA CarriedIsNext == Carried' = get_' \o In' \o Out'
<1> QED  BY DEF Carried, In, Out

LEMMA CarriedSame ==
  ASSUME Typed, \/ UNCHANGED <<get_, In, Out>>
                \/ get_' = get_ \o In /\ In' = <<>> /\ Out' = Out
                \/ Out # <<>> /\ get_' = get_ /\ In' = Append(In, Head(Out)) /\ Out' = Tail(Out)
  PROVE  Carried' = Carried
<1>1. get_ \in Seq(1..Messages) /\ In \in Seq(1..Messages) /\ Out \in Seq(1..Messages)
  BY StreamTyped
<1>2. CASE UNCHANGED <<get_, In, Out>>  BY <1>2, CarriedIs, CarriedIsNext
<1>3. CASE get_' = get_ \o In /\ In' = <<>> /\ Out' = Out
  <2>1. get_ \o In \in Seq(1..Messages) /\ (get_ \o In) \o <<>> = get_ \o In  BY <1>1
  <2> QED  BY <1>3, <2>1, CarriedIs, CarriedIsNext
<1>4. CASE Out # <<>> /\ get_' = get_ /\ In' = Append(In, Head(Out)) /\ Out' = Tail(Out)
  <2>1. PICK a : a = get_ \o In  OBVIOUS
  <2>2. a \in Seq(1..Messages)  BY <1>1, <2>1
  <2>3. Head(Out) \in 1..Messages /\ Tail(Out) \in Seq(1..Messages)  BY <1>1, <1>4, HeadIs
  <2>4. get_ \o Append(In, Head(Out)) = Append(a, Head(Out))
    BY <1>1, <2>1, <2>3, ConcatAppend
  <2>5. Append(a, Head(Out)) \o Tail(Out) = a \o Out  BY <1>1, <1>4, <2>2, <2>3
  <2> QED  BY <1>4, <2>1, <2>4, <2>5, CarriedIs, CarriedIsNext
<1> QED  BY <1>2, <1>3, <1>4

LEMMA CarriedGrows ==
  ASSUME Typed, NEW m \in 1..Messages, get_' = get_, In' = In, Out' = Append(Out, m)
  PROVE  Carried' = Append(Carried, m)
<1>1. get_ \o In \in Seq(1..Messages) /\ Out \in Seq(1..Messages)  BY StreamTyped
<1> QED  BY <1>1, ConcatAppend, CarriedIs, CarriedIsNext

LEMMA CarriedLost ==
  ASSUME Typed, get_' = get_, In' = <<>>, Out' = <<>>
  PROVE  Carried' = get_ /\ Prefix(Carried, get_)
<1>1. get_ \in Seq(1..Messages)  BY StreamTyped
<1>2. Carried' = get_  BY <1>1, CarriedIs, CarriedIsNext
<1>3. Prefix(Carried, get_)  BY <1>1, CarriedTyped DEF Prefix
<1> QED  BY <1>2, <1>3

-----------------------------------------------------------------------------
(***************************************************************************)
(* What the steps do to the functors still to run.                         *)
(***************************************************************************)
LEMMA QueuedWork ==
  ASSUME Typed, batch' = batch, NEW g \in Functs, queue' = Append(queue, g)
  PROVE  Added(Work, Work', 0, g)
<1>1. Work' = Append(Work, g)  BY ConcatAppend DEF Typed, Work
<1> QED  BY <1>1, WorkTyped, AddsIs

QueuedByMain ==
  \/ main = "start" /\ Added(Work, Work', 0, Functor("start", NoConn, 0))
  \/ /\ main = "write" /\ conn_ # NoConn /\ state_[conn_] = "kConnected"
     /\ Added(Work, Work', 0, Functor("send", conn_, all))
  \/ /\ main = "shutdown" /\ connection_ # NoConn
     /\ Added(Work, Work', 0, Functor("shutdown", connection_, 0))
  \/ main = "setClose" /\ Added(Work, Work', 0, Functor("setClose", NoConn, 0))
  \/ main = "forceClose" /\ Added(Work, Work', 0, Functor("forceClose", held, 0))
  \/ main = "stop" /\ Added(Work, Work', 0, Functor("stop", NoConn, 0))

LEMMA MainWork == Typed /\ MainOK /\ MainStep =>
  (Work' = Work /\ main \notin {"start", "setClose", "forceClose"}) \/ QueuedByMain
<1> SUFFICES ASSUME Typed, MainOK, MainStep
    PROVE  (Work' = Work /\ main \notin {"start", "setClose", "forceClose"}) \/ QueuedByMain
  OBVIOUS
<1>1. batch' = batch  BY DEF MainStep
<1>2. queue' = queue => Work' = Work  BY <1>1 DEF Work
<1>3. \A f \in {"start", "stop", "send", "shutdown", "setClose", "forceClose"},
         c \in Conns \union {NoConn}, m \in 0..Messages :
         Queued(f, c, m) => Added(Work, Work', 0, Functor(f, c, m))
  BY <1>1, QueuedWork DEF Functor, Functs, Queued
<1>4. /\ held \in Conns \union {NoConn} /\ connection_ \in Conns \union {NoConn}
      /\ conn_ \in Conns \union {NoConn} /\ NoConn \in Conns \union {NoConn}
      /\ all \in 0..Messages /\ 0 \in 0..Messages
  BY ConnsFacts DEF Typed, TypeOK
<1> QED
  <2> USE <1>2, <1>3, <1>4 DEF MainRest, Goes, QueuedByMain
  <2>1. CASE Connect /\ MainRest  BY <2>1 DEF Connect
  <2>2. CASE Already /\ MainRest  BY <2>2 DEF Already
  <2>3. CASE AppendAll /\ MainRest  BY <2>3 DEF AppendAll
  <2>4. CASE Write /\ MainRest  BY <2>4 DEF Write
  <2>5. CASE Wait /\ MainRest  BY <2>5 DEF Wait
  <2>6. CASE DisconnectStores /\ MainRest  BY <2>6 DEF DisconnectStores
  <2>7. CASE Disconnect /\ MainRest  BY <2>7 DEF Disconnect
  <2>8. CASE ReleaseConn /\ MainRest  BY <2>8 DEF ReleaseConn
  <2>9. CASE DestroyClient /\ MainRest  BY <2>9 DEF DestroyClient
  <2>10. CASE SetClose /\ MainRest  BY <2>10 DEF SetClose
  <2>11. CASE ForceClose /\ MainRest  BY <2>11 DEF ForceClose
  <2>12. CASE StopConnector /\ MainRest  BY <2>12 DEF StopConnector
  <2>13. CASE Join /\ MainRest  BY <2>13 DEF Join
  <2>14. CASE Quit  BY <2>14 DEF Quit
  <2> QED
    BY <2>1, <2>2, <2>3, <2>4, <2>5, <2>6, <2>7, <2>8, <2>9, <2>10, <2>11, <2>12, <2>13, <2>14
    DEF MainStep, MainMoves

LEMMA StationsWork ==
  ASSUME Typed, MainOK, Stations
  PROVE  Work' = Work \/ (Work' = <<>> /\ loop' = "exited")
<1>1. batch \in Seq(Functs) /\ queue \in Seq(Functs)  BY DEF Typed
<1>2. <<>> \o queue = queue /\ queue \o <<>> = queue /\ <<>> \o <<>> = <<>>  BY <1>1
<1> QED  BY <1>2 DEF Stations, Turn, MainOK, Work

LEMMA HandlersWork ==
  ASSUME Typed, Handlers, BatchRest
  PROVE  \/ Work' = Work
         \/ /\ RemoveConnection \/ CloseDirectly
            /\ Added(Work, Work', 0, Functor("connectDestroyed", cur, 0))
<1>1. batch' = batch  BY DEF BatchRest
<1>2. CASE RemoveConnection \/ CloseDirectly
  <2>1. Functor("connectDestroyed", cur, 0) \in Functs
    BY ConnsFacts DEF Functor, Functs, Typed, TypeOK
  <2>2. queue' = Append(queue, Functor("connectDestroyed", cur, 0))
    BY <1>2 DEF RemoveConnection, CloseDirectly, Queued
  <2> QED  BY <1>1, <1>2, <2>1, <2>2, QueuedWork
<1>3. CASE ~(RemoveConnection \/ CloseDirectly)
  <2>1. queue' = queue
    BY <1>3 DEF Handlers, NewConnection, ConnectEstablished, ReportUp, Release, OnMessage, Notify,
       HandleClose, ReportDown, Restart, AttemptRefused, DispatchFreed
  <2> QED  BY <1>1, <2>1 DEF Work
<1> QED  BY <1>2, <1>3

\* the functor that runs, and what it leaves of Work
Closed == /\ Work[1].f = "forceClose" /\ state_[Work[1].c] = "kConnected"
          /\ Added(Work, Work', 1, Functor("forceCloseInLoop", Work[1].c, 0))

LEMMA FunctorsWork ==
  ASSUME Typed, Functors
  PROVE  /\ 1 \in DOMAIN Work /\ Work[1] \in Functs /\ Work[1] = Head(batch)
         /\ Moved(Work, Work', 1) \/ Closed
<1>1. PICK f : f = Work[1]  OBVIOUS
<1>2. /\ 1 \in DOMAIN Work /\ f \in Functs /\ Head(batch) = f /\ Work \in Seq(Functs)
      /\ Work # <<>>
  BY <1>1, Taken
<1>3. CASE queue' = queue
  <2>1. Moved(Work, Work', 1)  BY <1>2, <1>3, Taken, TakesIs
  <2> QED  BY <1>1, <1>2, <2>1
<1>4. CASE queue' # queue
  <2>1. /\ f.f = "forceClose" /\ state_[f.c] = "kConnected"
        /\ queue' = Append(queue, Functor("forceCloseInLoop", f.c, 0))
    BY <1>2, <1>4 DEF Functors, Queued
  <2>2. PICK g : g = Functor("forceCloseInLoop", f.c, 0)  OBVIOUS
  <2>3. g \in Functs  BY <1>2, <2>2, ConnsFacts DEF Functor, Functs
  <2>4. Work' = Append(Tail(Work), g)  BY <2>1, <2>2, <2>3, Taken
  <2>5. Added(Work, Work', 1, g)  BY <1>2, <2>3, <2>4, TakesAdds
  <2> QED  BY <1>1, <1>2, <2>1, <2>2, <2>5 DEF Closed
<1> QED  BY <1>3, <1>4

LEMMA NetWork == NetStep => Work' = Work
<1> QED  BY DEF NetStep, loopVars, Work

-----------------------------------------------------------------------------
(***************************************************************************)
(* What each functor finds when its turn comes.                            *)
(***************************************************************************)
LEMMA StartOKNext == IInv /\ [Plain]_vars => StartOK'
<1> SUFFICES ASSUME IInv, Typed, MainOK, ConnOK, StartOK, [Plain]_vars PROVE StartOK'  BY DEF IInv
<1>1. CASE UNCHANGED vars
  BY <1>1 DEF StartOK, Work, vars, mainVars, sharedVars, loopVars, handlerVars, attemptVars, connVars, netVars
<1>2. CASE WakesSpuriously /\ UNCHANGED <<loopVars, handlerVars, netVars, crashed>>
  BY <1>2 DEF WakesSpuriously, Goes, StartOK, Work, sharedVars, loopVars, handlerVars, attemptVars, connVars, netVars
<1>3. CASE MainStep
  <2>1. conns' = conns /\ (trying' => trying)
    BY <1>3 DEF MainStep, MainMoves, Connect, Already, AppendAll, Write, Wait, DisconnectStores,
       Disconnect, ReleaseConn, DestroyClient, SetClose, ForceClose, StopConnector, Join, Quit, attemptVars, connVars
  <2>2. CASE Work' = Work  BY <2>1, <2>2 DEF StartOK
  <2>3. CASE QueuedByMain
    <3>1. CASE main = "start"
      BY <2>1, <2>3, <3>1 DEF StartOK, QueuedByMain, MainOK, Added, Functor
    <3>2. CASE main # "start"
      BY <2>1, <2>3, <3>2 DEF StartOK, QueuedByMain, Added, Functor
    <3> QED  BY <3>1, <3>2
  <2> QED  BY <1>3, <2>2, <2>3, MainWork
<1>4. CASE /\ Stations
           /\ UNCHANGED <<mainVars, sharedVars, handlerVars, connVars, netVars, crashed>>
  <2>1. Work' = Work \/ Work' = <<>>  BY <1>4, StationsWork
  <2> QED  BY <1>4, <2>1 DEF StartOK, attemptVars, connVars
<1>5. CASE Handlers /\ BatchRest
  <2>1. CASE ~ \E i \in DOMAIN Work : Work[i].f = "start"
    BY <1>5, <2>1, HandlersWork DEF StartOK, Added, Functor
  <2>2. CASE \E i \in DOMAIN Work : Work[i].f = "start"
    <3>1. conns = 0 /\ ~trying  BY <2>2 DEF StartOK
    <3>2. handler = "none"  BY <3>1, ConnsFacts DEF ConnOK, Typed, TypeOK
    <3>3. OnMessage \/ HandleClose \/ AttemptRefused \/ DispatchFreed
      <4>1. ~NewConnection  BY <3>1, PlainFacts
      <4> QED
        BY <1>5, <3>2, <4>1 DEF Handlers, ConnectEstablished, ReportUp, Release, Notify,
           ReportDown, RemoveConnection, Restart, CloseDirectly, Then
    <3>4. UNCHANGED <<conns, trying, queue>>
      BY <3>3 DEF OnMessage, HandleClose, AttemptRefused, DispatchFreed, attemptVars, connVars
    <3>5. Work' = Work  BY <1>5, <3>4 DEF BatchRest, Work
    <3> QED  BY <3>4, <3>5 DEF StartOK
  <2> QED  BY <2>1, <2>2
<1>6. CASE Functors /\ LoopRest
  <2>1. conns' = conns  BY <1>6 DEF Functors
  <2>2. Work[1].f # "start" => (trying' => trying)  BY <1>6, FunctorsWork DEF Functors
  <2>3. 1 \in DOMAIN Work /\ (Moved(Work, Work', 1) \/ Closed)  BY <1>6, FunctorsWork
  <2> QED  BY <2>1, <2>2, <2>3 DEF StartOK, Moved, Closed, Added, Functor
<1>7. CASE NetStep
  BY <1>7, NetWork DEF NetStep, StartOK, attemptVars, connVars
<1> QED  BY <1>1, <1>2, <1>3, <1>4, <1>5, <1>6, <1>7 DEF Plain, Next, LoopStep, LoopRest, BatchRest

LEMMA CloseOKNext == IInv /\ [Plain]_vars => CloseOK'
<1> SUFFICES ASSUME IInv, Typed, MainOK, CloseOK, [Plain]_vars PROVE CloseOK'  BY DEF IInv
<1>1. CASE UNCHANGED vars
  BY <1>1 DEF CloseOK, Work, vars, mainVars, sharedVars, loopVars, handlerVars, attemptVars, connVars, netVars
<1>2. CASE WakesSpuriously /\ UNCHANGED <<loopVars, handlerVars, netVars, crashed>>
  BY <1>2 DEF WakesSpuriously, Goes, CloseOK, Work, sharedVars, loopVars, handlerVars, attemptVars, connVars, netVars
<1>3. CASE MainStep
  <2>1. main \in {"quit", "join", "ended"} => main' \in {"quit", "join", "ended"}
    BY <1>3 DEF MainStep, MainMoves, Connect, Already, AppendAll, Write, Wait, DisconnectStores,
       Disconnect, ReleaseConn, DestroyClient, SetClose, ForceClose, StopConnector, Join, Quit, Goes
  <2>2. CASE Work' = Work  BY <2>1, <2>2 DEF CloseOK
  <2>3. CASE QueuedByMain
    <3>1. main = "forceClose" => main' = "quit" /\ held \in Conns
      BY <1>3 DEF MainStep, MainMoves, Connect, Already, AppendAll, Write, Wait, DisconnectStores,
         Disconnect, ReleaseConn, DestroyClient, SetClose, ForceClose, StopConnector, Join, Quit,
         Goes, MainOK, Typed, TypeOK
    <3> QED  BY <2>1, <2>3, <3>1 DEF CloseOK, QueuedByMain, Added, Functor
  <2> QED  BY <1>3, <2>2, <2>3, MainWork
<1>4. CASE /\ Stations
           /\ UNCHANGED <<mainVars, sharedVars, handlerVars, connVars, netVars, crashed>>
  <2>1. Work' = Work \/ Work' = <<>>  BY <1>4, StationsWork
  <2> QED  BY <1>4, <2>1 DEF CloseOK, mainVars
<1>5. CASE Handlers /\ BatchRest
  <2>1. main' = main \/ main = "waiting"
    BY <1>5 DEF Handlers, NewConnection, ConnectEstablished, ReportUp, Release, OnMessage, Notify,
       HandleClose, ReportDown, RemoveConnection, Restart, CloseDirectly, AttemptRefused, DispatchFreed
  <2> QED  BY <1>5, <2>1, HandlersWork DEF CloseOK, Added, Functor
<1>6. CASE Functors /\ LoopRest
  <2>1. main' = main  BY <1>6 DEF Functors
  <2>2. 1 \in DOMAIN Work /\ (Moved(Work, Work', 1) \/ Closed)  BY <1>6, FunctorsWork
  <2>3. CASE Moved(Work, Work', 1)  BY <2>1, <2>3 DEF CloseOK, Moved
  <2>4. CASE Closed
    <3>1. /\ 1 \in DOMAIN Work /\ Work[1].f = "forceClose"
          /\ Added(Work, Work', 1, Functor("forceCloseInLoop", Work[1].c, 0))
      BY <2>2, <2>4 DEF Closed
    <3>2. Work[1].c \in Conns /\ main \in {"quit", "join", "ended"}  BY <3>1 DEF CloseOK
    <3>3. \A i \in DOMAIN Work' : \/ Work'[i].c = Work[1].c
                                  \/ \E j \in DOMAIN Work : Work'[i] = Work[j]
      BY <3>1 DEF Added, Functor
    <3> QED  BY <2>1, <3>2, <3>3 DEF CloseOK
  <2> QED  BY <2>2, <2>3, <2>4
<1>7. CASE NetStep
  BY <1>7, NetWork DEF NetStep, CloseOK, mainVars
<1> QED  BY <1>1, <1>2, <1>3, <1>4, <1>5, <1>6, <1>7 DEF Plain, Next, LoopStep, LoopRest, BatchRest

LEMMA ShutdownOKNext == IInv /\ [Plain]_vars => ShutdownOK'
<1> SUFFICES ASSUME IInv, Typed, MainOK, ConnOK, LatchOK, StartOK, ShutdownOK, [Plain]_vars
             PROVE ShutdownOK'  BY DEF IInv
<1>0. /\ NoConn \notin Conns /\ conns \in Nat /\ latch_ \in Nat
      /\ main \notin Before => conns > 0 /\ ~connect_
  BY ConnsFacts DEF Typed, TypeOK, LatchOK, MainOK, Before
<1>1. CASE UNCHANGED vars
  BY <1>1 DEF ShutdownOK, Before, Work, vars, mainVars, sharedVars, loopVars, handlerVars,
         attemptVars, connVars, netVars
<1>2. CASE WakesSpuriously /\ UNCHANGED <<loopVars, handlerVars, netVars, crashed>>
  BY <1>2 DEF WakesSpuriously, Goes, ShutdownOK, Before, Work, sharedVars, loopVars, handlerVars,
         attemptVars, connVars, netVars
<1>3. CASE MainStep
  <2>1. /\ main \notin Before => main' \notin Before /\ ~connect_'
        /\ trying' => trying
        /\ connection_' = connection_
    BY <1>0, <1>3 DEF MainStep, MainMoves, Connect, Already, AppendAll, Write, Wait, DisconnectStores,
       Disconnect, ReleaseConn, DestroyClient, SetClose, ForceClose, StopConnector, Join, Quit, Goes,
       Before, attemptVars, connVars, sharedVars
  <2>2. /\ main = "release" => main' = "destroy"
        /\ main = "destroy" => held' = connection_
        /\ main \notin {"destroy", "forceClose"} => held' = held
    BY <1>3 DEF MainStep, MainMoves, Connect, Already, AppendAll, Write, Wait, DisconnectStores,
       Disconnect, ReleaseConn, DestroyClient, SetClose, ForceClose, StopConnector, Join, Quit, Goes
  <2>3. CASE Work' = Work /\ main # "forceClose"
    <3>1. main = "destroy" => held \notin Conns  BY <1>0 DEF MainOK
    <3> QED  BY <2>1, <2>2, <2>3, <3>1 DEF ShutdownOK, Before
  <2>4. CASE QueuedByMain /\ main \notin {"shutdown", "forceClose"}
    <3>1. main \notin {"release", "destroy"} /\ held' = held  BY <2>2, <2>4 DEF QueuedByMain
    <3> QED  BY <2>1, <2>4, <3>1 DEF ShutdownOK, QueuedByMain, Added, Functor
  <2>5. CASE QueuedByMain /\ main = "forceClose"
    <3>1. Added(Work, Work', 0, Functor("forceClose", held, 0))  BY <2>5 DEF QueuedByMain
    <3>2. Work'[Len(Work')].f = "forceClose" /\ Work'[Len(Work')].c = held
      BY <3>1 DEF Added, Functor
    <3> QED  BY <2>1, <2>5, <3>1, <3>2 DEF ShutdownOK, Added, Before
  <2>6. CASE QueuedByMain /\ main = "shutdown"
    <3>1. /\ Added(Work, Work', 0, Functor("shutdown", connection_, 0))
          /\ connection_ \in Conns
      BY <2>6 DEF QueuedByMain, Typed, TypeOK
    <3>2. main' = "release" /\ ~connect_'
      BY <1>3, <2>6 DEF MainStep, MainMoves, Connect, Already, AppendAll, Write, Wait, DisconnectStores,
         Disconnect, ReleaseConn, DestroyClient, SetClose, ForceClose, StopConnector, Join, Quit,
         Goes, MainOK, Before
    <3>3. \A i \in DOMAIN Work : Work[i].f # "shutdown"  BY <2>6 DEF ShutdownOK, Before
    <3>4. ~trying'  BY <2>1, <3>1, <1>0 DEF ConnOK
    <3> QED  BY <2>1, <3>1, <3>2, <3>3, <3>4 DEF ShutdownOK, Added, Functor, Before
  <2> QED  BY <1>3, <2>3, <2>4, <2>5, <2>6, MainWork
<1>4. CASE /\ Stations
           /\ UNCHANGED <<mainVars, sharedVars, handlerVars, connVars, netVars, crashed>>
  <2>1. Work' = Work \/ Work' = <<>>  BY <1>4, StationsWork
  <2> QED  BY <1>4, <2>1 DEF ShutdownOK, mainVars, attemptVars, connVars, sharedVars
<1>5. CASE Handlers /\ BatchRest
  <2>1. CASE ~ \E i \in DOMAIN Work : Work[i].f = "shutdown"
    BY <1>5, <2>1, HandlersWork DEF ShutdownOK, Added, Functor
  <2>2. CASE \E i \in DOMAIN Work : Work[i].f = "shutdown"
    <3>1. ~connect_ /\ ~trying /\ main \notin Before  BY <2>2 DEF ShutdownOK
    <3>2. /\ UNCHANGED <<main, held, connect_>> /\ ~trying'
          /\ connection_' = connection_ \/ RemoveConnection
      <4>1. ~NewConnection  BY <3>1, PlainFacts
      <4>2. CASE RemoveConnection
        BY <1>5, <3>1, <4>2 DEF RemoveConnection, BatchRest, LoopRest, attemptVars, connVars
      <4>3. CASE Restart
        BY <1>5, <3>1, <4>3 DEF Restart, BatchRest, LoopRest, sharedVars
      <4>4. CASE ~RemoveConnection /\ ~Restart
        BY <1>5, <3>1, <4>1, <4>4 DEF Handlers, ConnectEstablished, ReportUp, Release, OnMessage,
           Notify, HandleClose, ReportDown, CloseDirectly, AttemptRefused, DispatchFreed, BatchRest,
           LoopRest, attemptVars, connVars, sharedVars, Before
      <4> QED  BY <4>2, <4>3, <4>4
    <3>3. CASE Work' = Work /\ connection_' = connection_  BY <3>1, <3>2, <3>3 DEF ShutdownOK
    <3>4. CASE Added(Work, Work', 0, Functor("connectDestroyed", cur, 0)) /\ connection_' = connection_
      BY <3>1, <3>2, <3>4 DEF ShutdownOK, Added, Functor
    <3>5. CASE RemoveConnection
      <4>1. Added(Work, Work', 0, Functor("connectDestroyed", cur, 0))
        <5>1. queue' = Append(queue, Functor("connectDestroyed", cur, 0)) /\ batch' = batch
          BY <1>5, <3>5 DEF RemoveConnection, Queued, BatchRest
        <5>2. Functor("connectDestroyed", cur, 0) \in Functs
          BY ConnsFacts DEF Functor, Functs, Typed, TypeOK
        <5> QED  BY <5>1, <5>2, QueuedWork
      <4>2. cur = conns  BY <3>5 DEF RemoveConnection, Then, ConnOK
      <4>3. \A c \in Conns : connection_ = c => c = cur  BY <1>0, <4>2 DEF ConnOK
      <4>4. Work'[Len(Work')].f = "connectDestroyed" /\ Work'[Len(Work')].c = cur
        BY <4>1 DEF Added, Functor
      <4> QED  BY <3>1, <3>2, <4>1, <4>3, <4>4 DEF ShutdownOK, Added
    <3> QED  BY <1>5, <3>2, <3>3, <3>4, <3>5, HandlersWork
  <2> QED  BY <2>1, <2>2
<1>6. CASE Functors /\ LoopRest
  <2>1. UNCHANGED <<main, connection_, held, connect_>>  BY <1>6 DEF Functors, LoopRest, sharedVars
  <2>2. 1 \in DOMAIN Work /\ (Moved(Work, Work', 1) \/ Closed)  BY <1>6, FunctorsWork
  <2>3. main \notin Before => Work[1].f # "start"  BY <1>0, <2>2 DEF StartOK
  <2>4. main \notin Before => (trying' => trying)  BY <1>6, <2>3, FunctorsWork DEF Functors
  <2> SUFFICES ASSUME NEW i \in DOMAIN Work', Work'[i].f = "shutdown"
      PROVE  /\ Work'[i].c \in Conns /\ ~connect_' /\ ~trying' /\ main' \notin Before
             /\ \/ connection_' = Work'[i].c /\ main' \in {"release", "destroy"}
                \/ held' = Work'[i].c
                \/ \E j \in DOMAIN Work' : /\ i < j /\ Work'[j].c = Work'[i].c
                                           /\ Work'[j].f \in {"forceClose", "connectDestroyed"}
    BY DEF ShutdownOK
  <2>5. i \in Nat /\ i > 0 /\ i + 1 \in DOMAIN Work /\ Work[i + 1] = Work'[i]
    BY <2>2 DEF Moved, Closed, Added, Functor
  <2>6. \A j \in DOMAIN Work : i + 1 < j =>
           j - 1 \in DOMAIN Work' /\ Work'[j - 1] = Work[j] /\ i < j - 1
    BY <2>2, <2>5 DEF Moved, Closed, Added
  <2> QED  BY <2>1, <2>4, <2>5, <2>6 DEF ShutdownOK
<1>7. CASE NetStep
  BY <1>7, NetWork DEF NetStep, ShutdownOK, mainVars, attemptVars, connVars, sharedVars
<1> QED  BY <1>1, <1>2, <1>3, <1>4, <1>5, <1>6, <1>7 DEF Plain, Next, LoopStep, LoopRest, BatchRest

-----------------------------------------------------------------------------
(***************************************************************************)
(* The messages.                                                           *)
(***************************************************************************)
LEMMA MainCarried ==
  ASSUME Typed, MainStep
  PROVE  Carried' = Carried /\ Written <= Written' /\ Written' \in Int
<1>1. UNCHANGED <<get_, conns, in, out>>
  BY DEF MainStep, MainMoves, Connect, Already, AppendAll, Write, Wait, DisconnectStores,
     Disconnect, ReleaseConn, DestroyClient, SetClose, ForceClose, StopConnector, Join, Quit, Goes,
     sharedVars, netVars, attemptVars, connVars
<1>2. all \in Nat /\ all' \in Nat /\ all <= all'
  BY DEF MainStep, MainMoves, Connect, Already, AppendAll, Write, Wait, DisconnectStores,
     Disconnect, ReleaseConn, DestroyClient, SetClose, ForceClose, StopConnector, Join, Quit,
     Goes, Typed, TypeOK
<1>3. main' = "write" => main = "append" /\ all' = all + 1
  BY DEF MainStep, MainMoves, Connect, Already, AppendAll, Write, Wait, DisconnectStores,
     Disconnect, ReleaseConn, DestroyClient, SetClose, ForceClose, StopConnector, Join, Quit, Goes
<1>4. Written <= Written' /\ Written' \in Int
  <2>1. CASE main' = "write"
    <3>1. Written = all /\ Written' = all' - 1  BY <1>3, <2>1 DEF Written
    <3> QED  BY <1>2, <1>3, <2>1, <3>1
  <2>2. CASE main' # "write"
    <3>1. Written \in {all, all - 1} /\ Written' = all'  BY <2>2 DEF Written
    <3> QED  BY <1>2, <3>1
  <2> QED  BY <2>1, <2>2
<1>5. Carried' = Carried  BY <1>1, CarriedSame DEF In, Out
<1> QED  BY <1>4, <1>5

LEMMA HandlersCarried ==
  ASSUME Typed, ConnOK, StreamOK, Handlers, BatchRest, surplus' = surplus
  PROVE  Carried' = Carried /\ Written' = Written
<1>1. UNCHANGED <<all, connect_>>  BY DEF BatchRest, LoopRest
<1>2. CASE NewConnection
  <2>1. trying /\ conns' = conns + 1 /\ UNCHANGED <<main, get_, in, out>>
    BY <1>2 DEF NewConnection, netVars, Typed, TypeOK
  <2>2. conns \in Nat /\ (conns # NoConn => conns \in Conns) /\ conns + 1 \in Conns
    BY <1>2, ConnsTyped DEF NewConnection
  <2>3. conns + 1 # conns  BY <2>2
  <2>4. in[conns + 1] = <<>> /\ out[conns + 1] = <<>>  BY <2>2, <2>3, LastStream
  <2>5. In = <<>> /\ Out = <<>>
    <3>1. CASE conns = NoConn  BY <3>1 DEF StreamOK, In, Out
    <3>2. CASE conns # NoConn
      <4>1. conns \in Conns /\ conns > 0  BY <2>2, <3>2, ConnsFacts
      <4>2. net[conns] = "closed"  BY <2>1, <4>1 DEF ConnOK
      <4> QED  BY <2>1, <4>1, <4>2 DEF StreamOK, In, Out
    <3> QED  BY <3>1, <3>2
  <2>6. UNCHANGED <<get_, In, Out>>  BY <2>1, <2>4, <2>5 DEF In, Out
  <2> QED  BY <1>1, <2>1, <2>6, CarriedSame DEF Written
<1>3. CASE OnMessage
  <2>1. PICK c \in active : /\ in[c] # <<>> /\ get_' = get_ \o in[c]
                           /\ in' = [in EXCEPT ![c] = <<>>]
    BY <1>3 DEF OnMessage
  <2>2. c \in Conns  BY DEF Typed, TypeOK
  <2>3. c = conns  BY <2>1, <2>2, LastStream
  <2>4. UNCHANGED <<main, conns, out>>  BY <1>3 DEF OnMessage, connVars, attemptVars
  <2>5. in'[c] = <<>>  BY <2>1, <2>2 DEF Typed, TypeOK
  <2>6. get_' = get_ \o In /\ In' = <<>> /\ Out' = Out
    BY <2>1, <2>3, <2>4, <2>5 DEF In, Out
  <2> QED  BY <1>1, <2>4, <2>6, CarriedSame DEF Written
<1>4. CASE ~NewConnection /\ ~OnMessage
  <2>1. UNCHANGED <<get_, conns, in, out>>
    BY <1>4 DEF Handlers, ConnectEstablished, ReportUp, Release, Notify, HandleClose, ReportDown,
       RemoveConnection, Restart, CloseDirectly, AttemptRefused, DispatchFreed, sharedVars, netVars,
       attemptVars, connVars
  <2>2. main' = main \/ (main = "waiting" /\ main' = "woken")
    BY <1>4 DEF Handlers, ConnectEstablished, ReportUp, Release, Notify, HandleClose, ReportDown,
       RemoveConnection, Restart, CloseDirectly, AttemptRefused, DispatchFreed
  <2>3. UNCHANGED <<get_, In, Out>>  BY <2>1 DEF In, Out
  <2> QED  BY <1>1, <2>2, <2>3, CarriedSame DEF Written
<1> QED  BY <1>2, <1>3, <1>4

LEMMA FunctorsCarried ==
  ASSUME Typed, ConnOK, SendOK, Functors, LoopRest
  PROVE  /\ \/ Carried' = Carried
            \/ Work[1].f = "send" /\ Carried' = Append(Carried, Work[1].m)
         /\ Work[1].f = "send" /\ state_[Work[1].c] # "kDisconnected" /\ net[Work[1].c] = "up" =>
              Carried' = Append(Carried, Work[1].m)
         /\ Written' = Written
<1>1. PICK f : f = Work[1]  OBVIOUS
<1>2. f = Head(batch) /\ 1 \in DOMAIN Work  BY <1>1, FunctorsWork
<1>3. f.f = "send" => f.m \in 1..Messages
  <2>1. f.f = "send" => f.m \in 1..Written  BY <1>1, <1>2 DEF SendOK
  <2>2. Written \in Int /\ Written <= Messages /\ Messages \in Nat  BY CarriedTyped, ConnsFacts
  <2> QED  BY <2>1, <2>2
<1>4. UNCHANGED <<main, all, get_, conns, in>>  BY DEF Functors, LoopRest, sharedVars
<1>5. \/ out' = out /\ ~(f.f = "send" /\ state_[f.c] # "kDisconnected" /\ net[f.c] = "up")
      \/ /\ f.f = "send" /\ net[f.c] = "up"
         /\ out' = [out EXCEPT ![f.c] = Append(@, f.m)]
  BY <1>2 DEF Functors
<1>6. In' = In  BY <1>4 DEF In
<1>7. CASE out' = out /\ ~(f.f = "send" /\ state_[f.c] # "kDisconnected" /\ net[f.c] = "up")
  <2>1. UNCHANGED <<get_, In, Out>>  BY <1>4, <1>6, <1>7 DEF Out
  <2> QED  BY <1>1, <1>4, <1>7, <2>1, CarriedSame DEF Written
<1>8. CASE /\ f.f = "send" /\ net[f.c] = "up"
           /\ out' = [out EXCEPT ![f.c] = Append(@, f.m)]
  <2>1. f.c \in Conns  BY <1>1, <1>2, <1>8 DEF SendOK
  <2>2. f.c = conns  BY <1>8, <2>1, LastConn DEF InUse
  <2>3. out'[f.c] = Append(out[f.c], f.m)  BY <1>8, <2>1 DEF Typed, TypeOK
  <2>4. Out' = Append(Out, f.m)  BY <1>4, <2>2, <2>3 DEF Out
  <2>5. Carried' = Append(Carried, f.m)  BY <1>3, <1>4, <1>6, <1>8, <2>4, CarriedGrows
  <2> QED  BY <1>1, <1>4, <1>8, <2>5 DEF Written
<1> QED  BY <1>5, <1>7, <1>8

LEMMA NetCarried ==
  ASSUME Typed, ConnOK, StreamOK, NetStep
  PROVE  /\ Carried' = Carried \/ (losses' # 0 /\ Prefix(Carried, Carried'))
         /\ Written' = Written
<1>1. UNCHANGED <<main, all, get_, conns>>
  BY DEF NetStep, mainVars, sharedVars, attemptVars, connVars
<1>2. CASE Echo
  <2>1. PICK c \in Conns : /\ out[c] # <<>> /\ in' = [in EXCEPT ![c] = Append(@, Head(out[c]))]
                          /\ out' = [out EXCEPT ![c] = Tail(@)]
    BY <1>2 DEF Echo
  <2>2. c = conns  BY <2>1, LastStream
  <2>3. in'[c] = Append(in[c], Head(out[c])) /\ out'[c] = Tail(out[c])
    BY <2>1 DEF Typed, TypeOK
  <2>4. Out # <<>> /\ In' = Append(In, Head(Out)) /\ Out' = Tail(Out)
    BY <1>1, <2>1, <2>2, <2>3 DEF In, Out
  <2> QED  BY <1>1, <2>4, CarriedSame DEF Written
<1>3. CASE ServerCloses
  <2>1. UNCHANGED <<get_, In, Out>>  BY <1>1, <1>3 DEF ServerCloses, In, Out
  <2> QED  BY <1>1, <2>1, CarriedSame DEF Written
<1>4. CASE Lose
  <2>1. losses' # 0
    <3>1. losses \in Nat /\ losses' = losses + 1  BY <1>4, ConnsTyped DEF Lose
    <3> QED  BY <3>1
  <2>2. PICK c \in Conns : /\ net[c] = "up"
                          /\ out' = [out EXCEPT ![c] = <<>>] /\ in' = [in EXCEPT ![c] = <<>>]
    BY <1>4 DEF Lose
  <2>3. c = conns  BY <2>2, LastConn DEF InUse
  <2>4. in'[c] = <<>> /\ out'[c] = <<>>  BY <2>2 DEF Typed, TypeOK
  <2>5. In' = <<>> /\ Out' = <<>>  BY <1>1, <2>3, <2>4 DEF In, Out
  <2> QED  BY <1>1, <2>1, <2>5, CarriedLost DEF Written
<1> QED  BY <1>2, <1>3, <1>4 DEF NetStep

(* The messages carried stay spaced out however Carried moves.              *)
LEMMA CarriedShrinks ==
  ASSUME Typed, CarriedOK, Carried' = Carried \/ Prefix(Carried, Carried'),
         Written <= Written', Written' \in Int
  PROVE  CarriedOK'
<1>1. Carried \in Seq(1..Messages) /\ Written \in Int  BY CarriedTyped
<1>2. Carried' \in Seq(1..Messages)  BY <1>1 DEF Prefix
<1>3. \A k \in DOMAIN Carried' : k \in DOMAIN Carried /\ Carried'[k] = Carried[k]
  BY DEF Prefix
<1>4. \A k \in DOMAIN Carried : Carried[k] \in Int  BY <1>1, ConnsFacts
<1> QED  BY <1>1, <1>2, <1>3, <1>4 DEF CarriedOK

LEMMA CarriedAppends ==
  ASSUME Typed, CarriedOK, NEW m \in 1..Messages, Carried' = Append(Carried, m),
         \A k \in DOMAIN Carried : Carried[k] < m, m <= Written, Written' = Written
  PROVE  CarriedOK'
<1>1. PICK q : q = Carried  OBVIOUS
<1>2. PICK r : r = Append(q, m)  OBVIOUS
<1>3. /\ q \in Seq(1..Messages) /\ Written \in Int
      /\ r \in Seq(1..Messages) /\ Len(r) = Len(q) + 1 /\ r[Len(q) + 1] = m
      /\ \A k \in 1..Len(q) : r[k] = q[k]
      /\ Len(q) \in Nat /\ m \in Nat /\ DOMAIN q = 1..Len(q)
      /\ \A k \in 1..Len(q) : q[k] \in Nat
  BY <1>1, <1>2, CarriedTyped, ConnsFacts
<1>4. \A k \in 1..Len(q) : /\ q[k] \in Nat /\ k <= q[k] /\ q[k] <= Written /\ q[k] < m
                           /\ q[k] + (Len(q) - k) <= q[Len(q)]
  <2> SUFFICES ASSUME NEW k \in 1..Len(q)
      PROVE  /\ q[k] \in Nat /\ k <= q[k] /\ q[k] <= Written /\ q[k] < m
             /\ q[k] + (Len(q) - k) <= q[Len(q)]
    OBVIOUS
  <2>1. Len(q) \in DOMAIN q /\ k \in DOMAIN q /\ k <= Len(q)  BY <1>3
  <2> QED  BY <1>1, <1>3, <2>1 DEF CarriedOK
<1>5. Len(q) + 1 <= m
  <2>1. CASE Len(q) = 0  BY <1>3, <2>1
  <2>2. CASE Len(q) # 0
    <3>1. Len(q) \in 1..Len(q)  BY <1>3, <2>2
    <3> QED  BY <1>3, <1>4, <3>1
  <2> QED  BY <2>1, <2>2
<1>6. \A k \in 1..Len(q) : r[k] + (Len(r) - k) <= m
  <2> SUFFICES ASSUME NEW k \in 1..Len(q) PROVE r[k] + (Len(r) - k) <= m  OBVIOUS
  <2>1. Len(q) \in 1..Len(q)  BY <1>3
  <2>2. q[Len(q)] \in Nat /\ q[Len(q)] < m  BY <1>4, <2>1
  <2>3. r[k] \in Nat /\ r[k] + (Len(q) - k) <= q[Len(q)]  BY <1>3, <1>4
  <2> QED  BY <1>3, <2>2, <2>3
<1>7. \A k \in DOMAIN r : k <= r[k] /\ r[k] <= Written  BY <1>3, <1>4, <1>5
<1>8. \A k, l \in DOMAIN r : k <= l => r[k] + (l - k) <= r[l]
  <2> SUFFICES ASSUME NEW k \in 1..Len(r), NEW l \in 1..Len(r), k <= l PROVE r[k] + (l - k) <= r[l]
    BY <1>3
  <2>1. CASE l = Len(r)
    <3>1. CASE k = l  BY <1>3, <2>1, <3>1
    <3>2. CASE k # l
      <4>1. k \in 1..Len(q)  BY <1>3, <2>1, <3>2
      <4> QED  BY <1>3, <1>6, <2>1, <4>1
    <3> QED  BY <3>1, <3>2
  <2>2. CASE l # Len(r)
    <3>1. k \in 1..Len(q) /\ l \in 1..Len(q)  BY <1>3, <2>2
    <3>2. q[k] + (l - k) <= q[l]  BY <1>1, <1>3, <3>1 DEF CarriedOK
    <3> QED  BY <1>3, <3>1, <3>2
  <2> QED  BY <2>1, <2>2
<1>9. Carried' = r  BY <1>1, <1>2
<1> QED  BY <1>7, <1>8, <1>9 DEF CarriedOK

LEMMA CarriedOKNext == IInv /\ [Plain]_vars => CarriedOK'
<1> SUFFICES ASSUME IInv, Typed, ConnOK, StreamOK, CarriedOK, SendOK, [Plain]_vars PROVE CarriedOK'  BY DEF IInv
<1>0. Written \in Int  BY CarriedTyped
<1>1. CASE UNCHANGED <<mainVars, get_, conns, in, out>>
  BY <1>0, <1>1, CarriedSame, CarriedShrinks DEF Written, mainVars, In, Out
<1>2. CASE WakesSpuriously /\ UNCHANGED <<loopVars, handlerVars, netVars, crashed>>
  <2>1. Written' = Written /\ UNCHANGED <<get_, In, Out>>
    BY <1>2 DEF WakesSpuriously, Goes, sharedVars, netVars, attemptVars, connVars, In, Out, Written
  <2> QED  BY <1>0, <2>1, CarriedSame, CarriedShrinks
<1>3. CASE MainStep  BY <1>3, MainCarried, CarriedShrinks
<1>4. CASE Handlers /\ BatchRest
  <2>1. surplus' = surplus  BY PlainFacts
  <2> QED  BY <1>0, <1>4, <2>1, HandlersCarried, CarriedShrinks
<1>5. CASE Functors /\ LoopRest
  <2>1. PICK m : m = Work[1].m  OBVIOUS
  <2>2. 1 \in DOMAIN Work  BY <1>5, FunctorsWork
  <2>3. CASE Carried' = Carried  BY <1>0, <1>5, <2>3, FunctorsCarried, CarriedShrinks
  <2>4. CASE Work[1].f = "send" /\ Carried' = Append(Carried, m)
    <3>1. m \in 1..Written /\ \A k \in DOMAIN Carried : Carried[k] < m
      BY <2>1, <2>2, <2>4 DEF SendOK
    <3>2. Written <= Messages /\ Messages \in Nat  BY CarriedTyped, ConnsFacts
    <3>3. m \in 1..Messages /\ m <= Written  BY <1>0, <3>1, <3>2
    <3>4. Written' = Written  BY <1>5, FunctorsCarried
    <3> QED  BY <2>4, <3>1, <3>3, <3>4, CarriedAppends
  <2> QED  BY <1>5, <2>1, <2>3, <2>4, FunctorsCarried
<1>6. CASE NetStep  BY <1>0, <1>6, NetCarried, CarriedShrinks
<1> QED  BY <1>1, <1>2, <1>3, <1>4, <1>5, <1>6
  DEF Plain, Next, LoopStep, LoopRest, BatchRest, vars, mainVars, sharedVars, netVars,
      attemptVars, connVars

(* The messages that wait stay in order behind the messages carried.        *)
LEMMA SendShrinks ==
  ASSUME Typed, SendOK, Carried' = Carried \/ Prefix(Carried, Carried'),
         Written <= Written', Written' \in Int,
         \/ Work' = Work \/ Work' = <<>> \/ Moved(Work, Work', 1)
         \/ \E d \in {0, 1}, f \in Functs : f.f # "send" /\ Added(Work, Work', d, f)
  PROVE  SendOK'
<1>1. /\ \A k \in DOMAIN Carried' : k \in DOMAIN Carried /\ Carried'[k] = Carried[k]
      /\ Written \in Int
  BY CarriedTyped DEF Prefix
<1>2. CASE Work' = Work
  BY <1>1, <1>2 DEF SendOK
<1>3. CASE Work' = <<>>  BY <1>3 DEF SendOK
<1>4. CASE Moved(Work, Work', 1)
  BY <1>1, <1>4 DEF SendOK, Moved
<1>5. CASE \E d \in {0, 1}, f \in Functs : f.f # "send" /\ Added(Work, Work', d, f)
  <2>1. PICK d \in {0, 1}, f \in Functs : f.f # "send" /\ Added(Work, Work', d, f)  BY <1>5
  <2>2. \A i \in DOMAIN Work' : Work'[i].f = "send" =>
           i \in Nat /\ i < Len(Work') /\ i + d \in DOMAIN Work /\ Work'[i] = Work[i + d]
    BY <2>1 DEF Added
  <2>3. \A i, j \in DOMAIN Work' : j < i /\ i < Len(Work') =>
           j \in Nat /\ j + d \in DOMAIN Work /\ Work'[j] = Work[j + d]
    BY <2>1 DEF Added
  <2>4. Len(Work') \in Nat  BY <2>1 DEF Added
  <2> QED  BY <1>1, <2>2, <2>3, <2>4 DEF SendOK
<1> QED  BY <1>2, <1>3, <1>4, <1>5

LEMMA SendOKNext == IInv /\ [Plain]_vars => SendOK'
<1> SUFFICES ASSUME IInv, Typed, MainOK, ConnOK, StreamOK, CarriedOK, SendOK, [Plain]_vars PROVE SendOK'  BY DEF IInv
<1>0. Written \in Int  BY CarriedTyped
<1>1. CASE UNCHANGED <<mainVars, get_, conns, in, out, batch, queue>>
  BY <1>0, <1>1, CarriedSame, SendShrinks DEF Written, mainVars, Work, In, Out
<1>2. CASE WakesSpuriously /\ UNCHANGED <<loopVars, handlerVars, netVars, crashed>>
  <2>1. Written' = Written /\ UNCHANGED <<get_, In, Out, batch, queue>>
    BY <1>2 DEF WakesSpuriously, Goes, sharedVars, netVars, loopVars, attemptVars, connVars,
       In, Out, Written
  <2> QED  BY <1>0, <2>1, CarriedSame, SendShrinks DEF Work
<1>3. CASE MainStep
  <2>1. Carried' = Carried /\ Written <= Written' /\ Written' \in Int  BY <1>3, MainCarried
  <2>2. CASE Work' = Work  BY <2>1, <2>2, SendShrinks
  <2>3. CASE QueuedByMain /\ main # "write"
    <3>1. \A f \in {"start", "stop", "shutdown", "setClose", "forceClose"},
             c \in Conns \union {NoConn} :
             Functor(f, c, 0) \in Functs /\ Functor(f, c, 0).f # "send"
      BY ConnsFacts DEF Functor, Functs
    <3>2. held \in Conns \union {NoConn} /\ connection_ \in Conns \union {NoConn}
      BY DEF Typed, TypeOK
    <3>3. \E f \in Functs : f.f # "send" /\ Added(Work, Work', 0, f)
      BY <2>3, <3>1, <3>2 DEF QueuedByMain
    <3> QED  BY <2>1, <3>3, SendShrinks
  <2>4. CASE QueuedByMain /\ main = "write"
    <3>1. PICK f : f = Functor("send", conn_, all)  OBVIOUS
    <3>2. Added(Work, Work', 0, f) /\ conn_ # NoConn  BY <2>4, <3>1 DEF QueuedByMain
    <3>3. /\ f.f = "send" /\ f.c \in Conns /\ f.m = all
      BY <3>1, <3>2 DEF Functor, Typed, TypeOK
    <3>4. /\ Written = all - 1 /\ Written' = all /\ all \in Nat /\ all >= 1
      <4>1. main' = "append" /\ all' = all
        BY <1>3, <2>4 DEF MainStep, MainMoves, Connect, Already, AppendAll, Write, Wait,
           DisconnectStores, Disconnect, ReleaseConn, DestroyClient, SetClose, ForceClose,
           StopConnector, Join, Quit, Goes
      <4> QED  BY <2>4, <4>1 DEF Written, MainOK, Typed, TypeOK
    <3>5. /\ \A k \in DOMAIN Carried : Carried[k] \in Int /\ Carried[k] < all
          /\ \A j \in DOMAIN Work : /\ Work[j].f \notin {"shutdown", "forceClose", "forceCloseInLoop"}
                                    /\ Work[j].f = "send" => Work[j].m < all
      <4>1. \A k \in DOMAIN Carried : Carried[k] \in Int  BY CarriedTyped, ConnsFacts
      <4>2. \A k \in DOMAIN Carried : Carried[k] < all  BY <3>4, <4>1 DEF CarriedOK
      <4>3. \A j \in DOMAIN Work : Work[j].f = "send" => Work[j].m < all  BY <3>4 DEF SendOK
      <4>4. \A j \in DOMAIN Work : Work[j].f \notin {"shutdown", "forceClose", "forceCloseInLoop"}
        BY <2>4 DEF IInv, ShutdownOK, CloseOK, Before
      <4> QED  BY <4>1, <4>2, <4>3, <4>4
    <3>6. \A i \in DOMAIN Work' : i \in DOMAIN Work \/ Work'[i] = f  BY <3>2 DEF Added
    <3>7. \A i \in DOMAIN Work : Work'[i] = Work[i]  BY <3>2 DEF Added
    <3>8. \A i, j \in DOMAIN Work' : j < i => j \in DOMAIN Work  BY <3>2 DEF Added
    <3> QED  BY <2>1, <3>3, <3>4, <3>5, <3>6, <3>7, <3>8 DEF SendOK
  <2> QED  BY <1>3, <2>2, <2>3, <2>4, MainWork
<1>4. CASE /\ Stations
           /\ UNCHANGED <<mainVars, sharedVars, handlerVars, connVars, netVars, crashed>>
  <2>1. Work' = Work \/ Work' = <<>>  BY <1>4, StationsWork
  <2>2. Carried' = Carried /\ Written' = Written
    BY <1>4, CarriedSame DEF Written, mainVars, sharedVars, netVars, attemptVars, connVars, In, Out
  <2> QED  BY <1>0, <2>1, <2>2, SendShrinks
<1>5. CASE Handlers /\ BatchRest
  <2>1. PICK f : f = Functor("connectDestroyed", cur, 0)  OBVIOUS
  <2>2. f \in Functs /\ f.f # "send"  BY <2>1, ConnsFacts DEF Functor, Functs, Typed, TypeOK
  <2>3. Work' = Work \/ Added(Work, Work', 0, f)  BY <1>5, <2>1, HandlersWork
  <2>4. Written' = Written /\ Carried' = Carried
    <3>1. surplus' = surplus  BY PlainFacts
    <3> QED  BY <1>5, <3>1, HandlersCarried
  <2> QED  BY <1>0, <2>2, <2>3, <2>4, SendShrinks
<1>6. CASE Functors /\ LoopRest
  <2>1. 1 \in DOMAIN Work /\ Written' = Written /\ Work[1] \in Functs
    BY <1>6, FunctorsWork, FunctorsCarried
  <2>2. CASE Carried' = Carried
    <3>1. PICK f : f = Functor("forceCloseInLoop", Work[1].c, 0)  OBVIOUS
    <3>2. f \in Functs /\ f.f # "send"  BY <2>1, <3>1, ConnsFacts DEF Functor, Functs
    <3>3. Moved(Work, Work', 1) \/ Added(Work, Work', 1, f)  BY <1>6, <3>1, FunctorsWork DEF Closed
    <3> QED  BY <1>0, <2>1, <2>2, <3>2, <3>3, SendShrinks
  <2>3. CASE Work[1].f = "send" /\ Carried' = Append(Carried, Work[1].m)
    <3>1. Moved(Work, Work', 1)  BY <1>6, <2>3, FunctorsWork DEF Closed
    <3>2. Carried \in Seq(1..Messages)  BY CarriedTyped
    <3>3. \A k \in DOMAIN Carried' :
             (k \in DOMAIN Carried /\ Carried'[k] = Carried[k]) \/ Carried'[k] = Work[1].m
      BY <2>3, <3>2
    <3> SUFFICES ASSUME NEW i \in DOMAIN Work', Work'[i].f = "send"
        PROVE  /\ Work'[i].c \in Conns /\ Work'[i].m \in 1..Written'
               /\ \A k \in DOMAIN Carried' : Carried'[k] < Work'[i].m
               /\ \A j \in DOMAIN Work' : j < i =>
                    /\ Work'[j].f \notin {"shutdown", "forceClose", "forceCloseInLoop"}
                    /\ Work'[j].f = "send" => Work'[j].m < Work'[i].m
      BY DEF SendOK
    <3>4. i \in Nat /\ i > 0 /\ i + 1 \in DOMAIN Work /\ Work[i + 1] = Work'[i]  BY <3>1 DEF Moved
    <3>5. Work[1].m < Work'[i].m  BY <2>1, <2>3, <3>4 DEF SendOK
    <3>6. \A j \in DOMAIN Work' : j \in Nat /\ j + 1 \in DOMAIN Work /\ Work[j + 1] = Work'[j]
      BY <3>1 DEF Moved
    <3> QED  BY <2>1, <3>3, <3>4, <3>5, <3>6 DEF SendOK
  <2> QED  BY <1>6, <2>2, <2>3, FunctorsCarried
<1>7. CASE NetStep
  <2>1. Work' = Work  BY <1>7, NetWork
  <2> QED  BY <1>0, <1>7, <2>1, NetCarried, SendShrinks
<1> QED
  BY <1>1, <1>2, <1>3, <1>4, <1>5, <1>6, <1>7
  DEF Plain, Next, LoopStep, LoopRest, BatchRest, vars, mainVars, sharedVars, netVars, loopVars,
      attemptVars, connVars

LEMMA DeliverOKNext == IInv /\ [Plain]_vars => DeliverOK'
<1> SUFFICES ASSUME IInv, Typed, ConnOK, SendOK, DeliverOK, [Plain]_vars PROVE DeliverOK'
  BY DEF IInv
<1>0. /\ conns \in Nat /\ losses \in Nat /\ 1 \in Conns
      /\ state_ \in [Conns -> {"kConnecting", "kConnected", "kDisconnecting", "kDisconnected"}]
      /\ net \in [Conns -> {"none", "up", "half", "closed"}]
      /\ connection_ \in Conns \union {NoConn}
  <2>1. conns \in Nat /\ losses \in Nat  BY ConnsTyped
  <2> QED  BY <2>1, ConnsFacts DEF Typed, TypeOK
<1>1. CASE UNCHANGED <<batch, queue, losses, net, state_>>
  BY <1>1 DEF DeliverOK, Work
<1>2. CASE WakesSpuriously /\ UNCHANGED <<loopVars, handlerVars, netVars, crashed>>
  <2>1. UNCHANGED <<batch, queue, losses, net, state_>>
    BY <1>2 DEF WakesSpuriously, attemptVars, connVars, netVars, loopVars
  <2> QED  BY <2>1 DEF DeliverOK, Work
<1>3. CASE MainStep
  <2>1. /\ losses' = losses /\ net' = net
        /\ \/ state_' = state_
           \/ /\ connection_ # NoConn /\ state_[connection_] = "kConnected"
              /\ state_' = [state_ EXCEPT ![connection_] = "kDisconnecting"]
    BY <1>3 DEF MainStep, MainMoves, Connect, Already, AppendAll, Write, Wait, DisconnectStores,
       Disconnect, ReleaseConn, DestroyClient, SetClose, ForceClose, StopConnector, Join, Quit,
       Goes, attemptVars, connVars, netVars
  <2>2. state_[1] \in {"kConnected", "kDisconnecting"} => state_'[1] \in {"kConnected", "kDisconnecting"}
    BY <1>0, <2>1
  <2>3. CASE Work' = Work  BY <2>1, <2>2, <2>3 DEF DeliverOK
  <2>4. CASE QueuedByMain /\ main # "write"
    <3>1. \A i \in DOMAIN Work' : Work'[i].f = "send" => i \in DOMAIN Work /\ Work'[i] = Work[i]
      BY <2>4 DEF QueuedByMain, Added, Functor
    <3> QED  BY <2>1, <2>2, <3>1 DEF DeliverOK
  <2>5. CASE QueuedByMain /\ main = "write"
    <3>1. losses = 0 => conn_ = 1 /\ state_[1] = "kConnected" /\ net[1] = "up"
      BY <2>5 DEF IInv, FirstOK, Before
    <3>2. \A i \in DOMAIN Work' :
             (i \in DOMAIN Work /\ Work'[i] = Work[i]) \/ Work'[i].c = conn_
      BY <2>5 DEF QueuedByMain, Added, Functor
    <3> QED  BY <2>1, <2>2, <3>1, <3>2 DEF DeliverOK
  <2> QED  BY <1>3, <2>3, <2>4, <2>5, MainWork DEF IInv
<1>4. CASE /\ Stations
           /\ UNCHANGED <<mainVars, sharedVars, handlerVars, connVars, netVars, crashed>>
  <2>1. Work' = Work \/ Work' = <<>>  BY <1>4, StationsWork DEF IInv
  <2> QED  BY <1>4, <2>1 DEF DeliverOK, attemptVars, connVars, netVars
<1>5. CASE Handlers /\ BatchRest
  <2>1. \A i \in DOMAIN Work' : Work'[i].f = "send" => i \in DOMAIN Work /\ Work'[i] = Work[i]
    BY <1>5, HandlersWork DEF Added, Functor
  <2>2. losses' = losses
    BY <1>5 DEF Handlers, NewConnection, ConnectEstablished, ReportUp, Release, OnMessage, Notify,
       HandleClose, ReportDown, RemoveConnection, Restart, CloseDirectly, AttemptRefused, DispatchFreed, netVars
  <2>3. CASE ConnectEstablished
    BY <1>0, <2>1, <2>2, <2>3 DEF ConnectEstablished, DeliverOK
  <2>4. CASE HandleClose
    <3>1. PICK c \in Conns : net[c] = "closed" /\ state_' = [state_ EXCEPT ![c] = "kDisconnected"]
      BY <2>4 DEF HandleClose, Closes, Typed, TypeOK
    <3>2. net' = net  BY <2>4 DEF HandleClose, netVars
    <3> QED  BY <1>0, <2>1, <2>2, <3>1, <3>2 DEF DeliverOK
  <2>5. CASE ~ConnectEstablished /\ ~HandleClose
    <3>1. UNCHANGED <<state_, net>>
      BY <1>5, <2>5 DEF Handlers, NewConnection, ReportUp, Release, OnMessage, Notify,
         ReportDown, RemoveConnection, Restart, CloseDirectly, AttemptRefused, DispatchFreed, attemptVars, connVars, netVars
    <3> QED  BY <2>1, <2>2, <3>1 DEF DeliverOK
  <2> QED  BY <2>3, <2>4, <2>5
<1>6. CASE Functors /\ LoopRest
  <2>1. /\ 1 \in DOMAIN Work /\ Work[1] \in Functs /\ Work[1] = Head(batch)
        /\ Moved(Work, Work', 1) \/ Closed
    BY <1>6, FunctorsWork
  <2>2. \A i \in DOMAIN Work' : Work'[i].f = "send" =>
           i \in Nat /\ i > 0 /\ i + 1 \in DOMAIN Work /\ Work'[i] = Work[i + 1]
    BY <2>1 DEF Moved, Closed, Added, Functor
  <2>3. (\E i \in DOMAIN Work' : Work'[i].f = "send") =>
           Work[1].f \notin {"shutdown", "forceClose", "forceCloseInLoop"}
    BY <2>1, <2>2 DEF SendOK
  <2>4. losses' = losses  BY <1>6 DEF Functors
  <2>5. Work[1].f \notin {"shutdown", "forceClose", "forceCloseInLoop"} => UNCHANGED <<state_, net>>
    BY <1>6, <2>1 DEF Functors
  <2> QED  BY <2>2, <2>3, <2>4, <2>5 DEF DeliverOK
<1>7. CASE NetStep
  <2>1. Work' = Work /\ state_' = state_  BY <1>7, NetWork DEF NetStep, attemptVars, connVars
  <2>2. CASE Echo  BY <2>1, <2>2 DEF Echo, DeliverOK
  <2>3. CASE ServerCloses  BY <1>0, <2>1, <2>3 DEF ServerCloses, DeliverOK
  <2>4. CASE Lose  BY <1>0, <2>4 DEF Lose, DeliverOK
  <2> QED  BY <1>7, <2>2, <2>3, <2>4 DEF NetStep
<1> QED
  BY <1>1, <1>2, <1>3, <1>4, <1>5, <1>6, <1>7
  DEF Plain, Next, LoopStep, LoopRest, BatchRest, vars, attemptVars, connVars, netVars, loopVars

(* While nothing is lost, a message leaves Work only to be carried.         *)
LEMMA CompleteKept ==
  ASSUME CompleteOK, losses' = 0 => losses = 0, loop' # "exited" => loop # "exited",
         Carried' = Carried, Written' = Written,
         loop' # "exited" => \A i \in DOMAIN Work : i \in DOMAIN Work' /\ Work'[i] = Work[i]
  PROVE  CompleteOK'
<1> QED  BY DEF CompleteOK

LEMMA CompleteOKNext == IInv /\ [Plain]_vars => CompleteOK'
<1> SUFFICES ASSUME IInv, Typed, ConnOK, StreamOK, SendOK, CompleteOK, [Plain]_vars PROVE CompleteOK'  BY DEF IInv
<1>0. Written \in Int /\ Carried \in Seq(1..Messages) /\ Written <= Messages /\ Messages \in Nat
  BY CarriedTyped, ConnsFacts
<1>1. CASE UNCHANGED <<mainVars, get_, conns, in, out, batch, queue, losses, loop>>
  BY <1>1, CarriedSame, CompleteKept DEF Written, mainVars, Work, In, Out
<1>2. CASE WakesSpuriously /\ UNCHANGED <<loopVars, handlerVars, netVars, crashed>>
  <2>1. Written' = Written /\ UNCHANGED <<get_, In, Out, batch, queue, losses, loop>>
    BY <1>2 DEF WakesSpuriously, Goes, sharedVars, netVars, loopVars, attemptVars, connVars,
       In, Out, Written
  <2> QED  BY <2>1, CarriedSame, CompleteKept DEF Work
<1>3. CASE MainStep
  <2>1. Carried' = Carried /\ losses' = losses /\ loop' = loop
    BY <1>3, MainCarried DEF MainStep, netVars
  <2>2. \A i \in DOMAIN Work : i \in DOMAIN Work' /\ Work'[i] = Work[i]
    BY <1>3, MainWork DEF QueuedByMain, Added, IInv
  <2>3. CASE main # "write"
    <3>1. \/ main' # "write" /\ all' = all
          \/ main' = "write" /\ all' = all + 1
      BY <1>3, <2>3 DEF MainStep, MainMoves, Connect, Already, AppendAll, Write, Wait, DisconnectStores,
         Disconnect, ReleaseConn, DestroyClient, SetClose, ForceClose, StopConnector, Join, Quit, Goes
    <3>2. Written' = Written
      <4>1. all \in Nat  BY ConnsFacts DEF Typed, TypeOK
      <4> QED  BY <2>3, <3>1, <4>1 DEF Written
    <3> QED  BY <2>1, <2>2, <3>2, CompleteKept
  <2>4. CASE main = "write"
    <3>1. Write /\ MainRest
      BY <1>3, <2>4 DEF MainStep, MainMoves, Connect, Already, AppendAll, Wait, DisconnectStores,
         Disconnect, ReleaseConn, DestroyClient, SetClose, ForceClose, StopConnector, Join, Quit, Goes,
         MainRest
    <3>2. Written = all - 1 /\ Written' = all /\ all \in Nat /\ all >= 1
      BY <2>4, <3>1 DEF Write, Goes, Written, IInv, MainOK, Typed, TypeOK
    <3>3. losses = 0 => \E i \in DOMAIN Work' : Work'[i].f = "send" /\ Work'[i].m = all
      <4> SUFFICES ASSUME losses = 0
          PROVE  \E i \in DOMAIN Work' : Work'[i].f = "send" /\ Work'[i].m = all
        OBVIOUS
      <4>1. PICK f : f = Functor("send", conn_, all)  OBVIOUS
      <4>2. conn_ = 1 /\ state_[1] = "kConnected"  BY <2>4 DEF IInv, FirstOK, Before
      <4>3. queue' = Append(queue, f) /\ batch' = batch
        BY <3>1, <4>1, <4>2 DEF Write, MainRest, Queued, NoConn
      <4>4. f \in Functs /\ f.f = "send" /\ f.m = all
        BY <4>1, <4>2, ConnsFacts DEF Functor, Functs, Typed, TypeOK
      <4>5. Added(Work, Work', 0, f)  BY <4>3, <4>4, QueuedWork
      <4> QED  BY <4>4, <4>5 DEF Added
    <3> QED  BY <2>1, <2>2, <3>2, <3>3 DEF CompleteOK
  <2> QED  BY <2>3, <2>4
<1>4. CASE /\ Stations
           /\ UNCHANGED <<mainVars, sharedVars, handlerVars, connVars, netVars, crashed>>
  <2>1. /\ loop' # "exited" => Work' = Work /\ loop # "exited"
    BY <1>4, StationsWork DEF IInv, Stations, Turn
  <2>2. Carried' = Carried /\ Written' = Written /\ losses' = losses
    BY <1>4, CarriedSame DEF Written, mainVars, sharedVars, netVars, attemptVars, connVars, In, Out
  <2> QED  BY <2>1, <2>2, CompleteKept
<1>5. CASE Handlers /\ BatchRest
  <2>1. \A i \in DOMAIN Work : i \in DOMAIN Work' /\ Work'[i] = Work[i]
    BY <1>5, HandlersWork DEF Added
  <2>2. losses' = losses /\ loop' = loop
    BY <1>5 DEF Handlers, NewConnection, ConnectEstablished, ReportUp, Release, OnMessage, Notify,
       HandleClose, ReportDown, RemoveConnection, Restart, CloseDirectly, AttemptRefused, DispatchFreed, netVars,
       BatchRest, LoopRest
  <2>3. Written' = Written /\ Carried' = Carried
    <3>1. surplus' = surplus  BY PlainFacts
    <3> QED  BY <1>5, <3>1, HandlersCarried
  <2> QED  BY <2>1, <2>2, <2>3, CompleteKept
<1>6. CASE Functors /\ LoopRest
  <2>1. /\ 1 \in DOMAIN Work /\ Work[1] \in Functs
        /\ Moved(Work, Work', 1) \/ Closed
        /\ Written' = Written /\ losses' = losses /\ loop' = loop
    BY <1>6, FunctorsWork, FunctorsCarried DEF Functors, LoopRest, IInv
  <2>2. \A i \in DOMAIN Work : i # 1 => i - 1 \in DOMAIN Work' /\ Work'[i - 1] = Work[i]
    BY <2>1 DEF Moved, Closed, Added
  <2> SUFFICES ASSUME losses = 0, loop # "exited" PROVE CompleteOK'
    BY <2>1 DEF CompleteOK
  <2>3. CASE Work[1].f # "send"
    <3>1. Carried' = Carried  BY <1>6, <2>3, FunctorsCarried DEF IInv
    <3> QED  BY <2>1, <2>2, <2>3, <3>1 DEF CompleteOK
  <2>4. CASE Work[1].f = "send"
    <3>1. PICK m : m = Work[1].m  OBVIOUS
    <3>2. PICK n : n = Len(Carried)  OBVIOUS
    <3>3. n \in Nat /\ DOMAIN Carried = 1..n  BY <1>0, <3>2
    <3>4. Carried' = Append(Carried, m)
      BY <1>6, <2>1, <2>4, <3>1, FunctorsCarried DEF IInv, DeliverOK
    <3>5. m \in 1..Written /\ \A k \in 1..n : Carried[k] < m
      BY <2>1, <2>4, <3>1, <3>3 DEF IInv, SendOK
    <3>6. n < m
      <4>1. CASE n = 0  BY <3>5, <4>1
      <4>2. CASE n # 0
        <5>1. n \in 1..n /\ Carried[n] = n  BY <3>3, <4>2 DEF CompleteOK
        <5> QED  BY <3>5, <5>1
      <4> QED  BY <4>1, <4>2
    <3>7. m = n + 1
      <4> SUFFICES ASSUME m # n + 1 PROVE FALSE  OBVIOUS
      <4>1. n + 1 < m /\ n + 1 \in 1..Messages /\ n + 1 <= Written  BY <1>0, <3>3, <3>5, <3>6
      <4>2. PICK i \in DOMAIN Work : Work[i].f = "send" /\ Work[i].m = n + 1
        BY <3>2, <3>3, <4>1 DEF CompleteOK
      <4>3. i # 1 => 1 < i  BY WorkTyped
      <4>4. i # 1 => m < n + 1  BY <2>1, <2>4, <3>1, <4>2, <4>3 DEF IInv, SendOK
      <4> QED  BY <1>0, <3>1, <3>3, <3>5, <4>1, <4>2, <4>4
    <3>8. /\ Len(Carried') = n + 1
          /\ \A k \in DOMAIN Carried' : Carried'[k] = k
      <4>1. m \in 1..Messages  BY <1>0, <3>5
      <4>2. PICK q : q = Carried  OBVIOUS
      <4>3. \A k \in 1..n : q[k] = k  BY <3>3, <4>2 DEF CompleteOK
      <4>4. PICK r : r = Append(q, m)  OBVIOUS
      <4>5. /\ DOMAIN r = 1..(n + 1) /\ Len(r) = n + 1 /\ r[n + 1] = m
            /\ \A k \in 1..n : r[k] = q[k]
        BY <1>0, <3>2, <3>3, <4>1, <4>2, <4>4
      <4> QED  BY <3>3, <3>4, <3>7, <4>2, <4>3, <4>4, <4>5
    <3>9. \A w \in 1..Messages : n + 1 < w /\ w <= Written =>
             \E i \in DOMAIN Work' : Work'[i].f = "send" /\ Work'[i].m = w
      <4> SUFFICES ASSUME NEW w \in 1..Messages, n + 1 < w, w <= Written
          PROVE  \E i \in DOMAIN Work' : Work'[i].f = "send" /\ Work'[i].m = w
        OBVIOUS
      <4>1. PICK i \in DOMAIN Work : Work[i].f = "send" /\ Work[i].m = w
        BY <3>2, <3>3 DEF CompleteOK
      <4>2. i # 1
        <5>1. i = 1 => w = n + 1  BY <3>1, <3>7, <4>1
        <5>2. w # n + 1  BY <1>0, <3>3
        <5> QED  BY <5>1, <5>2
      <4> QED  BY <2>2, <4>1, <4>2
    <3> QED  BY <2>1, <3>8, <3>9 DEF CompleteOK
  <2> QED  BY <2>3, <2>4
<1>7. CASE NetStep
  <2>1. Work' = Work /\ loop' = loop /\ Written' = Written
    BY <1>7, NetWork, NetCarried DEF NetStep, loopVars
  <2>2. losses' = 0 => losses = 0 /\ Carried' = Carried
    <3>1. losses \in Nat  BY ConnsTyped
    <3>2. losses' = losses \/ losses' = losses + 1
      BY <1>7 DEF NetStep, Echo, ServerCloses, Lose
    <3> QED  BY <1>7, <3>1, <3>2, NetCarried
  <2> QED  BY <2>1, <2>2 DEF CompleteOK
<1> QED
  BY <1>1, <1>2, <1>3, <1>4, <1>5, <1>6, <1>7
  DEF Plain, Next, LoopStep, LoopRest, BatchRest, vars, mainVars, sharedVars, netVars, loopVars,
      attemptVars, connVars

(* A main() that was notified has all its messages, and there are no more.  *)
LEMMA WokenOKNext == IInv /\ [Plain]_vars => WokenOK'
<1> SUFFICES ASSUME IInv, Typed, MainOK, WokenOK, [Plain]_vars, main' = "woken"
    PROVE Len(get_') = Messages
  BY DEF IInv, WokenOK
<1>1. CASE Handlers /\ BatchRest
  <2>1. CASE Notify  BY <2>1 DEF Notify, sharedVars, WokenOK, MainOK
  <2>2. CASE OnMessage
    <3>1. main = "woken" /\ In # <<>>
      <4>1. PICK c \in active : in[c] # <<>>  BY <2>2 DEF OnMessage
      <4>2. c \in Conns  BY DEF Typed, TypeOK
      <4>3. c = conns  BY <4>1, <4>2, LastStream DEF IInv
      <4> QED  BY <2>2, <4>1, <4>3 DEF OnMessage, In
    <3>2. Len(get_) = Messages  BY <3>1 DEF WokenOK
    <3>3. /\ Carried \in Seq(1..Messages) /\ Messages \in Nat /\ Written <= Messages
          /\ Written \in Int
          /\ Len(Carried) = Messages + Len(In) + Len(Out)
          /\ Len(In) \in Nat /\ Len(Out) \in Nat
      BY <3>2, CarriedTyped, ConnsFacts
    <3>4. Len(In) # 0  BY <3>1, StreamTyped
    <3>5. Len(Carried) \in DOMAIN Carried  BY <3>3, <3>4
    <3>6. Len(Carried) <= Carried[Len(Carried)] /\ Carried[Len(Carried)] <= Written
      BY <3>5 DEF IInv, CarriedOK
    <3>7. Carried[Len(Carried)] \in 1..Messages  BY <3>3, <3>5
    <3> QED  BY <3>3, <3>4, <3>6, <3>7
  <2>3. CASE ~Notify /\ ~OnMessage
    BY <1>1, <2>3 DEF Handlers, NewConnection, ConnectEstablished, ReportUp, Release,
       HandleClose, ReportDown, RemoveConnection, Restart, CloseDirectly, AttemptRefused, DispatchFreed, sharedVars, WokenOK
  <2> QED  BY <2>1, <2>2, <2>3
<1>2. CASE MainStep
  BY <1>2 DEF MainStep, MainMoves, Connect, Already, AppendAll, Write, Wait, DisconnectStores,
     Disconnect, ReleaseConn, DestroyClient, SetClose, ForceClose, StopConnector, Join, Quit, Goes
<1>3. CASE WakesSpuriously
  BY <1>3 DEF WakesSpuriously, Goes
<1>4. CASE main' = main /\ get_' = get_  BY <1>4 DEF WokenOK
<1> QED
  BY <1>1, <1>2, <1>3, <1>4
  DEF Plain, Next, LoopStep, LoopRest, BatchRest, NetStep, Functors, vars, mainVars, sharedVars
-----------------------------------------------------------------------------
LEMMA StepInv == IInv /\ [Plain]_vars => IInv'
<1> SUFFICES ASSUME IInv, [Plain]_vars PROVE IInv'  OBVIOUS
<1>1. Typed'  BY TypedNext
<1>2. MainOK' /\ ConnOK' /\ StreamOK' /\ LatchOK' /\ FirstOK'
  BY <1>1, MainOKNext, ConnOKNext, StreamOKNext, LatchOKNext, FirstOKNext
<1>3. StartOK' /\ CloseOK' /\ ShutdownOK' /\ SendOK' /\ DeliverOK'
  BY StartOKNext, CloseOKNext, ShutdownOKNext, SendOKNext, DeliverOKNext
<1>4. CarriedOK' /\ CompleteOK' /\ WokenOK'
  BY CarriedOKNext, CompleteOKNext, WokenOKNext
<1> QED  BY <1>1, <1>2, <1>3, <1>4 DEF IInv

(* The invariant of a session up to its first surplus connection.            *)
Session == surplus \in Nat /\ (surplus = 0 => IInv)

LEMMA SurplusGrows == Next => surplus' = surplus \/ surplus' = surplus + 1
<1> SUFFICES ASSUME Next PROVE surplus' = surplus \/ surplus' = surplus + 1  OBVIOUS
<1>1. CASE MainStep
  BY <1>1 DEF MainStep, MainMoves, Connect, Already, AppendAll, Write, Wait, DisconnectStores,
     Disconnect, ReleaseConn, DestroyClient, SetClose, ForceClose, StopConnector, Join, Quit,
     attemptVars, connVars
<1>2. CASE Handlers
  BY <1>2 DEF Handlers, NewConnection, ConnectEstablished, ReportUp, Release, OnMessage, Notify,
     HandleClose, ReportDown, RemoveConnection, Restart, CloseDirectly, AttemptRefused,
     DispatchFreed, attemptVars, connVars
<1>3. CASE Functors  BY <1>3 DEF Functors
<1>4. CASE UNCHANGED connVars  BY <1>4 DEF attemptVars, connVars
<1> QED  BY <1>1, <1>2, <1>3, <1>4 DEF Next, LoopStep, NetStep, WakesSpuriously

LEMMA StepSession == Session /\ [Next]_vars => Session'
<1> SUFFICES ASSUME Session, [Next]_vars PROVE Session'  OBVIOUS
<1>1. CASE UNCHANGED vars
  <2>1. surplus' = surplus  BY <1>1 DEF vars, connVars, attemptVars
  <2>2. IInv => IInv'  BY <1>1, StepInv
  <2> QED  BY <2>1, <2>2 DEF Session
<1>2. CASE Next
  <2>1. surplus \in Nat /\ (surplus' = surplus \/ surplus' = surplus + 1)
    BY <1>2, SurplusGrows DEF Session
  <2>2. surplus' = 0 => surplus = 0 /\ Plain  BY <1>2, <2>1 DEF Plain
  <2>3. surplus' = 0 => IInv'  BY <2>2, StepInv DEF Session
  <2> QED  BY <2>1, <2>3 DEF Session
<1> QED  BY <1>1, <1>2

LEMMA InitSession == Init => Session
<1> QED  BY InitInv DEF Session, Init

LEMMA SessionInv == Spec => []Session
<1> QED  BY InitSession, StepSession, PTL DEF Spec

(* The inductive invariant of main(), the loop thread and the network, up to *)
(* the first surplus connection (one that the timer of Connector::retry      *)
(* makes beside another): the connections of a session follow each other,    *)
(* and every functor finds what it needs.                                    *)
THEOREM Invariance == Spec => [](surplus = 0 => IInv)
<1>1. Session => (surplus = 0 => IInv)  BY DEF Session
<1> QED  BY <1>1, SessionInv, PTL

LEMMA InvHolds == IInv => Inv
<1> SUFFICES ASSUME IInv, Typed, ConnOK, LatchOK, MainOK, ShutdownOK PROVE Inv  BY DEF IInv
<1>1. ShutdownFindsConnection
  <2> SUFFICES ASSUME NEW i \in DOMAIN Work, Work[i].f = "shutdown" PROVE Alive(Work[i].c)
    BY DEF ShutdownFindsConnection
  <2>1. CASE connection_ = Work[i].c /\ main \in {"release", "destroy"}
    BY <2>1 DEF Alive, ClientGone
  <2>2. CASE held = Work[i].c  BY <2>2 DEF Alive
  <2>3. CASE \E j \in DOMAIN Work : /\ i < j /\ Work[j].c = Work[i].c
                                    /\ Work[j].f \in {"forceClose", "connectDestroyed"}
    BY <2>3 DEF Alive, Holds
  <2> QED  BY <2>1, <2>2, <2>3 DEF ShutdownOK
<1>2. conns \in Nat /\ latch_ \in Nat /\ losses \in Nat /\ surplus = 0
  BY ConnsTyped DEF ConnOK
<1>3. LatchWithinMax
  BY <1>2 DEF LatchWithinMax, LatchOK, ConnOK, MainOK
<1>4. ReconnectsAfterLoss  BY <1>2 DEF ReconnectsAfterLoss, ConnOK
<1> QED  BY <1>1, <1>3, <1>4 DEF Inv, Typed

(* TcpClient::disconnect, its destructor and the loop, as long as the retry  *)
(* timer makes no surplus connection: a queued shutdown finds its connection,*)
(* the latch stays within its maximum unless a connection is lost, and the   *)
(* client reconnects after a loss and only then, for any number of messages  *)
(* and losses.                                                               *)
THEOREM InvTheorem == Spec => [](surplus = 0 => Inv)
<1>1. (surplus = 0 => IInv) => (surplus = 0 => Inv)  BY InvHolds
<1> QED  BY <1>1, Invariance, PTL

LEMMA NothingDroppedHolds == IInv => NothingDropped
<1> SUFFICES ASSUME IInv, losses = 0, loop # "exited"
    PROVE  /\ Len(Carried) <= Written /\ \A k \in DOMAIN Carried : Carried[k] = k
           /\ \A m \in 1..Messages :
                Len(Carried) < m /\ m <= Written
                  <=> \E i \in DOMAIN Work : Work[i].f = "send" /\ Work[i].m = m
           /\ \A i, j \in DOMAIN Work :
                i < j /\ Work[i].f = "send" /\ Work[j].f = "send" => Work[i].m < Work[j].m
  BY DEF NothingDropped
<1>1. PICK n : n = Len(Carried)  OBVIOUS
<1>2. /\ n \in Nat /\ DOMAIN Carried = 1..n /\ Written \in Int /\ Messages \in Nat
      /\ \A k \in 1..n : Carried[k] = k /\ Carried[k] <= Written
  <2>1. /\ Carried \in Seq(1..Messages) /\ Written \in Int /\ Messages \in Nat
        /\ \A k \in DOMAIN Carried : Carried[k] = k /\ Carried[k] <= Written
    BY CarriedTyped, ConnsFacts DEF IInv, CompleteOK, CarriedOK
  <2> QED  BY <1>1, <2>1
<1>3. n # 0 => n \in 1..n  BY <1>2
<1>4. 0 <= Written
  BY ConnsFacts DEF IInv, MainOK, Typed, TypeOK, Written
<1>5. n <= Written  BY <1>2, <1>3, <1>4
<1>6. ASSUME NEW i \in DOMAIN Work, Work[i].f = "send"
      PROVE  n < Work[i].m /\ Work[i].m <= Written
  <2>1. Work[i].m \in 1..Written /\ \A k \in 1..n : Carried[k] < Work[i].m
    BY <1>2, <1>6 DEF IInv, SendOK
  <2> QED  BY <1>2, <1>3, <2>1
<1>7. \A m \in 1..Messages : n < m /\ m <= Written
        => \E i \in DOMAIN Work : Work[i].f = "send" /\ Work[i].m = m
  BY <1>1 DEF IInv, CompleteOK
<1>8. \A i, j \in DOMAIN Work :
        i < j /\ Work[i].f = "send" /\ Work[j].f = "send" => Work[i].m < Work[j].m
  BY DEF IInv, SendOK
<1> QED  BY <1>1, <1>2, <1>5, <1>6, <1>7, <1>8

(* EchoClient::write after already(): while no connection is lost and the    *)
(* retry timer makes no surplus one, every message written is on its way,    *)
(* waits in the loop or was echoed, once and in order, for any number of     *)
(* messages.                                                                 *)
THEOREM NothingDroppedTheorem == Spec => []NothingDropped
<1>1. surplus # 0 => NothingDropped  BY DEF NothingDropped
<1>2. (surplus = 0 => IInv) => NothingDropped  BY <1>1, NothingDroppedHolds
<1> QED  BY <1>2, Invariance, PTL

LEMMA WokenMeansSameHolds == IInv => WokenMeansSame
<1> SUFFICES ASSUME IInv, main = "woken" PROVE get_ = [i \in 1..Messages |-> i]
  BY DEF WokenMeansSame
<1>1. /\ Len(get_) = Messages /\ Messages \in Nat /\ get_ \in Seq(1..Messages)
      /\ Written <= Messages /\ Written \in Int
  BY ConnsFacts, CarriedTyped DEF IInv, WokenOK, Typed, TypeOK
<1>2. DOMAIN get_ = 1..Messages /\ \A k \in 1..Messages : get_[k] \in Nat  BY <1>1
<1>3. \A k \in 1..Messages : k \in DOMAIN Carried /\ Carried[k] = get_[k]
  BY <1>2, CarriedTyped DEF IInv
<1>4. \A k \in 1..Messages : get_[k] = k
  <2> SUFFICES ASSUME NEW k \in 1..Messages PROVE get_[k] = k  OBVIOUS
  <2>1. Messages \in 1..Messages /\ k <= Messages  BY <1>1
  <2>2. k <= get_[k] /\ get_[Messages] <= Messages
    BY <1>1, <1>2, <1>3, <2>1 DEF IInv, CarriedOK
  <2>3. get_[k] + (Messages - k) <= get_[Messages]  BY <1>3, <2>1 DEF IInv, CarriedOK
  <2> QED  BY <1>1, <1>2, <2>1, <2>2, <2>3
<1> QED  BY <1>1, <1>2, <1>4

(* EchoClient::onMessage and the wait in main(): as long as the retry timer  *)
(* makes no surplus connection the notification comes with all the data that *)
(* was sent, whatever was lost before, for any number of messages.           *)
THEOREM WokenMeansSameTheorem == Spec => [](surplus = 0 => WokenMeansSame)
<1>1. (surplus = 0 => IInv) => (surplus = 0 => WokenMeansSame)  BY WokenMeansSameHolds
<1> QED  BY <1>1, Invariance, PTL
=============================================================================
