----------------------------- MODULE EchoClient -----------------------------
(***************************************************************************)
(* A session of TcpClient as the echo client drives it: the main thread    *)
(* connects, waits for the latch, writes, waits for the last echo on a     *)
(* condition variable, disconnects, and destroys the client and then the   *)
(* EventLoopThread; the loop thread sets up and tears down the connection, *)
(* reconnects after a loss, and gives the echoes to the client.            *)
(*                                                                         *)
(* An attempt of the connector that is refused is made again, and leaves a *)
(* timer behind which connects once more while the client has a connection *)
(* already: a surplus connection, which takes the place of the first one.  *)
(* Attempts that overlap are left to Connector.tla, output buffering to    *)
(* TcpConnection.tla, and a message is its number.  The client is a local  *)
(* of main(), so its memory is there until main() returns: code that uses  *)
(* the client after its destructor finds the members as they were, or ends *)
(* the process.                                                            *)
(***************************************************************************)
EXTENDS Naturals, Sequences

CONSTANTS Messages,   \* messages main() writes (TIME)
          MaxLosses,  \* connections the network loses
          MaxSurplus  \* connections made by a retry timer

ASSUME BoundsAssumption == Messages \in Nat /\ MaxLosses \in Nat /\ MaxSurplus \in Nat

Conns  == 1..(MaxLosses + MaxSurplus + 2)
NoConn == 0

VARIABLES
  main,         \* where the main thread is
  held,         \* the local conn of ~TcpClient
  all,          \* how many messages main() has appended to all
  connect_,     \* TcpClient::connect_ (retry_ is set by the constructor)
  latch_,       \* TcpClient::latch_
  connection_,  \* TcpClient::connection_
  conn_,        \* EchoClient::conn_
  get_,         \* EchoClient::get_
  loop,         \* where the loop thread is
  handler,      \* the call of the client it is in, and
  cur,          \* the connection that is about
  quit,         \* EventLoop::quit_
  queue, batch, \* pending_functors_, and what doPendingFunctors swapped out
  kept,         \* connections held by functors of the batch that have run
  active,       \* active_channels_: connections with an event to handle
  trying,       \* an attempt to connect is scheduled or under way
  timer,        \* retry() has left a startInLoop in a timer
  conns,        \* nextConnId_ - 1
  surplus,      \* how many of them the timer has made
  state_,       \* TcpConnection::state_
  closeCb,      \* TcpConnection::closeCallback_: removeConnection or direct
  net,          \* the socket of a connection
  out, in,      \* what it carries to and from the server
  losses, crashed

mainVars == <<main, held, all, connect_>>
sharedVars == <<latch_, connection_, conn_, get_>>
loopVars == <<loop, quit, batch, kept, active>>
handlerVars == <<handler, cur>>
attemptVars == <<trying, timer, conns, surplus>>
connVars == <<attemptVars, state_, closeCb>>
netVars == <<net, out, in, losses>>
vars == <<mainVars, sharedVars, loopVars, handlerVars, connVars, netVars, queue, crashed>>

Init ==
  /\ main = "start" /\ held = NoConn /\ all = 0 /\ connect_ = FALSE
  /\ latch_ = 0 /\ connection_ = NoConn /\ conn_ = NoConn /\ get_ = <<>>
  /\ loop = "ready" /\ handler = "none" /\ cur = NoConn /\ quit = FALSE
  /\ queue = <<>> /\ batch = <<>> /\ kept = {} /\ active = {}
  /\ trying = FALSE /\ timer = FALSE /\ conns = 0 /\ surplus = 0
  /\ state_ = [c \in Conns |-> "kConnecting"]
  /\ closeCb = [c \in Conns |-> "remove"]
  /\ net = [c \in Conns |-> "none"]
  /\ out = [c \in Conns \union {NoConn} |-> <<>>] /\ in = out
  /\ losses = 0 /\ crashed = FALSE

Functor(f, c, m) == [f |-> f, c |-> c, m |-> m]
Queued(f, c, m) == queue' = Append(queue, Functor(f, c, m))

\* ~EchoClient has destroyed get_ and conn_; ~TcpClient has returned
MembersGone == main \in {"destroy", "setClose", "forceClose", "stop", "quit", "join", "ended"}
ClientGone  == main \in {"quit", "join", "ended"}

Uses(gone) == crashed' \in (IF gone THEN BOOLEAN ELSE {FALSE})

\* functors still to run, and the connections they or somebody else holds: a
\* connection that nobody holds is gone, and its descriptor closed
Work == batch \o queue
Holds(f, c) == f.c = c /\ f.f \in {"send", "forceClose", "forceCloseInLoop", "connectDestroyed"}
Alive(c) ==
  \/ held = c \/ (connection_ = c /\ ~ClientGone) \/ (conn_ = c /\ ~MembersGone)
  \/ (handler # "none" /\ cur = c) \/ c \in kept
  \/ \E i \in DOMAIN Work : Holds(Work[i], c)
-----------------------------------------------------------------------------
(***************************************************************************)
(* The main thread.                                                        *)
(***************************************************************************)
Goes(from, to) == main = from /\ main' = to

Connect ==
  /\ Goes("start", "already")
  /\ connect_' = TRUE
  /\ Queued("start", NoConn, 0)
  /\ UNCHANGED <<held, all, sharedVars, connVars>>

\* Mutant: connection_ is tested instead of the latch.
AlreadyTestsConnection ==
  /\ connection_ # NoConn
  /\ Goes("already", "append")
  /\ UNCHANGED <<held, all, connect_, sharedVars, connVars, queue>>

Already ==
  /\ latch_ > 0
  /\ Goes("already", "append")
  /\ latch_' = latch_ - 1
  /\ UNCHANGED <<held, all, connect_, connection_, conn_, get_, connVars, queue>>

AppendAll ==
  /\ all < Messages
  /\ Goes("append", "write")
  /\ all' = all + 1
  /\ UNCHANGED <<held, connect_, sharedVars, connVars, queue>>

\* EchoClient::write and TcpConnection::send: no connection, no message
Write ==
  /\ Goes("write", "append")
  /\ IF conn_ # NoConn /\ state_[conn_] = "kConnected"
       THEN Queued("send", conn_, all) ELSE UNCHANGED queue
  /\ UNCHANGED <<held, all, connect_, sharedVars, connVars>>

Wait ==
  /\ all = Messages
  /\ Goes("append", "waiting")
  /\ UNCHANGED <<held, all, connect_, sharedVars, connVars, queue>>

\* cond.wait(lock) has no predicate: it may return without a notify_one()
WakesSpuriously ==
  /\ Goes("waiting", "misled")
  /\ UNCHANGED <<held, all, connect_, sharedVars, connVars, queue>>

\* TcpClient::disconnect, with what main() found in get_ before it
DisconnectStores ==
  /\ main \in {"woken", "misled"} /\ main' = "shutdown"
  /\ connect_' = FALSE
  /\ UNCHANGED <<held, all, sharedVars, connVars, queue>>

\* under mutex_: shutdown() exchanges kConnected and queues a raw this
Disconnect ==
  /\ Goes("shutdown", "release")
  /\ IF connection_ # NoConn /\ state_[connection_] = "kConnected"
       THEN /\ state_' = [state_ EXCEPT ![connection_] = "kDisconnecting"]
            /\ Queued("shutdown", connection_, 0)
       ELSE UNCHANGED <<state_, queue>>
  /\ UNCHANGED <<held, all, connect_, sharedVars, attemptVars, closeCb>>

\* ~EchoClient: get_, conn_, then client_
ReleaseConn ==
  /\ Goes("release", "destroy")
  /\ UNCHANGED <<held, all, connect_, sharedVars, connVars, queue>>

DestroyClient ==
  /\ main = "destroy"
  /\ held' = connection_
  /\ main' = IF connection_ # NoConn THEN "setClose" ELSE "stop"
  /\ UNCHANGED <<all, connect_, sharedVars, connVars, queue>>

SetClose ==
  /\ Goes("setClose", "forceClose")
  /\ Queued("setClose", NoConn, 0)
  /\ UNCHANGED <<held, all, connect_, sharedVars, connVars>>

ForceClose ==
  /\ Goes("forceClose", "quit")
  /\ Queued("forceClose", held, 0)
  /\ held' = NoConn
  /\ UNCHANGED <<all, connect_, sharedVars, connVars>>

\* Connector::stop: no attempt succeeds after its connect_ is cleared.  Nobody
\* calls it when there is a connection.
StopConnector ==
  /\ Goes("stop", "quit")
  /\ trying' = FALSE /\ timer' = FALSE
  /\ Queued("stop", NoConn, 0)
  /\ UNCHANGED <<held, all, connect_, sharedVars, conns, surplus, state_, closeCb>>

\* ~EventLoopThread; nobody quits the loop before
Quit ==
  /\ Goes("quit", "join")
  /\ quit' = TRUE
  /\ UNCHANGED <<held, all, connect_, sharedVars, connVars, queue>>

Join ==
  /\ loop = "exited"
  /\ Goes("join", "ended")
  /\ UNCHANGED <<held, all, connect_, sharedVars, connVars, queue>>

MainMoves ==
  \/ Connect \/ Already \/ AppendAll \/ Write \/ Wait \/ DisconnectStores \/ Disconnect
  \/ ReleaseConn \/ DestroyClient \/ SetClose \/ ForceClose \/ StopConnector \/ Join

MainStep == /\ (MainMoves /\ UNCHANGED quit) \/ Quit
            /\ UNCHANGED <<loop, batch, kept, active, handlerVars, netVars, crashed>>
-----------------------------------------------------------------------------
(***************************************************************************)
(* The loop thread: its stations, and the handlers, which go step by step  *)
(* where the main thread can come between.                                 *)
(***************************************************************************)
Turn(from, to) == handler = "none" /\ loop = from /\ loop' = to

\* epoll_wait: the connections with something to read
Ready == {c \in Conns : /\ Alive(c) /\ state_[c] \in {"kConnected", "kDisconnecting"}
                        /\ in[c] # <<>> \/ net[c] = "closed"}

\* Mutant: quit_ is cleared on every turn.
StationsClearQuit ==
  \/ Turn("ready", "testing") /\ UNCHANGED <<quit, batch, kept, active, queue>>
  \/ ~quit /\ Turn("testing", "events") /\ active' = Ready /\ UNCHANGED <<quit, batch, kept, queue>>
  \/ quit /\ Turn("testing", "exited") /\ queue' = <<>> /\ UNCHANGED <<quit, batch, kept, active>>
  \/ /\ active = {} /\ Turn("events", "functors")
     /\ batch' = queue /\ queue' = <<>> /\ UNCHANGED <<quit, kept, active>>
  \/ /\ batch = <<>> /\ Turn("functors", "testing")
     /\ kept' = {} /\ quit' = FALSE /\ UNCHANGED <<batch, active, queue>>

Stations ==
  \/ Turn("ready", "testing") /\ quit' = FALSE /\ UNCHANGED <<batch, kept, active, queue>>
  \/ ~quit /\ Turn("testing", "events") /\ active' = Ready /\ UNCHANGED <<quit, batch, kept, queue>>
  \/ quit /\ Turn("testing", "exited") /\ queue' = <<>> /\ UNCHANGED <<quit, batch, kept, active>>
  \/ /\ active = {} /\ Turn("events", "functors")
     /\ batch' = queue /\ queue' = <<>> /\ UNCHANGED <<quit, kept, active>>
  \/ /\ batch = <<>> /\ Turn("functors", "testing")
     /\ kept' = {} /\ UNCHANGED <<quit, batch, active, queue>>

Enters(h, c) == handler = "none" /\ handler' = h /\ cur' = c
Then(from, to) == handler = from /\ handler' = to /\ UNCHANGED cur

\* the connector's channel is writable: newConnection up to connectEstablished.
\* The connection that connection_ named loses that owner.
NewConnection ==
  LET c == conns + 1 IN
  /\ loop = "events" /\ c \in Conns
  /\ \/ trying /\ trying' = FALSE /\ UNCHANGED surplus
     \/ ~trying /\ timer /\ surplus < MaxSurplus /\ surplus' = surplus + 1 /\ UNCHANGED trying
  /\ Enters("establish", c)
  /\ conns' = c /\ connection_' = c
  /\ Uses(ClientGone)
  /\ UNCHANGED <<main, latch_, conn_, get_, queue, active, timer, state_, closeCb, netVars>>

\* Connector::retry: startInLoop is queued, and given to a timer that may run
\* it again and again (TimeWheel::Task::times_)
AttemptRefused ==
  /\ loop = "events" /\ handler = "none" /\ trying /\ ~timer
  /\ timer' = TRUE
  /\ UNCHANGED <<main, sharedVars, handlerVars, queue, active, trying, conns, surplus, state_,
                 closeCb, netVars, crashed>>

ConnectEstablished ==
  /\ Then("establish", "up")
  /\ state_' = [state_ EXCEPT ![cur] = "kConnected"]
  /\ net' = [net EXCEPT ![cur] = "up"]
  /\ UNCHANGED <<main, sharedVars, queue, active, attemptVars, closeCb, out, in, losses, crashed>>

ReportUp ==
  /\ Then("up", "release")
  /\ conn_' = cur
  /\ Uses(MembersGone)
  /\ UNCHANGED <<main, latch_, connection_, get_, queue, active, connVars, netVars>>

Release ==
  /\ Then("release", "none")
  /\ latch_' = latch_ + 1
  /\ Uses(ClientGone)
  /\ UNCHANGED <<main, connection_, conn_, get_, queue, active, connVars, netVars>>

\* EchoClient::onMessage takes all there is, then compares the sizes
OnMessage ==
  /\ \E c \in active :
       /\ Alive(c) /\ in[c] # <<>> /\ Enters("compare", c)
       /\ get_' = get_ \o in[c] /\ in' = [in EXCEPT ![c] = <<>>] /\ active' = active \ {c}
  /\ Uses(MembersGone)
  /\ UNCHANGED <<main, latch_, connection_, conn_, queue, connVars, net, out, losses>>

\* Mutants: main() is notified of every message; > instead of ==.
NotifyAlways ==
  /\ Then("compare", "none")
  /\ main' = IF main = "waiting" THEN "woken" ELSE main
  /\ UNCHANGED <<sharedVars, queue, active, connVars, netVars, crashed>>

NotifyGreater ==
  /\ Then("compare", "none")
  /\ main' = IF main = "waiting" /\ Len(get_) > all THEN "woken" ELSE main
  /\ UNCHANGED <<sharedVars, queue, active, connVars, netVars, crashed>>

Notify ==
  /\ Then("compare", "none")
  /\ main' = IF main = "waiting" /\ Len(get_) = all THEN "woken" ELSE main
  /\ UNCHANGED <<sharedVars, queue, active, connVars, netVars, crashed>>

Closes(c) ==
  /\ state_[c] \in {"kConnected", "kDisconnecting"}
  /\ Enters("down", c)
  /\ state_' = [state_ EXCEPT ![c] = "kDisconnected"]

\* the read after the last data returns 0
HandleClose ==
  /\ \E c \in active : /\ Alive(c) /\ in[c] = <<>> /\ net[c] = "closed" /\ Closes(c)
                        /\ active' = active \ {c}
  /\ UNCHANGED <<main, sharedVars, queue, attemptVars, closeCb, netVars, crashed>>

\* its channel was freed by a handler before this one, or by the main thread
DispatchFreed ==
  /\ handler = "none"
  /\ \E c \in active : ~Alive(c) /\ active' = active \ {c}
  /\ crashed' \in BOOLEAN
  /\ UNCHANGED <<main, sharedVars, handlerVars, queue, connVars, netVars>>

ReportDown ==
  /\ handler = "down" /\ UNCHANGED cur
  /\ conn_' = NoConn
  /\ handler' = IF closeCb[cur] = "remove" THEN "remove" ELSE "direct"
  /\ Uses(MembersGone)
  /\ UNCHANGED <<main, latch_, connection_, get_, queue, active, connVars, netVars>>

RemoveConnection ==
  /\ Then("remove", "restart")
  /\ connection_' = NoConn
  /\ Queued("connectDestroyed", cur, 0)
  /\ Uses(ClientGone)
  /\ UNCHANGED <<main, latch_, conn_, get_, active, connVars, netVars>>

\* Mutant: restart() whether or not the client is to be connected.
RestartAlways ==
  /\ Then("restart", "none")
  /\ trying' = TRUE
  /\ Uses(ClientGone)
  /\ UNCHANGED <<main, sharedVars, queue, active, timer, conns, surplus, state_, closeCb, netVars>>

Restart ==
  /\ Then("restart", "none")
  /\ trying' = (trying \/ connect_)
  /\ Uses(ClientGone)
  /\ UNCHANGED <<main, sharedVars, queue, active, timer, conns, surplus, state_, closeCb, netVars>>

\* the close callback that ~TcpClient installs: only loop_ of the client
CloseDirectly ==
  /\ Then("direct", "none")
  /\ Queued("connectDestroyed", cur, 0)
  /\ Uses(ClientGone)
  /\ UNCHANGED <<main, sharedVars, active, connVars, netVars>>

(***************************************************************************)
(* The functors; the batch's vector keeps what they hold to its end.       *)
(* setClose reads connection_ again, and it may be null by then.  shutdown *)
(* is bound to a raw pointer of the connection, stop to the connector's.   *)
(***************************************************************************)
Functors ==
  LET f == Head(batch) IN
  /\ loop = "functors" /\ handler = "none" /\ batch # <<>>
  /\ batch' = Tail(batch) /\ kept' = kept \union {c \in Conns : Holds(f, c)}
  /\ \/ /\ f.f \in {"start", "stop"}
        /\ trying' = (f.f = "start")
        /\ Uses(f.f = "stop" /\ ClientGone)
        /\ UNCHANGED <<queue, handlerVars, state_, closeCb, net, out>>
     \/ /\ f.f = "send"
        /\ out' = IF state_[f.c] # "kDisconnected" /\ net[f.c] = "up"
                    THEN [out EXCEPT ![f.c] = Append(@, f.m)] ELSE out
        /\ UNCHANGED <<queue, handlerVars, trying, state_, closeCb, net, crashed>>
     \/ /\ f.f = "shutdown"
        /\ \/ /\ Alive(f.c) /\ UNCHANGED crashed
              /\ net' = [net EXCEPT ![f.c] = IF @ = "up" THEN "half" ELSE @]
           \/ ~Alive(f.c) /\ crashed' \in BOOLEAN /\ UNCHANGED net
        /\ UNCHANGED <<queue, handlerVars, trying, state_, closeCb, out>>
     \/ /\ f.f = "setClose"
        /\ IF connection_ = NoConn
             THEN crashed' = TRUE /\ UNCHANGED closeCb
             ELSE closeCb' = [closeCb EXCEPT ![connection_] = "direct"] /\ Uses(ClientGone)
        /\ UNCHANGED <<queue, handlerVars, trying, state_, net, out>>
     \/ /\ f.f = "forceClose"
        /\ IF state_[f.c] = "kConnected"
             THEN /\ state_' = [state_ EXCEPT ![f.c] = "kDisconnecting"]
                  /\ Queued("forceCloseInLoop", f.c, 0)
             ELSE UNCHANGED <<state_, queue>>
        /\ UNCHANGED <<handlerVars, trying, closeCb, net, out, crashed>>
     \/ /\ f.f = "forceCloseInLoop"
        /\ Closes(f.c) \/ (state_[f.c] = "kDisconnected" /\ UNCHANGED <<handlerVars, state_>>)
        /\ UNCHANGED <<queue, trying, closeCb, net, out, crashed>>
     \/ /\ f.f = "connectDestroyed"
        /\ UNCHANGED <<queue, handlerVars, trying, state_, closeCb, net, out, crashed>>
  /\ UNCHANGED <<main, sharedVars, active, timer, conns, surplus, in, losses>>

Handlers ==
  \/ NewConnection \/ ConnectEstablished \/ ReportUp \/ Release \/ OnMessage \/ Notify
  \/ HandleClose \/ ReportDown \/ RemoveConnection \/ Restart \/ CloseDirectly
  \/ AttemptRefused \/ DispatchFreed

LoopStep ==
  \/ /\ Stations
     /\ UNCHANGED <<mainVars, sharedVars, handlerVars, connVars, netVars, crashed>>
  \/ Handlers /\ UNCHANGED <<held, all, connect_, loop, quit, batch, kept>>
  \/ Functors /\ UNCHANGED <<held, all, connect_, loop, quit>>
-----------------------------------------------------------------------------
(***************************************************************************)
(* The server and the network.                                             *)
(***************************************************************************)
Echo ==
  /\ \E c \in Conns :
       /\ net[c] \in {"up", "half"} /\ Alive(c) /\ out[c] # <<>>
       /\ in' = [in EXCEPT ![c] = Append(@, Head(out[c]))]
       /\ out' = [out EXCEPT ![c] = Tail(@)]
  /\ UNCHANGED <<net, losses>>

\* the server has read the end of the stream, and closes
ServerCloses ==
  /\ \E c \in Conns : /\ net[c] = "half" /\ Alive(c) /\ out[c] = <<>>
                       /\ net' = [net EXCEPT ![c] = "closed"]
  /\ UNCHANGED <<out, in, losses>>

\* the connection breaks, with what was on its way
Lose ==
  /\ losses < MaxLosses /\ losses' = losses + 1
  /\ \E c \in Conns : /\ net[c] = "up" /\ Alive(c)
                       /\ net' = [net EXCEPT ![c] = "closed"]
                       /\ out' = [out EXCEPT ![c] = <<>>] /\ in' = [in EXCEPT ![c] = <<>>]

NetStep == /\ Echo \/ ServerCloses \/ Lose
           /\ UNCHANGED <<mainVars, sharedVars, loopVars, handlerVars, connVars, queue, crashed>>

Next ==
  /\ ~crashed
  /\ \/ MainStep \/ LoopStep \/ NetStep
     \/ WakesSpuriously /\ UNCHANGED <<loopVars, handlerVars, netVars, crashed>>

\* Threads are scheduled, and the server echoes.
Fairness == /\ WF_vars(~crashed /\ MainStep)
            /\ WF_vars(~crashed /\ LoopStep)
            /\ WF_vars(~crashed /\ Echo /\ NetStep)

Spec == Init /\ [][Next]_vars /\ Fairness
-----------------------------------------------------------------------------
TypeOK ==
  /\ main \in {"start", "already", "append", "write", "waiting", "woken", "misled", "shutdown",
               "release", "destroy", "setClose", "forceClose", "stop", "quit", "join", "ended"}
  /\ {held, connection_, conn_, cur} \subseteq Conns \union {NoConn}
  /\ all \in 0..Messages /\ conns \in Conns \union {NoConn}
  /\ losses \in 0..MaxLosses /\ surplus \in 0..MaxSurplus
  /\ latch_ \in Nat /\ kept \subseteq Conns /\ active \subseteq Conns
  /\ {connect_, quit, trying, timer, crashed} \subseteq BOOLEAN
  /\ loop \in {"ready", "testing", "events", "functors", "exited"}
  /\ handler \in {"none", "establish", "up", "release", "compare", "down", "remove", "restart",
                  "direct"}
  /\ handler # "none" => cur \in Conns
  /\ state_ \in [Conns -> {"kConnecting", "kConnected", "kDisconnecting", "kDisconnected"}]
  /\ closeCb \in [Conns -> {"remove", "direct"}]
  /\ net \in [Conns -> {"none", "up", "half", "closed"}]
  /\ get_ \in Seq(1..Messages)
  /\ in \in [Conns \union {NoConn} -> Seq(1..Messages)]
  /\ out \in [Conns \union {NoConn} -> Seq(1..Messages)]

\* messages past the loop's queue, on the last connection, and messages written
Carried == get_ \o in[conns] \o out[conns]
Written == IF main = "write" THEN all - 1 ELSE all

\* What already() promises to the writer: while no connection is lost or takes
\* the place of another, every message that main() has written is on its way or
\* echoed, once and in order: the first ones have left the queue, the others
\* wait in it.  It needs conn_ to be set before the latch opens.
NothingDropped ==
  losses = 0 /\ surplus = 0 /\ loop # "exited" /\ ~crashed =>
    /\ Len(Carried) <= Written /\ \A k \in DOMAIN Carried : Carried[k] = k
    /\ \A m \in 1..Messages :
         Len(Carried) < m /\ m <= Written
           <=> \E i \in DOMAIN Work : Work[i].f = "send" /\ Work[i].m = m
    /\ \A i, j \in DOMAIN Work :
         i < j /\ Work[i].f = "send" /\ Work[j].f = "send" => Work[i].m < Work[j].m

\* A main() that was notified finds the data it has sent: the test in
\* onMessage can only hit while main() waits if all has its final size.
WokenMeansSame == main = "woken" => get_ = [i \in 1..Messages |-> i]

\* shutdown() queues a raw this.  It is saved by mutex_: disconnect() queues
\* before removeConnection() clears connection_, hence before connectDestroyed,
\* which holds the connection until the functor before it has run.  Nothing
\* saves it when a surplus connection takes the place of the one shut down.
ShutdownFindsConnection ==
  ~crashed /\ main # "ended" /\ surplus = 0 =>
    \A i \in DOMAIN Work : Work[i].f = "shutdown" => Alive(Work[i].c)

\* The binary semaphore is released for every connection and acquired once:
\* it can only exceed its maximum by connecting again, once before main() has
\* acquired it or twice in all.
LatchWithinMax == latch_ > 1 => losses + surplus >= (IF main = "already" THEN 1 ELSE 2)

\* A client connects again after a loss or by the retry timer and at no other
\* time: the close that answers disconnect() or ends the destructor starts no
\* attempt, nor does a connection that another one has replaced.
ReconnectsAfterLoss == conns <= losses + surplus + 1

\* What holds of the two threads and their connections in every state.
Inv == TypeOK /\ ShutdownFindsConnection /\ LatchWithinMax /\ ReconnectsAfterLoss

\* A main() that waits before its last echo is read is woken, unless a
\* connection was lost or replaced (an echo that was faster has notified nobody).
WokenEventually ==
  main = "waiting" /\ Len(get_) < all /\ losses + surplus = 0
    ~> main # "waiting" \/ losses + surplus > 0

\* Once main() is past its wait, the session ends: no handler and no functor
\* keeps the loop from quitting, and join() returns.
SessionEnds == main = "shutdown" ~> main = "ended" \/ crashed
=============================================================================
