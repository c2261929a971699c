----------------------------- MODULE Connector -----------------------------
(***************************************************************************)
(* gdrpc::net::Connector and the TcpClient that owns it: attempts to       *)
(* connect, their retries through the queue and through timers, the        *)
(* hand-over of the channel to a TcpConnection, its loss and the restart,  *)
(* and connect(), disconnect() and stop() called from other threads.       *)
(*                                                                         *)
(* s holds what only the loop thread touches, and its queue.  The loop     *)
(* thread's functors and handlers are atomic with respect to each other;   *)
(* a call of another thread is one step per store, then queueInLoop.  An   *)
(* iteration of the loop is poll, expired timers, events, functors.        *)
(*                                                                         *)
(* A channel is named by its descriptor, and descriptors are reused: the   *)
(* connector closes one descriptor twice (close() in retry and ~Channel),  *)
(* which matters when the number is in use again.  removeAndResetChannel's *)
(* disableAll and remove leave no registration whatever the channel's      *)
(* state was.  An established connection is only kept until it is closed:  *)
(* TcpConnection has the rest.  timer says that retry timers are pending,  *)
(* not how many: each failed attempt adds one.                             *)
(***************************************************************************)
EXTENDS Naturals, FiniteSets, Sequences

CONSTANTS Threads,      \* threads that call connect(), disconnect(), stop()
          MaxConnects,  \* bound on the calls of connect()
          MaxStops,     \* bound on the calls of stop()
          MaxPending,   \* bound on the queued startInLoop when a timer fires
          Null

ASSUME BoundAssumption == MaxConnects \in Nat /\ MaxStops \in Nat /\ MaxPending \in Nat
ASSUME NullAssumption == Null \notin Nat

VARIABLES
    s,          \* Connector, connection_, descriptors, queue and timers
    connect_,   \* Connector::connect_
    wanted,     \* TcpClient::connect_
    retry_,     \* TcpClient::retry_: enableRetry() was called before connect()
    loop, batch,
    user,       \* where each thread is in its call
    connects, stops

vars == <<s, connect_, wanted, retry_, loop, batch, user, connects, stops>>

Functors == {"start", "stop", "reset", "destroy"}
Status == {"connecting", "up", "failed", "closed"}
Fds == Nat \ {0}

TypeOK ==
    /\ s.state_ \in {"kDisconnected", "kConnecting", "kConnected"}
    /\ s.channel_ \in Fds \cup {Null} /\ s.connection_ \in Fds \cup {Null}
    /\ s.dying \subseteq Fds
    /\ DOMAIN s.sock \subseteq Fds /\ \A f \in DOMAIN s.sock : s.sock[f] \in Status
    /\ s.epoll \subseteq DOMAIN s.sock
    /\ s.queue \in Seq(Functors) /\ batch \in 0 .. Len(s.queue)
    /\ s.timer \in BOOLEAN /\ s.gaveUp \in BOOLEAN
    /\ s.active \subseteq {"error", "write", "close", "dangling"}
    /\ connect_ \in BOOLEAN /\ wanted \in BOOLEAN /\ retry_ \in BOOLEAN
    /\ loop \in {"poll", "timers", "events", "restart", "starting", "functors",
                 "nullChannel", "dangling"}
    /\ user \in [Threads -> {"idle", "connect", "start", "queueStart", "stop", "queueStop"}]
    /\ connects \in 0 .. MaxConnects /\ stops \in 0 .. MaxStops

Init ==
    /\ s = [state_ |-> "kDisconnected", channel_ |-> Null, connection_ |-> Null,
            dying |-> {}, sock |-> <<>>, epoll |-> {}, queue |-> <<>>,
            timer |-> FALSE, active |-> {}, gaveUp |-> FALSE]
    /\ connect_ = FALSE /\ wanted = FALSE /\ retry_ \in BOOLEAN
    /\ loop = "poll" /\ batch = 0
    /\ user = [t \in Threads |-> "idle"] /\ connects = 0 /\ stops = 0
-----------------------------------------------------------------------------
(* Descriptors and channels                                                *)

\* socket(): the lowest free number
NewFd(r) == CHOOSE f \in 1 .. Cardinality(DOMAIN r.sock) + 1 :
                f \notin DOMAIN r.sock /\ \A g \in 1 .. f - 1 : g \in DOMAIN r.sock

Opened(r, f) == [r EXCEPT !.sock = [g \in DOMAIN @ \cup {f} |->
                                      IF g = f THEN "connecting" ELSE @[g]]]

\* close(): EBADF if it is not open, and out of the epoll instance if it is
Close(r, f) == [r EXCEPT !.sock = [g \in DOMAIN @ \ {f} |-> @[g]], !.epoll = @ \ {f}]

\* the events of a channel that is destroyed before they are handled
Orphaned(active, events) ==
    IF active \cap events = {} THEN active ELSE (active \ events) \cup {"dangling"}

\* ~Channel of channel_, and of connection_'s channel
DestroyChannel(r) ==
    IF r.channel_ = Null THEN r
    ELSE [Close(r, r.channel_) EXCEPT !.channel_ = Null,
                                      !.active = Orphaned(@, {"error", "write"})]
DestroyConnection(r) ==
    IF r.connection_ = Null THEN r
    ELSE [Close(r, r.connection_) EXCEPT !.connection_ = Null,
                                         !.active = Orphaned(@, {"close"})]
-----------------------------------------------------------------------------
(* Connector, on the loop thread: each function returns the new s          *)

removeAndResetChannel(r) ==
    [r EXCEPT !.epoll = @ \ {r.channel_}, !.queue = Append(@, "reset")]

Reschedule(r) == IF connect_ THEN [r EXCEPT !.queue = Append(@, "start"), !.timer = TRUE]
                 ELSE r

retry(r, f) == Reschedule([Close(r, f) EXCEPT !.state_ = "kDisconnected"])

\* channel_ is replaced: the old one is destroyed before the new one is added,
\* and with it the new socket if that got the old number
connecting(r, f) ==
    LET d == DestroyChannel(r)
    IN  [d EXCEPT !.state_ = "kConnecting", !.channel_ = f,
                  !.epoll = @ \cup ({f} \cap DOMAIN d.sock)]

\* what ::connect() may answer: in progress, an error to retry, or another one,
\* which LOG_FATAL only logs
connect(r) ==
    LET f == NewFd(r)
    IN  {connecting(Opened(r, f), f), retry(Opened(r, f), f), [r EXCEPT !.gaveUp = TRUE]}

\* a mutant: connect_ is not asked
StartRegardless(r) == connect(r)

startInLoop(r) == IF connect_ THEN connect(r) ELSE {r}

\* a mutant: the attempt is cancelled without asking whether it is wanted again
StopWithoutRetry(r) ==
    IF r.state_ = "kConnecting"
      THEN [Close(removeAndResetChannel(r), r.channel_) EXCEPT !.state_ = "kDisconnected"]
      ELSE r

stopInLoop(r) == IF r.state_ = "kConnecting"
                   THEN retry(removeAndResetChannel(r), r.channel_) ELSE r

\* a connection that is replaced is destroyed: nothing else holds it
newConnection(r) ==
    LET d == DestroyConnection(r)
    IN  [d EXCEPT !.state_ = "kConnected", !.connection_ = r.channel_, !.channel_ = Null]

handleWrite(r) ==
    CASE r.state_ # "kConnecting" -> r
      [] r.state_ = "kConnecting" /\ r.sock[r.channel_] = "failed" ->
            retry(removeAndResetChannel(r), r.channel_)
      [] r.state_ = "kConnecting" /\ r.sock[r.channel_] # "failed" /\ connect_ ->
            newConnection(r)
      [] OTHER -> Close(removeAndResetChannel(r), r.channel_)

handleError(r) == IF r.state_ = "kConnecting"
                    THEN retry(removeAndResetChannel(r), r.channel_) ELSE r
-----------------------------------------------------------------------------
(* The loop thread                                                         *)

\* the loop thread has used a null or a dangling pointer
Crashed == loop \in {"nullChannel", "dangling"}

userVars == <<wanted, retry_, user, connects, stops>>

\* what epoll_wait reports: channel_ is registered for writing, the connection
\* for reading
Ready ==
    (IF s.channel_ \notin s.epoll THEN {}
     ELSE IF s.sock[s.channel_] = "failed" THEN {"error"}
     ELSE IF s.sock[s.channel_] = "connecting" THEN {} ELSE {"write"})
    \cup (IF s.connection_ \in s.epoll /\ s.sock[s.connection_] \in {"closed", "failed"}
            THEN {"close"} ELSE {})

Poll(active) ==
    /\ loop = "poll" /\ loop' = "timers"
    /\ s' = [s EXCEPT !.active = active]
    /\ UNCHANGED <<connect_, batch, userVars>>
PollReports == Ready # {} /\ Poll(Ready)
PollReturns == Poll({})      \* kPollTimeMs, or an error

Starts == Len(SelectSeq(s.queue, LAMBDA f : f = "start"))

FireTimer ==
    /\ loop = "timers" /\ s.timer /\ Starts < MaxPending
    /\ \E more \in BOOLEAN : s' \in startInLoop([s EXCEPT !.timer = more])
    /\ UNCHANGED <<connect_, loop, batch, userVars>>
TimersDone ==
    /\ loop = "timers" /\ loop' = "events"
    /\ UNCHANGED <<s, connect_, batch, userVars>>

HandleWrite ==
    /\ loop = "events" /\ "write" \in s.active
    /\ s' = handleWrite([s EXCEPT !.active = @ \ {"write"}])
    /\ UNCHANGED <<connect_, loop, batch, userVars>>

\* handleWrite follows, and finds that it is not connecting any more
HandleError ==
    /\ loop = "events" /\ "error" \in s.active
    /\ s' = handleWrite(handleError([s EXCEPT !.active = @ \ {"error"}]))
    /\ UNCHANGED <<connect_, loop, batch, userVars>>

\* a mutant: the closed connection stays registered until it is destroyed
CloseStillRegistered ==
    /\ loop = "events" /\ "close" \in s.active
    /\ s' = [s EXCEPT !.active = @ \ {"close"}, !.connection_ = Null,
                      !.dying = @ \cup {s.connection_}, !.queue = Append(@, "destroy")]
    /\ loop' = IF retry_ /\ wanted THEN "restart" ELSE "events"
    /\ UNCHANGED <<connect_, batch, userVars>>

\* TcpConnection::handleClose and TcpClient::removeConnection
RemoveConnection ==
    /\ loop = "events" /\ "close" \in s.active
    /\ s' = [s EXCEPT !.active = @ \ {"close"}, !.epoll = @ \ {s.connection_},
                      !.connection_ = Null, !.dying = @ \cup {s.connection_},
                      !.queue = Append(@, "destroy")]
    /\ loop' = IF retry_ /\ wanted THEN "restart" ELSE "events"
    /\ UNCHANGED <<connect_, batch, userVars>>

\* restart(): the stores, then startInLoop
Restart ==
    /\ loop = "restart" /\ loop' = "starting"
    /\ connect_' = TRUE /\ s' = [s EXCEPT !.state_ = "kDisconnected"]
    /\ UNCHANGED <<batch, userVars>>
RestartConnects ==
    /\ loop = "starting" /\ loop' = "events"
    /\ s' \in startInLoop(s)
    /\ UNCHANGED <<connect_, batch, userVars>>

HandleDangling ==
    /\ loop = "events" /\ "dangling" \in s.active /\ loop' = "dangling"
    /\ UNCHANGED <<s, connect_, batch, userVars>>

SwapFunctors ==
    /\ loop = "events" /\ s.active = {} /\ loop' = "functors"
    /\ batch' = Len(s.queue)
    /\ UNCHANGED <<s, connect_, userVars>>

\* the functor taken from the queue
Next1(f) == loop = "functors" /\ batch > 0 /\ Head(s.queue) = f
Rest == [s EXCEPT !.queue = Tail(@)]

RunStart ==
    /\ Next1("start") /\ s' \in startInLoop(Rest) /\ batch' = batch - 1
    /\ UNCHANGED <<connect_, loop, userVars>>
RunStop ==
    /\ Next1("stop") /\ batch' = batch - 1
    /\ IF s.state_ = "kConnecting" /\ s.channel_ = Null
         THEN loop' = "nullChannel" /\ s' = Rest
         ELSE s' = stopInLoop(Rest) /\ UNCHANGED loop
    /\ UNCHANGED <<connect_, userVars>>
RunReset ==
    /\ Next1("reset") /\ s' = DestroyChannel(Rest) /\ batch' = batch - 1
    /\ UNCHANGED <<connect_, loop, userVars>>
\* connectDestroyed of the connections that were closed in this iteration
RunDestroy ==
    /\ Next1("destroy") /\ batch' = batch - 1
    /\ \E f \in s.dying : s' = [Close(Rest, f) EXCEPT !.dying = @ \ {f}]
    /\ UNCHANGED <<connect_, loop, userVars>>
FunctorsDone ==
    /\ loop = "functors" /\ batch = 0 /\ loop' = "poll"
    /\ UNCHANGED <<s, connect_, batch, userVars>>
-----------------------------------------------------------------------------
(* Calls of TcpClient from other threads                                   *)

Step(t, from, to) == user[t] = from /\ user' = [user EXCEPT ![t] = to]
Queue(f) == s' = [s EXCEPT !.queue = Append(@, f)]

Connect(t) ==
    \/ /\ Step(t, "idle", "connect") /\ ~wanted
       /\ connects < MaxConnects /\ connects' = connects + 1
       /\ UNCHANGED <<s, connect_, wanted>>
    \/ Step(t, "connect", "start") /\ wanted' = TRUE /\ UNCHANGED <<s, connect_, connects>>

\* Connector::start
Start(t) ==
    \/ Step(t, "start", "queueStart") /\ connect_' = TRUE /\ UNCHANGED <<s, wanted, connects>>
    \/ Step(t, "queueStart", "idle") /\ Queue("start") /\ UNCHANGED <<connect_, wanted, connects>>

Stop(t) ==
    /\ Step(t, "idle", "stop") /\ wanted' = FALSE
    /\ stops < MaxStops /\ stops' = stops + 1
    /\ UNCHANGED <<s, connect_>>

\* Connector::stop
StopConnector(t) ==
    \/ Step(t, "stop", "queueStop") /\ connect_' = FALSE /\ UNCHANGED <<s, wanted, stops>>
    \/ Step(t, "queueStop", "idle") /\ Queue("stop") /\ UNCHANGED <<connect_, wanted, stops>>

\* the shutdown of the connection shows as the peer's close
Disconnect(t) ==
    /\ user[t] = "idle" /\ wanted /\ wanted' = FALSE
    /\ UNCHANGED <<s, connect_, user>>

UserStep(t) ==
    /\ ~Crashed
    /\ \/ (Connect(t) \/ Start(t)) /\ UNCHANGED stops
       \/ (Stop(t) \/ StopConnector(t)) /\ UNCHANGED connects
       \/ Disconnect(t) /\ UNCHANGED <<connects, stops>>
    /\ UNCHANGED <<retry_, loop, batch>>
-----------------------------------------------------------------------------
(* The network                                                             *)

NetStep ==
    /\ ~Crashed
    /\ \E f \in DOMAIN s.sock : \E to \in Status :
        /\ \/ s.sock[f] = "connecting" /\ to \in {"up", "failed"}
           \/ s.sock[f] = "up" /\ to \in {"closed", "failed"}
        /\ s' = [s EXCEPT !.sock[f] = to]
    /\ UNCHANGED <<connect_, loop, batch, userVars>>

\* everything that carries the loop through an iteration
LoopMoves ==
    \/ PollReports \/ PollReturns \/ TimersDone
    \/ HandleWrite \/ HandleError \/ RemoveConnection \/ Restart \/ RestartConnects
    \/ HandleDangling \/ SwapFunctors
    \/ RunStart \/ RunStop \/ RunReset \/ RunDestroy \/ FunctorsDone
LoopStep == LoopMoves \/ FireTimer

Next == LoopStep \/ NetStep \/ \E t \in Threads : UserStep(t)

Spec == Init /\ [][Next]_vars

\* the loop is scheduled and leaves each phase, and calls that began finish
Fairness ==
    /\ WF_vars(LoopMoves)
    /\ SF_vars(PollReports)
    /\ \A t \in Threads : WF_vars(user[t] # "idle" /\ UserStep(t))

FairSpec == Spec /\ Fairness
-----------------------------------------------------------------------------
(* Properties                                                              *)

(* No descriptor leaks: every open one belongs to channel_, to the         *)
(* connection or to a connection about to be destroyed, on every path of   *)
(* connect(), retry(), handleWrite() and stopInLoop().                     *)
SocketsOwned == DOMAIN s.sock \subseteq {s.channel_, s.connection_} \cup s.dying

(* epoll holds no pointer to a channel that is gone or was given up: what  *)
(* is registered is channel_ or the connection's channel, never a closed   *)
(* connection that waits for connectDestroyed.                             *)
RegisteredAlive == s.epoll \subseteq {s.channel_, s.connection_} \ s.dying

(* The state has its type, where only open descriptors are in epoll, and   *)
(* every descriptor and every registration has its owner.                  *)
Inv == TypeOK /\ SocketsOwned /\ RegisteredAlive

Pending(f) == \E i \in 1 .. Len(s.queue) : s.queue[i] = f

(* A client that wants a connection is never abandoned: while connect_ is  *)
(* set and nothing is established, a connect() has yet to queue its        *)
(* startInLoop, an attempt is scheduled, or a registered channel, which no *)
(* queued resetChannel will take away, waits for its answer.  This is what *)
(* retry()'s and removeAndResetChannel()'s order of queueing is for.  It   *)
(* holds while one thread calls the client: with two, the wanted of a      *)
(* connect() may outlive the stop() that clears connect_, and restart()    *)
(* begin while the resetChannel of an attempt given up is still queued.    *)
NotAbandoned ==
    \/ ~connect_ \/ s.state_ = "kConnected" \/ s.gaveUp \/ Crashed
    \/ loop = "starting" \/ \E t \in Threads : user[t] \in {"start", "queueStart"}
    \/ Pending("start") \/ s.timer
    \/ s.state_ = "kConnecting" /\ s.channel_ \in s.epoll /\ ~Pending("reset")

(* stop() that finds the connector connecting ends the attempt for good:   *)
(* stopInLoop or handleWrite gives the channel up, and neither a queued    *)
(* startInLoop nor a retry timer begins another one.  (Without retry_:     *)
(* removeConnection may otherwise store connect_ after stop().)            *)
StopEnds ==
    (/\ ~retry_ /\ stops > 0 /\ connects = MaxConnects /\ ~connect_
     /\ \A t \in Threads : user[t] = "idle"
     /\ s.state_ = "kConnecting")
      ~> [](s.channel_ = Null \/ Crashed)

(* stop() may be called in any thread: stopInLoop never meets state_       *)
(* kConnecting with channel_ gone.  It does after handleWrite has given    *)
(* the channel up because of the same stop() and left state_ as it was.    *)
StopInAnyThread == loop # "nullChannel"
=============================================================================
