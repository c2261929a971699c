----------------------------- MODULE TcpServer -----------------------------
(***************************************************************************)
(* TcpServer with its EventLoopThreadPool, from start() to the destructor: *)
(* the main loop accepts, hands each connection to a loop of the pool in   *)
(* turn, keeps it in connections_, and removes it when its loop has seen   *)
(* the peer close.  A loop is taken at its three stations: the test of     *)
(* quit_, the events of a poll, and the functors it swapped out; a         *)
(* connection is reduced to its state_ and to whether its channel is in a  *)
(* poller (TcpConnection.tla has the rest).                                *)
(***************************************************************************)
EXTENDS Integers, Sequences, FiniteSets

CONSTANTS MaxThreads, \* setThreadNum() is called with at most this number
          MaxConns    \* clients that connect

ASSUME BoundsAssumption == MaxThreads \in Nat /\ MaxConns \in Nat

Main  == 0                \* the thread and the loop that own the server
Subs  == 1..MaxThreads    \* the threads of the pool, one loop each
Loops == 0..MaxThreads
Conns == 1..MaxConns
NoConn == 0

VARIABLES
  numThreads,   \* EventLoopThreadPool::numThreads_
  loops,        \* EventLoopThreadPool::loops_
  next,         \* EventLoopThreadPool::next_, from 1
  published,    \* EventLoopThread::loop_ is not null
  joining,      \* the thread ~EventLoopThread waits for; 0 before the first
  listening,    \* Acceptor::listenning_, and acceptChannel_ is polled
  nextConnId,   \* TcpServer::nextConnId_
  connections,  \* TcpServer::connections_
  phase,        \* what each thread is doing
  quit,         \* EventLoop::quit_
  queue,        \* EventLoop::pending_functors_
  batch,        \* the functors that doPendingFunctors swapped out
  ioLoop,       \* TcpConnection::loop_
  state,        \* TcpConnection::state_
  registered,   \* the connection's channel is in the poller of its loop
  took,         \* history: whom the lambda of a connection's close removed
  ups, downs,   \* how often connectionCallback_ reported a connection
  crashed       \* undefined behaviour ended the process

poolVars == <<numThreads, loops, next, published, joining>>
serverVars == <<listening, nextConnId, connections>>
loopVars == <<phase, quit, batch>>
connVars == <<ioLoop, state, registered, took, ups, downs>>
vars == <<poolVars, serverVars, loopVars, connVars, queue, crashed>>

Init == /\ numThreads \in 0..MaxThreads
        /\ loops = <<>> /\ next = 1 /\ joining = 0
        /\ published = [l \in Loops |-> FALSE]
        /\ listening = FALSE /\ nextConnId = 1 /\ connections = {}
        /\ phase = [l \in Loops |-> IF l = Main THEN "starting" ELSE "idle"]
        /\ quit = [l \in Loops |-> FALSE]
        /\ queue = [l \in Loops |-> <<>>]
        /\ batch = [l \in Loops |-> <<>>]
        /\ ioLoop = [c \in Conns |-> Main]
        /\ state = [c \in Conns |-> "none"]
        /\ registered = [c \in Conns |-> FALSE]
        /\ took = [c \in Conns |-> NoConn]
        /\ ups = [c \in Conns |-> 0]
        /\ downs = [c \in Conns |-> 0]
        /\ crashed = FALSE

Functor(f, arg) == [f |-> f, arg |-> arg]
Queued(l, f) == queue' = [queue EXCEPT ![l] = Append(@, f)]
Goes(l, from, to) == phase[l] = from /\ phase' = [phase EXCEPT ![l] = to]

(***************************************************************************)
(* start(): one thread after the other is created, and waited for until    *)
(* its loop_ is published; then the acceptor listens (inline, start() runs *)
(* in the loop's thread).  A second start() finds started_ and does        *)
(* nothing.                                                                *)
(***************************************************************************)
StartThread ==
  LET i == Len(loops) + 1 IN
  /\ phase[Main] = "starting" /\ i <= numThreads
  /\ Goes(i, "idle", "constructing")
  /\ UNCHANGED <<poolVars, serverVars, connVars, quit, batch, queue>>

Publish(i) ==
  /\ Goes(i, "constructing", "ready")
  /\ published' = [published EXCEPT ![i] = TRUE]
  /\ UNCHANGED <<numThreads, loops, next, joining, serverVars, connVars, quit, batch, queue>>

LoopStarted ==
  LET i == Len(loops) + 1 IN
  /\ phase[Main] = "starting" /\ i <= numThreads
  /\ published[i]
  /\ loops' = Append(loops, i)
  /\ UNCHANGED <<numThreads, next, published, joining, serverVars, connVars, loopVars, queue>>

Listen ==
  /\ Len(loops) = numThreads
  /\ Goes(Main, "starting", "ready")
  /\ listening' = TRUE
  /\ UNCHANGED <<poolVars, nextConnId, connections, connVars, quit, batch, queue>>

(***************************************************************************)
(* EventLoop::loop().  It clears quit_ first: a quit() before that is      *)
(* lost.  The loop of a pool thread is destroyed with its queue when       *)
(* loop() returns, the main loop outlives the server.                      *)
(***************************************************************************)
EnterLoop(l) ==
  /\ Goes(l, "ready", "testing")
  /\ quit' = [quit EXCEPT ![l] = FALSE]
  /\ UNCHANGED <<poolVars, serverVars, connVars, batch, queue>>

TestQuit(l) ==
  /\ UNCHANGED <<numThreads, loops, next, joining, serverVars, connVars, quit, batch>>
  /\ \/ /\ ~quit[l]
        /\ Goes(l, "testing", "events")
        /\ UNCHANGED <<published, queue>>
     \/ /\ quit[l]
        /\ Goes(l, "testing", "exited")
        /\ published' = [published EXCEPT ![l] = FALSE]
        /\ queue' = IF l = Main THEN queue ELSE [queue EXCEPT ![l] = <<>>]

SwapFunctors(l) ==
  /\ Goes(l, "events", "functors")
  /\ batch' = [batch EXCEPT ![l] = queue[l]]
  /\ queue' = [queue EXCEPT ![l] = <<>>]
  /\ UNCHANGED <<poolVars, serverVars, connVars, quit>>

\* Mutant: quit_ is cleared once per turn instead of once per loop().
FunctorsDoneClears(l) ==
  /\ batch[l] = <<>>
  /\ Goes(l, "functors", "testing")
  /\ quit' = [quit EXCEPT ![l] = FALSE]
  /\ UNCHANGED <<poolVars, serverVars, connVars, batch, queue>>

FunctorsDone(l) ==
  /\ batch[l] = <<>>
  /\ Goes(l, "functors", "testing")
  /\ UNCHANGED <<poolVars, serverVars, connVars, quit, batch, queue>>

-----------------------------------------------------------------------------
(***************************************************************************)
(* The life of a connection.                                               *)
(***************************************************************************)
\* getNextLoop: the loops of the pool in turn, the main loop if there are none
NextLoop == IF loops = <<>> THEN Main ELSE loops[next]

AdvanceNext == IF loops = <<>> THEN next
               ELSE IF next >= Len(loops) THEN 1 ELSE next + 1

\* acceptSocket_ is readable: handleRead, newConnection
Accept ==
  LET c == nextConnId IN
  /\ phase[Main] = "events" /\ listening /\ c <= MaxConns
  /\ nextConnId' = c + 1
  /\ next' = AdvanceNext
  /\ connections' = connections \union {c}
  /\ ioLoop' = [ioLoop EXCEPT ![c] = NextLoop]
  /\ IF NextLoop = Main
       THEN /\ state' = [state EXCEPT ![c] = "connected"]
            /\ registered' = [registered EXCEPT ![c] = TRUE]
            /\ ups' = [ups EXCEPT ![c] = @ + 1]
            /\ UNCHANGED queue
       ELSE /\ state' = [state EXCEPT ![c] = "connecting"]
            /\ Queued(NextLoop, Functor("connectEstablished", c))
            /\ UNCHANGED <<registered, ups>>
  /\ UNCHANGED <<numThreads, loops, published, joining, listening, took, downs, loopVars>>

ConnectEstablished(c) ==
  /\ state' = [state EXCEPT ![c] = "connected"]
  /\ registered' = [registered EXCEPT ![c] = TRUE]
  /\ ups' = [ups EXCEPT ![c] = @ + 1]
  /\ UNCHANGED <<ioLoop, took, downs>>

\* Mutant: the channel stays in the poller.
ConnectDestroyedNoRemove(c) ==
  /\ state' = [state EXCEPT ![c] = "disconnected"]
  /\ downs' = [downs EXCEPT ![c] = IF state[c] = "connected" THEN @ + 1 ELSE @]
  /\ UNCHANGED <<ioLoop, took, ups, registered>>

ConnectDestroyed(c) ==
  /\ state' = [state EXCEPT ![c] = "disconnected"]
  /\ registered' = [registered EXCEPT ![c] = FALSE]
  /\ downs' = [downs EXCEPT ![c] = IF state[c] = "connected" THEN @ + 1 ELSE @]
  /\ UNCHANGED <<ioLoop, took, ups>>

\* Mutant: the connection is destroyed and not erased.
RemoveConnectionNoErase(c) ==
  Queued(ioLoop[c], Functor("connectDestroyed", c)) /\ UNCHANGED connections

RemoveConnectionInLoop(c) ==
  /\ connections' = connections \ {c}
  /\ Queued(ioLoop[c], Functor("connectDestroyed", c))

(***************************************************************************)
(* handleClose.  The close callback captures its argument by reference,    *)
(* and that is connPtr on the stack of handleClose: harmless if runInLoop  *)
(* calls the lambda at once, but on another loop the lambda finds what is  *)
(* in that stack slot by the time it runs.                                 *)
(***************************************************************************)
\* Mutant: queueInLoop instead of runInLoop, so that the lambda of a
\* connection of the main loop reads a dead slot as well.
HandleCloseQueued(c) ==
  /\ phase[ioLoop[c]] = "events" /\ registered[c] /\ state[c] = "connected"
  /\ state' = [state EXCEPT ![c] = "disconnected"]
  /\ downs' = [downs EXCEPT ![c] = @ + 1]
  /\ Queued(Main, Functor("removeConnection", c))
  /\ UNCHANGED <<poolVars, serverVars, loopVars, ioLoop, registered, took, ups>>

HandleClose(c) ==
  /\ phase[ioLoop[c]] = "events" /\ registered[c] /\ state[c] = "connected"
  /\ state' = [state EXCEPT ![c] = "disconnected"]
  /\ downs' = [downs EXCEPT ![c] = @ + 1]
  /\ IF ioLoop[c] = Main
       THEN RemoveConnectionInLoop(c)
       ELSE Queued(Main, Functor("removeConnection", c)) /\ UNCHANGED connections
  /\ UNCHANGED <<poolVars, listening, nextConnId, loopVars, ioLoop, registered, took, ups>>

\* somebody still holds a shared_ptr to c
Alive(c) ==
  \/ c \in connections
  \/ \E l \in Loops : \E i \in DOMAIN (batch[l] \o queue[l]) :
       LET f == (batch[l] \o queue[l])[i] IN f.f # "removeConnection" /\ f.arg = c

(***************************************************************************)
(* The lambda of c's close callback runs.  What was connPtr may still be   *)
(* there, or any frame of that loop's thread has written over it: the      *)
(* shared_ptr of another of its connections, in use or closed, or nothing  *)
(* that is a connection.                                                   *)
(***************************************************************************)
RunLambda(c) ==
  \/ \E d \in Conns :
       /\ ioLoop[d] = ioLoop[c] /\ Alive(d)
       /\ RemoveConnectionInLoop(d)
       /\ took' = [took EXCEPT ![c] = d]
       /\ UNCHANGED crashed
  \/ /\ crashed' = TRUE
     /\ UNCHANGED <<took, connections, queue>>

\* doPendingFunctors calls the next functor
RunFunctor(l) ==
  LET f == Head(batch[l]) IN
  /\ phase[l] = "functors" /\ batch[l] # <<>>
  /\ batch' = [batch EXCEPT ![l] = Tail(@)]
  /\ \/ /\ f.f = "connectEstablished" /\ ConnectEstablished(f.arg)
        /\ UNCHANGED <<connections, queue, crashed>>
     \/ /\ f.f = "connectDestroyed" /\ ConnectDestroyed(f.arg)
        /\ UNCHANGED <<connections, queue, crashed>>
     \/ /\ f.f = "removeConnection" /\ RunLambda(f.arg)
        /\ UNCHANGED <<ioLoop, state, registered, ups, downs>>
  /\ UNCHANGED <<poolVars, listening, nextConnId, phase, quit>>
-----------------------------------------------------------------------------
(***************************************************************************)
(* The end, as in the echo server's main: a message makes some loop call   *)
(* quit() on the main loop, and when loop() returns the server goes out of *)
(* scope.                                                                  *)
(***************************************************************************)
QuitMain(c) ==
  /\ phase[ioLoop[c]] = "events" /\ state[c] = "connected"
  /\ ~quit[Main]
  /\ quit' = [quit EXCEPT ![Main] = TRUE]
  /\ UNCHANGED <<poolVars, serverVars, connVars, phase, batch, queue>>

\* Mutant: queueInLoop instead of runInLoop.
DestroyServerQueued(c) ==
  /\ phase[Main] = "exited" /\ c \in connections
  /\ connections' = connections \ {c}
  /\ Queued(ioLoop[c], Functor("connectDestroyed", c))
  /\ UNCHANGED <<connVars, poolVars, listening, nextConnId, loopVars>>

\* ~TcpServer: connectDestroyed for every connection, inline or on its loop
DestroyServer(c) ==
  /\ phase[Main] = "exited" /\ c \in connections
  /\ connections' = connections \ {c}
  /\ IF ioLoop[c] = Main
       THEN ConnectDestroyed(c) /\ UNCHANGED queue
       ELSE Queued(ioLoop[c], Functor("connectDestroyed", c)) /\ UNCHANGED connVars
  /\ UNCHANGED <<poolVars, listening, nextConnId, loopVars>>

\* ~EventLoopThread of each thread in turn: quit(), then join().  Its test of
\* loop_ never skips the join: loop_ is published until the loop has quit.
QuitThread(i) ==
  /\ phase[Main] = "exited" /\ connections = {}
  /\ i = joining + 1 /\ i <= numThreads
  /\ joining # 0 => phase[joining] = "exited"
  /\ published[i]
  /\ joining' = i
  /\ quit' = [quit EXCEPT ![i] = TRUE]
  /\ UNCHANGED <<numThreads, loops, next, published, serverVars, connVars, phase, batch, queue>>
-----------------------------------------------------------------------------
LoopStep(l) == EnterLoop(l) \/ TestQuit(l) \/ SwapFunctors(l) \/ FunctorsDone(l)

Step(l) == (LoopStep(l) /\ UNCHANGED crashed) \/ RunFunctor(l)

ServerStep == /\ \/ StartThread \/ LoopStarted \/ Listen
                 \/ \E i \in Subs : Publish(i) \/ QuitThread(i)
                 \/ \E c \in Conns : DestroyServer(c)
              /\ UNCHANGED crashed

ClientStep == /\ \/ Accept
                 \/ \E c \in Conns : HandleClose(c) \/ QuitMain(c)
              /\ UNCHANGED crashed

Next == ~crashed /\ (ServerStep \/ ClientStep \/ \E l \in Loops : Step(l))

Fairness == /\ WF_vars(~crashed /\ ServerStep)
            /\ \A l \in Loops : WF_vars(~crashed /\ Step(l))

Spec == Init /\ [][Next]_vars /\ Fairness
-----------------------------------------------------------------------------
Functors == [f : {"connectEstablished", "connectDestroyed", "removeConnection"}, arg : Conns]

TypeOK ==
  /\ numThreads \in 0..MaxThreads /\ loops \in Seq(Subs) /\ Len(loops) <= numThreads
  /\ next \in DOMAIN loops \union {1} /\ joining \in 0..numThreads
  /\ published \in [Loops -> BOOLEAN] /\ quit \in [Loops -> BOOLEAN]
  /\ listening \in BOOLEAN /\ crashed \in BOOLEAN
  /\ nextConnId \in 1..(MaxConns + 1) /\ connections \subseteq 1..(nextConnId - 1)
  /\ phase \in [Loops -> {"idle", "starting", "constructing", "ready", "testing",
                          "events", "functors", "exited"}]
  /\ queue \in [Loops -> Seq(Functors)] /\ batch \in [Loops -> Seq(Functors)]
  /\ ioLoop \in [Conns -> Loops] /\ registered \in [Conns -> BOOLEAN]
  /\ state \in [Conns -> {"none", "connecting", "connected", "disconnected"}]
  /\ took \in [Conns -> Conns \cup {NoConn}]
  /\ ups \in [Conns -> Nat] /\ downs \in [Conns -> Nat]

\* The user hears of a connection once and of its end at most once, in that
\* order, although the two reports come from functors of two threads, from
\* handleClose and from the destructor.
UpThenDown == \A c \in Conns : downs[c] <= ups[c] /\ ups[c] <= 1

\* Until the server goes, connections_ holds every connection that is not
\* closed, but for those the lambda of another close has taken for its own:
\* one at most for each close, of a connection of the same loop of the pool,
\* and never a connection of the main loop.
LiveStays ==
  phase[Main] # "exited" =>
    \A c \in Conns :
      state[c] \in {"connecting", "connected"} /\ c \notin connections
        => ioLoop[c] # Main /\ \E d \in Conns : /\ took[d] = c /\ ioLoop[d] = ioLoop[c]
                                                 /\ state[d] = "disconnected"

\* A poller never holds the channel of a connection that nobody owns.
RegisteredAlive ==
  \A c \in Conns : registered[c] /\ phase[ioLoop[c]] # "exited" => Alive(c)

\* The pool gets its connections in turn: two loops differ by one at most.
Load(l) == Cardinality({c \in 1..(nextConnId - 1) : ioLoop[c] = l})
Balanced == \A i, j \in DOMAIN loops : Load(loops[i]) <= Load(loops[j]) + 1

\* What holds of the server in every state, whatever its threads do.
Inv == TypeOK /\ UpThenDown /\ RegisteredAlive /\ Balanced

\* A connection that is closed leaves connections_ and the poller of its loop,
\* unless main quits or the lambda of its close took another connection.
ClosedReleased ==
  \A c \in Conns :
    state[c] = "disconnected"
      ~> (c \notin connections /\ ~registered[c]) \/ took[c] \notin {NoConn, c} \/ crashed \/ quit[Main]

\* When the server goes, a connection that is up is reported down, unless its
\* loop quits before it comes to the functor.
DestructorReports ==
  \A c \in Conns :
    phase[Main] = "exited" /\ state[c] = "connected"
      ~> downs[c] = 1 \/ (ioLoop[c] # Main /\ phase[ioLoop[c]] = "exited") \/ crashed

\* join() in ~EventLoopThread returns if the thread had entered loop() when
\* quit() was called (a thread still before that clears quit_ and loops on).
JoinReturns ==
  \A i \in Subs :
    joining = i /\ quit[i] /\ phase[i] # "ready" ~> phase[i] = "exited" \/ crashed
=============================================================================
