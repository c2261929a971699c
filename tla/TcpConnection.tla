--------------------------- MODULE TcpConnection ---------------------------
(***************************************************************************)
(* One gdrpc::net::TcpConnection with its Channel, its registration in     *)
(* EPollPoller, the functors queued for it in its EventLoop, the owner     *)
(* that keeps it in a map (TcpServer::connections_ of a server without     *)
(* sub-loops, or TcpClient::connection_), the threads that hold a          *)
(* shared_ptr to it, and the kernel's socket with the peer behind it.      *)
(*                                                                         *)
(* The loop thread's handlers are atomic with respect to each other; other *)
(* threads interleave with them through state_ and through the queue, and  *)
(* their calls have two steps: the test (or compare-exchange) of state_,   *)
(* and queueInLoop.  The queue is the one of TaskQueue, which EventLoop    *)
(* implements; batch is how much of it doPendingFunctors has swapped out.  *)
(*                                                                         *)
(* A message is two bytes long, so that a write may take part of one.  A   *)
(* write to a broken socket returns EPIPE: the program ignores SIGPIPE.    *)
(* highWaterMarkCallback_ is not set (nothing in the repository sets it).  *)
(* Reading is never disabled, so epoll reports EPOLLIN with every EPOLLHUP *)
(* and handleEvent's close branch does not run.                            *)
(***************************************************************************)
EXTENDS Naturals, Sequences

CONSTANTS Threads,        \* threads other than the loop's
          Messages,       \* each is sent at most once
          WriteComplete,  \* writeCompleteCallback_ is set
          OwnerLeaves,    \* the owner may be destroyed while the loop runs
          MaxInbound      \* bound on the chunks the peer sends

ASSUME FlagAssumption == WriteComplete \in BOOLEAN /\ OwnerLeaves \in BOOLEAN
ASSUME InboundAssumption == MaxInbound \in Nat

VARIABLES
    \* TcpConnection
    state_, outputBuffer_,
    \* Channel and EPollPoller: events_, state_ and the epoll instance
    reading, writing, chan, inEpoll,
    \* the loop thread, its queue, the handlers due for this poll
    loop, todo, queue, batch,
    \* doPendingFunctors' local vector holds a shared_ptr: functors that have
    \* run are destroyed with it, at the end of the batch
    kept,
    \* who holds a shared_ptr: the owner, and what each thread is doing
    owner, user,
    \* the kernel's socket and the peer
    peer, inbound, sent, sockErr, shutWr,
    \* history: bytes handed to the kernel and bytes sendInLoop accepted, in
    \* order; messages not used yet; calls of connectionCallback_ with the
    \* connection down; the owner went while handleRead was due
    wire, accepted, unused, downs, due

connVars == <<state_, outputBuffer_>>
chanVars == <<reading, writing, chan, inEpoll>>
loopVars == <<loop, todo>>
queueVars == <<queue, batch, kept>>
refVars == <<owner, user>>
netVars == <<peer, inbound, sent, sockErr, shutWr>>
histVars == <<wire, accepted, unused, downs, due>>
vars == <<connVars, chanVars, loopVars, queueVars, refVars, netVars, histVars>>

Open == {"kConnected", "kDisconnecting"}

\* what queueInLoop receives; all but shutdown are bound to a shared_ptr
Functors == {<<"send", m>> : m \in Messages}
            \cup {<<"shutdown">>, <<"forceClose">>, <<"connectDestroyed">>, <<"writeComplete">>}

\* what a thread's own call may be about to queue
CallFunctors == {<<"send", m>> : m \in Messages} \cup {<<"shutdown">>, <<"forceClose">>}

\* a thread has no shared_ptr, is outside any call, or is about to queue
NoRef == <<"none">>
Idle == <<"idle">>

Bytes(m) == <<m, m>>

TypeOK ==
    /\ state_ \in {"kConnecting", "kConnected", "kDisconnecting", "kDisconnected"}
    /\ outputBuffer_ \in Seq(Messages)
    /\ reading \in BOOLEAN /\ writing \in BOOLEAN /\ inEpoll \in BOOLEAN
    /\ chan \in {"kNew", "kAdded", "kDeleted"}
    /\ loop \in {"accepted", "poll", "events", "dispatch", "up", "message",
                 "functors", "writeComplete", "crashed"}
    /\ todo \subseteq {"error", "read", "write"}
    /\ queue \in Seq(Functors) /\ batch \in 0 .. Len(queue) /\ kept \in BOOLEAN
    /\ owner \in BOOLEAN
    /\ user \in [Threads -> {NoRef, Idle} \cup CallFunctors]
    /\ peer \in {"open", "fin", "rst"}
    /\ inbound \in Nat /\ sent \in Nat /\ sockErr \in BOOLEAN /\ shutWr \in BOOLEAN
    /\ wire \in Seq(Messages) /\ accepted \in Seq(Messages)
    /\ unused \subseteq Messages /\ downs \in Nat /\ due \in BOOLEAN

\* TcpServer::newConnection or TcpClient::newConnection has just made it
Init ==
    /\ state_ = "kConnecting" /\ outputBuffer_ = <<>>
    /\ reading = FALSE /\ writing = FALSE /\ chan = "kNew" /\ inEpoll = FALSE
    /\ loop = "accepted" /\ todo = {} /\ queue = <<>> /\ batch = 0 /\ kept = FALSE
    /\ owner = TRUE /\ user = [t \in Threads |-> NoRef]
    /\ peer = "open" /\ inbound = 0 /\ sent = 0 /\ sockErr = FALSE /\ shutWr = FALSE
    /\ wire = <<>> /\ accepted = <<>> /\ unused = Messages /\ downs = 0 /\ due = FALSE
-----------------------------------------------------------------------------
(* Channel::enable*/disable* and EPollPoller::updateChannel: events_ become *)
(* r and w; ADD for a channel that is not added, else DEL or MOD.           *)
UpdateChannel(r, w) ==
    /\ reading' = r /\ writing' = w
    /\ chan' = IF chan = "kAdded" /\ ~r /\ ~w THEN "kDeleted" ELSE "kAdded"
    /\ inEpoll' = CASE chan # "kAdded" -> TRUE
                    [] chan = "kAdded" /\ ~r /\ ~w -> FALSE
                    [] OTHER -> inEpoll

\* the socket's answer to a write of n bytes: an error, or how many it took
Broken == peer = "rst" \/ shutWr
Written(n) == IF Broken THEN {} ELSE 0 .. n

(* sendInLoop; q is the queue without the functor that called it.          *)
SendGivenUp(q) ==
    /\ state_ = "kDisconnected"
    /\ queue' = q
    /\ UNCHANGED <<connVars, chanVars, netVars, wire, accepted>>

\* EPIPE or ECONNRESET: the data is dropped
SendFails(q) ==
    /\ state_ # "kDisconnected" /\ ~writing /\ outputBuffer_ = <<>> /\ Broken
    /\ sockErr' = FALSE
    /\ queue' = q
    /\ UNCHANGED <<connVars, chanVars, peer, inbound, sent, shutWr, wire, accepted>>

\* a mutant: written at once although data is waiting
SendOvertakes(m, q) ==
    /\ state_ # "kDisconnected"
    /\ \E n \in Written(2) :
        /\ wire' = wire \o SubSeq(Bytes(m), 1, n)
        /\ outputBuffer_' = outputBuffer_ \o SubSeq(Bytes(m), n + 1, 2)
        /\ queue' = IF n = 2 /\ WriteComplete THEN Append(q, <<"writeComplete">>) ELSE q
        /\ IF n < 2 THEN UpdateChannel(reading, TRUE) ELSE UNCHANGED chanVars
    /\ accepted' = accepted \o Bytes(m)
    /\ UNCHANGED <<state_, netVars>>

\* written at once, as far as the socket takes it
SendWrites(m, q) ==
    /\ state_ # "kDisconnected" /\ ~writing /\ outputBuffer_ = <<>>
    /\ \E n \in Written(2) :
        /\ wire' = wire \o SubSeq(Bytes(m), 1, n)
        /\ outputBuffer_' = SubSeq(Bytes(m), n + 1, 2)
        /\ queue' = IF n = 2 /\ WriteComplete THEN Append(q, <<"writeComplete">>) ELSE q
        /\ IF n < 2 THEN UpdateChannel(reading, TRUE) ELSE UNCHANGED chanVars
    /\ accepted' = accepted \o Bytes(m)
    /\ UNCHANGED <<state_, netVars>>

\* data is waiting already: this goes behind it
SendBuffers(m, q) ==
    /\ state_ # "kDisconnected" /\ (writing \/ outputBuffer_ # <<>>)
    /\ outputBuffer_' = outputBuffer_ \o Bytes(m)
    /\ accepted' = accepted \o Bytes(m)
    /\ IF ~writing THEN UpdateChannel(reading, TRUE) ELSE UNCHANGED chanVars
    /\ queue' = q
    /\ UNCHANGED <<state_, netVars, wire>>

SendInLoop(m, q) == SendGivenUp(q) \/ SendFails(q) \/ SendWrites(m, q) \/ SendBuffers(m, q)

\* a mutant: the FIN does not wait for the output buffer
ShutdownAtOnce == shutWr' = TRUE

\* shutdownInLoop
ShutdownInLoop == shutWr' = (shutWr \/ ~writing)

\* a mutant: the owner keeps its entry
HandleCloseKeepsEntry(q) ==
    /\ state_' = "kDisconnected"
    /\ UpdateChannel(FALSE, FALSE)
    /\ downs' = downs + 1
    /\ queue' = Append(q, <<"connectDestroyed">>)
    /\ UNCHANGED owner

(* handleClose, with the owner's closeCallback_: removeConnectionInLoop (or *)
(* TcpClient::removeConnection) drops the owner's shared_ptr and queues     *)
(* connectDestroyed with one.                                               *)
HandleClose(q) ==
    /\ state_' = "kDisconnected"
    /\ UpdateChannel(FALSE, FALSE)
    /\ downs' = downs + 1
    /\ owner' = FALSE
    /\ queue' = Append(q, <<"connectDestroyed">>)

\* connectDestroyed: the state if it is still open, and Channel::remove
ConnectDestroyed ==
    /\ state_' = IF state_ \in Open THEN "kDisconnected" ELSE state_
    /\ downs' = IF state_ \in Open THEN downs + 1 ELSE downs
    /\ inEpoll' = (inEpoll /\ chan # "kAdded")
    /\ UNCHANGED <<outputBuffer_, reading, writing, chan>>
-----------------------------------------------------------------------------
(* Who holds a shared_ptr to the connection: shutdown() binds this, the     *)
(* other functors one each, and handleEvent locks tie_ while it dispatches. *)
Holds(f) == f # <<"shutdown">>
Alive == \/ owner \/ kept
         \/ \E t \in Threads : user[t] # NoRef
         \/ \E i \in 1 .. Len(queue) : Holds(queue[i])
         \/ loop \in {"dispatch", "up", "message"}
-----------------------------------------------------------------------------
(* Polling and dispatch                                                    *)

\* connectEstablished, ending in the user's connectionCallback_
ConnectEstablished ==
    /\ loop = "accepted"
    /\ state_' = "kConnected"
    /\ UpdateChannel(TRUE, writing)
    /\ loop' = "up"
    /\ UNCHANGED <<outputBuffer_, todo, queueVars, refVars, netVars, histVars>>

\* the handlers that handleEventWithGuard will call
Handlers(in, err, out) ==
    {h \in {"error", "read", "write"} :
        (h = "error" /\ err) \/ (h = "read" /\ in) \/ (h = "write" /\ out)}

\* EPollPoller::poll and fillActiveChannels; out: the socket has space
Poll(out) ==
    /\ loop = "poll"
    /\ loop' = "events"
    /\ out => inEpoll /\ writing
    /\ todo' = IF inEpoll
                 THEN Handlers(reading /\ (inbound > 0 \/ peer # "open"), sockErr, out)
                 ELSE {}
    /\ UNCHANGED <<connVars, chanVars, queueVars, refVars, netVars, histVars>>

\* Channel::handleEvent: tie_ is locked
HandleEvent ==
    /\ loop = "events" /\ todo # {} /\ Alive
    /\ loop' = "dispatch"
    /\ UNCHANGED <<connVars, chanVars, todo, queueVars, refVars, netVars, histVars>>

\* the channel went with its connection but is in active_channels_ still:
\* undefined behaviour, taken as a tie_ that cannot be locked or a crash
HandleEventFreed ==
    /\ loop = "events" /\ todo # {} /\ ~Alive
    /\ todo' = {}
    /\ loop' \in {"events", "crashed"}
    /\ UNCHANGED <<connVars, chanVars, queueVars, refVars, netVars, histVars>>

\* the order of the tests in handleEventWithGuard: error, read, write
Before(h) == CASE h = "error" -> {} [] h = "read" -> {"error"} [] h = "write" -> {"error", "read"}

\* the next handler of handleEventWithGuard is h
Calls(h) == /\ loop = "dispatch" /\ h \in todo /\ todo \cap Before(h) = {}
            /\ todo' = todo \ {h}

\* handleError: getsockopt clears the error, a log line follows
HandleError ==
    /\ Calls("error")
    /\ sockErr' = FALSE
    /\ UNCHANGED <<connVars, chanVars, loop, queueVars, refVars,
                   peer, inbound, sent, shutWr, histVars>>

\* handleRead, n > 0: the message callback is entered
HandleReadData ==
    /\ Calls("read") /\ inbound > 0
    /\ inbound' = 0
    /\ loop' = "message"
    /\ UNCHANGED <<connVars, chanVars, queueVars, refVars,
                   peer, sent, sockErr, shutWr, histVars>>

\* handleRead, n < 0: handleError
HandleReadError ==
    /\ Calls("read") /\ inbound = 0 /\ sockErr
    /\ sockErr' = FALSE
    /\ UNCHANGED <<connVars, chanVars, loop, queueVars, refVars,
                   peer, inbound, sent, shutWr, histVars>>

\* a mutant: the end of the stream is treated like an error
HandleReadEndLogs ==
    /\ Calls("read") /\ inbound = 0 /\ ~sockErr
    /\ UNCHANGED <<connVars, chanVars, loop, queueVars, refVars, netVars, histVars>>

\* handleRead, n = 0: handleClose; closeCallback_ finds the owner, or what
\* ~TcpServer left of it: undefined behaviour, taken as still there or a crash
HandleReadEnd ==
    /\ Calls("read") /\ inbound = 0 /\ ~sockErr
    /\ HandleClose(queue)
    /\ IF owner THEN UNCHANGED loop ELSE loop' \in {"dispatch", "crashed"}
    /\ UNCHANGED <<outputBuffer_, batch, kept, user, netVars,
                   wire, accepted, unused, due>>

\* a mutant: handleWrite does not finish a shutdown that waits for it
HandleWriteNoShutdown ==
    /\ Calls("write") /\ writing
    /\ \E n \in Written(Len(outputBuffer_)) \ {0} :
        /\ wire' = wire \o SubSeq(outputBuffer_, 1, n)
        /\ outputBuffer_' = SubSeq(outputBuffer_, n + 1, Len(outputBuffer_))
    /\ IF outputBuffer_' = <<>>
         THEN /\ UpdateChannel(reading, FALSE)
              /\ queue' = IF WriteComplete THEN Append(queue, <<"writeComplete">>) ELSE queue
         ELSE UNCHANGED <<chanVars, queue>>
    /\ UNCHANGED <<state_, loop, batch, kept, refVars, netVars,
                   accepted, unused, downs, due>>

\* handleWrite when some bytes are taken
HandleWrite ==
    /\ Calls("write") /\ writing
    /\ \E n \in Written(Len(outputBuffer_)) \ {0} :
        /\ wire' = wire \o SubSeq(outputBuffer_, 1, n)
        /\ outputBuffer_' = SubSeq(outputBuffer_, n + 1, Len(outputBuffer_))
    /\ IF outputBuffer_' = <<>>
         THEN /\ UpdateChannel(reading, FALSE)
              /\ queue' = IF WriteComplete THEN Append(queue, <<"writeComplete">>) ELSE queue
              /\ shutWr' = (shutWr \/ state_ = "kDisconnecting")
         ELSE UNCHANGED <<chanVars, queue, shutWr>>
    /\ UNCHANGED <<state_, loop, batch, kept, refVars, peer, inbound, sent, sockErr,
                   accepted, unused, downs, due>>

\* a mutant: write interest is dropped without looking at isWriting()
HandleWriteUnregisters ==
    /\ Calls("write") /\ (writing => Broken)
    /\ UpdateChannel(reading, FALSE)
    /\ sockErr' = (sockErr /\ ~writing)
    /\ UNCHANGED <<connVars, loop, queueVars, refVars,
                   peer, inbound, sent, shutWr, histVars>>

\* handleWrite when the write fails, or when writing was disabled meanwhile
HandleWriteNothing ==
    /\ Calls("write") /\ (writing => Broken)
    /\ sockErr' = (sockErr /\ ~writing)
    /\ UNCHANGED <<connVars, chanVars, loop, queueVars, refVars,
                   peer, inbound, sent, shutWr, histVars>>

\* the callbacks made from a handler return
CallbackReturns ==
    /\ loop \in {"up", "message", "writeComplete"}
    /\ loop' = [up |-> "events", message |-> "dispatch", writeComplete |-> "functors"][loop]
    /\ UNCHANGED <<connVars, chanVars, todo, queueVars, refVars, netVars, histVars>>

HandleEventReturns ==
    /\ loop = "dispatch" /\ todo = {}
    /\ loop' = "events"
    /\ UNCHANGED <<connVars, chanVars, todo, queueVars, refVars, netVars, histVars>>

\* doPendingFunctors: the swap
SwapFunctors ==
    /\ loop = "events" /\ todo = {}
    /\ loop' = "functors"
    /\ batch' = Len(queue)
    /\ UNCHANGED <<connVars, chanVars, todo, queue, kept, refVars, netVars, histVars>>

\* doPendingFunctors returns: its vector goes
FunctorsDone ==
    /\ loop = "functors" /\ batch = 0
    /\ loop' = "poll"
    /\ kept' = FALSE
    /\ UNCHANGED <<connVars, chanVars, todo, queue, batch, refVars, netVars, histVars>>
-----------------------------------------------------------------------------
(* The functors of this connection                                         *)

Runs(f) == /\ loop = "functors" /\ batch > 0 /\ Head(queue) = f
           /\ batch' = batch - 1
           /\ kept' = (kept \/ Holds(f))

RunSend(m) ==
    /\ Runs(<<"send", m>>)
    /\ SendInLoop(m, Tail(queue))
    /\ UNCHANGED <<loopVars, refVars, unused, downs, due>>

RunShutdown ==
    /\ Runs(<<"shutdown">>) /\ Alive
    /\ queue' = Tail(queue)
    /\ ShutdownInLoop
    /\ UNCHANGED <<connVars, chanVars, loopVars, refVars,
                   peer, inbound, sent, sockErr, histVars>>

\* the connection is gone: undefined behaviour, taken as no effect or a crash
RunShutdownFreed ==
    /\ Runs(<<"shutdown">>) /\ ~Alive
    /\ queue' = Tail(queue)
    /\ loop' \in {"functors", "crashed"}
    /\ UNCHANGED <<connVars, chanVars, todo, refVars, netVars, histVars>>

\* a mutant: forceCloseInLoop closes a connection that is closed already
RunForceCloseUnchecked ==
    /\ Runs(<<"forceClose">>)
    /\ HandleClose(Tail(queue))
    /\ UNCHANGED <<outputBuffer_, loopVars, user, netVars, wire, accepted, unused, due>>

\* forceCloseInLoop
RunForceClose ==
    /\ Runs(<<"forceClose">>)
    /\ IF state_ \in Open
         THEN HandleClose(Tail(queue))
         ELSE queue' = Tail(queue) /\ UNCHANGED <<state_, chanVars, downs, owner>>
    /\ UNCHANGED <<outputBuffer_, loopVars, user, netVars, wire, accepted, unused, due>>

RunConnectDestroyed ==
    /\ Runs(<<"connectDestroyed">>)
    /\ queue' = Tail(queue)
    /\ ConnectDestroyed
    /\ UNCHANGED <<loopVars, refVars, netVars, wire, accepted, unused, due>>

RunWriteComplete ==
    /\ Runs(<<"writeComplete">>)
    /\ queue' = Tail(queue)
    /\ loop' = "writeComplete"
    /\ UNCHANGED <<connVars, chanVars, todo, refVars, netVars, histVars>>

LoopStep ==
    \/ ConnectEstablished \/ Poll(FALSE) \/ HandleEvent \/ HandleEventFreed \/ HandleError
    \/ HandleReadData \/ HandleReadError \/ HandleReadEnd
    \/ HandleWrite \/ HandleWriteNothing \/ CallbackReturns \/ HandleEventReturns
    \/ SwapFunctors \/ FunctorsDone
    \/ RunShutdown \/ RunShutdownFreed \/ RunForceClose \/ RunConnectDestroyed
    \/ RunWriteComplete \/ \E m \in Messages : RunSend(m)
-----------------------------------------------------------------------------
(* User code on the loop thread: this connection's callbacks, and the      *)
(* handlers of other channels before and after this one's.                 *)

InUserCode == loop \in {"events", "up", "message", "writeComplete"}

\* send() on the loop thread: sendInLoop directly
Send(m) ==
    /\ InUserCode /\ m \in unused
    /\ state_ = "kConnected"
    /\ unused' = unused \ {m}
    /\ SendInLoop(m, queue)
    /\ UNCHANGED <<loopVars, batch, kept, refVars, downs, due>>

\* shutdown() on the loop thread: runInLoop calls shutdownInLoop directly
Shutdown ==
    /\ InUserCode
    /\ state_ = "kConnected"
    /\ state_' = "kDisconnecting"
    /\ ShutdownInLoop
    /\ UNCHANGED <<outputBuffer_, chanVars, loopVars, queueVars, refVars,
                   peer, inbound, sent, sockErr, histVars>>

ForceClose ==
    /\ InUserCode
    /\ state_ = "kConnected"
    /\ state_' = "kDisconnecting"
    /\ queue' = Append(queue, <<"forceClose">>)
    /\ UNCHANGED <<outputBuffer_, chanVars, loopVars, batch, kept, refVars, netVars, histVars>>

\* the user hands the shared_ptr of a callback to another thread
Share(t) ==
    /\ loop \in {"up", "message"} /\ user[t] = NoRef
    /\ user' = [user EXCEPT ![t] = Idle]
    /\ UNCHANGED <<connVars, chanVars, loopVars, queueVars, owner, netVars, histVars>>

\* ~TcpServer on the loop thread, from a timer's task, another channel's
\* handler, a functor or a callback: connectDestroyed, and the map goes
OwnerDestroyed ==
    /\ OwnerLeaves
    /\ loop \in {"events", "message", "functors", "writeComplete"} /\ owner
    /\ ConnectDestroyed
    /\ owner' = FALSE
    /\ due' = ("read" \in todo)
    /\ UNCHANGED <<loopVars, queueVars, user, netVars, wire, accepted, unused>>

LoopUser == Shutdown \/ ForceClose \/ OwnerDestroyed \/ \E m \in Messages : Send(m)
-----------------------------------------------------------------------------
(* The same calls on another thread: state_ first, queueInLoop later        *)

SendChecks(t, m) ==
    /\ user[t] = Idle /\ m \in unused
    /\ state_ = "kConnected"
    /\ unused' = unused \ {m}
    /\ user' = [user EXCEPT ![t] = <<"send", m>>]
    /\ UNCHANGED <<connVars, chanVars, loopVars, queueVars, owner, netVars,
                   wire, accepted, downs, due>>

ShutdownExchanges(t) ==
    /\ user[t] = Idle
    /\ state_ = "kConnected"
    /\ state_' = "kDisconnecting"
    /\ user' = [user EXCEPT ![t] = <<"shutdown">>]
    /\ UNCHANGED <<outputBuffer_, chanVars, loopVars, queueVars, owner, netVars, histVars>>

ForceCloseExchanges(t) ==
    /\ user[t] = Idle
    /\ state_ = "kConnected"
    /\ state_' = "kDisconnecting"
    /\ user' = [user EXCEPT ![t] = <<"forceClose">>]
    /\ UNCHANGED <<outputBuffer_, chanVars, loopVars, queueVars, owner, netVars, histVars>>

\* runInLoop from another thread is queueInLoop, and the call returns
Queues(t) ==
    /\ user[t] \in CallFunctors
    /\ queue' = Append(queue, user[t])
    /\ user' = [user EXCEPT ![t] = Idle]
    /\ UNCHANGED <<connVars, chanVars, loopVars, batch, kept, owner, netVars, histVars>>

\* the thread lets its shared_ptr go
Releases(t) ==
    /\ user[t] = Idle
    /\ user' = [user EXCEPT ![t] = NoRef]
    /\ UNCHANGED <<connVars, chanVars, loopVars, queueVars, owner, netVars, histVars>>

ThreadStep(t) == \/ Share(t) \/ ShutdownExchanges(t) \/ ForceCloseExchanges(t)
                 \/ Queues(t) \/ Releases(t) \/ \E m \in Messages : SendChecks(t, m)
-----------------------------------------------------------------------------
(* The peer                                                                *)

PeerSends == /\ peer = "open" /\ sent < MaxInbound
             /\ inbound' = inbound + 1 /\ sent' = sent + 1
             /\ UNCHANGED <<connVars, chanVars, loopVars, queueVars, refVars,
                            peer, sockErr, shutWr, histVars>>

PeerCloses == /\ peer = "open" /\ peer' = "fin"
              /\ UNCHANGED <<connVars, chanVars, loopVars, queueVars, refVars,
                             inbound, sent, sockErr, shutWr, histVars>>

PeerResets == /\ peer # "rst" /\ peer' = "rst" /\ sockErr' = TRUE
              /\ UNCHANGED <<connVars, chanVars, loopVars, queueVars, refVars,
                             inbound, sent, shutWr, histVars>>

PeerStep == PeerSends \/ PeerCloses \/ PeerResets

Next == LoopStep \/ Poll(TRUE) \/ LoopUser \/ PeerStep \/ \E t \in Threads : ThreadStep(t)

Spec == Init /\ [][Next]_vars

(* The loop keeps running and its callbacks return; a thread inside a call *)
(* finishes it; a peer that is there keeps reading, so that a socket with  *)
(* write interest becomes writable again and again.                        *)
FairSpec == Spec /\ WF_vars(LoopStep) /\ SF_vars(Poll(TRUE))
                 /\ \A t \in Threads : WF_vars(Queues(t))
-----------------------------------------------------------------------------
(* What the kernel got, followed by what outputBuffer_ holds, is exactly   *)
(* what sendInLoop accepted, in that order: nothing lost, duplicated or    *)
(* reordered by partial writes, direct writes and handleWrite.             *)
StreamIntact == wire \o outputBuffer_ = accepted

(* While the connection is open, write interest is registered exactly when *)
(* there is something to write: no busy loop, no forgotten data.           *)
WritingIffBuffered == state_ \in Open => (writing <=> outputBuffer_ # <<>>)

(* On an open connection the FIN goes out only after every buffered byte:  *)
(* shutdown() during a pending write waits for handleWrite.                *)
FinAfterBuffer == shutWr /\ state_ \in Open => outputBuffer_ = <<>>

(* The user hears of the end of the connection, and exactly once whichever *)
(* of handleRead, forceClose and the owner's destructor ends it, unless the *)
(* owner was destroyed between the poll that found the socket readable and  *)
(* handleRead, for a connection that someone else holds: a handleRead that  *)
(* then reads the end of the stream reports it once more, and no more.      *)
DownOnce ==
    /\ downs = 0 <=> state_ # "kDisconnected"
    /\ downs <= IF due THEN 2 ELSE 1

(* A closed connection's channel is never in the epoll set again, whatever *)
(* is still queued or due in the same dispatch: update() on a deleted      *)
(* channel would ADD it.                                                   *)
ClosedNotPolled == inEpoll <=> state_ \in Open

(* The owner's entry goes with the close, and connectDestroyed is queued   *)
(* only for a closed connection that no handleRead can close again, once.  *)
Indices(q, f) == {i \in 1 .. Len(q) : q[i] = f}
Pending(f) == Indices(queue, f)
DestroyedOnce ==
    /\ owner <=> state_ # "kDisconnected"
    /\ owner \/ "read" \in todo => Pending(<<"connectDestroyed">>) = {}
    /\ \A i, j \in Pending(<<"connectDestroyed">>) : i = j

(* What the invariants above rest on: which handlers may still be due in   *)
(* which state, and how the channel is registered.                         *)
DispatchInv ==
    /\ todo # {} => loop \in {"events", "dispatch", "message", "crashed"}
    /\ loop = "accepted" <=> state_ = "kConnecting"
    /\ state_ = "kConnecting" => chan = "kNew" /\ ~writing /\ outputBuffer_ = <<>>
    /\ state_ \in Open => chan = "kAdded" /\ reading
    /\ state_ = "kDisconnected" /\ (writing \/ "read" \in todo) => chan = "kAdded"
    /\ state_ = "kDisconnected" /\ "read" \in todo => due /\ downs = 1

Inv == /\ TypeOK /\ StreamIntact /\ WritingIffBuffered /\ FinAfterBuffer
       /\ DownOnce /\ ClosedNotPolled /\ DestroyedOnce /\ DispatchInv

(* A shutdown() or forceClose() ends in the FIN or in the close: the       *)
(* buffered data drains and handleWrite then calls shutdownInLoop.         *)
ShutdownCompletes ==
    (state_ = "kDisconnecting") ~> (shutWr \/ state_ = "kDisconnected")

(* A close or reset by the peer always ends the connection, whatever data, *)
(* error or shutdown comes in between.                                     *)
PeerCloseNoticed ==
    (peer # "open" /\ state_ \in Open) ~> (state_ = "kDisconnected")

(* A closed connection is released once no thread holds on to it, unless    *)
(* its close found a destroyed owner and crashed.                           *)
ReleasedAfterClose ==
    (state_ = "kDisconnected")
        ~> (~Alive \/ (\E t \in Threads : user[t] # NoRef) \/ loop = "crashed")

(* No queued call reaches the connection after it has been destroyed.      *)
NoUseAfterFree ==
    ~Alive => \A i \in 1 .. Len(queue) : queue[i] # <<"shutdown">>
=============================================================================
