----------------------------- MODULE EventLoop -----------------------------
(***************************************************************************)
(* gdrpc::net::EventLoop: the thread that owns the loop polls, runs the    *)
(* timers that are due, lets the active channels handle their events and   *)
(* then runs the functors that it and other threads have queued.  Any      *)
(* thread may call queueInLoop, runInLoop and quit; a wakeup through an    *)
(* eventfd keeps a queued functor or a quit from waiting for the poll.     *)
(*                                                                         *)
(* queueInLoop is two steps, as in the code: the push under mutex_, and    *)
(* the test of the thread and of calling_pending_functors_ with the wakeup *)
(* it decides on.  So is quit().  The eventfd is reduced to "readable".    *)
(***************************************************************************)
EXTENDS Naturals, Sequences

CONSTANTS Threads,     \* threads other than the loop's own
          LoopThread,  \* the thread of threadId_
          Functors,    \* what may be queued
          None,        \* no functor is running
          MaxPending   \* bound on pending_functors_ (a vector in the code)

ASSUME LoopAssumption == LoopThread \notin Threads
ASSUME NoneAssumption == None \notin Functors
ASSUME BoundAssumption == MaxPending \in Nat

VARIABLES
    pc,                        \* where the loop thread is in loop()
    looping_, quit_, calling_pending_functors_,
    pending_functors_,         \* guarded by mutex_
    functors,                  \* doPendingFunctors' local: the swapped batch
    current,                   \* the functor of the batch being executed
    wakeupFd,                  \* the eventfd is readable
    active,                    \* wakeupChannel_ is in active_channels_
    caller,                    \* how far each thread is in queueInLoop/quit
    queuedEarly                \* ghost: the owner queued before loop()

vars == <<pc, looping_, quit_, calling_pending_functors_, pending_functors_,
          functors, current, wakeupFd, active, caller, queuedEarly>>

Callers == Threads \cup {LoopThread}

PCs == {"created", "entered", "check", "poll", "timers", "events", "swap",
        "call", "inFunctor", "stopped"}

TypeOK ==
    /\ pc \in PCs
    /\ looping_ \in BOOLEAN /\ quit_ \in BOOLEAN
    /\ calling_pending_functors_ \in BOOLEAN
    /\ pending_functors_ \in Seq(Functors)
    /\ functors \in Seq(Functors)
    /\ current \in Functors \cup {None}
    /\ wakeupFd \in BOOLEAN /\ active \in BOOLEAN /\ queuedEarly \in BOOLEAN
    /\ caller \in [Callers -> {"idle", "pushed", "quitting"}]

Init ==
    /\ pc = "created"
    /\ looping_ = FALSE /\ quit_ = FALSE /\ calling_pending_functors_ = FALSE
    /\ pending_functors_ = <<>> /\ functors = <<>> /\ current = None
    /\ wakeupFd = FALSE /\ active = FALSE
    /\ caller = [t \in Callers |-> "idle"]
    /\ queuedEarly = FALSE
-----------------------------------------------------------------------------
(* Calls from any thread.  The loop's own thread runs user code before     *)
(* loop(), in a timer task, in an event handler and in a functor.           *)

MayCall(t) ==
    /\ caller[t] = "idle"
    /\ t = LoopThread => pc \in {"created", "timers", "events", "inFunctor"}

\* queueInLoop: emplace_back under mutex_
QueueInLoop(t, f) ==
    /\ MayCall(t)
    /\ Len(pending_functors_) < MaxPending
    /\ pending_functors_' = Append(pending_functors_, f)
    /\ caller' = [caller EXCEPT ![t] = "pushed"]
    /\ queuedEarly' = (queuedEarly \/ (t = LoopThread /\ pc = "created"))
    /\ UNCHANGED <<pc, looping_, quit_, calling_pending_functors_, functors,
                   current, wakeupFd, active>>

\* a mutant: the wakeup forgets functors queued by functors
NeedsWakeupForeignOnly(t) == t # LoopThread

NeedsWakeup(t) == t # LoopThread \/ calling_pending_functors_

\* queueInLoop: the test after the unlock, and wakeup()
QueueInLoopWakeup(t) ==
    /\ caller[t] = "pushed"
    /\ caller' = [caller EXCEPT ![t] = "idle"]
    /\ wakeupFd' = (wakeupFd \/ NeedsWakeup(t))
    /\ UNCHANGED <<pc, looping_, quit_, calling_pending_functors_,
                   pending_functors_, functors, current, active, queuedEarly>>

\* quit(): the store; the loop's own thread is then done
Quit(t) ==
    /\ MayCall(t)
    /\ quit_' = TRUE
    /\ caller' = [caller EXCEPT ![t] = IF t = LoopThread THEN "idle" ELSE "quitting"]
    /\ UNCHANGED <<pc, looping_, calling_pending_functors_, pending_functors_,
                   functors, current, wakeupFd, active, queuedEarly>>

\* quit(): wakeup() from another thread
QuitWakeup(t) ==
    /\ caller[t] = "quitting"
    /\ caller' = [caller EXCEPT ![t] = "idle"]
    /\ wakeupFd' = TRUE
    /\ UNCHANGED <<pc, looping_, quit_, calling_pending_functors_,
                   pending_functors_, functors, current, active, queuedEarly>>
-----------------------------------------------------------------------------
(* The loop thread.  It goes on only when it is not inside a call of its   *)
(* own to queueInLoop.                                                     *)

At(where) == pc = where /\ caller[LoopThread] = "idle"

\* loop(): looping_ = true
EnterLoop ==
    /\ At("created")
    /\ looping_' = TRUE /\ pc' = "entered"
    /\ UNCHANGED <<quit_, calling_pending_functors_, pending_functors_,
                   functors, current, wakeupFd, active, caller, queuedEarly>>

\* loop(): quit_ = false, which forgets a quit() made before it
ResetQuit ==
    /\ At("entered")
    /\ quit_' = FALSE /\ pc' = "check"
    /\ UNCHANGED <<looping_, calling_pending_functors_, pending_functors_,
                   functors, current, wakeupFd, active, caller, queuedEarly>>

\* a mutant: loop() clears quit_ at the top of every iteration
CheckAndResetQuit ==
    /\ At("check")
    /\ pc' = "poll" /\ quit_' = FALSE
    /\ active' = FALSE
    /\ UNCHANGED <<looping_, calling_pending_functors_, pending_functors_,
                   functors, current, wakeupFd, caller, queuedEarly>>

\* while (!quit_) { active_channels_.clear(); ...
CheckQuit ==
    /\ At("check")
    /\ IF quit_ THEN pc' = "stopped" /\ looping_' = FALSE
                ELSE pc' = "poll" /\ UNCHANGED looping_
    /\ active' = FALSE
    /\ UNCHANGED <<quit_, calling_pending_functors_, pending_functors_,
                   functors, current, wakeupFd, caller, queuedEarly>>

\* poll() returns: a timeout, the wakeup channel, or any other channel
PollReturn ==
    /\ At("poll")
    /\ active' = wakeupFd
    /\ pc' = "timers"
    /\ UNCHANGED <<looping_, quit_, calling_pending_functors_, functors,
                   pending_functors_, current, wakeupFd, caller, queuedEarly>>

\* epoll_wait fails (EINTR): no active channel, whatever is readable
PollFails ==
    /\ At("poll")
    /\ pc' = "timers"
    /\ UNCHANGED <<looping_, quit_, calling_pending_functors_, active, functors,
                   pending_functors_, current, wakeupFd, caller, queuedEarly>>

\* doScheduledFunctors returns (module TimeWheel says what it runs)
TimersDone ==
    /\ At("timers")
    /\ pc' = "events"
    /\ UNCHANGED <<looping_, quit_, calling_pending_functors_, active, functors,
                   pending_functors_, current, wakeupFd, caller, queuedEarly>>

\* wakeupChannel_->handleEvent: EventLoop::handleRead empties the eventfd
HandleRead ==
    /\ At("events") /\ active
    /\ active' = FALSE /\ wakeupFd' = FALSE
    /\ UNCHANGED <<pc, looping_, quit_, calling_pending_functors_, functors,
                   pending_functors_, current, caller, queuedEarly>>

\* every active channel has been handled: doPendingFunctors is entered
EventsDone ==
    /\ At("events") /\ ~active
    /\ calling_pending_functors_' = TRUE
    /\ pc' = "swap"
    /\ UNCHANGED <<looping_, quit_, active, functors, pending_functors_,
                   current, wakeupFd, caller, queuedEarly>>

\* a mutant: the batch is copied out only every time the eventfd is readable
SwapOnWakeup ==
    /\ At("swap")
    /\ IF wakeupFd THEN functors' = pending_functors_ /\ pending_functors_' = <<>>
                   ELSE UNCHANGED <<functors, pending_functors_>>
    /\ pc' = "call"
    /\ queuedEarly' = FALSE
    /\ UNCHANGED <<looping_, quit_, calling_pending_functors_, active,
                   current, wakeupFd, caller>>

\* doPendingFunctors: the swap under mutex_
Swap ==
    /\ At("swap")
    /\ functors' = pending_functors_
    /\ pending_functors_' = <<>>
    /\ pc' = "call"
    /\ queuedEarly' = FALSE
    /\ UNCHANGED <<looping_, quit_, calling_pending_functors_, active,
                   current, wakeupFd, caller>>

\* a mutant: the functors are run from the back of the batch
RunLastFunctor ==
    /\ At("call") /\ functors # <<>>
    /\ current' = functors[Len(functors)]
    /\ functors' = SubSeq(functors, 1, Len(functors) - 1)
    /\ pc' = "inFunctor"
    /\ UNCHANGED <<looping_, quit_, calling_pending_functors_, active,
                   pending_functors_, wakeupFd, caller, queuedEarly>>

\* a mutant: no swap, pending_functors_ is emptied while it is being run
RunFromPending ==
    /\ At("call") /\ functors \o pending_functors_ # <<>>
    /\ current' = Head(functors \o pending_functors_)
    /\ IF functors # <<>>
          THEN functors' = Tail(functors) /\ UNCHANGED pending_functors_
          ELSE pending_functors_' = Tail(pending_functors_) /\ UNCHANGED functors
    /\ pc' = "inFunctor"
    /\ UNCHANGED <<looping_, quit_, calling_pending_functors_, active,
                   wakeupFd, caller, queuedEarly>>

\* doPendingFunctors: functor() is called ...
RunFunctor ==
    /\ At("call") /\ functors # <<>>
    /\ current' = Head(functors)
    /\ functors' = Tail(functors)
    /\ pc' = "inFunctor"
    /\ UNCHANGED <<looping_, quit_, calling_pending_functors_, active,
                   pending_functors_, wakeupFd, caller, queuedEarly>>

\* ... and returns
ReturnFunctor ==
    /\ At("inFunctor")
    /\ current' = None
    /\ pc' = "call"
    /\ UNCHANGED <<looping_, quit_, calling_pending_functors_, active,
                   functors, pending_functors_, wakeupFd, caller, queuedEarly>>

FunctorsDone ==
    /\ At("call") /\ functors = <<>>
    /\ calling_pending_functors_' = FALSE
    /\ pc' = "check"
    /\ UNCHANGED <<looping_, quit_, active, functors, pending_functors_,
                   current, wakeupFd, caller, queuedEarly>>

LoopStep == \/ EnterLoop \/ ResetQuit \/ CheckQuit \/ PollReturn \/ PollFails
            \/ TimersDone \/ HandleRead \/ EventsDone \/ Swap
            \/ RunFunctor \/ ReturnFunctor \/ FunctorsDone

CallerStep(t) == QueueInLoopWakeup(t) \/ QuitWakeup(t)

Next == \/ LoopStep
        \/ \E t \in Callers : \/ CallerStep(t) \/ Quit(t)
                              \/ \E f \in Functors : QueueInLoop(t, f)

Spec == Init /\ [][Next]_vars

(* The kernel schedules every thread and poll() returns after kPollTimeMs  *)
(* at the latest; the functors that users queue return.                    *)
FairSpec == Spec /\ WF_vars(LoopStep) /\ \A t \in Callers : WF_vars(CallerStep(t))
-----------------------------------------------------------------------------
(* The loop never goes to sleep in poll() on a functor that is queued      *)
(* without the eventfd being readable or a thread being on its way to make *)
(* it so: the wakeup of queueInLoop, which also covers a functor queued by *)
(* a functor, is never lost to handleRead's read.  The one exception is    *)
(* what the owner queues before it calls loop().                           *)
NoLostWakeup ==
    pc = "poll" /\ pending_functors_ # <<>> /\ ~queuedEarly
        => wakeupFd \/ \E t \in Threads : caller[t] = "pushed"

(* Nor does it go to sleep on a quit(): the wakeup of quit() cannot be     *)
(* consumed by an iteration that does not see quit_.                       *)
QuitWakesPoll ==
    pc = "poll" /\ quit_ => wakeupFd \/ \E t \in Threads : caller[t] = "quitting"

(* The inductive invariant behind the properties above and below: the      *)
(* types, where in loop() each flag and each local may be set, and         *)
(* NoLostWakeup extended to the part of the iteration that leads to poll().*)
ControlInv ==
    /\ looping_ <=> pc \notin {"created", "stopped"}
    /\ calling_pending_functors_ <=> pc \in {"swap", "call", "inFunctor"}
    /\ functors # <<>> => pc \in {"call", "inFunctor"}
    /\ current # None <=> pc = "inFunctor"
    /\ active => pc \in {"timers", "events"}
    /\ caller[LoopThread] # "quitting"
    /\ caller[LoopThread] = "pushed" => pc \in {"created", "timers", "events", "inFunctor"}

WakeupInv ==
    /\ pc \notin {"timers", "events", "swap", "stopped"}
    /\ pending_functors_ # <<>> /\ ~queuedEarly
    => wakeupFd \/ \E t \in Callers : caller[t] = "pushed" /\ NeedsWakeup(t)

Inv == TypeOK /\ ControlInv /\ WakeupInv /\ QuitWakesPoll

(* Functors run in the order they were queued, each once, across the swap  *)
(* of pending_functors_ and whatever is queued meanwhile, and every one    *)
(* that is queued starts unless the loop stops first.                      *)
Queue == INSTANCE TaskQueue WITH queue <- functors \o pending_functors_,
                                 open <- pc # "stopped"
RunsAsTaskQueue == Queue!Spec
RunsAllTasks == Queue!FairSpec

(* quit() ends the loop once loop() has cleared quit_ for the last time.   *)
QuitStops ==
    (quit_ /\ pc \notin {"created", "entered"}) ~> (pc = "stopped" /\ ~looping_)

(* Functors that keep queueing functors do not keep the loop from polling: *)
(* doPendingFunctors runs only the batch it swapped out.                   *)
KeepsPolling == []<>(pc \in {"poll", "stopped"})
=============================================================================
