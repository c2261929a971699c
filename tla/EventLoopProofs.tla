-------------------------- MODULE EventLoopProofs --------------------------
(***************************************************************************)
(* Proofs about EventLoop for any set of threads and functors and any      *)
(* bound: the inductive invariant, the two no-lost-wakeup invariants, and  *)
(* the refinement of TaskQueue (its safety part; its fairness stays with   *)
(* TLC).                                                                   *)
(***************************************************************************)
EXTENDS EventLoop, SequenceTheorems, TLAPS

(* Init and every step of Next keep Inv: no flag of the loop is set outside *)
(* its phase, and no step takes the loop to poll() with work queued and no  *)
(* wakeup under way.                                                        *)
LEMMA InitInv == ASSUME Init PROVE Inv
<1>1. <<>> \in Seq(Functors)  OBVIOUS
<1>2. TypeOK  BY <1>1 DEF Init, TypeOK, PCs
<1>3. ControlInv  BY DEF Init, ControlInv, Callers
<1>4. WakeupInv /\ QuitWakesPoll  BY DEF Init, WakeupInv, QuitWakesPoll
<1> QED  BY <1>2, <1>3, <1>4 DEF Inv

(* The calls made by any thread keep Inv: queueInLoop, its wakeup, quit()   *)
(* and its wakeup.                                                          *)
LEMMA CallerInv ==
  ASSUME Inv, NEW t \in Callers,
         \/ CallerStep(t) \/ Quit(t) \/ \E f \in Functors : QueueInLoop(t, f)
  PROVE  Inv'
<1> USE LoopAssumption, NoneAssumption
    DEF Inv, TypeOK, ControlInv, WakeupInv, QuitWakesPoll, PCs, Callers, NeedsWakeup
<1>1. CASE QueueInLoopWakeup(t)  BY <1>1 DEF QueueInLoopWakeup
<1>2. CASE QuitWakeup(t)  BY <1>2 DEF QuitWakeup
<1>3. CASE Quit(t)  BY <1>3 DEF Quit, MayCall
<1>4. ASSUME NEW f \in Functors, QueueInLoop(t, f) PROVE Inv'
  <2>1. pending_functors_' \in Seq(Functors) /\ pending_functors_' # <<>>
    BY <1>4, AppendProperties DEF QueueInLoop
  <2>2. TypeOK'  BY <1>4, <2>1 DEF QueueInLoop
  <2>3. ControlInv'  BY <1>4 DEF QueueInLoop, MayCall
  <2>4. WakeupInv'  BY <1>4 DEF QueueInLoop, MayCall
  <2>5. QuitWakesPoll'  BY <1>4 DEF QueueInLoop, MayCall
  <2> QED  BY <2>2, <2>3, <2>4, <2>5
<1> QED  BY <1>1, <1>2, <1>3, <1>4 DEF CallerStep

(* The steps of the loop's own thread keep Inv, the swap and the read of    *)
(* the eventfd included.                                                    *)
LEMMA LoopInv == ASSUME Inv, LoopStep PROVE Inv'
<1> USE LoopAssumption, NoneAssumption
    DEF Inv, TypeOK, ControlInv, WakeupInv, QuitWakesPoll, PCs, Callers, NeedsWakeup, At
<1>1. CASE EnterLoop  BY <1>1 DEF EnterLoop
<1>2. CASE ResetQuit  BY <1>2 DEF ResetQuit
<1>3. CASE CheckQuit  BY <1>3 DEF CheckQuit
<1>4. CASE PollReturn  BY <1>4 DEF PollReturn
<1>5. CASE PollFails  BY <1>5 DEF PollFails
<1>6. CASE TimersDone  BY <1>6 DEF TimersDone
<1>7. CASE HandleRead  BY <1>7 DEF HandleRead
<1>8. CASE EventsDone  BY <1>8 DEF EventsDone
<1>9. CASE Swap  BY <1>9 DEF Swap
<1>10. CASE RunFunctor
  <2>1. Head(functors) \in Functors /\ Tail(functors) \in Seq(Functors)
    BY <1>10, HeadTailProperties DEF RunFunctor
  <2> QED  BY <1>10, <2>1 DEF RunFunctor
<1>11. CASE ReturnFunctor  BY <1>11 DEF ReturnFunctor
<1>12. CASE FunctorsDone  BY <1>12 DEF FunctorsDone
<1> QED  BY <1>1, <1>2, <1>3, <1>4, <1>5, <1>6, <1>7, <1>8, <1>9, <1>10,
            <1>11, <1>12 DEF LoopStep

(* A stuttering step keeps Inv.                                             *)
LEMMA StutterInv == ASSUME Inv, UNCHANGED vars PROVE Inv'
  BY DEF Inv, TypeOK, ControlInv, WakeupInv, QuitWakesPoll, NeedsWakeup, vars

(* Every reachable state of the event loop satisfies Inv: types, phases of  *)
(* the flags, and the wakeup that accompanies queued work.                  *)
THEOREM Invariance == Spec => []Inv
<1>1. Inv /\ [Next]_vars => Inv'
  BY CallerInv, LoopInv, StutterInv DEF Next
<1> QED  BY InitInv, <1>1, PTL DEF Spec

(* The loop never enters poll() on queued work that no wakeup announces     *)
(* (EventLoop::queueInLoop, handleRead).                                    *)
THEOREM WakeupsAreNotLost == Spec => []NoLostWakeup
<1>1. Inv => NoLostWakeup
  BY DEF Inv, TypeOK, ControlInv, WakeupInv, NoLostWakeup, NeedsWakeup, Callers
<1> QED  BY Invariance, <1>1, PTL

(* A quit() from another thread always gets the loop out of poll().         *)
THEOREM QuitReachesPoll == Spec => []QuitWakesPoll
<1>1. Inv => QuitWakesPoll  BY DEF Inv
<1> QED  BY Invariance, <1>1, PTL
-----------------------------------------------------------------------------
(* What the mapping functors \o pending_functors_ does under a push, under  *)
(* the swap and under taking the head of the batch.                         *)
LEMMA ConcatAppend ==
  ASSUME NEW S, NEW s \in Seq(S), NEW u \in Seq(S), NEW x \in S
  PROVE  s \o Append(u, x) = Append(s \o u, x)
  OBVIOUS

(* Swapping pending_functors_ into an empty batch leaves the mapped queue.   *)
LEMMA ConcatEmpty ==
  ASSUME NEW S, NEW s \in Seq(S)
  PROVE  <<>> \o s = s /\ s \o <<>> = s
  OBVIOUS

(* Taking the head of a non-empty batch takes the head of the mapped queue. *)
LEMMA ConcatHead ==
  ASSUME NEW S, NEW s \in Seq(S), NEW u \in Seq(S), s # <<>>
  PROVE  /\ s \o u # <<>>
         /\ Head(s \o u) = Head(s)
         /\ Tail(s \o u) = Tail(s) \o u
  OBVIOUS

(* A call made by any thread is a Submit of the task queue or a stutter.    *)
LEMMA CallerRefines ==
  ASSUME Inv, NEW t \in Callers,
         \/ CallerStep(t) \/ Quit(t) \/ \E f \in Functors : QueueInLoop(t, f)
  PROVE  [Queue!Next]_(Queue!vars)
<1>1. CASE CallerStep(t) \/ Quit(t)
  BY <1>1 DEF CallerStep, QueueInLoopWakeup, QuitWakeup, Quit, Queue!vars
<1>2. ASSUME NEW f \in Functors, QueueInLoop(t, f)  PROVE Queue!Submit(f)
  <2>1. (functors \o pending_functors_)' = Append(functors \o pending_functors_, f)
    BY <1>2, ConcatAppend DEF QueueInLoop, Inv, TypeOK
  <2> QED  BY <1>2, <2>1 DEF QueueInLoop, Queue!Submit
<1> QED  BY <1>1, <1>2 DEF Queue!Next

(* A step of the loop thread is a Begin, a Return or a Close of the task    *)
(* queue, or a stutter; the swap is a stutter.                              *)
LEMMA LoopRefines == ASSUME Inv, LoopStep PROVE [Queue!Next]_(Queue!vars)
<1> USE DEF At
<1>1. CASE EnterLoop  BY <1>1 DEF EnterLoop, Queue!vars
<1>2. CASE ResetQuit  BY <1>2 DEF ResetQuit, Queue!vars
<1>3. CASE CheckQuit
  <2>1. CASE quit_
    BY <1>3, <2>1 DEF CheckQuit, Inv, ControlInv, Queue!Next, Queue!Close
  <2>2. CASE ~quit_
    BY <1>3, <2>2 DEF CheckQuit, Queue!vars
  <2> QED  BY <2>1, <2>2
<1>4. CASE PollReturn \/ PollFails  BY <1>4 DEF PollReturn, PollFails, Queue!vars
<1>5. CASE TimersDone \/ HandleRead \/ EventsDone
  BY <1>5 DEF TimersDone, HandleRead, EventsDone, Queue!vars
<1>6. CASE Swap
  <2>1. functors = <<>>  BY <1>6 DEF Swap, Inv, ControlInv
  <2>2. (functors \o pending_functors_)' = functors \o pending_functors_
    BY <1>6, <2>1, ConcatEmpty DEF Swap, Inv, TypeOK
  <2> QED  BY <1>6, <2>2 DEF Swap, Queue!vars
<1>7. CASE RunFunctor
  <2>1. current = None  BY <1>7 DEF RunFunctor, Inv, ControlInv
  <2>2. /\ functors \o pending_functors_ # <<>>
        /\ Head(functors \o pending_functors_) = Head(functors)
        /\ Tail(functors \o pending_functors_) = Tail(functors) \o pending_functors_
    BY <1>7, ConcatHead DEF RunFunctor, Inv, TypeOK
  <2> QED  BY <1>7, <2>1, <2>2 DEF RunFunctor, Queue!Next, Queue!Begin
<1>8. CASE ReturnFunctor
  BY <1>8 DEF ReturnFunctor, Inv, ControlInv, Queue!Next, Queue!Return
<1>9. CASE FunctorsDone  BY <1>9 DEF FunctorsDone, Queue!vars
<1> QED  BY <1>1, <1>2, <1>3, <1>4, <1>5, <1>6, <1>7, <1>8, <1>9 DEF LoopStep

(* The event loop implements the task queue: functors start in the order    *)
(* queueInLoop received them, each once and one at a time, whatever is      *)
(* queued while a batch runs.                                               *)
THEOREM Refinement == Spec => RunsAsTaskQueue
<1>1. Init => Queue!Init
  BY ConcatEmpty DEF Init, Queue!Init
<1>2. Inv /\ [Next]_vars => [Queue!Next]_(Queue!vars)
  BY CallerRefines, LoopRefines DEF Next, vars, Queue!vars
<1> QED  BY Invariance, <1>1, <1>2, PTL DEF Spec, RunsAsTaskQueue, Queue!Spec
=============================================================================
