----------------------------- MODULE TimeWheel -----------------------------
(***************************************************************************)
(* gdrpc::util::TimeWheel: SlotLen slots, each a list of tasks; a tick     *)
(* visits the current slot, counts down the rotations of the tasks that    *)
(* have some left, executes the others and moves on by one slot.           *)
(* takeAllTimeout, called by EventLoop::doScheduledFunctors, ticks once    *)
(* for every millisecond since the previous call.                          *)
(*                                                                         *)
(* Everything runs on the loop's thread.  A task's function may itself add *)
(* and delete tasks while tick() iterates over the slot.  The order of a   *)
(* slot's list is abstracted to any order.  The Task constructor that      *)
(* addTask uses leaves times_ uninitialised: it is any value of Garbage.   *)
(* The clock is the system clock, which may be set back.                   *)
(* addTask takes an int64_t, but a Task keeps ints: a timeout beyond MaxInt *)
(* would come back negative and index slots_ out of its bounds, so that the *)
(* module is about timeouts that an int can hold.                          *)
(***************************************************************************)
EXTENDS Integers, FiniteSets

CONSTANTS Tasks,        \* Task objects
          None,         \* no slot, no task
          SlotLen,      \* number of slots (60000 in EventLoop)
          Timeouts,     \* arguments of addTask
          MaxInt,       \* the largest int (2^31 - 1)
          Garbage,      \* what an uninitialised times_ may hold
          MaxLag,       \* bound on the milliseconds between two polls
          MaxSetbacks   \* bound on how often the clock is set back

ASSUME SlotAssumption == SlotLen \in Nat \ {0}
ASSUME IntAssumption == MaxInt \in Nat
ASSUME TimeoutAssumption == \A n \in Timeouts : n \in Int /\ n <= MaxInt
ASSUME GarbageAssumption == Garbage \subseteq -(MaxInt + 1) .. MaxInt
ASSUME NoneAssumption == None \notin Tasks /\ None \notin Int
ASSUME LagAssumption == MaxLag \in Nat /\ MaxSetbacks \in Nat

VARIABLES
    slot,          \* the slots_ entry that holds the task, or None
    rotations_, timeout_, times_,
    fun,           \* fun is set (FALSE: null)
    currentSlot_,
    visited,       \* tasks of the current slot the iterator has passed
    executing,     \* the task whose fun() is running, or None
    ticks,         \* iterations left of takeAllTimeout's loop
    lag,           \* the clock minus starttime_
    setbacks

vars == <<slot, rotations_, timeout_, times_, fun, currentSlot_, visited,
          executing, ticks, lag, setbacks>>

Slots == 0 .. SlotLen - 1

TypeOK ==
    /\ slot \in [Tasks -> Slots \cup {None}]
    /\ rotations_ \in [Tasks -> Nat]
    /\ timeout_ \in [Tasks -> Nat]
    /\ times_ \in [Tasks -> Int]
    /\ fun \in [Tasks -> BOOLEAN]
    /\ currentSlot_ \in Slots
    /\ visited \subseteq Tasks
    /\ executing \in Tasks \cup {None}
    /\ ticks \in Nat /\ lag \in Int /\ setbacks \in Nat

Init ==
    /\ slot = [t \in Tasks |-> None]
    /\ rotations_ = [t \in Tasks |-> 0]
    /\ timeout_ = [t \in Tasks |-> 0]
    /\ times_ = [t \in Tasks |-> 0]
    /\ fun = [t \in Tasks |-> FALSE]
    /\ currentSlot_ = 0 /\ visited = {} /\ executing = None
    /\ ticks = 0 /\ lag = 0 /\ setbacks = 0
-----------------------------------------------------------------------------
\* an int64_t stored in an int
ToInt(n) == ((n + MaxInt + 1) % (2 * (MaxInt + 1))) - (MaxInt + 1)

\* a mutant: the wheel is entered one slot late
SlotForLate(timeout) == (currentSlot_ + (timeout % SlotLen) + 1) % SlotLen

\* the slot a timeout counted from now falls into
SlotFor(timeout) == (currentSlot_ + (timeout % SlotLen)) % SlotLen

\* user code runs: an event handler or a functor, or a task's function
InUserCode == ticks = 0 \/ executing # None

\* addTask of a new Task object
AddTask(t, timeout) ==
    /\ InUserCode
    /\ slot[t] = None
    /\ timeout >= 0
    /\ slot' = [slot EXCEPT ![t] = SlotFor(timeout)]
    /\ rotations_' = [rotations_ EXCEPT ![t] = ToInt(timeout \div SlotLen)]
    /\ timeout_' = [timeout_ EXCEPT ![t] = ToInt(timeout)]
    /\ \E garbage \in Garbage : times_' = [times_ EXCEPT ![t] = garbage]
    /\ fun' = [fun EXCEPT ![t] = TRUE]
    /\ UNCHANGED <<currentSlot_, visited, executing, ticks, lag, setbacks>>

\* addTask with a negative timeout: fun() is called at once, nothing is kept
AddTaskInline(timeout) == InUserCode /\ timeout < 0 /\ UNCHANGED vars

\* delTask through a weak_ptr that still locks
DelTask(t) ==
    /\ InUserCode
    /\ slot[t] # None
    /\ fun' = [fun EXCEPT ![t] = FALSE]
    /\ UNCHANGED <<slot, rotations_, timeout_, times_, currentSlot_, visited,
                   executing, ticks, lag, setbacks>>
-----------------------------------------------------------------------------
(* takeAllTimeout and tick                                                 *)

\* a mutant: the loop over cnt starts at one
TakeAllTimeoutButOne ==
    /\ ticks = 0
    /\ ticks' = IF lag > 1 THEN lag - 1 ELSE 0
    /\ lag' = 0
    /\ UNCHANGED <<slot, rotations_, timeout_, times_, fun, currentSlot_,
                   visited, executing, setbacks>>

\* takeAllTimeout: cnt = now - starttime_; a clock set back gives no tick
TakeAllTimeout ==
    /\ ticks = 0
    /\ ticks' = IF lag > 0 THEN lag ELSE 0
    /\ lag' = 0
    /\ UNCHANGED <<slot, rotations_, timeout_, times_, fun, currentSlot_,
                   visited, executing, setbacks>>

\* what the iterator of tick() may be at: the slot's tasks not passed yet
Unvisited(t) == slot[t] = currentSlot_ /\ t \notin visited
Ticking == ticks > 0 /\ executing = None

\* tick: rotations left
DecreaseRotations(t) ==
    /\ Ticking /\ Unvisited(t) /\ rotations_[t] > 0
    /\ rotations_' = [rotations_ EXCEPT ![t] = @ - 1]
    /\ visited' = visited \cup {t}
    /\ UNCHANGED <<slot, timeout_, times_, fun, currentSlot_, executing,
                   ticks, lag, setbacks>>

\* tick: task->exec() calls fun ...
Exec(t) ==
    /\ Ticking /\ Unvisited(t) /\ rotations_[t] <= 0 /\ fun[t]
    /\ executing' = t
    /\ UNCHANGED <<slot, rotations_, timeout_, times_, fun, currentSlot_,
                   visited, ticks, lag, setbacks>>

Repeats(t) == times_[t] > 1 \/ times_[t] = -1

\* tick: after exec(), the task is added again or not, and erased here
Settle(t) ==
    /\ IF Repeats(t)
         THEN /\ times_' = [times_ EXCEPT ![t] = IF @ > 1 THEN @ - 1 ELSE @]
              /\ rotations_' = [rotations_ EXCEPT ![t] = timeout_[t] \div SlotLen]
              /\ slot' = [slot EXCEPT ![t] = SlotFor(timeout_[t])]
              /\ UNCHANGED fun
         ELSE \* the last shared_ptr goes: the object's fields mean nothing now
              /\ slot' = [slot EXCEPT ![t] = None]
              /\ times_' = [times_ EXCEPT ![t] = 0]
              /\ fun' = [fun EXCEPT ![t] = FALSE]
              /\ UNCHANGED rotations_
    /\ executing' = None
    /\ UNCHANGED <<timeout_, currentSlot_, visited, ticks, lag, setbacks>>

\* ... and fun() returns
ExecReturns == executing # None /\ Settle(executing)

\* tick: exec() of a deleted task does nothing
ExecDeleted(t) ==
    Ticking /\ Unvisited(t) /\ rotations_[t] <= 0 /\ ~fun[t] /\ Settle(t)

\* tick: the end of the slot's list is reached
TickEnds ==
    /\ Ticking
    /\ \A t \in Tasks : ~Unvisited(t)
    /\ currentSlot_' = (currentSlot_ + 1) % SlotLen
    /\ visited' = {}
    /\ ticks' = ticks - 1
    /\ UNCHANGED <<slot, rotations_, timeout_, times_, fun, executing, lag, setbacks>>

WheelStep == \/ TakeAllTimeout \/ ExecReturns \/ TickEnds
             \/ \E t \in Tasks : DecreaseRotations(t) \/ Exec(t) \/ ExecDeleted(t)
-----------------------------------------------------------------------------
(* The system clock, from which Timestamp takes its milliseconds           *)

ClockAdvances ==
    /\ lag < MaxLag
    /\ lag' = lag + 1
    /\ UNCHANGED <<slot, rotations_, timeout_, times_, fun, currentSlot_,
                   visited, executing, ticks, setbacks>>

ClockSetBack ==
    /\ setbacks < MaxSetbacks
    /\ setbacks' = setbacks + 1
    /\ lag' = lag - 2
    /\ UNCHANGED <<slot, rotations_, timeout_, times_, fun, currentSlot_,
                   visited, executing, ticks>>

UserCall == \/ \E t \in Tasks : DelTask(t) \/ \E n \in Timeouts : AddTask(t, n)
            \/ \E n \in Timeouts : AddTaskInline(n)

Next == WheelStep \/ ClockAdvances \/ ClockSetBack \/ UserCall

Spec == Init /\ [][Next]_vars

(* The loop thread keeps running, tasks' functions return, time passes.    *)
FairSpec == Spec /\ WF_vars(TakeAllTimeout /\ lag > 0) /\ WF_vars(ClockAdvances)
                 /\ WF_vars(ExecReturns \/ TickEnds)
                 /\ WF_vars(\E t \in Tasks : DecreaseRotations(t) \/ Exec(t) \/ ExecDeleted(t))
-----------------------------------------------------------------------------
(* Ticks until the task is due, as slot, rotations and iterator give them. *)
Distance(t) == IF slot[t] >= currentSlot_ THEN slot[t] - currentSlot_
                                          ELSE slot[t] + SlotLen - currentSlot_
Remaining(t) == IF slot[t] = None THEN None
                ELSE IF t \in visited THEN (rotations_[t] + 1) * SlotLen
                ELSE Distance(t) + rotations_[t] * SlotLen

Timers == INSTANCE CountdownTimers WITH
              Delays <- {n \in Timeouts : n >= 0},
              Idle <- None,
              remaining <- [t \in Tasks |-> Remaining(t)],
              period <- timeout_,
              cancelled <- {t \in Tasks : slot[t] # None /\ ~fun[t]},
              firing <- executing

(* However often the wheel turns, whatever tasks a task's function adds or *)
(* deletes during the tick and whatever is re-added to the slot that is    *)
(* being visited, every task is executed in exactly the tick its timeout   *)
(* says, a repeated one with exactly its own period, and a deleted one is  *)
(* not executed.                                                           *)
FiresOnTime == Timers!Spec

(* The iterator's position makes sense: only tasks of the current slot     *)
(* have been passed, what executes is in it and was not passed, and outside*)
(* takeAllTimeout there is no iterator.                                    *)
IteratorInv ==
    /\ \A t \in visited : slot[t] = currentSlot_
    /\ executing # None => ticks > 0 /\ Unvisited(executing) /\ rotations_[executing] = 0
    /\ ticks = 0 => visited = {}
Inv == TypeOK /\ IteratorInv

(* Every task that is added is executed, or deleted before that, although  *)
(* the clock may be set back (timeouts of at least one millisecond).       *)
EveryTaskExecutes ==
    \A t \in Tasks : slot[t] # None /\ fun[t] ~> executing = t \/ ~fun[t]
=============================================================================
