-------------------------- MODULE TimeWheelProofs --------------------------
(***************************************************************************)
(* Proofs about TimeWheel for any number of slots, tasks and timeouts.     *)
(***************************************************************************)
EXTENDS TimeWheel, TLAPS

(* What addTask and tick compute with % and /: the slot is a slot, and the  *)
(* timeout is made up of whole turns of the wheel and a rest.               *)
LEMMA ModFacts ==
  ASSUME NEW n \in Nat, NEW len \in Nat \ {0}
  PROVE  /\ n % len \in 0 .. len - 1
         /\ n \div len \in Nat
         /\ n = (n \div len) * len + (n % len)
  OBVIOUS

(* Adding two positions wraps around at most once.                          *)
LEMMA ModWrap ==
  ASSUME NEW len \in Nat \ {0}, NEW c \in 0 .. len - 1, NEW r \in 0 .. len
  PROVE  (c + r) % len = IF c + r < len THEN c + r ELSE c + r - len
  OBVIOUS

(* A timeout that fits is not changed by being stored in a Task, nor are    *)
(* the turns it makes up.                                                   *)
LEMMA Small ==
  ASSUME NEW len \in Nat \ {0}, NEW k \in 0 .. len - 1
  PROVE  k % len = k
  OBVIOUS

LEMMA ToIntFacts ==
  ASSUME NEW n \in Timeouts, n >= 0
  PROVE  n \in Nat /\ ToInt(n) = n /\ ToInt(n \div SlotLen) = n \div SlotLen
<1>1. n \in Nat /\ n <= MaxInt /\ MaxInt \in Nat  BY TimeoutAssumption, IntAssumption
<1>2. ASSUME NEW k \in Nat, k <= MaxInt  PROVE ToInt(k) = k
  <2>1. 2 * (MaxInt + 1) \in Nat \ {0} /\ k + MaxInt + 1 \in 0 .. 2 * (MaxInt + 1) - 1
    BY <1>1, <1>2
  <2>2. (k + MaxInt + 1) % (2 * (MaxInt + 1)) = k + MaxInt + 1  BY <2>1, Small
  <2> QED  BY <1>1, <1>2, <2>2 DEF ToInt
<1>3. n \div SlotLen \in Nat /\ n \div SlotLen <= n
  <2>1. SlotLen \in Nat \ {0} /\ n \in Nat  BY <1>1, SlotAssumption
  <2>2. n \div SlotLen \in Nat /\ n % SlotLen \in 0 .. SlotLen - 1
        /\ n = (n \div SlotLen) * SlotLen + (n % SlotLen)
    BY <2>1, ModFacts
  <2>3. PICK q \in Nat : q = n \div SlotLen  BY <2>2
  <2>4. PICK r \in Nat : r = n % SlotLen  BY <2>1, <2>2
  <2>5. n = q * SlotLen + r  BY <2>2, <2>3, <2>4
  <2>6. q <= q * SlotLen /\ q * SlotLen \in Nat  BY <2>1
  <2> QED  BY <2>1, <2>3, <2>5, <2>6
<1>4. n \div SlotLen <= MaxInt  BY <1>1, <1>3
<1> QED  BY <1>1, <1>2, <1>3, <1>4

(* SlotFor, the slot addTask and tick choose, is a slot of the wheel, and   *)
(* it is the timeout's rest away from the current slot.                     *)
LEMMA SlotForFacts ==
  ASSUME currentSlot_ \in Slots, NEW n \in Nat
  PROVE  /\ SlotFor(n) \in Slots
         /\ n \div SlotLen \in Nat
         /\ SlotFor(n) # None
         /\ (IF SlotFor(n) >= currentSlot_ THEN SlotFor(n) - currentSlot_
               ELSE SlotFor(n) + SlotLen - currentSlot_)
              + (n \div SlotLen) * SlotLen = n
<1> USE SlotAssumption DEF Slots
<1>1. PICK r \in 0 .. SlotLen - 1 : r = n % SlotLen  BY ModFacts
<1>2. SlotFor(n) = IF currentSlot_ + r < SlotLen THEN currentSlot_ + r
                                                 ELSE currentSlot_ + r - SlotLen
  <2>1. SlotFor(n) = (currentSlot_ + r) % SlotLen  BY <1>1 DEF SlotFor
  <2>2. r \in 0 .. SlotLen  OBVIOUS
  <2> QED  BY <2>1, <2>2, ModWrap
<1>3. n \div SlotLen \in Nat /\ n = (n \div SlotLen) * SlotLen + r  BY <1>1, ModFacts
<1>4. SlotFor(n) \in Slots  BY <1>2
<1>5. SlotFor(n) # None  BY <1>4, NoneAssumption
<1>6. (IF SlotFor(n) >= currentSlot_ THEN SlotFor(n) - currentSlot_
       ELSE SlotFor(n) + SlotLen - currentSlot_) = r
  BY <1>2
<1> QED  BY <1>3, <1>4, <1>5, <1>6

(* The invariant holds initially: an empty wheel, no iterator.              *)
LEMMA InitInv == ASSUME Init PROVE Inv
  BY SlotAssumption, NoneAssumption DEF Init, Inv, TypeOK, IteratorInv, Slots

(* What user code does to the wheel keeps the invariant, also in the middle *)
(* of a tick: addTask may push to the slot being visited, and delTask never *)
(* takes a task out of a list.                                              *)
LEMMA UserInv == ASSUME Inv, UserCall PROVE Inv'
<1> USE SlotAssumption, NoneAssumption DEF Inv, TypeOK, IteratorInv, Unvisited
<1>1. ASSUME NEW t \in Tasks, NEW n \in Timeouts, AddTask(t, n)  PROVE Inv'
  <2>1. n \in Nat /\ ToInt(n) = n /\ ToInt(n \div SlotLen) = n \div SlotLen
    BY <1>1, ToIntFacts DEF AddTask
  <2>2. SlotFor(n) \in Slots /\ n \div SlotLen \in Nat  BY <2>1, SlotForFacts
  <2>3. t \notin visited /\ t # executing
    BY <1>1 DEF AddTask, Slots
  <2>4. TypeOK'  BY <1>1, <2>1, <2>2, GarbageAssumption DEF AddTask
  <2>5. IteratorInv'  BY <1>1, <2>3 DEF AddTask
  <2> QED  BY <2>4, <2>5
<1>2. ASSUME NEW t \in Tasks, DelTask(t)  PROVE Inv'
  BY <1>2 DEF DelTask
<1>3. ASSUME NEW n \in Timeouts, AddTaskInline(n)  PROVE Inv'
  BY <1>3 DEF AddTaskInline, vars
<1> QED  BY <1>1, <1>2, <1>3 DEF UserCall

(* Settling a task that was due, with its rotations used up, keeps the      *)
(* invariant: it is put back into a slot, possibly the current one and then *)
(* not passed yet, or leaves.                                               *)
LEMMA SettleInv ==
  ASSUME Inv, NEW t \in Tasks, ticks > 0, Unvisited(t), executing \in {None, t},
         Settle(t)
  PROVE  Inv'
<1> USE SlotAssumption, NoneAssumption DEF Inv, TypeOK, IteratorInv, Unvisited
<1>1. SlotFor(timeout_[t]) \in Slots /\ timeout_[t] \div SlotLen \in Nat
  BY SlotForFacts
<1>2. TypeOK'
  <2>1. CASE Repeats(t)
    <3>1. times_' \in [Tasks -> Int]
      <4>1. (IF times_[t] > 1 THEN times_[t] - 1 ELSE times_[t]) \in Int  OBVIOUS
      <4> QED  BY <2>1, <4>1 DEF Settle
    <3>2. slot' \in [Tasks -> Slots \cup {None}] /\ rotations_' \in [Tasks -> Nat]
      BY <1>1, <2>1 DEF Settle
    <3> QED  BY <2>1, <3>1, <3>2 DEF Settle
  <2>2. CASE ~Repeats(t)
    <3>1. slot' \in [Tasks -> Slots \cup {None}]  BY <2>2 DEF Settle
    <3>2. times_' \in [Tasks -> Int]  BY <2>2 DEF Settle
    <3>3. fun' \in [Tasks -> BOOLEAN]  BY <2>2 DEF Settle
    <3> QED  BY <2>2, <3>1, <3>2, <3>3 DEF Settle
  <2> QED  BY <2>1, <2>2
<1>3. IteratorInv'  BY DEF Settle
<1> QED  BY <1>2, <1>3

(* The wheel's own steps keep the invariant.                                *)
LEMMA WheelInv == ASSUME Inv, WheelStep PROVE Inv'
<1> USE SlotAssumption, NoneAssumption DEF Inv, TypeOK, IteratorInv, Unvisited, Ticking
<1>1. CASE TakeAllTimeout  BY <1>1 DEF TakeAllTimeout
<1>2. CASE ExecReturns  BY <1>2, SettleInv DEF ExecReturns
<1>3. CASE TickEnds
  <2>1. (currentSlot_ + 1) % SlotLen \in Slots  BY ModFacts DEF Slots
  <2> QED  BY <1>3, <2>1 DEF TickEnds
<1>4. ASSUME NEW t \in Tasks, DecreaseRotations(t)  PROVE Inv'
  BY <1>4 DEF DecreaseRotations
<1>5. ASSUME NEW t \in Tasks, Exec(t)  PROVE Inv'
  BY <1>5 DEF Exec
<1>6. ASSUME NEW t \in Tasks, ExecDeleted(t)  PROVE Inv'
  BY <1>6, SettleInv DEF ExecDeleted
<1> QED  BY <1>1, <1>2, <1>3, <1>4, <1>5, <1>6 DEF WheelStep

(* The clock does not touch the wheel.                                      *)
LEMMA ClockInv ==
  ASSUME Inv, ClockAdvances \/ ClockSetBack \/ UNCHANGED vars PROVE Inv'
<1> USE DEF Inv, TypeOK, IteratorInv, Unvisited
<1>1. CASE ClockAdvances  BY <1>1 DEF ClockAdvances
<1>2. CASE ClockSetBack  BY <1>2 DEF ClockSetBack
<1>3. CASE UNCHANGED vars  BY <1>3 DEF vars
<1> QED  BY <1>1, <1>2, <1>3

(* In every reachable state the slots, rotations and the iterator of tick() *)
(* are consistent, whatever tasks add and delete while they are executed.   *)
THEOREM Invariance == Spec => []Inv
<1>1. Inv /\ [Next]_vars => Inv'
  BY UserInv, WheelInv, ClockInv DEF Next
<1> QED  BY InitInv, <1>1, PTL DEF Spec
-----------------------------------------------------------------------------
(* The refinement mapping: a task in the wheel has a natural number of      *)
(* ticks left, and none exactly when tick() would execute it now.           *)
LEMMA RemainingFacts ==
  ASSUME Inv, NEW t \in Tasks, slot[t] # None
  PROVE  /\ Remaining(t) \in Nat /\ Remaining(t) # None
         /\ Remaining(t) = 0 <=> Unvisited(t) /\ rotations_[t] = 0
<1> USE SlotAssumption DEF Inv, TypeOK, IteratorInv, Slots
<1>1. slot[t] \in 0 .. SlotLen - 1 /\ rotations_[t] \in Nat  OBVIOUS
<1>2. CASE t \in visited
  <2>1. Remaining(t) = (rotations_[t] + 1) * SlotLen  BY <1>2 DEF Remaining
  <2>2. (rotations_[t] + 1) * SlotLen \in Nat /\ (rotations_[t] + 1) * SlotLen > 0
    BY <1>1
  <2> QED  BY <1>2, <2>1, <2>2, NoneAssumption DEF Unvisited
<1>3. CASE t \notin visited
  <2>1. Remaining(t) = Distance(t) + rotations_[t] * SlotLen  BY <1>3 DEF Remaining
  <2>2. Distance(t) \in Nat /\ (Distance(t) = 0 <=> slot[t] = currentSlot_)
    BY <1>1 DEF Distance
  <2>3. rotations_[t] * SlotLen \in Nat /\ (rotations_[t] * SlotLen = 0 <=> rotations_[t] = 0)
    BY <1>1
  <2>4. Remaining(t) \in Nat /\ (Remaining(t) = 0 <=> slot[t] = currentSlot_ /\ rotations_[t] = 0)
    <3> HIDE DEF Inv, TypeOK, IteratorInv, Slots
    <3> QED BY <2>1, <2>2, <2>3
  <2> QED  BY <1>3, <2>4, NoneAssumption DEF Unvisited
<1> QED  BY <1>2, <1>3

(* A task that addTask or a repetition puts into the wheel, and that the    *)
(* iterator has not passed, has its timeout left.                           *)
LEMMA RemainingOfNew ==
  ASSUME Inv, NEW t \in Tasks, NEW n \in Nat, t \notin visited',
         currentSlot_' = currentSlot_,
         slot'[t] = SlotFor(n), rotations_'[t] = n \div SlotLen
  PROVE  Remaining(t)' = n
<1>1. currentSlot_ \in Slots  BY DEF Inv, TypeOK
<1> QED  BY <1>1, SlotForFacts DEF Remaining, Distance

(* User code: addTask arms a timer, delTask cancels one.                    *)
LEMMA UserRefines == ASSUME Inv, UserCall PROVE [Timers!Next]_(Timers!vars)
<1>1. ASSUME NEW t \in Tasks, NEW n \in Timeouts, AddTask(t, n)  PROVE Timers!Arm(t, n) /\ n >= 0
  <2>1. n \in Nat /\ ToInt(n) = n /\ ToInt(n \div SlotLen) = n \div SlotLen
    BY <1>1, ToIntFacts DEF AddTask
  <2>2. slot[t] = None /\ t \notin visited
    BY <1>1, NoneAssumption DEF AddTask, Inv, TypeOK, IteratorInv, Slots
  <2>3. /\ slot'[t] = SlotFor(n) /\ rotations_'[t] = n \div SlotLen
        /\ t \notin visited' /\ currentSlot_' = currentSlot_
    BY <1>1, <2>1, <2>2 DEF AddTask, Inv, TypeOK
  <2>4. Remaining(t)' = n  BY <2>1, <2>3, RemainingOfNew
  <2>5. \A u \in Tasks : u # t => Remaining(u)' = Remaining(u)
    BY <1>1 DEF AddTask, Inv, TypeOK, Remaining, Distance
  <2>6. [u \in Tasks |-> Remaining(u)]' = [[u \in Tasks |-> Remaining(u)] EXCEPT ![t] = n]
    BY <2>4, <2>5
  <2>7. t \notin Timers!Armed  BY <2>2 DEF Timers!Armed, Remaining
  <2>8. {u \in Tasks : slot[u] # None /\ ~fun[u]}'
          = {u \in Tasks : slot[u] # None /\ ~fun[u]} \ {t}
    BY <1>1 DEF AddTask, Inv, TypeOK
  <2> QED  BY <1>1, <2>1, <2>6, <2>7, <2>8 DEF AddTask, Timers!Arm
<1>2. ASSUME NEW t \in Tasks, DelTask(t)  PROVE Timers!Cancel(t)
  <2>1. t \in Timers!Armed  BY <1>2, RemainingFacts DEF DelTask, Timers!Armed
  <2>2. [u \in Tasks |-> Remaining(u)]' = [u \in Tasks |-> Remaining(u)]
    BY <1>2 DEF DelTask, Remaining, Distance
  <2>3. {u \in Tasks : slot[u] # None /\ ~fun[u]}'
          = {u \in Tasks : slot[u] # None /\ ~fun[u]} \cup {t}
    BY <1>2 DEF DelTask, Inv, TypeOK
  <2> QED  BY <1>2, <2>1, <2>2, <2>3 DEF DelTask, Timers!Cancel
<1>3. ASSUME NEW n \in Timeouts, AddTaskInline(n)  PROVE UNCHANGED Timers!vars
  BY <1>3 DEF AddTaskInline, vars, Timers!vars, Remaining, Distance
<1> QED  BY <1>1, <1>2, <1>3 DEF UserCall, Timers!Next

(* Re-adding a due task gives it its own timeout again, erasing it disarms  *)
(* it; no other task is touched.                                            *)
LEMMA SettleRefines ==
  ASSUME Inv, NEW t \in Tasks, Unvisited(t), Settle(t)
  PROVE  Timers!Settle(t)
<1>1. \A u \in Tasks : u # t => Remaining(u)' = Remaining(u)
  BY DEF Settle, Inv, TypeOK, Remaining, Distance
<1>2. CASE Repeats(t)
  <2>1. Remaining(t)' = timeout_[t]
    <3>1. timeout_[t] \in Nat  BY DEF Inv, TypeOK
    <3>2. /\ slot'[t] = SlotFor(timeout_[t])
          /\ rotations_'[t] = timeout_[t] \div SlotLen
          /\ t \notin visited' /\ currentSlot_' = currentSlot_
      BY <1>2 DEF Settle, Inv, TypeOK, Unvisited
    <3> QED  BY <3>1, <3>2, RemainingOfNew
  <2>2. [u \in Tasks |-> Remaining(u)]'
          = [[u \in Tasks |-> Remaining(u)] EXCEPT ![t] = timeout_[t]]
    BY <1>1, <2>1
  <2>3. slot'[t] # None /\ slot[t] # None
    BY <1>2, SlotForFacts, NoneAssumption DEF Settle, Unvisited, Inv, TypeOK, Slots
  <2>4. UNCHANGED {u \in Tasks : slot[u] # None /\ ~fun[u]}
    BY <1>2, <2>3 DEF Settle, Inv, TypeOK
  <2> QED  BY <2>2, <2>4 DEF Timers!Settle, Settle
<1>3. CASE ~Repeats(t)
  <2>1. Remaining(t)' = None  BY <1>3 DEF Settle, Remaining, Inv, TypeOK
  <2>2. [u \in Tasks |-> Remaining(u)]'
          = [[u \in Tasks |-> Remaining(u)] EXCEPT ![t] = None]
    BY <1>1, <2>1
  <2>3. {u \in Tasks : slot[u] # None /\ ~fun[u]}'
          = {u \in Tasks : slot[u] # None /\ ~fun[u]} \ {t}
    BY <1>3 DEF Settle, Inv, TypeOK
  <2> QED  BY <2>2, <2>3 DEF Timers!Settle, Settle
<1> QED  BY <1>2, <1>3

(* The end of a tick is one tick of every timer: nothing is due, and every  *)
(* task is one slot nearer, also the ones whose rotations were counted down *)
(* in this tick.                                                            *)
LEMMA TickRefines == ASSUME Inv, TickEnds PROVE Timers!Tick
<1>1. \A t \in Tasks : ~Timers!Due(t)
  <2> SUFFICES ASSUME NEW t \in Tasks, slot[t] # None PROVE Remaining(t) # 0
    BY DEF Timers!Due, Timers!Armed, Remaining
  <2> QED  BY RemainingFacts DEF TickEnds
<1>2. currentSlot_' = IF currentSlot_ + 1 < SlotLen THEN currentSlot_ + 1 ELSE 0
  <2>1. currentSlot_ \in 0 .. SlotLen - 1 /\ 1 \in 0 .. SlotLen
    BY SlotAssumption DEF Inv, TypeOK, Slots
  <2>2. (currentSlot_ + 1) % SlotLen = IF currentSlot_ + 1 < SlotLen
          THEN currentSlot_ + 1 ELSE currentSlot_ + 1 - SlotLen
    BY <2>1, ModWrap, SlotAssumption
  <2> QED  BY <2>1, <2>2, SlotAssumption DEF TickEnds
<1>3. ASSUME NEW t \in Tasks, slot[t] # None  PROVE Remaining(t)' = Remaining(t) - 1
  <2>1. /\ slot[t] \in 0 .. SlotLen - 1 /\ rotations_[t] \in Nat
        /\ currentSlot_ \in 0 .. SlotLen - 1 /\ SlotLen \in Nat \ {0}
    BY <1>3, SlotAssumption DEF Inv, TypeOK, Slots
  <2>2. Remaining(t)' = Distance(t)' + rotations_[t] * SlotLen
    BY <1>3 DEF TickEnds, Remaining
  <2>3. CASE t \in visited
    <3>1. slot[t] = currentSlot_  BY <2>3 DEF Inv, IteratorInv
    <3>2. Distance(t)' = SlotLen - 1
      BY <1>2, <2>1, <3>1 DEF Distance, TickEnds
    <3>3. Remaining(t) = (rotations_[t] + 1) * SlotLen  BY <1>3, <2>3 DEF Remaining
    <3>4. (rotations_[t] + 1) * SlotLen = rotations_[t] * SlotLen + SlotLen  BY <2>1
    <3> QED  BY <2>1, <2>2, <3>2, <3>3, <3>4
  <2>4. CASE t \notin visited
    <3>1. slot[t] # currentSlot_  BY <2>4 DEF TickEnds, Unvisited
    <3>2. Distance(t)' = Distance(t) - 1 /\ Distance(t) \in Int
      BY <1>2, <2>1, <3>1 DEF Distance, TickEnds
    <3>3. Remaining(t) = Distance(t) + rotations_[t] * SlotLen  BY <1>3, <2>4 DEF Remaining
    <3>4. rotations_[t] * SlotLen \in Int  BY <2>1
    <3> QED  BY <2>2, <3>2, <3>3, <3>4
  <2> QED  BY <2>3, <2>4
<1>4. ASSUME NEW t \in Tasks, slot[t] = None  PROVE Remaining(t)' = None /\ Remaining(t) = None
  BY <1>4 DEF TickEnds, Remaining
<1>5. \A t \in Tasks : (t \in Timers!Armed <=> slot[t] # None)
  BY RemainingFacts DEF Timers!Armed, Remaining
<1>6. [t \in Tasks |-> Remaining(t)]'
        = [t \in Tasks |-> IF t \in Timers!Armed THEN Remaining(t) - 1 ELSE None]
  BY <1>3, <1>4, <1>5
<1>7. /\ UNCHANGED <<timeout_, executing>> /\ executing = None
      /\ UNCHANGED {t \in Tasks : slot[t] # None /\ ~fun[t]}
  BY DEF TickEnds, Ticking
<1> QED  BY <1>1, <1>5, <1>6, <1>7 DEF Timers!Tick

(* Each step of takeAllTimeout and tick() is a step of the timers.          *)
LEMMA WheelRefines == ASSUME Inv, WheelStep PROVE [Timers!Next]_(Timers!vars)
<1>1. CASE TakeAllTimeout
  BY <1>1 DEF TakeAllTimeout, Timers!vars, Remaining, Distance
<1>2. CASE ExecReturns
  <2>1. executing \in Tasks /\ Unvisited(executing)
    BY <1>2 DEF ExecReturns, Inv, TypeOK, IteratorInv
  <2>2. PICK t \in Tasks : t = executing  BY <2>1
  <2>3. Settle(t)  BY <1>2, <2>2 DEF ExecReturns, Settle
  <2>4. Timers!Settle(t)  BY <2>1, <2>2, <2>3, SettleRefines
  <2>5. Timers!Settle(executing)  BY <2>2, <2>4 DEF Timers!Settle
  <2> QED  BY <1>2, <2>5 DEF ExecReturns, Settle, Timers!Fired, Timers!Next
<1>3. CASE TickEnds  BY <1>3, TickRefines DEF Timers!Next
<1>4. ASSUME NEW t \in Tasks, DecreaseRotations(t)  PROVE UNCHANGED Timers!vars
  <2>1. /\ rotations_[t] \in Nat /\ rotations_'[t] = rotations_[t] - 1
        /\ t \in visited' /\ t \notin visited /\ slot[t] = currentSlot_
        /\ slot'[t] = slot[t] /\ slot[t] \in Int /\ slot[t] # None
    BY <1>4, SlotAssumption, NoneAssumption
    DEF DecreaseRotations, Inv, TypeOK, Unvisited, Slots
  <2>2. Remaining(t) = rotations_[t] * SlotLen
    <3>1. Distance(t) = 0  BY <2>1 DEF Distance
    <3>2. rotations_[t] * SlotLen \in Int  BY <2>1, SlotAssumption
    <3> QED  BY <2>1, <3>1, <3>2 DEF Remaining
  <2>3. Remaining(t)' = rotations_[t] * SlotLen
    <3>1. Remaining(t)' = (rotations_'[t] + 1) * SlotLen
      BY <1>4, <2>1 DEF Remaining, DecreaseRotations
    <3>2. rotations_'[t] + 1 = rotations_[t]  BY <2>1
    <3> QED  BY <3>1, <3>2
  <2>4. \A u \in Tasks : u # t => Remaining(u)' = Remaining(u)
    BY <1>4 DEF DecreaseRotations, Remaining, Distance, Inv, TypeOK
  <2>5. UNCHANGED [u \in Tasks |-> Remaining(u)]  BY <2>2, <2>3, <2>4
  <2> QED  BY <1>4, <2>5 DEF DecreaseRotations, Timers!vars
<1>5. ASSUME NEW t \in Tasks, Exec(t)  PROVE Timers!Fire(t)
  <2>1. rotations_[t] = 0 /\ slot[t] # None /\ Unvisited(t)
    BY <1>5, NoneAssumption DEF Exec, Inv, TypeOK, Unvisited, Slots
  <2>2. Timers!Due(t)  BY <2>1, RemainingFacts DEF Timers!Due, Timers!Armed
  <2>3. UNCHANGED [u \in Tasks |-> Remaining(u)]
    BY <1>5 DEF Exec, Remaining, Distance
  <2> QED  BY <1>5, <2>2, <2>3 DEF Exec, Ticking, Timers!Fire
<1>6. ASSUME NEW t \in Tasks, ExecDeleted(t)  PROVE Timers!Lapse(t)
  <2>1. rotations_[t] = 0 /\ slot[t] # None /\ Unvisited(t) /\ ~fun[t]
    BY <1>6, NoneAssumption DEF ExecDeleted, Inv, TypeOK, Unvisited, Slots
  <2>2. Timers!Due(t)  BY <2>1, RemainingFacts DEF Timers!Due, Timers!Armed
  <2>3. Timers!Settle(t)  BY <1>6, <2>1, SettleRefines DEF ExecDeleted
  <2> QED  BY <1>6, <2>1, <2>2, <2>3 DEF ExecDeleted, Ticking, Settle, Timers!Lapse
<1> QED  BY <1>1, <1>2, <1>3, <1>4, <1>5, <1>6 DEF WheelStep, Timers!Next

(* The clock is invisible to the timers.                                    *)
LEMMA ClockRefines ==
  ASSUME ClockAdvances \/ ClockSetBack \/ UNCHANGED vars PROVE UNCHANGED Timers!vars
  BY DEF ClockAdvances, ClockSetBack, vars, Timers!vars, Remaining, Distance

(* The time wheel implements the countdown timers: tick() executes each     *)
(* task in exactly the tick its timeout says, for every number of slots and *)
(* every timeout, repetitions and changes made during the tick included.    *)
THEOREM Refinement == Spec => FiresOnTime
<1>1. Init => Timers!Init
  BY SlotAssumption DEF Init, Timers!Init, Remaining
<1>2. Inv /\ [Next]_vars => [Timers!Next]_(Timers!vars)
  BY UserRefines, WheelRefines, ClockRefines DEF Next
<1> QED  BY Invariance, <1>1, <1>2, PTL DEF Spec, FiresOnTime, Timers!Spec
=============================================================================
