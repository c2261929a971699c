-------------------------- MODULE CountdownTimers --------------------------
(***************************************************************************)
(* What a timer facility promises, without any wheel: an armed task counts *)
(* down, one per tick of all tasks together; it fires exactly when its     *)
(* count is zero and no tick passes over a task that is due; a cancelled   *)
(* task lapses without firing; a task that has fired or lapsed is rearmed  *)
(* with its own period or dropped.                                         *)
(***************************************************************************)
EXTENDS Naturals

CONSTANTS Tasks,
          Delays,      \* what a task may be armed with
          Idle         \* not armed, or nothing is firing

VARIABLES remaining,   \* ticks until the task is due, or Idle
          period,      \* the timeout it was armed with
          cancelled,   \* tasks that must not fire
          firing       \* the task whose function is running, or Idle

vars == <<remaining, period, cancelled, firing>>

Armed == {t \in Tasks : remaining[t] # Idle}
Due(t) == t \in Armed /\ remaining[t] = 0

Init == /\ remaining = [t \in Tasks |-> Idle]
        /\ period \in [Tasks -> Nat]
        /\ cancelled = {}
        /\ firing = Idle

Arm(t, n) == /\ t \notin Armed
             /\ remaining' = [remaining EXCEPT ![t] = n]
             /\ period' = [period EXCEPT ![t] = n]
             /\ cancelled' = cancelled \ {t}
             /\ UNCHANGED firing

Cancel(t) == t \in Armed /\ cancelled' = cancelled \cup {t}
             /\ UNCHANGED <<remaining, period, firing>>

\* time passes only when nothing is due
Tick == /\ firing = Idle
        /\ \A t \in Tasks : ~Due(t)
        /\ remaining' = [t \in Tasks |-> IF t \in Armed THEN remaining[t] - 1 ELSE Idle]
        /\ UNCHANGED <<period, cancelled, firing>>

Fire(t) == /\ firing = Idle /\ Due(t) /\ t \notin cancelled
           /\ firing' = t
           /\ UNCHANGED <<remaining, period, cancelled>>

\* the task is rearmed with its own period, or leaves
Settle(t) == /\ \/ remaining' = [remaining EXCEPT ![t] = period[t]] /\ UNCHANGED cancelled
                \/ remaining' = [remaining EXCEPT ![t] = Idle] /\ cancelled' = cancelled \ {t}
             /\ UNCHANGED period

Lapse(t) == firing = Idle /\ Due(t) /\ t \in cancelled /\ Settle(t) /\ UNCHANGED firing

Fired == firing # Idle /\ Settle(firing) /\ firing' = Idle

Next == \/ Tick \/ Fired
        \/ \E t \in Tasks : \/ Cancel(t) \/ Fire(t) \/ Lapse(t)
                            \/ \E n \in Delays : Arm(t, n)

Spec == Init /\ [][Next]_vars
=============================================================================
