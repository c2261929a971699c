----------------------------- MODULE TaskQueue -----------------------------
(***************************************************************************)
(* What an event loop promises to those who hand it functors, whatever the *)
(* thread they do it from: the functors start in the order they were       *)
(* handed over, each exactly once, one at a time, and as long as the loop  *)
(* has not stopped every one of them does start.                           *)
(***************************************************************************)
EXTENDS Sequences

CONSTANTS Functors, \* the callables that may be handed over
          None      \* "no functor is running"

VARIABLES queue,    \* handed over and not started
          current,  \* the functor that is running, or None
          open      \* FALSE once the loop has stopped

vars == <<queue, current, open>>

Init == queue = <<>> /\ current = None /\ open = TRUE

Submit(f) == queue' = Append(queue, f) /\ UNCHANGED <<current, open>>

Begin == /\ open /\ current = None /\ queue # <<>>
         /\ current' = Head(queue)
         /\ queue' = Tail(queue)
         /\ UNCHANGED open

Return == current # None /\ current' = None /\ UNCHANGED <<queue, open>>

Close == open /\ current = None /\ open' = FALSE /\ UNCHANGED <<queue, current>>

Next == (\E f \in Functors : Submit(f)) \/ Begin \/ Return \/ Close

Spec == Init /\ [][Next]_vars

FairSpec == Spec /\ WF_vars(Begin) /\ WF_vars(Return)
=============================================================================
