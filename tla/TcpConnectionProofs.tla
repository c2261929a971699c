------------------------ MODULE TcpConnectionProofs ------------------------
(***************************************************************************)
(* Proofs about TcpConnection for any number of threads and messages, the  *)
(* inductive invariant Inv and the safety properties it contains; and, in  *)
(* the second part, about its Buffer for any chunks and sizes: the indices *)
(* stay inside the vector, the vector stays within its bound, and the      *)
(* readable bytes are a ByteQueue.                                         *)
(***************************************************************************)
EXTENDS TcpConnection, Buffer, SequenceTheorems, TLAPS

(* A prefix and the rest, put together, are the whole.                      *)
LEMMA PrefixAndRest ==
  ASSUME NEW S, NEW p \in Seq(S), NEW r \in Seq(S), NEW b \in Seq(S),
         NEW n \in 0 .. Len(b),
         Len(p) = n, \A i \in 1 .. n : p[i] = b[i],
         Len(r) = Len(b) - n, \A i \in 1 .. Len(b) - n : r[i] = b[n + i]
  PROVE  p \o r = b
<1>1. Len(b) \in Nat /\ n \in Nat  OBVIOUS
<1>2. p \o r \in Seq(S) /\ Len(p \o r) = Len(p) + Len(r)  BY ConcatProperties
<1>3. Len(p \o r) = Len(b)  BY <1>1, <1>2
<1>4. ASSUME NEW i \in 1 .. Len(p \o r)  PROVE (p \o r)[i] = b[i]
  <2>1. CASE i <= n
    <3>1. (p \o r)[i] = p[i]  BY <1>1, <2>1
    <3> QED  BY <2>1, <3>1
  <2>2. CASE i > n
    <3>1. i - n \in 1 .. Len(b) - n  BY <1>1, <1>3, <2>2
    <3>2. (p \o r)[i] = r[i - n]  BY <1>1, <1>3, <2>2, <3>1, ConcatProperties
    <3>3. r[i - n] = b[n + (i - n)]  BY <3>1
    <3> QED  BY <1>1, <2>2, <3>2, <3>3
  <2> QED  BY <1>1, <2>1, <2>2
<1> QED  BY <1>2, <1>3, <1>4, SeqEqual

(* A write takes a prefix of the bytes it is given and leaves the rest.     *)
LEMMA WriteSplits ==
  ASSUME NEW S, NEW s \in Seq(S), NEW b \in Seq(S), NEW n \in 0 .. Len(b)
  PROVE  /\ s \o SubSeq(b, 1, n) \in Seq(S) /\ SubSeq(b, n + 1, Len(b)) \in Seq(S)
         /\ (s \o SubSeq(b, 1, n)) \o SubSeq(b, n + 1, Len(b)) = s \o b
         /\ SubSeq(b, n + 1, Len(b)) = <<>> <=> n = Len(b)
<1>1. PICK p : p = SubSeq(b, 1, n)  OBVIOUS
<1>2. PICK r : r = SubSeq(b, n + 1, Len(b))  OBVIOUS
<1>3. p \in Seq(S) /\ Len(p) = n /\ \A i \in 1 .. n : p[i] = b[i]
  BY <1>1
<1>4. r \in Seq(S) /\ Len(r) = Len(b) - n /\ \A i \in 1 .. Len(b) - n : r[i] = b[n + i]
  BY <1>2
<1>5. r = <<>> <=> n = Len(b)
  <2>1. Len(b) \in Nat /\ n \in Nat  OBVIOUS
  <2>2. r = <<>> <=> Len(r) = 0  BY <1>4, EmptySeq
  <2> QED  BY <1>4, <2>1, <2>2
<1>6. p \o r = b
  <2> HIDE <1>1, <1>2
  <2>1. p \in Seq(S) /\ r \in Seq(S) /\ Len(p) = n /\ Len(r) = Len(b) - n
    BY <1>3, <1>4
  <2> QED  BY <1>3, <1>4, <2>1, PrefixAndRest, Zenon
<1>7. s \o p \in Seq(S)  BY <1>3, ConcatProperties
<1>8. (s \o p) \o r = s \o (p \o r)
  <2>1. p \in Seq(S) /\ r \in Seq(S)  BY <1>3, <1>4
  <2> QED  BY ONLY <2>1, s \in Seq(S), ConcatAssociative, SMTT(30)
<1> QED  BY <1>1, <1>2, <1>4, <1>5, <1>6, <1>7, <1>8

(* Taking the first functor of the queue.                                   *)
LEMMA TailIndices ==
  ASSUME NEW S, NEW q \in Seq(S), q # <<>>, NEW f
  PROVE  /\ Tail(q) \in Seq(S) /\ Len(Tail(q)) = Len(q) - 1
         /\ Indices(q, f) = {} => Indices(Tail(q), f) = {}
         /\ (\A i, j \in Indices(q, f) : i = j)
              => (\A i, j \in Indices(Tail(q), f) : i = j)
  BY DEF Indices

(* Queueing a functor.                                                      *)
LEMMA AppendIndices ==
  ASSUME NEW S, NEW q \in Seq(S), NEW x \in S, NEW f
  PROVE  /\ Append(q, x) \in Seq(S) /\ Len(Append(q, x)) = Len(q) + 1
         /\ x # f => Indices(Append(q, x), f) = Indices(q, f)
         /\ Indices(q, f) = {} => \A i, j \in Indices(Append(q, x), f) : i = j
  BY DEF Indices

(* The functors differ from each other.                                     *)
LEMMA FunctorsDiffer ==
  /\ \A m : <<"send", m>> # <<"connectDestroyed">>
  /\ <<"shutdown">> # <<"connectDestroyed">>
  /\ <<"forceClose">> # <<"connectDestroyed">>
  /\ <<"writeComplete">> # <<"connectDestroyed">>
  OBVIOUS


-----------------------------------------------------------------------------
(* The queue's part of Inv, for any queue q.                                *)
Destroyed == <<"connectDestroyed">>
QueueOK(q) == q \in Seq(Functors) /\ \A i, j \in Indices(q, Destroyed) : i = j
Free(q) == Indices(q, Destroyed) = {}

(* Inv holds of the connection that newConnection has just made.            *)
LEMMA InitInv == ASSUME Init PROVE Inv
<1> USE DEF Init
<1>1. <<>> \in Seq(Functors) /\ <<>> \in Seq(Messages) /\ Len(<<>>) = 0  OBVIOUS
<1>2. TypeOK
  <2>1. batch \in 0 .. Len(queue)  BY <1>1
  <2>2. user \in [Threads -> {NoRef, Idle} \cup CallFunctors]  OBVIOUS
  <2> QED  BY <1>1, <2>1, <2>2 DEF TypeOK
<1>3. StreamIntact  BY DEF StreamIntact
<1>4. WritingIffBuffered /\ FinAfterBuffer /\ DownOnce /\ ClosedNotPolled
  BY DEF WritingIffBuffered, FinAfterBuffer, DownOnce, ClosedNotPolled, Open
<1>5. DestroyedOnce  BY <1>1 DEF DestroyedOnce, Pending, Indices
<1>6. DispatchInv  BY DEF DispatchInv, Open
<1> QED  BY <1>2, <1>3, <1>4, <1>5, <1>6 DEF Inv

(* Steps that leave the queue, the buffer and the streams alone keep Inv if *)
(* they keep the part of it that speaks of the rest.                        *)
LEMMA QuietSteps ==
  ASSUME Inv,
         \/ ConnectEstablished \/ Poll(FALSE) \/ Poll(TRUE) \/ HandleEvent \/ HandleEventFreed
         \/ HandleError \/ HandleReadData \/ HandleReadError \/ HandleWriteNothing
         \/ CallbackReturns \/ HandleEventReturns \/ SwapFunctors \/ FunctorsDone
         \/ Shutdown \/ OwnerDestroyed \/ PeerStep \/ UNCHANGED vars
  PROVE  Inv'
<1> USE DEF Inv, TypeOK, StreamIntact, WritingIffBuffered, FinAfterBuffer, DownOnce,
        ClosedNotPolled, DestroyedOnce, Pending, DispatchInv, Open,
        connVars, chanVars, loopVars, queueVars, refVars, netVars, histVars
<1>1. CASE ConnectEstablished  BY <1>1 DEF ConnectEstablished, UpdateChannel
<1>2. CASE Poll(FALSE) \/ Poll(TRUE)
  <2>1. PICK out \in BOOLEAN : Poll(out)  BY <1>2
  <2>2. todo' \subseteq {"error", "read", "write"}  BY <2>1 DEF Poll, Handlers
  <2>3. state_ \in Open \/ todo' = {}  BY <2>1 DEF Poll
  <2>4. state_ # "kConnecting"  BY <2>1 DEF Poll
  <2> QED  BY <2>1, <2>2, <2>3, <2>4 DEF Poll
<1>3. CASE HandleEvent  BY <1>3 DEF HandleEvent
<1>16. CASE HandleEventFreed  BY <1>16 DEF HandleEventFreed
<1>4. CASE HandleError  BY <1>4 DEF HandleError, Calls, Before
<1>5. CASE HandleReadData  BY <1>5 DEF HandleReadData, Calls, Before
<1>6. CASE HandleReadError  BY <1>6 DEF HandleReadError, Calls, Before
<1>7. CASE HandleWriteNothing  BY <1>7 DEF HandleWriteNothing, Calls, Before
<1>8. CASE CallbackReturns  BY <1>8 DEF CallbackReturns
<1>9. CASE HandleEventReturns  BY <1>9 DEF HandleEventReturns
<1>10. CASE SwapFunctors  BY <1>10 DEF SwapFunctors
<1>11. CASE FunctorsDone  BY <1>11 DEF FunctorsDone
<1>12. CASE Shutdown  BY <1>12 DEF Shutdown, ShutdownInLoop, InUserCode
<1>13. CASE OwnerDestroyed
  <2>1. state_ \in Open /\ chan = "kAdded" /\ downs = 0
    BY <1>13 DEF OwnerDestroyed
  <2>2. state_' = "kDisconnected" /\ downs' = 1 /\ inEpoll' = FALSE /\ owner' = FALSE
    BY <1>13, <2>1 DEF OwnerDestroyed, ConnectDestroyed
  <2>3. /\ UNCHANGED <<outputBuffer_, reading, writing, chan, loop, todo, queue, batch>>
        /\ UNCHANGED <<user, peer, inbound, sent, sockErr, shutWr>>
        /\ UNCHANGED <<wire, accepted, unused>> /\ due' = ("read" \in todo)
        /\ UNCHANGED kept
    BY <1>13 DEF OwnerDestroyed, ConnectDestroyed
  <2>4. loop # "accepted"  BY <1>13 DEF OwnerDestroyed
  <2>8. due' \in BOOLEAN  BY <2>3
  <2>5. TypeOK'
    <3>1. downs' \in Nat  BY <2>2
    <3> QED  BY <2>2, <2>3, <2>8, <3>1, ZenonT(60)
  <2>6. StreamIntact' /\ WritingIffBuffered' /\ FinAfterBuffer' /\ DownOnce'
    BY <2>2, <2>3
  <2>7. ClosedNotPolled' /\ DestroyedOnce' /\ DispatchInv'  BY <2>2, <2>3, <2>4
  <2> QED  BY <2>5, <2>6, <2>7
<1>14. CASE PeerStep
  <2>1. CASE PeerSends  BY <2>1 DEF PeerSends
  <2>2. CASE PeerCloses  BY <2>2 DEF PeerCloses
  <2>3. CASE PeerResets  BY <2>3 DEF PeerResets
  <2> QED  BY <1>14, <2>1, <2>2, <2>3 DEF PeerStep
<1>15. CASE UNCHANGED vars  BY <1>15 DEF vars
<1> QED  BY <1>1, <1>2, <1>3, <1>4, <1>5, <1>6, <1>7, <1>8, <1>9, <1>10, <1>11,
            <1>12, <1>13, <1>14, <1>15, <1>16

(* What the queue's part of Inv says of the queue, and how a functor other  *)
(* than connectDestroyed may be queued or the first one taken.              *)
LEMMA QueueFacts ==
  ASSUME Inv
  PROVE  /\ QueueOK(queue) /\ Len(queue) \in Nat
         /\ owner \/ "read" \in todo => Free(queue)
  BY DEF Inv, TypeOK, DestroyedOnce, Pending, QueueOK, Free, Destroyed

(* Queueing a functor of a call keeps the queue in order.                   *)
LEMMA QueueAppend ==
  ASSUME NEW q, QueueOK(q), NEW f \in Functors \ {Destroyed}
  PROVE  /\ QueueOK(Append(q, f)) /\ Len(Append(q, f)) = Len(q) + 1 /\ Len(q) \in Nat
         /\ Free(q) => Free(Append(q, f))
<1>1. q \in Seq(Functors) /\ Len(q) \in Nat  BY DEF QueueOK
<1>2. /\ Append(q, f) \in Seq(Functors) /\ Len(Append(q, f)) = Len(q) + 1
      /\ Indices(Append(q, f), Destroyed) = Indices(q, Destroyed)
  BY <1>1, AppendIndices
<1> QED  BY <1>1, <1>2 DEF QueueOK, Free

(* So does taking the first functor.                                        *)
LEMMA QueueTail ==
  ASSUME NEW q, QueueOK(q), q # <<>>
  PROVE  /\ QueueOK(Tail(q)) /\ Len(Tail(q)) = Len(q) - 1 /\ Len(q) \in Nat \ {0}
         /\ Free(q) => Free(Tail(q))
<1>1. q \in Seq(Functors) /\ Len(q) \in Nat \ {0}  BY EmptySeq DEF QueueOK
<1>2. /\ Tail(q) \in Seq(Functors) /\ Len(Tail(q)) = Len(q) - 1
      /\ Indices(q, Destroyed) = {} => Indices(Tail(q), Destroyed) = {}
      /\ (\A i, j \in Indices(q, Destroyed) : i = j)
           => (\A i, j \in Indices(Tail(q), Destroyed) : i = j)
  BY <1>1, TailIndices
<1> QED  BY <1>1, <1>2 DEF QueueOK, Free

(* The functors of calls are functors other than connectDestroyed.          *)
LEMMA CallFunctorFacts ==
  /\ CallFunctors \subseteq Functors \ {Destroyed}
  /\ <<"writeComplete">> \in Functors \ {Destroyed}
  /\ Destroyed \in Functors
  BY FunctorsDiffer DEF CallFunctors, Functors, Destroyed

(* Inv of the next state from its parts, the queue's part put as QueueOK.   *)
LEMMA NextInvParts ==
  ASSUME TypeOK', StreamIntact', WritingIffBuffered', FinAfterBuffer', DownOnce',
         ClosedNotPolled', DispatchInv', (owner <=> state_ # "kDisconnected")',
         QueueOK(queue'), owner' \/ "read" \in todo' => Free(queue')
  PROVE  Inv'
  BY DEF Inv, DestroyedOnce, Pending, QueueOK, Free, Destroyed

(* The calls other threads make, in their two steps, and forceClose() on    *)
(* the loop thread keep Inv.                                                *)
LEMMA ThreadInv ==
  ASSUME Inv, ForceClose \/ \E t \in Threads : ThreadStep(t)
  PROVE  Inv'
<1> USE DEF Inv, TypeOK, StreamIntact, WritingIffBuffered, FinAfterBuffer, DownOnce,
        ClosedNotPolled, DispatchInv, Open,
        connVars, chanVars, loopVars, queueVars, refVars, netVars, histVars
<1>1. CASE ForceClose
  <2>1. <<"forceClose">> \in Functors \ {Destroyed}  BY CallFunctorFacts DEF CallFunctors
  <2>2. /\ queue' = Append(queue, <<"forceClose">>)
        /\ QueueOK(queue') /\ Len(queue') = Len(queue) + 1 /\ Len(queue) \in Nat
        /\ owner \/ "read" \in todo => Free(queue')
    BY <1>1, <2>1, QueueFacts, QueueAppend DEF ForceClose
  <2>3. TypeOK'  BY <1>1, <2>2 DEF ForceClose, QueueOK
  <2>4. StreamIntact' /\ WritingIffBuffered' /\ FinAfterBuffer' /\ DownOnce'
    BY <1>1 DEF ForceClose
  <2>5. ClosedNotPolled' /\ DispatchInv' /\ (owner <=> state_ # "kDisconnected")'
    BY <1>1 DEF ForceClose, InUserCode, DestroyedOnce
  <2>6. owner' = owner /\ todo' = todo  BY <1>1 DEF ForceClose
  <2> HIDE DEF Inv, TypeOK, StreamIntact, WritingIffBuffered, FinAfterBuffer, DownOnce,
        ClosedNotPolled, DispatchInv
  <2> QED  BY <2>2, <2>3, <2>4, <2>5, <2>6, NextInvParts
<1>2. ASSUME NEW t \in Threads, NEW c \in {NoRef, Idle} \cup CallFunctors,
             user' = [user EXCEPT ![t] = c],
             UNCHANGED <<connVars, chanVars, loopVars, queueVars, owner, netVars, histVars>>
      PROVE  Inv'
  <2>1. user' \in [Threads -> {NoRef, Idle} \cup CallFunctors]  BY <1>2
  <2> QED  BY <1>2, <2>1 DEF DestroyedOnce, Pending
<1>3. ASSUME NEW t \in Threads, ShutdownExchanges(t)  PROVE Inv'
  BY <1>3 DEF ShutdownExchanges, CallFunctors, DestroyedOnce, Pending
<1>4. ASSUME NEW t \in Threads, ForceCloseExchanges(t)  PROVE Inv'
  BY <1>4 DEF ForceCloseExchanges, CallFunctors, DestroyedOnce, Pending
<1>5. ASSUME NEW t \in Threads, NEW m \in Messages, SendChecks(t, m)  PROVE Inv'
  BY <1>5 DEF SendChecks, CallFunctors, DestroyedOnce, Pending
<1>6. ASSUME NEW t \in Threads, Queues(t)  PROVE Inv'
  <2>1. PICK f \in Functors \ {Destroyed} : f = user[t]
    BY <1>6, CallFunctorFacts DEF Queues
  <2>2. /\ queue' = Append(queue, f)
        /\ QueueOK(queue') /\ Len(queue') = Len(queue) + 1 /\ Len(queue) \in Nat
        /\ owner \/ "read" \in todo => Free(queue')
    BY <1>6, <2>1, QueueFacts, QueueAppend DEF Queues
  <2>3. TypeOK'  BY <1>6, <2>2 DEF Queues, QueueOK
  <2>4. StreamIntact' /\ WritingIffBuffered' /\ FinAfterBuffer' /\ DownOnce'
    BY <1>6 DEF Queues
  <2>5. ClosedNotPolled' /\ DispatchInv' /\ (owner <=> state_ # "kDisconnected")'
    BY <1>6 DEF Queues, DestroyedOnce
  <2>6. owner' = owner /\ todo' = todo  BY <1>6 DEF Queues
  <2> HIDE DEF Inv, TypeOK, StreamIntact, WritingIffBuffered, FinAfterBuffer, DownOnce,
        ClosedNotPolled, DispatchInv
  <2> QED  BY <2>2, <2>3, <2>4, <2>5, <2>6, NextInvParts
<1>7. ASSUME NEW t \in Threads, Share(t) \/ Releases(t)  PROVE Inv'
  BY <1>2, <1>7 DEF Share, Releases
<1> QED  BY <1>1, <1>3, <1>4, <1>5, <1>6, <1>7 DEF ThreadStep

(* Bytes(m) as a sequence of two.                                           *)
LEMMA BytesFacts ==
  ASSUME NEW m \in Messages
  PROVE  Bytes(m) \in Seq(Messages) /\ Len(Bytes(m)) = 2
  BY DEF Bytes

(* A direct write of a message: the kernel's part and the buffer's.         *)
LEMMA WriteOne ==
  ASSUME NEW m \in Messages, NEW w \in Seq(Messages), NEW n \in 0 .. 2
  PROVE  /\ w \o SubSeq(Bytes(m), 1, n) \in Seq(Messages)
         /\ SubSeq(Bytes(m), n + 1, 2) \in Seq(Messages)
         /\ (w \o SubSeq(Bytes(m), 1, n)) \o SubSeq(Bytes(m), n + 1, 2) = w \o Bytes(m)
         /\ w \o Bytes(m) \in Seq(Messages)
         /\ SubSeq(Bytes(m), n + 1, 2) = <<>> <=> n = 2
<1>1. PICK b : b = Bytes(m)  OBVIOUS
<1>2. b \in Seq(Messages) /\ Len(b) = 2  BY <1>1, BytesFacts
<1>3. n \in 0 .. Len(b)  BY <1>2
<1>4. w \o b \in Seq(Messages)  BY <1>2, ConcatProperties
<1>5. /\ w \o SubSeq(b, 1, n) \in Seq(Messages) /\ SubSeq(b, n + 1, Len(b)) \in Seq(Messages)
      /\ (w \o SubSeq(b, 1, n)) \o SubSeq(b, n + 1, Len(b)) = w \o b
      /\ SubSeq(b, n + 1, Len(b)) = <<>> <=> n = Len(b)
  <2> HIDE <1>1
  <2> QED  BY <1>2, <1>3, WriteSplits
<1> QED  BY <1>1, <1>2, <1>4, <1>5

(* A message put behind the data that waits.                                *)
LEMMA BufferOne ==
  ASSUME NEW m \in Messages, NEW w \in Seq(Messages), NEW b \in Seq(Messages)
  PROVE  /\ b \o Bytes(m) \in Seq(Messages) /\ b \o Bytes(m) # <<>>
         /\ w \o (b \o Bytes(m)) = (w \o b) \o Bytes(m)
         /\ (w \o b) \o Bytes(m) \in Seq(Messages)
<1>1. PICK x : x = Bytes(m)  OBVIOUS
<1>2. x \in Seq(Messages) /\ Len(x) = 2  BY <1>1, BytesFacts
<1>3. b \o x \in Seq(Messages) /\ Len(b \o x) = Len(b) + Len(x)
  BY <1>2, ConcatProperties
<1>4. b \o x # <<>>  BY <1>2, <1>3, EmptySeq
<1>5. w \o b \in Seq(Messages)  BY ConcatProperties
<1>6. (w \o b) \o x \in Seq(Messages)  BY <1>2, <1>5, ConcatProperties
<1>7. (w \o b) \o x = w \o (b \o x)
  <2>1. x \in Seq(Messages)  BY <1>2
  <2> HIDE <1>1
  <2> QED  BY <2>1, ConcatAssociative
<1> QED  BY <1>1, <1>3, <1>4, <1>6, <1>7

(* sendInLoop keeps Inv, called directly or from the queue: q is the queue  *)
(* without the functor that made the call.                                  *)
LEMMA SendKeepsInv ==
  ASSUME Inv, NEW m \in Messages, NEW q, QueueOK(q), owner \/ "read" \in todo => Free(q),
         SendInLoop(m, q), state_ # "kConnecting",
         UNCHANGED <<loop, todo, owner, user, downs, due>>, kept' \in BOOLEAN,
         unused' \subseteq Messages, batch' \in 0 .. Len(q)
  PROVE  Inv'
<1> USE DEF connVars, chanVars, loopVars, queueVars, refVars, netVars, histVars
<1>0. Len(q) \in Nat /\ q \in Seq(Functors)  BY DEF QueueOK
<1>q. ASSUME queue' = q \/ queue' = Append(q, <<"writeComplete">>)
      PROVE  QueueOK(queue') /\ (owner \/ "read" \in todo => Free(queue')) /\ batch' \in 0 .. Len(queue')
  <2>1. CASE queue' = q  BY <1>0, <2>1
  <2>2. CASE queue' = Append(q, <<"writeComplete">>)
    <3>1. PICK f \in Functors \ {Destroyed} : f = <<"writeComplete">>  BY CallFunctorFacts
    <3>2. QueueOK(queue') /\ (owner \/ "read" \in todo => Free(queue')) /\ Len(queue') = Len(q) + 1
      <4>1. queue' = Append(q, f)  BY <2>2, <3>1
      <4> HIDE <3>1
      <4> QED  BY <4>1, QueueAppend
    <3> QED  BY <1>0, <3>2
  <2> QED  BY <1>q, <2>1, <2>2
<1>1. CASE SendGivenUp(q)
  <2>1. QueueOK(queue') /\ (owner \/ "read" \in todo => Free(queue')) /\ batch' \in 0 .. Len(queue')
    BY <1>1, <1>q DEF SendGivenUp
  <2>2. TypeOK'  BY <1>1, <2>1 DEF SendGivenUp, Inv, TypeOK, QueueOK
  <2>3. StreamIntact' /\ WritingIffBuffered' /\ FinAfterBuffer' /\ DownOnce'
    BY <1>1 DEF SendGivenUp, Inv, StreamIntact, WritingIffBuffered, FinAfterBuffer, DownOnce
  <2>4. ClosedNotPolled' /\ DispatchInv' /\ (owner <=> state_ # "kDisconnected")'
    BY <1>1 DEF SendGivenUp, Inv, ClosedNotPolled, DispatchInv, DestroyedOnce
  <2> QED  BY <2>1, <2>2, <2>3, <2>4, NextInvParts
<1>2. CASE SendFails(q)
  <2>1. QueueOK(queue') /\ (owner \/ "read" \in todo => Free(queue')) /\ batch' \in 0 .. Len(queue')
    BY <1>2, <1>q DEF SendFails
  <2>2. TypeOK'  BY <1>2, <2>1, ZenonT(60) DEF SendFails, Inv, TypeOK, QueueOK
  <2>3. StreamIntact' /\ WritingIffBuffered' /\ FinAfterBuffer' /\ DownOnce'
    BY <1>2 DEF SendFails, Inv, StreamIntact, WritingIffBuffered, FinAfterBuffer, DownOnce
  <2>4. ClosedNotPolled' /\ DispatchInv' /\ (owner <=> state_ # "kDisconnected")'
    BY <1>2 DEF SendFails, Inv, ClosedNotPolled, DispatchInv, DestroyedOnce
  <2> QED  BY <2>1, <2>2, <2>3, <2>4, NextInvParts
<1>o. CASE state_ \in Open
  <2>0. chan = "kAdded" /\ reading /\ inEpoll /\ reading = TRUE
    BY <1>o DEF Inv, TypeOK, DispatchInv, ClosedNotPolled, Open
  <2>1. CASE SendWrites(m, q)
    <3>1. PICK n \in 0 .. 2 :
            /\ n \in Written(2)
            /\ wire' = wire \o SubSeq(Bytes(m), 1, n)
            /\ outputBuffer_' = SubSeq(Bytes(m), n + 1, 2)
            /\ queue' = IF n = 2 /\ WriteComplete THEN Append(q, <<"writeComplete">>) ELSE q
            /\ IF n < 2 THEN UpdateChannel(reading, TRUE) ELSE UNCHANGED chanVars
      BY <2>1 DEF SendWrites, Written
    <3>2. ~shutWr  BY <3>1 DEF Written, Broken
    <3>3. outputBuffer_ = <<>> /\ ~writing  BY <2>1 DEF SendWrites
    <3>4. wire \in Seq(Messages) /\ accepted \in Seq(Messages) /\ wire = accepted
      BY <3>3, ConcatEmptySeq DEF Inv, TypeOK, StreamIntact
    <3>5. /\ wire' \in Seq(Messages) /\ outputBuffer_' \in Seq(Messages)
          /\ wire' \o outputBuffer_' = wire \o Bytes(m)
          /\ outputBuffer_' = <<>> <=> n = 2
      BY <3>1, <3>4, WriteOne, ZenonT(60)
    <3>6. accepted' = accepted \o Bytes(m) /\ accepted' \in Seq(Messages)
      BY <2>1, <3>4, WriteOne DEF SendWrites
    <3>7. /\ reading' = TRUE /\ chan' = "kAdded" /\ inEpoll' = inEpoll
          /\ writing' <=> n < 2
          /\ writing' \in BOOLEAN
      <4>1. CASE n < 2
        <5>1. UpdateChannel(reading, TRUE)  BY <3>1, <4>1
        <5>2. reading' = TRUE /\ writing' = TRUE  BY <2>0, <5>1 DEF UpdateChannel
        <5>3. chan' = "kAdded" /\ inEpoll' = inEpoll  BY <2>0, <5>1 DEF UpdateChannel
        <5> QED  BY <4>1, <5>2, <5>3
      <4>2. CASE n = 2  BY <2>0, <3>1, <3>3, <4>2 DEF Inv, TypeOK
      <4>3. n < 2 \/ n = 2  OBVIOUS
      <4> QED  BY <4>1, <4>2, <4>3, Zenon
    <3>8. UNCHANGED <<state_, peer, inbound, sent, sockErr, shutWr>>
      BY <2>1 DEF SendWrites
    <3>9. QueueOK(queue') /\ (owner \/ "read" \in todo => Free(queue')) /\ batch' \in 0 .. Len(queue')
      BY <1>q, <3>1
    <3>10. TypeOK'  BY <3>5, <3>6, <3>7, <3>8, <3>9 DEF Inv, TypeOK, QueueOK
    <3>11. StreamIntact'  BY <3>4, <3>5, <3>6 DEF StreamIntact
    <3>12. WritingIffBuffered' /\ FinAfterBuffer' /\ DownOnce'
      BY <1>o, <3>2, <3>5, <3>7, <3>8 DEF Inv, WritingIffBuffered, FinAfterBuffer, DownOnce
    <3>13. ClosedNotPolled' /\ DispatchInv' /\ (owner <=> state_ # "kDisconnected")'
      BY <1>o, <2>0, <3>7, <3>8 DEF Inv, ClosedNotPolled, DispatchInv, DestroyedOnce, Open
    <3> QED  BY <3>9, <3>10, <3>11, <3>12, <3>13, NextInvParts
  <2>2. CASE SendBuffers(m, q)
    <3>1. outputBuffer_ # <<>> /\ ~shutWr /\ writing = TRUE
      BY <1>o, <2>2 DEF SendBuffers, Inv, TypeOK, WritingIffBuffered, FinAfterBuffer
    <3>2. /\ outputBuffer_' = outputBuffer_ \o Bytes(m) /\ accepted' = accepted \o Bytes(m)
          /\ queue' = q /\ UNCHANGED <<state_, peer, inbound, sent, sockErr, shutWr, wire>>
          /\ UNCHANGED <<reading, writing, chan, inEpoll>>
      BY <2>2, <3>1 DEF SendBuffers
    <3>3. /\ wire \in Seq(Messages) /\ outputBuffer_ \in Seq(Messages)
          /\ accepted \in Seq(Messages) /\ wire \o outputBuffer_ = accepted
      BY DEF Inv, TypeOK, StreamIntact
    <3>4. /\ outputBuffer_' \in Seq(Messages) /\ accepted' \in Seq(Messages)
          /\ outputBuffer_' # <<>>
      BY <3>2, <3>3, BufferOne
    <3>6. StreamIntact'  BY <3>2, <3>3, BufferOne DEF StreamIntact
    <3>7. QueueOK(queue') /\ (owner \/ "read" \in todo => Free(queue')) /\ batch' \in 0 .. Len(queue')
      BY <1>q, <3>2
    <3>8. TypeOK'  BY <3>2, <3>4, <3>7 DEF Inv, TypeOK, QueueOK
    <3>9. WritingIffBuffered' /\ FinAfterBuffer' /\ DownOnce'
      BY <3>1, <3>2, <3>4 DEF Inv, WritingIffBuffered, FinAfterBuffer, DownOnce
    <3>10. ClosedNotPolled' /\ DispatchInv' /\ (owner <=> state_ # "kDisconnected")'
      BY <1>o, <2>0, <3>1, <3>2 DEF Inv, ClosedNotPolled, DispatchInv, DestroyedOnce, Open
    <3> QED  BY <3>6, <3>7, <3>8, <3>9, <3>10, NextInvParts
  <2> QED  BY <1>1, <1>2, <2>1, <2>2 DEF SendInLoop
<1>c. state_ \in Open \/ state_ = "kDisconnected"  BY DEF Inv, TypeOK, Open
<1> QED
  BY <1>1, <1>2, <1>o, <1>c DEF SendInLoop, SendWrites, SendBuffers

(* handleClose with the owner's close callback keeps Inv, from handleRead   *)
(* and from forceCloseInLoop; only the write handler may be due after it.   *)
LEMMA CloseKeepsInv ==
  ASSUME Inv, NEW q, QueueOK(q), Free(q), HandleClose(q),
         \/ state_ \in Open
         \/ state_ = "kDisconnected" /\ chan = "kAdded" /\ due /\ downs = 1,
         batch' \in 0 .. Len(q), kept' \in BOOLEAN,
         todo' \subseteq {"write"}, todo' \subseteq todo,
         loop' = loop \/ loop' = "crashed",
         UNCHANGED <<outputBuffer_, user, peer, inbound, sent, sockErr, shutWr>>,
         UNCHANGED <<wire, accepted, unused, due>>
  PROVE  Inv'
<1>1. /\ state_' = "kDisconnected" /\ owner' = FALSE /\ queue' = Append(q, Destroyed)
      /\ reading' = FALSE /\ writing' = FALSE /\ downs' = downs + 1
  BY DEF HandleClose, UpdateChannel, Destroyed
<1>2. /\ chan = "kAdded" /\ loop # "accepted"
      /\ downs \in Nat /\ (downs = 0 \/ (due /\ downs = 1))
  BY DEF Inv, TypeOK, DispatchInv, DownOnce, Open
<1>3. chan' = "kDeleted" /\ inEpoll' = FALSE
  BY <1>2 DEF HandleClose, UpdateChannel
<1>4. q \in Seq(Functors) /\ Len(q) \in Nat  BY DEF QueueOK
<1>5. QueueOK(queue') /\ batch' \in 0 .. Len(queue')
  <2>1. PICK d \in Functors : d = Destroyed  BY CallFunctorFacts
  <2>2. queue' = Append(q, d)  BY <1>1, <2>1
  <2>3. Indices(q, d) = {}  BY <2>1 DEF Free
  <2>4. /\ Append(q, d) \in Seq(Functors) /\ Len(Append(q, d)) = Len(q) + 1
        /\ \A i, j \in Indices(Append(q, d), d) : i = j
    <3> HIDE <2>1
    <3> QED  BY <1>4, <2>3, AppendIndices
  <2>5. QueueOK(queue')  BY <2>1, <2>2, <2>4 DEF QueueOK
  <2>6. Len(queue') = Len(q) + 1  BY <2>2, <2>4
  <2> QED  BY <1>4, <2>5, <2>6
<1>6. TypeOK'
  <2>1. /\ outputBuffer_' \in Seq(Messages) /\ wire' \in Seq(Messages)
        /\ accepted' \in Seq(Messages) /\ queue' \in Seq(Functors)
        /\ user' \in [Threads -> {NoRef, Idle} \cup CallFunctors]
    BY <1>5 DEF Inv, TypeOK, QueueOK
  <2>2. /\ todo' \subseteq {"error", "read", "write"} /\ downs' \in Nat
        /\ unused' \subseteq Messages
    BY <1>1 DEF Inv, TypeOK
  <2> QED  BY <1>1, <1>3, <1>5, <2>1, <2>2 DEF Inv, TypeOK
<1>7. StreamIntact' /\ WritingIffBuffered' /\ FinAfterBuffer' /\ DownOnce'
  BY <1>1, <1>2 DEF Inv, StreamIntact, WritingIffBuffered, FinAfterBuffer, DownOnce, Open
<1>8. ClosedNotPolled' /\ (owner <=> state_ # "kDisconnected")'
  BY <1>1, <1>3 DEF ClosedNotPolled, Open
<1>9. DispatchInv'  BY <1>1, <1>2 DEF Inv, DispatchInv, Open
<1> QED  BY <1>1, <1>5, <1>6, <1>7, <1>8, <1>9, NextInvParts

(* The end of the stream, seen by handleRead, keeps Inv.                    *)
LEMMA ReadEndInv == ASSUME Inv, HandleReadEnd PROVE Inv'
<1>1. /\ loop = "dispatch" /\ "read" \in todo /\ "error" \notin todo
      /\ todo' = todo \ {"read"}
  BY DEF HandleReadEnd, Calls, Before
<1>2. \/ state_ \in Open
      \/ state_ = "kDisconnected" /\ chan = "kAdded" /\ due /\ downs = 1
  BY <1>1 DEF Inv, TypeOK, DispatchInv, Open
<1>3. todo' \subseteq {"write"} /\ todo' \subseteq todo  BY <1>1 DEF Inv, TypeOK
<1>4. QueueOK(queue) /\ Free(queue)  BY <1>1, QueueFacts
<1>5. batch' \in 0 .. Len(queue)  BY DEF HandleReadEnd, Inv, TypeOK
<1>6. PICK q : q = queue  OBVIOUS
<1>7. HandleClose(q)  BY <1>6 DEF HandleReadEnd, HandleClose
<1>8. /\ UNCHANGED <<outputBuffer_, user, peer, inbound, sent, sockErr, shutWr>>
      /\ UNCHANGED <<wire, accepted, unused, due>>
      /\ loop' = loop \/ loop' = "crashed"
      /\ kept' \in BOOLEAN
  BY <1>1 DEF HandleReadEnd, netVars, Inv, TypeOK
<1>9. QueueOK(q) /\ Free(q) /\ batch' \in 0 .. Len(q)  BY <1>4, <1>5, <1>6
<1> QED
  <2> HIDE <1>6
  <2> QED  BY <1>2, <1>3, <1>7, <1>8, <1>9, CloseKeepsInv

(* handleWrite keeps Inv: the bytes taken move from the buffer to the wire, *)
(* and write interest goes exactly when the buffer is empty.                *)
LEMMA HandleWriteInv == ASSUME Inv, HandleWrite PROVE Inv'
<1>1. /\ loop = "dispatch" /\ "write" \in todo /\ todo' = todo \ {"write"}
      /\ todo \cap {"error", "read"} = {} /\ writing
  BY DEF HandleWrite, Calls, Before
<1>2. /\ state_ \in Open \/ state_ = "kDisconnected"
      /\ todo' = {}
  BY <1>1 DEF Inv, TypeOK, DispatchInv, Open
<1>3. /\ chan = "kAdded" /\ writing = TRUE
      /\ reading \in BOOLEAN /\ inEpoll \in BOOLEAN
      /\ state_ \in Open => reading = TRUE /\ inEpoll = TRUE
      /\ state_ = "kDisconnected" => inEpoll = FALSE
  BY <1>1, <1>2 DEF Inv, TypeOK, DispatchInv, ClosedNotPolled, Open
<1>4. /\ wire \in Seq(Messages) /\ outputBuffer_ \in Seq(Messages)
      /\ wire \o outputBuffer_ = accepted
  BY DEF Inv, TypeOK, StreamIntact
<1>5. PICK n \in 0 .. Len(outputBuffer_) :
        /\ n \in Written(Len(outputBuffer_))
        /\ wire' = wire \o SubSeq(outputBuffer_, 1, n)
        /\ outputBuffer_' = SubSeq(outputBuffer_, n + 1, Len(outputBuffer_))
  BY DEF HandleWrite, Written
<1>6. ~shutWr  BY <1>5 DEF Written, Broken
<1>7. /\ wire' \in Seq(Messages) /\ outputBuffer_' \in Seq(Messages)
      /\ wire' \o outputBuffer_' = accepted
  <2>1. PICK w, b : w = wire /\ b = outputBuffer_  OBVIOUS
  <2>2. w \in Seq(Messages) /\ b \in Seq(Messages) /\ n \in 0 .. Len(b)
    BY <1>4, <2>1
  <2>3. /\ w \o SubSeq(b, 1, n) \in Seq(Messages) /\ SubSeq(b, n + 1, Len(b)) \in Seq(Messages)
        /\ (w \o SubSeq(b, 1, n)) \o SubSeq(b, n + 1, Len(b)) = w \o b
        /\ SubSeq(b, n + 1, Len(b)) = <<>> <=> n = Len(b)
    <3> HIDE <2>1
    <3> QED  BY <2>2, WriteSplits
  <2> QED  BY <1>4, <1>5, <2>1, <2>3
<1>8. /\ UNCHANGED <<state_, loop, batch, owner, user, peer, inbound, sent, sockErr>>
      /\ UNCHANGED <<kept, accepted, unused, downs, due>>
  BY DEF HandleWrite, refVars
<1>9. /\ reading' = reading /\ chan' \in {"kAdded", "kDeleted"}
      /\ state_ \in Open => chan' = "kAdded"
      /\ writing' => chan' = "kAdded"
      /\ inEpoll' = inEpoll
      /\ writing' \in BOOLEAN /\ shutWr' \in BOOLEAN
      /\ writing' <=> outputBuffer_' # <<>>
      /\ shutWr' => outputBuffer_' = <<>>
  <2>1. CASE outputBuffer_' = <<>>
    <3>1. UpdateChannel(reading, FALSE)  BY <2>1 DEF HandleWrite
    <3>2. reading' = reading /\ writing' = FALSE  BY <3>1 DEF UpdateChannel
    <3>3. state_ \in Open => chan' = "kAdded" /\ inEpoll' = inEpoll
      BY <1>3, <3>1 DEF UpdateChannel
    <3>5. state_ = "kDisconnected" => chan' \in {"kAdded", "kDeleted"} /\ inEpoll' = inEpoll
      BY <1>3, <3>1 DEF UpdateChannel
    <3>4. shutWr' \in BOOLEAN  BY <2>1 DEF HandleWrite
    <3> QED  BY <1>2, <2>1, <3>2, <3>3, <3>4, <3>5
  <2>2. CASE outputBuffer_' # <<>>
    <3>1. UNCHANGED <<reading, writing, chan, inEpoll, shutWr>>
      BY <2>2 DEF HandleWrite, chanVars
    <3> QED  BY <1>3, <1>6, <2>2, <3>1 DEF Inv, TypeOK
  <2> QED  BY <2>1, <2>2
<1>10. /\ QueueOK(queue') /\ batch' \in 0 .. Len(queue')
       /\ owner' \/ "read" \in todo' => Free(queue')
  <2>0. QueueOK(queue) /\ (owner => Free(queue)) /\ batch \in 0 .. Len(queue)
        /\ Len(queue) \in Nat /\ "read" \notin todo'
    BY <1>2, QueueFacts DEF Inv, TypeOK
  <2>1. CASE queue' = queue  BY <1>8, <2>0, <2>1
  <2>2. CASE queue' = Append(queue, <<"writeComplete">>)
    <3>1. PICK f \in Functors \ {Destroyed} : f = <<"writeComplete">>  BY CallFunctorFacts
    <3>2. QueueOK(queue') /\ (owner => Free(queue')) /\ Len(queue') = Len(queue) + 1
      <4>1. queue' = Append(queue, f)  BY <2>2, <3>1
      <4> HIDE <3>1
      <4> QED  BY <2>0, <4>1, QueueAppend
    <3> QED  BY <1>8, <2>0, <3>2
  <2> QED  BY <2>1, <2>2 DEF HandleWrite
<1>11. TypeOK'
  <2>1. /\ accepted' \in Seq(Messages) /\ queue' \in Seq(Functors)
        /\ user' \in [Threads -> {NoRef, Idle} \cup CallFunctors]
    BY <1>8, <1>10 DEF Inv, TypeOK, QueueOK
  <2>2. todo' \subseteq {"error", "read", "write"}  BY <1>2
  <2>3. /\ inEpoll' \in BOOLEAN /\ reading' \in BOOLEAN /\ writing' \in BOOLEAN
        /\ shutWr' \in BOOLEAN /\ chan' \in {"kNew", "kAdded", "kDeleted"}
    <3>1. chan' \in {"kNew", "kAdded", "kDeleted"}  BY <1>9
    <3> QED  BY <1>3, <1>9, <3>1
  <2>4. wire' \in Seq(Messages) /\ outputBuffer_' \in Seq(Messages)  BY <1>7
  <2>5. batch' \in 0 .. Len(queue')  BY <1>10
  <2> QED  BY <1>8, <2>1, <2>2, <2>3, <2>4, <2>5 DEF Inv, TypeOK
<1>12. StreamIntact'  BY <1>7, <1>8 DEF StreamIntact
<1>13. WritingIffBuffered' /\ FinAfterBuffer' /\ DownOnce'
  BY <1>8, <1>9 DEF Inv, WritingIffBuffered, FinAfterBuffer, DownOnce
<1>14. ClosedNotPolled' /\ DispatchInv' /\ (owner <=> state_ # "kDisconnected")'
  BY <1>1, <1>2, <1>3, <1>8, <1>9, <1>8 DEF Inv, ClosedNotPolled, DispatchInv, DestroyedOnce, Open
<1> QED  BY <1>10, <1>11, <1>12, <1>13, <1>14, NextInvParts

(* Taking the first functor off the queue, as the loop over the batch does. *)
LEMMA RunsFacts ==
  ASSUME Inv, NEW f, Runs(f)
  PROVE  /\ loop = "functors" /\ todo = {} /\ state_ # "kConnecting"
         /\ queue # <<>> /\ f = queue[1]
         /\ QueueOK(Tail(queue)) /\ (owner => Free(Tail(queue)))
         /\ batch' \in 0 .. Len(Tail(queue)) /\ kept' \in BOOLEAN
<1>1. /\ loop = "functors" /\ batch > 0 /\ Head(queue) = f /\ batch' = batch - 1
      /\ kept' \in BOOLEAN
  BY DEF Runs, Holds, Inv, TypeOK
<1>2. queue \in Seq(Functors) /\ batch \in 0 .. Len(queue) /\ Len(queue) \in Nat
  BY DEF Inv, TypeOK
<1>3. queue # <<>>  BY <1>1, <1>2, EmptySeq
<1>4. todo = {} /\ state_ # "kConnecting"  BY <1>1 DEF Inv, DispatchInv
<1>5. /\ QueueOK(Tail(queue)) /\ Len(Tail(queue)) = Len(queue) - 1
      /\ owner => Free(Tail(queue))
  BY <1>3, QueueFacts, QueueTail
<1>6. batch' \in 0 .. Len(Tail(queue))  BY <1>1, <1>2, <1>5
<1>7. f = queue[1]  BY <1>1, <1>2, <1>3
<1> QED  BY <1>1, <1>3, <1>4, <1>5, <1>6, <1>7

(* Functors that leave the connection's own state alone keep Inv.           *)
LEMMA TakeKeepsInv ==
  ASSUME Inv, todo = {}, state_ # "kConnecting",
         QueueOK(queue'), owner => Free(queue'), batch' \in 0 .. Len(queue'),
         loop' \in {"functors", "writeComplete", "crashed"}, loop = "functors",
         shutWr' \in BOOLEAN, shutWr' => shutWr \/ ~writing,
         UNCHANGED <<state_, outputBuffer_, reading, writing, chan, inEpoll, todo>>,
         UNCHANGED <<owner, user, peer, inbound, sent, sockErr>>,
         UNCHANGED <<wire, accepted, unused, downs, due>>, kept' \in BOOLEAN
  PROVE  Inv'
<1>1. TypeOK'
  <2>1. queue' \in Seq(Functors)  BY DEF QueueOK
  <2> QED  BY <2>1 DEF Inv, TypeOK
<1>2. StreamIntact' /\ WritingIffBuffered' /\ DownOnce'
  BY DEF Inv, StreamIntact, WritingIffBuffered, DownOnce
<1>3. FinAfterBuffer'  BY DEF Inv, WritingIffBuffered, FinAfterBuffer
<1>4. ClosedNotPolled' /\ DispatchInv' /\ (owner <=> state_ # "kDisconnected")'
  BY DEF Inv, ClosedNotPolled, DispatchInv, DestroyedOnce
<1> QED  BY <1>1, <1>2, <1>3, <1>4, NextInvParts

(* The queued calls, once they run, keep Inv.                               *)
LEMMA FunctorInv ==
  ASSUME Inv,
         \/ RunShutdown \/ RunShutdownFreed \/ RunForceClose
         \/ RunConnectDestroyed \/ RunWriteComplete \/ \E m \in Messages : RunSend(m)
  PROVE  Inv'
<1> USE DEF connVars, chanVars, loopVars, queueVars, refVars, netVars, histVars
<1>1. CASE RunShutdown
  <2>1. Runs(<<"shutdown">>) /\ queue' = Tail(queue)  BY <1>1 DEF RunShutdown
  <2>2. shutWr' \in BOOLEAN /\ (shutWr' => shutWr \/ ~writing)
    BY <1>1 DEF RunShutdown, ShutdownInLoop
  <2> QED  BY <1>1, <2>1, <2>2, RunsFacts, TakeKeepsInv DEF RunShutdown
<1>2. CASE RunShutdownFreed
  <2>1. Runs(<<"shutdown">>) /\ queue' = Tail(queue)  BY <1>2 DEF RunShutdownFreed
  <2>2. shutWr' \in BOOLEAN /\ (shutWr' => shutWr \/ ~writing)
    BY <1>2 DEF RunShutdownFreed, Inv, TypeOK
  <2> QED  BY <1>2, <2>1, <2>2, RunsFacts, TakeKeepsInv DEF RunShutdownFreed
<1>3. CASE RunWriteComplete
  <2>1. Runs(<<"writeComplete">>) /\ queue' = Tail(queue)  BY <1>3 DEF RunWriteComplete
  <2>2. shutWr' \in BOOLEAN /\ (shutWr' => shutWr \/ ~writing)
    BY <1>3 DEF RunWriteComplete, Inv, TypeOK
  <2> QED  BY <1>3, <2>1, <2>2, RunsFacts, TakeKeepsInv DEF RunWriteComplete
<1>4. CASE RunConnectDestroyed
  <2>1. Runs(Destroyed) /\ queue' = Tail(queue)
    BY <1>4 DEF RunConnectDestroyed, Destroyed
  <2>2. queue # <<>> /\ queue[1] = Destroyed  BY <2>1, RunsFacts
  <2>3. 1 \in Indices(queue, Destroyed)  BY <2>2 DEF Inv, TypeOK, Indices
  <2>4. ~owner  BY <2>3, QueueFacts DEF Free
  <2>5. state_ = "kDisconnected" /\ ~inEpoll
    BY <2>4 DEF Inv, DestroyedOnce, ClosedNotPolled, Open
  <2>6. UNCHANGED <<state_, downs, outputBuffer_, reading, writing, chan>>
    BY <1>4, <2>5 DEF RunConnectDestroyed, ConnectDestroyed, Open
  <2>7. inEpoll' = inEpoll
    BY <1>4, <2>5 DEF RunConnectDestroyed, ConnectDestroyed, Inv, TypeOK
  <2>8. shutWr' \in BOOLEAN /\ (shutWr' => shutWr \/ ~writing)
    BY <1>4 DEF RunConnectDestroyed, Inv, TypeOK
  <2> QED  BY <1>4, <2>1, <2>6, <2>7, <2>8, RunsFacts, TakeKeepsInv DEF RunConnectDestroyed
<1>5. CASE RunForceClose
  <2>1. Runs(<<"forceClose">>)  BY <1>5 DEF RunForceClose
  <2>2. CASE state_ \in Open
    <3>1. PICK q : q = Tail(queue)  OBVIOUS
    <3>2. QueueOK(q) /\ Free(q) /\ batch' \in 0 .. Len(q)
      BY <2>1, <2>2, <3>1, RunsFacts DEF Inv, DestroyedOnce, Open
    <3>3. HandleClose(q)  BY <1>5, <2>2, <3>1 DEF RunForceClose, HandleClose
    <3>4. todo' \subseteq {"write"} /\ todo' \subseteq todo
      BY <1>5, <2>1, RunsFacts DEF RunForceClose
    <3>5. /\ UNCHANGED <<outputBuffer_, loop, user, peer, inbound, sent, sockErr, shutWr>>
          /\ UNCHANGED <<wire, accepted, unused, due>> /\ kept' \in BOOLEAN
      BY <1>5, <2>1, RunsFacts DEF RunForceClose
    <3> HIDE <3>1
    <3> QED  BY <2>2, <3>2, <3>3, <3>4, <3>5, CloseKeepsInv
  <2>3. CASE state_ \notin Open
    <3>1. queue' = Tail(queue) /\ UNCHANGED <<state_, chanVars, downs, owner>>
      BY <1>5, <2>3 DEF RunForceClose
    <3>2. shutWr' \in BOOLEAN /\ (shutWr' => shutWr \/ ~writing)
      BY <1>5 DEF RunForceClose, Inv, TypeOK
    <3> QED  BY <1>5, <2>1, <3>1, <3>2, RunsFacts, TakeKeepsInv DEF RunForceClose
  <2> QED  BY <2>2, <2>3
<1>6. ASSUME NEW m \in Messages, RunSend(m)  PROVE Inv'
  <2>1. Runs(<<"send", m>>)  BY <1>6 DEF RunSend
  <2>2. PICK q : q = Tail(queue)  OBVIOUS
  <2>3. /\ QueueOK(q) /\ (owner => Free(q)) /\ batch' \in 0 .. Len(q)
        /\ state_ # "kConnecting" /\ todo = {} /\ kept' \in BOOLEAN
    BY <2>1, <2>2, RunsFacts
  <2>4. SendInLoop(m, q)
    BY <1>6, <2>2 DEF RunSend, SendInLoop, SendGivenUp, SendFails, SendWrites, SendBuffers
  <2>5. UNCHANGED <<loop, todo, owner, user, downs, due>> /\ unused' \subseteq Messages
    BY <1>6 DEF RunSend, Inv, TypeOK
  <2> HIDE <2>2
  <2> QED  BY <2>3, <2>4, <2>5, SendKeepsInv
<1> QED  BY <1>1, <1>2, <1>3, <1>4, <1>5, <1>6

(* send() on the loop thread keeps Inv.                                     *)
LEMMA SendInv == ASSUME Inv, NEW m \in Messages, Send(m) PROVE Inv'
<1>1. PICK q : q = queue  OBVIOUS
<1>2. /\ QueueOK(q) /\ batch' \in 0 .. Len(q)
      /\ owner \/ "read" \in todo => Free(q)
  BY <1>1, QueueFacts DEF Send, Inv, TypeOK
<1>3. SendInLoop(m, q)
  BY <1>1 DEF Send, SendInLoop, SendGivenUp, SendFails, SendWrites, SendBuffers
<1>4. /\ UNCHANGED <<loop, todo, owner, user, downs, due>> /\ kept' \in BOOLEAN
      /\ unused' \subseteq Messages /\ state_ # "kConnecting"
  BY DEF Send, loopVars, refVars, Inv, TypeOK
<1> QED
  <2> HIDE <1>1
  <2> QED  BY <1>2, <1>3, <1>4, SendKeepsInv
-----------------------------------------------------------------------------
(* Inv holds in every state the loop thread, the other threads and the peer *)
(* can reach, for any number of threads and messages.                       *)
THEOREM Invariance == Spec => []Inv
<1>1. Init => Inv  BY InitInv
<1>2. Inv /\ [Next]_vars => Inv'
  <2> SUFFICES ASSUME Inv, [Next]_vars PROVE Inv'  OBVIOUS
  <2>1. CASE LoopStep
    BY <2>1, QuietSteps, ReadEndInv, HandleWriteInv, FunctorInv DEF LoopStep
  <2>2. CASE Poll(TRUE)  BY <2>2, QuietSteps
  <2>3. CASE LoopUser  BY <2>3, QuietSteps, ThreadInv, SendInv DEF LoopUser
  <2>4. CASE PeerStep  BY <2>4, QuietSteps
  <2>5. CASE \E t \in Threads : ThreadStep(t)  BY <2>5, ThreadInv
  <2>6. CASE UNCHANGED vars  BY <2>6, QuietSteps
  <2> QED  BY <2>1, <2>2, <2>3, <2>4, <2>5, <2>6 DEF Next
<1> QED  BY <1>1, <1>2, PTL DEF Spec

(* Partial writes, direct writes and handleWrite neither lose, duplicate    *)
(* nor reorder a byte that sendInLoop accepted.                             *)
THEOREM StreamStaysIntact == Spec => []StreamIntact
<1>1. Inv => StreamIntact  BY DEF Inv
<1> QED  BY <1>1, Invariance, PTL

(* An open connection polls for writing exactly while it has data to write. *)
THEOREM WriteInterestIsExact == Spec => []WritingIffBuffered
<1>1. Inv => WritingIffBuffered  BY DEF Inv
<1> QED  BY <1>1, Invariance, PTL

(* The FIN of an open connection goes out behind its buffered bytes.        *)
THEOREM FinWaits == Spec => []FinAfterBuffer
<1>1. Inv => FinAfterBuffer  BY DEF Inv
<1> QED  BY <1>1, Invariance, PTL

(* The connection is reported down once when it closes, and at most once    *)
(* more only if its owner was destroyed while its handleRead was due.       *)
THEOREM ReportedDownOnce == Spec => []DownOnce
<1>1. Inv => DownOnce  BY DEF Inv
<1> QED  BY <1>1, Invariance, PTL

(* A closed connection's channel stays out of the epoll set.                *)
THEOREM ClosedStaysOut == Spec => []ClosedNotPolled
<1>1. Inv => ClosedNotPolled  BY DEF Inv
<1> QED  BY <1>1, Invariance, PTL

(* connectDestroyed is queued once, with the end of the owner's entry.      *)
THEOREM DestroyedOnceOnly == Spec => []DestroyedOnce
<1>1. Inv => DestroyedOnce  BY DEF Inv
<1> QED  BY <1>1, Invariance, PTL
-----------------------------------------------------------------------------
(* The buffers of the connection, for any chunks and sizes.                 *)

(* std::copy into the middle of a vector.                                   *)
LEMMA CopyFacts ==
  ASSUME NEW buf \in Seq(ByteValues), NEW at \in Nat, NEW data \in Seq(ByteValues)
  PROVE  /\ Copy(buf, at, data) \in Seq(ByteValues) /\ Len(Copy(buf, at, data)) = Len(buf)
         /\ \A i \in 1 .. Len(buf) : Copy(buf, at, data)[i]
               = IF i \in at + 1 .. at + Len(data) THEN data[i - at] ELSE buf[i]
<1> DEFINE c == Copy(buf, at, data)
<1>1. \A i \in 1 .. Len(buf) :
         c[i] = IF i \in at + 1 .. at + Len(data) THEN data[i - at] ELSE buf[i]
  BY DEF Copy
<1>2. \A i \in 1 .. Len(buf) : c[i] \in ByteValues
  <2> SUFFICES ASSUME NEW i \in 1 .. Len(buf) PROVE c[i] \in ByteValues  OBVIOUS
  <2>1. CASE i \in at + 1 .. at + Len(data)
    <3>1. i - at \in 1 .. Len(data)  BY <2>1
    <3> QED  BY <1>1, <2>1, <3>1
  <2>2. CASE i \notin at + 1 .. at + Len(data)  BY <1>1, <2>2
  <2> QED  BY <2>1, <2>2
<1>3. c \in [1 .. Len(buf) -> ByteValues]  BY <1>2 DEF Copy
<1>4. c \in Seq(ByteValues) /\ Len(c) = Len(buf)  BY <1>3
<1> QED  BY <1>1, <1>4

(* resize: the old elements stay.                                           *)
LEMMA ResizeFacts ==
  ASSUME NEW buf \in Seq(ByteValues), NEW n \in Nat, n >= Len(buf)
  PROVE  /\ Resize(buf, n) \in Seq(ByteValues) /\ Len(Resize(buf, n)) = n
         /\ \A i \in 1 .. Len(buf) : Resize(buf, n)[i] = buf[i]
<1>1. PICK z : z = Zeros(n - Len(buf))  OBVIOUS
<1>2. z \in Seq(ByteValues) /\ Len(z) = n - Len(buf)
  BY <1>1, ZeroAssumption DEF Zeros
<1>3. Resize(buf, n) = buf \o z  BY <1>1 DEF Resize
<1>4. buf \o z \in Seq(ByteValues) /\ Len(buf \o z) = Len(buf) + Len(z)
  BY <1>2, ConcatProperties
<1>5. \A i \in 1 .. Len(buf) : (buf \o z)[i] = buf[i]  BY <1>2, ConcatProperties
<1>6. Len(buf \o z) = n  BY <1>2, <1>4
<1> QED  BY <1>3, <1>4, <1>5, <1>6

(* append keeps the readable bytes, puts the data behind them and does not  *)
(* make the vector larger than twice what is then readable.                 *)
LEMMA AppendFacts ==
  ASSUME NEW buf \in Seq(ByteValues), NEW r \in Nat, NEW w \in Nat, r <= w, w <= Len(buf),
         NEW data \in Seq(ByteValues), AppendTo(buf, r, w, data)
  PROVE  /\ buffer_' \in Seq(ByteValues) /\ readerIndex_' \in Nat
         /\ writerIndex_' = readerIndex_' + (w - r) + Len(data)
         /\ writerIndex_' <= Len(buffer_')
         /\ \A i \in 1 .. w - r : buffer_'[readerIndex_' + i] = buf[r + i]
         /\ \A i \in 1 .. Len(data) : buffer_'[readerIndex_' + (w - r) + i] = data[i]
         /\ Len(buffer_') <= Len(buf) \/ Len(buffer_') <= 2 * ((w - r) + Len(data))
<1>0. Len(buf) \in Nat /\ Len(data) \in Nat  OBVIOUS
<1>1. CASE Len(buf) - w >= Len(data)
  <2>1. /\ buffer_' = Copy(buf, w, data)
        /\ readerIndex_' = r /\ writerIndex_' = w + Len(data)
    BY <1>1, <1>0 DEF AppendTo
  <2>2. /\ buffer_' \in Seq(ByteValues) /\ Len(buffer_') = Len(buf)
        /\ \A i \in 1 .. Len(buf) :
              buffer_'[i] = IF i \in w + 1 .. w + Len(data) THEN data[i - w] ELSE buf[i]
    BY <2>1, CopyFacts
  <2>3. ASSUME NEW i \in 1 .. w - r  PROVE buffer_'[r + i] = buf[r + i]
    BY <1>0, <2>2
  <2>4. ASSUME NEW i \in 1 .. Len(data)  PROVE buffer_'[r + (w - r) + i] = data[i]
    <3>1. r + (w - r) + i = w + i /\ w + i \in 1 .. Len(buf)
          /\ w + i \in w + 1 .. w + Len(data) /\ (w + i) - w = i
      BY <1>0, <1>1
    <3> QED  BY <2>2, <3>1
  <2> QED  BY <1>0, <1>1, <2>1, <2>2, <2>3, <2>4
<1>2. CASE Len(buf) - w < Len(data) /\ Len(buf) - w + r < Len(data)
  <2>0. PICK b : b = Resize(buf, w + Len(data))  OBVIOUS
  <2>1. /\ buffer_' = Copy(b, w, data)
        /\ readerIndex_' = r /\ writerIndex_' = w + Len(data)
    BY <1>0, <1>2, <2>0 DEF AppendTo, Grow
  <2>2. /\ b \in Seq(ByteValues) /\ Len(b) = w + Len(data)
        /\ \A i \in 1 .. Len(buf) : b[i] = buf[i]
    <3>1. PICK n : n = w + Len(data)  OBVIOUS
    <3>2. n \in Nat /\ n >= Len(buf)  BY <1>0, <1>2, <3>1
    <3>3. /\ Resize(buf, n) \in Seq(ByteValues) /\ Len(Resize(buf, n)) = n
          /\ \A i \in 1 .. Len(buf) : Resize(buf, n)[i] = buf[i]
      <4> HIDE <2>0, <3>1
      <4> QED  BY <3>2, ResizeFacts
    <3> QED  BY <2>0, <3>1, <3>3
  <2>3. /\ buffer_' \in Seq(ByteValues) /\ Len(buffer_') = Len(b)
        /\ \A i \in 1 .. Len(b) :
              buffer_'[i] = IF i \in w + 1 .. w + Len(data) THEN data[i - w] ELSE b[i]
    <3>1. b \in Seq(ByteValues)  BY <2>2
    <3>2. /\ Copy(b, w, data) \in Seq(ByteValues) /\ Len(Copy(b, w, data)) = Len(b)
          /\ \A i \in 1 .. Len(b) : Copy(b, w, data)[i]
                = IF i \in w + 1 .. w + Len(data) THEN data[i - w] ELSE b[i]
      <4> HIDE <2>0
      <4> QED  BY <3>1, CopyFacts
    <3> QED  BY <2>1, <2>2, <3>2
  <2>4. ASSUME NEW i \in 1 .. w - r  PROVE buffer_'[r + i] = buf[r + i]
    BY <1>0, <2>2, <2>3
  <2>5. ASSUME NEW i \in 1 .. Len(data)  PROVE buffer_'[r + (w - r) + i] = data[i]
    <3>1. r + (w - r) + i = w + i /\ w + i \in 1 .. Len(b)
          /\ w + i \in w + 1 .. w + Len(data) /\ (w + i) - w = i
      BY <1>0, <2>2
    <3> QED  BY <2>3, <3>1
  <2>6. Len(buffer_') <= 2 * ((w - r) + Len(data))  BY <1>0, <1>2, <2>2, <2>3
  <2> QED  BY <1>0, <2>1, <2>2, <2>3, <2>4, <2>5, <2>6
<1>3. CASE Len(buf) - w < Len(data) /\ ~(Len(buf) - w + r < Len(data))
  <2>0. PICK s : s = SubSeq(buf, r + 1, w)  OBVIOUS
  <2>1. s \in Seq(ByteValues) /\ Len(s) = w - r /\ \A i \in 1 .. w - r : s[i] = buf[r + i]
    BY <1>0, <2>0
  <2>2. PICK b : b = Copy(buf, 0, s)  OBVIOUS
  <2>3. /\ buffer_' = Copy(b, w - r, data)
        /\ readerIndex_' = 0 /\ writerIndex_' = w - r + Len(data)
    BY <1>0, <1>3, <2>0, <2>2 DEF AppendTo, Move
  <2>4. /\ b \in Seq(ByteValues) /\ Len(b) = Len(buf)
        /\ \A i \in 1 .. Len(buf) :
              b[i] = IF i \in 0 + 1 .. 0 + Len(s) THEN s[i - 0] ELSE buf[i]
    <3>1. s \in Seq(ByteValues)  BY <2>1
    <3>2. /\ Copy(buf, 0, s) \in Seq(ByteValues) /\ Len(Copy(buf, 0, s)) = Len(buf)
          /\ \A i \in 1 .. Len(buf) : Copy(buf, 0, s)[i]
                = IF i \in 0 + 1 .. 0 + Len(s) THEN s[i - 0] ELSE buf[i]
      <4> HIDE <2>0, <2>2
      <4> QED  BY <3>1, CopyFacts
    <3> QED  BY <2>1, <2>2, <3>2
  <2>5. /\ buffer_' \in Seq(ByteValues) /\ Len(buffer_') = Len(b)
        /\ \A i \in 1 .. Len(b) : buffer_'[i]
              = IF i \in (w - r) + 1 .. (w - r) + Len(data) THEN data[i - (w - r)] ELSE b[i]
    <3>1. w - r \in Nat  OBVIOUS
    <3> HIDE <2>0, <2>2
    <3> QED  BY <2>3, <2>4, <3>1, CopyFacts
  <2>6. ASSUME NEW i \in 1 .. w - r  PROVE buffer_'[0 + i] = buf[r + i]
    <3>1. i \in 1 .. Len(buf) /\ i \notin (w - r) + 1 .. (w - r) + Len(data)  BY <1>0
    <3>2. buffer_'[i] = b[i]  BY <2>4, <2>5, <3>1
    <3>3. b[i] = s[i]  BY <2>1, <2>4, <3>1
    <3> QED  BY <2>1, <3>2, <3>3
  <2>7. ASSUME NEW i \in 1 .. Len(data)  PROVE buffer_'[0 + (w - r) + i] = data[i]
    <3>1. 0 + (w - r) + i = (w - r) + i /\ (w - r) + i \in 1 .. Len(b)
          /\ (w - r) + i \in (w - r) + 1 .. (w - r) + Len(data)
          /\ ((w - r) + i) - (w - r) = i
      BY <1>0, <1>3, <2>4
    <3> QED  BY <2>5, <3>1
  <2> QED  BY <1>0, <1>3, <2>3, <2>4, <2>5, <2>6, <2>7
<1> QED  BY <1>0, <1>1, <1>2, <1>3

(* What a step that puts data behind the readable bytes does.               *)
Puts(data) ==
  /\ buffer_' \in Seq(ByteValues) /\ readerIndex_' \in Nat
  /\ writerIndex_' = readerIndex_' + ReadableBytes + Len(data)
  /\ writerIndex_' <= Len(buffer_')
  /\ \A i \in 1 .. ReadableBytes : buffer_'[readerIndex_' + i] = buffer_[readerIndex_ + i]
  /\ \A i \in 1 .. Len(data) : buffer_'[readerIndex_' + ReadableBytes + i] = data[i]
  /\ Len(buffer_') <= Len(buffer_) \/ Len(buffer_') <= 2 * (ReadableBytes + Len(data))

LEMMA AppendDataPuts ==
  ASSUME BufferInv, NEW data \in Seq(ByteValues), AppendData(data)
  PROVE  Puts(data)
<1>1. PICK b, r, w : b = buffer_ /\ r = readerIndex_ /\ w = writerIndex_  OBVIOUS
<1>2. b \in Seq(ByteValues) /\ r \in Nat /\ w \in Nat /\ r <= w /\ w <= Len(b)
  BY <1>1 DEF BufferInv, BufferTypeOK, IndexInv
<1>3. AppendTo(b, r, w, data)  BY <1>1 DEF AppendData, AppendTo, Grow, Move
<1>4. /\ buffer_' \in Seq(ByteValues) /\ readerIndex_' \in Nat
      /\ writerIndex_' = readerIndex_' + (w - r) + Len(data)
      /\ writerIndex_' <= Len(buffer_')
      /\ \A i \in 1 .. w - r : buffer_'[readerIndex_' + i] = b[r + i]
      /\ \A i \in 1 .. Len(data) : buffer_'[readerIndex_' + (w - r) + i] = data[i]
      /\ Len(buffer_') <= Len(b) \/ Len(buffer_') <= 2 * ((w - r) + Len(data))
  <2> HIDE <1>1
  <2> QED  BY <1>2, <1>3, AppendFacts
<1> QED  BY <1>1, <1>4 DEF Puts, ReadableBytes

(* readFd: the part in the vector and the part in extrabuf end up behind    *)
(* each other.                                                              *)
LEMMA ReadFdPuts ==
  ASSUME BufferInv, NEW data \in Seq(ByteValues), ReadFd(data)
  PROVE  Puts(data)
<1>1. PICK b, r, w : b = buffer_ /\ r = readerIndex_ /\ w = writerIndex_  OBVIOUS
<1>2. /\ b \in Seq(ByteValues) /\ r \in Nat /\ w \in Nat /\ r <= w /\ w <= Len(b)
      /\ Len(b) \in Nat /\ Len(data) \in Nat
  BY <1>1 DEF BufferInv, BufferTypeOK, IndexInv
<1>k. PICK k \in Nat : k = Len(b) - w  BY <1>2
<1>3. CASE Len(data) <= k
  <2>1. /\ buffer_' = Copy(b, w, data) /\ writerIndex_' = w + Len(data)
        /\ readerIndex_' = r
    BY <1>1, <1>k, <1>3 DEF ReadFd, WritableBytes
  <2>2. /\ buffer_' \in Seq(ByteValues) /\ Len(buffer_') = Len(b)
        /\ \A i \in 1 .. Len(b) :
              buffer_'[i] = IF i \in w + 1 .. w + Len(data) THEN data[i - w] ELSE b[i]
    <3> HIDE <1>1
    <3> QED  BY <1>2, <2>1, CopyFacts
  <2>3. ASSUME NEW i \in 1 .. w - r  PROVE buffer_'[r + i] = b[r + i]  BY <1>2, <2>2
  <2>4. ASSUME NEW i \in 1 .. Len(data)  PROVE buffer_'[r + (w - r) + i] = data[i]
    <3>1. r + (w - r) + i = w + i /\ w + i \in 1 .. Len(b)
          /\ w + i \in w + 1 .. w + Len(data) /\ (w + i) - w = i
      BY <1>2, <1>k, <1>3
    <3> QED  BY <2>2, <3>1
  <2> QED  BY <1>1, <1>2, <1>k, <1>3, <2>1, <2>2, <2>3, <2>4 DEF Puts, ReadableBytes
<1>4. CASE Len(data) > k
  <2>0. k \in 0 .. Len(data)  BY <1>2, <1>4
  <2>1. PICK p, q : p = SubSeq(data, 1, k) /\ q = SubSeq(data, k + 1, Len(data))  OBVIOUS
  <2>2. /\ p \in Seq(ByteValues) /\ Len(p) = k /\ \A i \in 1 .. k : p[i] = data[i]
        /\ q \in Seq(ByteValues) /\ Len(q) = Len(data) - k
        /\ \A i \in 1 .. Len(data) - k : q[i] = data[k + i]
    <3> HIDE <1>k, <1>1
    <3>1. p \in Seq(ByteValues) /\ Len(p) = k /\ \A i \in 1 .. k : p[i] = data[i]
      BY <1>2, <2>0, <2>1
    <3>2. q \in Seq(ByteValues) /\ Len(q) = Len(data) - k
      BY <1>2, <2>0, <2>1
    <3>3. ASSUME NEW i \in 1 .. Len(data) - k  PROVE q[i] = data[k + i]
      BY <1>2, <2>0, <2>1
    <3> QED  BY <3>1, <3>2, <3>3
  <2>3. PICK c : c = Copy(b, w, p)  OBVIOUS
  <2>4. /\ c \in Seq(ByteValues) /\ Len(c) = Len(b)
        /\ \A i \in 1 .. Len(b) :
              c[i] = IF i \in w + 1 .. w + Len(p) THEN p[i - w] ELSE b[i]
    <3> HIDE <1>1, <1>k, <2>1
    <3>1. b \in Seq(ByteValues) /\ w \in Nat /\ p \in Seq(ByteValues)  BY <1>2, <2>2
    <3>2. /\ Copy(b, w, p) \in Seq(ByteValues) /\ Len(Copy(b, w, p)) = Len(b)
          /\ \A i \in 1 .. Len(b) : Copy(b, w, p)[i]
                = IF i \in w + 1 .. w + Len(p) THEN p[i - w] ELSE b[i]
      <4> HIDE <2>3
      <4> QED  BY <3>1, CopyFacts
    <3> QED  BY <2>3, <3>2
  <2>5. AppendTo(c, r, Len(b), q)
    <3>1. ~(Len(data) <= WritableBytes) /\ WritableBytes = k
      BY <1>1, <1>2, <1>k, <1>4 DEF WritableBytes
    <3> QED  BY <1>1, <2>1, <2>3, <3>1 DEF ReadFd
  <2>6. /\ buffer_' \in Seq(ByteValues) /\ readerIndex_' \in Nat
        /\ writerIndex_' = readerIndex_' + (Len(b) - r) + Len(q)
        /\ writerIndex_' <= Len(buffer_')
        /\ \A i \in 1 .. Len(b) - r : buffer_'[readerIndex_' + i] = c[r + i]
        /\ \A i \in 1 .. Len(q) : buffer_'[readerIndex_' + (Len(b) - r) + i] = q[i]
        /\ Len(buffer_') <= Len(c) \/ Len(buffer_') <= 2 * ((Len(b) - r) + Len(q))
    <3>1. PICK e \in Nat : e = Len(b)  BY <1>2
    <3>2. r <= e /\ e <= Len(c) /\ AppendTo(c, r, e, q)  BY <1>2, <2>4, <2>5, <3>1
    <3>3. /\ buffer_' \in Seq(ByteValues) /\ readerIndex_' \in Nat
          /\ writerIndex_' = readerIndex_' + (e - r) + Len(q)
          /\ writerIndex_' <= Len(buffer_')
          /\ \A i \in 1 .. e - r : buffer_'[readerIndex_' + i] = c[r + i]
          /\ \A i \in 1 .. Len(q) : buffer_'[readerIndex_' + (e - r) + i] = q[i]
          /\ Len(buffer_') <= Len(c) \/ Len(buffer_') <= 2 * ((e - r) + Len(q))
      <4> HIDE <1>1, <1>k, <2>1, <2>3, <3>1
      <4> QED  BY <1>2, <2>2, <2>4, <3>2, AppendFacts
    <3> QED  BY <3>1, <3>3
  <2>7. ASSUME NEW i \in 1 .. w - r  PROVE buffer_'[readerIndex_' + i] = b[r + i]
    <3>1. i \in 1 .. Len(b) - r /\ r + i \in 1 .. Len(b) /\ r + i \notin w + 1 .. w + Len(p)
      BY <1>2
    <3> QED  BY <2>4, <2>6, <3>1
  <2>8. ASSUME NEW i \in 1 .. Len(data)
        PROVE  buffer_'[readerIndex_' + (w - r) + i] = data[i]
    <3>1. CASE i <= k
      <4>1. /\ (w - r) + i \in 1 .. Len(b) - r /\ r + ((w - r) + i) = w + i
            /\ w + i \in 1 .. Len(b) /\ w + i \in w + 1 .. w + k /\ (w + i) - w = i
            /\ readerIndex_' + (w - r) + i = readerIndex_' + ((w - r) + i) /\ i \in 1 .. k
        BY <1>2, <1>k, <2>6, <3>1, SMTT(30)
      <4>2. buffer_'[readerIndex_' + ((w - r) + i)] = c[w + i]  BY <2>6, <4>1
      <4>3. c[w + i] = p[i]  BY <2>2, <2>4, <4>1
      <4> QED  BY <2>2, <4>1, <4>2, <4>3
    <3>2. CASE i > k
      <4>1. /\ i - k \in 1 .. Len(q) /\ k + (i - k) = i
            /\ readerIndex_' + (Len(b) - r) + (i - k) = readerIndex_' + (w - r) + i
        <5>1. PICK d, l, m : d = Len(data) /\ l = Len(b) /\ m = readerIndex_'  OBVIOUS
        <5>2. /\ d \in Nat /\ l \in Nat /\ m \in Nat /\ r \in Nat /\ w \in Nat
              /\ i \in 1 .. d /\ Len(q) = d - k /\ k = l - w
          BY <1>2, <1>k, <2>2, <2>6, <5>1
        <5> HIDE <1>1, <1>k, <2>1, <2>3
        <5>3. /\ i - k \in 1 .. Len(q) /\ k + (i - k) = i
              /\ m + (l - r) + (i - k) = m + (w - r) + i
          BY <3>2, <5>2
        <5> QED  BY <5>1, <5>3
      <4>2. buffer_'[readerIndex_' + (Len(b) - r) + (i - k)] = q[i - k]  BY <2>6, <4>1
      <4> QED  BY <2>2, <4>1, <4>2
    <3> QED  BY <1>2, <3>1, <3>2
  <2>9. writerIndex_' = readerIndex_' + (w - r) + Len(data)  BY <1>2, <1>k, <2>2, <2>6
  <2>10. Len(buffer_') <= Len(b) \/ Len(buffer_') <= 2 * ((w - r) + Len(data))
    BY <1>2, <1>k, <2>2, <2>4, <2>6
  <2> QED  BY <1>1, <2>6, <2>7, <2>8, <2>9, <2>10 DEF Puts, ReadableBytes
<1> QED  BY <1>2, <1>3, <1>4

(* Both invariants are kept by putting data.                                *)
LEMMA PutsInv ==
  ASSUME BufferInv, SizeBounded, NEW data \in Seq(ByteValues), Puts(data),
         peak' = Larger(peak, ReadableBytes + Len(data))
  PROVE  BufferInv' /\ SizeBounded'
<1>1. /\ ReadableBytes \in Nat /\ Len(data) \in Nat /\ Len(buffer_) \in Nat
      /\ peak \in Nat /\ InitialSize \in Nat
  BY SizeAssumption DEF BufferInv, BufferTypeOK, IndexInv, ReadableBytes
<1>2. peak' \in Nat /\ peak' >= ReadableBytes + Len(data) /\ peak' >= peak
  BY <1>1 DEF Larger
<1>3. BufferInv'
  <2>1. writerIndex_' \in Nat  BY <1>1 DEF Puts
  <2>2. BufferTypeOK'  BY <1>2, <2>1 DEF Puts, BufferTypeOK
  <2>3. IndexInv'  BY <1>1, <1>2, <2>1 DEF Puts, IndexInv, ReadableBytes
  <2> QED  BY <2>2, <2>3 DEF BufferInv
<1>4. SizeBounded'
  <2>1. Len(buffer_') \in Nat  BY DEF Puts
  <2>2. Len(buffer_) <= InitialSize \/ Len(buffer_) <= 2 * peak
    BY <1>1 DEF SizeBounded, Larger
  <2>3. Len(buffer_') <= InitialSize \/ Len(buffer_') <= 2 * peak'
    <3>1. CASE Len(buffer_') <= Len(buffer_)  BY <1>1, <1>2, <2>1, <2>2, <3>1
    <3>2. CASE Len(buffer_') <= 2 * (ReadableBytes + Len(data))  BY <1>1, <1>2, <2>1, <3>2
    <3> QED  BY <3>1, <3>2 DEF Puts
  <2> QED  BY <1>1, <1>2, <2>1, <2>3 DEF SizeBounded, Larger
<1> QED  BY <1>3, <1>4

(* BufferInv and SizeBounded are inductive together.                              *)
LEMMA BufferInvStep ==
  ASSUME BufferInv, SizeBounded, [BufferNext]_bufferVars
  PROVE  BufferInv' /\ SizeBounded'
<1>1. ASSUME NEW c \in Chunks, AppendData(c) \/ ReadFd(c)  PROVE BufferInv' /\ SizeBounded'
  <2>1. c \in Seq(ByteValues)  BY ChunkAssumption
  <2>2. Puts(c) /\ peak' = Larger(peak, ReadableBytes + Len(c))
    BY <1>1, <2>1, AppendDataPuts, ReadFdPuts DEF AppendData, ReadFd
  <2> QED  BY <2>1, <2>2, PutsInv
<1>2. ASSUME NEW len \in 0 .. MaxReadable + 1, Retrieve(len)  PROVE BufferInv' /\ SizeBounded'
  BY <1>2, SizeAssumption
  DEF Retrieve, BufferInv, BufferTypeOK, IndexInv, SizeBounded, ReadableBytes
<1>3. CASE UNCHANGED bufferVars
  BY <1>3 DEF bufferVars, BufferInv, BufferTypeOK, IndexInv, SizeBounded, ReadableBytes
<1> QED  BY <1>1, <1>2, <1>3 DEF BufferNext, RetrieveTooMuch

(* A new buffer satisfies both.                                             *)
LEMMA BufferInitInv == ASSUME BufferInit PROVE BufferInv /\ SizeBounded
<1>1. buffer_ \in Seq(ByteValues) /\ Len(buffer_) = InitialSize
  BY ZeroAssumption, SizeAssumption DEF BufferInit, Zeros
<1> QED
  BY <1>1, SizeAssumption
  DEF BufferInit, BufferInv, BufferTypeOK, IndexInv, SizeBounded, Larger, ReadableBytes

(* The indices never leave the vector.                                      *)
THEOREM BufferInvariance == BufferSpec => []BufferInv
<1>1. BufferInit => BufferInv /\ SizeBounded  BY BufferInitInv
<1>2. BufferInv /\ SizeBounded /\ [BufferNext]_bufferVars => BufferInv' /\ SizeBounded'
  BY BufferInvStep
<1> QED  BY <1>1, <1>2, PTL DEF BufferSpec

(* The vector never grows beyond twice what was readable at once.           *)
THEOREM SizeStaysBounded == BufferSpec => []SizeBounded
<1>1. BufferInit => BufferInv /\ SizeBounded  BY BufferInitInv
<1>2. BufferInv /\ SizeBounded /\ [BufferNext]_bufferVars => BufferInv' /\ SizeBounded'
  BY BufferInvStep
<1> QED  BY <1>1, <1>2, PTL DEF BufferSpec

(* Sequences of one length with the same elements are the same.              *)
LEMMA SameElements ==
  ASSUME NEW s \in Seq(ByteValues), NEW t \in Seq(ByteValues), Len(s) = Len(t),
         \A i \in 1 .. Len(s) : s[i] = t[i]
  PROVE  s = t
BY SeqEqual

(* The readable bytes one by one.                                            *)
LEMMA ReadableFacts ==
  ASSUME NEW b \in Seq(ByteValues), NEW r \in Nat, NEW w \in Nat, r <= w, w <= Len(b)
  PROVE  /\ SubSeq(b, r + 1, w) \in Seq(ByteValues) /\ Len(SubSeq(b, r + 1, w)) = w - r
         /\ \A i \in 1 .. w - r : SubSeq(b, r + 1, w)[i] = b[r + i]
<1>1. Len(b) \in Nat  OBVIOUS
<1> QED  BY <1>1

(* Putting data appends it to the readable bytes.                            *)
LEMMA PutsReadable ==
  ASSUME BufferInv, NEW data \in Seq(ByteValues), Puts(data)
  PROVE  Readable' = Readable \o data
<1>1. PICK b, r, w, bb, rr, ww :
         /\ b = buffer_ /\ r = readerIndex_ /\ w = writerIndex_
         /\ bb = buffer_' /\ rr = readerIndex_' /\ ww = writerIndex_'
  OBVIOUS
<1>2. /\ b \in Seq(ByteValues) /\ r \in Nat /\ w \in Nat /\ r <= w /\ w <= Len(b)
      /\ bb \in Seq(ByteValues) /\ rr \in Nat /\ ww = rr + (w - r) + Len(data) /\ ww <= Len(bb)
      /\ \A i \in 1 .. w - r : bb[rr + i] = b[r + i]
      /\ \A i \in 1 .. Len(data) : bb[rr + (w - r) + i] = data[i]
  BY <1>1 DEF Puts, ReadableBytes, BufferInv, BufferTypeOK, IndexInv
<1>3. PICK s, t : s = SubSeq(b, r + 1, w) /\ t = SubSeq(bb, rr + 1, ww)  OBVIOUS
<1>4. Readable = s /\ Readable' = t  BY <1>1, <1>3 DEF Readable
<1> HIDE <1>1
<1>5. /\ s \in Seq(ByteValues) /\ Len(s) = w - r /\ \A i \in 1 .. w - r : s[i] = b[r + i]
  BY <1>2, <1>3, ReadableFacts
<1>6. ww \in Nat /\ rr <= ww /\ Len(data) \in Nat /\ ww - rr = (w - r) + Len(data)
  BY <1>2
<1>7. /\ t \in Seq(ByteValues) /\ Len(t) = ww - rr /\ \A i \in 1 .. ww - rr : t[i] = bb[rr + i]
  <2>1. PICK e \in Nat : e = ww  BY <1>6
  <2>2. /\ bb \in Seq(ByteValues) /\ rr \in Nat /\ rr <= e /\ e <= Len(bb)
        /\ t = SubSeq(bb, rr + 1, e)
    BY <1>2, <1>3, <1>6, <2>1
  <2>3. /\ t \in Seq(ByteValues) /\ Len(t) = e - rr
        /\ \A i \in 1 .. e - rr : t[i] = bb[rr + i]
    <3> HIDE <1>2, <1>3, <1>6, <2>1
    <3> QED  BY <2>2, ReadableFacts
  <2> QED  BY <2>1, <2>3
<1> HIDE <1>3
<1>8. /\ s \o data \in Seq(ByteValues) /\ Len(s \o data) = Len(s) + Len(data)
      /\ \A i \in 1 .. Len(s) : (s \o data)[i] = s[i]
      /\ \A i \in Len(s) + 1 .. Len(s) + Len(data) : (s \o data)[i] = data[i - Len(s)]
  <2>1. s \in Seq(ByteValues) /\ data \in Seq(ByteValues)  BY <1>5
  <2> QED  BY <2>1, ConcatProperties
<1>9. ASSUME NEW i \in 1 .. Len(t)  PROVE t[i] = (s \o data)[i]
  <2>0. t[i] = bb[rr + i]  BY <1>7
  <2>1. CASE i <= w - r
    <3>1. i \in 1 .. w - r  BY <1>2, <1>7, <2>1
    <3> QED  BY <1>2, <1>5, <1>8, <2>0, <3>1
  <2>2. CASE i > w - r
    <3>1. PICK j \in Int : j = i - (w - r)  BY <1>2
    <3>2. j \in 1 .. Len(data)  BY <1>2, <1>6, <1>7, <2>2, <3>1
    <3>3. rr + i = rr + (w - r) + j  BY <1>2, <3>1
    <3>4. i \in Len(s) + 1 .. Len(s) + Len(data) /\ i - Len(s) = j
      BY <1>2, <1>5, <1>6, <1>7, <2>2, <3>1
    <3> QED  BY <1>2, <1>8, <2>0, <3>2, <3>3, <3>4
  <2>3. i \in Int /\ w - r \in Int  BY <1>2, <1>7
  <2>4. i <= w - r \/ i > w - r  BY <2>3
  <2> QED  BY <2>1, <2>2, <2>4
<1>10. Len(t) = Len(s \o data)  BY <1>5, <1>6, <1>7, <1>8
<1>11. t = s \o data
  <2>1. PICK u : u = s \o data  OBVIOUS
  <2>2. u \in Seq(ByteValues) /\ Len(t) = Len(u) /\ \A i \in 1 .. Len(t) : t[i] = u[i]
    BY <1>8, <1>9, <1>10, <2>1
  <2>3. t = u
    <3> HIDE <2>1
    <3> QED  BY <1>7, <2>2, SameElements
  <2> QED  BY <2>1, <2>3
<1> QED  BY <1>4, <1>11

(* retrieve takes the oldest bytes.                                          *)
LEMMA RetrieveReadable ==
  ASSUME BufferInv, NEW len \in Nat, Retrieve(len)
  PROVE  len <= Len(Readable) /\ Readable' = SubSeq(Readable, len + 1, Len(Readable))
<1>1. PICK b, r, w, s, t :
         /\ b = buffer_ /\ r = readerIndex_ /\ w = writerIndex_
         /\ s = Readable /\ t = Readable'
  OBVIOUS
<1>2. /\ b \in Seq(ByteValues) /\ r \in Nat /\ w \in Nat /\ r <= w /\ w <= Len(b)
      /\ len <= w - r /\ s = SubSeq(b, r + 1, w)
  BY <1>1 DEF BufferInv, BufferTypeOK, IndexInv, Retrieve, ReadableBytes, Readable
<1>3. IF len < w - r THEN t = SubSeq(b, (r + len) + 1, w) ELSE t = SubSeq(b, 1, 0)
  <2>1. t = SubSeq(b, readerIndex_' + 1, writerIndex_')  BY <1>1 DEF Retrieve, Readable
  <2>2. IF len < w - r THEN readerIndex_' = r + len /\ writerIndex_' = w
                       ELSE readerIndex_' = 0 /\ writerIndex_' = 0
    BY <1>1 DEF Retrieve, ReadableBytes
  <2>3. CASE len < w - r  BY <2>1, <2>2, <2>3
  <2>4. CASE ~(len < w - r)
    <3>1. readerIndex_' = 0 /\ writerIndex_' = 0  BY <2>2, <2>4
    <3>2. readerIndex_' + 1 = 1  BY <3>1
    <3> QED  BY <2>1, <2>4, <3>1, <3>2
  <2> QED  BY <2>3, <2>4
<1> HIDE <1>1
<1>4. s \in Seq(ByteValues) /\ Len(s) = w - r /\ \A i \in 1 .. w - r : s[i] = b[r + i]
  BY <1>2, ReadableFacts
<1>5. PICK u : u = SubSeq(s, len + 1, Len(s))  OBVIOUS
<1>6. /\ u \in Seq(ByteValues) /\ Len(u) = Len(s) - len
      /\ \A i \in 1 .. Len(s) - len : u[i] = s[len + i]
  <2> HIDE <1>2
  <2>1. len <= Len(s) /\ Len(s) \in Nat  BY <1>2, <1>4
  <2>2. PICK e \in Nat : e = Len(s)  BY <2>1
  <2>3. e <= Len(s) /\ len <= e /\ u = SubSeq(s, len + 1, e)  BY <1>5, <2>1, <2>2
  <2>4. u \in Seq(ByteValues) /\ Len(u) = e - len /\ \A i \in 1 .. e - len : u[i] = s[len + i]
    BY <1>4, <2>3, ReadableFacts
  <2> QED  BY <2>2, <2>4
<1>7. ASSUME len < w - r  PROVE t = u
  <2>1. PICK m \in Nat : m = r + len  BY <1>2
  <2>2. m <= w /\ t = SubSeq(b, m + 1, w)  BY <1>2, <1>3, <1>7, <2>1
  <2>3. t \in Seq(ByteValues) /\ Len(t) = w - m /\ \A i \in 1 .. w - m : t[i] = b[m + i]
    BY <1>2, <2>2, ReadableFacts
  <2>4. Len(t) = Len(u)  BY <1>2, <1>4, <1>6, <2>1, <2>3
  <2>5. ASSUME NEW i \in 1 .. Len(t)  PROVE t[i] = u[i]
    <3>1. /\ i \in 1 .. w - m /\ i \in 1 .. Len(s) - len /\ len + i \in 1 .. w - r
          /\ r + (len + i) = m + i
      BY <1>2, <1>4, <2>1, <2>3
    <3> QED  BY <1>4, <1>6, <2>3, <3>1
  <2> QED  BY <1>6, <2>3, <2>4, <2>5, SameElements
<1>8. ASSUME ~(len < w - r)  PROVE t = u
  <2>1. t \in Seq(ByteValues) /\ Len(t) = 0  BY <1>2, <1>3, <1>8
  <2>2. Len(u) = 0  BY <1>2, <1>4, <1>6, <1>8
  <2> QED  BY <1>6, <2>1, <2>2, SameElements
<1>9. t = u  BY <1>7, <1>8
<1> QED  BY <1>1, <1>2, <1>4, <1>5, <1>9

(* Whatever append, readFd and retrieve do to the vector and the indices,    *)
(* the readable bytes behave as a ByteQueue.                                 *)
THEOREM BufferRefinement == BufferSpec => IsByteQueue
<1>1. BufferInit => Queue!Init
  <2> SUFFICES ASSUME BufferInit PROVE Readable = <<>>  BY DEF Queue!Init
  <2>1. PICK b : b = buffer_  OBVIOUS
  <2>2. b \in Seq(ByteValues)  BY <2>1, BufferInitInv DEF BufferInv, BufferTypeOK
  <2>3. Readable = SubSeq(b, 1, 0)  BY <2>1 DEF BufferInit, Readable
  <2> QED  BY <2>2, <2>3
<1>2. ASSUME BufferInv, [BufferNext]_bufferVars  PROVE [Queue!Next]_Readable
  <2>1. ASSUME NEW c \in Chunks, AppendData(c) \/ ReadFd(c)  PROVE Queue!Next
    <3>1. c \in Seq(ByteValues)  BY ChunkAssumption
    <3>2. Puts(c)  BY <1>2, <2>1, <3>1, AppendDataPuts, ReadFdPuts
    <3>3. Readable' = Readable \o c  BY <1>2, <3>1, <3>2, PutsReadable
    <3> QED  BY <3>3 DEF Queue!Next, Queue!Put
  <2>2. ASSUME NEW len \in 0 .. MaxReadable + 1, Retrieve(len)  PROVE Queue!Next
    <3>1. len \in Nat  BY SizeAssumption
    <3>2. len <= Len(Readable) /\ Readable' = SubSeq(Readable, len + 1, Len(Readable))
      BY <1>2, <2>2, <3>1, RetrieveReadable
    <3>3. Len(Readable) \in Nat  BY <1>2 DEF BufferInv, BufferTypeOK, IndexInv, Readable
    <3>4. len \in 0 .. Len(Readable)  BY <3>1, <3>2, <3>3
    <3> QED  BY <3>2, <3>4 DEF Queue!Next, Queue!Get
  <2>3. CASE UNCHANGED bufferVars  BY <2>3 DEF bufferVars, Readable
  <2> QED  BY <1>2, <2>1, <2>2, <2>3 DEF BufferNext, RetrieveTooMuch
<1> QED  BY <1>1, <1>2, BufferInvariance, PTL DEF BufferSpec, IsByteQueue, Queue!Spec
=============================================================================
