--------------------------- MODULE TcpServerProofs ---------------------------
(***************************************************************************)
(* Proofs about TcpServer for any pool and any number of clients: what the *)
(* user hears of a connection, who owns it, and that the pool hands its    *)
(* loops out in turn.  The argument is about Work(l), everything loop l    *)
(* has still to run: the batch it swapped out and the functors queued      *)
(* behind it.                                                              *)
(***************************************************************************)
EXTENDS TcpServer, FiniteSetTheorems, TLAPS

Work(l) == batch[l] \o queue[l]

Has(q, f, c) == \E i \in DOMAIN q : q[i].f = f /\ q[i].arg = c

\* No functor for a connection is in front of its connectEstablished.
EstablishedFirst(q) ==
  \A i, j \in DOMAIN q :
    i < j /\ q[j].f = "connectEstablished" /\ q[i].arg = q[j].arg => q[i].f = "removeConnection"

Ends == {"connectEstablished", "connectDestroyed"}

\* The close of a connection has one lambda.
Once(q) ==
  \A i, j \in DOMAIN q :
    q[i].f = "removeConnection" /\ q[j].f = "removeConnection" /\ q[i].arg = q[j].arg => i = j

\* One more functor at the end, or the first one taken.
LEMMA HasAppend ==
  ASSUME NEW q \in Seq(Functors), NEW e \in Functors
  PROVE  /\ Append(q, e) \in Seq(Functors)
         /\ \A f, c : Has(Append(q, e), f, c) <=> Has(q, f, c) \/ (e.f = f /\ e.arg = c)
<1>1. DOMAIN Append(q, e) = 1..(Len(q) + 1) /\ Len(q) \in Nat /\ DOMAIN q = 1..Len(q)  OBVIOUS
<1>2. Append(q, e)[Len(q) + 1] = e /\ \A i \in DOMAIN q : Append(q, e)[i] = q[i]  OBVIOUS
<1>3. \A i \in DOMAIN Append(q, e) : i \in DOMAIN q \/ i = Len(q) + 1  BY <1>1
<1>4. DOMAIN q \subseteq DOMAIN Append(q, e) /\ Len(q) + 1 \in DOMAIN Append(q, e)  BY <1>1
<1>5. \A f, c : Has(Append(q, e), f, c) <=> Has(q, f, c) \/ (e.f = f /\ e.arg = c)
  BY <1>2, <1>3, <1>4 DEF Has
<1> QED  BY <1>5

LEMMA FirstAppend ==
  ASSUME NEW q \in Seq(Functors), NEW e \in Functors, EstablishedFirst(q),
         e.f = "connectEstablished" => \A f \in Ends : ~Has(q, f, e.arg)
  PROVE  EstablishedFirst(Append(q, e))
<1>1. DOMAIN Append(q, e) = 1..(Len(q) + 1) /\ Len(q) \in Nat /\ DOMAIN q = 1..Len(q)  OBVIOUS
<1>2. Append(q, e)[Len(q) + 1] = e /\ \A i \in DOMAIN q : Append(q, e)[i] = q[i]  OBVIOUS
<1> SUFFICES ASSUME NEW i \in DOMAIN Append(q, e), NEW j \in DOMAIN Append(q, e), i < j,
                    Append(q, e)[j].f = "connectEstablished",
                    Append(q, e)[i].arg = Append(q, e)[j].arg
             PROVE  Append(q, e)[i].f = "removeConnection"
  BY DEF EstablishedFirst
<1>3. i \in DOMAIN q  BY <1>1
<1>4. CASE j \in DOMAIN q  BY <1>2, <1>3, <1>4 DEF EstablishedFirst
<1>5. CASE j = Len(q) + 1
  <2>1. \A f \in Ends : ~Has(q, f, q[i].arg)  BY <1>2, <1>3, <1>5
  <2>2. q[i].f \notin Ends  BY <1>3, <2>1 DEF Has
  <2>3. q[i] \in Functors  BY <1>3
  <2> QED  BY <1>2, <1>3, <2>2, <2>3 DEF Functors, Ends
<1> QED  BY <1>1, <1>4, <1>5

LEMMA OnceAppend ==
  ASSUME NEW q \in Seq(Functors), NEW e \in Functors, Once(q),
         e.f = "removeConnection" => ~Has(q, "removeConnection", e.arg)
  PROVE  Once(Append(q, e))
<1>1. DOMAIN Append(q, e) = 1..(Len(q) + 1) /\ Len(q) \in Nat /\ DOMAIN q = 1..Len(q)  OBVIOUS
<1>2. Append(q, e)[Len(q) + 1] = e /\ \A i \in DOMAIN q : Append(q, e)[i] = q[i]  OBVIOUS
<1>3. \A i \in DOMAIN Append(q, e) : i \in DOMAIN q \/ i = Len(q) + 1  BY <1>1
<1> QED  BY <1>2, <1>3 DEF Once, Has

LEMMA TailFacts ==
  ASSUME NEW q \in Seq(Functors), q # <<>>
  PROVE  /\ Tail(q) \in Seq(Functors) /\ Head(q) \in Functors
         /\ DOMAIN Tail(q) = 1..(Len(q) - 1) /\ Len(q) \in Nat \ {0} /\ DOMAIN q = 1..Len(q)
         /\ Head(q) = q[1] /\ \A i \in DOMAIN Tail(q) : i + 1 \in DOMAIN q /\ Tail(q)[i] = q[i + 1]
<1>1. Len(q) \in Nat /\ Len(q) # 0 /\ DOMAIN q = 1..Len(q)  OBVIOUS
<1>2. Tail(q) \in Seq(Functors) /\ Len(Tail(q)) = Len(q) - 1 /\ Head(q) = q[1]  OBVIOUS
<1>3. DOMAIN Tail(q) = 1..(Len(q) - 1)  BY <1>1, <1>2
<1>4. Head(q) \in Functors  BY <1>1, <1>2
<1>5. \A i \in DOMAIN Tail(q) : i + 1 \in DOMAIN q /\ Tail(q)[i] = q[i + 1]  BY <1>1, <1>3
<1> QED  BY <1>1, <1>2, <1>3, <1>4, <1>5

LEMMA HasTail ==
  ASSUME NEW q \in Seq(Functors), q # <<>>
  PROVE  /\ \A f, c : Has(Tail(q), f, c) => Has(q, f, c)
         /\ \A f, c : Has(q, f, c) => Has(Tail(q), f, c) \/ (Head(q).f = f /\ Head(q).arg = c)
         /\ Has(q, Head(q).f, Head(q).arg)
<1> USE TailFacts
<1>1. \A f, c : Has(Tail(q), f, c) => Has(q, f, c)  BY DEF Has
<1>2. ASSUME NEW f, NEW c, Has(q, f, c)
      PROVE  Has(Tail(q), f, c) \/ (Head(q).f = f /\ Head(q).arg = c)
  <2>1. PICK i \in DOMAIN q : q[i].f = f /\ q[i].arg = c  BY <1>2 DEF Has
  <2>2. CASE i = 1  BY <2>1, <2>2
  <2>3. CASE i # 1
    <3>1. i - 1 \in DOMAIN Tail(q) /\ (i - 1) + 1 = i  BY <2>3
    <3>2. Tail(q)[i - 1] = q[i]  BY <3>1
    <3> QED  BY <2>1, <3>1, <3>2 DEF Has
  <2> QED  BY <2>2, <2>3
<1>3. 1 \in DOMAIN q  OBVIOUS
<1> QED  BY <1>1, <1>2, <1>3 DEF Has

LEMMA FirstTail ==
  ASSUME NEW q \in Seq(Functors), q # <<>>, EstablishedFirst(q)
  PROVE  /\ EstablishedFirst(Tail(q))
         /\ Head(q).f \in Ends => ~Has(Tail(q), "connectEstablished", Head(q).arg)
<1> USE TailFacts
<1>1. EstablishedFirst(Tail(q))
  <2> SUFFICES ASSUME NEW i \in DOMAIN Tail(q), NEW j \in DOMAIN Tail(q), i < j,
                      Tail(q)[j].f = "connectEstablished", Tail(q)[i].arg = Tail(q)[j].arg
               PROVE  Tail(q)[i].f = "removeConnection"
    BY DEF EstablishedFirst
  <2>1. i + 1 \in DOMAIN q /\ j + 1 \in DOMAIN q /\ i + 1 < j + 1  OBVIOUS
  <2> QED  BY <2>1 DEF EstablishedFirst
<1>2. ASSUME Head(q).f \in Ends, Has(Tail(q), "connectEstablished", Head(q).arg) PROVE FALSE
  <2>1. PICK i \in DOMAIN Tail(q) : /\ Tail(q)[i].f = "connectEstablished"
                                    /\ Tail(q)[i].arg = Head(q).arg
    BY <1>2 DEF Has
  <2>2. 1 \in DOMAIN q /\ i + 1 \in DOMAIN q /\ 1 < i + 1  BY <2>1
  <2>3. q[1].f = "removeConnection"  BY <2>1, <2>2 DEF EstablishedFirst
  <2> QED  BY <1>2, <2>3 DEF Ends
<1> QED  BY <1>1, <1>2

LEMMA OnceTail ==
  ASSUME NEW q \in Seq(Functors), q # <<>>, Once(q)
  PROVE  /\ Once(Tail(q))
         /\ Head(q).f = "removeConnection" => ~Has(Tail(q), "removeConnection", Head(q).arg)
<1> USE TailFacts
<1>1. Once(Tail(q))
  <2> SUFFICES ASSUME NEW i \in DOMAIN Tail(q), NEW j \in DOMAIN Tail(q),
                      Tail(q)[i].f = "removeConnection", Tail(q)[j].f = "removeConnection",
                      Tail(q)[i].arg = Tail(q)[j].arg
               PROVE  i = j
    BY DEF Once
  <2>1. i + 1 = j + 1  BY DEF Once
  <2> QED  BY <2>1
<1>2. ASSUME Head(q).f = "removeConnection", NEW i \in DOMAIN Tail(q),
             Tail(q)[i].f = "removeConnection", Tail(q)[i].arg = Head(q).arg
      PROVE  FALSE
  <2>1. 1 \in DOMAIN q /\ i + 1 \in DOMAIN q /\ 1 # i + 1  OBVIOUS
  <2> QED  BY <1>2, <2>1 DEF Once
<1> QED  BY <1>1, <1>2 DEF Has

\* A batch and the queue behind it are one list.
LEMMA ConcatFacts ==
  ASSUME NEW b \in Seq(Functors), NEW q \in Seq(Functors)
  PROVE  /\ b \o q \in Seq(Functors) /\ <<>> \o q = q /\ q \o <<>> = q
         /\ \A e \in Functors : b \o Append(q, e) = Append(b \o q, e)
         /\ b # <<>> => /\ Tail(b) \o q = Tail(b \o q) /\ Head(b \o q) = Head(b)
                        /\ b \o q # <<>>
<1>1. b \o q \in Seq(Functors) /\ <<>> \o q = q /\ q \o <<>> = q  OBVIOUS
<1>2. ASSUME NEW e \in Functors PROVE b \o Append(q, e) = Append(b \o q, e)
  OBVIOUS
<1>3. ASSUME b # <<>>
      PROVE  Tail(b) \o q = Tail(b \o q) /\ Head(b \o q) = Head(b) /\ b \o q # <<>>
  BY <1>3
<1> QED  BY <1>1, <1>2, <1>3

LEMMA LoopFacts ==
  /\ MaxThreads \in Nat /\ MaxConns \in Nat /\ Main \in Loops
  /\ \A i : i \in Subs <=> i \in Loops /\ i # Main
  /\ \A c \in Conns : c \in Nat /\ c # NoConn
BY BoundsAssumption DEF Main, Loops, Subs, Conns, NoConn

\* The loop a connection is given, and the loop after it.
LEMMA NextLoopFacts ==
  ASSUME TypeOK
  PROVE  /\ loops = <<>> => NextLoop = Main /\ AdvanceNext = next
         /\ loops # <<>> => /\ next \in DOMAIN loops /\ NextLoop = loops[next] /\ NextLoop \in Subs
                            /\ AdvanceNext = IF next = Len(loops) THEN 1 ELSE next + 1
         /\ NextLoop \in Loops /\ AdvanceNext \in DOMAIN loops \cup {1}
<1>1. loops \in Seq(Subs) /\ next \in DOMAIN loops \cup {1}  BY DEF TypeOK
<1>2. Len(loops) \in Nat /\ DOMAIN loops = 1..Len(loops)  BY <1>1
<1>3. CASE loops = <<>>  BY <1>1, <1>3, LoopFacts DEF NextLoop, AdvanceNext
<1>4. CASE loops # <<>>
  <2>1. Len(loops) >= 1  BY <1>1, <1>2, <1>4
  <2>2. next \in 1..Len(loops)  BY <1>1, <1>2, <2>1
  <2>3. NextLoop = loops[next] /\ loops[next] \in Subs  BY <1>1, <1>2, <1>4, <2>2 DEF NextLoop
  <2>4. AdvanceNext = IF next = Len(loops) THEN 1 ELSE next + 1
    <3>1. Len(loops) \in Int /\ next \in Int /\ next <= Len(loops)  BY <1>2, <2>2
    <3>2. next >= Len(loops) <=> next = Len(loops)  BY ONLY <3>1
    <3> QED  BY <1>4, <3>2 DEF AdvanceNext
  <2>5. AdvanceNext \in DOMAIN loops \cup {1}
    <3>1. CASE next = Len(loops)  BY <2>4, <3>1
    <3>2. CASE next # Len(loops)
      <4>1. Len(loops) \in Int /\ next \in Int /\ 1 <= next /\ next <= Len(loops)
        BY <1>2, <2>2
      <4>2. next + 1 <= Len(loops)  BY <3>2, <4>1
      <4>3. AdvanceNext = next + 1  BY <2>4, <3>2
      <4>4. next + 1 \in DOMAIN loops  BY <1>2, <4>1, <4>2
      <4> QED  BY <4>3, <4>4
    <3> QED  BY <3>1, <3>2
  <2>6. NextLoop \in Subs /\ NextLoop \in Loops  BY <2>3, LoopFacts
  <2>7. next \in DOMAIN loops  BY <1>2, <2>2
  <2> QED  BY <1>4, <2>3, <2>4, <2>5, <2>6, <2>7
<1> QED  BY <1>3, <1>4

LEMMA FunctorFacts ==
  /\ \A c \in Conns, f \in Ends : Functor(f, c) \in Functors
  /\ \A c \in Conns : Functor("removeConnection", c) \in Functors
  /\ \A f, a : Functor(f, a).f = f /\ Functor(f, a).arg = a
  /\ \A e \in Functors : e.arg \in Conns /\ (e.f \in Ends \/ e.f = "removeConnection")
BY DEF Functor, Functors, Ends

LEMMA QueuedType ==
  ASSUME TypeOK, NEW l \in Loops, NEW e \in Functors, Queued(l, e)
  PROVE  queue' \in [Loops -> Seq(Functors)]
BY DEF TypeOK, Queued

\* A loop that takes a connection out of connections_.
LEMMA RemoveType ==
  ASSUME TypeOK, NEW c \in Conns, RemoveConnectionInLoop(c)
  PROVE  queue' \in [Loops -> Seq(Functors)] /\ connections' \subseteq 1..(nextConnId - 1)
<1>1. ioLoop[c] \in Loops /\ Functor("connectDestroyed", c) \in Functors
  BY FunctorFacts DEF TypeOK, Ends
<1>2. queue' \in [Loops -> Seq(Functors)]  BY <1>1, QueuedType DEF RemoveConnectionInLoop
<1> QED  BY <1>2 DEF RemoveConnectionInLoop, TypeOK

LEMMA ReportType ==
  ASSUME TypeOK, NEW c \in Conns, ConnectEstablished(c) \/ ConnectDestroyed(c)
  PROVE  /\ state' \in [Conns -> {"none", "connecting", "connected", "disconnected"}]
         /\ registered' \in [Conns -> BOOLEAN] /\ ups' \in [Conns -> Nat]
         /\ downs' \in [Conns -> Nat] /\ UNCHANGED <<ioLoop, took>>
<1>1. \/ /\ state' = [state EXCEPT ![c] = "connected"] /\ ups' = [ups EXCEPT ![c] = @ + 1]
         /\ registered' = [registered EXCEPT ![c] = TRUE] /\ downs' = downs
      \/ /\ state' = [state EXCEPT ![c] = "disconnected"] /\ ups' = ups
         /\ registered' = [registered EXCEPT ![c] = FALSE]
         /\ downs' = [downs EXCEPT ![c] = IF state[c] = "connected" THEN @ + 1 ELSE @]
  BY DEF ConnectEstablished, ConnectDestroyed
<1>2. state' \in [Conns -> {"none", "connecting", "connected", "disconnected"}]  BY <1>1 DEF TypeOK
<1>3. registered' \in [Conns -> BOOLEAN] /\ ups' \in [Conns -> Nat]
  <2>1. ups \in [Conns -> Nat] /\ ups[c] + 1 \in Nat  BY DEF TypeOK
  <2>2. ups' \in [Conns -> Nat]  BY <1>1, <2>1
  <2> QED  BY <1>1, <2>2 DEF TypeOK
<1>4. downs' \in [Conns -> Nat]
  <2>1. downs \in [Conns -> Nat] /\ downs[c] + 1 \in Nat  BY DEF TypeOK
  <2>2. downs' = downs \/ downs' = [downs EXCEPT ![c] = downs[c] + 1]
                      \/ downs' = [downs EXCEPT ![c] = downs[c]]
    BY <1>1
  <2> QED  BY <2>1, <2>2
<1> QED  BY <1>2, <1>3, <1>4 DEF ConnectEstablished, ConnectDestroyed

\* Whom a lambda can remove: somebody holds the connection, so it is one.
LEMMA AliveIsConn ==
  ASSUME TypeOK, NEW c, Alive(c)
  PROVE  c \in Conns
<1>1. CASE c \in connections
  <2>1. connections \subseteq 1..(nextConnId - 1) /\ nextConnId \in 1..(MaxConns + 1)  BY DEF TypeOK
  <2> QED  BY <1>1, <2>1, LoopFacts DEF Conns
<1>2. ASSUME NEW l \in Loops, NEW i \in DOMAIN Work(l),
             Work(l)[i].f # "removeConnection", Work(l)[i].arg = c
      PROVE  c \in Conns
  <2>1. Work(l) \in Seq(Functors)  BY ConcatFacts DEF Work, TypeOK
  <2>2. Work(l)[i] \in Functors  BY <2>1
  <2> QED  BY <1>2, <2>2, FunctorFacts
<1> QED  BY <1>1, <1>2 DEF Alive, Work
-----------------------------------------------------------------------------
Phases == {"idle", "starting", "constructing", "ready", "testing", "events", "functors", "exited"}

\* The state keeps its type, action by action.
LEMMA TypeStep == TypeOK /\ [Next]_vars => TypeOK'
<1> SUFFICES ASSUME TypeOK, [Next]_vars PROVE TypeOK'  OBVIOUS
<1> USE LoopFacts DEF poolVars, serverVars, loopVars, connVars
<1>g. \A l \in Loops : \A a, b : Goes(l, a, b) /\ b \in Phases =>
        phase' \in [Loops -> {"idle", "starting", "constructing", "ready", "testing",
                              "events", "functors", "exited"}]
  BY DEF TypeOK, Goes, Phases
<1>i. Len(loops) + 1 <= numThreads => Len(loops) + 1 \in Subs /\ Len(loops) + 1 \in Loops
  <2>1. Len(loops) \in Nat /\ numThreads \in 0..MaxThreads  BY DEF TypeOK
  <2> QED  BY <2>1 DEF Subs, Loops
<1>1. CASE UNCHANGED vars  BY <1>1 DEF vars, TypeOK
<1>2. ASSUME StartThread, UNCHANGED crashed PROVE TypeOK'
  <2>1. Len(loops) + 1 \in Loops  BY <1>2, <1>i DEF StartThread
  <2> QED  BY <1>2, <1>g, <2>1 DEF StartThread, Phases, TypeOK
<1>3. ASSUME NEW i \in Subs, Publish(i), UNCHANGED crashed PROVE TypeOK'
  BY <1>3, <1>g DEF Publish, Phases, TypeOK
<1>4. ASSUME LoopStarted, UNCHANGED crashed PROVE TypeOK'
  <2>1. Len(loops) + 1 \in Subs /\ Len(loops) + 1 <= numThreads
    BY <1>4, <1>i DEF LoopStarted
  <2>2. loops' = Append(loops, Len(loops) + 1)  BY <1>4 DEF LoopStarted
  <2>3. loops \in Seq(Subs)  BY DEF TypeOK
  <2>4. loops' \in Seq(Subs) /\ Len(loops') = Len(loops) + 1 /\ Len(loops) \in Nat
    BY <2>1, <2>2, <2>3
  <2>5. DOMAIN loops = 1..Len(loops) /\ DOMAIN loops' = 1..(Len(loops) + 1)  BY <2>3, <2>4
  <2>6. Len(loops') <= numThreads /\ DOMAIN loops \subseteq DOMAIN loops'
    BY <2>1, <2>4, <2>5
  <2> QED  BY <1>4, <2>4, <2>6 DEF LoopStarted, TypeOK
<1>5. ASSUME Listen, UNCHANGED crashed PROVE TypeOK'
  BY <1>5, <1>g DEF Listen, Phases, TypeOK
<1>6. ASSUME NEW l \in Loops, EnterLoop(l), UNCHANGED crashed PROVE TypeOK'
  BY <1>6, <1>g DEF EnterLoop, Phases, TypeOK
<1>7. ASSUME NEW l \in Loops, TestQuit(l), UNCHANGED crashed PROVE TypeOK'
  <2>1. queue \in [Loops -> Seq(Functors)] /\ published \in [Loops -> BOOLEAN] 
    BY DEF TypeOK
  <2>e. <<>> \in Seq(Functors)  OBVIOUS
  <2>2. queue' \in [Loops -> Seq(Functors)]  BY <1>7, <2>1, <2>e DEF TestQuit
  <2>3. published' \in [Loops -> BOOLEAN]  BY <1>7, <2>1 DEF TestQuit
  <2> QED  BY <1>7, <1>g, <2>2, <2>3 DEF TestQuit, Phases, TypeOK
<1>8. ASSUME NEW l \in Loops, SwapFunctors(l), UNCHANGED crashed PROVE TypeOK'
  <2>1. queue' \in [Loops -> Seq(Functors)] /\ batch' \in [Loops -> Seq(Functors)]
    BY <1>8 DEF SwapFunctors, TypeOK
  <2> QED  BY <1>8, <1>g, <2>1 DEF SwapFunctors, Phases, TypeOK
<1>9. ASSUME NEW l \in Loops, FunctorsDone(l), UNCHANGED crashed PROVE TypeOK'
  BY <1>9, <1>g DEF FunctorsDone, Phases, TypeOK
<1>10. ASSUME Accept, UNCHANGED crashed PROVE TypeOK'
  <2> DEFINE c == nextConnId
  <2>1. c \in Conns /\ c + 1 \in 1..(MaxConns + 1) /\ nextConnId' = c + 1
    BY <1>10 DEF Accept, TypeOK, Conns
  <2>2. NextLoop \in Loops /\ AdvanceNext \in DOMAIN loops \cup {1}  BY NextLoopFacts
  <2>3. /\ next' = AdvanceNext /\ connections' = connections \cup {c}
        /\ ioLoop' = [ioLoop EXCEPT ![c] = NextLoop]
        /\ UNCHANGED <<numThreads, loops, published, joining, listening, took, downs, loopVars>>
    BY <1>10 DEF Accept
  <2>4. /\ state' \in [Conns -> {"none", "connecting", "connected", "disconnected"}]
        /\ registered' \in [Conns -> BOOLEAN] /\ ups' \in [Conns -> Nat]
    <3>1. \/ /\ state' = [state EXCEPT ![c] = "connected"] /\ ups' = [ups EXCEPT ![c] = @ + 1]
             /\ registered' = [registered EXCEPT ![c] = TRUE]
          \/ state' = [state EXCEPT ![c] = "connecting"] /\ UNCHANGED <<registered, ups>>
      BY <1>10 DEF Accept
    <3>2. state' \in [Conns -> {"none", "connecting", "connected", "disconnected"}]
      BY <3>1 DEF TypeOK
    <3>3. registered' \in [Conns -> BOOLEAN]  BY <3>1 DEF TypeOK
    <3>4. ups' \in [Conns -> Nat]
      <4>1. ups \in [Conns -> Nat]  BY DEF TypeOK
      <4>2. ups[c] + 1 \in Nat  BY <2>1, <4>1
      <4> QED  BY <3>1, <4>1, <4>2
    <3> QED  BY <3>2, <3>3, <3>4
  <2>5. queue' \in [Loops -> Seq(Functors)]
    <3>1. Functor("connectEstablished", c) \in Functors  BY <2>1, FunctorFacts DEF Ends
    <3>2. Queued(NextLoop, Functor("connectEstablished", c)) \/ queue' = queue
      BY <1>10 DEF Accept
    <3> QED  BY <2>2, <3>1, <3>2, QueuedType DEF TypeOK
  <2>6. connections' \subseteq 1..(nextConnId' - 1)  BY <2>1, <2>3 DEF TypeOK
  <2>7. ioLoop' \in [Conns -> Loops]  BY <2>2, <2>3 DEF TypeOK
  <2> QED  BY <1>10, <2>1, <2>2, <2>3, <2>4, <2>5, <2>6, <2>7 DEF TypeOK
<1>11. ASSUME NEW c \in Conns, HandleClose(c), UNCHANGED crashed PROVE TypeOK'
  <2> DEFINE l == ioLoop[c]
  <2>1. l \in Loops  BY DEF TypeOK
  <2>2. \/ l = Main /\ RemoveConnectionInLoop(c)
        \/ l # Main /\ Queued(Main, Functor("removeConnection", c)) /\ UNCHANGED connections
    BY <1>11 DEF HandleClose
  <2>3. queue' \in [Loops -> Seq(Functors)] /\ connections' \subseteq 1..(nextConnId - 1)
    <3>1. Functor("removeConnection", c) \in Functors  BY FunctorFacts
    <3> QED  BY <2>2, <3>1, RemoveType, QueuedType DEF TypeOK
  <2>5. /\ state' \in [Conns -> {"none", "connecting", "connected", "disconnected"}]
        /\ downs' \in [Conns -> Nat] /\ UNCHANGED took
    BY <1>11 DEF HandleClose, TypeOK
  <2> QED  BY <1>11, <2>3, <2>5 DEF HandleClose, TypeOK
<1>12. ASSUME NEW l \in Loops, RunFunctor(l) PROVE TypeOK'
  <2> DEFINE f == Head(batch[l])
  <2>1. batch[l] \in Seq(Functors) /\ batch[l] # <<>>  BY <1>12 DEF RunFunctor, TypeOK
  <2>2. f \in Functors /\ Tail(batch[l]) \in Seq(Functors)  BY <2>1, TailFacts
  <2>3. batch' \in [Loops -> Seq(Functors)]  BY <1>12, <2>2 DEF RunFunctor, TypeOK
  <2>4. UNCHANGED <<poolVars, listening, nextConnId, phase, quit>>  BY <1>12 DEF RunFunctor
  <2>5. CASE f.f \in Ends /\ UNCHANGED <<connections, queue, crashed>>
             /\ (ConnectEstablished(f.arg) \/ ConnectDestroyed(f.arg))
    <3>1. f.arg \in Conns  BY <2>2, <2>5, FunctorFacts DEF Ends
    <3>2. /\ state' \in [Conns -> {"none", "connecting", "connected", "disconnected"}]
          /\ registered' \in [Conns -> BOOLEAN] /\ ups' \in [Conns -> Nat]
          /\ downs' \in [Conns -> Nat] /\ UNCHANGED <<ioLoop, took>>
      BY <2>5, <3>1, ReportType
    <3> QED  BY <2>3, <2>4, <2>5, <3>2 DEF TypeOK
  <2>6. ASSUME RunLambda(f.arg), UNCHANGED <<ioLoop, state, registered, ups, downs>> PROVE TypeOK'
    <3>1. f.arg \in Conns  BY <2>2, FunctorFacts
    <3>2. ASSUME NEW d \in Conns, RemoveConnectionInLoop(d), took' = [took EXCEPT ![f.arg] = d],
                 UNCHANGED crashed
          PROVE  TypeOK'
      <4>1. queue' \in [Loops -> Seq(Functors)] /\ connections' \subseteq 1..(nextConnId - 1)
        BY <3>2, RemoveType
      <4>2. took' \in [Conns -> Conns \cup {NoConn}]  BY <3>1, <3>2 DEF TypeOK
      <4> QED  BY <2>3, <2>4, <2>6, <3>2, <4>1, <4>2 DEF TypeOK
    <3>3. CASE crashed' = TRUE /\ UNCHANGED <<took, connections, queue>>
      BY <2>3, <2>4, <2>6, <3>3 DEF TypeOK
    <3> QED  BY <2>6, <3>2, <3>3 DEF RunLambda
  <2> QED  BY <1>12, <2>5, <2>6 DEF RunFunctor, Ends
<1>13. ASSUME NEW c \in Conns, QuitMain(c), UNCHANGED crashed PROVE TypeOK'
  BY <1>13 DEF QuitMain, TypeOK
<1>14. ASSUME NEW c \in Conns, DestroyServer(c), UNCHANGED crashed PROVE TypeOK'
  <2>1. ioLoop[c] \in Loops /\ Functor("connectDestroyed", c) \in Functors
    BY FunctorFacts DEF TypeOK, Ends
  <2>2. /\ connections' = connections \ {c}
        /\ UNCHANGED <<poolVars, listening, nextConnId, loopVars>>
        /\ \/ ConnectDestroyed(c) /\ UNCHANGED queue
           \/ Queued(ioLoop[c], Functor("connectDestroyed", c)) /\ UNCHANGED connVars
    BY <1>14 DEF DestroyServer
  <2>3. CASE ConnectDestroyed(c) /\ UNCHANGED queue
    <3>1. /\ state' \in [Conns -> {"none", "connecting", "connected", "disconnected"}]
          /\ registered' \in [Conns -> BOOLEAN] /\ downs' \in [Conns -> Nat]
          /\ UNCHANGED <<ioLoop, took, ups>>
      BY <2>3, ReportType DEF ConnectDestroyed, TypeOK
    <3> QED  BY <1>14, <2>2, <2>3, <3>1 DEF TypeOK
  <2>4. CASE Queued(ioLoop[c], Functor("connectDestroyed", c)) /\ UNCHANGED connVars
    <3>1. queue' \in [Loops -> Seq(Functors)]  BY <2>1, <2>4, QueuedType
    <3> QED  BY <1>14, <2>2, <2>4, <3>1 DEF TypeOK
  <2> QED  BY <2>2, <2>3, <2>4
<1>15. ASSUME NEW i \in Subs, QuitThread(i), UNCHANGED crashed PROVE TypeOK'
  BY <1>15 DEF QuitThread, TypeOK
<1> QED
  BY <1>1, <1>2, <1>3, <1>4, <1>5, <1>6, <1>7, <1>8, <1>9, <1>10, <1>11, <1>12, <1>13, <1>14, <1>15
  DEF Next, ServerStep, ClientStep, Step, LoopStep
-----------------------------------------------------------------------------
(***************************************************************************)
(* The inductive invariant.                                                *)
(***************************************************************************)
\* Loops are created in order; nothing is accepted before the server listens.
PoolOK == /\ \A i \in DOMAIN loops : loops[i] = i
          /\ phase[Main] = "starting" => ~listening
          /\ ~listening => nextConnId = 1
          /\ nextConnId = 1 => next = 1

\* The loops before next have one connection more than those from next on.
InTurn == \E k \in Nat : \A i \in DOMAIN loops : Load(loops[i]) = IF i < next THEN k + 1 ELSE k

BatchOK == \A l \in Loops : phase[l] # "functors" => batch[l] = <<>>

\* What loop l may have to run, of its own connections only: connectEstablished
\* is in front, is still to come for the connection, and is never a functor of
\* the main loop; connectDestroyed is of a connection that was accepted.
Good(l, q, io, st, n) ==
  /\ EstablishedFirst(q)
  /\ \A c \in Conns :
       /\ Has(q, "connectEstablished", c) => io[c] = l /\ l # Main /\ st[c] = "connecting"
       /\ Has(q, "connectDestroyed", c) => io[c] = l /\ c < n
WorkOK == \A l \in Loops : Good(l, Work(l), ioLoop, state, nextConnId)

\* What has been reported of a connection, by its state.
ReportsOK == \A c \in Conns :
  /\ c >= nextConnId => state[c] = "none"
  /\ state[c] \in {"none", "connecting"} => ups[c] = 0 /\ downs[c] = 0 /\ ~registered[c]
  /\ state[c] = "connected" => ups[c] = 1 /\ downs[c] = 0
  /\ downs[c] <= ups[c] /\ ups[c] <= 1

\* The lambda of a close is pending in the main loop at most once, and a close
\* has taken at most one connection, of its own loop of the pool.
LambdaOK ==
  /\ Once(Work(Main))
  /\ \A l \in Loops, c \in Conns :
       Has(Work(l), "removeConnection", c) =>
         l = Main /\ state[c] = "disconnected" /\ ioLoop[c] # Main /\ took[c] = NoConn
  /\ \A c \in Conns :
       took[c] # NoConn => /\ state[c] = "disconnected" /\ ioLoop[c] # Main
                           /\ took[c] < nextConnId /\ ioLoop[took[c]] = ioLoop[c]

\* Until the server goes, a connection that is up is in connections_ or taken.
Kept ==
  phase[Main] # "exited" =>
    \A c \in Conns :
      state[c] \in {"connecting", "connected"} => c \in connections \/ \E d \in Conns : took[d] = c

\* A connection in a poller, or about to enter one, is in connections_, or its
\* loop has still to run connectDestroyed for it.
Owned == \A c \in Conns :
  (registered[c] \/ state[c] = "connecting") /\ phase[ioLoop[c]] # "exited" =>
    c \in connections \/ Has(Work(ioLoop[c]), "connectDestroyed", c)

ConnInv == WorkOK /\ ReportsOK /\ LambdaOK /\ Owned /\ Kept

IInv == TypeOK /\ PoolOK /\ InTurn /\ BatchOK /\ ConnInv
-----------------------------------------------------------------------------
LEMMA GoodTail ==
  ASSUME NEW l, NEW io, NEW st, NEW n, NEW q \in Seq(Functors), q # <<>>, Good(l, q, io, st, n)
  PROVE  /\ Good(l, Tail(q), io, st, n)
         /\ Head(q).f \in Ends => ~Has(Tail(q), "connectEstablished", Head(q).arg)
BY HasTail, FirstTail DEF Good

LEMMA GoodAppend ==
  ASSUME NEW l, NEW io, NEW st, NEW n, NEW q \in Seq(Functors), NEW e \in Functors,
         Good(l, q, io, st, n), e.f # "connectEstablished",
         e.f = "connectDestroyed" => io[e.arg] = l /\ e.arg < n
  PROVE  Good(l, Append(q, e), io, st, n)
BY HasAppend, FirstAppend DEF Good

LEMMA GoodState ==
  ASSUME NEW l, NEW io, NEW st, NEW n \in Nat, NEW q, Good(l, q, io, st, n),
         NEW io2, NEW st2, NEW m \in Nat, n <= m,
         \A c \in Conns : c < n => io2[c] = io[c],
         \A c \in Conns : Has(q, "connectEstablished", c) => io2[c] = io[c] /\ st2[c] = st[c]
  PROVE  Good(l, q, io2, st2, m)
BY DEF Good, Conns

LEMMA GoodEmpty == \A l, io, st, n : Good(l, <<>>, io, st, n)
BY DEF Good, EstablishedFirst, Has

LEMMA WorkType == TypeOK => \A l \in Loops : Work(l) \in Seq(Functors)
BY ConcatFacts DEF TypeOK, Work

\* queueInLoop
LEMMA WorkQueued ==
  ASSUME TypeOK, NEW l \in Loops, NEW e \in Functors, Queued(l, e), batch' = batch
  PROVE  \A k \in Loops : Work(k)' = IF k = l THEN Append(Work(l), e) ELSE Work(k)
<1>1. queue[l] \in Seq(Functors) /\ batch[l] \in Seq(Functors)  BY DEF TypeOK
<1>2. batch[l] \o Append(queue[l], e) = Append(batch[l] \o queue[l], e)  BY <1>1, ConcatFacts
<1>3. \A k \in Loops : queue'[k] = IF k = l THEN Append(queue[l], e) ELSE queue[k]
  BY DEF TypeOK, Queued
<1> QED  BY <1>2, <1>3 DEF Work

\* doPendingFunctors takes the next functor, which may queue another.
LEMMA WorkTaken ==
  ASSUME TypeOK, NEW l \in Loops, batch[l] # <<>>, batch' = [batch EXCEPT ![l] = Tail(@)]
  PROVE  /\ Work(l) # <<>> /\ Head(Work(l)) = Head(batch[l])
         /\ queue' = queue =>
              \A k \in Loops : Work(k)' = IF k = l THEN Tail(Work(l)) ELSE Work(k)
         /\ \A m \in Loops, e \in Functors : Queued(m, e) =>
              \A k \in Loops :
                Work(k)' = IF k = m THEN Append(IF k = l THEN Tail(Work(l)) ELSE Work(k), e)
                           ELSE IF k = l THEN Tail(Work(l)) ELSE Work(k)
<1>1. \A k \in Loops : queue[k] \in Seq(Functors) /\ batch[k] \in Seq(Functors)  BY DEF TypeOK
<1>2. /\ Tail(batch[l]) \o queue[l] = Tail(Work(l)) /\ Head(Work(l)) = Head(batch[l])
      /\ Work(l) # <<>> /\ Tail(batch[l]) \in Seq(Functors)
  BY <1>1, ConcatFacts, TailFacts DEF Work
<1>3. \A k \in Loops : batch'[k] = IF k = l THEN Tail(batch[l]) ELSE batch[k]  BY DEF TypeOK
<1>4. ASSUME NEW m \in Loops, NEW e \in Functors, Queued(m, e), NEW k \in Loops
      PROVE  Work(k)' = IF k = m THEN Append(IF k = l THEN Tail(Work(l)) ELSE Work(k), e)
                        ELSE IF k = l THEN Tail(Work(l)) ELSE Work(k)
  <2> DEFINE q == IF k = l THEN Tail(Work(l)) ELSE Work(k)
  <2>1. q = batch'[k] \o queue[k]  BY <1>2, <1>3 DEF Work
  <2>2. batch'[k] \in Seq(Functors)  BY <1>1, <1>2, <1>3
  <2>3. queue'[k] = IF k = m THEN Append(queue[k], e) ELSE queue[k]  BY <1>4 DEF TypeOK, Queued
  <2>4. batch'[k] \o Append(queue[k], e) = Append(batch'[k] \o queue[k], e)
    BY <1>1, <2>2, ConcatFacts
  <2> QED  BY <2>1, <2>3, <2>4 DEF Work
<1>5. ASSUME queue' = queue, NEW k \in Loops
      PROVE  Work(k)' = IF k = l THEN Tail(Work(l)) ELSE Work(k)
  <2>1. Work(k)' = batch'[k] \o queue[k] /\ Work(k) = batch[k] \o queue[k]  BY <1>5 DEF Work
  <2>2. CASE k = l  BY <1>2, <1>3, <2>1, <2>2
  <2>3. CASE k # l  BY <1>3, <1>5, <2>1, <2>3
  <2> QED  BY <2>2, <2>3
<1> QED  BY <1>2, <1>4, <1>5
-----------------------------------------------------------------------------
\* Steps that bring no lambda and run none.
LEMMA LambdaFrame ==
  ASSUME TypeOK, ReportsOK, LambdaOK, took' = took, nextConnId' \in Nat, nextConnId <= nextConnId',
         \A d \in Conns : d < nextConnId => ioLoop'[d] = ioLoop[d],
         \A d \in Conns : state[d] = "disconnected" => state'[d] = "disconnected",
         Once(Work(Main)'),
         \A l \in Loops, d \in Conns :
           Has(Work(l)', "removeConnection", d) => Has(Work(l), "removeConnection", d)
  PROVE  LambdaOK'
<1>1. nextConnId \in Nat
  <2>1. nextConnId \in 1..(MaxConns + 1) /\ MaxConns \in Nat  BY LoopFacts DEF TypeOK
  <2> QED  BY <2>1
<1>2. \A d \in Conns : d < nextConnId \/ d >= nextConnId  BY <1>1, LoopFacts
<1>3. \A d \in Conns : state[d] = "disconnected" => d < nextConnId  BY <1>2 DEF ReportsOK
<1>4. \A l \in Loops, c \in Conns :
        Has(Work(l)', "removeConnection", c) =>
          l = Main /\ state'[c] = "disconnected" /\ ioLoop'[c] # Main /\ took'[c] = NoConn
  BY <1>3 DEF LambdaOK
<1>5. \A c \in Conns :
        took'[c] # NoConn => /\ state'[c] = "disconnected" /\ ioLoop'[c] # Main
                             /\ took'[c] < nextConnId' /\ ioLoop'[took'[c]] = ioLoop'[c]
  <2> SUFFICES ASSUME NEW c \in Conns, took[c] # NoConn
               PROVE  /\ state'[c] = "disconnected" /\ ioLoop'[c] # Main
                      /\ took[c] < nextConnId' /\ ioLoop'[took[c]] = ioLoop'[c]
    OBVIOUS
  <2>1. state[c] = "disconnected" /\ ioLoop[c] # Main /\ took[c] < nextConnId /\ ioLoop[took[c]] = ioLoop[c]
    BY DEF LambdaOK
  <2>2. took[c] \in Conns  BY DEF TypeOK
  <2>3. took[c] \in Nat  BY <2>2, LoopFacts
  <2>4. took[c] < nextConnId'  BY <1>1, <2>1, <2>3
  <2> QED  BY <1>3, <2>1, <2>2, <2>4
<1> QED  BY <1>4, <1>5 DEF LambdaOK

LEMMA OnceEmpty == Once(<<>>)
BY DEF Once

\* Steps that leave the connections and what the loops have to run alone, or
\* end a loop with all it had to run.
LEMMA ConnFrame ==
  ASSUME TypeOK, ConnInv, UNCHANGED <<connVars, connections, nextConnId>>,
         \A l \in Loops : Work(l)' = Work(l) \/ (Work(l)' = <<>> /\ phase'[l] = "exited"),
         \A l \in Loops : phase[l] = "exited" => phase'[l] = "exited"
  PROVE  ConnInv'
<1> USE LoopFacts DEF connVars
<1>1. WorkOK'  BY GoodEmpty DEF ConnInv, WorkOK
<1>r. ReportsOK'  BY DEF ConnInv, ReportsOK
<1>2. LambdaOK'
  <2>1. ~Has(<<>>, "removeConnection", 0) /\ \A d : ~Has(<<>>, "removeConnection", d)  BY DEF Has
  <2>2. nextConnId \in 1..(MaxConns + 1)  BY DEF TypeOK
  <2>3. Once(Work(Main)')  BY OnceEmpty DEF ConnInv, LambdaOK
  <2>4. \A l \in Loops, d \in Conns :
          Has(Work(l)', "removeConnection", d) => Has(Work(l), "removeConnection", d)
    BY <2>1
  <2> QED  BY <2>2, <2>3, <2>4, LambdaFrame DEF ConnInv
<1>3. Owned'
  <2> SUFFICES ASSUME NEW c \in Conns, registered[c] \/ state[c] = "connecting",
                      phase'[ioLoop[c]] # "exited"
               PROVE  c \in connections \/ Has(Work(ioLoop[c])', "connectDestroyed", c)
    BY DEF Owned
  <2>1. ioLoop[c] \in Loops  BY DEF TypeOK
  <2> QED  BY <2>1 DEF ConnInv, Owned
<1>4. Kept'  BY DEF ConnInv, Kept
<1> QED  BY <1>1, <1>r, <1>2, <1>3, <1>4 DEF ConnInv

\* What holds of a state in which the invariant does, in the form the actions
\* need it.
LEMMA ConnFacts ==
  ASSUME TypeOK, ConnInv
  PROVE  /\ nextConnId \in Nat
         /\ \A l \in Loops : Work(l) \in Seq(Functors)
         /\ \A l \in Loops : Good(l, Work(l), ioLoop, state, nextConnId)
         /\ \A c \in Conns : ioLoop[c] \in Loops
         /\ \A c \in Conns : state[c] # "none" => c < nextConnId
         /\ \A c \in Conns : registered[c] => state[c] \in {"connected", "disconnected"}
         /\ \A c \in connections : c \in Conns /\ c < nextConnId
         /\ \A c \in Conns, l \in Loops :
              Has(Work(l), "connectEstablished", c) => ioLoop[c] = l /\ l # Main /\ state[c] = "connecting"
<1>1. nextConnId \in 1..(MaxConns + 1) /\ connections \subseteq 1..(nextConnId - 1)  BY DEF TypeOK
<1>2. nextConnId \in Nat  BY <1>1, LoopFacts
<1>3. \A c \in connections : c \in Conns /\ c < nextConnId  BY <1>1, LoopFacts DEF Conns
<1>4. \A c \in Conns : state[c] # "none" => c < nextConnId
  BY <1>2, LoopFacts DEF ConnInv, ReportsOK
<1>5. \A c \in Conns : registered[c] => state[c] \in {"connected", "disconnected"}
  BY DEF ConnInv, ReportsOK, TypeOK
<1>6. \A l \in Loops : Good(l, Work(l), ioLoop, state, nextConnId)  BY DEF ConnInv, WorkOK
<1>7. \A c \in Conns : ioLoop[c] \in Loops  BY DEF TypeOK
<1>8. \A c \in Conns, l \in Loops :
        Has(Work(l), "connectEstablished", c) => ioLoop[c] = l /\ l # Main /\ state[c] = "connecting"
  BY <1>6 DEF Good
<1> QED  BY <1>2, <1>3, <1>4, <1>5, <1>6, <1>7, <1>8, WorkType

\* Whom a lambda may remove was accepted before.
LEMMA AliveAccepted ==
  ASSUME TypeOK, ConnInv, NEW c \in Conns, Alive(c)
  PROVE  c < nextConnId
<1>1. c \in connections => c < nextConnId  BY ConnFacts
<1>2. ASSUME NEW l \in Loops, NEW i \in DOMAIN Work(l),
             Work(l)[i].f # "removeConnection", Work(l)[i].arg = c
      PROVE  c < nextConnId
  <2>1. Work(l) \in Seq(Functors) /\ Good(l, Work(l), ioLoop, state, nextConnId)  BY ConnFacts
  <2>2. Work(l)[i] \in Functors  BY <2>1
  <2>3. Work(l)[i].f \in Ends  BY <1>2, <2>2, FunctorFacts
  <2>4. Has(Work(l), "connectEstablished", c) \/ Has(Work(l), "connectDestroyed", c)
    BY <1>2, <2>3 DEF Has, Ends
  <2>5. Has(Work(l), "connectEstablished", c) => state[c] = "connecting"  BY ConnFacts
  <2>6. state[c] = "connecting" => c < nextConnId  BY ConnFacts
  <2> QED  BY <2>1, <2>4, <2>5, <2>6 DEF Good
<1> QED  BY <1>1, <1>2 DEF Alive, Work

\* A new connection: nothing is queued for it yet.
LEMMA AcceptKeeps ==
  ASSUME TypeOK, ConnInv, Accept
  PROVE  ConnInv'
<1> DEFINE c == nextConnId
<1>1. /\ c \in Conns /\ nextConnId' = c + 1 /\ connections' = connections \cup {c}
      /\ ioLoop' = [ioLoop EXCEPT ![c] = NextLoop] /\ UNCHANGED <<took, downs, loopVars>>
  BY DEF Accept, TypeOK, Conns
<1>2. \/ /\ NextLoop = Main /\ state' = [state EXCEPT ![c] = "connected"]
         /\ registered' = [registered EXCEPT ![c] = TRUE]
         /\ ups' = [ups EXCEPT ![c] = @ + 1] /\ queue' = queue
      \/ /\ NextLoop # Main /\ state' = [state EXCEPT ![c] = "connecting"]
         /\ Queued(NextLoop, Functor("connectEstablished", c)) /\ UNCHANGED <<registered, ups>>
  BY DEF Accept
<1>3. /\ nextConnId \in Nat
      /\ \A l \in Loops : Work(l) \in Seq(Functors)
      /\ \A l \in Loops : Good(l, Work(l), ioLoop, state, nextConnId)
      /\ \A d \in Conns : ioLoop[d] \in Loops
      /\ \A d \in connections : d \in Conns /\ d < nextConnId
  BY ConnFacts
<1>4. state[c] = "none" /\ ups[c] = 0 /\ downs[c] = 0 /\ ~registered[c]
  BY <1>1, <1>3 DEF ConnInv, ReportsOK
<1>5. \A l \in Loops, f \in Ends : ~Has(Work(l), f, c)  BY <1>1, <1>3, <1>4 DEF Good, Ends
<1>6. \A d \in Conns : d # c => /\ ioLoop'[d] = ioLoop[d] /\ state'[d] = state[d]
                                /\ registered'[d] = registered[d] /\ ups'[d] = ups[d]
  BY <1>1, <1>2 DEF TypeOK
<1>7. ioLoop'[c] = NextLoop /\ NextLoop \in Loops  BY <1>1, NextLoopFacts DEF TypeOK
<1>8. \/ NextLoop = Main /\ state'[c] = "connected" /\ ups'[c] = 1
      \/ NextLoop # Main /\ state'[c] = "connecting" /\ ups'[c] = 0 /\ ~registered'[c]
  BY <1>1, <1>2, <1>4 DEF TypeOK
<1>9. \A l \in Loops : Good(l, Work(l), ioLoop', state', nextConnId')
  <2> SUFFICES ASSUME NEW l \in Loops PROVE Good(l, Work(l), ioLoop', state', nextConnId')
    OBVIOUS
  <2>1. \A d \in Conns : Has(Work(l), "connectEstablished", d) => d # c  BY <1>5 DEF Ends
  <2>2. \A d \in Conns : d < c => d # c  BY <1>3, LoopFacts
  <2>3. nextConnId' \in Nat /\ nextConnId <= nextConnId'  BY <1>1, <1>3
  <2> HIDE DEF c
  <2> QED  BY <1>3, <1>6, <2>1, <2>2, <2>3, GoodState DEF c
<1>10. \A l \in Loops : \/ Work(l)' = Work(l)
                        \/ /\ Work(l)' = Append(Work(l), Functor("connectEstablished", c))
                           /\ l = NextLoop /\ l # Main /\ state'[c] = "connecting"
  <2>1. CASE queue' = queue  BY <1>1, <2>1 DEF Work, loopVars
  <2>2. CASE /\ NextLoop # Main /\ Queued(NextLoop, Functor("connectEstablished", c))
             /\ state' = [state EXCEPT ![c] = "connecting"]
    <3>1. Functor("connectEstablished", c) \in Functors  BY <1>1, FunctorFacts DEF Ends
    <3>2. \A l \in Loops : Work(l)' = IF l = NextLoop THEN Append(Work(NextLoop), Functor("connectEstablished", c)) ELSE Work(l)
      BY <1>1, <1>7, <2>2, <3>1, WorkQueued DEF loopVars
    <3>3. state'[c] = "connecting"  BY <1>1, <2>2 DEF TypeOK
    <3> QED  BY <2>2, <3>2, <3>3
  <2> QED  BY <1>2, <2>1, <2>2
<1>f. Functor("connectEstablished", c) \in Functors /\ Functor("connectEstablished", c).arg = c
      /\ Functor("connectEstablished", c).f = "connectEstablished"
  BY <1>1, FunctorFacts DEF Ends
<1>11. WorkOK'
  <2> SUFFICES ASSUME NEW l \in Loops PROVE Good(l, Work(l)', ioLoop', state', nextConnId')
    BY DEF WorkOK
  <2>1. CASE Work(l)' = Work(l)  BY <1>9, <2>1
  <2>2. CASE /\ Work(l)' = Append(Work(l), Functor("connectEstablished", c))
             /\ l = NextLoop /\ l # Main /\ state'[c] = "connecting"
    <3>1. EstablishedFirst(Work(l)')
      BY <1>3, <1>5, <1>f, <2>2, FirstAppend DEF Good
    <3>2. \A f, d : Has(Work(l)', f, d) <=> Has(Work(l), f, d) \/ (f = "connectEstablished" /\ d = c)
      BY <1>3, <1>f, <2>2, HasAppend
    <3> HIDE DEF c
    <3> QED  BY <1>7, <1>9, <2>2, <3>1, <3>2 DEF Good
  <2> QED  BY <1>10, <2>1, <2>2
<1>12. \A l \in Loops : \A d : Has(Work(l), "connectDestroyed", d) => Has(Work(l)', "connectDestroyed", d)
  <2> SUFFICES ASSUME NEW l \in Loops, NEW d, Has(Work(l), "connectDestroyed", d)
               PROVE  Has(Work(l)', "connectDestroyed", d)
    OBVIOUS
  <2>1. CASE Work(l)' = Work(l)  BY <2>1
  <2>2. CASE Work(l)' = Append(Work(l), Functor("connectEstablished", c))
    <3> DEFINE q == Work(l)
               e == Functor("connectEstablished", c)
    <3>1. q \in Seq(Functors) /\ e \in Functors /\ Has(q, "connectDestroyed", d)  BY <1>3, <1>f
    <3> HIDE DEF q, e
    <3>2. Has(Append(q, e), "connectDestroyed", d)  BY <3>1, HasAppend
    <3> QED  BY <2>2, <3>2 DEF q, e
  <2> QED  BY <1>10, <2>1, <2>2
<1>13. ReportsOK'
  <2> SUFFICES ASSUME NEW d \in Conns
               PROVE /\ d >= nextConnId' => state'[d] = "none"
                     /\ state'[d] \in {"none", "connecting"} => ups'[d] = 0 /\ downs'[d] = 0 /\ ~registered'[d]
                     /\ state'[d] = "connected" => ups'[d] = 1 /\ downs'[d] = 0
                     /\ downs'[d] <= ups'[d] /\ ups'[d] <= 1
    BY DEF ReportsOK
  <2>1. CASE d = c  BY <1>1, <1>3, <1>4, <1>8, <2>1
  <2>2. CASE d # c
    <3>1. d >= nextConnId' => d >= nextConnId  BY <1>1, <1>3, LoopFacts
    <3> HIDE DEF c
    <3> QED  BY <1>1, <1>6, <2>2, <3>1 DEF ConnInv, ReportsOK
  <2> QED  BY <2>1, <2>2
<1>14. LambdaOK'
  <2>1. \A l \in Loops, d \in Conns :
          Has(Work(l)', "removeConnection", d) => Has(Work(l), "removeConnection", d)
    <3> SUFFICES ASSUME NEW l \in Loops, NEW d \in Conns, Has(Work(l)', "removeConnection", d)
                 PROVE  Has(Work(l), "removeConnection", d)
      OBVIOUS
    <3> DEFINE q == Work(l)
               e == Functor("connectEstablished", c)
    <3>1. q \in Seq(Functors) /\ e \in Functors /\ e.f = "connectEstablished"  BY <1>3, <1>f
    <3>2. Work(l)' = q \/ Work(l)' = Append(q, e)  BY <1>10
    <3> HIDE DEF q, e
    <3>3. Has(Append(q, e), "removeConnection", d) => Has(q, "removeConnection", d)
      BY <3>1, HasAppend
    <3>4. Has(q, "removeConnection", d)  BY <3>2, <3>3
    <3> QED  BY <3>4 DEF q
  <2>2. Once(Work(Main)')
    <3>1. Work(Main)' = Work(Main)  BY <1>10, LoopFacts
    <3> QED  BY <3>1 DEF ConnInv, LambdaOK
  <2>3. nextConnId' \in Nat /\ nextConnId <= nextConnId'  BY <1>1, <1>3
  <2>4. \A d \in Conns : d < nextConnId => d # c  BY <1>3, LoopFacts
  <2>5. \A d \in Conns : d < nextConnId => ioLoop'[d] = ioLoop[d]  BY <1>6, <2>4
  <2>6. \A d \in Conns : state[d] = "disconnected" => state'[d] = "disconnected"  BY <1>4, <1>6
  <2>7. took' = took  BY <1>1
  <2> HIDE DEF c
  <2> QED  BY <2>1, <2>2, <2>3, <2>5, <2>6, <2>7, LambdaFrame DEF ConnInv
<1>15. Owned'
  <2> SUFFICES ASSUME NEW d \in Conns, registered'[d] \/ state'[d] = "connecting",
                      phase'[ioLoop'[d]] # "exited"
               PROVE  d \in connections' \/ Has(Work(ioLoop[d])', "connectDestroyed", d)
    BY DEF Owned
  <2>1. CASE d = c  BY <1>1, <2>1
  <2>2. CASE d # c
    <3>1. registered[d] \/ state[d] = "connecting"  BY <1>6, <2>2
    <3>2. phase[ioLoop[d]] # "exited"  BY <1>1, <1>6, <2>2 DEF loopVars
    <3>3. d \in connections \/ Has(Work(ioLoop[d]), "connectDestroyed", d)
      BY <3>1, <3>2 DEF ConnInv, Owned
    <3> QED  BY <1>1, <1>3, <1>12, <3>3
  <2> QED  BY <2>1, <2>2
<1>16. Kept'
  <2>1. phase' = phase  BY <1>1 DEF loopVars
  <2> QED  BY <1>1, <1>6, <2>1 DEF ConnInv, Kept
<1> QED  BY <1>11, <1>13, <1>14, <1>15, <1>16 DEF ConnInv

\* Every other step changes one connection c, or none (c is not a connection
\* then), and takes nothing from a loop that concerns another.
LEMMA OneConn ==
  ASSUME TypeOK, ConnInv, NEW c, UNCHANGED <<nextConnId, ioLoop, phase>>, WorkOK', LambdaOK',
         \A d \in Conns : took[d] # NoConn => took'[d] = took[d],
         \A d \in Conns : d # c => /\ state'[d] = state[d] /\ registered'[d] = registered[d]
                                   /\ ups'[d] = ups[d] /\ downs'[d] = downs[d],
         \A d \in Conns : d # c /\ d \in connections => d \in connections',
         \A l \in Loops, d \in Conns :
           d # c /\ Has(Work(l), "connectDestroyed", d) => Has(Work(l)', "connectDestroyed", d),
         c \in Conns =>
           /\ c < nextConnId
           /\ \/ state'[c] = state[c] /\ registered'[c] = registered[c] /\ ups'[c] = ups[c] /\ downs'[c] = downs[c]
              \/ state'[c] = "connected" /\ ups'[c] = 1 /\ downs'[c] = 0
              \/ state'[c] = "disconnected" /\ downs'[c] <= ups'[c] /\ ups'[c] <= 1
           /\ (registered'[c] \/ state'[c] = "connecting") /\ phase[ioLoop[c]] # "exited" =>
                c \in connections' \/ Has(Work(ioLoop[c])', "connectDestroyed", c)
           /\ phase[Main] # "exited" /\ state'[c] \in {"connecting", "connected"} =>
                c \in connections' \/ \E d \in Conns : took'[d] = c
  PROVE  ConnInv'
<1>1. nextConnId \in Nat /\ \A d \in Conns : d \in Nat /\ ioLoop[d] \in Loops
  BY ConnFacts, LoopFacts
<1>2. ReportsOK'
  <2> SUFFICES ASSUME NEW d \in Conns
               PROVE /\ d >= nextConnId => state'[d] = "none"
                     /\ state'[d] \in {"none", "connecting"} => ups'[d] = 0 /\ downs'[d] = 0 /\ ~registered'[d]
                     /\ state'[d] = "connected" => ups'[d] = 1 /\ downs'[d] = 0
                     /\ downs'[d] <= ups'[d] /\ ups'[d] <= 1
    BY DEF ReportsOK
  <2>1. /\ d >= nextConnId => state[d] = "none"
        /\ state[d] \in {"none", "connecting"} => ups[d] = 0 /\ downs[d] = 0 /\ ~registered[d]
        /\ state[d] = "connected" => ups[d] = 1 /\ downs[d] = 0
        /\ downs[d] <= ups[d] /\ ups[d] <= 1
    BY DEF ConnInv, ReportsOK
  <2>2. CASE d # c  BY <2>1, <2>2
  <2>3. CASE d = c  BY <1>1, <2>1, <2>3
  <2> QED  BY <2>2, <2>3
<1>3. Owned'
  <2> SUFFICES ASSUME NEW d \in Conns, registered'[d] \/ state'[d] = "connecting",
                      phase[ioLoop[d]] # "exited"
               PROVE  d \in connections' \/ Has(Work(ioLoop[d])', "connectDestroyed", d)
    BY DEF Owned
  <2>1. CASE d = c  BY <2>1
  <2>2. CASE d # c
    <3>1. d \in connections \/ Has(Work(ioLoop[d]), "connectDestroyed", d)
      BY <2>2 DEF ConnInv, Owned
    <3> QED  BY <1>1, <2>2, <3>1
  <2> QED  BY <2>1, <2>2
<1>4. Kept'
  <2> SUFFICES ASSUME phase[Main] # "exited", NEW d \in Conns, state'[d] \in {"connecting", "connected"}
               PROVE  d \in connections' \/ \E x \in Conns : took'[x] = d
    BY DEF Kept
  <2>1. CASE d = c  BY <2>1
  <2>2. CASE d # c
    <3>1. d \in connections \/ \E x \in Conns : took[x] = d  BY <2>2 DEF ConnInv, Kept
    <3>2. d # NoConn  BY LoopFacts
    <3> QED  BY <2>2, <3>1, <3>2
  <2> QED  BY <2>1, <2>2
<1> QED  BY <1>2, <1>3, <1>4 DEF ConnInv

\* handleClose: the connection, which was up, is down, and the main loop is to
\* remove it.
LEMMA HandleCloseKeeps ==
  ASSUME TypeOK, ConnInv, NEW c \in Conns, HandleClose(c)
  PROVE  ConnInv'
<1> DEFINE l == ioLoop[c]
           e == IF l = Main THEN Functor("connectDestroyed", c) ELSE Functor("removeConnection", c)
<1>1. /\ registered[c] /\ state[c] = "connected" /\ phase[l] # "exited"
      /\ state' = [state EXCEPT ![c] = "disconnected"] /\ downs' = [downs EXCEPT ![c] = @ + 1]
      /\ took' = took /\ Queued(Main, e)
      /\ connections' = connections \ (IF l = Main THEN {c} ELSE {})
      /\ UNCHANGED <<nextConnId, ioLoop, registered, ups, phase, batch>>
  BY DEF HandleClose, RemoveConnectionInLoop, loopVars
<1>2. /\ nextConnId \in Nat /\ c < nextConnId
      /\ \A k \in Loops : Work(k) \in Seq(Functors) /\ Good(k, Work(k), ioLoop, state, nextConnId)
      /\ l \in Loops
      /\ \A d \in Conns, k \in Loops : Has(Work(k), "connectEstablished", d) => state[d] = "connecting"
  BY <1>1, ConnFacts
<1>3. e \in Functors /\ e.f # "connectEstablished" /\ e.arg = c
      /\ (e.f = "removeConnection" => l # Main)
      /\ (e.f = "connectDestroyed" => e.arg = c /\ l = Main)
      /\ (l = Main => e.f = "connectDestroyed" /\ e.arg = c)
  BY <1>2, FunctorFacts, LoopFacts DEF Ends
<1> HIDE DEF e
<1>4. \A k \in Loops : Work(k)' = IF k = Main THEN Append(Work(Main), e) ELSE Work(k)
  BY <1>1, <1>3, LoopFacts, WorkQueued
<1>5. \A d \in Conns : d # c => state'[d] = state[d] /\ downs'[d] = downs[d]
  BY <1>1 DEF TypeOK
<1>6. state'[c] = "disconnected" /\ downs'[c] <= ups'[c] /\ ups'[c] <= 1
  BY <1>1 DEF ConnInv, ReportsOK, TypeOK
<1>7. WorkOK'
  <2> SUFFICES ASSUME NEW k \in Loops PROVE Good(k, Work(k)', ioLoop', state', nextConnId')
    BY DEF WorkOK
  <2>1. Good(k, Work(k), ioLoop, state', nextConnId)
    <3>1. \A d \in Conns : Has(Work(k), "connectEstablished", d) => state'[d] = state[d]
      BY <1>1, <1>2, <1>5
    <3> QED  BY <1>2, <3>1, GoodState
  <2>2. k = Main => Good(k, Append(Work(k), e), ioLoop, state', nextConnId)
    BY <1>2, <1>3, <2>1, GoodAppend
  <2> QED  BY <1>1, <1>4, <2>1, <2>2
<1>8. LambdaOK'
  <2>1. took[c] = NoConn /\ \A k \in Loops : ~Has(Work(k), "removeConnection", c)
    BY <1>1 DEF ConnInv, LambdaOK
  <2>2. Once(Append(Work(Main), e))
    <3>1. Once(Work(Main))  BY DEF ConnInv, LambdaOK
    <3> QED  BY <1>2, <1>3, <2>1, <3>1, LoopFacts, OnceAppend
  <2>3. Once(Work(Main)')  BY <1>4, <2>2, LoopFacts
  <2>4. \A k \in Loops, d \in Conns :
          Has(Work(k)', "removeConnection", d) =>
            k = Main /\ state'[d] = "disconnected" /\ ioLoop'[d] # Main /\ took'[d] = NoConn
    <3> SUFFICES ASSUME NEW k \in Loops, NEW d \in Conns, Has(Work(k)', "removeConnection", d)
                 PROVE  k = Main /\ state'[d] = "disconnected" /\ ioLoop[d] # Main /\ took[d] = NoConn
      BY <1>1
    <3>1. CASE Has(Work(k), "removeConnection", d)
      <4>1. k = Main /\ state[d] = "disconnected" /\ ioLoop[d] # Main /\ took[d] = NoConn
        BY <3>1 DEF ConnInv, LambdaOK
      <4> QED  BY <1>5, <1>6, <4>1
    <3>2. CASE ~Has(Work(k), "removeConnection", d)
      <4>1. k = Main /\ Has(Append(Work(Main), e), "removeConnection", d)  BY <1>4, <3>2
      <4>2. e.f = "removeConnection" /\ d = c
        BY <1>2, <1>3, <3>2, <4>1, HasAppend
      <4> QED  BY <1>3, <1>6, <2>1, <4>1, <4>2
    <3> QED  BY <3>1, <3>2
  <2>5. \A d \in Conns : took[d] # NoConn =>
          state[d] = "disconnected" /\ ioLoop[d] # Main /\ took[d] < nextConnId /\ ioLoop[took[d]] = ioLoop[d]
    BY DEF ConnInv, LambdaOK
  <2>6. \A d \in Conns : state[d] = "disconnected" => state'[d] = "disconnected"  BY <1>5, <1>6
  <2> QED  BY <1>1, <2>3, <2>4, <2>5, <2>6 DEF LambdaOK
<1>9. \A k \in Loops, d \in Conns :
        Has(Work(k), "connectDestroyed", d) => Has(Work(k)', "connectDestroyed", d)
  <2> SUFFICES ASSUME NEW k \in Loops, NEW d \in Conns, Has(Work(k), "connectDestroyed", d)
               PROVE  Has(Work(k)', "connectDestroyed", d)
    OBVIOUS
  <2>1. Has(Append(Work(k), e), "connectDestroyed", d)  BY <1>2, <1>3, HasAppend
  <2> QED  BY <1>4, <2>1
<1>10. c \in connections' \/ Has(Work(l)', "connectDestroyed", c)
  <2>1. CASE l = Main
    <3>1. Has(Append(Work(Main), e), "connectDestroyed", c)  BY <1>2, <1>3, <2>1, HasAppend
    <3> QED  BY <1>1, <1>2, <1>4, <2>1, <3>1
  <2>2. CASE l # Main
    <3>1. c \in connections \/ Has(Work(l), "connectDestroyed", c)
      BY <1>1 DEF ConnInv, Owned
    <3> QED  BY <1>1, <1>2, <1>9, <2>2, <3>1
  <2> QED  BY <2>1, <2>2
<1>11. \A d \in Conns : d # c /\ d \in connections => d \in connections'  BY <1>1
<1> QED  BY <1>1, <1>2, <1>5, <1>6, <1>7, <1>8, <1>9, <1>10, <1>11, OneConn

\* What taking the first functor of loop l leaves.
LEMMA TakenFacts ==
  ASSUME TypeOK, ConnInv, NEW l \in Loops, batch[l] # <<>>
  PROVE  /\ Tail(Work(l)) \in Seq(Functors) /\ Head(batch[l]) \in Functors
         /\ Good(l, Tail(Work(l)), ioLoop, state, nextConnId)
         /\ Has(Work(l), Head(batch[l]).f, Head(batch[l]).arg)
         /\ Head(batch[l]).f \in Ends =>
              ~Has(Tail(Work(l)), "connectEstablished", Head(batch[l]).arg)
         /\ \A f, c : Has(Tail(Work(l)), f, c) => Has(Work(l), f, c)
         /\ \A f, c : Has(Work(l), f, c) /\ ~(Head(batch[l]).f = f /\ Head(batch[l]).arg = c)
                        => Has(Tail(Work(l)), f, c)
         /\ Once(Work(l)) => Once(Tail(Work(l)))
         /\ Once(Work(l)) /\ Head(batch[l]).f = "removeConnection"
              => ~Has(Tail(Work(l)), "removeConnection", Head(batch[l]).arg)
<1>1. Work(l) \in Seq(Functors) /\ Good(l, Work(l), ioLoop, state, nextConnId)  BY ConnFacts
<1>2. Work(l) # <<>> /\ Head(Work(l)) = Head(batch[l])
  <2>1. queue[l] \in Seq(Functors) /\ batch[l] \in Seq(Functors)  BY DEF TypeOK
  <2> QED  BY <2>1, ConcatFacts DEF Work
<1>3. Tail(Work(l)) \in Seq(Functors) /\ Head(Work(l)) \in Functors  BY <1>1, <1>2, TailFacts
<1>4. /\ Good(l, Tail(Work(l)), ioLoop, state, nextConnId)
      /\ Head(Work(l)).f \in Ends =>
           ~Has(Tail(Work(l)), "connectEstablished", Head(Work(l)).arg)
  BY <1>1, <1>2, GoodTail
<1>5. /\ \A f, c : Has(Tail(Work(l)), f, c) => Has(Work(l), f, c)
      /\ \A f, c : Has(Work(l), f, c) => Has(Tail(Work(l)), f, c) \/ (Head(Work(l)).f = f /\ Head(Work(l)).arg = c)
      /\ Has(Work(l), Head(Work(l)).f, Head(Work(l)).arg)
  BY <1>1, <1>2, HasTail
<1>6. Once(Work(l)) => /\ Once(Tail(Work(l)))
                       /\ Head(Work(l)).f = "removeConnection"
                            => ~Has(Tail(Work(l)), "removeConnection", Head(Work(l)).arg)
  BY <1>1, <1>2, OnceTail
<1> QED  BY <1>2, <1>3, <1>4, <1>5, <1>6

\* connectEstablished, which finds the connection as newConnection left it, and
\* connectDestroyed, after which nothing is left to run for it.
LEMMA ReportKeeps ==
  ASSUME TypeOK, ConnInv, NEW l \in Loops, RunFunctor(l), Head(batch[l]).f \in Ends
  PROVE  ConnInv'
<1> DEFINE h == Head(batch[l])
           w == Tail(Work(l))
<1>0. h \in Functors /\ h.arg \in Conns
  BY TakenFacts, FunctorFacts DEF RunFunctor, Ends
<1>3. PICK c \in Conns : c = h.arg  BY <1>0
<1>1. /\ batch[l] # <<>> /\ batch' = [batch EXCEPT ![l] = Tail(@)]
      /\ UNCHANGED <<nextConnId, phase, connections, queue>>
      /\ \/ h.f = "connectEstablished" /\ ConnectEstablished(c)
         \/ h.f = "connectDestroyed" /\ ConnectDestroyed(c)
  BY <1>3 DEF RunFunctor, Ends
<1>2. /\ w \in Seq(Functors) /\ h \in Functors /\ Good(l, w, ioLoop, state, nextConnId)
      /\ Has(Work(l), h.f, c) /\ ~Has(w, "connectEstablished", c)
      /\ \A f, d : Has(Work(l), f, d) /\ ~(h.f = f /\ c = d) => Has(w, f, d)
  BY <1>1, <1>3, TakenFacts
<1>4. /\ nextConnId \in Nat
      /\ \A k \in Loops : Work(k) \in Seq(Functors) /\ Good(k, Work(k), ioLoop, state, nextConnId)
      /\ \A d \in Conns : ioLoop[d] \in Loops
      /\ \A d \in Conns : state[d] # "none" => d < nextConnId
      /\ \A d \in Conns, k \in Loops : Has(Work(k), "connectEstablished", d) => ioLoop[d] = k /\ state[d] = "connecting"
  BY ConnFacts
<1>w. \A k \in Loops : Work(k)' = IF k = l THEN w ELSE Work(k)
  BY <1>1, WorkTaken
<1> HIDE DEF w
<1>5. ioLoop[c] = l /\ c < nextConnId /\ (h.f = "connectEstablished" => state[c] = "connecting")
  BY <1>2, <1>3, <1>4 DEF Ends, Good
<1>6. /\ UNCHANGED <<ioLoop, took>>
      /\ \A d \in Conns : d # c => /\ state'[d] = state[d] /\ registered'[d] = registered[d]
                                   /\ ups'[d] = ups[d] /\ downs'[d] = downs[d]
  BY <1>1, <1>3 DEF ConnectEstablished, ConnectDestroyed, TypeOK
<1>7. \/ /\ h.f = "connectEstablished" /\ state'[c] = "connected"
         /\ ups'[c] = ups[c] + 1 /\ downs'[c] = downs[c]
      \/ /\ h.f = "connectDestroyed" /\ state'[c] = "disconnected" /\ registered'[c] = FALSE
         /\ ups'[c] = ups[c] /\ downs'[c] = IF state[c] = "connected" THEN downs[c] + 1 ELSE downs[c]
  BY <1>1, <1>3 DEF ConnectEstablished, ConnectDestroyed, TypeOK
<1>8. \/ state'[c] = "connected" /\ ups'[c] = 1 /\ downs'[c] = 0
      \/ state'[c] = "disconnected" /\ downs'[c] <= ups'[c] /\ ups'[c] <= 1
  <2>1. /\ state[c] = "connecting" => ups[c] = 0 /\ downs[c] = 0
        /\ state[c] = "connected" => ups[c] = 1 /\ downs[c] = 0
        /\ downs[c] <= ups[c] /\ ups[c] <= 1
    BY <1>3 DEF ConnInv, ReportsOK
  <2> HIDE DEF h
  <2> QED  BY <1>5, <1>7, <2>1
<1>9. WorkOK'
  <2> SUFFICES ASSUME NEW k \in Loops PROVE Good(k, Work(k)', ioLoop', state', nextConnId')
    BY DEF WorkOK
  <2>1. CASE k = l
    <3>1. \A d \in Conns : Has(w, "connectEstablished", d) => state'[d] = state[d]
      BY <1>2, <1>6
    <3>2. Good(l, w, ioLoop, state', nextConnId)  BY <1>2, <1>4, <3>1, GoodState
    <3> QED  BY <1>1, <1>6, <1>w, <2>1, <3>2
  <2>2. CASE k # l
    <3>1. \A d \in Conns : Has(Work(k), "connectEstablished", d) => state'[d] = state[d]
      BY <1>4, <1>5, <1>6, <2>2
    <3>2. Good(k, Work(k), ioLoop, state', nextConnId)  BY <1>4, <3>1, GoodState
    <3> QED  BY <1>1, <1>6, <1>w, <2>2, <3>2
  <2> QED  BY <2>1, <2>2
<1>10. LambdaOK'
  <2>1. Once(Work(Main)')
    <3>1. Once(Work(Main))  BY DEF ConnInv, LambdaOK
    <3>2. l = Main => Once(w)  BY <1>1, <3>1, TakenFacts DEF w
    <3> QED  BY <1>w, <3>1, <3>2, LoopFacts
  <2>2. \A k \in Loops, d \in Conns :
          Has(Work(k)', "removeConnection", d) => Has(Work(k), "removeConnection", d)
    <3>1. \A f, d : Has(w, f, d) => Has(Work(l), f, d)  BY <1>1, TakenFacts DEF w
    <3> QED  BY <1>w, <3>1
  <2>3. \A d \in Conns : state[d] = "disconnected" => state'[d] = "disconnected"
    BY <1>5, <1>6, <1>7
  <2>4. nextConnId' \in Nat /\ nextConnId <= nextConnId'  BY <1>1, <1>4
  <2>5. ReportsOK /\ LambdaOK  BY DEF ConnInv
  <2> QED  BY <1>6, <2>1, <2>2, <2>3, <2>4, <2>5, LambdaFrame
<1>11. \A k \in Loops, d \in Conns :
         d # c /\ Has(Work(k), "connectDestroyed", d) => Has(Work(k)', "connectDestroyed", d)
  BY <1>2, <1>w
<1>12. registered'[c] \/ state'[c] = "connecting" =>
         phase[ioLoop[c]] = "exited" \/ c \in connections' \/ Has(Work(ioLoop[c])', "connectDestroyed", c)
  <2>1. CASE h.f = "connectEstablished"
    <3>1. phase[l] = "exited" \/ c \in connections \/ Has(Work(l), "connectDestroyed", c)
      BY <1>3, <1>5, <2>1 DEF ConnInv, Owned
    <3>2. Has(Work(l), "connectDestroyed", c) => Has(w, "connectDestroyed", c)
      BY <1>2, <2>1
    <3> QED  BY <1>1, <1>5, <1>6, <1>w, <3>1, <3>2
  <2>2. CASE h.f = "connectDestroyed"  BY <1>7, <2>2
  <2> QED  BY <1>1, <2>1, <2>2
<1>13. phase[Main] # "exited" /\ state'[c] \in {"connecting", "connected"} =>
         c \in connections' \/ \E d \in Conns : took'[d] = c
  <2>1. state'[c] \in {"connecting", "connected"} => state[c] = "connecting"  BY <1>5, <1>7
  <2> QED  BY <1>1, <1>3, <1>6, <2>1 DEF ConnInv, Kept
<1> QED  BY <1>1, <1>5, <1>6, <1>8, <1>9, <1>10, <1>11, <1>12, <1>13, OneConn

\* The lambda of a close callback: it takes a connection of the same loop out
\* of connections_, or it ends the process.
LEMMA LambdaKeeps ==
  ASSUME TypeOK, ConnInv, NEW l \in Loops, RunFunctor(l), Head(batch[l]).f \notin Ends
  PROVE  ConnInv'
<1> DEFINE h == Head(batch[l])
           w == Tail(Work(l))
           W(k) == IF k = l THEN w ELSE Work(k)
<1>0. h \in Functors /\ batch[l] # <<>>  BY TakenFacts DEF RunFunctor
<1>b. PICK b \in Conns : b = h.arg  BY <1>0, FunctorFacts
<1>1. /\ batch[l] # <<>> /\ batch' = [batch EXCEPT ![l] = Tail(@)]
      /\ UNCHANGED <<nextConnId, phase, ioLoop, state, registered, ups, downs>>
      /\ RunLambda(b)
  BY <1>b DEF RunFunctor, Ends
<1>2. /\ w \in Seq(Functors) /\ Good(l, w, ioLoop, state, nextConnId)
      /\ h.f = "removeConnection" /\ Has(Work(l), h.f, b)
      /\ \A f, d : Has(Work(l), f, d) /\ ~(h.f = f /\ b = d) => Has(w, f, d)
      /\ \A f, d : Has(w, f, d) => Has(Work(l), f, d)
  BY <1>0, <1>b, TakenFacts, FunctorFacts
<1>3. /\ l = Main /\ state[b] = "disconnected" /\ ioLoop[b] # Main /\ took[b] = NoConn
      /\ Once(w) /\ ~Has(w, "removeConnection", b)
  <2>1. l = Main /\ state[b] = "disconnected" /\ ioLoop[b] # Main /\ took[b] = NoConn
    BY <1>2 DEF ConnInv, LambdaOK
  <2>2. Once(Work(l))  BY <2>1 DEF ConnInv, LambdaOK
  <2> QED  BY <1>0, <1>2, <1>b, <2>1, <2>2, TakenFacts
<1>4. /\ nextConnId \in Nat
      /\ \A k \in Loops : Work(k) \in Seq(Functors) /\ Good(k, Work(k), ioLoop, state, nextConnId)
      /\ \A d \in Conns : ioLoop[d] \in Loops
  BY ConnFacts
<1>q. queue' = queue => \A k \in Loops : Work(k)' = W(k)
  BY <1>1, WorkTaken
<1>Q. \A m \in Loops, e \in Functors : Queued(m, e) =>
        \A k \in Loops : Work(k)' = IF k = m THEN Append(W(k), e) ELSE W(k)
  BY <1>1, WorkTaken
<1> HIDE DEF w, h
<1>5. /\ \A k \in Loops : W(k) \in Seq(Functors) /\ Good(k, W(k), ioLoop, state, nextConnId)
      /\ \A k \in Loops, d \in Conns :
           Has(Work(k), "connectDestroyed", d) => Has(W(k), "connectDestroyed", d)
      /\ Once(W(Main))
      /\ \A k \in Loops, d \in Conns :
           Has(W(k), "removeConnection", d) => Has(Work(k), "removeConnection", d) /\ d # b
  <2>1. \A k \in Loops : W(k) \in Seq(Functors) /\ Good(k, W(k), ioLoop, state, nextConnId)
    BY <1>2, <1>4
  <2>2. \A k \in Loops, d \in Conns :
           Has(Work(k), "connectDestroyed", d) => Has(W(k), "connectDestroyed", d)
    BY <1>2
  <2>3. \A k \in Loops, d \in Conns :
           Has(W(k), "removeConnection", d) => Has(Work(k), "removeConnection", d) /\ d # b
    <3>1. \A k \in Loops : Has(Work(k), "removeConnection", b) => k = l
      BY <1>3 DEF ConnInv, LambdaOK
    <3> QED  BY <1>2, <1>3, <3>1
  <2> QED  BY <1>3, <2>1, <2>2, <2>3
<1> HIDE DEF W
<1>7. ASSUME UNCHANGED <<took, connections, queue>> PROVE ConnInv'
  <2>1. \A k \in Loops : Work(k)' = W(k)  BY <1>7, <1>q
  <2>2. WorkOK'  BY <1>1, <1>5, <2>1 DEF WorkOK
  <2>3. \A d \in Conns : d # NoConn  BY LoopFacts
  <2>4. LambdaOK'
    <3>1. Once(Work(Main)')  BY <1>5, <2>1, LoopFacts
    <3>2. \A k \in Loops, d \in Conns :
            Has(Work(k)', "removeConnection", d) => Has(Work(k), "removeConnection", d)
      BY <1>5, <2>1
    <3>3. nextConnId' \in Nat /\ nextConnId <= nextConnId'  BY <1>1, <1>4
    <3>4. ReportsOK /\ LambdaOK  BY DEF ConnInv
    <3> QED  BY <1>1, <1>7, <3>1, <3>2, <3>3, <3>4, LambdaFrame
  <2>5. \A k \in Loops, d \in Conns :
          Has(Work(k), "connectDestroyed", d) => Has(Work(k)', "connectDestroyed", d)
    BY <1>5, <2>1
  <2>6. NoConn \notin Conns  BY <2>3
  <2> QED  BY <1>1, <1>7, <2>2, <2>3, <2>4, <2>5, <2>6, OneConn
<1>8. ASSUME NEW c \in Conns, ioLoop[c] = ioLoop[b], Alive(c), RemoveConnectionInLoop(c),
             took' = [took EXCEPT ![b] = c]
      PROVE  ConnInv'
  <2>4. PICK m \in Loops : m = ioLoop[c]  BY <1>4
  <2>5. PICK e \in Functors : e = Functor("connectDestroyed", c)  BY FunctorFacts DEF Ends
  <2>6. e.f = "connectDestroyed" /\ e.arg = c  BY <2>5, FunctorFacts
  <2>7. connections' = connections \ {c} /\ Queued(m, e)
    BY <1>8, <2>4, <2>5 DEF RemoveConnectionInLoop
  <2>8. \A k \in Loops : Work(k)' = IF k = m THEN Append(W(k), e) ELSE W(k)
    BY <1>Q, <2>7
  <2>9. c < nextConnId  BY <1>8, AliveAccepted
  <2>t. took'[b] = c /\ \A d \in Conns : d # b => took'[d] = took[d]  BY <1>8 DEF TypeOK
  <2>10. WorkOK'
    <3> SUFFICES ASSUME NEW k \in Loops PROVE Good(k, Work(k)', ioLoop, state, nextConnId)
      BY <1>1 DEF WorkOK
    <3>1. CASE k = m
      <4>1. Good(k, Append(W(k), e), ioLoop, state, nextConnId)
        BY <1>5, <2>4, <2>6, <2>9, <3>1, GoodAppend
      <4> QED  BY <2>8, <3>1, <4>1
    <3>2. CASE k # m  BY <1>5, <2>8, <3>2
    <3> QED  BY <3>1, <3>2
  <2>11. \A k \in Loops, d \in Conns :
           Has(Work(k), "connectDestroyed", d) => Has(Work(k)', "connectDestroyed", d)
    <3> SUFFICES ASSUME NEW k \in Loops, NEW d \in Conns, Has(Work(k), "connectDestroyed", d)
                 PROVE  Has(Work(k)', "connectDestroyed", d)
      OBVIOUS
    <3>1. Has(W(k), "connectDestroyed", d)  BY <1>5
    <3>2. Has(Append(W(k), e), "connectDestroyed", d)  BY <1>5, <3>1, HasAppend
    <3> QED  BY <2>8, <3>1, <3>2
  <2>12. Has(Work(ioLoop[c])', "connectDestroyed", c)
    <3>1. Has(Append(W(m), e), "connectDestroyed", c)  BY <1>5, <2>6, HasAppend
    <3>2. (ioLoop[c])' = m  BY <1>1, <2>4
    <3> QED  BY <2>8, <3>1, <3>2
  <2>13. \A d \in Conns : d # c /\ d \in connections => d \in connections'  BY <2>7
  <2>14. \A k \in Loops, d \in Conns :
           Has(Work(k)', "removeConnection", d) => Has(Work(k), "removeConnection", d) /\ d # b
    <3> SUFFICES ASSUME NEW k \in Loops, NEW d \in Conns, Has(Work(k)', "removeConnection", d)
                 PROVE  Has(Work(k), "removeConnection", d) /\ d # b
      OBVIOUS
    <3>1. Has(Append(W(k), e), "removeConnection", d) => Has(W(k), "removeConnection", d)
      BY <1>5, <2>6, HasAppend
    <3> QED  BY <1>5, <2>8, <3>1
  <2>15. Once(Work(Main)')
    <3>1. Once(Append(W(Main), e))  BY <1>5, <2>6, LoopFacts, OnceAppend
    <3> QED  BY <1>5, <2>8, <3>1, LoopFacts
  <2>16. LambdaOK'
    <3>1. \A k \in Loops, d \in Conns :
            Has(Work(k)', "removeConnection", d) =>
              k = Main /\ state'[d] = "disconnected" /\ ioLoop'[d] # Main /\ took'[d] = NoConn
      BY <1>1, <2>14, <2>t DEF ConnInv, LambdaOK
    <3>2. \A d \in Conns : took'[d] # NoConn =>
            state'[d] = "disconnected" /\ ioLoop'[d] # Main /\ took'[d] < nextConnId' /\ ioLoop'[took'[d]] = ioLoop'[d]
      <4> SUFFICES ASSUME NEW d \in Conns, took'[d] # NoConn
                   PROVE  /\ state[d] = "disconnected" /\ ioLoop[d] # Main
                          /\ took'[d] < nextConnId /\ ioLoop[took'[d]] = ioLoop[d]
        BY <1>1
      <4>1. CASE d = b  BY <1>3, <1>8, <2>9, <2>t, <4>1
      <4>2. CASE d # b
        <5>1. took'[d] = took[d]  BY <2>t, <4>2
        <5> QED  BY <5>1 DEF ConnInv, LambdaOK
      <4> QED  BY <4>1, <4>2
    <3> QED  BY <2>15, <3>1, <3>2 DEF LambdaOK
  <2>17. \A d \in Conns : took[d] # NoConn => took'[d] = took[d]  BY <1>3, <2>t
  <2>18. \E d \in Conns : took'[d] = c  BY <2>t
  <2> QED  BY <1>1, <2>9, <2>10, <2>11, <2>12, <2>13, <2>16, <2>17, <2>18, OneConn
<1> QED  BY <1>1, <1>7, <1>8 DEF RunLambda

\* ~TcpServer: nothing is left to run for a connection of the main loop; the
\* others are reported by their own loops.
LEMMA DestroyKeeps ==
  ASSUME TypeOK, ConnInv, NEW c \in Conns, DestroyServer(c)
  PROVE  ConnInv'
<1>1. /\ phase[Main] = "exited" /\ c \in connections /\ connections' = connections \ {c}
      /\ UNCHANGED <<nextConnId, phase, batch>>
      /\ \/ ioLoop[c] = Main /\ ConnectDestroyed(c) /\ queue' = queue
         \/ Queued(ioLoop[c], Functor("connectDestroyed", c)) /\ UNCHANGED connVars
  BY DEF DestroyServer, loopVars
<1>2. /\ nextConnId \in Nat /\ c < nextConnId
      /\ \A k \in Loops : Work(k) \in Seq(Functors) /\ Good(k, Work(k), ioLoop, state, nextConnId)
      /\ \A d \in Conns : ioLoop[d] \in Loops
      /\ \A d \in Conns, k \in Loops :
           Has(Work(k), "connectEstablished", d) => ioLoop[d] = k /\ k # Main
  BY <1>1, ConnFacts
<1>3. \A d \in Conns : d # c /\ d \in connections => d \in connections'  BY <1>1
<1>4. CASE ioLoop[c] = Main /\ ConnectDestroyed(c) /\ queue' = queue
  <2>1. /\ UNCHANGED <<ioLoop, took>>
        /\ \A d \in Conns : d # c => /\ state'[d] = state[d] /\ registered'[d] = registered[d]
                                     /\ ups'[d] = ups[d] /\ downs'[d] = downs[d]
    BY <1>4 DEF ConnectDestroyed, TypeOK
  <2>2. /\ state'[c] = "disconnected" /\ registered'[c] = FALSE /\ ups'[c] = ups[c]
        /\ downs'[c] = IF state[c] = "connected" THEN downs[c] + 1 ELSE downs[c]
    BY <1>4 DEF ConnectDestroyed, TypeOK
  <2>3. downs'[c] <= ups'[c] /\ ups'[c] <= 1
    <3>1. (state[c] = "connected" => ups[c] = 1 /\ downs[c] = 0) /\ downs[c] <= ups[c] /\ ups[c] <= 1
      BY DEF ConnInv, ReportsOK
    <3> QED  BY <2>2, <3>1
  <2>4. \A k \in Loops : Work(k)' = Work(k)  BY <1>1, <1>4 DEF Work
  <2>5. WorkOK'
    <3> SUFFICES ASSUME NEW k \in Loops PROVE Good(k, Work(k)', ioLoop, state', nextConnId)
      BY <1>1, <2>1 DEF WorkOK
    <3>1. \A d \in Conns : Has(Work(k), "connectEstablished", d) => state'[d] = state[d]
      BY <1>2, <1>4, <2>1
    <3> QED  BY <1>2, <2>4, <3>1, GoodState
  <2>6. LambdaOK'
    <3>1. Once(Work(Main)')
      <4>1. Once(Work(Main))  BY DEF ConnInv, LambdaOK
      <4> QED  BY <2>4, <4>1, LoopFacts
    <3>2. \A k \in Loops, d \in Conns :
            Has(Work(k)', "removeConnection", d) => Has(Work(k), "removeConnection", d)
      BY <2>4
    <3>3. nextConnId' \in Nat /\ nextConnId <= nextConnId'  BY <1>1, <1>2
    <3>4. ReportsOK /\ LambdaOK  BY DEF ConnInv
    <3>5. \A d \in Conns : state[d] = "disconnected" => state'[d] = "disconnected"
      BY <2>1, <2>2
    <3> QED  BY <2>1, <3>1, <3>2, <3>3, <3>4, <3>5, LambdaFrame
  <2> QED  BY <1>1, <1>2, <1>3, <2>1, <2>2, <2>3, <2>4, <2>5, <2>6, OneConn
<1>5. CASE Queued(ioLoop[c], Functor("connectDestroyed", c)) /\ UNCHANGED connVars
  <2>1. PICK m \in Loops : m = ioLoop[c]  BY <1>2
  <2>2. PICK e \in Functors : e = Functor("connectDestroyed", c)  BY FunctorFacts DEF Ends
  <2>3. e.f = "connectDestroyed" /\ e.arg = c /\ Queued(m, e)  BY <1>5, <2>1, <2>2, FunctorFacts
  <2>4. \A k \in Loops : Work(k)' = IF k = m THEN Append(Work(m), e) ELSE Work(k)
    BY <1>1, <2>3, WorkQueued
  <2>5. WorkOK'
    <3> SUFFICES ASSUME NEW k \in Loops PROVE Good(k, Work(k)', ioLoop, state, nextConnId)
      BY <1>1, <1>5 DEF WorkOK, connVars
    <3>1. k = m => Good(k, Append(Work(k), e), ioLoop, state, nextConnId)
      BY <1>2, <2>1, <2>3, GoodAppend
    <3> QED  BY <1>2, <2>4, <3>1
  <2>6. LambdaOK'
    <3>1. \A k \in Loops, d \in Conns :
            Has(Work(k)', "removeConnection", d) => Has(Work(k), "removeConnection", d)
      <4> SUFFICES ASSUME NEW k \in Loops, NEW d \in Conns, Has(Work(k)', "removeConnection", d)
                   PROVE  Has(Work(k), "removeConnection", d)
        OBVIOUS
      <4>1. Has(Append(Work(k), e), "removeConnection", d) => Has(Work(k), "removeConnection", d)
        BY <1>2, <2>3, HasAppend
      <4> QED  BY <2>4, <4>1
    <3>2. Once(Work(Main)')
      <4>1. Once(Work(Main))  BY DEF ConnInv, LambdaOK
      <4>2. Once(Append(Work(Main), e))  BY <1>2, <2>3, <4>1, LoopFacts, OnceAppend
      <4> QED  BY <2>4, <4>1, <4>2, LoopFacts
    <3>3. nextConnId' \in Nat /\ nextConnId <= nextConnId'  BY <1>1, <1>2
    <3>4. ReportsOK /\ LambdaOK  BY DEF ConnInv
    <3> QED  BY <1>5, <3>1, <3>2, <3>3, <3>4, LambdaFrame DEF connVars
  <2>7. \A k \in Loops, d \in Conns :
          Has(Work(k), "connectDestroyed", d) => Has(Work(k)', "connectDestroyed", d)
    <3> SUFFICES ASSUME NEW k \in Loops, NEW d \in Conns, Has(Work(k), "connectDestroyed", d)
                 PROVE  Has(Work(k)', "connectDestroyed", d)
      OBVIOUS
    <3>1. Has(Append(Work(k), e), "connectDestroyed", d)  BY <1>2, HasAppend
    <3> QED  BY <2>4, <3>1
  <2>8. Has(Work(ioLoop[c])', "connectDestroyed", c)
    <3>1. Has(Append(Work(m), e), "connectDestroyed", c)  BY <1>2, <2>3, HasAppend
    <3>2. (ioLoop[c])' = m  BY <1>5, <2>1 DEF connVars
    <3> QED  BY <2>4, <3>1, <3>2
  <2> QED  BY <1>1, <1>2, <1>3, <1>5, <2>5, <2>6, <2>7, <2>8, OneConn DEF connVars
<1> QED  BY <1>1, <1>4, <1>5

LEMMA ConnStep ==
  ASSUME TypeOK, BatchOK, ConnInv, [Next]_vars
  PROVE  ConnInv'
<1> USE LoopFacts DEF poolVars, serverVars, loopVars
<1>t. phase \in [Loops -> Phases] /\ \A l \in Loops : queue[l] \in Seq(Functors) /\ batch[l] \in Seq(Functors)
  BY DEF TypeOK, Phases
<1>g. \A l, k \in Loops : \A a, b : Goes(l, a, b) /\ a # "exited" /\ phase[k] = "exited" => phase'[k] = "exited"
  BY <1>t DEF Goes
<1>1. CASE UNCHANGED vars  BY <1>1, ConnFrame DEF vars, Work
<1>2. ASSUME StartThread \/ (\E i \in Subs : Publish(i)) \/ Listen \/ (\E l \in Loops : EnterLoop(l) \/ FunctorsDone(l))
      PROVE  ConnInv'
  <2>1. UNCHANGED <<connVars, connections, nextConnId, queue, batch>>
    BY <1>2 DEF StartThread, Publish, Listen, EnterLoop, FunctorsDone
  <2>2. \A l \in Loops : phase[l] = "exited" => phase'[l] = "exited"
    BY <1>2, <1>t DEF StartThread, Publish, Listen, EnterLoop, FunctorsDone, Goes
  <2> QED  BY <2>1, <2>2, ConnFrame DEF Work
<1>3. ASSUME LoopStarted \/ (\E c \in Conns : QuitMain(c)) \/ (\E i \in Subs : QuitThread(i))
      PROVE  ConnInv'
  <2>1. UNCHANGED <<connVars, connections, nextConnId, queue, batch, phase>>
    BY <1>3 DEF LoopStarted, QuitMain, QuitThread
  <2> QED  BY <2>1, ConnFrame DEF Work
<1>4. ASSUME NEW l \in Loops, SwapFunctors(l) PROVE ConnInv'
  <2>1. /\ UNCHANGED <<connVars, connections, nextConnId>> /\ batch' = [batch EXCEPT ![l] = queue[l]]
        /\ queue' = [queue EXCEPT ![l] = <<>>] /\ Goes(l, "events", "functors")
    BY <1>4 DEF SwapFunctors
  <2>2. batch[l] = <<>>  BY <2>1 DEF BatchOK, Goes
  <2>3. <<>> \o queue[l] = queue[l] \o <<>>  BY <1>t, ConcatFacts
  <2>4. \A k \in Loops : Work(k)' = Work(k)  BY <2>1, <2>2, <2>3 DEF Work, TypeOK
  <2>5. \A k \in Loops : phase[k] = "exited" => phase'[k] = "exited"  BY <1>g, <2>1
  <2> QED  BY <2>1, <2>4, <2>5, ConnFrame
<1>5. ASSUME NEW l \in Loops, TestQuit(l) PROVE ConnInv'
  <2>1. /\ UNCHANGED <<connVars, connections, nextConnId, batch>> /\ phase[l] = "testing"
        /\ \/ Goes(l, "testing", "events") /\ queue' = queue
           \/ Goes(l, "testing", "exited") /\ (queue' = queue \/ queue' = [queue EXCEPT ![l] = <<>>])
    BY <1>5 DEF TestQuit, Goes
  <2>2. batch[l] = <<>>  BY <2>1 DEF BatchOK
  <2>3. \A k \in Loops : phase[k] = "exited" => phase'[k] = "exited"  BY <1>g, <2>1
  <2>4. \A k \in Loops : Work(k)' = Work(k) \/ (Work(k)' = <<>> /\ phase'[k] = "exited")
    <3>1. CASE queue' = queue  BY <2>1, <3>1 DEF Work
    <3>2. CASE queue' = [queue EXCEPT ![l] = <<>>] /\ Goes(l, "testing", "exited")
      <4>1. phase'[l] = "exited"  BY <1>t, <3>2 DEF Goes
      <4>2. <<>> \o <<>> = <<>>  OBVIOUS
      <4>3. Work(l)' = <<>>  BY <2>1, <2>2, <3>2, <4>2 DEF Work, TypeOK
      <4>4. \A k \in Loops : k # l => Work(k)' = Work(k)  BY <2>1, <3>2 DEF Work, TypeOK
      <4> QED  BY <4>1, <4>3, <4>4
    <3> QED  BY <2>1, <3>1, <3>2
  <2> QED  BY <2>1, <2>3, <2>4, ConnFrame
<1>6. ASSUME NEW l \in Loops, RunFunctor(l) PROVE ConnInv'  BY <1>6, ReportKeeps, LambdaKeeps
<1>7. ASSUME NEW c \in Conns, HandleClose(c) \/ DestroyServer(c) PROVE ConnInv'
  BY <1>7, HandleCloseKeeps, DestroyKeeps
<1>8. CASE Accept  BY <1>8, AcceptKeeps
<1> QED
  BY <1>1, <1>2, <1>3, <1>4, <1>5, <1>6, <1>7, <1>8
  DEF Next, ServerStep, ClientStep, Step, LoopStep

LEMMA BatchStep ==
  ASSUME TypeOK, BatchOK, [Next]_vars
  PROVE  BatchOK'
<1> USE DEF poolVars, serverVars, loopVars
<1>t. phase \in [Loops -> Phases] /\ \A l \in Loops : batch[l] \in Seq(Functors)
      /\ batch \in [Loops -> Seq(Functors)]
  BY DEF TypeOK, Phases
<1>1. CASE UNCHANGED vars  BY <1>1 DEF vars, BatchOK
<1>2. ASSUME \/ UNCHANGED <<batch, phase>>
             \/ batch' = batch /\ \E l \in Loops : \E a, b : Goes(l, a, b) /\ (a # "functors" \/ batch[l] = <<>>)
      PROVE  BatchOK'
  BY <1>2, <1>t DEF BatchOK, Goes
<1>3. ASSUME NEW l \in Loops, SwapFunctors(l) PROVE BatchOK'
  <2>1. batch' = [batch EXCEPT ![l] = queue[l]] /\ phase' = [phase EXCEPT ![l] = "functors"]
    BY <1>3 DEF SwapFunctors, Goes
  <2> QED  BY <1>t, <2>1 DEF BatchOK
<1>4. ASSUME NEW l \in Loops, RunFunctor(l) PROVE BatchOK'
  <2>1. phase' = phase /\ phase[l] = "functors" /\ batch' = [batch EXCEPT ![l] = Tail(@)]
    BY <1>4 DEF RunFunctor
  <2> QED  BY <1>t, <2>1 DEF BatchOK
<1>5. ASSUME StartThread PROVE BatchOK'
  <2>1. batch' = batch /\ Goes(Len(loops) + 1, "idle", "constructing") /\ Len(loops) + 1 <= numThreads
    BY <1>5 DEF StartThread
  <2>2. Len(loops) \in Nat /\ numThreads \in 0..MaxThreads  BY DEF TypeOK
  <2>3. Len(loops) + 1 \in Loops  BY <2>1, <2>2, LoopFacts DEF Loops
  <2> QED  BY <1>2, <2>1, <2>3
<1>6. ASSUME (\E i \in Subs : Publish(i)) \/ Listen \/ (\E l \in Loops : EnterLoop(l) \/ FunctorsDone(l) \/ TestQuit(l))
      PROVE  BatchOK'
  <2>1. batch' = batch
    BY <1>6 DEF Publish, Listen, EnterLoop, FunctorsDone, TestQuit
  <2>2. \E l \in Loops : \E a, b : Goes(l, a, b) /\ (a # "functors" \/ batch[l] = <<>>)
    <3>1. CASE \E i \in Subs : Publish(i)
      BY <3>1, LoopFacts DEF Publish
    <3>2. CASE Listen  BY <3>2, LoopFacts DEF Listen
    <3>3. ASSUME NEW l \in Loops, EnterLoop(l) \/ FunctorsDone(l)
          PROVE \E a, b : Goes(l, a, b) /\ (a # "functors" \/ batch[l] = <<>>)
      BY <3>3 DEF EnterLoop, FunctorsDone
    <3>4. ASSUME NEW l \in Loops, TestQuit(l)
          PROVE \E a, b : Goes(l, a, b) /\ (a # "functors" \/ batch[l] = <<>>)
      BY <3>4 DEF TestQuit
    <3> QED  BY <1>6, <3>1, <3>2, <3>3, <3>4
  <2> QED  BY <1>2, <2>1, <2>2
<1>7. ASSUME \/ LoopStarted \/ Accept \/ \E i \in Subs : QuitThread(i)
             \/ \E c \in Conns : HandleClose(c) \/ QuitMain(c) \/ DestroyServer(c)
      PROVE  UNCHANGED <<batch, phase>>
  BY <1>7 DEF LoopStarted, Accept, QuitThread, HandleClose, QuitMain, DestroyServer
<1> QED
  BY <1>1, <1>2, <1>3, <1>4, <1>5, <1>6, <1>7
  DEF Next, ServerStep, ClientStep, Step, LoopStep
-----------------------------------------------------------------------------
(***************************************************************************)
(* The pool.                                                               *)
(***************************************************************************)
\* What a loop has been given, before and after a connection is accepted.
LEMMA LoadFacts ==
  ASSUME TypeOK, NEW l
  PROVE  /\ Load(l) \in Nat
         /\ nextConnId = 1 => Load(l) = 0
         /\ Accept => Load(l)' = IF l = NextLoop THEN Load(l) + 1 ELSE Load(l)
<1> DEFINE c == nextConnId
           given == {d \in 1..(c - 1) : ioLoop[d] = l}
<1>1. c \in 1..(MaxConns + 1) /\ MaxConns \in Nat  BY LoopFacts DEF TypeOK
<1>2. IsFiniteSet(1..(c - 1))  BY <1>1, FS_Interval
<1>3. IsFiniteSet(given)  BY <1>2, FS_Subset
<1>4. Cardinality(given) \in Nat  BY <1>3, FS_CardinalityType
<1>5. c = 1 => Cardinality(given) = 0
  <2> SUFFICES ASSUME c = 1 PROVE Cardinality(given) = 0  OBVIOUS
  <2>1. given = {}  OBVIOUS
  <2> QED  BY <2>1, FS_EmptySet
<1>6. ASSUME Accept PROVE Load(l)' = IF l = NextLoop THEN Load(l) + 1 ELSE Load(l)
  <2>1. nextConnId' = c + 1 /\ c \in Conns /\ ioLoop' = [ioLoop EXCEPT ![c] = NextLoop]
    BY <1>1, <1>6 DEF Accept, Conns
  <2>2. \A d \in 1..(c - 1) : d # c /\ d \in Conns  BY <1>1 DEF Conns
  <2>3. \A d \in 1..(c - 1) : ioLoop'[d] = ioLoop[d]  BY <2>1, <2>2 DEF TypeOK
  <2>4. ioLoop'[c] = NextLoop  BY <2>1 DEF TypeOK
  <2>5. \A d : d \in 1..((c + 1) - 1) <=> d \in 1..(c - 1) \/ d = c  BY <1>1
  <2>6. {d \in 1..((c + 1) - 1) : ioLoop'[d] = l} = IF l = NextLoop THEN given \cup {c} ELSE given
    BY <2>3, <2>4, <2>5
  <2>7. c \notin given  BY <2>2
  <2>8. Cardinality(given \cup {c}) = Cardinality(given) + 1  BY <1>3, <2>7, FS_AddElement
  <2>9. Load(l)' = Cardinality({d \in 1..((c + 1) - 1) : ioLoop'[d] = l})  BY <2>1 DEF Load
  <2> QED  BY <2>6, <2>8, <2>9 DEF Load
<1> QED  BY <1>4, <1>5, <1>6 DEF Load

LEMMA PoolFrame ==
  ASSUME PoolOK, InTurn, UNCHANGED <<loops, next, listening, nextConnId, ioLoop>>,
         phase'[Main] = "starting" => phase[Main] = "starting"
  PROVE  PoolOK' /\ InTurn'
<1>1. \A l : Load(l)' = Load(l)  BY DEF Load
<1> QED  BY <1>1 DEF PoolOK, InTurn

LEMMA AcceptInTurn ==
  ASSUME TypeOK, PoolOK, InTurn, Accept
  PROVE  PoolOK' /\ InTurn'
<1>1. UNCHANGED <<loops, phase, listening>> /\ listening /\ nextConnId' = nextConnId + 1 /\ next' = AdvanceNext
  BY DEF Accept, loopVars
<1>2. nextConnId \in Nat /\ nextConnId >= 1  BY LoopFacts DEF TypeOK
<1>3. PoolOK'  BY <1>1, <1>2 DEF PoolOK
<1>4. PICK k \in Nat : \A i \in DOMAIN loops : Load(loops[i]) = IF i < next THEN k + 1 ELSE k
  BY DEF InTurn
<1>5. \A l : Load(l) \in Nat /\ Load(l)' = IF l = NextLoop THEN Load(l) + 1 ELSE Load(l)
  BY LoadFacts
<1>6. CASE loops = <<>>
  <2>1. \A i \in DOMAIN loops : FALSE  BY <1>6
  <2> QED  BY <1>1, <1>3, <2>1 DEF InTurn
<1>7. CASE loops # <<>>
  <2>1. next \in DOMAIN loops /\ NextLoop = loops[next]
        /\ AdvanceNext = IF next = Len(loops) THEN 1 ELSE next + 1
    BY <1>7, NextLoopFacts
  <2>2. Len(loops) \in Nat /\ DOMAIN loops = 1..Len(loops)  BY DEF TypeOK
  <2>3. \A i \in DOMAIN loops : loops[i] = NextLoop <=> i = next  BY <2>1 DEF PoolOK
  <2>4. \A i \in DOMAIN loops :
          Load(loops[i])' = IF i = next THEN Load(loops[i]) + 1 ELSE Load(loops[i])
    <3> SUFFICES ASSUME NEW i \in DOMAIN loops
                 PROVE  Load(loops[i])' = IF i = next THEN Load(loops[i]) + 1 ELSE Load(loops[i])
      OBVIOUS
    <3>1. PICK l : l = loops[i]  OBVIOUS
    <3>2. Load(loops[i])' = Load(l)'  BY <1>1, <3>1 DEF Load
    <3> QED  BY <1>5, <2>3, <3>1, <3>2
  <2>5. \A i \in DOMAIN loops : Load(loops[i])' = IF i < next \/ i = next THEN k + 1 ELSE k
    <3> SUFFICES ASSUME NEW i \in DOMAIN loops
                 PROVE  Load(loops[i])' = IF i < next \/ i = next THEN k + 1 ELSE k
      OBVIOUS
    <3>1. i = next => ~(i < next)  BY <2>1, <2>2
    <3> QED  BY <1>4, <2>4, <3>1
  <2>6. \E m \in Nat : \A i \in DOMAIN loops : Load(loops[i])' = IF i < next' THEN m + 1 ELSE m
    <3>1. CASE next = Len(loops)
      <4>1. \A i \in DOMAIN loops : (i < next \/ i = next) /\ ~(i < 1)  BY <2>2, <3>1
      <4>2. next' = 1  BY <1>1, <2>1, <3>1
      <4>3. \A i \in DOMAIN loops : Load(loops[i])' = k + 1  BY <2>5, <4>1
      <4>4. k + 1 \in Nat  OBVIOUS
      <4> QED  BY <4>1, <4>2, <4>3, <4>4
    <3>2. CASE next # Len(loops)
      <4>1. next' = next + 1  BY <1>1, <2>1, <3>2
      <4>2. \A i \in DOMAIN loops : i < next + 1 <=> i < next \/ i = next  BY <2>1, <2>2
      <4> QED  BY <2>5, <4>1, <4>2
    <3> QED  BY <3>1, <3>2
  <2> QED  BY <1>1, <1>3, <2>6 DEF InTurn
<1> QED  BY <1>6, <1>7

LEMMA PoolStep ==
  ASSUME TypeOK, PoolOK, InTurn, [Next]_vars
  PROVE  PoolOK' /\ InTurn'
<1> USE LoopFacts DEF poolVars, serverVars, loopVars, connVars
<1>t. phase \in [Loops -> Phases]  BY DEF TypeOK, Phases
<1>1. CASE UNCHANGED vars  BY <1>1, PoolFrame DEF vars
<1>2. CASE StartThread
  <2>1. UNCHANGED <<loops, next, listening, nextConnId, ioLoop>> /\ phase[Main] = "starting"
    BY <1>2 DEF StartThread
  <2> QED  BY <2>1, PoolFrame
<1>3. CASE LoopStarted
  <2>1. loops' = Append(loops, Len(loops) + 1) /\ UNCHANGED <<next, listening, nextConnId, ioLoop, phase>>
        /\ phase[Main] = "starting"
    BY <1>3 DEF LoopStarted
  <2>2. ~listening /\ nextConnId = 1 /\ next = 1  BY <2>1 DEF PoolOK
  <2>3. loops \in Seq(Subs)  BY DEF TypeOK
  <2>4. /\ DOMAIN loops' = 1..(Len(loops) + 1) /\ DOMAIN loops = 1..Len(loops) /\ Len(loops) \in Nat
        /\ loops'[Len(loops) + 1] = Len(loops) + 1
        /\ \A i \in DOMAIN loops : loops'[i] = loops[i]
    BY <2>1, <2>3
  <2>5. \A i \in DOMAIN loops' : loops'[i] = i
    <3>1. \A i \in DOMAIN loops' : i \in DOMAIN loops \/ i = Len(loops) + 1  BY <2>4
    <3> QED  BY <2>4, <3>1 DEF PoolOK
  <2>6. PoolOK'  BY <2>1, <2>5 DEF PoolOK
  <2>7. \A l : Load(l)' = 0
    <3>1. \A l : Load(l) = 0  BY <2>2, LoadFacts
    <3>2. \A l : Load(l)' = Load(l)  BY <2>1 DEF Load
    <3> QED  BY <3>1, <3>2
  <2>8. \A i \in DOMAIN loops' : (Load(loops[i]))' = 0 /\ ~(i < 1)
    <3> SUFFICES ASSUME NEW i \in DOMAIN loops' PROVE (Load(loops[i]))' = 0 /\ ~(i < 1)
      OBVIOUS
    <3>1. PICK l : l = loops'[i]  OBVIOUS
    <3>2. (Load(loops[i]))' = Load(l)'  BY <3>1 DEF Load
    <3>3. ~(i < 1)  BY <2>4
    <3> QED  BY <2>7, <3>2, <3>3
  <2>9. InTurn'
    <3>1. \A i \in DOMAIN loops' : (Load(loops[i]))' = IF i < next' THEN 0 + 1 ELSE 0
      BY <2>1, <2>2, <2>8
    <3> QED  BY <3>1 DEF InTurn
  <2> QED  BY <2>6, <2>9
<1>4. CASE Listen
  <2>1. /\ UNCHANGED <<loops, next, nextConnId, ioLoop>> /\ listening' = TRUE
        /\ phase' = [phase EXCEPT ![Main] = "ready"] /\ phase[Main] = "starting"
    BY <1>4 DEF Listen, Goes
  <2>2. phase'[Main] = "ready"  BY <1>t, <2>1
  <2>3. PoolOK'  BY <2>1, <2>2 DEF PoolOK
  <2>4. \A l : Load(l)' = Load(l)  BY <2>1 DEF Load
  <2> QED  BY <2>1, <2>3, <2>4 DEF InTurn
<1>5. CASE Accept  BY <1>5, AcceptInTurn
<1>6. ASSUME NEW l \in Loops, LoopStep(l) \/ RunFunctor(l) \/ Publish(l)
      PROVE  PoolOK' /\ InTurn'
  <2>1. UNCHANGED <<loops, next, listening, nextConnId, ioLoop>>
    BY <1>6 DEF LoopStep, EnterLoop, TestQuit, SwapFunctors, FunctorsDone, Publish, RunFunctor,
                ConnectEstablished, ConnectDestroyed
  <2>2. phase' = phase \/ \E b \in Phases \ {"starting"} : phase' = [phase EXCEPT ![l] = b]
    BY <1>6 DEF LoopStep, EnterLoop, TestQuit, SwapFunctors, FunctorsDone, Publish, RunFunctor, Goes, Phases
  <2>3. phase'[Main] = "starting" => phase[Main] = "starting"  BY <1>t, <2>2
  <2> QED  BY <2>1, <2>3, PoolFrame
<1>7. ASSUME NEW c \in Conns, HandleClose(c) \/ QuitMain(c) \/ DestroyServer(c)
      PROVE  PoolOK' /\ InTurn'
  <2>1. UNCHANGED <<loops, next, listening, nextConnId, ioLoop, phase>>
    BY <1>7 DEF HandleClose, QuitMain, DestroyServer, ConnectDestroyed
  <2> QED  BY <2>1, PoolFrame
<1>8. ASSUME NEW i \in Subs, QuitThread(i) PROVE PoolOK' /\ InTurn'
  <2>1. UNCHANGED <<loops, next, listening, nextConnId, ioLoop, phase>>
    BY <1>8 DEF QuitThread
  <2> QED  BY <2>1, PoolFrame
<1> QED
  BY <1>1, <1>2, <1>3, <1>4, <1>5, <1>6, <1>7, <1>8
  DEF Next, ServerStep, ClientStep, Step
-----------------------------------------------------------------------------
LEMMA InitInv == Init => IInv
<1> SUFFICES ASSUME Init PROVE IInv  OBVIOUS
<1> USE LoopFacts
<1>1. TypeOK
  <2>1. <<>> \in Seq(Subs) /\ <<>> \in Seq(Functors) /\ Len(<<>>) = 0  OBVIOUS
  <2>2. 1 \in 1..(MaxConns + 1) /\ numThreads >= 0 /\ 0 \in 0..numThreads
    BY DEF Init
  <2> QED  BY <2>1, <2>2 DEF Init, TypeOK, NoConn
<1>2. PoolOK /\ BatchOK  BY DEF Init, PoolOK, BatchOK
<1>3. InTurn
  <2>1. DOMAIN loops = {}  BY DEF Init
  <2> QED  BY <2>1 DEF InTurn
<1>4. \A l \in Loops : Work(l) = <<>>
  <2>1. <<>> \o <<>> = <<>>  OBVIOUS
  <2> QED  BY <2>1 DEF Init, Work
<1>5. WorkOK  BY <1>4, GoodEmpty DEF WorkOK
<1>6. ReportsOK /\ Owned /\ Kept
  BY DEF Init, ReportsOK, Owned, Kept
<1>7. LambdaOK
  <2>1. \A d : ~Has(<<>>, "removeConnection", d)  BY DEF Has
  <2> QED  BY <1>4, <2>1, OnceEmpty DEF Init, LambdaOK
<1> QED  BY <1>1, <1>2, <1>3, <1>5, <1>6, <1>7 DEF IInv, ConnInv

LEMMA StepInv == IInv /\ [Next]_vars => IInv'
BY TypeStep, PoolStep, BatchStep, ConnStep DEF IInv

\* For every pool and every number of clients: functors, the lambdas of the
\* closes and connections_ stay in step, whatever the loops and the destructor do.
THEOREM Invariance == Spec => []IInv
<1> QED  BY InitInv, StepInv, PTL DEF Spec

\* TcpServer: the user hears of a connection once and of its end at most once,
\* in that order; no poller holds the channel of a connection nobody owns; and
\* EventLoopThreadPool::getNextLoop keeps the loops' loads within one.
THEOREM InvTheorem == Spec => []Inv
<1>1. ASSUME IInv PROVE Inv
  <2>1. TypeOK /\ UpThenDown  BY <1>1 DEF IInv, ConnInv, ReportsOK, UpThenDown
  <2>2. RegisteredAlive
    <3> SUFFICES ASSUME NEW c \in Conns, registered[c], phase[ioLoop[c]] # "exited"
                 PROVE  Alive(c)
      BY DEF RegisteredAlive
    <3>1. c \in connections \/ Has(Work(ioLoop[c]), "connectDestroyed", c)
      BY <1>1 DEF IInv, ConnInv, Owned
    <3>2. ioLoop[c] \in Loops  BY <2>1 DEF TypeOK
    <3> QED  BY <3>1, <3>2 DEF Alive, Has, Work
  <2>3. Balanced
    <3> SUFFICES ASSUME NEW i \in DOMAIN loops, NEW j \in DOMAIN loops
                 PROVE  Load(loops[i]) <= Load(loops[j]) + 1
      BY DEF Balanced
    <3>1. PICK k \in Nat : \A m \in DOMAIN loops : Load(loops[m]) = IF m < next THEN k + 1 ELSE k
      BY <1>1 DEF IInv, InTurn
    <3>2. Load(loops[i]) \in {k, k + 1} /\ Load(loops[j]) \in {k, k + 1}  BY <3>1
    <3> QED  BY <3>2
  <2> QED  BY <2>1, <2>2, <2>3 DEF Inv
<1> QED  BY Invariance, <1>1, PTL

\* TcpServer::removeConnection: until the server goes, a connection that is up
\* and not in connections_ is one of a pool loop that the lambda of a closed
\* connection of the same loop has taken; no other way loses one, and a
\* connection of the main loop is never lost.
THEOREM LiveStaysTheorem == Spec => []LiveStays
<1>1. ASSUME IInv PROVE LiveStays
  <2> SUFFICES ASSUME phase[Main] # "exited", NEW c \in Conns,
                      state[c] \in {"connecting", "connected"}, c \notin connections
               PROVE  ioLoop[c] # Main /\ \E d \in Conns : /\ took[d] = c /\ ioLoop[d] = ioLoop[c]
                                                          /\ state[d] = "disconnected"
    BY DEF LiveStays
  <2>1. PICK d \in Conns : took[d] = c  BY <1>1 DEF IInv, ConnInv, Kept
  <2>2. c # NoConn  BY LoopFacts
  <2> QED  BY <1>1, <2>1, <2>2 DEF IInv, ConnInv, LambdaOK
<1> QED  BY Invariance, <1>1, PTL
=============================================================================
