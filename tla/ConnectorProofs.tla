-------------------------- MODULE ConnectorProofs --------------------------
(***************************************************************************)
(* Proofs about Connector for any number of threads and calls: descriptors *)
(* do not leak, and epoll holds no channel that is gone.  For one thread   *)
(* that calls the client: a client that wants a connection is not          *)
(* abandoned.                                                              *)
(***************************************************************************)
EXTENDS Connector, FiniteSetTheorems, SequenceTheorems, WellFoundedInduction, TLAPS

(* What the loop thread's record is.                                        *)
Sockets == UNION {[D -> Status] : D \in SUBSET Fds}
Events == {"error", "write", "close", "dangling"}
Records == [state_ : {"kDisconnected", "kConnecting", "kConnected"},
            channel_ : Fds \cup {Null}, connection_ : Fds \cup {Null},
            dying : SUBSET Fds, sock : Sockets, epoll : SUBSET Fds,
            queue : Seq(Functors), timer : BOOLEAN, active : SUBSET Events,
            gaveUp : BOOLEAN]

(* close() only takes the descriptor away.                                  *)
LEMMA CloseEffect ==
  ASSUME NEW r \in Records, NEW f
  PROVE  /\ Close(r, f) \in Records
         /\ DOMAIN Close(r, f).sock = DOMAIN r.sock \ {f}
         /\ Close(r, f).epoll = r.epoll \ {f}
         /\ Close(r, f).state_ = r.state_ /\ Close(r, f).channel_ = r.channel_
         /\ Close(r, f).connection_ = r.connection_ /\ Close(r, f).dying = r.dying
         /\ Close(r, f).queue = r.queue /\ Close(r, f).timer = r.timer
         /\ Close(r, f).active = r.active /\ Close(r, f).gaveUp = r.gaveUp
<1>1. [g \in DOMAIN r.sock \ {f} |-> r.sock[g]] \in Sockets
  <2>1. PICK D \in SUBSET Fds : r.sock \in [D -> Status]  BY DEF Records, Sockets
  <2>2. [g \in D \ {f} |-> r.sock[g]] \in [D \ {f} -> Status] /\ D \ {f} \in SUBSET Fds
    BY <2>1
  <2> QED  BY <2>1, <2>2 DEF Sockets
<1>2. Close(r, f) = [r EXCEPT !.sock = [g \in DOMAIN r.sock \ {f} |-> r.sock[g]],
                              !.epoll = r.epoll \ {f}]
  BY DEF Close
<1> QED  BY <1>1, <1>2 DEF Records

(* What the destructors of channels and connections do to a record.         *)
LEMMA DestroyChannelEffect ==
  ASSUME NEW r \in Records
  PROVE  /\ DestroyChannel(r) \in Records
         /\ DOMAIN DestroyChannel(r).sock = DOMAIN r.sock \ {r.channel_}
         /\ DestroyChannel(r).epoll = r.epoll \ {r.channel_}
         /\ DestroyChannel(r).channel_ = Null
         /\ DestroyChannel(r).active \cap {"error", "write"} # {} => r.channel_ = Null
         /\ r.channel_ = Null => DestroyChannel(r) = r
         /\ "close" \in DestroyChannel(r).active => "close" \in r.active
         /\ DestroyChannel(r).state_ = r.state_ /\ DestroyChannel(r).queue = r.queue
         /\ DestroyChannel(r).connection_ = r.connection_ /\ DestroyChannel(r).dying = r.dying
         /\ DestroyChannel(r).timer = r.timer /\ DestroyChannel(r).gaveUp = r.gaveUp
<1>1. CASE r.channel_ = Null
  <2>1. Null \notin DOMAIN r.sock /\ Null \notin r.epoll
    BY NullAssumption DEF Records, Sockets, Fds
  <2> QED  BY <1>1, <2>1 DEF DestroyChannel
<1>2. CASE r.channel_ # Null
  <2>1. PICK c : c = Close(r, r.channel_)  OBVIOUS
  <2>2. DestroyChannel(r) = [c EXCEPT !.channel_ = Null,
                                      !.active = Orphaned(c.active, {"error", "write"})]
    BY <1>2, <2>1 DEF DestroyChannel
  <2>3. /\ c \in Records /\ DOMAIN c.sock = DOMAIN r.sock \ {r.channel_}
        /\ c.epoll = r.epoll \ {r.channel_}
        /\ c.state_ = r.state_ /\ c.queue = r.queue
        /\ c.connection_ = r.connection_ /\ c.dying = r.dying
        /\ c.timer = r.timer /\ c.gaveUp = r.gaveUp /\ c.active = r.active
    BY <2>1, CloseEffect
  <2>4. PICK a : a = Orphaned(c.active, {"error", "write"})  OBVIOUS
  <2>5. /\ a \in SUBSET Events /\ a \cap {"error", "write"} = {}
        /\ "close" \in a => "close" \in r.active
    BY <2>3, <2>4 DEF Orphaned, Events, Records
  <2>6. DestroyChannel(r) = [c EXCEPT !.channel_ = Null, !.active = a]  BY <2>2, <2>4
  <2> QED  BY <1>2, <2>3, <2>5, <2>6 DEF Records
<1> QED  BY <1>1, <1>2

LEMMA DestroyConnectionEffect ==
  ASSUME NEW r \in Records
  PROVE  /\ DestroyConnection(r) \in Records
         /\ DOMAIN DestroyConnection(r).sock = DOMAIN r.sock \ {r.connection_}
         /\ DestroyConnection(r).epoll = r.epoll \ {r.connection_}
         /\ DestroyConnection(r).connection_ = Null
         /\ "close" \in DestroyConnection(r).active => "close" \in r.active /\ r.connection_ = Null
         /\ DestroyConnection(r).active \cap {"error", "write"} = r.active \cap {"error", "write"}
         /\ DestroyConnection(r).state_ = r.state_ /\ DestroyConnection(r).queue = r.queue
         /\ DestroyConnection(r).channel_ = r.channel_ /\ DestroyConnection(r).dying = r.dying
         /\ DestroyConnection(r).timer = r.timer /\ DestroyConnection(r).gaveUp = r.gaveUp
<1>1. CASE r.connection_ = Null
  <2>1. Null \notin DOMAIN r.sock /\ Null \notin r.epoll
    BY NullAssumption DEF Records, Sockets, Fds
  <2> QED  BY <1>1, <2>1 DEF DestroyConnection
<1>2. CASE r.connection_ # Null
  <2>1. PICK c : c = Close(r, r.connection_)  OBVIOUS
  <2>2. DestroyConnection(r) = [c EXCEPT !.connection_ = Null,
                                         !.active = Orphaned(c.active, {"close"})]
    BY <1>2, <2>1 DEF DestroyConnection
  <2>3. /\ c \in Records /\ DOMAIN c.sock = DOMAIN r.sock \ {r.connection_}
        /\ c.epoll = r.epoll \ {r.connection_}
        /\ c.state_ = r.state_ /\ c.queue = r.queue
        /\ c.channel_ = r.channel_ /\ c.dying = r.dying
        /\ c.timer = r.timer /\ c.gaveUp = r.gaveUp /\ c.active = r.active
    BY <2>1, CloseEffect
  <2>4. PICK a : a = Orphaned(c.active, {"close"})  OBVIOUS
  <2>5. /\ a \in SUBSET Events /\ "close" \notin a
        /\ a \cap {"error", "write"} = r.active \cap {"error", "write"}
    BY <2>3, <2>4 DEF Orphaned, Events, Records
  <2>6. DestroyConnection(r) = [c EXCEPT !.connection_ = Null, !.active = a]  BY <2>2, <2>4
  <2> QED  BY <1>2, <2>3, <2>5, <2>6 DEF Records
<1> QED  BY <1>1, <1>2

LEMMA OpenedEffect ==
  ASSUME NEW r \in Records, NEW f \in Fds
  PROVE  /\ Opened(r, f) \in Records
         /\ DOMAIN Opened(r, f).sock = DOMAIN r.sock \cup {f}
         /\ Opened(r, f).epoll = r.epoll /\ Opened(r, f).active = r.active
         /\ Opened(r, f).state_ = r.state_ /\ Opened(r, f).queue = r.queue
         /\ Opened(r, f).channel_ = r.channel_ /\ Opened(r, f).connection_ = r.connection_
         /\ Opened(r, f).dying = r.dying
         /\ Opened(r, f).timer = r.timer /\ Opened(r, f).gaveUp = r.gaveUp
<1>1. PICK k : k = [g \in DOMAIN r.sock \cup {f} |-> IF g = f THEN "connecting" ELSE r.sock[g]]
  OBVIOUS
<1>2. k \in Sockets /\ DOMAIN k = DOMAIN r.sock \cup {f}
  <2>1. PICK D \in SUBSET Fds : r.sock \in [D -> Status]  BY DEF Records, Sockets
  <2>2. k \in [D \cup {f} -> Status] /\ D \cup {f} \in SUBSET Fds  BY <1>1, <2>1 DEF Status
  <2> QED  BY <1>1, <2>1, <2>2 DEF Sockets
<1>3. Opened(r, f) = [r EXCEPT !.sock = k]  BY <1>1 DEF Opened
<1> QED  BY <1>2, <1>3 DEF Records

(* There is a lowest free descriptor, below a socket too many.              *)
LEMMA LeastNatural ==
  ASSUME NEW T \in SUBSET Nat, T # {}
  PROVE  \E x \in T : \A y \in T : ~(y < x)
<1>1. PICK x \in T : \A y \in T : ~(<<y, x>> \in OpToRel(<, Nat))
  BY NatLessThanWellFounded, WFMin
<1>2. \A y \in T : y < x => <<y, x>> \in OpToRel(<, Nat)  BY DEF OpToRel
<1> QED  BY <1>1, <1>2

LEMMA NewFdIsFree ==
  ASSUME NEW r, IsFiniteSet(DOMAIN r.sock), DOMAIN r.sock \subseteq Fds
  PROVE  NewFd(r) \in Fds \ DOMAIN r.sock
<1>1. PICK D, n : D = DOMAIN r.sock /\ n = Cardinality(DOMAIN r.sock)  OBVIOUS
<1>2. n \in Nat /\ IsFiniteSet(D) /\ Cardinality(D) = n  BY <1>1, FS_CardinalityType
<1>3. \E f \in 1 .. n + 1 : f \notin D
  <2> SUFFICES ASSUME 1 .. n + 1 \subseteq D PROVE FALSE  OBVIOUS
  <2>1. Cardinality(1 .. n + 1) = n + 1  BY <1>2, FS_Interval
  <2>2. Cardinality(1 .. n + 1) <= n  BY <1>2, FS_Subset
  <2> QED  BY <1>2, <2>1, <2>2
<1>4. PICK f \in Nat \ {0} : f \notin D /\ f <= n + 1 /\ \A g \in Nat \ {0} : g \notin D => ~(g < f)
  <2>1. PICK T : T = {g \in Nat \ {0} : g \notin D}  OBVIOUS
  <2>2. T \in SUBSET Nat /\ T # {}  BY <1>2, <1>3, <2>1
  <2>3. PICK f \in T : \A y \in T : ~(y < f)  BY <2>2, LeastNatural
  <2>4. f <= n + 1  BY <1>2, <1>3, <2>1, <2>3
  <2> QED  BY <2>1, <2>3, <2>4
<1>5. f \in 1 .. n + 1 /\ f \notin D /\ \A g \in 1 .. f - 1 : g \in D
  BY <1>2, <1>4
<1>6. NewFd(r) \in 1 .. n + 1 /\ NewFd(r) \notin D
  <2>1. NewFd(r) = CHOOSE x \in 1 .. n + 1 : x \notin D /\ \A g \in 1 .. x - 1 : g \in D
    BY <1>1 DEF NewFd
  <2> QED  BY <1>5, <2>1
<1> QED  BY <1>1, <1>2, <1>6 DEF Fds

(* A record in which every descriptor and every registration has its owner. *)
Healthy(r) ==
    /\ r \in Records /\ IsFiniteSet(r.dying)
    /\ r.epoll \subseteq DOMAIN r.sock
    /\ DOMAIN r.sock \subseteq {r.channel_, r.connection_} \cup r.dying
    /\ r.epoll \subseteq {r.channel_, r.connection_} \ r.dying
    /\ r.dying \subseteq DOMAIN r.sock /\ r.channel_ \notin r.dying
    /\ r.connection_ # Null => /\ r.connection_ \in DOMAIN r.sock \ r.dying
                               /\ r.connection_ # r.channel_
    /\ r.active \cap {"error", "write"} # {} => r.channel_ \in r.epoll
    /\ ~({"error", "write"} \subseteq r.active)
    /\ "close" \in r.active => r.connection_ # Null

LEMMA HealthyNewFd == ASSUME NEW r, Healthy(r) PROVE NewFd(r) \in Fds \ DOMAIN r.sock
<1>1. DOMAIN r.sock \subseteq Fds
  BY DEF Healthy, Records, Sockets
<1>2. IsFiniteSet({r.channel_, r.connection_} \cup r.dying)
  <2>1. IsFiniteSet({r.channel_}) /\ IsFiniteSet({r.connection_})  BY FS_Singleton
  <2>2. IsFiniteSet({r.channel_} \cup {r.connection_})  BY <2>1, FS_Union
  <2>3. IsFiniteSet(({r.channel_} \cup {r.connection_}) \cup r.dying)
    BY <2>2, FS_Union DEF Healthy
  <2>4. ({r.channel_} \cup {r.connection_}) \cup r.dying
          = {r.channel_, r.connection_} \cup r.dying
    OBVIOUS
  <2> QED  BY <2>3, <2>4
<1>3. IsFiniteSet(DOMAIN r.sock)  BY <1>2, FS_Subset DEF Healthy
<1> QED  BY <1>1, <1>3, NewFdIsFree

(* What the functions of Connector do to a healthy record, as far as the    *)
(* properties ask.                                                          *)
LEMMA ConnectingEffect ==
  ASSUME NEW r, Healthy(r), NEW f \in Fds \ DOMAIN r.sock,
         NEW q, q = connecting(Opened(r, f), f)
  PROVE  /\ Healthy(q)
         /\ q.state_ = "kConnecting" /\ q.channel_ = f
         /\ q.queue = r.queue /\ q.timer = r.timer /\ q.gaveUp = r.gaveUp
         /\ f # r.channel_ => q.channel_ \in q.epoll
         /\ f = r.channel_ => r.channel_ \notin r.epoll
<1>1. PICK o : o = Opened(r, f)  OBVIOUS
<1>2. PICK d : d = DestroyChannel(o)  OBVIOUS
<1>4. /\ o \in Records /\ DOMAIN o.sock = DOMAIN r.sock \cup {f}
      /\ o.epoll = r.epoll /\ o.active = r.active
      /\ o.state_ = r.state_ /\ o.queue = r.queue
      /\ o.channel_ = r.channel_ /\ o.connection_ = r.connection_ /\ o.dying = r.dying
      /\ o.timer = r.timer /\ o.gaveUp = r.gaveUp
  BY <1>1, OpenedEffect DEF Healthy
<1>5. /\ d \in Records
      /\ DOMAIN d.sock = (DOMAIN r.sock \cup {f}) \ {r.channel_}
      /\ d.epoll = r.epoll \ {r.channel_}
      /\ d.active \cap {"error", "write"} # {} => r.channel_ = Null
      /\ r.channel_ = Null => d.active = r.active
      /\ "close" \in d.active => "close" \in r.active
      /\ d.queue = r.queue /\ d.connection_ = r.connection_ /\ d.dying = r.dying
      /\ d.timer = r.timer /\ d.gaveUp = r.gaveUp
  BY <1>2, <1>4, DestroyChannelEffect
<1>6. q = [d EXCEPT !.state_ = "kConnecting", !.channel_ = f,
                    !.epoll = d.epoll \cup ({f} \cap DOMAIN d.sock)]
  BY <1>1, <1>2 DEF connecting
<1>7. /\ q \in Records /\ q.sock = d.sock /\ q.connection_ = r.connection_ /\ q.dying = r.dying
      /\ q.epoll = d.epoll \cup ({f} \cap DOMAIN d.sock) /\ q.active = d.active
      /\ q.state_ = "kConnecting" /\ q.channel_ = f
      /\ q.queue = r.queue /\ q.timer = r.timer /\ q.gaveUp = r.gaveUp
  BY <1>5, <1>6 DEF Records
<1>8. d.active \cap {"error", "write"} = {}
  <2>1. Null \notin r.epoll  BY NullAssumption DEF Healthy, Records, Fds
  <2> QED  BY <1>5, <2>1 DEF Healthy
<1>9. f \in DOMAIN q.sock <=> f # r.channel_  BY <1>5, <1>7
<1>10. Healthy(q)
  <2>1. q.epoll \subseteq DOMAIN q.sock  BY <1>5, <1>7 DEF Healthy
  <2>2. DOMAIN q.sock \subseteq {q.channel_, q.connection_} \cup q.dying
    BY <1>5, <1>7 DEF Healthy
  <2>3. q.epoll \subseteq {q.channel_, q.connection_} \ q.dying
    BY <1>5, <1>7 DEF Healthy
  <2>4. q.dying \subseteq DOMAIN q.sock /\ q.channel_ \notin q.dying
    BY <1>5, <1>7 DEF Healthy
  <2>5. q.connection_ # Null => q.connection_ \in DOMAIN q.sock \ q.dying /\ q.connection_ # q.channel_
    BY <1>5, <1>7 DEF Healthy
  <2>6. "close" \in q.active => q.connection_ # Null
    BY <1>5, <1>7 DEF Healthy
  <2> QED  BY <1>7, <1>8, <2>1, <2>2, <2>3, <2>4, <2>5, <2>6 DEF Healthy
<1>11. f # r.channel_ => f \in q.epoll  BY <1>7, <1>9
<1>12. f = r.channel_ => r.channel_ \notin r.epoll  BY DEF Healthy
<1> QED  BY <1>7, <1>10, <1>11, <1>12

LEMMA RescheduleEffect ==
  ASSUME NEW r \in Records, NEW q, q = Reschedule(r)
  PROVE  /\ q \in Records
         /\ q.sock = r.sock /\ q.epoll = r.epoll /\ q.active = r.active
         /\ q.state_ = r.state_ /\ q.gaveUp = r.gaveUp
         /\ q.channel_ = r.channel_ /\ q.connection_ = r.connection_ /\ q.dying = r.dying
         /\ connect_ => q.queue = Append(r.queue, "start")
         /\ ~connect_ => q.queue = r.queue
<1>1. Append(r.queue, "start") \in Seq(Functors)  BY DEF Records, Functors
<1> QED  BY <1>1 DEF Reschedule, Records

LEMMA RetryEffect ==
  ASSUME NEW r \in Records, NEW f, NEW q, q = retry(r, f)
  PROVE  /\ q \in Records
         /\ DOMAIN q.sock = DOMAIN r.sock \ {f} /\ q.epoll = r.epoll \ {f}
         /\ q.active = r.active
         /\ q.state_ = "kDisconnected" /\ q.gaveUp = r.gaveUp
         /\ q.channel_ = r.channel_ /\ q.connection_ = r.connection_ /\ q.dying = r.dying
         /\ connect_ => q.queue = Append(r.queue, "start")
         /\ ~connect_ => q.queue = r.queue
<1>1. PICK c : c = Close(r, f)  OBVIOUS
<1>2. PICK e : e = [c EXCEPT !.state_ = "kDisconnected"]  OBVIOUS
<1>3. /\ c \in Records
      /\ DOMAIN c.sock = DOMAIN r.sock \ {f} /\ c.epoll = r.epoll \ {f}
      /\ c.channel_ = r.channel_ /\ c.connection_ = r.connection_ /\ c.dying = r.dying
      /\ c.queue = r.queue /\ c.timer = r.timer
      /\ c.active = r.active /\ c.gaveUp = r.gaveUp
  BY <1>1, CloseEffect
<1>4. /\ e \in Records /\ e.state_ = "kDisconnected"
      /\ DOMAIN e.sock = DOMAIN r.sock \ {f} /\ e.epoll = r.epoll \ {f}
      /\ e.channel_ = r.channel_ /\ e.connection_ = r.connection_ /\ e.dying = r.dying
      /\ e.queue = r.queue /\ e.timer = r.timer
      /\ e.active = r.active /\ e.gaveUp = r.gaveUp
  BY <1>2, <1>3 DEF Records
<1>5. q = Reschedule(e)  BY <1>1, <1>2 DEF retry
<1> QED  BY <1>4, <1>5, RescheduleEffect

(* connect() goes on, tries again, or is given up.                          *)
Attempted(r, q) ==
    /\ q.state_ = "kConnecting" /\ q.channel_ # Null /\ q.queue = r.queue
    /\ \/ q.channel_ \in q.epoll
       \/ q.channel_ = r.channel_ /\ r.channel_ \notin r.epoll
TriedAgain(r, q) ==
    /\ q.queue = Append(r.queue, "start") /\ q.channel_ = r.channel_
    /\ r.channel_ \in r.epoll => q.channel_ \in q.epoll
GivenUp(r, q) ==
    q.queue = r.queue /\ q.channel_ = r.channel_ /\ q.epoll = r.epoll /\ q.gaveUp

LEMMA StartEffect ==
  ASSUME NEW r, Healthy(r), NEW q \in startInLoop(r)
  PROVE  /\ Healthy(q)
         /\ ~connect_ => q = r
         /\ connect_ => Attempted(r, q) \/ TriedAgain(r, q) \/ GivenUp(r, q)
<1>1. PICK f : f = NewFd(r)  OBVIOUS
<1>2. f \in Fds \ DOMAIN r.sock  BY <1>1, HealthyNewFd
<1>3. CASE ~connect_  BY <1>3 DEF startInLoop
<1>4. CASE connect_ /\ q = connecting(Opened(r, f), f)
  <2>1. f # Null  BY <1>2, NullAssumption DEF Fds
  <2>2. /\ Healthy(q) /\ q.state_ = "kConnecting" /\ q.channel_ = f /\ q.queue = r.queue
        /\ f # r.channel_ => q.channel_ \in q.epoll
        /\ f = r.channel_ => r.channel_ \notin r.epoll
    BY ONLY Healthy(r), <1>2, <1>4, ConnectingEffect
  <2>3. Attempted(r, q)  BY <2>1, <2>2 DEF Attempted
  <2> QED  BY <1>4, <2>2, <2>3
<1>5. CASE connect_ /\ q = retry(Opened(r, f), f)
  <2>1. PICK o : o = Opened(r, f)  OBVIOUS
  <2>2. /\ o \in Records /\ DOMAIN o.sock = DOMAIN r.sock \cup {f}
        /\ o.epoll = r.epoll /\ o.active = r.active /\ o.queue = r.queue
        /\ o.channel_ = r.channel_ /\ o.connection_ = r.connection_ /\ o.dying = r.dying
    BY <1>2, <2>1, OpenedEffect DEF Healthy
  <2>3. /\ q \in Records /\ DOMAIN q.sock = DOMAIN o.sock \ {f} /\ q.epoll = o.epoll \ {f}
        /\ q.active = o.active /\ q.queue = Append(o.queue, "start")
        /\ q.channel_ = o.channel_ /\ q.connection_ = o.connection_ /\ q.dying = o.dying
    BY <1>5, <2>1, <2>2, RetryEffect
  <2>4. DOMAIN q.sock = DOMAIN r.sock /\ q.epoll = r.epoll
    BY <1>2, <2>2, <2>3 DEF Healthy
  <2>5. Healthy(q)  BY <2>2, <2>3, <2>4 DEF Healthy
  <2> QED  BY <1>5, <2>2, <2>3, <2>4, <2>5 DEF TriedAgain
<1>6. CASE connect_ /\ q = [r EXCEPT !.gaveUp = TRUE]
  <2>1. Healthy(q) /\ GivenUp(r, q)  BY <1>6 DEF Healthy, Records, GivenUp
  <2> QED  BY <1>6, <2>1
<1> QED  BY <1>1, <1>3, <1>4, <1>5, <1>6 DEF startInLoop, connect

(* The channel is given up, for good or for another attempt.                *)
GivesUp(r, q) ==
    /\ q.channel_ = r.channel_
    /\ connect_ => q.queue = Append(Append(r.queue, "reset"), "start")
    /\ ~connect_ => q.queue = Append(r.queue, "reset")
Established(r, q) == q.state_ = "kConnected" /\ q.channel_ = Null /\ q.queue = r.queue

LEMMA RemoveEffect ==
  ASSUME NEW r, Healthy(r), NEW q, q = removeAndResetChannel(r)
  PROVE  /\ q \in Records /\ q.sock = r.sock /\ q.epoll = r.epoll \ {r.channel_}
         /\ q.active = r.active /\ q.state_ = r.state_ /\ q.channel_ = r.channel_
         /\ q.connection_ = r.connection_ /\ q.dying = r.dying
         /\ q.queue = Append(r.queue, "reset")
<1>1. Append(r.queue, "reset") \in Seq(Functors)  BY DEF Healthy, Records, Functors
<1> QED  BY <1>1 DEF removeAndResetChannel, Healthy, Records

\* what is left of a healthy record whose channel was closed and unregistered
LEMMA ClosedHealthy ==
  ASSUME NEW r, Healthy(r), r.active \cap {"error", "write"} = {}, NEW q \in Records,
         DOMAIN q.sock = DOMAIN r.sock \ {r.channel_}, q.epoll = r.epoll \ {r.channel_},
         q.active = r.active, q.channel_ \in {r.channel_, Null},
         q.connection_ = r.connection_, q.dying = r.dying
  PROVE  Healthy(q)
<1>1. q.epoll \subseteq DOMAIN q.sock  BY DEF Healthy
<1>2. DOMAIN q.sock \subseteq {q.channel_, q.connection_} \cup q.dying  BY DEF Healthy
<1>3. q.epoll \subseteq {q.channel_, q.connection_} \ q.dying  BY DEF Healthy
<1>4. q.dying \subseteq DOMAIN q.sock /\ q.channel_ \notin q.dying
  <2>1. Null \notin r.dying  BY NullAssumption DEF Healthy, Records, Fds
  <2> QED  BY <2>1 DEF Healthy
<1>5. q.connection_ # Null => q.connection_ \in DOMAIN q.sock \ q.dying /\ q.connection_ # q.channel_
  BY DEF Healthy
<1> QED  BY <1>1, <1>2, <1>3, <1>4, <1>5 DEF Healthy

LEMMA GiveUpEffect ==
  ASSUME NEW r, Healthy(r), r.active \cap {"error", "write"} = {},
         NEW q, q = retry(removeAndResetChannel(r), r.channel_)
  PROVE  Healthy(q) /\ GivesUp(r, q) /\ q.state_ = "kDisconnected"
<1>1. PICK d : d = removeAndResetChannel(r)  OBVIOUS
<1>2. /\ d \in Records /\ d.sock = r.sock /\ d.epoll = r.epoll \ {r.channel_}
      /\ d.active = r.active /\ d.state_ = r.state_ /\ d.channel_ = r.channel_
      /\ d.connection_ = r.connection_ /\ d.dying = r.dying
      /\ d.queue = Append(r.queue, "reset")
  BY <1>1, RemoveEffect
<1>3. PICK f : f = r.channel_  OBVIOUS
<1>9. q = retry(d, f)  BY <1>1, <1>3
<1>4. /\ q \in Records
      /\ DOMAIN q.sock = DOMAIN d.sock \ {f} /\ q.epoll = d.epoll \ {f}
      /\ q.active = d.active /\ q.state_ = "kDisconnected"
      /\ q.channel_ = d.channel_ /\ q.connection_ = d.connection_ /\ q.dying = d.dying
      /\ connect_ => q.queue = Append(d.queue, "start")
      /\ ~connect_ => q.queue = d.queue
  <2>1. d \in Records  BY <1>2
  <2> QED  BY ONLY <2>1, <1>9, RetryEffect
<1>5. q.epoll = r.epoll \ {r.channel_}  BY <1>2, <1>3, <1>4
<1>6. Healthy(q)  BY <1>2, <1>3, <1>4, <1>5, ClosedHealthy
<1>7. GivesUp(r, q)  BY <1>2, <1>4 DEF GivesUp
<1> QED  BY <1>4, <1>6, <1>7

LEMMA LetGoEffect ==
  ASSUME NEW r, Healthy(r), r.active \cap {"error", "write"} = {}, ~connect_,
         NEW q, q = Close(removeAndResetChannel(r), r.channel_)
  PROVE  Healthy(q) /\ GivesUp(r, q)
<1>1. PICK d : d = removeAndResetChannel(r)  OBVIOUS
<1>2. /\ d \in Records /\ d.sock = r.sock /\ d.epoll = r.epoll \ {r.channel_}
      /\ d.active = r.active /\ d.state_ = r.state_ /\ d.channel_ = r.channel_
      /\ d.connection_ = r.connection_ /\ d.dying = r.dying
      /\ d.queue = Append(r.queue, "reset")
  BY <1>1, RemoveEffect
<1>3. /\ q \in Records
      /\ DOMAIN q.sock = DOMAIN d.sock \ {r.channel_} /\ q.epoll = d.epoll \ {r.channel_}
      /\ q.active = d.active /\ q.queue = d.queue
      /\ q.channel_ = d.channel_ /\ q.connection_ = d.connection_ /\ q.dying = d.dying
  BY <1>1, <1>2, CloseEffect
<1>4. q.epoll = r.epoll \ {r.channel_}  BY <1>2, <1>3
<1>5. Healthy(q)  BY <1>2, <1>3, <1>4, ClosedHealthy
<1> QED  BY <1>2, <1>3, <1>5 DEF GivesUp

LEMMA StopInLoopEffect ==
  ASSUME NEW r, Healthy(r), r.active \cap {"error", "write"} = {}, NEW q, q = stopInLoop(r)
  PROVE  Healthy(q) /\ (q = r \/ GivesUp(r, q))
BY GiveUpEffect DEF stopInLoop

LEMMA NewConnectionEffect ==
  ASSUME NEW r, Healthy(r), r.active \cap {"error", "write"} = {}, r.channel_ \in r.epoll,
         NEW q, q = newConnection(r)
  PROVE  Healthy(q) /\ Established(r, q)
<1>1. PICK d : d = DestroyConnection(r)  OBVIOUS
<1>2. /\ d \in Records
      /\ DOMAIN d.sock = DOMAIN r.sock \ {r.connection_}
      /\ d.epoll = r.epoll \ {r.connection_}
      /\ "close" \in d.active => "close" \in r.active /\ r.connection_ = Null
      /\ d.active \cap {"error", "write"} = r.active \cap {"error", "write"}
      /\ d.queue = r.queue /\ d.dying = r.dying
  BY <1>1, DestroyConnectionEffect DEF Healthy
<1>3. q = [d EXCEPT !.state_ = "kConnected", !.connection_ = r.channel_, !.channel_ = Null]
  BY <1>1 DEF newConnection
<1>4. r.channel_ \in Fds /\ r.channel_ # Null
  BY NullAssumption DEF Healthy, Records, Fds
<1>5. /\ q \in Records /\ q.sock = d.sock /\ q.epoll = d.epoll /\ q.active = d.active
      /\ q.queue = r.queue /\ q.dying = r.dying
      /\ q.state_ = "kConnected" /\ q.connection_ = r.channel_ /\ q.channel_ = Null
  BY <1>2, <1>3, <1>4 DEF Records
<1>6. r.channel_ # r.connection_ /\ r.channel_ \in DOMAIN q.sock \ q.dying
  <2>1. r.channel_ \in DOMAIN r.sock \ r.dying  BY DEF Healthy
  <2>2. r.channel_ # r.connection_  BY <1>4 DEF Healthy
  <2> QED  BY <1>2, <1>5, <2>1, <2>2
<1>7. q.epoll \subseteq DOMAIN q.sock  BY <1>2, <1>5 DEF Healthy
<1>8. DOMAIN q.sock \subseteq {q.channel_, q.connection_} \cup q.dying
  BY <1>2, <1>5 DEF Healthy
<1>9. q.epoll \subseteq {q.channel_, q.connection_} \ q.dying  BY <1>2, <1>5 DEF Healthy
<1>10. q.dying \subseteq DOMAIN q.sock /\ q.channel_ \notin q.dying
  <2>1. Null \notin r.dying  BY NullAssumption DEF Healthy, Records, Fds
  <2>2. r.connection_ \notin r.dying
    <3>1. r.connection_ # Null => r.connection_ \notin r.dying  BY DEF Healthy
    <3> QED  BY <2>1, <3>1
  <2> QED  BY <1>2, <1>5, <2>1, <2>2 DEF Healthy
<1>11. q.active \cap {"error", "write"} = {} /\ ("close" \in q.active => q.connection_ # Null)
  BY <1>2, <1>4, <1>5
<1>12. Healthy(q)
  BY <1>4, <1>5, <1>6, <1>7, <1>8, <1>9, <1>10, <1>11 DEF Healthy
<1> QED  BY <1>5, <1>12 DEF Established

LEMMA HandleWriteEffect ==
  ASSUME NEW r, Healthy(r), r.active \cap {"error", "write"} = {},
         r.channel_ \in r.epoll, NEW q, q = handleWrite(r)
  PROVE  Healthy(q) /\ (q = r \/ GivesUp(r, q) \/ Established(r, q))
<1>1. CASE r.state_ # "kConnecting"
  <2>1. q = r  BY <1>1 DEF handleWrite
  <2> QED  BY <2>1
<1>2. CASE r.state_ = "kConnecting" /\ r.sock[r.channel_] = "failed"
  <2>1. q = retry(removeAndResetChannel(r), r.channel_)  BY <1>2 DEF handleWrite
  <2> QED  BY <2>1, GiveUpEffect
<1>3. CASE r.state_ = "kConnecting" /\ r.sock[r.channel_] # "failed" /\ connect_
  <2>1. q = newConnection(r)  BY <1>3 DEF handleWrite
  <2> QED  BY <2>1, NewConnectionEffect
<1>4. CASE r.state_ = "kConnecting" /\ r.sock[r.channel_] # "failed" /\ ~connect_
  <2>1. q = Close(removeAndResetChannel(r), r.channel_)  BY <1>4 DEF handleWrite
  <2> QED  BY <1>4, <2>1, LetGoEffect
<1> QED  BY <1>1, <1>2, <1>3, <1>4

\* after handleError, handleWrite finds the connector not connecting
LEMMA HandleErrorEffect ==
  ASSUME NEW r, Healthy(r), r.active \cap {"error", "write"} = {},
         NEW q, q = handleWrite(handleError(r))
  PROVE  Healthy(q) /\ (q = r \/ GivesUp(r, q))
<1>1. CASE r.state_ # "kConnecting"
  <2>1. q = r  BY <1>1 DEF handleWrite, handleError
  <2> QED  BY <2>1
<1>2. CASE r.state_ = "kConnecting"
  <2>1. PICK e : e = retry(removeAndResetChannel(r), r.channel_)  OBVIOUS
  <2>2. Healthy(e) /\ GivesUp(r, e) /\ e.state_ = "kDisconnected"  BY <2>1, GiveUpEffect
  <2>3. handleError(r) = e  BY <1>2, <2>1 DEF handleError
  <2>4. q = e  BY <2>2, <2>3 DEF handleWrite
  <2> QED  BY <2>2, <2>4
<1> QED  BY <1>1, <1>2

(* Changes of one field.                                                    *)
LEMMA QueueEffect ==
  ASSUME NEW r, Healthy(r), NEW x \in Seq(Functors), NEW q, q = [r EXCEPT !.queue = x]
  PROVE  /\ Healthy(q) /\ q.queue = x
         /\ q.sock = r.sock /\ q.epoll = r.epoll /\ q.active = r.active
         /\ q.state_ = r.state_ /\ q.gaveUp = r.gaveUp /\ q.timer = r.timer
         /\ q.channel_ = r.channel_ /\ q.connection_ = r.connection_ /\ q.dying = r.dying
BY DEF Healthy, Records

LEMMA TimerEffect ==
  ASSUME NEW r, Healthy(r), NEW b \in BOOLEAN, NEW q, q = [r EXCEPT !.timer = b]
  PROVE  /\ Healthy(q)
         /\ q.queue = r.queue /\ q.epoll = r.epoll /\ q.active = r.active
         /\ q.state_ = r.state_ /\ q.gaveUp = r.gaveUp
         /\ q.channel_ = r.channel_ /\ q.connection_ = r.connection_
BY DEF Healthy, Records

LEMMA TakenEffect ==
  ASSUME NEW r, Healthy(r), NEW e, NEW q, q = [r EXCEPT !.active = r.active \ {e}]
  PROVE  /\ Healthy(q) /\ q.active = r.active \ {e}
         /\ q.queue = r.queue /\ q.epoll = r.epoll /\ q.timer = r.timer
         /\ q.state_ = r.state_ /\ q.gaveUp = r.gaveUp
         /\ q.channel_ = r.channel_ /\ q.connection_ = r.connection_
BY DEF Healthy, Records

LEMMA DestroyKeeps ==
  ASSUME NEW r, Healthy(r), r.active = {}, NEW q, q = DestroyChannel(r)
  PROVE  /\ Healthy(q) /\ q.active = {} /\ q.queue = r.queue /\ q.channel_ = Null
         /\ q.state_ = r.state_ /\ q.gaveUp = r.gaveUp /\ q.timer = r.timer
<1>1. /\ q \in Records
      /\ DOMAIN q.sock = DOMAIN r.sock \ {r.channel_}
      /\ q.epoll = r.epoll \ {r.channel_} /\ q.channel_ = Null
      /\ q.state_ = r.state_ /\ q.queue = r.queue
      /\ q.connection_ = r.connection_ /\ q.dying = r.dying
      /\ q.timer = r.timer /\ q.gaveUp = r.gaveUp
  BY DestroyChannelEffect DEF Healthy
<1>2. q.active = {}
  <2>1. CASE r.channel_ = Null  BY <2>1 DEF DestroyChannel
  <2>2. CASE r.channel_ # Null
    <3>1. PICK c : c = Close(r, r.channel_)  OBVIOUS
    <3>2. q = [c EXCEPT !.channel_ = Null, !.active = Orphaned(c.active, {"error", "write"})]
      BY <2>2, <3>1 DEF DestroyChannel
    <3>3. c \in Records /\ c.active = {}  BY <3>1, CloseEffect DEF Healthy
    <3>4. q.active = Orphaned(c.active, {"error", "write"})  BY <3>2, <3>3 DEF Records
    <3> QED  BY <3>3, <3>4 DEF Orphaned
  <2> QED  BY <2>1, <2>2
<1> QED  BY <1>1, <1>2, ClosedHealthy

(* connectDestroyed: the connection that waited for it is gone.             *)
Untouched(r, q) ==
    /\ q.active = r.active /\ q.queue = r.queue
    /\ q.channel_ = r.channel_ /\ q.epoll = r.epoll
    /\ q.state_ = r.state_ /\ q.gaveUp = r.gaveUp /\ q.timer = r.timer

LEMMA DestroyedEffect ==
  ASSUME NEW r, Healthy(r), NEW f, f \in r.dying, NEW c, c = Close(r, f),
         NEW q, q = [c EXCEPT !.dying = c.dying \ {f}]
  PROVE  Healthy(q) /\ Untouched(r, q)
<1>2. /\ c \in Records
      /\ DOMAIN c.sock = DOMAIN r.sock \ {f} /\ c.epoll = r.epoll \ {f}
      /\ c.state_ = r.state_ /\ c.channel_ = r.channel_
      /\ c.connection_ = r.connection_ /\ c.dying = r.dying
      /\ c.queue = r.queue /\ c.timer = r.timer
      /\ c.active = r.active /\ c.gaveUp = r.gaveUp
  BY CloseEffect DEF Healthy
<1>4. /\ q \in Records /\ q.sock = c.sock /\ q.epoll = c.epoll /\ q.dying = r.dying \ {f}
      /\ q.state_ = r.state_ /\ q.channel_ = r.channel_
      /\ q.connection_ = r.connection_
      /\ q.queue = r.queue /\ q.timer = r.timer
      /\ q.active = r.active /\ q.gaveUp = r.gaveUp
  BY <1>2 DEF Healthy, Records
<1>5. q.epoll = r.epoll /\ DOMAIN q.sock = DOMAIN r.sock \ {f}
  BY <1>2, <1>4 DEF Healthy
<1>6. IsFiniteSet(q.dying)  BY <1>4, FS_Subset DEF Healthy
<1>7. q.epoll \subseteq DOMAIN q.sock  BY <1>5 DEF Healthy
<1>8. DOMAIN q.sock \subseteq {q.channel_, q.connection_} \cup q.dying
  BY <1>4, <1>5 DEF Healthy
<1>9. q.epoll \subseteq {q.channel_, q.connection_} \ q.dying
  BY <1>4, <1>5 DEF Healthy
<1>10. q.dying \subseteq DOMAIN q.sock /\ q.channel_ \notin q.dying
  BY <1>4, <1>5 DEF Healthy
<1>11. q.connection_ # Null => q.connection_ \in DOMAIN q.sock \ q.dying /\ q.connection_ # q.channel_
  BY <1>4, <1>5 DEF Healthy
<1>12. Healthy(q)  BY <1>4, <1>5, <1>6, <1>7, <1>8, <1>9, <1>10, <1>11 DEF Healthy
<1> QED  BY <1>4, <1>5, <1>12 DEF Untouched

(* TcpClient::removeConnection: the connection waits for connectDestroyed.  *)
LEMMA RemovedEffect ==
  ASSUME NEW r, Healthy(r), "close" \in r.active,
         NEW q, q = [r EXCEPT !.active = r.active \ {"close"},
                              !.epoll = r.epoll \ {r.connection_},
                              !.connection_ = Null, !.dying = r.dying \cup {r.connection_},
                              !.queue = Append(r.queue, "destroy")]
  PROVE  /\ Healthy(q) /\ q.queue = Append(r.queue, "destroy")
         /\ q.channel_ = r.channel_ /\ (r.channel_ \in r.epoll => q.channel_ \in q.epoll)
         /\ q.state_ = r.state_ /\ q.gaveUp = r.gaveUp /\ q.timer = r.timer
<1>1. Append(r.queue, "destroy") \in Seq(Functors)  BY DEF Healthy, Records, Functors
<1>2. /\ r.connection_ # Null /\ r.connection_ \in DOMAIN r.sock \ r.dying
      /\ r.connection_ # r.channel_ /\ r.connection_ \in Fds
  BY DEF Healthy, Records
<1>3. /\ q \in Records /\ q.sock = r.sock /\ q.epoll = r.epoll \ {r.connection_}
      /\ q.active = r.active \ {"close"} /\ q.dying = r.dying \cup {r.connection_}
      /\ q.connection_ = Null /\ q.channel_ = r.channel_
      /\ q.queue = Append(r.queue, "destroy")
      /\ q.state_ = r.state_ /\ q.gaveUp = r.gaveUp /\ q.timer = r.timer
  BY <1>1, <1>2 DEF Healthy, Records
<1>4. IsFiniteSet(q.dying)
  <2>1. IsFiniteSet(r.dying) /\ IsFiniteSet({r.connection_})
    BY FS_Singleton DEF Healthy
  <2>2. IsFiniteSet(r.dying \cup {r.connection_})  BY <2>1, FS_Union
  <2> QED  BY <1>3, <2>2
<1>5. q.epoll \subseteq DOMAIN q.sock /\ DOMAIN q.sock \subseteq {q.channel_, q.connection_} \cup q.dying
  BY <1>3 DEF Healthy
<1>6. q.epoll \subseteq {q.channel_, q.connection_} \ q.dying
  BY <1>2, <1>3 DEF Healthy
<1>7. q.dying \subseteq DOMAIN q.sock /\ q.channel_ \notin q.dying
  BY <1>2, <1>3 DEF Healthy
<1>8. q.active \cap {"error", "write"} # {} => q.channel_ \in q.epoll
  BY <1>2, <1>3 DEF Healthy
<1>9. ~({"error", "write"} \subseteq q.active) /\ "close" \notin q.active
  BY <1>3 DEF Healthy
<1>10. Healthy(q)  BY <1>3, <1>4, <1>5, <1>6, <1>7, <1>8, <1>9 DEF Healthy
<1> QED  BY <1>2, <1>3, <1>10

(* What epoll_wait reports.                                                 *)
LEMMA PolledEffect ==
  ASSUME NEW a \in {Ready, {}}, Healthy(s), NEW q, q = [s EXCEPT !.active = a]
  PROVE  /\ Healthy(q) /\ q.queue = s.queue /\ q.epoll = s.epoll /\ q.timer = s.timer
         /\ q.state_ = s.state_ /\ q.gaveUp = s.gaveUp /\ q.channel_ = s.channel_
<1>1. /\ a \in SUBSET Events
      /\ a \cap {"error", "write"} # {} => s.channel_ \in s.epoll
      /\ ~({"error", "write"} \subseteq a)
      /\ "close" \in a => s.connection_ # Null
  <2>1. Null \notin s.epoll  BY NullAssumption DEF Healthy, Records, Fds
  <2>2. CASE a = {}  BY <2>2
  <2>3. CASE a = Ready
    <3>1. PICK w : w = IF s.channel_ \notin s.epoll THEN {}
                       ELSE IF s.sock[s.channel_] = "failed" THEN {"error"}
                       ELSE IF s.sock[s.channel_] = "connecting" THEN {} ELSE {"write"}
      OBVIOUS
    <3>2. PICK c : c = IF s.connection_ \in s.epoll /\ s.sock[s.connection_] \in {"closed", "failed"}
                         THEN {"close"} ELSE {}
      OBVIOUS
    <3>3. a = w \cup c  BY <2>3, <3>1, <3>2 DEF Ready
    <3>4. w \in {{}, {"error"}, {"write"}} /\ (w # {} => s.channel_ \in s.epoll)  BY <3>1
    <3>5. c \in {{}, {"close"}} /\ (c # {} => s.connection_ # Null)  BY <2>1, <3>2
    <3> QED  BY <3>3, <3>4, <3>5 DEF Events
  <2> QED  BY <2>2, <2>3
<1> QED  BY <1>1 DEF Healthy, Records

(* The peer or the network changes a socket.                                *)
LEMMA NetEffect ==
  ASSUME NEW r, Healthy(r), NEW f \in DOMAIN r.sock, NEW to \in Status,
         NEW q, q = [r EXCEPT !.sock[f] = to]
  PROVE  /\ Healthy(q) /\ q.queue = r.queue /\ q.epoll = r.epoll /\ q.timer = r.timer
         /\ q.active = r.active /\ q.state_ = r.state_ /\ q.gaveUp = r.gaveUp
         /\ q.channel_ = r.channel_
<1>1. PICK k : k = [r.sock EXCEPT ![f] = to]  OBVIOUS
<1>2. DOMAIN k = DOMAIN r.sock /\ k \in Sockets
  <2>1. PICK D \in SUBSET Fds : r.sock \in [D -> Status]  BY DEF Healthy, Records, Sockets
  <2>2. k \in [D -> Status]  BY <1>1, <2>1
  <2> QED  BY <2>1, <2>2 DEF Sockets
<1>3. q = [r EXCEPT !.sock = k]  BY <1>1
<1> QED  BY <1>2, <1>3 DEF Healthy, Records
-----------------------------------------------------------------------------
(* The inductive invariant: the record is healthy, no event is left when    *)
(* the functors run, and a batch is part of the queue.                      *)
Phases == {"poll", "timers", "events", "restart", "starting", "functors",
           "nullChannel", "dangling"}
Places == {"idle", "connect", "start", "queueStart", "stop", "queueStop"}

Scalars ==
    /\ connect_ \in BOOLEAN /\ wanted \in BOOLEAN /\ retry_ \in BOOLEAN
    /\ user \in [Threads -> Places]
    /\ connects \in 0 .. MaxConnects /\ stops \in 0 .. MaxStops

IInv ==
    /\ Healthy(s) /\ loop \in Phases
    /\ loop \in {"poll", "functors"} => s.active = {}
    /\ batch \in 0 .. Len(s.queue)

(* The queue only grows, but for the functor that is run.                   *)
LEMMA Grows ==
  ASSUME NEW r, r.queue \in Seq(Functors), NEW q,
         \/ q = r \/ Attempted(r, q) \/ TriedAgain(r, q) \/ GivenUp(r, q)
         \/ GivesUp(r, q) \/ Established(r, q)
         \/ \E f \in Functors : q.queue = Append(r.queue, f)
  PROVE  Len(q.queue) \in Nat /\ Len(q.queue) >= Len(r.queue)
<1>1. r.queue \in Seq(Functors) /\ Len(r.queue) \in Nat  OBVIOUS
<1>2. \A f : Len(Append(r.queue, f)) = Len(r.queue) + 1 /\ Append(r.queue, f) \in Seq(Functors \cup {f})
  BY <1>1
<1>3. CASE q = r \/ Attempted(r, q) \/ Established(r, q)
  BY <1>1, <1>3 DEF Attempted, Established
<1>4. CASE GivenUp(r, q)
  <2>1. q.queue = r.queue  BY <1>4 DEF GivenUp
  <2> QED  BY <1>1, <2>1
<1>5. CASE TriedAgain(r, q) \/ \E f \in Functors : q.queue = Append(r.queue, f)
  BY <1>1, <1>2, <1>5 DEF TriedAgain
<1>6. CASE GivesUp(r, q)
  <2>1. Append(r.queue, "reset") \in Seq(Functors)  BY <1>1 DEF Functors
  <2>2. Len(Append(r.queue, "reset")) = Len(r.queue) + 1  BY <1>1
  <2>3. Len(Append(Append(r.queue, "reset"), "start")) = Len(r.queue) + 2  BY <1>1, <2>1, <2>2
  <2>4. q.queue = Append(r.queue, "reset") \/ q.queue = Append(Append(r.queue, "reset"), "start")
    BY <1>6 DEF GivesUp
  <2> QED  BY <1>1, <2>2, <2>3, <2>4
<1> QED  BY <1>3, <1>4, <1>5, <1>6

(* The record without the functor that is run.                              *)
LEMMA RestEffect ==
  ASSUME IInv, NEW f, Next1(f), NEW r, r = Rest
  PROVE  /\ Healthy(r) /\ r.active = {} /\ r.queue = Tail(s.queue)
         /\ s.queue # <<>> /\ Head(s.queue) = f
         /\ r.epoll = s.epoll /\ r.dying = s.dying
         /\ r.state_ = s.state_ /\ r.gaveUp = s.gaveUp /\ r.timer = s.timer
         /\ r.channel_ = s.channel_ /\ r.connection_ = s.connection_
         /\ batch - 1 \in 0 .. Len(r.queue)
<1>1. s.queue \in Seq(Functors) /\ s.queue # <<>> /\ batch \in Nat /\ batch > 0
      /\ s.active = {} /\ Head(s.queue) = f
  BY DEF IInv, Next1, Healthy, Records
<1>2. Tail(s.queue) \in Seq(Functors) /\ Len(Tail(s.queue)) = Len(s.queue) - 1
  BY <1>1
<1>3. r = [s EXCEPT !.queue = Tail(s.queue)]  BY DEF Rest
<1>4. batch - 1 \in 0 .. Len(Tail(s.queue))  BY <1>1, <1>2 DEF IInv
<1>5. Healthy(s)  BY DEF IInv
<1>6. /\ Healthy(r) /\ r.queue = Tail(s.queue)
      /\ r.epoll = s.epoll /\ r.dying = s.dying /\ r.active = s.active
      /\ r.state_ = s.state_ /\ r.gaveUp = s.gaveUp /\ r.timer = s.timer
      /\ r.channel_ = s.channel_ /\ r.connection_ = s.connection_
  <2>1. PICK x : x = Tail(s.queue)  OBVIOUS
  <2>2. x \in Seq(Functors) /\ r = [s EXCEPT !.queue = x]  BY <1>2, <1>3, <2>1
  <2>3. /\ Healthy(r) /\ r.queue = x
        /\ r.epoll = s.epoll /\ r.dying = s.dying /\ r.active = s.active
        /\ r.state_ = s.state_ /\ r.gaveUp = s.gaveUp /\ r.timer = s.timer
        /\ r.channel_ = s.channel_ /\ r.connection_ = s.connection_
    BY ONLY <1>5, <2>2, QueueEffect
  <2> QED  BY <2>1, <2>3
<1> QED  BY <1>1, <1>2, <1>4, <1>6

LEMMA IInit == Init => IInv /\ Scalars
<1> SUFFICES ASSUME Init PROVE IInv /\ Scalars  OBVIOUS
<1> USE DEF Init
<1>1. <<>> \in Seq(Functors)  OBVIOUS
<1>2. s.sock \in Sockets /\ DOMAIN s.sock = {}
  <2>1. <<>> \in [{} -> Status]  OBVIOUS
  <2> QED  BY <2>1 DEF Sockets
<1>3. s \in Records  BY <1>1, <1>2 DEF Records
<1>4. IsFiniteSet({})  BY FS_EmptySet
<1>5. Healthy(s)  BY <1>2, <1>3, <1>4 DEF Healthy
<1>6. Scalars
  <2>1. connects \in 0 .. MaxConnects /\ stops \in 0 .. MaxStops  BY BoundAssumption
  <2>2. connect_ \in BOOLEAN /\ wanted \in BOOLEAN /\ retry_ \in BOOLEAN  OBVIOUS
  <2>3. user \in [Threads -> Places]  BY DEF Places
  <2> QED  BY <2>1, <2>2, <2>3 DEF Scalars
<1>7. loop \in Phases /\ s.active = {} /\ batch \in 0 .. Len(s.queue)  BY DEF Phases
<1> QED  BY <1>5, <1>6, <1>7 DEF IInv

(* What each step of the loop thread that changes the record does to it.    *)
Started(r, q) ==
    /\ ~connect_ => q = r
    /\ connect_ => Attempted(r, q) \/ TriedAgain(r, q) \/ GivenUp(r, q)
Alike(r, q) ==
    /\ q.queue = r.queue /\ q.channel_ = r.channel_ /\ q.state_ = r.state_
    /\ q.gaveUp = r.gaveUp /\ q.epoll = r.epoll

LEMMA StartsNow ==
  ASSUME IInv, FireTimer \/ RestartConnects
  PROVE  Healthy(s') /\ \E r : Alike(s, r) /\ Started(r, s')
<1>1. Healthy(s)  BY DEF IInv
<1>2. CASE FireTimer
  <2>1. PICK more \in BOOLEAN : s' \in startInLoop([s EXCEPT !.timer = more])
    BY <1>2 DEF FireTimer
  <2>2. PICK r : r = [s EXCEPT !.timer = more]  OBVIOUS
  <2>3. /\ Healthy(r) /\ r.queue = s.queue /\ r.epoll = s.epoll
        /\ r.state_ = s.state_ /\ r.gaveUp = s.gaveUp /\ r.channel_ = s.channel_
    BY <1>1, <2>2, TimerEffect
  <2>4. Healthy(s') /\ Started(r, s')  BY <2>1, <2>2, <2>3, StartEffect DEF Started
  <2> QED  BY <2>3, <2>4 DEF Alike
<1>3. CASE RestartConnects
  <2>1. s' \in startInLoop(s)  BY <1>3 DEF RestartConnects
  <2>2. Healthy(s') /\ Started(s, s')  BY <1>1, <2>1, StartEffect DEF Started
  <2> QED  BY <2>2 DEF Alike
<1> QED  BY <1>2, <1>3

LEMMA StartsFromQueue ==
  ASSUME IInv, RunStart
  PROVE  /\ Healthy(s') /\ s'.active = {}
         /\ Healthy(Rest) /\ Rest.active = {} /\ Started(Rest, s')
<1>1. PICK r : r = Rest  OBVIOUS
<1>2. Next1("start") /\ s' \in startInLoop(r)  BY <1>1 DEF RunStart
<1>3. Healthy(r) /\ r.active = {}  BY <1>1, <1>2, RestEffect
<1>4. Healthy(s') /\ Started(r, s')  BY <1>2, <1>3, StartEffect DEF Started
<1>5. s'.active = {}
  <2>1. PICK f : f = NewFd(r)  OBVIOUS
  <2>2. CASE s' = r \/ s' = [r EXCEPT !.gaveUp = TRUE]  BY <1>3, <2>2 DEF Healthy, Records
  <2>3. CASE s' = retry(Opened(r, f), f)
    <3>1. PICK o : o = Opened(r, f)  OBVIOUS
    <3>2. f \in Fds  BY <1>3, <2>1, HealthyNewFd
    <3>3. o \in Records /\ o.active = r.active  BY <1>3, <3>1, <3>2, OpenedEffect DEF Healthy
    <3>4. s'.active = o.active  BY <2>3, <3>1, <3>3, RetryEffect
    <3> QED  BY <1>3, <3>3, <3>4
  <2>4. CASE s' = connecting(Opened(r, f), f)
    <3>1. PICK o : o = Opened(r, f)  OBVIOUS
    <3>2. PICK d : d = DestroyChannel(o)  OBVIOUS
    <3>3. f \in Fds  BY <1>3, <2>1, HealthyNewFd
    <3>4. o \in Records /\ o.active = {}  BY <1>3, <3>1, <3>3, OpenedEffect DEF Healthy
    <3>5. d \in Records /\ d.active = {}
      <4>1. d \in Records  BY <3>2, <3>4, DestroyChannelEffect
      <4>2. CASE o.channel_ = Null  BY <3>2, <3>4, <4>1, <4>2 DEF DestroyChannel
      <4>3. CASE o.channel_ # Null
        <5>1. PICK c : c = Close(o, o.channel_)  OBVIOUS
        <5>2. c \in Records /\ c.active = {}  BY <3>4, <5>1, CloseEffect
        <5>3. d = [c EXCEPT !.channel_ = Null, !.active = Orphaned(c.active, {"error", "write"})]
          BY <3>2, <4>3, <5>1 DEF DestroyChannel
        <5>4. d.active = Orphaned(c.active, {"error", "write"})  BY <5>2, <5>3 DEF Records
        <5> QED  BY <4>1, <5>2, <5>4 DEF Orphaned
      <4> QED  BY <4>1, <4>2, <4>3
    <3>6. s' = [d EXCEPT !.state_ = "kConnecting", !.channel_ = f,
                         !.epoll = d.epoll \cup ({f} \cap DOMAIN d.sock)]
      BY <2>4, <3>1, <3>2 DEF connecting
    <3> QED  BY <3>5, <3>6 DEF Records
  <2> QED  BY <1>2, <2>1, <2>2, <2>3, <2>4 DEF startInLoop, connect
<1> QED  BY <1>1, <1>3, <1>4, <1>5

LEMMA Stops ==
  ASSUME IInv, RunStop
  PROVE  /\ Healthy(s') /\ s'.active = {}
         /\ Healthy(Rest) /\ Rest.active = {} /\ (s' = Rest \/ GivesUp(Rest, s'))
<1>1. PICK r : r = Rest  OBVIOUS
<1>2. Next1("stop")  BY DEF RunStop
<1>3. Healthy(r) /\ r.active = {}  BY <1>1, <1>2, RestEffect
<1>4. s' = r \/ s' = stopInLoop(r)  BY <1>1 DEF RunStop
<1>5. Healthy(s') /\ (s' = r \/ GivesUp(r, s'))  BY <1>3, <1>4, StopInLoopEffect
<1>6. s'.active = {}
  <2>1. CASE s' = r  BY <1>3, <2>1
  <2>2. CASE s' = retry(removeAndResetChannel(r), r.channel_)
    <3>1. PICK d, f : d = removeAndResetChannel(r) /\ f = r.channel_  OBVIOUS
    <3>2. d \in Records /\ d.active = {}  BY <1>3, <3>1, RemoveEffect
    <3>3. s' = retry(d, f)  BY <2>2, <3>1
    <3>4. s'.active = d.active  BY <3>2, <3>3, RetryEffect
    <3> QED  BY <3>2, <3>4
  <2> QED  BY <1>4, <2>1, <2>2 DEF stopInLoop
<1> QED  BY <1>1, <1>3, <1>5, <1>6

LEMMA Resets ==
  ASSUME IInv, RunReset
  PROVE  /\ Healthy(s') /\ s'.active = {} /\ s'.queue = Tail(s.queue) /\ s'.channel_ = Null
         /\ s'.state_ = s.state_ /\ s'.gaveUp = s.gaveUp /\ s'.timer = s.timer
<1>1. PICK r : r = Rest  OBVIOUS
<1>2. Next1("reset") /\ s' = DestroyChannel(r)  BY <1>1 DEF RunReset
<1>3. /\ Healthy(r) /\ r.active = {} /\ r.queue = Tail(s.queue)
      /\ r.state_ = s.state_ /\ r.gaveUp = s.gaveUp /\ r.timer = s.timer
  BY <1>1, <1>2, RestEffect
<1>4. /\ Healthy(s') /\ s'.active = {} /\ s'.queue = r.queue /\ s'.channel_ = Null
      /\ s'.state_ = r.state_ /\ s'.gaveUp = r.gaveUp /\ s'.timer = r.timer
  BY <1>2, <1>3, DestroyKeeps
<1> QED  BY <1>3, <1>4

LEMMA Destroys ==
  ASSUME IInv, RunDestroy
  PROVE  /\ Healthy(s') /\ s'.active = {} /\ s'.queue = Tail(s.queue)
         /\ s'.channel_ = s.channel_ /\ s'.epoll = s.epoll
         /\ s'.state_ = s.state_ /\ s'.gaveUp = s.gaveUp /\ s'.timer = s.timer
<1>1. PICK r : r = Rest  OBVIOUS
<1>2. Next1("destroy")  BY DEF RunDestroy
<1>3. /\ Healthy(r) /\ r.active = {} /\ r.queue = Tail(s.queue) /\ r.dying = s.dying
      /\ r.channel_ = s.channel_ /\ r.epoll = s.epoll
      /\ r.state_ = s.state_ /\ r.gaveUp = s.gaveUp /\ r.timer = s.timer
  BY <1>1, <1>2, RestEffect
<1>4. PICK f : f \in r.dying /\ s' = [Close(r, f) EXCEPT !.dying = @ \ {f}]
  BY <1>1, <1>3 DEF RunDestroy
<1>5. PICK c : c = Close(r, f)  OBVIOUS
<1>6. s' = [c EXCEPT !.dying = c.dying \ {f}]  BY <1>4, <1>5
<1>7. PICK q : q = s'  OBVIOUS
<1>8. Healthy(q) /\ Untouched(r, q)
  <2>1. Healthy(r) /\ f \in r.dying  BY <1>3, <1>4
  <2>2. q = [c EXCEPT !.dying = c.dying \ {f}]  BY <1>6, <1>7
  <2> QED  BY ONLY <1>5, <2>1, <2>2, DestroyedEffect
<1> QED  BY <1>3, <1>7, <1>8 DEF Untouched

LEMMA Handles ==
  ASSUME IInv, HandleWrite \/ HandleError
  PROVE  Healthy(s') /\ \E r : /\ Alike(s, r) /\ r.timer = s.timer
                               /\ s' = r \/ GivesUp(r, s') \/ Established(r, s')
<1>1. Healthy(s)  BY DEF IInv
<1>2. PICK e : /\ e \in {"write", "error"} /\ e \in s.active
               /\ HandleWrite => e = "write"
               /\ HandleError => e = "error"
  <2>1. HandleWrite \/ ~HandleWrite  OBVIOUS
  <2>2. ~(HandleWrite /\ HandleError)
    BY <1>1 DEF HandleWrite, HandleError, Healthy
  <2> QED  BY <2>1, <2>2 DEF HandleWrite, HandleError
<1>3. PICK r : r = [s EXCEPT !.active = s.active \ {e}]  OBVIOUS
<1>4. /\ Healthy(r) /\ r.active = s.active \ {e}
      /\ r.queue = s.queue /\ r.epoll = s.epoll /\ r.timer = s.timer
      /\ r.state_ = s.state_ /\ r.gaveUp = s.gaveUp /\ r.channel_ = s.channel_
  BY ONLY <1>1, <1>3, TakenEffect
<1>5. r.active \cap {"error", "write"} = {} /\ r.channel_ \in r.epoll
  BY <1>1, <1>2, <1>4 DEF Healthy
<1>6. CASE HandleWrite
  <2>1. s' = handleWrite(r)  BY <1>2, <1>3, <1>6 DEF HandleWrite
  <2>2. Healthy(s') /\ (s' = r \/ GivesUp(r, s') \/ Established(r, s'))
    BY <1>4, <1>5, <2>1, HandleWriteEffect
  <2> QED  BY <1>4, <2>2 DEF Alike
<1>7. CASE HandleError
  <2>1. s' = handleWrite(handleError(r))  BY <1>2, <1>3, <1>7 DEF HandleError
  <2>2. Healthy(s') /\ (s' = r \/ GivesUp(r, s'))
    BY <1>4, <1>5, <2>1, HandleErrorEffect
  <2> QED  BY <1>4, <2>2 DEF Alike
<1> QED  BY <1>6, <1>7

LEMMA IStep == IInv /\ [Next]_vars => IInv'
<1> SUFFICES ASSUME IInv, [Next]_vars PROVE IInv'  OBVIOUS
<1>0. /\ Healthy(s) /\ s.queue \in Seq(Functors) /\ loop \in Phases
      /\ loop \in {"poll", "functors"} => s.active = {}
      /\ batch \in 0 .. Len(s.queue) /\ Len(s.queue) \in Nat
  BY DEF IInv, Healthy, Records
\* a step that keeps the phase or leaves for one in which events may be left
<1>a. ASSUME Healthy(s'), Len(s'.queue) >= Len(s.queue), Len(s'.queue) \in Nat,
             UNCHANGED batch, loop' \in Phases,
             loop' \in {"poll", "functors"} => s'.active = {}
      PROVE  IInv'
  BY <1>0, <1>a DEF IInv
<1>b. ASSUME NEW f, Next1(f), batch' = batch - 1, Healthy(s'), s'.active = {}, loop' \in Phases,
             Len(s'.queue) >= Len(Rest.queue), Len(s'.queue) \in Nat
      PROVE  IInv'
  <2>1. batch - 1 \in 0 .. Len(Rest.queue) /\ Len(Rest.queue) \in Nat
    <3>1. PICK r : r = Rest  OBVIOUS
    <3>2. batch - 1 \in 0 .. Len(r.queue) /\ Healthy(r)  BY <1>b, <3>1, RestEffect
    <3> QED  BY <3>1, <3>2 DEF Healthy, Records
  <2>2. batch' \in 0 .. Len(s'.queue)  BY <1>b, <2>1
  <2> QED  BY <1>b, <2>2 DEF IInv
<1>1. CASE PollReports \/ PollReturns
  <2>1. PICK a \in {Ready, {}} : Poll(a)  BY <1>1 DEF PollReports, PollReturns
  <2>2. s' = [s EXCEPT !.active = a] /\ loop' = "timers" /\ UNCHANGED batch  BY <2>1 DEF Poll
  <2>3. PICK q : q = [s EXCEPT !.active = a]  OBVIOUS
  <2>4. Healthy(q) /\ q.queue = s.queue  BY <1>0, <2>3, PolledEffect
  <2> QED  BY <1>0, <1>a, <2>2, <2>3, <2>4 DEF Phases
<1>2. CASE TimersDone \/ HandleDangling \/ FunctorsDone
  BY <1>0, <1>2 DEF TimersDone, HandleDangling, FunctorsDone, IInv, Phases
<1>3. CASE SwapFunctors
  <2>1. loop' = "functors" /\ s.active = {} /\ batch' = Len(s.queue) /\ UNCHANGED s
    BY <1>3 DEF SwapFunctors
  <2> QED  BY <1>0, <2>1 DEF IInv, Phases
<1>4. CASE FireTimer \/ RestartConnects
  <2>1. PICK r : Healthy(s') /\ Alike(s, r) /\ Started(r, s')  BY <1>4, StartsNow
  <2>2. r.queue = s.queue  BY <2>1 DEF Alike
  <2>3. r.queue \in Seq(Functors)  BY <1>0, <2>2
  <2>4. s' = r \/ Attempted(r, s') \/ TriedAgain(r, s') \/ GivenUp(r, s')
    BY <2>1 DEF Started
  <2>5. Len(s'.queue) \in Nat /\ Len(s'.queue) >= Len(r.queue)  BY <2>3, <2>4, Grows
  <2>6. UNCHANGED batch /\ loop' \in {"timers", "events"}
    BY <1>4 DEF FireTimer, RestartConnects
  <2> QED  BY <1>a, <2>1, <2>2, <2>5, <2>6 DEF Phases
<1>5. CASE HandleWrite \/ HandleError
  <2>1. PICK r : /\ Healthy(s') /\ Alike(s, r)
                 /\ s' = r \/ GivesUp(r, s') \/ Established(r, s')
    BY <1>5, Handles
  <2>2. r.queue = s.queue  BY <2>1 DEF Alike
  <2>3. r.queue \in Seq(Functors)  BY <1>0, <2>2
  <2>4. Len(s'.queue) \in Nat /\ Len(s'.queue) >= Len(r.queue)  BY <2>1, <2>3, Grows
  <2>5. UNCHANGED batch /\ loop' = "events"  BY <1>5 DEF HandleWrite, HandleError
  <2> QED  BY <1>a, <2>1, <2>2, <2>4, <2>5 DEF Phases
<1>6. CASE RemoveConnection
  <2>1. Healthy(s') /\ s'.queue = Append(s.queue, "destroy")
    <3>1. PICK q : q = [s EXCEPT !.active = s.active \ {"close"},
                                 !.epoll = s.epoll \ {s.connection_},
                                 !.connection_ = Null, !.dying = s.dying \cup {s.connection_},
                                 !.queue = Append(s.queue, "destroy")]
      OBVIOUS
    <3>2. "close" \in s.active /\ s' = q  BY <1>6, <3>1 DEF RemoveConnection
    <3>3. Healthy(q) /\ q.queue = Append(s.queue, "destroy")
      BY <1>0, <3>1, <3>2, RemovedEffect
    <3> QED  BY <3>2, <3>3
  <2>2. Len(s'.queue) \in Nat /\ Len(s'.queue) >= Len(s.queue)
    BY <1>0, <2>1, Grows DEF Functors
  <2>3. UNCHANGED batch /\ loop' \in {"restart", "events"}  BY <1>6 DEF RemoveConnection
  <2> QED  BY <1>a, <2>1, <2>2, <2>3 DEF Phases
<1>7. CASE Restart
  <2>1. s' = [s EXCEPT !.state_ = "kDisconnected"] /\ loop' = "starting" /\ UNCHANGED batch
    BY <1>7 DEF Restart
  <2>2. Healthy(s') /\ s'.queue = s.queue  BY <1>0, <2>1 DEF Healthy, Records
  <2> QED  BY <1>0, <1>a, <2>1, <2>2 DEF Phases
<1>8. CASE RunStart
  <2>1. Next1("start") /\ batch' = batch - 1 /\ loop' = loop  BY <1>8 DEF RunStart
  <2>2. Healthy(s') /\ s'.active = {} /\ Healthy(Rest) /\ Started(Rest, s')
    BY <1>8, StartsFromQueue
  <2>3. PICK r : r = Rest  OBVIOUS
  <2>4. r.queue \in Seq(Functors)  BY <2>2, <2>3 DEF Healthy, Records
  <2>5. s' = r \/ Attempted(r, s') \/ TriedAgain(r, s') \/ GivenUp(r, s')
    BY <2>2, <2>3 DEF Started
  <2>6. Len(s'.queue) \in Nat /\ Len(s'.queue) >= Len(r.queue)  BY <2>4, <2>5, Grows
  <2> QED  BY <1>0, <1>b, <2>1, <2>2, <2>3, <2>6
<1>9. CASE RunStop
  <2>1. Next1("stop") /\ batch' = batch - 1 /\ loop' \in {loop, "nullChannel"}
    BY <1>9 DEF RunStop
  <2>2. Healthy(s') /\ s'.active = {} /\ Healthy(Rest) /\ (s' = Rest \/ GivesUp(Rest, s'))
    BY <1>9, Stops
  <2>3. PICK r : r = Rest  OBVIOUS
  <2>4. r.queue \in Seq(Functors)  BY <2>2, <2>3 DEF Healthy, Records
  <2>5. Len(s'.queue) \in Nat /\ Len(s'.queue) >= Len(r.queue)
    BY <2>2, <2>3, <2>4, Grows
  <2>6. loop' \in Phases  BY <1>0, <2>1 DEF Phases
  <2> QED  BY <1>b, <2>1, <2>2, <2>3, <2>5, <2>6
<1>10. CASE RunReset \/ RunDestroy
  <2>1. PICK f : Next1(f) /\ batch' = batch - 1 /\ loop' = loop
    BY <1>10 DEF RunReset, RunDestroy
  <2>2. Healthy(s') /\ s'.active = {} /\ s'.queue = Tail(s.queue)
    BY <1>10, Resets, Destroys
  <2>3. Rest.queue = Tail(s.queue)
    <3>1. PICK r : r = Rest  OBVIOUS
    <3>2. r.queue = Tail(s.queue)  BY <2>1, <3>1, RestEffect
    <3> QED  BY <3>1, <3>2
  <2>4. Len(s'.queue) \in Nat  BY <2>2 DEF Healthy, Records
  <2> QED  BY <1>0, <1>b, <2>1, <2>2, <2>3, <2>4
<1>11. CASE NetStep
  <2>1. PICK f \in DOMAIN s.sock, to \in Status : s' = [s EXCEPT !.sock[f] = to]
    BY <1>11 DEF NetStep
  <2>2. PICK q : q = [s EXCEPT !.sock[f] = to]  OBVIOUS
  <2>3. Healthy(q) /\ q.queue = s.queue /\ q.active = s.active  BY <1>0, <2>2, NetEffect
  <2>4. UNCHANGED <<loop, batch>>  BY <1>11 DEF NetStep
  <2> QED  BY <1>0, <1>a, <2>1, <2>2, <2>3, <2>4
<1>12. CASE \E t \in Threads : UserStep(t)
  <2>1. PICK t \in Threads : UserStep(t)  BY <1>12
  <2>2. UNCHANGED <<loop, batch>>  BY <2>1 DEF UserStep
  <2>3. UNCHANGED s \/ \E f \in Functors : Queue(f)
    BY <2>1 DEF UserStep, Connect, Start, Stop, StopConnector, Disconnect, Functors
  <2>4. CASE UNCHANGED s  BY <1>0, <2>2, <2>4 DEF IInv
  <2>5. ASSUME NEW f \in Functors, Queue(f) PROVE IInv'
    <3>1. PICK x : x = Append(s.queue, f)  OBVIOUS
    <3>2. x \in Seq(Functors) /\ Len(x) = Len(s.queue) + 1  BY <1>0, <3>1
    <3>3. PICK q : q = [s EXCEPT !.queue = x]  OBVIOUS
    <3>4. s' = q  BY <2>5, <3>1, <3>3 DEF Queue
    <3>5. Healthy(q) /\ q.queue = x /\ q.active = s.active
      BY <1>0, <3>2, <3>3, QueueEffect
    <3> QED  BY <1>0, <1>a, <2>2, <3>2, <3>4, <3>5
  <2> QED  BY <2>3, <2>4, <2>5
<1>13. CASE UNCHANGED vars  BY <1>13 DEF vars, IInv
<1> QED
  BY <1>1, <1>2, <1>3, <1>4, <1>5, <1>6, <1>7, <1>8, <1>9, <1>10, <1>11, <1>12, <1>13
     DEF Next, LoopStep, LoopMoves

LEMMA ScalarsStep == Scalars /\ [Next]_vars => Scalars'
<1> SUFFICES ASSUME Scalars, [Next]_vars PROVE Scalars'  OBVIOUS
<1>1. CASE UNCHANGED vars  BY <1>1 DEF vars, Scalars
<1>2. CASE LoopStep \/ NetStep
  <2>1. UNCHANGED userVars
    BY <1>2 DEF LoopStep, LoopMoves, PollReports, PollReturns, Poll, TimersDone, HandleWrite,
       HandleError, RemoveConnection, Restart, RestartConnects, HandleDangling, SwapFunctors,
       RunStart, RunStop, RunReset, RunDestroy, FunctorsDone, FireTimer, NetStep
  <2>2. connect_' \in {connect_, TRUE}
    BY <1>2 DEF LoopStep, LoopMoves, PollReports, PollReturns, Poll, TimersDone, HandleWrite,
       HandleError, RemoveConnection, Restart, RestartConnects, HandleDangling, SwapFunctors,
       RunStart, RunStop, RunReset, RunDestroy, FunctorsDone, FireTimer, NetStep
  <2> QED  BY <2>1, <2>2 DEF userVars, Scalars
<1>3. CASE \E t \in Threads : UserStep(t)
  <2>1. PICK t \in Threads : UserStep(t)  BY <1>3
  <2>2. connect_' \in {connect_, TRUE, FALSE} /\ wanted' \in {wanted, TRUE, FALSE} /\ retry_' = retry_
    BY <2>1 DEF UserStep, Connect, Start, Stop, StopConnector, Disconnect
  <2>3. user' = user \/ \E p \in Places : user' = [user EXCEPT ![t] = p]
    BY <2>1 DEF UserStep, Connect, Start, Stop, StopConnector, Disconnect, Step, Places
  <2>4. user' \in [Threads -> Places]  BY <2>3 DEF Scalars
  <2>5. /\ connects' = connects \/ (connects < MaxConnects /\ connects' = connects + 1)
        /\ stops' = stops \/ (stops < MaxStops /\ stops' = stops + 1)
    BY <2>1 DEF UserStep, Connect, Start, Stop, StopConnector, Disconnect
  <2>6. connects' \in 0 .. MaxConnects /\ stops' \in 0 .. MaxStops
    BY <2>5, BoundAssumption DEF Scalars
  <2> QED  BY <2>2, <2>4, <2>6 DEF Scalars
<1> QED  BY <1>1, <1>2, <1>3 DEF Next

(* Spec => []IInv and []Scalars, for any number of threads and calls.       *)
THEOREM Invariance == Spec => []IInv /\ []Scalars
<1>1. Spec => []IInv  BY IInit, IStep, PTL DEF Spec
<1>2. Spec => []Scalars  BY IInit, ScalarsStep, PTL DEF Spec
<1> QED  BY <1>1, <1>2, PTL

LEMMA InvFollows == IInv /\ Scalars => Inv
<1> SUFFICES ASSUME IInv, Scalars PROVE Inv  OBVIOUS
<1>1. \A f \in DOMAIN s.sock : f \in Fds /\ s.sock[f] \in Status
  BY DEF IInv, Healthy, Records, Sockets
<1>2. TypeOK
  BY <1>1 DEF IInv, Scalars, Healthy, Records, TypeOK, Phases, Places, Events
<1>3. SocketsOwned /\ RegisteredAlive
  BY DEF IInv, Healthy, SocketsOwned, RegisteredAlive
<1> QED  BY <1>2, <1>3 DEF Inv

(* Descriptors do not leak and epoll holds no channel that is gone or was   *)
(* given up, whatever ::connect() answers, and whenever connect(),          *)
(* disconnect() and stop() are called, by any number of threads.            *)
THEOREM InvTheorem == Spec => []Inv
BY Invariance, InvFollows, PTL
-----------------------------------------------------------------------------
(* NotAbandoned, with one thread that calls the client.  A queued           *)
(* resetChannel is always followed by a startInLoop while an attempt is     *)
(* wanted; a channel that is not registered has a resetChannel on its way;  *)
(* and something is scheduled or under way.                                 *)
Has(q, f) == \E i \in 1 .. Len(q) : q[i] = f
Covered(q) == \E i \in 1 .. Len(q) : q[i] = "start" /\ \A j \in i .. Len(q) : q[j] # "reset"

ResetsCovered(r) == Has(r.queue, "reset") => Covered(r.queue)
ChannelCovered(r) == r.channel_ \in r.epoll \/ r.channel_ = Null \/ Has(r.queue, "reset")
UnderWay(r) ==
    \/ r.state_ = "kConnected" \/ r.gaveUp \/ Has(r.queue, "start") \/ r.timer
    \/ r.state_ = "kConnecting" /\ r.channel_ # Null

Begins(t) == user[t] \in {"start", "queueStart"}

JInv(t) ==
    /\ user[t] \in {"stop", "queueStop"} => ~wanted
    /\ wanted => connect_ \/ user[t] = "start"
    /\ connect_ \/ loop = "restart" => Begins(t) \/ ResetsCovered(s)
    /\ ChannelCovered(s)
    /\ connect_ => loop \in {"starting", "nullChannel"} \/ Begins(t) \/ UnderWay(s)

(* Queues with one functor more or less.                                    *)
LEMMA AppendHas ==
  ASSUME NEW q \in Seq(Functors), NEW f \in Functors
  PROVE  /\ \A g \in Functors : Has(Append(q, f), g) <=> Has(q, g) \/ g = f
         /\ f # "reset" /\ Covered(q) => Covered(Append(q, f))
         /\ f = "start" => Covered(Append(q, f))
<1>1. PICK n, a : n = Len(q) /\ a = Append(q, f)  OBVIOUS
<1>2. /\ n \in Nat /\ Len(a) = n + 1 /\ a[n + 1] = f /\ \A i \in 1 .. n : a[i] = q[i]
      /\ 1 .. Len(a) = 1 .. n \cup {n + 1} /\ \A i \in 1 .. n : i .. Len(a) = i .. n \cup {n + 1}
  BY <1>1
<1>3. ASSUME NEW g \in Functors PROVE Has(a, g) <=> Has(q, g) \/ g = f
  <2>1. Has(a, g) => Has(q, g) \/ g = f  BY <1>1, <1>2 DEF Has
  <2>2. Has(q, g) => Has(a, g)
    <3> SUFFICES ASSUME NEW i \in 1 .. n, q[i] = g PROVE Has(a, g)  BY <1>1 DEF Has
    <3>1. i \in 1 .. Len(a) /\ a[i] = g  BY <1>2
    <3> QED  BY <3>1 DEF Has
  <2>3. g = f => Has(a, g)
    <3>1. n + 1 \in 1 .. Len(a) /\ a[n + 1] = f  BY <1>2
    <3> QED  BY <3>1 DEF Has
  <2> QED  BY <2>1, <2>2, <2>3
<1>4. ASSUME f # "reset", Covered(q) PROVE Covered(a)
  <2>1. PICK i \in 1 .. n : q[i] = "start" /\ \A j \in i .. n : q[j] # "reset"
    BY <1>1, <1>4 DEF Covered
  <2>2. i \in 1 .. Len(a) /\ a[i] = "start"  BY <1>2, <2>1
  <2>3. ASSUME NEW j \in i .. Len(a) PROVE a[j] # "reset"
    <3>1. j \in i .. n \/ j = n + 1  BY <1>2
    <3>2. j \in i .. n => j \in 1 .. n  BY <1>2
    <3> QED  BY <1>2, <1>4, <2>1, <3>1, <3>2
  <2> QED  BY <2>2, <2>3 DEF Covered
<1>5. ASSUME f = "start" PROVE Covered(a)
  <2>1. n + 1 \in 1 .. Len(a) /\ a[n + 1] = "start"  BY <1>2, <1>5
  <2>2. \A j \in n + 1 .. Len(a) : a[j] # "reset"
    <3>1. \A j \in n + 1 .. Len(a) : j = n + 1  BY <1>2
    <3> QED  BY <2>1, <3>1
  <2> QED  BY <2>1, <2>2 DEF Covered
<1> QED  BY <1>1, <1>3, <1>4, <1>5

LEMMA TailHas ==
  ASSUME NEW q \in Seq(Functors), q # <<>>
  PROVE  /\ \A g \in Functors : Has(q, g) <=> Head(q) = g \/ Has(Tail(q), g)
         /\ Covered(q) /\ Head(q) # "start" => Covered(Tail(q))
         /\ Covered(q) /\ Has(Tail(q), "reset") => Covered(Tail(q))
         /\ Covered(q) => Has(q, "start")
<1>1. PICK n, a : n = Len(q) /\ a = Tail(q)  OBVIOUS
<1>2. /\ n \in Nat /\ n >= 1 /\ Len(a) = n - 1 /\ q[1] = Head(q)
      /\ \A i \in 1 .. n - 1 : a[i] = q[i + 1]
  BY <1>1
<1>3. \A i \in 2 .. n : i - 1 \in 1 .. Len(a) /\ a[i - 1] = q[i]  BY <1>2
<1>4. \A i \in 1 .. Len(a) : i + 1 \in 1 .. n /\ a[i] = q[i + 1]  BY <1>2
<1>5. ASSUME NEW g \in Functors PROVE Has(q, g) <=> Head(q) = g \/ Has(a, g)
  <2>1. Head(q) = g => Has(q, g)
    <3>1. 1 \in 1 .. Len(q)  BY <1>1, <1>2
    <3> QED  BY <1>2, <3>1 DEF Has
  <2>2. Has(a, g) => Has(q, g)  BY <1>1, <1>4 DEF Has
  <2>3. Has(q, g) => Head(q) = g \/ Has(a, g)
    <3> SUFFICES ASSUME NEW i \in 1 .. n, q[i] = g PROVE Head(q) = g \/ Has(a, g)
      BY <1>1 DEF Has
    <3>1. i = 1 \/ i \in 2 .. n  BY <1>2
    <3> QED  BY <1>2, <1>3, <3>1 DEF Has
  <2> QED  BY <2>1, <2>2, <2>3
<1>6. ASSUME Covered(q), Head(q) # "start" \/ Has(a, "reset") PROVE Covered(a)
  <2>1. PICK i \in 1 .. n : q[i] = "start" /\ \A j \in i .. n : q[j] # "reset"
    BY <1>1, <1>6 DEF Covered
  <2>2. i # 1
    <3>1. CASE Head(q) # "start"  BY <1>2, <2>1, <3>1
    <3>2. CASE Has(a, "reset")
      <4>1. PICK k \in 1 .. Len(a) : a[k] = "reset"  BY <3>2 DEF Has
      <4>2. q[k + 1] = "reset" /\ k + 1 \in 1 .. n  BY <1>4, <4>1
      <4> QED  BY <2>1, <4>2
    <3> QED  BY <1>6, <3>1, <3>2
  <2>3. i - 1 \in 1 .. Len(a) /\ a[i - 1] = "start"  BY <1>2, <1>3, <2>1, <2>2
  <2>4. ASSUME NEW j \in i - 1 .. Len(a) PROVE a[j] # "reset"
    <3>1. j \in 1 .. Len(a) /\ j + 1 \in i .. n  BY <1>2, <2>2
    <3> QED  BY <1>4, <2>1, <3>1
  <2> QED  BY <2>3, <2>4 DEF Covered
<1>7. Covered(q) => Has(q, "start")  BY DEF Covered, Has
<1> QED  BY <1>1, <1>5, <1>6, <1>7

(* What the outcomes of an attempt leave of the three.                      *)
LEMMA StartedKeeps ==
  ASSUME NEW r, r.queue \in Seq(Functors), NEW q, Started(r, q), connect_, ChannelCovered(r)
  PROVE  ChannelCovered(q) /\ (ResetsCovered(r) => ResetsCovered(q) /\ UnderWay(q))
<1>0. r.queue \in Seq(Functors) /\ "start" \in Functors /\ "reset" \in Functors
  BY DEF Functors
<1>1. CASE Attempted(r, q)
  BY <1>1 DEF Attempted, ResetsCovered, ChannelCovered, UnderWay
<1>2. CASE TriedAgain(r, q)
  <2>1. q.queue = Append(r.queue, "start")  BY <1>2 DEF TriedAgain
  <2>2. Covered(q.queue) /\ Has(q.queue, "start") /\ (Has(r.queue, "reset") => Has(q.queue, "reset"))
    BY <1>0, <2>1, AppendHas
  <2> QED  BY <1>2, <2>2 DEF TriedAgain, ResetsCovered, ChannelCovered, UnderWay
<1>3. CASE GivenUp(r, q)
  BY <1>3 DEF GivenUp, ResetsCovered, ChannelCovered, UnderWay
<1> QED  BY <1>1, <1>2, <1>3 DEF Started

LEMMA GivesUpKeeps ==
  ASSUME NEW r, r.queue \in Seq(Functors), NEW q, GivesUp(r, q)
  PROVE  ChannelCovered(q) /\ (connect_ => ResetsCovered(q) /\ UnderWay(q))
<1>0. /\ r.queue \in Seq(Functors) /\ "start" \in Functors /\ "reset" \in Functors
      /\ Append(r.queue, "reset") \in Seq(Functors)
  BY DEF Functors
<1>1. PICK a : a = Append(r.queue, "reset")  OBVIOUS
<1>2. a \in Seq(Functors) /\ Has(a, "reset")  BY <1>0, <1>1, AppendHas
<1>3. CASE connect_
  <2>1. q.queue = Append(a, "start")  BY <1>1, <1>3 DEF GivesUp
  <2>2. Covered(q.queue) /\ Has(q.queue, "start") /\ Has(q.queue, "reset")
    BY <1>0, <1>2, <2>1, AppendHas
  <2> QED  BY <2>2 DEF ResetsCovered, ChannelCovered, UnderWay
<1>4. CASE ~connect_
  <2>1. q.queue = a  BY <1>1, <1>4 DEF GivesUp
  <2> QED  BY <1>2, <1>4, <2>1 DEF ChannelCovered
<1> QED  BY <1>3, <1>4

\* a functor other than resetChannel that is queued or run
LEMMA AppendKeeps ==
  ASSUME NEW r, Healthy(r), NEW f \in Functors \ {"reset"}, NEW q,
         q.queue = Append(r.queue, f), q.channel_ = r.channel_,
         r.channel_ \in r.epoll => q.channel_ \in q.epoll
  PROVE  /\ ResetsCovered(r) \/ f = "start" => ResetsCovered(q)
         /\ ChannelCovered(r) => ChannelCovered(q)
         /\ f = "start" => UnderWay(q)
         /\ UnderWay(r) /\ q.state_ = r.state_ /\ q.gaveUp = r.gaveUp /\ q.timer = r.timer
              => UnderWay(q)
<1>1. r.queue \in Seq(Functors) /\ "start" \in Functors /\ "reset" \in Functors /\ f \in Functors
  BY DEF Healthy, Records, Functors
<1>2. /\ Has(q.queue, "reset") <=> Has(r.queue, "reset")
      /\ Has(r.queue, "start") => Has(q.queue, "start")
      /\ f = "start" => Has(q.queue, "start") /\ Covered(q.queue)
      /\ Covered(r.queue) => Covered(q.queue)
  BY <1>1, AppendHas
<1> QED  BY <1>2 DEF ResetsCovered, ChannelCovered, UnderWay

LEMMA RestKeeps ==
  ASSUME NEW r, Healthy(r), r.queue # <<>>, NEW q, q.queue = Tail(r.queue), ResetsCovered(r)
  PROVE  /\ ResetsCovered(q)
         /\ Head(r.queue) = "reset" => UnderWay(q)
         /\ ChannelCovered(r) /\ Head(r.queue) # "reset"
              /\ q.channel_ = r.channel_ /\ q.epoll = r.epoll => ChannelCovered(q)
         /\ UnderWay(r) /\ Head(r.queue) # "start" /\ q.channel_ = r.channel_
              /\ q.state_ = r.state_ /\ q.gaveUp = r.gaveUp /\ q.timer = r.timer
              => UnderWay(q)
<1>1. r.queue \in Seq(Functors) /\ "start" \in Functors /\ "reset" \in Functors
  BY DEF Healthy, Records, Functors
<1>2. /\ Has(r.queue, "reset") <=> Head(r.queue) = "reset" \/ Has(q.queue, "reset")
      /\ Has(r.queue, "start") <=> Head(r.queue) = "start" \/ Has(q.queue, "start")
      /\ Covered(r.queue) /\ Head(r.queue) # "start" => Covered(q.queue)
      /\ Covered(r.queue) /\ Has(q.queue, "reset") => Covered(q.queue)
  BY <1>1, TailHas
<1>3. ResetsCovered(q)  BY <1>2 DEF ResetsCovered
<1>4. Head(r.queue) = "reset" => UnderWay(q)
  <2> SUFFICES ASSUME Head(r.queue) = "reset" PROVE UnderWay(q)  OBVIOUS
  <2>1. Covered(r.queue)  BY <1>2 DEF ResetsCovered
  <2>2. Has(r.queue, "start")  BY <1>1, <2>1, TailHas
  <2>3. Has(q.queue, "start")  BY <1>2, <2>2
  <2> QED  BY <2>3 DEF UnderWay
<1> QED  BY <1>2, <1>3, <1>4 DEF ChannelCovered, UnderWay

LEMMA JStep ==
  ASSUME NEW t \in Threads, Threads = {t}, IInv, Scalars, JInv(t), [Next]_vars
  PROVE  JInv(t)'
<1>0. /\ Healthy(s) /\ s.queue \in Seq(Functors)
      /\ user[t] \in {"stop", "queueStop"} => ~wanted
      /\ wanted => connect_ \/ user[t] = "start"
      /\ connect_ \/ loop = "restart" => Begins(t) \/ ResetsCovered(s)
      /\ ChannelCovered(s)
      /\ connect_ => loop \in {"starting", "nullChannel"} \/ Begins(t) \/ UnderWay(s)
  BY DEF IInv, JInv, Healthy, Records
<1> HIDE DEF JInv
\* the thread does nothing, and the loop goes on to an ordinary phase
<1>a. ASSUME UNCHANGED <<connect_, wanted, user>>, loop' # "restart", ChannelCovered(s'),
             connect_ /\ ~Begins(t) => ResetsCovered(s') /\ UnderWay(s')
      PROVE  JInv(t)'
  BY <1>0, <1>a DEF JInv, Begins
<1>b. ASSUME UNCHANGED <<connect_, wanted, user>>, s'.queue = s.queue,
             s'.channel_ = s.channel_, s'.epoll = s.epoll, s'.timer = s.timer,
             s'.state_ = s.state_, s'.gaveUp = s.gaveUp,
             \/ loop' = loop
             \/ loop \notin {"restart", "starting", "nullChannel"} /\ loop' # "restart"
      PROVE  JInv(t)'
  <2>1. ResetsCovered(s') <=> ResetsCovered(s)  BY <1>b DEF ResetsCovered
  <2>2. ChannelCovered(s') <=> ChannelCovered(s)  BY <1>b DEF ChannelCovered
  <2>3. UnderWay(s') <=> UnderWay(s)  BY <1>b DEF UnderWay
  <2> QED  BY <1>0, <1>b, <2>1, <2>2, <2>3 DEF JInv, Begins
<1>1. CASE PollReports \/ PollReturns
  <2>1. PICK a \in {Ready, {}} : Poll(a)  BY <1>1 DEF PollReports, PollReturns
  <2>2. PICK q : q = [s EXCEPT !.active = a]  OBVIOUS
  <2>3. s' = q /\ loop = "poll" /\ loop' = "timers" /\ UNCHANGED <<connect_, wanted, user>>
    BY <2>1, <2>2 DEF Poll, userVars
  <2>4. /\ q.queue = s.queue /\ q.epoll = s.epoll /\ q.timer = s.timer
        /\ q.state_ = s.state_ /\ q.gaveUp = s.gaveUp /\ q.channel_ = s.channel_
    BY <1>0, <2>2, PolledEffect
  <2> QED  BY <1>b, <2>3, <2>4
<1>2. CASE TimersDone \/ HandleDangling \/ FunctorsDone \/ SwapFunctors
  <2>1. /\ UNCHANGED <<s, connect_, wanted, user>>
        /\ loop \notin {"restart", "starting", "nullChannel"} /\ loop' # "restart"
    BY <1>2 DEF TimersDone, HandleDangling, FunctorsDone, SwapFunctors, userVars
  <2> QED  BY <1>b, <2>1
<1>3. CASE FireTimer \/ RestartConnects
  <2>1. PICK r : Alike(s, r) /\ Started(r, s')  BY <1>3, StartsNow
  <2>2. UNCHANGED <<connect_, wanted, user>> /\ loop' # "restart" /\ loop # "restart"
    BY <1>3 DEF FireTimer, RestartConnects, userVars
  <2>3. CASE connect_
    <3>1. ChannelCovered(r) /\ (ResetsCovered(r) <=> ResetsCovered(s))
      BY <1>0, <2>1 DEF Alike, ChannelCovered, ResetsCovered
    <3>2. r.queue \in Seq(Functors)  BY <1>0, <2>1 DEF Alike
    <3>3. ChannelCovered(s') /\ (ResetsCovered(r) => ResetsCovered(s') /\ UnderWay(s'))
      BY <2>1, <2>3, <3>1, <3>2, StartedKeeps
    <3> QED  BY <1>0, <1>a, <2>2, <2>3, <3>1, <3>3
  <2>4. CASE ~connect_
    <3>1. ChannelCovered(s')  BY <1>0, <2>1, <2>4 DEF Alike, Started, ChannelCovered
    <3> QED  BY <1>a, <2>2, <2>4, <3>1
  <2> QED  BY <2>3, <2>4
<1>4. CASE HandleWrite \/ HandleError
  <2>1. PICK r : /\ Alike(s, r) /\ r.timer = s.timer
                 /\ s' = r \/ GivesUp(r, s') \/ Established(r, s')
    BY <1>4, Handles
  <2>2. UNCHANGED <<connect_, wanted, user>> /\ loop' = loop /\ loop = "events"
    BY <1>4 DEF HandleWrite, HandleError, userVars
  <2>3. CASE s' = r  BY <1>b, <2>1, <2>2, <2>3 DEF Alike
  <2>4. CASE GivesUp(r, s')
    <3>1. r.queue \in Seq(Functors)  BY <1>0, <2>1 DEF Alike
    <3>2. ChannelCovered(s') /\ (connect_ => ResetsCovered(s') /\ UnderWay(s'))
      BY <2>4, <3>1, GivesUpKeeps
    <3> QED  BY <1>a, <2>2, <3>2
  <2>5. CASE Established(r, s')
    <3>1. s'.state_ = "kConnected" /\ s'.channel_ = Null /\ s'.queue = s.queue
      BY <2>1, <2>5 DEF Alike, Established
    <3> QED  BY <1>0, <1>a, <2>2, <3>1 DEF ChannelCovered, ResetsCovered, UnderWay
  <2> QED  BY <2>1, <2>3, <2>4, <2>5
<1>5. CASE RemoveConnection
  <2>1. PICK q : q = [s EXCEPT !.active = s.active \ {"close"},
                               !.epoll = s.epoll \ {s.connection_},
                               !.connection_ = Null, !.dying = s.dying \cup {s.connection_},
                               !.queue = Append(s.queue, "destroy")]
    OBVIOUS
  <2>2. /\ "close" \in s.active /\ s' = q /\ UNCHANGED <<connect_, wanted, user>>
        /\ loop = "events" /\ (loop' = "events" \/ (loop' = "restart" /\ wanted))
    BY <1>5, <2>1 DEF RemoveConnection, userVars
  <2>3. /\ q.queue = Append(s.queue, "destroy")
        /\ q.channel_ = s.channel_ /\ (s.channel_ \in s.epoll => q.channel_ \in q.epoll)
        /\ q.state_ = s.state_ /\ q.gaveUp = s.gaveUp /\ q.timer = s.timer
    BY <1>0, <2>1, <2>2 DEF Healthy, Records
  <2>4. /\ ResetsCovered(s) => ResetsCovered(q)
        /\ ChannelCovered(q)
        /\ UnderWay(s) => UnderWay(q)
    <3>1. "destroy" \in Functors \ {"reset"}  BY DEF Functors
    <3> QED  BY <1>0, <2>3, <3>1, AppendKeeps
  <2> QED  BY <1>0, <2>2, <2>4 DEF JInv, Begins
<1>6. CASE Restart
  <2>1. /\ loop = "restart" /\ loop' = "starting" /\ connect_' = TRUE /\ UNCHANGED <<wanted, user>>
        /\ s' = [s EXCEPT !.state_ = "kDisconnected"]
    BY <1>6 DEF Restart, userVars
  <2>2. s'.queue = s.queue /\ s'.channel_ = s.channel_ /\ s'.epoll = s.epoll
    BY <1>0, <2>1 DEF Healthy, Records
  <2> QED  BY <1>0, <2>1, <2>2 DEF JInv, Begins, ResetsCovered, ChannelCovered
<1>7. CASE RunStart
  <2>1. PICK r : r = Rest  OBVIOUS
  <2>2. Next1("start") /\ UNCHANGED <<connect_, wanted, user>> /\ loop' = loop
    BY <1>7 DEF RunStart, userVars
  <2>3. Healthy(r) /\ Started(r, s')  BY <1>7, <2>1, StartsFromQueue
  <2>4. loop = "functors"  BY <2>2 DEF Next1
  <2>5. /\ s.queue # <<>> /\ Head(s.queue) = "start" /\ r.queue = Tail(s.queue)
        /\ r.channel_ = s.channel_ /\ r.epoll = s.epoll
    BY <2>1, <2>2, RestEffect
  <2>6. ChannelCovered(r)
    <3>1. Has(s.queue, "reset") => Has(r.queue, "reset")
      BY <1>0, <2>5, TailHas DEF Functors
    <3> QED  BY <1>0, <2>5, <3>1 DEF ChannelCovered
  <2>7. CASE connect_
    <3>1. ResetsCovered(s) => ResetsCovered(r)  BY <1>0, <2>5, RestKeeps
    <3>2. r.queue \in Seq(Functors)  BY <2>3 DEF Healthy, Records
    <3>3. ChannelCovered(s') /\ (ResetsCovered(r) => ResetsCovered(s') /\ UnderWay(s'))
      BY <2>3, <2>6, <2>7, <3>2, StartedKeeps
    <3> QED  BY <1>0, <1>a, <2>2, <2>4, <2>7, <3>1, <3>3
  <2>8. CASE ~connect_
    <3>1. s' = r  BY <2>3, <2>8 DEF Started
    <3> QED  BY <1>a, <2>2, <2>4, <2>6, <2>8, <3>1
  <2> QED  BY <2>7, <2>8
<1>8. CASE RunStop
  <2>1. PICK r : r = Rest  OBVIOUS
  <2>2. /\ Next1("stop") /\ UNCHANGED <<connect_, wanted, user>>
        /\ loop' \in {loop, "nullChannel"}
    BY <1>8 DEF RunStop, userVars
  <2>3. Healthy(r) /\ (s' = r \/ GivesUp(r, s'))  BY <1>8, <2>1, Stops
  <2>4. loop = "functors" /\ loop' # "restart"  BY <2>2 DEF Next1
  <2>5. /\ s.queue # <<>> /\ Head(s.queue) = "stop" /\ r.queue = Tail(s.queue)
        /\ r.channel_ = s.channel_ /\ r.epoll = s.epoll
        /\ r.state_ = s.state_ /\ r.gaveUp = s.gaveUp /\ r.timer = s.timer
    BY <2>1, <2>2, RestEffect
  <2>6. CASE s' = r
    <3>1. Has(s.queue, "reset") => Has(r.queue, "reset")
      BY <1>0, <2>5, TailHas DEF Functors
    <3>2. ChannelCovered(r)  BY <1>0, <2>5, <3>1 DEF ChannelCovered
    <3>3. ResetsCovered(s) => ResetsCovered(r) /\ (UnderWay(s) => UnderWay(r))
      BY <1>0, <2>5, RestKeeps
    <3> QED  BY <1>0, <1>a, <2>2, <2>4, <2>6, <3>2, <3>3
  <2>7. CASE GivesUp(r, s')
    <3>1. r.queue \in Seq(Functors)  BY <2>3 DEF Healthy, Records
    <3>2. ChannelCovered(s') /\ (connect_ => ResetsCovered(s') /\ UnderWay(s'))
      BY <2>7, <3>1, GivesUpKeeps
    <3> QED  BY <1>a, <2>2, <2>4, <3>2
  <2> QED  BY <2>3, <2>6, <2>7
<1>9. CASE RunReset
  <2>1. Next1("reset") /\ UNCHANGED <<connect_, wanted, user>> /\ loop' = loop
    BY <1>9 DEF RunReset, userVars
  <2>2. s'.queue = Tail(s.queue) /\ s'.channel_ = Null  BY <1>9, Resets
  <2>3. s.queue # <<>> /\ Head(s.queue) = "reset" /\ loop = "functors"
    BY <2>1, RestEffect DEF Next1
  <2>4. ResetsCovered(s) => ResetsCovered(s') /\ UnderWay(s')  BY <1>0, <2>2, <2>3, RestKeeps
  <2>5. ChannelCovered(s')  BY <2>2 DEF ChannelCovered
  <2> QED  BY <1>0, <1>a, <2>1, <2>3, <2>4, <2>5
<1>10. CASE RunDestroy
  <2>1. Next1("destroy") /\ UNCHANGED <<connect_, wanted, user>> /\ loop' = loop
    BY <1>10 DEF RunDestroy, userVars
  <2>2. /\ s'.queue = Tail(s.queue) /\ s'.channel_ = s.channel_ /\ s'.epoll = s.epoll
        /\ s'.state_ = s.state_ /\ s'.gaveUp = s.gaveUp /\ s'.timer = s.timer
    BY <1>10, Destroys
  <2>3. s.queue # <<>> /\ Head(s.queue) = "destroy" /\ loop = "functors"
    BY <2>1, RestEffect DEF Next1
  <2>4. ResetsCovered(s) => ResetsCovered(s') /\ (UnderWay(s) => UnderWay(s'))
    BY <1>0, <2>2, <2>3, RestKeeps
  <2>5. ChannelCovered(s')
    <3>1. Has(s.queue, "reset") => Has(s'.queue, "reset")
      BY <1>0, <2>2, <2>3, TailHas DEF Functors
    <3> QED  BY <1>0, <2>2, <3>1 DEF ChannelCovered
  <2> QED  BY <1>0, <1>a, <2>1, <2>3, <2>4, <2>5
<1>11. CASE NetStep
  <2>1. PICK f \in DOMAIN s.sock, to \in Status : s' = [s EXCEPT !.sock[f] = to]
    BY <1>11 DEF NetStep
  <2>2. PICK q : q = [s EXCEPT !.sock[f] = to]  OBVIOUS
  <2>3. /\ q.queue = s.queue /\ q.epoll = s.epoll /\ q.timer = s.timer
        /\ q.state_ = s.state_ /\ q.gaveUp = s.gaveUp /\ q.channel_ = s.channel_
    BY <1>0, <2>2, NetEffect
  <2>4. UNCHANGED <<loop, connect_, wanted, user>>  BY <1>11 DEF NetStep, userVars
  <2> QED  BY <1>b, <2>1, <2>2, <2>3, <2>4
<1>12. CASE \E u \in Threads : UserStep(u)
  <2>1. UserStep(t)  BY <1>12
  <2>2. user \in [Threads -> Places] /\ loop' = loop  BY <2>1 DEF UserStep, Scalars
  <2>3. \A p : user' = [user EXCEPT ![t] = p] => user'[t] = p  BY <2>2
  <2>4. CASE Connect(t)
    BY <1>0, <2>2, <2>3, <2>4 DEF Connect, Step, JInv, Begins
  <2>5. CASE Start(t)
    <3>1. CASE Step(t, "start", "queueStart") /\ connect_' = TRUE /\ UNCHANGED <<s, wanted>>
      BY <1>0, <2>2, <2>3, <3>1 DEF Step, JInv, Begins
    <3>2. CASE Step(t, "queueStart", "idle") /\ Queue("start") /\ UNCHANGED <<connect_, wanted>>
      <4>1. PICK q : q = [s EXCEPT !.queue = Append(s.queue, "start")]  OBVIOUS
      <4>2. q.queue = Append(s.queue, "start") /\ q.channel_ = s.channel_ /\ q.epoll = s.epoll
        BY <1>0, <4>1 DEF Healthy, Records
      <4>3. "start" \in Functors \ {"reset"}  BY DEF Functors
      <4>4. ResetsCovered(q) /\ ChannelCovered(q) /\ UnderWay(q)
        BY <1>0, <4>2, <4>3, AppendKeeps
      <4>5. s' = q /\ user[t] = "queueStart" /\ user'[t] = "idle"
        BY <2>3, <3>2, <4>1 DEF Queue, Step
      <4> QED  BY <1>0, <2>2, <3>2, <4>4, <4>5 DEF JInv, Begins
    <3> QED  BY <2>5, <3>1, <3>2 DEF Start
  <2>6. CASE Stop(t)
    BY <1>0, <2>2, <2>3, <2>6 DEF Stop, Step, JInv, Begins
  <2>7. CASE StopConnector(t)
    <3>1. CASE Step(t, "stop", "queueStop") /\ connect_' = FALSE /\ UNCHANGED <<s, wanted>>
      BY <1>0, <2>2, <2>3, <3>1 DEF Step, JInv, Begins
    <3>2. CASE Step(t, "queueStop", "idle") /\ Queue("stop") /\ UNCHANGED <<connect_, wanted>>
      <4>1. PICK q : q = [s EXCEPT !.queue = Append(s.queue, "stop")]  OBVIOUS
      <4>2. /\ q.queue = Append(s.queue, "stop") /\ q.channel_ = s.channel_ /\ q.epoll = s.epoll
            /\ q.state_ = s.state_ /\ q.gaveUp = s.gaveUp /\ q.timer = s.timer
        BY <1>0, <4>1 DEF Healthy, Records
      <4>3. "stop" \in Functors \ {"reset"}  BY DEF Functors
      <4>4. /\ ResetsCovered(s) => ResetsCovered(q)
            /\ ChannelCovered(q)
            /\ UnderWay(s) => UnderWay(q)
        BY <1>0, <4>2, <4>3, AppendKeeps
      <4>5. s' = q /\ user[t] = "queueStop" /\ user'[t] = "idle"
        BY <2>3, <3>2, <4>1 DEF Queue, Step
      <4> QED  BY <1>0, <2>2, <3>2, <4>4, <4>5 DEF JInv, Begins
    <3> QED  BY <2>7, <3>1, <3>2 DEF StopConnector
  <2>8. CASE Disconnect(t)
    BY <1>0, <2>2, <2>8 DEF Disconnect, JInv, Begins
  <2> QED  BY <2>1, <2>4, <2>5, <2>6, <2>7, <2>8 DEF UserStep
<1>13. CASE UNCHANGED vars  BY <1>b, <1>13 DEF vars
<1> QED
  BY <1>1, <1>2, <1>3, <1>4, <1>5, <1>6, <1>7, <1>8, <1>9, <1>10, <1>11, <1>12, <1>13
     DEF Next, LoopStep, LoopMoves

LEMMA JFollows ==
  ASSUME NEW t \in Threads, IInv, JInv(t)
  PROVE  NotAbandoned
<1> SUFFICES ASSUME connect_, ~Crashed, loop # "starting", ~Begins(t),
                    s.state_ # "kConnected", ~s.gaveUp, ~Pending("start"), ~s.timer
             PROVE  s.state_ = "kConnecting" /\ s.channel_ \in s.epoll /\ ~Pending("reset")
  BY DEF NotAbandoned, Begins
<1>1. ~Has(s.queue, "start") /\ (Has(s.queue, "reset") <=> Pending("reset"))
  BY DEF Has, Pending
<1>2. ~Has(s.queue, "reset")
  <2>1. ResetsCovered(s)  BY DEF JInv
  <2>2. Covered(s.queue) => Has(s.queue, "start")  BY DEF Covered, Has
  <2> QED  BY <1>1, <2>1, <2>2 DEF ResetsCovered
<1>3. s.state_ = "kConnecting" /\ s.channel_ # Null
  BY <1>1 DEF JInv, UnderWay, Crashed
<1> QED  BY <1>1, <1>2, <1>3 DEF JInv, ChannelCovered

(* A client whose methods one thread calls is never abandoned while it      *)
(* wants a connection, whatever ::connect() answers and however often it    *)
(* is stopped and connected again.                                          *)
THEOREM NotAbandonedTheorem ==
  ASSUME NEW t, Threads = {t}
  PROVE  Spec => []NotAbandoned
<1>0. t \in Threads  OBVIOUS
<1>1. Init => JInv(t)
  BY <1>0 DEF Init, JInv, ResetsCovered, ChannelCovered, Has, Begins
<1>2. IInv /\ Scalars /\ JInv(t) /\ [Next]_vars => JInv(t)'  BY <1>0, JStep
<1>3. IInv /\ JInv(t) => NotAbandoned  BY <1>0, JFollows
<1>4. Spec => []IInv /\ []Scalars  BY Invariance
<1> QED  BY <1>1, <1>2, <1>3, <1>4, PTL DEF Spec
=============================================================================
