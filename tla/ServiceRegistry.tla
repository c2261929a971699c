--------------------------- MODULE ServiceRegistry ---------------------------
(***************************************************************************)
(* How RpcServer::Run registers its services: ZkClient::Start waits for a  *)
(* ZooKeeper session, ZkClient::Append adds the server's line to the znode *)
(* of each service, and the server serves.  Several servers do so at once, *)
(* lose connections, crash; their ephemeral znodes go with their sessions. *)
(*                                                                         *)
(* A run is one execution of a server process, with a session of its own;  *)
(* its line is the run itself, whatever address and weight it holds.  The  *)
(* value of a znode is its lines, each with the offset at which it ends,   *)
(* because Append reads the value into a buffer that may not hold it.      *)
(* Calls are answered while the session is connected, and fail otherwise;  *)
(* a write that fails because the connection is lost may have been done.   *)
(***************************************************************************)
EXTENDS Naturals, Sequences, FiniteSets

CONSTANTS Runs, Services,
          MaxFaults,       \* bound on the lost connections and crashes
          NoNode, Nobody,  \* no znode, and its creator
          Capacity,        \* of the buffer of Append: 1024 bytes in the code
          Size,            \* length of each run's line: at most 31 bytes
          Junk,            \* an uninitialised buffer
          Cut              \* a line without its end

ASSUME RegistryAssumption ==
  /\ IsFiniteSet(Runs) /\ MaxFaults \in Nat
  /\ Capacity \in Nat /\ Size \in [Runs -> 1..Capacity]
  /\ Junk \notin Runs /\ Cut \notin Runs /\ Nobody \notin Runs
  /\ NoNode \notin Seq([who : Runs \cup {Junk, Cut}, end : Nat])

VARIABLES
  node, owner,  \* value and creator of each service's znode
  session,      \* of each run
  events,       \* connected events the watcher has still to be told of
  posted,       \* the semaphore of Start
  faults,
  pc,           \* where each run is in Run, Start or Append
  todo, path,   \* services still to append, and the one in Append
  buf,          \* what zoo_get left in the buffer
  since,        \* who is missing there: cut off, or has written since then
  excused       \* who may be missing from which znode, and why: see below

zkVars == <<node, owner>>
sessionVars == <<session, events, posted, faults>>
appendVars == <<todo, path, buf, since, excused>>
vars == <<zkVars, sessionVars, pc, appendVars>>

Lines == [who : Runs \cup {Junk, Cut}, end : Nat]
Dead == {"crashed", "exited"}
Connected(r) == session[r] = "connected"

\* r's line is in the value q, and begins where another line ends
Found(r, q) == \E i \in DOMAIN q : q[i].who = r /\ (i = 1 \/ q[i - 1].who \in Runs)
Listed(p) == {r \in Runs : node[p] # NoNode /\ Found(r, node[p])}

Line(who, end) == [who |-> who, end |-> end]
Length(q) == IF q = <<>> THEN 0 ELSE q[Len(q)].end
\* the value q, and r's line behind it
WithLine(q, r) == Append(q, Line(r, Length(q) + Size[r]))

Init ==
  /\ node = [p \in Services |-> NoNode] /\ owner = [p \in Services |-> Nobody]
  /\ session = [r \in Runs |-> "none"] /\ events = [r \in Runs |-> 0]
  /\ posted = [r \in Runs |-> FALSE] /\ faults = 0
  /\ pc = [r \in Runs |-> "idle"]
  /\ todo = [r \in Runs |-> Services] /\ path = [r \in Runs |-> Nobody]
  /\ buf = [r \in Runs |-> <<>>] /\ since = [r \in Runs |-> {}] /\ excused = {}

Goto(r, from, to) == pc[r] = from /\ pc' = [pc EXCEPT ![r] = to]
-----------------------------------------------------------------------------
(* ZkClient::Start                                                         *)

\* the process ends, and its memory with it
Die(r) == /\ pc' = [pc EXCEPT ![r] = "crashed"]
          /\ events' = [events EXCEPT ![r] = 0] /\ posted' = [posted EXCEPT ![r] = FALSE]
          /\ path' = [path EXCEPT ![r] = Nobody] /\ buf' = [buf EXCEPT ![r] = <<>>]
          /\ since' = [since EXCEPT ![r] = {}]

\* zookeeper_init, or exit(EXIT_FAILURE)
StartInit(r) ==
  /\ \/ Goto(r, "idle", "handle") /\ session' = [session EXCEPT ![r] = "connecting"]
     \/ Goto(r, "idle", "exited") /\ UNCHANGED session
  /\ UNCHANGED <<zkVars, events, posted, faults, appendVars>>

\* zoo_set_context
SetContext(r) == Goto(r, "handle", "wait") /\ UNCHANGED <<zkVars, sessionVars, appendVars>>

\* sem_wait
SemWait(r) == /\ posted[r] /\ posted' = [posted EXCEPT ![r] = FALSE]
              /\ Goto(r, "wait", "run")
              /\ UNCHANGED <<zkVars, session, events, faults, appendVars>>

\* Mutant: the watcher does not post.
WatcherSilent(r) ==
  /\ events[r] > 0 /\ pc[r] \notin Dead
  /\ events' = [events EXCEPT ![r] = @ - 1]
  /\ UNCHANGED <<zkVars, session, posted, faults, pc, appendVars>>

\* global_watcher, on the thread of the client library.  The context is null
\* before zoo_set_context, and a semaphore that is gone after Start.
Watcher(r) ==
  /\ events[r] > 0 /\ pc[r] \notin Dead
  /\ \/ /\ events' = [events EXCEPT ![r] = @ - 1]
        /\ \/ pc[r] = "wait" /\ posted' = [posted EXCEPT ![r] = TRUE]
           \/ pc[r] \notin {"handle", "wait"} /\ UNCHANGED posted
        /\ UNCHANGED <<pc, path, buf, since>>
     \/ pc[r] # "wait" /\ Die(r)
  /\ UNCHANGED <<zkVars, session, faults, todo, excused>>
-----------------------------------------------------------------------------
(* ZkClient::Append, one call of the library at a time                     *)

\* r has written p: whoever is about to set it has read an older value
Noted(r, p) == [q \in Runs |->
  CASE q = r -> {}
    [] q # r /\ pc[q] = "set" /\ path[q] = p -> since[q] \cup {r}
    [] OTHER -> since[q]]

\* Append returns: its locals are gone
Leave(r) == /\ pc' = [pc EXCEPT ![r] = "run"]
            /\ todo' = [todo EXCEPT ![r] = @ \ {path[r]}]
            /\ path' = [path EXCEPT ![r] = Nobody]
            /\ buf' = [buf EXCEPT ![r] = <<>>]

Forget(r) == since' = [since EXCEPT ![r] = {}]

Excuse(runs, p) == excused' = excused \cup (runs \X {p})

Exists(r) == \E p \in todo[r] :
  /\ pc[r] = "run"
  /\ \/ /\ Connected(r)
        /\ pc' = [pc EXCEPT ![r] = IF node[p] = NoNode THEN "create" ELSE "get"]
        /\ path' = [path EXCEPT ![r] = p] /\ UNCHANGED <<todo, excused>>
     \/ /\ ~Connected(r)
        /\ todo' = [todo EXCEPT ![r] = @ \ {p}] /\ Excuse({r}, p)
        /\ UNCHANGED <<pc, path>>
  /\ UNCHANGED <<zkVars, sessionVars, buf, since>>

\* Mutant: the default state of Append, a persistent znode.
CreatedPersistent(r, p) ==
  /\ node[p] = NoNode
  /\ node' = [node EXCEPT ![p] = WithLine(<<>>, r)] /\ owner' = [owner EXCEPT ![p] = Nobody]
  /\ since' = Noted(r, p)

\* an ephemeral znode that holds r's line
Created(r, p) ==
  /\ node[p] = NoNode
  /\ node' = [node EXCEPT ![p] = WithLine(<<>>, r)] /\ owner' = [owner EXCEPT ![p] = r]
  /\ since' = Noted(r, p)

\* ZNODEEXISTS is an error like any other
Create(r) == LET p == path[r] IN
  /\ pc[r] = "create"
  /\ \/ /\ Connected(r) /\ Created(r, p)
        /\ pc' = [pc EXCEPT ![r] = "get"] /\ UNCHANGED <<todo, path, buf, excused>>
     \/ /\ Connected(r) /\ node[p] # NoNode
        /\ Leave(r) /\ Excuse({r}, p) /\ UNCHANGED <<zkVars, since>>
     \/ /\ ~Connected(r) /\ Leave(r) /\ Excuse({r}, p)
        /\ \/ session[r] = "lost" /\ Created(r, p)
           \/ UNCHANGED <<zkVars, since>>
  /\ UNCHANGED sessionVars

\* What the buffer takes of the value q: its first k lines, and a piece of the
\* next if there is room for it.
Fits(q, k) == /\ k > 0 => q[k].end <= Capacity
              /\ k < Len(q) => q[k + 1].end > Capacity
Prefix(q, k) == LET whole == SubSeq(q, 1, k) IN
  IF k < Len(q) /\ Length(whole) < Capacity THEN Append(whole, Line(Cut, Capacity)) ELSE whole

\* zoo_get: the value, cut off at the size of the buffer.  A failure is logged
\* only, and the buffer is written back as it is.
Get(r) == LET p == path[r] IN
  /\ Goto(r, "get", "set")
  /\ \/ /\ Connected(r) /\ node[p] # NoNode
        /\ \E k \in 0..Len(node[p]) : Fits(node[p], k) /\ buf' = [buf EXCEPT ![r] = Prefix(node[p], k)]
     \/ /\ ~Connected(r) \/ node[p] = NoNode
        /\ buf' = [buf EXCEPT ![r] = <<Line(Junk, Capacity)>>]
  /\ since' = [since EXCEPT ![r] = {q \in Listed(p) \ {r} : ~Found(q, buf'[r])}]
  /\ UNCHANGED <<zkVars, sessionVars, todo, path, excused>>

\* Mutant: the line is appended twice.
WrittenTwice(r, p) ==
  /\ node' = [node EXCEPT ![p] = WithLine(WithLine(buf[r], r), r)]
  /\ since' = Noted(r, p) /\ UNCHANGED owner

\* Mutant: the old value is not written back.
WrittenAlone(r, p) ==
  /\ node' = [node EXCEPT ![p] = WithLine(<<>>, r)]
  /\ since' = Noted(r, p) /\ UNCHANGED owner

\* what is in the buffer, and r's line behind it
Written(r, p) ==
  /\ node' = [node EXCEPT ![p] = WithLine(buf[r], r)]
  /\ since' = Noted(r, p) /\ UNCHANGED owner

\* whose lines cannot be read, once r has set the znode: whoever is missing in
\* the buffer, and r itself behind garbage or a line without its end
Lost(r) == since[r] \cup (IF Found(r, WithLine(buf[r], r)) THEN {} ELSE {r})

\* zoo_set with version -1: whatever has been written since the get is gone
Set(r) == LET p == path[r] IN
  /\ pc[r] = "set" /\ Leave(r)
  /\ \/ /\ Connected(r) /\ node[p] # NoNode
        /\ Written(r, p) /\ Excuse(Lost(r), p)
     \/ /\ Connected(r) /\ node[p] = NoNode
        /\ Excuse({r}, p) /\ Forget(r) /\ UNCHANGED zkVars
     \/ /\ ~Connected(r)
        /\ \/ /\ session[r] = "lost" /\ node[p] # NoNode
              /\ Written(r, p) /\ Excuse(Lost(r) \cup {r}, p)
           \/ Excuse({r}, p) /\ Forget(r) /\ UNCHANGED zkVars
  /\ UNCHANGED sessionVars

\* server.start() and loop(), whatever the appends returned
Serve(r) == /\ todo[r] = {} /\ Goto(r, "run", "serving")
            /\ UNCHANGED <<zkVars, sessionVars, appendVars>>
-----------------------------------------------------------------------------
(* Sessions and crashes                                                    *)

Connect(r) ==
  /\ session[r] \in {"connecting", "lost"} /\ pc[r] \notin Dead
  /\ session' = [session EXCEPT ![r] = "connected"]
  /\ events' = [events EXCEPT ![r] = @ + 1]
  /\ UNCHANGED <<zkVars, posted, faults, pc, appendVars>>

LoseConnection(r) ==
  /\ Connected(r) /\ faults < MaxFaults /\ faults' = faults + 1
  /\ session' = [session EXCEPT ![r] = "lost"]
  /\ UNCHANGED <<zkVars, events, posted, pc, appendVars>>

\* the session times out, and its znodes go with every line in them; the
\* watcher ignores it and the run serves on
Expire(r) ==
  /\ session[r] = "lost" \/ (pc[r] \in Dead /\ session[r] \in {"connecting", "connected"})
  /\ session' = [session EXCEPT ![r] = "ended"]
  /\ node' = [p \in Services |-> IF owner[p] = r THEN NoNode ELSE node[p]]
  /\ owner' = [p \in Services |-> IF owner[p] = r THEN Nobody ELSE owner[p]]
  /\ excused' = excused \cup {e \in Runs \X Services : owner[e[2]] = r /\ e[1] \in Listed(e[2])}
  /\ UNCHANGED <<events, posted, faults, pc, todo, path, buf, since>>

Crash(r) == /\ pc[r] \notin {"idle"} \cup Dead /\ Die(r)
            /\ faults < MaxFaults /\ faults' = faults + 1
            /\ UNCHANGED <<zkVars, session, todo, excused>>

Step(r) == \/ SetContext(r) \/ SemWait(r) \/ Exists(r) \/ Create(r) \/ Get(r)
           \/ Set(r) \/ Serve(r)

Next == \E r \in Runs : \/ StartInit(r) \/ Step(r) \/ Watcher(r) \/ Connect(r)
                        \/ LoseConnection(r) \/ Expire(r) \/ Crash(r)

Fairness == \A r \in Runs : /\ WF_vars(Step(r)) /\ WF_vars(Watcher(r)) /\ WF_vars(Connect(r))
                            /\ WF_vars(pc[r] \in Dead /\ Expire(r))

Spec == Init /\ [][Next]_vars /\ Fairness
-----------------------------------------------------------------------------
TypeOK ==
  /\ node \in [Services -> Seq(Lines) \cup {NoNode}]
  /\ owner \in [Services -> Runs \cup {Nobody}]
  /\ session \in [Runs -> {"none", "connecting", "connected", "lost", "ended"}]
  /\ events \in [Runs -> Nat] /\ posted \in [Runs -> BOOLEAN] /\ faults \in 0..MaxFaults
  /\ pc \in [Runs -> {"idle", "handle", "wait", "run", "create", "get", "set",
                      "serving"} \cup Dead]
  /\ todo \in [Runs -> SUBSET Services] /\ path \in [Runs -> Services \cup {Nobody}]
  /\ buf \in [Runs -> Seq(Lines)] /\ since \in [Runs -> SUBSET Runs]
  /\ excused \subseteq Runs \X Services

\* A run whose append has returned can be read in the znode, with these
\* exceptions and no other: one of its own calls failed; somebody read the znode
\* before the run wrote it and set it afterwards; somebody's buffer did not hold
\* the run's line, or anything at all, and was written back; the run wrote its
\* line behind such a buffer; the session of the znode's creator ended.
ListedUnlessExcused ==
  \A r \in Runs, p \in Services :
    p \notin todo[r] /\ <<r, p>> \notin excused => r \in Listed(p)

\* The run that creates a znode is listed twice, and nobody three times,
\* however the reads and writes of old values interleave.
Times(r, q) == Cardinality({i \in DOMAIN q : q[i].who = r})
ListedTwiceAtMost ==
  \A p \in Services : node[p] # NoNode => \A r \in Runs : Times(r, node[p]) <= 2

\* Behind a full buffer there is one line, which the next append drops: no znode
\* grows beyond the buffer and a line, and garbage or half a line is followed
\* by the line of the last writer alone.
OneBehind ==
  \A p \in Services : node[p] # NoNode =>
    \A i \in DOMAIN node[p] :
      /\ i < Len(node[p]) => node[p][i].end <= Capacity
      /\ node[p][i].who \notin Runs => i = Len(node[p]) - 1

\* What holds of every znode, however the calls of its servers interleave.
Inv == TypeOK /\ ListedTwiceAtMost /\ OneBehind

\* Every run that has begun comes to serve its services or ends: Start does
\* not miss the event it waits for, whenever it comes and however often.
ServesEventually ==
  \A r \in Runs : pc[r] # "idle" ~> pc[r] \in {"serving"} \cup Dead

\* A service none of whose servers is left is not listed for ever.
ForgottenAfterAll ==
  (\A r \in Runs : pc[r] \in {"idle"} \cup Dead)
    ~> (\A p \in Services : node[p] = NoNode) \/ (\E r \in Runs : pc[r] \notin {"idle"} \cup Dead)
=============================================================================
