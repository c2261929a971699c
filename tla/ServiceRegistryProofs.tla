----------------------- MODULE ServiceRegistryProofs -----------------------
(***************************************************************************)
(* Proofs about ServiceRegistry for any servers, services, faults, buffer  *)
(* and lengths of lines: the exceptions ListedUnlessExcused names are all  *)
(* there are, and no znode grows beyond the buffer and one line.  Both     *)
(* rest on what a server about to call zoo_set holds: everybody who has    *)
(* registered can be read in its buffer, is noted as cut off or as having  *)
(* written since, or is excused.                                           *)
(***************************************************************************)
EXTENDS ServiceRegistry, FiniteSetTheorems, TLAPS

\* A server inside an append is not through with that service.
PathOK == \A r \in Runs : pc[r] \in {"create", "get", "set"} => path[r] \in todo[r]

\* The buffer about to be written back lacks only who is excused, was cut off
\* or has written after it was read.
ReadOK ==
  \A q \in Runs : pc[q] = "set" =>
    \A r \in Runs : path[q] \notin todo[r] /\ <<r, path[q]>> \notin excused =>
      Found(r, buf[q]) \/ r \in since[q]

\* What a buffer holds fits, and only its last piece may be no line: it fills
\* the buffer then.  A value is such a buffer and a line, or a line alone.
BufOK(q) == \A i \in DOMAIN q :
  q[i].end <= Capacity /\ (q[i].who \notin Runs => i = Len(q) /\ q[i].end = Capacity)
NodeOK(q) == \A i \in DOMAIN q :
  /\ i < Len(q) => q[i].end <= Capacity
  /\ q[i].who \notin Runs => i = Len(q) - 1 /\ q[i].end = Capacity /\ q[Len(q)].end > Capacity
BuffersOK == \A r \in Runs : BufOK(buf[r])
NodesOK == \A p \in Services : node[p] # NoNode => NodeOK(node[p])

IInv == TypeOK /\ PathOK /\ ReadOK /\ BuffersOK /\ ListedUnlessExcused /\ NodesOK

LEMMA ListedIsFound ==
  ASSUME NEW p \in Services, NEW r \in Runs
  PROVE  r \in Listed(p) <=> node[p] # NoNode /\ Found(r, node[p])
BY DEF Listed

LEMMA ListedIsFoundNext ==
  ASSUME NEW p \in Services, NEW r \in Runs
  PROVE  (r \in Listed(p))' <=> node'[p] # NoNode /\ Found(r, node'[p])
BY DEF Listed

\* The next line of a value: what could be read still can, and who is counted.
LEMMA Appended ==
  ASSUME NEW q \in Seq(Lines), NEW e \in Lines
  PROVE  /\ Append(q, e) \in Seq(Lines) \ {NoNode}
         /\ \A r : Found(r, q) => Found(r, Append(q, e))
         /\ Len(Append(q, e)) = Len(q) + 1 /\ Append(q, e)[Len(q) + 1] = e
         /\ \A i \in DOMAIN q : Append(q, e)[i] = q[i]
         /\ DOMAIN Append(q, e) = 1..(Len(q) + 1) /\ Len(q) \in Nat /\ DOMAIN q = 1..Len(q)
<1>1. Append(q, e) \in Seq(Lines)  OBVIOUS
<1>2. NoNode \notin Seq(Lines)  BY RegistryAssumption DEF Lines
<1>3. DOMAIN Append(q, e) = 1..(Len(q) + 1) /\ Len(q) \in Nat /\ DOMAIN q = 1..Len(q)
      /\ Len(Append(q, e)) = Len(q) + 1
  OBVIOUS
<1>4. Append(q, e)[Len(q) + 1] = e /\ \A i \in DOMAIN q : Append(q, e)[i] = q[i]  OBVIOUS
<1>5. ASSUME NEW r, Found(r, q) PROVE Found(r, Append(q, e))
  <2>1. PICK i \in DOMAIN q : q[i].who = r /\ (i = 1 \/ q[i - 1].who \in Runs)
    BY <1>5 DEF Found
  <2>2. i \in DOMAIN Append(q, e) /\ (i # 1 => i - 1 \in DOMAIN q)  BY <1>3
  <2>3. Append(q, e)[i] = q[i] /\ (i # 1 => Append(q, e)[i - 1] = q[i - 1])  BY <1>4, <2>2
  <2> QED  BY <2>1, <2>2, <2>3 DEF Found
<1> QED  BY <1>1, <1>2, <1>3, <1>4, <1>5

\* A line and where it ends.
LEMMA LineFacts ==
  ASSUME NEW q \in Seq(Lines)
  PROVE  /\ Length(q) \in Nat
         /\ q # <<>> => Len(q) \in DOMAIN q /\ Length(q) = q[Len(q)].end
         /\ \A r \in Runs : /\ Size[r] \in 1..Capacity /\ Line(r, Length(q) + Size[r]) \in Lines
                              /\ WithLine(q, r) = Append(q, Line(r, Length(q) + Size[r]))
         /\ \A w, n : Line(w, n).who = w /\ Line(w, n).end = n
         /\ Line(Junk, Capacity) \in Lines /\ Line(Cut, Capacity) \in Lines
<1> USE RegistryAssumption
<1>1. q # <<>> => Len(q) \in DOMAIN q  OBVIOUS
<1>2. q # <<>> => q[Len(q)] \in Lines  BY <1>1
<1>3. Length(q) \in Nat /\ (q # <<>> => Length(q) = q[Len(q)].end)  BY <1>2 DEF Length, Lines
<1>4. \A r \in Runs : Size[r] \in 1..Capacity  OBVIOUS
<1>5. \A r \in Runs : Length(q) + Size[r] \in Nat  BY <1>3, <1>4
<1>6. \A r \in Runs : Line(r, Length(q) + Size[r]) \in Lines  BY <1>5 DEF Lines, Line
<1>7. Line(Junk, Capacity) \in Lines /\ Line(Cut, Capacity) \in Lines  BY DEF Lines, Line
<1> QED  BY <1>1, <1>3, <1>4, <1>6, <1>7 DEF WithLine, Line

\* What zoo_create and zoo_set store.
LEMMA WithLineFacts ==
  ASSUME NEW q \in Seq(Lines), NEW r \in Runs
  PROVE  /\ WithLine(q, r) \in Seq(Lines) \ {NoNode}
         /\ \A x : Found(x, q) => Found(x, WithLine(q, r))
         /\ BufOK(q) => NodeOK(WithLine(q, r))
<1> DEFINE e == Line(r, Length(q) + Size[r])
           w == Append(q, e)
<1>1. /\ Length(q) \in Nat /\ Size[r] \in 1..Capacity /\ e \in Lines /\ WithLine(q, r) = w
      /\ q # <<>> => Length(q) = q[Len(q)].end
      /\ e.who = r /\ e.end = Length(q) + Size[r]
  BY LineFacts
<1> HIDE DEF e
<1>2. /\ w \in Seq(Lines) \ {NoNode} /\ \A x : Found(x, q) => Found(x, w)
      /\ Len(w) = Len(q) + 1 /\ w[Len(q) + 1] = e
      /\ \A i \in DOMAIN q : w[i] = q[i]
      /\ DOMAIN w = 1..(Len(q) + 1) /\ Len(q) \in Nat /\ DOMAIN q = 1..Len(q)
  BY <1>1, Appended
<1> HIDE DEF w
<1>3. ASSUME BufOK(q) PROVE NodeOK(w)
  <2> SUFFICES ASSUME NEW i \in DOMAIN w
               PROVE  /\ i < Len(w) => w[i].end <= Capacity
                      /\ w[i].who \notin Runs => i = Len(w) - 1 /\ w[i].end = Capacity /\ w[Len(w)].end > Capacity
    BY DEF NodeOK
  <2>1. CASE i \in DOMAIN q
    <3>1. w[i] = q[i] /\ q[i].end <= Capacity
          /\ (q[i].who \notin Runs => i = Len(q) /\ q[i].end = Capacity)
      BY <1>2, <1>3, <2>1 DEF BufOK
    <3>2. ASSUME q[i].who \notin Runs PROVE w[Len(w)].end > Capacity
      <4>1. i = Len(q) /\ q[i].end = Capacity  BY <3>1, <3>2
      <4>2. q # <<>>  BY <2>1
      <4>3. e.end = Capacity + Size[r]  BY <1>1, <4>1, <4>2
      <4>4. Capacity \in Nat /\ Size[r] \in Nat /\ Size[r] > 0  BY <1>1, RegistryAssumption
      <4> QED  BY <1>2, <4>3, <4>4
    <3> QED  BY <1>2, <3>1, <3>2
  <2>2. CASE i = Len(q) + 1
    <3>1. ~(i < Len(w)) /\ w[i].who \in Runs  BY <1>1, <1>2, <2>2
    <3> QED  BY <3>1
  <2> QED  BY <1>2, <2>1, <2>2
<1> QED  BY <1>1, <1>2, <1>3

LEMMA FirstLine ==
  ASSUME NEW r \in Runs
  PROVE  WithLine(<<>>, r) \in Seq(Lines) \ {NoNode} /\ NodeOK(WithLine(<<>>, r))
<1>1. <<>> \in Seq(Lines) /\ BufOK(<<>>)  BY DEF BufOK
<1> QED  BY <1>1, WithLineFacts

\* What zoo_get leaves in the buffer.
LEMMA PrefixFacts ==
  ASSUME NEW q \in Seq(Lines), NEW k \in 0..Len(q), Fits(q, k)
  PROVE  /\ Prefix(q, k) \in Seq(Lines)
         /\ NodeOK(q) => BufOK(Prefix(q, k))
         /\ \A i \in DOMAIN Prefix(q, k) :
              (i \in DOMAIN q /\ Prefix(q, k)[i] = q[i]) \/ Prefix(q, k)[i].who = Cut
<1> DEFINE w == SubSeq(q, 1, k)
           c == Line(Cut, Capacity)
<1>0. Len(q) \in Nat /\ DOMAIN q = 1..Len(q) /\ k \in Nat /\ k <= Len(q) /\ Capacity \in Nat
  BY RegistryAssumption
<1>1. w \in Seq(Lines) /\ Len(w) = k /\ DOMAIN w = 1..k /\ \A i \in 1..k : w[i] = q[i]
  <2>1. \A i \in 1..k : q[i] \in Lines  BY <1>0
  <2> QED  BY <1>0, <2>1
<1>2. c \in Lines /\ c.who = Cut /\ c.end = Capacity  BY LineFacts
<1>3. Prefix(q, k) = w \/ (Prefix(q, k) = Append(w, c) /\ k < Len(q) /\ Length(w) < Capacity)
  BY DEF Prefix
<1>4. w # <<>> => Length(w) = q[k].end
  <2>1. w # <<>> => Len(w) \in DOMAIN w /\ Length(w) = w[Len(w)].end  BY <1>1, LineFacts
  <2> QED  BY <1>1, <2>1
<1> HIDE DEF w, c
<1>5. /\ Append(w, c) \in Seq(Lines) /\ Len(Append(w, c)) = k + 1 /\ Append(w, c)[k + 1] = c
      /\ \A i \in 1..k : Append(w, c)[i] = w[i]
      /\ DOMAIN Append(w, c) = 1..(k + 1)
  BY <1>1, <1>2, Appended
<1>6. Prefix(q, k) \in Seq(Lines)  BY <1>1, <1>3, <1>5
<1>7. \A i \in DOMAIN Prefix(q, k) :
        (i \in 1..k /\ Prefix(q, k)[i] = q[i]) \/ (i = k + 1 /\ Prefix(q, k)[i] = c /\ Prefix(q, k) = Append(w, c))
  <2>1. CASE Prefix(q, k) = w  BY <1>1, <2>1
  <2>2. CASE Prefix(q, k) = Append(w, c)
    <3>1. \A i \in 1..(k + 1) : i \in 1..k \/ i = k + 1  BY <1>0
    <3> QED  BY <1>1, <1>5, <2>2, <3>1
  <2> QED  BY <1>3, <2>1, <2>2
<1>8. ASSUME NodeOK(q) PROVE BufOK(Prefix(q, k))
  <2> SUFFICES ASSUME NEW i \in DOMAIN Prefix(q, k)
               PROVE  /\ Prefix(q, k)[i].end <= Capacity
                      /\ Prefix(q, k)[i].who \notin Runs =>
                           i = Len(Prefix(q, k)) /\ Prefix(q, k)[i].end = Capacity
    BY DEF BufOK
  <2>1. CASE i = k + 1 /\ Prefix(q, k)[i] = c /\ Prefix(q, k) = Append(w, c)
    BY <1>0, <1>2, <1>5, <2>1
  <2>2. CASE i \in 1..k /\ Prefix(q, k)[i] = q[i]
    <3>1. i \in DOMAIN q  BY <1>0, <2>2
    <3>2. /\ i < Len(q) => q[i].end <= Capacity
          /\ q[i].who \notin Runs => i = Len(q) - 1 /\ q[i].end = Capacity /\ q[Len(q)].end > Capacity
      BY <1>8, <3>1 DEF NodeOK
    <3>3. k = Len(q) => q[k].end <= Capacity  BY <1>0, <2>2 DEF Fits
    <3>4. q[i].end <= Capacity
      <4>0. i \in Nat /\ k \in Nat /\ Len(q) \in Nat /\ i <= k /\ k <= Len(q)  BY <1>0, <2>2
      <4>1. i = Len(q) => i = k  BY <4>0
      <4>2. i # Len(q) => i < Len(q)  BY <4>0
      <4> QED  BY <3>2, <3>3, <4>1, <4>2
    <3>5. ASSUME q[i].who \notin Runs PROVE i = Len(Prefix(q, k)) /\ q[i].end = Capacity
      <4>1. i = Len(q) - 1 /\ q[i].end = Capacity /\ q[Len(q)].end > Capacity  BY <3>2, <3>5
      <4>2. k # Len(q)
        <5>1. q[Len(q)] \in Lines  BY <1>0, <3>1
        <5>2. q[Len(q)].end \in Nat  BY <5>1 DEF Lines
        <5>3. k = Len(q) => q[Len(q)].end <= Capacity  BY <3>3
        <5>4. Capacity \in Nat  BY <1>0
        <5>5. ~(q[Len(q)].end <= Capacity)
          <6>1. PICK e \in Nat : e = q[Len(q)].end  BY <5>2
          <6>2. e > Capacity  BY <4>1, <6>1
          <6>3. ~(e <= Capacity)  BY <5>4, <6>2
          <6> QED  BY <6>1, <6>3
        <5> QED  BY <5>3, <5>5
      <4>3. k = i
        <5>1. i \in Nat /\ k \in Nat /\ Len(q) \in Nat /\ i <= k /\ k <= Len(q)  BY <1>0, <2>2
        <5>2. i = Len(q) - 1  BY <4>1
        <5> QED  BY <4>2, <5>1, <5>2
      <4>4. w # <<>>  BY <1>1, <2>2
      <4>5. Length(w) = Capacity  BY <1>4, <4>1, <4>3, <4>4
      <4>6. Prefix(q, k) = w  BY <1>0, <1>3, <4>5
      <4> QED  BY <1>1, <4>1, <4>3, <4>6
    <3> QED  BY <2>2, <3>4, <3>5
  <2> QED  BY <1>7, <2>1, <2>2
<1> QED  BY <1>0, <1>2, <1>6, <1>7, <1>8

LEMMA JunkFacts ==
  /\ <<Line(Junk, Capacity)>> \in Seq(Lines) /\ BufOK(<<Line(Junk, Capacity)>>)
  /\ \A i \in DOMAIN <<Line(Junk, Capacity)>> : <<Line(Junk, Capacity)>>[i].who = Junk
<1>1. Line(Junk, Capacity) \in Lines /\ Line(Junk, Capacity).who = Junk
      /\ Line(Junk, Capacity).end = Capacity
  <2>1. <<>> \in Seq(Lines)  OBVIOUS
  <2> QED  BY <2>1, LineFacts
<1>2. PICK j \in Lines : j = Line(Junk, Capacity)  BY <1>1
<1>3. <<j>> \in Seq(Lines) /\ DOMAIN <<j>> = {1} /\ <<j>>[1] = j /\ Len(<<j>>) = 1  OBVIOUS
<1> QED  BY <1>1, <1>2, <1>3, RegistryAssumption DEF BufOK

\* Who has written is noted by whoever is about to write the same znode.
LEMMA NotedFacts ==
  ASSUME TypeOK, NEW r \in Runs, NEW p \in Services
  PROVE  /\ Noted(r, p) \in [Runs -> SUBSET Runs]
         /\ \A q \in Runs : q # r => since[q] \subseteq Noted(r, p)[q]
         /\ \A q \in Runs : q # r /\ pc[q] = "set" /\ path[q] = p => r \in Noted(r, p)[q]
<1> since \in [Runs -> SUBSET Runs]  BY DEF TypeOK
<1>1. ASSUME NEW q \in Runs, q = r PROVE Noted(r, p)[q] = {}  BY <1>1 DEF Noted
<1>2. ASSUME NEW q \in Runs, q # r, pc[q] = "set" /\ path[q] = p
      PROVE  Noted(r, p)[q] = since[q] \cup {r}  BY <1>2 DEF Noted
<1>3. ASSUME NEW q \in Runs, q # r, ~(pc[q] = "set" /\ path[q] = p)
      PROVE  Noted(r, p)[q] = since[q]  BY <1>3 DEF Noted
<1>4. \A q \in Runs : Noted(r, p)[q] \in SUBSET Runs  BY <1>1, <1>2, <1>3
<1>5. Noted(r, p) = [q \in Runs |-> Noted(r, p)[q]]  BY DEF Noted
<1> HIDE DEF Noted
<1>6. Noted(r, p) \in [Runs -> SUBSET Runs]  BY <1>4, <1>5
<1> QED  BY <1>1, <1>2, <1>3, <1>6
-----------------------------------------------------------------------------
\* What the three calls that change the registry do, one conjunct per variable.
Stores(r, p, q, by) ==
  /\ node' = [node EXCEPT ![p] = q] /\ owner' = [owner EXCEPT ![p] = by]
  /\ since' = Noted(r, p)
Looks(r, p) ==
  /\ pc[r] = "run" /\ p \in todo[r]
  /\ \/ /\ \E a \in {"create", "get"} : pc' = [pc EXCEPT ![r] = a]
        /\ path' = [path EXCEPT ![r] = p] /\ todo' = todo /\ excused' = excused
     \/ /\ pc' = pc /\ path' = path /\ todo' = [todo EXCEPT ![r] = @ \ {p}]
        /\ excused' = excused \cup ({r} \X {p})
  /\ node' = node /\ owner' = owner /\ buf' = buf /\ since' = since
Creates(r, p) ==
  \/ /\ node[p] = NoNode /\ Stores(r, p, WithLine(<<>>, r), r) /\ pc' = [pc EXCEPT ![r] = "get"]
     /\ todo' = todo /\ path' = path /\ buf' = buf /\ excused' = excused
  \/ /\ Leave(r) /\ excused' = excused \cup ({r} \X {p})
     /\ \/ node[p] = NoNode /\ Stores(r, p, WithLine(<<>>, r), r)
        \/ node' = node /\ owner' = owner /\ since' = since
Sets(r, p) ==
  /\ Leave(r)
  /\ \/ /\ node' = [node EXCEPT ![p] = WithLine(buf[r], r)] /\ owner' = owner
        /\ since' = Noted(r, p)
        /\ \E more \in {{}, {r}} : excused' = excused \cup ((Lost(r) \cup more) \X {p})
     \/ /\ node' = node /\ owner' = owner /\ since' = [since EXCEPT ![r] = {}]
        /\ excused' = excused \cup ({r} \X {p})

LEMMA CallEffects ==
  ASSUME NEW r \in Runs
  PROVE  /\ Exists(r) => (\E p \in todo[r] : Looks(r, p)) /\ UNCHANGED sessionVars
         /\ Create(r) => pc[r] = "create" /\ Creates(r, path[r]) /\ UNCHANGED sessionVars
         /\ Set(r) => pc[r] = "set" /\ Sets(r, path[r]) /\ UNCHANGED sessionVars
<1>1. ASSUME Exists(r) PROVE (\E p \in todo[r] : Looks(r, p)) /\ UNCHANGED sessionVars
  <2>1. UNCHANGED sessionVars /\ UNCHANGED <<zkVars, buf, since>>  BY <1>1 DEF Exists
  <2>2. \E p \in todo[r] : Looks(r, p)  BY <1>1, <2>1 DEF Exists, Looks, Excuse, zkVars
  <2> QED  BY <2>1, <2>2
<1>2. ASSUME Create(r)
      PROVE  pc[r] = "create" /\ Creates(r, path[r]) /\ UNCHANGED sessionVars
  BY <1>2 DEF Create, Creates, Created, Stores, Excuse, zkVars
<1>3. ASSUME Set(r) PROVE pc[r] = "set" /\ Sets(r, path[r]) /\ UNCHANGED sessionVars
  BY <1>3 DEF Set, Sets, Written, Forget, Excuse, zkVars
<1> QED  BY <1>1, <1>2, <1>3
-----------------------------------------------------------------------------
\* The state keeps its type, action by action.
LEMMA TypeStep == TypeOK /\ PathOK /\ [Next]_vars => TypeOK'
<1> SUFFICES ASSUME TypeOK, PathOK, [Next]_vars PROVE TypeOK'  OBVIOUS
<1> DEFINE PCs == {"idle", "handle", "wait", "run", "create", "get", "set", "serving",
                   "crashed", "exited"}
<1>0. \A r \in Runs : pc[r] \in {"create", "get", "set"} => path[r] \in Services
  BY DEF PathOK, TypeOK
<1>n. \A r \in Runs, p \in Services : Noted(r, p) \in [Runs -> SUBSET Runs]
  BY NotedFacts
<1>e. \A r \in Runs : /\ Exists(r) => (\E p \in todo[r] : Looks(r, p)) /\ UNCHANGED sessionVars
                      /\ Create(r) => pc[r] = "create" /\ Creates(r, path[r]) /\ UNCHANGED sessionVars
                      /\ Set(r) => pc[r] = "set" /\ Sets(r, path[r]) /\ UNCHANGED sessionVars
  BY CallEffects
<1>s. \A r \in Runs : WithLine(<<>>, r) \in Seq(Lines) /\ WithLine(buf[r], r) \in Seq(Lines)
  BY FirstLine, WithLineFacts DEF TypeOK
<1>l. \A r \in Runs : Lost(r) \subseteq Runs  BY DEF Lost, TypeOK
<1> USE RegistryAssumption DEF TypeOK, Goto, Dead, zkVars, sessionVars, appendVars
<1>1. CASE UNCHANGED vars  BY <1>1 DEF vars
<1>2. ASSUME NEW r \in Runs, StartInit(r) PROVE TypeOK'
  <2>1. pc' \in [Runs -> PCs]  BY <1>2, ZenonT(60) DEF StartInit
  <2>2. session' \in [Runs -> {"none", "connecting", "connected", "lost", "ended"}]
    BY <1>2 DEF StartInit
  <2> QED  BY <1>2, <2>1, <2>2 DEF StartInit
<1>3. ASSUME NEW r \in Runs, SetContext(r) PROVE TypeOK'  BY <1>3 DEF SetContext
<1>4. ASSUME NEW r \in Runs, SemWait(r) PROVE TypeOK'  BY <1>4 DEF SemWait
<1>5. ASSUME NEW r \in Runs, Watcher(r) PROVE TypeOK'
  <2>1. CASE Die(r) /\ UNCHANGED <<zkVars, session, faults, todo, excused>>
    BY <2>1 DEF Die
  <2>2. CASE /\ events' = [events EXCEPT ![r] = @ - 1] /\ events[r] > 0
             /\ posted' = [posted EXCEPT ![r] = TRUE] \/ UNCHANGED posted
             /\ UNCHANGED <<pc, path, buf, since, zkVars, session, faults, todo, excused>>
    <3>1. events' \in [Runs -> Nat]  BY <2>2
    <3>2. posted' \in [Runs -> BOOLEAN]  BY <2>2
    <3> QED  BY <2>2, <3>1, <3>2
  <2> QED  BY <1>5, <2>1, <2>2 DEF Watcher
<1>6. ASSUME NEW r \in Runs, Exists(r) PROVE TypeOK'
  <2>1. PICK p \in todo[r] : Looks(r, p)  BY <1>6, <1>e
  <2>2. p \in Services  OBVIOUS
  <2>3. UNCHANGED <<node, owner, buf, since, sessionVars>>  BY <1>6, <1>e, <2>1 DEF Looks
  <2>4. CASE \E a \in {"create", "get"} :
               /\ pc' = [pc EXCEPT ![r] = a] /\ path' = [path EXCEPT ![r] = p]
               /\ todo' = todo /\ excused' = excused
    <3>1. pc' \in [Runs -> PCs]  BY <2>4
    <3>2. path' \in [Runs -> Services \cup {Nobody}]  BY <2>2, <2>4
    <3> QED  BY <2>3, <2>4, <3>1, <3>2
  <2>5. CASE /\ pc' = pc /\ path' = path /\ todo' = [todo EXCEPT ![r] = @ \ {p}]
             /\ excused' = excused \cup ({r} \X {p})
    <3>1. todo' \in [Runs -> SUBSET Services]  BY <2>5
    <3>2. excused' \subseteq Runs \X Services  BY <2>2, <2>5
    <3> QED  BY <2>3, <2>5, <3>1, <3>2
  <2> QED  BY <2>1, <2>4, <2>5 DEF Looks
<1>7. ASSUME NEW r \in Runs, Serve(r) PROVE TypeOK'  BY <1>7 DEF Serve
<1>8. ASSUME NEW r \in Runs, Connect(r) PROVE TypeOK'  BY <1>8 DEF Connect
<1>9. ASSUME NEW r \in Runs, LoseConnection(r) PROVE TypeOK'  BY <1>9 DEF LoseConnection
<1>10. ASSUME NEW r \in Runs, Expire(r) PROVE TypeOK'  BY <1>10 DEF Expire
<1>11. ASSUME NEW r \in Runs, Crash(r) PROVE TypeOK'  BY <1>11 DEF Crash, Die
<1>12. ASSUME NEW r \in Runs, Create(r) PROVE TypeOK'
  <2>1. path[r] \in Services /\ Creates(r, path[r]) /\ UNCHANGED sessionVars
    BY <1>0, <1>e, <1>12
  <2>2. Noted(r, path[r]) \in [Runs -> SUBSET Runs] /\ WithLine(<<>>, r) \in Seq(Lines)
    BY <2>1, <1>n, <1>s
  <2>3. ASSUME Stores(r, path[r], WithLine(<<>>, r), r)
        PROVE  /\ node' \in [Services -> Seq(Lines) \cup {NoNode}]
               /\ owner' \in [Services -> Runs \cup {Nobody}]
               /\ since' \in [Runs -> SUBSET Runs]
    BY <2>1, <2>2, <2>3 DEF Stores
  <2>4. /\ node' \in [Services -> Seq(Lines) \cup {NoNode}]
        /\ owner' \in [Services -> Runs \cup {Nobody}]
        /\ since' \in [Runs -> SUBSET Runs]
    BY <2>1, <2>3 DEF Creates
  <2>5. ASSUME Leave(r), excused' = excused \cup ({r} \X {path[r]})
        PROVE  TypeOK'
    <3>1. todo' \in [Runs -> SUBSET Services]  BY <2>5 DEF Leave
    <3>2. path' \in [Runs -> Services \cup {Nobody}]  BY <2>5 DEF Leave
    <3>3. buf' \in [Runs -> Seq(Lines)] /\ pc' \in [Runs -> PCs]  BY <2>5 DEF Leave
    <3>4. excused' \subseteq Runs \X Services  BY <2>1, <2>5
    <3> QED  BY <2>1, <2>4, <3>1, <3>2, <3>3, <3>4
  <2>6. ASSUME /\ pc' = [pc EXCEPT ![r] = "get"] /\ todo' = todo /\ path' = path
               /\ buf' = buf /\ excused' = excused
        PROVE  TypeOK'
    <3>1. pc' \in [Runs -> PCs]  BY <2>6
    <3> QED  BY <2>1, <2>4, <2>6, <3>1
  <2> QED  BY <2>1, <2>5, <2>6 DEF Creates
<1>13. ASSUME NEW r \in Runs, Get(r) PROVE TypeOK'
  <2>1. path[r] \in Services  BY <1>0, <1>13 DEF Get
  <2>2. <<Line(Junk, Capacity)>> \in Seq(Lines)  BY JunkFacts
  <2>3. buf' \in [Runs -> Seq(Lines)]
    <3>1. CASE buf' = [buf EXCEPT ![r] = <<Line(Junk, Capacity)>>]  BY <2>2, <3>1
    <3>2. ASSUME node[path[r]] # NoNode, NEW k \in 0..Len(node[path[r]]), Fits(node[path[r]], k),
                 buf' = [buf EXCEPT ![r] = Prefix(node[path[r]], k)]
          PROVE  buf' \in [Runs -> Seq(Lines)]
      <4>1. PICK q \in Seq(Lines) : q = node[path[r]]  BY <2>1, <3>2
      <4>2. Prefix(q, k) \in Seq(Lines)  BY <3>2, <4>1, PrefixFacts
      <4> QED  BY <3>2, <4>1, <4>2
    <3> QED  BY <1>13, <3>1, <3>2 DEF Get
  <2>4. since' \in [Runs -> SUBSET Runs]
    <3>1. since' = [since EXCEPT ![r] = {q \in Listed(path[r]) \ {r} : ~Found(q, buf'[r])}]
      BY <1>13 DEF Get
    <3>2. {q \in Listed(path[r]) \ {r} : ~Found(q, buf'[r])} \subseteq Runs  BY DEF Listed
    <3> QED  BY <3>1, <3>2
  <2>5. pc' \in [Runs -> PCs]  BY <1>13 DEF Get
  <2> QED  BY <1>13, <2>3, <2>4, <2>5 DEF Get
<1>14. ASSUME NEW r \in Runs, Set(r) PROVE TypeOK'
  <2>1. path[r] \in Services /\ Sets(r, path[r]) /\ UNCHANGED sessionVars
    BY <1>0, <1>e, <1>14
  <2>2. Noted(r, path[r]) \in [Runs -> SUBSET Runs] /\ WithLine(buf[r], r) \in Seq(Lines)
    BY <2>1, <1>n, <1>s
  <2>3. \/ node' = [node EXCEPT ![path[r]] = WithLine(buf[r], r)]
        \/ node' = node
    BY <2>1 DEF Sets
  <2>4. node' \in [Services -> Seq(Lines) \cup {NoNode}]  BY <2>2, <2>3
  <2>5. since' = Noted(r, path[r]) \/ since' = [since EXCEPT ![r] = {}]
    BY <2>1 DEF Sets
  <2>6. since' \in [Runs -> SUBSET Runs]  BY <2>2, <2>5
  <2>7. owner' = owner  BY <2>1 DEF Sets
  <2>8. pc' \in [Runs -> PCs] /\ buf' \in [Runs -> Seq(Lines)]  BY <2>1 DEF Sets, Leave
  <2>9. todo' \in [Runs -> SUBSET Services] /\ path' \in [Runs -> Services \cup {Nobody}]
    BY <2>1 DEF Sets, Leave
  <2>10. excused' \subseteq Runs \X Services  BY <1>l, <2>1 DEF Sets
  <2> QED  BY <2>1, <2>4, <2>6, <2>7, <2>8, <2>9, <2>10
<1> QED
  BY <1>1, <1>2, <1>3, <1>4, <1>5, <1>6, <1>7, <1>8, <1>9, <1>10, <1>11, <1>12, <1>13, <1>14
  DEF Next, Step
-----------------------------------------------------------------------------
\* A step that leaves the registry and the appends in progress alone.
LEMMA Frame ==
  ASSUME IInv, TypeOK', UNCHANGED <<node, todo, excused>>,
         \A q \in Runs : pc'[q] \in {"create", "get", "set"} =>
           pc'[q] = pc[q] /\ path'[q] = path[q] /\ buf'[q] = buf[q] /\ since'[q] = since[q],
         \A q \in Runs : buf'[q] = buf[q] \/ buf'[q] = <<>>
  PROVE  IInv'
<1>1. PathOK'  BY DEF IInv, PathOK
<1>2. ReadOK'
  <2> SUFFICES ASSUME NEW q \in Runs, pc'[q] = "set", NEW r \in Runs,
                      path'[q] \notin todo'[r], <<r, path'[q]>> \notin excused'
               PROVE  Found(r, buf'[q]) \/ r \in since'[q]
    BY DEF ReadOK, Found
  <2> QED  BY DEF IInv, ReadOK
<1>3. BuffersOK'  BY DEF IInv, BuffersOK, BufOK
<1>4. ListedUnlessExcused' /\ NodesOK'
  BY DEF IInv, ListedUnlessExcused, NodesOK, NodeOK, Listed
<1> QED  BY <1>1, <1>2, <1>3, <1>4 DEF IInv

\* zoo_exists: a failure excuses the server.
LEMMA LooksKeeps ==
  ASSUME IInv, TypeOK', NEW r \in Runs, NEW p \in todo[r], Looks(r, p)
  PROVE  IInv'
<1> USE DEF IInv, TypeOK
<1>0. p \in Services  OBVIOUS
<1>1. /\ UNCHANGED <<node, buf, since>> /\ excused \subseteq excused'
      /\ \A q \in Runs : q # r => todo'[q] = todo[q]
      /\ \A x : x \in todo[r] /\ x \notin todo'[r] => <<r, x>> \in excused'
  BY DEF Looks
<1>2. \A q \in Runs, x \in Services :
        x \notin todo'[q] /\ <<q, x>> \notin excused' => x \notin todo[q] /\ <<q, x>> \notin excused
  BY <1>1
<1>3. \A q \in Runs : pc'[q] = "set" => pc[q] = "set" /\ path'[q] = path[q]  BY DEF Looks
<1>4. PathOK'  BY DEF Looks, PathOK
<1>5. ReadOK'
  <2> SUFFICES ASSUME NEW q \in Runs, pc'[q] = "set", NEW s \in Runs,
                      path'[q] \notin todo'[s], <<s, path'[q]>> \notin excused'
               PROVE  Found(s, buf'[q]) \/ s \in since'[q]
    BY DEF ReadOK, Found
  <2>1. path[q] \in Services  BY <1>3 DEF PathOK
  <2> QED  BY <1>1, <1>2, <1>3, <2>1 DEF ReadOK
<1>6. BuffersOK'  BY <1>1 DEF BuffersOK, BufOK
<1>7. ListedUnlessExcused' /\ NodesOK'
  BY <1>1, <1>2 DEF ListedUnlessExcused, NodesOK, NodeOK, Listed
<1> QED  BY <1>4, <1>5, <1>6, <1>7

\* zoo_get: everybody who has registered is in the buffer or counts as cut off.
LEMMA GetKeeps ==
  ASSUME IInv, TypeOK', NEW r \in Runs, Get(r)
  PROVE  IInv'
<1> DEFINE p == path[r]
<1>0. p \in todo[r] /\ p \in Services  BY DEF IInv, PathOK, TypeOK, Get, Goto
<1>1. UNCHANGED <<node, todo, path, excused>>  BY DEF Get, zkVars
<1>2. pc[r] = "get" /\ pc' = [pc EXCEPT ![r] = "set"]  BY DEF Get, Goto
<1>3. \E b : buf' = [buf EXCEPT ![r] = b]
  BY DEF Get
<1>s. since' = [since EXCEPT ![r] = {q \in Listed(p) \ {r} : ~Found(q, buf'[r])}]
  BY DEF Get
<1>b. BufOK(buf'[r])
  <2>1. buf \in [Runs -> Seq(Lines)]  BY DEF IInv, TypeOK
  <2>2. CASE buf' = [buf EXCEPT ![r] = <<Line(Junk, Capacity)>>]
    <3>1. buf'[r] = <<Line(Junk, Capacity)>>  BY <2>1, <2>2
    <3> QED  BY <3>1, JunkFacts
  <2>3. ASSUME node[p] # NoNode, NEW k \in 0..Len(node[p]), Fits(node[p], k),
               buf' = [buf EXCEPT ![r] = Prefix(node[p], k)]
        PROVE  BufOK(buf'[r])
    <3>1. node[p] \in Seq(Lines)  BY <1>0, <2>3 DEF IInv, TypeOK
    <3>2. NodeOK(node[p])  BY <1>0, <2>3 DEF IInv, NodesOK
    <3>3. PICK q \in Seq(Lines) : q = node[p]  BY <3>1
    <3>4. BufOK(Prefix(q, k))  BY <2>3, <3>2, <3>3, PrefixFacts
    <3>5. buf'[r] = Prefix(q, k)  BY <2>1, <2>3, <3>3
    <3> QED  BY <3>4, <3>5
  <2> QED  BY <2>2, <2>3 DEF Get
<1>4. pc \in [Runs -> {"idle", "handle", "wait", "run", "create", "get", "set", "serving"} \cup Dead]
      /\ buf \in [Runs -> Seq(Lines)] /\ since \in [Runs -> SUBSET Runs]
  BY DEF IInv, TypeOK
<1>5. PathOK'  BY <1>1, <1>2, <1>4, <1>0 DEF IInv, PathOK
<1>6. ReadOK'
  <2> SUFFICES ASSUME NEW q \in Runs, pc'[q] = "set", NEW s \in Runs,
                      path'[q] \notin todo'[s], <<s, path'[q]>> \notin excused'
               PROVE  Found(s, buf'[q]) \/ s \in since'[q]
    BY DEF ReadOK, Found
  <2>1. CASE q # r
    <3>1. pc[q] = "set" /\ buf'[q] = buf[q] /\ since'[q] = since[q]
      BY <1>2, <1>3, <1>s, <1>4, <2>1
    <3> QED  BY <1>1, <3>1 DEF IInv, ReadOK
  <2>2. CASE q = r
    <3>1. p \notin todo[s] /\ <<s, p>> \notin excused  BY <1>1, <2>2
    <3>2. s # r  BY <1>0, <3>1
    <3>3. s \in Listed(p)  BY <1>0, <3>1 DEF IInv, ListedUnlessExcused
    <3>4. since'[r] = {x \in Listed(p) \ {r} : ~Found(x, buf'[r])}  BY <1>s, <1>4
    <3> QED  BY <2>2, <3>2, <3>3, <3>4
  <2> QED  BY <2>1, <2>2
<1>7. BuffersOK'
  <2>1. \A q \in Runs : q # r => buf'[q] = buf[q]  BY <1>3, <1>4
  <2>2. \A q \in Runs : BufOK(buf'[q])  BY <1>b, <2>1 DEF IInv, BuffersOK
  <2> QED  BY <2>2 DEF BuffersOK, BufOK
<1>8. ListedUnlessExcused' /\ NodesOK'
  BY <1>1 DEF IInv, ListedUnlessExcused, NodesOK, NodeOK, Listed
<1> QED  BY <1>5, <1>6, <1>7, <1>8 DEF IInv

\* The end of a session excuses everybody who was listed in its znodes.
LEMMA ExpireKeeps ==
  ASSUME IInv, TypeOK', NEW r \in Runs, Expire(r)
  PROVE  IInv'
<1>1. UNCHANGED <<pc, todo, path, buf, since>>  BY DEF Expire
<1>2. /\ excused \subseteq excused'
      /\ \A s \in Runs, p \in Services : owner[p] = r /\ s \in Listed(p) => <<s, p>> \in excused'
      /\ \A p \in Services : node'[p] = IF owner[p] = r THEN NoNode ELSE node[p]
  BY DEF Expire
<1>3. PathOK'  BY <1>1 DEF IInv, PathOK
<1>4. ReadOK'
  <2> SUFFICES ASSUME NEW q \in Runs, pc'[q] = "set", NEW s \in Runs,
                      path'[q] \notin todo'[s], <<s, path'[q]>> \notin excused'
               PROVE  Found(s, buf'[q]) \/ s \in since'[q]
    BY DEF ReadOK, Found
  <2> QED  BY <1>1, <1>2 DEF IInv, ReadOK
<1>5. BuffersOK'  BY <1>1 DEF IInv, BuffersOK, BufOK
<1>6. ListedUnlessExcused'
  <2> SUFFICES ASSUME NEW s \in Runs, NEW p \in Services,
                      p \notin todo'[s], <<s, p>> \notin excused'
               PROVE  (s \in Listed(p))'
    BY DEF ListedUnlessExcused
  <2>1. s \in Listed(p)  BY <1>1, <1>2 DEF IInv, ListedUnlessExcused
  <2>2. node'[p] = node[p]  BY <1>2, <2>1
  <2> QED  BY <2>1, <2>2 DEF Listed
<1>7. NodesOK'  BY <1>2 DEF IInv, NodesOK, NodeOK
<1> QED  BY <1>3, <1>4, <1>5, <1>6, <1>7 DEF IInv

\* zoo_create: only a znode that was not there, and listed nobody, is stored.
LEMMA CreatesKeeps ==
  ASSUME IInv, TypeOK', NEW r \in Runs, pc[r] = "create", Creates(r, path[r])
  PROVE  IInv'
<1> DEFINE p == path[r]
<1>0. p \in todo[r] /\ p \in Services  BY DEF IInv, PathOK, TypeOK
<1>t. /\ pc \in [Runs -> {"idle", "handle", "wait", "run", "create", "get", "set", "serving"} \cup Dead]
      /\ buf \in [Runs -> Seq(Lines)] /\ path \in [Runs -> Services \cup {Nobody}]
      /\ todo \in [Runs -> SUBSET Services] /\ node \in [Services -> Seq(Lines) \cup {NoNode}]
  BY DEF IInv, TypeOK
<1>n. Noted(r, p) \in [Runs -> SUBSET Runs] /\ \A q \in Runs : q # r => since[q] \subseteq Noted(r, p)[q]
  BY <1>0, NotedFacts DEF IInv
<1>1. \/ node' = node /\ since' = since
      \/ node[p] = NoNode /\ node' = [node EXCEPT ![p] = WithLine(<<>>, r)] /\ since' = Noted(r, p)
  BY DEF Creates, Stores
<1>2. \/ /\ pc' = [pc EXCEPT ![r] = "get"]
         /\ todo' = todo /\ path' = path /\ buf' = buf /\ excused' = excused
      \/ /\ pc' = [pc EXCEPT ![r] = "run"] /\ todo' = [todo EXCEPT ![r] = @ \ {p}]
         /\ path' = [path EXCEPT ![r] = Nobody] /\ buf' = [buf EXCEPT ![r] = <<>>]
         /\ excused' = excused \cup ({r} \X {p})
  BY DEF Creates, Leave
<1>3. \A q \in Runs : q # r => /\ pc'[q] = pc[q] /\ path'[q] = path[q] /\ buf'[q] = buf[q]
                               /\ todo'[q] = todo[q] /\ since[q] \subseteq since'[q]
  BY <1>1, <1>2, <1>t, <1>n
<1>4. \A s \in Runs, x \in Services :
        x \notin todo'[s] /\ <<s, x>> \notin excused' => x \notin todo[s] /\ <<s, x>> \notin excused
  <2> SUFFICES ASSUME NEW s \in Runs, NEW x \in Services,
                      x \notin todo'[s], <<s, x>> \notin excused'
               PROVE  x \notin todo[s] /\ <<s, x>> \notin excused
    OBVIOUS
  <2>1. excused \subseteq excused'  BY <1>2
  <2>2. CASE todo' = todo  BY <2>1, <2>2
  <2>3. CASE todo' = [todo EXCEPT ![r] = @ \ {p}] /\ excused' = excused \cup ({r} \X {p})
    <3>1. CASE s = r /\ x = p  BY <2>3, <3>1
    <3>2. CASE s # r  BY <1>t, <2>1, <2>3, <3>2
    <3>3. CASE x # p  BY <1>t, <2>1, <2>3, <3>3
    <3> QED  BY <3>1, <3>2, <3>3
  <2> QED  BY <1>2, <2>2, <2>3
<1>5. pc'[r] # "set" /\ (pc'[r] \in {"create", "get", "set"} => path' = path /\ todo' = todo)
  BY <1>2, <1>t
<1>6. PathOK'  BY <1>0, <1>3, <1>5 DEF IInv, PathOK
<1>7. ReadOK'
  <2> SUFFICES ASSUME NEW q \in Runs, pc'[q] = "set", NEW s \in Runs,
                      path'[q] \notin todo'[s], <<s, path'[q]>> \notin excused'
               PROVE  Found(s, buf'[q]) \/ s \in since'[q]
    BY DEF ReadOK, Found
  <2>1. q # r /\ pc[q] = "set" /\ path'[q] = path[q]  BY <1>3, <1>5
  <2>2. path[q] \in Services  BY <2>1, <1>t DEF IInv, PathOK
  <2>3. path[q] \notin todo[s] /\ <<s, path[q]>> \notin excused  BY <1>4, <2>1, <2>2
  <2> QED  BY <1>3, <2>1, <2>3 DEF IInv, ReadOK
<1>8. BuffersOK'
  <2>1. \A q \in Runs : buf'[q] = buf[q] \/ buf'[q] = <<>>  BY <1>2, <1>t
  <2> QED  BY <2>1 DEF IInv, BuffersOK, BufOK
<1>9. ListedUnlessExcused'
  <2> SUFFICES ASSUME NEW s \in Runs, NEW x \in Services,
                      x \notin todo'[s], <<s, x>> \notin excused'
               PROVE  (s \in Listed(x))'
    BY DEF ListedUnlessExcused
  <2>1. s \in Listed(x)  BY <1>4 DEF IInv, ListedUnlessExcused
  <2>2. node'[x] = node[x]  BY <1>1, <1>t, <2>1 DEF Listed
  <2> QED  BY <2>1, <2>2 DEF Listed
<1>10. NodesOK'
  <2>1. NodeOK(WithLine(<<>>, r))  BY FirstLine
  <2>2. \A x \in Services : node'[x] = node[x] \/ NodeOK(node'[x])  BY <1>1, <1>t, <2>1
  <2> QED  BY <2>2 DEF IInv, NodesOK, NodeOK
<1> QED  BY <1>6, <1>7, <1>8, <1>9, <1>10 DEF IInv

\* zoo_set: what is written back lists whom the read value lists, and excuses
\* who has written since; the readers of older values note the writer.
LEMMA SetsKeeps ==
  ASSUME IInv, TypeOK', NEW r \in Runs, pc[r] = "set", Sets(r, path[r])
  PROVE  IInv'
<1> DEFINE p == path[r]
<1>0. p \in todo[r] /\ p \in Services  BY DEF IInv, PathOK, TypeOK
<1>t. /\ pc \in [Runs -> {"idle", "handle", "wait", "run", "create", "get", "set", "serving"} \cup Dead]
      /\ buf \in [Runs -> Seq(Lines)] /\ path \in [Runs -> Services \cup {Nobody}]
      /\ since \in [Runs -> SUBSET Runs]
      /\ todo \in [Runs -> SUBSET Services] /\ node \in [Services -> Seq(Lines) \cup {NoNode}]
  BY DEF IInv, TypeOK
<1>n. /\ Noted(r, p) \in [Runs -> SUBSET Runs]
      /\ \A q \in Runs : q # r => since[q] \subseteq Noted(r, p)[q]
      /\ \A q \in Runs : q # r /\ pc[q] = "set" /\ path[q] = p => r \in Noted(r, p)[q]
  BY <1>0, NotedFacts DEF IInv
<1>1. /\ pc' = [pc EXCEPT ![r] = "run"] /\ todo' = [todo EXCEPT ![r] = @ \ {p}]
      /\ path' = [path EXCEPT ![r] = Nobody] /\ buf' = [buf EXCEPT ![r] = <<>>]
  BY DEF Sets, Leave
<1>2. \/ /\ node' = [node EXCEPT ![p] = WithLine(buf[r], r)] /\ since' = Noted(r, p)
         /\ \E more \in {{}, {r}} : excused' = excused \cup ((Lost(r) \cup more) \X {p})
      \/ /\ node' = node /\ since' = [since EXCEPT ![r] = {}]
         /\ excused' = excused \cup ({r} \X {p})
  BY DEF Sets
<1>3. \A q \in Runs : q # r => /\ pc'[q] = pc[q] /\ path'[q] = path[q] /\ buf'[q] = buf[q]
                               /\ todo'[q] = todo[q] /\ since[q] \subseteq since'[q]
  BY <1>1, <1>2, <1>t, <1>n
<1>4. \A s \in Runs, x \in Services :
        x \notin todo'[s] /\ <<s, x>> \notin excused' =>
          \/ x \notin todo[s] /\ <<s, x>> \notin excused
          \/ s = r /\ x = p /\ node' = [node EXCEPT ![p] = WithLine(buf[r], r)] /\ since' = Noted(r, p)
  BY <1>1, <1>2, <1>t
<1>5. pc'[r] = "run"  BY <1>1, <1>t
<1>6. PathOK'  BY <1>3, <1>5 DEF IInv, PathOK
<1>7. ReadOK'
  <2> SUFFICES ASSUME NEW q \in Runs, pc'[q] = "set", NEW s \in Runs,
                      path'[q] \notin todo'[s], <<s, path'[q]>> \notin excused'
               PROVE  Found(s, buf'[q]) \/ s \in since'[q]
    BY DEF ReadOK, Found
  <2>1. q # r /\ pc[q] = "set" /\ path'[q] = path[q]  BY <1>3, <1>5
  <2>2. path[q] \in Services  BY <2>1, <1>t DEF IInv, PathOK
  <2>3. CASE path[q] \notin todo[s] /\ <<s, path[q]>> \notin excused
    BY <1>3, <2>1, <2>3 DEF IInv, ReadOK
  <2>4. CASE s = r /\ path[q] = p /\ since' = Noted(r, p)
    BY <1>n, <2>1, <2>4
  <2> QED  BY <1>4, <2>1, <2>2, <2>3, <2>4
<1>8. BuffersOK'
  <2>1. \A q \in Runs : buf'[q] = buf[q] \/ buf'[q] = <<>>  BY <1>1, <1>t
  <2> QED  BY <2>1 DEF IInv, BuffersOK, BufOK
<1>a. /\ WithLine(buf[r], r) \in Seq(Lines) \ {NoNode}
      /\ \A x : Found(x, buf[r]) => Found(x, WithLine(buf[r], r))
      /\ NodeOK(WithLine(buf[r], r))
  BY <1>t, WithLineFacts DEF IInv, BuffersOK
<1>9. ListedUnlessExcused'
  <2> SUFFICES ASSUME NEW s \in Runs, NEW x \in Services,
                      x \notin todo'[s], <<s, x>> \notin excused'
               PROVE  node'[x] # NoNode /\ Found(s, node'[x])
    BY ListedIsFoundNext DEF ListedUnlessExcused
  <2>1. CASE (node' = node /\ excused' = excused \cup ({r} \X {p})) \/ x # p
    <3>1. x \notin todo[s] /\ <<s, x>> \notin excused
      <4>1. ~(s = r /\ x = p)  BY <2>1
      <4> QED  BY <1>4, <4>1
    <3>2. node[x] # NoNode /\ Found(s, node[x])
      BY <3>1, ListedIsFound DEF IInv, ListedUnlessExcused
    <3>3. node'[x] = node[x]  BY <1>2, <1>t, <2>1
    <3> QED  BY <3>2, <3>3
  <2>2. CASE x = p /\ node' = [node EXCEPT ![p] = WithLine(buf[r], r)]
                   /\ Lost(r) \X {p} \subseteq excused'
    <3>1. node'[x] = WithLine(buf[r], r)  BY <1>t, <2>2
    <3>0. s \notin Lost(r)  BY <2>2
    <3>2. (s = r /\ Found(r, WithLine(buf[r], r))) \/ Found(s, buf[r])
      <4>0. s = r => Found(r, WithLine(buf[r], r))  BY <3>0 DEF Lost
      <4>1. CASE x \notin todo[s] /\ <<s, x>> \notin excused
        <5>1. Found(s, buf[r]) \/ s \in since[r]  BY <2>2, <4>1 DEF IInv, ReadOK
        <5> QED  BY <3>0, <5>1 DEF Lost
      <4> QED  BY <1>4, <4>0, <4>1
    <3> QED  BY <1>a, <3>1, <3>2
  <2> QED  BY <1>2, <2>1, <2>2
<1>10. NodesOK'
  <2>1. \A x \in Services : node'[x] = node[x] \/ NodeOK(node'[x])  BY <1>2, <1>t, <1>a
  <2> QED  BY <2>1 DEF IInv, NodesOK, NodeOK
<1> QED  BY <1>6, <1>7, <1>8, <1>9, <1>10 DEF IInv
-----------------------------------------------------------------------------
LEMMA InitInv == Init => IInv
<1> SUFFICES ASSUME Init PROVE IInv  OBVIOUS
<1>1. <<>> \in Seq(Lines) /\ 0 \in 0..MaxFaults  BY RegistryAssumption
<1>2. TypeOK  BY <1>1 DEF Init, TypeOK
<1>3. PathOK /\ ReadOK /\ BuffersOK  BY DEF Init, PathOK, ReadOK, BuffersOK, BufOK
<1>4. ListedUnlessExcused /\ NodesOK  BY DEF Init, ListedUnlessExcused, NodesOK
<1> QED  BY <1>2, <1>3, <1>4 DEF IInv

LEMMA StepInv == IInv /\ [Next]_vars => IInv'
<1> SUFFICES ASSUME IInv, [Next]_vars PROVE IInv'  OBVIOUS
<1>0. TypeOK'  BY TypeStep DEF IInv
<1>t. pc \in [Runs -> {"idle", "handle", "wait", "run", "create", "get", "set", "serving"} \cup Dead]
      /\ buf \in [Runs -> Seq(Lines)] /\ since \in [Runs -> SUBSET Runs]
      /\ path \in [Runs -> Services \cup {Nobody}]
  BY DEF IInv, TypeOK
<1>1. CASE UNCHANGED vars
  BY <1>0, <1>1, Frame DEF vars, zkVars, appendVars
<1>2. ASSUME NEW r \in Runs,
             StartInit(r) \/ SetContext(r) \/ SemWait(r) \/ Serve(r) \/ Connect(r) \/ LoseConnection(r)
      PROVE  IInv'
  <2>1. UNCHANGED <<node, todo, path, buf, since, excused>>
    BY <1>2 DEF StartInit, SetContext, SemWait, Serve, Connect, LoseConnection, zkVars, appendVars
  <2>2. \A q \in Runs : pc'[q] = pc[q] \/ pc'[q] \notin {"create", "get", "set"}
    BY <1>2, <1>t DEF StartInit, SetContext, SemWait, Serve, Connect, LoseConnection, Goto
  <2> QED  BY <1>0, <2>1, <2>2, Frame
<1>3. ASSUME NEW r \in Runs, Watcher(r) \/ Crash(r) PROVE IInv'
  <2>1. UNCHANGED <<node, todo, excused>>  BY <1>3 DEF Watcher, Crash, zkVars
  <2>2. \/ UNCHANGED <<pc, path, buf, since>>
        \/ /\ pc' = [pc EXCEPT ![r] = "crashed"] /\ path' = [path EXCEPT ![r] = Nobody]
           /\ buf' = [buf EXCEPT ![r] = <<>>] /\ since' = [since EXCEPT ![r] = {}]
    BY <1>3 DEF Watcher, Crash, Die
  <2>3. \A q \in Runs : pc'[q] \in {"create", "get", "set"} =>
          pc'[q] = pc[q] /\ path'[q] = path[q] /\ buf'[q] = buf[q] /\ since'[q] = since[q]
    BY <1>t, <2>2
  <2>4. \A q \in Runs : buf'[q] = buf[q] \/ buf'[q] = <<>>  BY <1>t, <2>2
  <2> QED  BY <1>0, <2>1, <2>3, <2>4, Frame
<1>4. ASSUME NEW r \in Runs, Exists(r) PROVE IInv'  BY <1>0, <1>4, CallEffects, LooksKeeps
<1>5. ASSUME NEW r \in Runs, Create(r) PROVE IInv'  BY <1>0, <1>5, CallEffects, CreatesKeeps
<1>6. ASSUME NEW r \in Runs, Get(r) PROVE IInv'  BY <1>0, <1>6, GetKeeps
<1>7. ASSUME NEW r \in Runs, Set(r) PROVE IInv'  BY <1>0, <1>7, CallEffects, SetsKeeps
<1>8. ASSUME NEW r \in Runs, Expire(r) PROVE IInv'  BY <1>0, <1>8, ExpireKeeps
<1> QED  BY <1>1, <1>2, <1>3, <1>4, <1>5, <1>6, <1>7, <1>8 DEF Next, Step

\* The registry keeps its type, nobody is missing from the buffer that is about
\* to be written back without having been cut off or having written since, and
\* every value is what a buffer holds and one line.
THEOREM Invariance == Spec => []IInv
<1> QED  BY InitInv, StepInv, PTL DEF Spec

\* ZkClient::Append: a server can be read in the znode once its append has
\* returned, unless one of its calls failed, another server wrote back an older
\* value or one its buffer did not hold, its own line came behind such a
\* buffer, or the session that created the znode ended.
THEOREM ListedTheorem == Spec => []ListedUnlessExcused
<1>1. IInv => ListedUnlessExcused  BY DEF IInv
<1> QED  BY Invariance, <1>1, PTL
-----------------------------------------------------------------------------
(***************************************************************************)
(* How often a server is listed.  Limit says how often it may be, by how   *)
(* far its append has come; it only grows, and an append adds one line to  *)
(* a value that was read while the server still had one line to add.       *)
(***************************************************************************)
Limit(r, p) == IF p \notin todo[r] THEN 2
               ELSE IF pc[r] = "crashed" \/ (pc[r] \in {"get", "set"} /\ path[r] = p) THEN 1
               ELSE 0

TimesOK ==
  \A r \in Runs, p \in Services :
    /\ node[p] # NoNode => Times(r, node[p]) <= Limit(r, p)
    /\ \A q \in Runs : pc[q] = "set" /\ path[q] = p => Times(r, buf[q]) <= Limit(r, p)

\* The lines of a value are counted one by one.
LEMMA TimesAppended ==
  ASSUME NEW q \in Seq(Lines), NEW r, NEW x \in Lines
  PROVE  /\ Times(r, q) \in Nat
         /\ Times(r, Append(q, x)) = IF x.who = r THEN Times(r, q) + 1 ELSE Times(r, q)
<1> DEFINE at == {i \in DOMAIN q : q[i].who = r}
           after == {i \in DOMAIN Append(q, x) : Append(q, x)[i].who = r}
           last == Len(q) + 1
<1>1. Len(q) \in Nat /\ DOMAIN q = 1..Len(q) /\ DOMAIN Append(q, x) = 1..last  OBVIOUS
<1>2. /\ Append(q, x)[last] = x
      /\ \A i \in DOMAIN q : Append(q, x)[i] = q[i]
  OBVIOUS
<1>3. last \notin at /\ \A i \in 1..last : i = last \/ i \in DOMAIN q  BY <1>1
<1>4. after = IF x.who = r THEN at \cup {last} ELSE at  BY <1>1, <1>2, <1>3
<1>5. IsFiniteSet(1..Len(q))  BY <1>1, FS_Interval
<1>6. IsFiniteSet(at)  BY <1>1, <1>5, FS_Subset
<1>7. Cardinality(at) \in Nat  BY <1>6, FS_CardinalityType
<1>8. Cardinality(at \cup {last}) = Cardinality(at) + 1  BY <1>3, <1>6, FS_AddElement
<1> QED  BY <1>4, <1>7, <1>8 DEF Times

LEMMA TimesEmpty ==
  ASSUME NEW r, NEW q \in Seq(Lines), \A i \in DOMAIN q : q[i].who # r
  PROVE  Times(r, q) = 0
<1>1. {i \in DOMAIN q : q[i].who = r} = {}  OBVIOUS
<1> QED  BY <1>1, FS_EmptySet DEF Times

LEMMA TimesWithLine ==
  ASSUME NEW q \in Seq(Lines), NEW r, NEW s \in Runs
  PROVE  /\ Times(r, q) \in Nat
         /\ Times(r, WithLine(q, s)) = IF s = r THEN Times(r, q) + 1 ELSE Times(r, q)
<1>1. PICK e \in Lines : e = Line(s, Length(q) + Size[s])  BY LineFacts
<1>2. e.who = s /\ WithLine(q, s) = Append(q, e)  BY <1>1, LineFacts
<1> QED  BY <1>2, TimesAppended

\* What the buffer takes of a value lists nobody more often.
LEMMA TimesPrefix ==
  ASSUME NEW q \in Seq(Lines), NEW k \in 0..Len(q), Fits(q, k), NEW r \in Runs
  PROVE  Times(r, Prefix(q, k)) \in Nat /\ Times(r, Prefix(q, k)) <= Times(r, q)
<1> DEFINE at == {i \in DOMAIN q : q[i].who = r}
           there == {i \in DOMAIN Prefix(q, k) : Prefix(q, k)[i].who = r}
<1>1. r # Cut  BY RegistryAssumption
<1>2. \A i \in DOMAIN Prefix(q, k) :
        (i \in DOMAIN q /\ Prefix(q, k)[i] = q[i]) \/ Prefix(q, k)[i].who = Cut
  BY PrefixFacts
<1>3. there \subseteq at  BY <1>1, <1>2
<1>4. Len(q) \in Nat /\ DOMAIN q = 1..Len(q)  OBVIOUS
<1>5. IsFiniteSet(1..Len(q))  BY <1>4, FS_Interval
<1>6. IsFiniteSet(at)  BY <1>4, <1>5, FS_Subset
<1>7. IsFiniteSet(there) /\ Cardinality(there) <= Cardinality(at)  BY <1>3, <1>6, FS_Subset
<1>8. Cardinality(there) \in Nat  BY <1>7, FS_CardinalityType
<1> QED  BY <1>7, <1>8 DEF Times

\* Where the value of a znode and a value about to be written back come from.
Stays(p) == node'[p] \in {node[p], NoNode}
CreatedBy(r, p) == /\ pc[r] = "create" /\ path[r] = p /\ node'[p] = WithLine(<<>>, r)
                   /\ (pc'[r] = "get" /\ path'[r] = p) \/ p \notin todo'[r]
SetBy(r, p) == /\ pc[r] = "set" /\ path[r] = p /\ node'[p] = WithLine(buf[r], r)
               /\ p \notin todo'[r]
ReadSame(q) == pc[q] = "set" /\ path'[q] = path[q] /\ buf'[q] = buf[q]
ReadNow(q) == /\ path'[q] = path[q]
              /\ \/ buf'[q] = <<Line(Junk, Capacity)>>
                 \/ /\ node[path[q]] # NoNode
                    /\ \E k \in 0..Len(node[path[q]]) :
                         Fits(node[path[q]], k) /\ buf'[q] = Prefix(node[path[q]], k)

\* How far a server's append has come.
Further(r, p) ==
  \/ p \notin todo'[r]
  \/ /\ p \in todo[r]
     /\ \/ pc'[r] = "crashed"
        \/ pc[r] = "crashed" /\ pc'[r] = pc[r]
        \/ pc'[r] \in {"get", "set"} /\ path'[r] = path[r] /\ path[r] = p
        \/ pc[r] # "crashed" /\ ~(pc[r] \in {"get", "set"} /\ path[r] = p)

StepSources ==
  /\ \A p \in Services : Stays(p) \/ \E r \in Runs : CreatedBy(r, p) \/ SetBy(r, p)
  /\ \A q \in Runs : pc'[q] = "set" => ReadSame(q) \/ ReadNow(q)
  /\ \A r \in Runs, p \in Services : Further(r, p)

LEMMA LimitGrows ==
  ASSUME NEW r \in Runs, NEW p \in Services, Further(r, p)
  PROVE  Limit(r, p) <= Limit(r, p)'
BY DEF Further, Limit

LEMMA TimesKept ==
  ASSUME TypeOK, PathOK, PathOK', TimesOK, StepSources
  PROVE  TimesOK'
<1>t. /\ \A p \in Services : node[p] # NoNode => node[p] \in Seq(Lines)
      /\ \A r \in Runs : buf[r] \in Seq(Lines)
      /\ \A r \in Runs : todo[r] \subseteq Services
  BY DEF TypeOK
<1>j. Junk \notin Runs  BY RegistryAssumption
<1>l. \A r \in Runs, p \in Services : /\ Limit(r, p) \in 0..2 /\ Limit(r, p)' \in 0..2
                                      /\ Limit(r, p) <= Limit(r, p)'
  <2> SUFFICES ASSUME NEW r \in Runs, NEW p \in Services
               PROVE  /\ Limit(r, p) \in 0..2 /\ Limit(r, p)' \in 0..2
                      /\ Limit(r, p) <= Limit(r, p)'
    OBVIOUS
  <2>1. Limit(r, p) \in 0..2 /\ Limit(r, p)' \in 0..2  BY DEF Limit
  <2> QED  BY <2>1, LimitGrows DEF StepSources
<1>1. ASSUME NEW r \in Runs, NEW p \in Services, node'[p] # NoNode
      PROVE  Times(r, node'[p]) <= Limit(r, p)'
  <2>1. CASE Stays(p)
    <3>1. node'[p] = node[p] /\ node[p] # NoNode  BY <1>1, <2>1 DEF Stays
    <3>2. Times(r, node[p]) <= Limit(r, p)  BY <3>1 DEF TimesOK
    <3>3. Times(r, node[p]) \in Nat  BY <1>t, <3>1, TimesWithLine
    <3> HIDE DEF Times, Limit
    <3> QED  BY <1>l, <3>1, <3>2, <3>3
  <2>2. ASSUME NEW s \in Runs, CreatedBy(s, p) PROVE Times(r, node'[p]) <= Limit(r, p)'
    <3>1. Times(r, node'[p]) = IF s = r THEN 1 ELSE 0
      <4>0. <<>> \in Seq(Lines) /\ \A i \in DOMAIN <<>> : <<>>[i].who # r  OBVIOUS
      <4>1. <<>> \in Seq(Lines) /\ Times(r, <<>>) = 0  BY <4>0, TimesEmpty
      <4>2. Times(r, WithLine(<<>>, s)) = IF s = r THEN Times(r, <<>>) + 1 ELSE Times(r, <<>>)
        BY <4>1, TimesWithLine
      <4>3. node'[p] = WithLine(<<>>, s)  BY <2>2 DEF CreatedBy
      <4> HIDE DEF Times
      <4> QED  BY <4>1, <4>2, <4>3
    <3>2. s = r => Limit(r, p)' >= 1  BY <2>2 DEF CreatedBy, Limit
    <3> HIDE DEF Times, Limit
    <3> QED  BY <1>l, <3>1, <3>2
  <2>3. ASSUME NEW s \in Runs, SetBy(s, p) PROVE Times(r, node'[p]) <= Limit(r, p)'
    <3>1. /\ Times(r, buf[s]) \in Nat
          /\ Times(r, node'[p]) = IF s = r THEN Times(r, buf[s]) + 1 ELSE Times(r, buf[s])
      <4>1. buf[s] \in Seq(Lines) /\ node'[p] = WithLine(buf[s], s)  BY <1>t, <2>3 DEF SetBy
      <4>2. PICK b \in Seq(Lines) : b = buf[s]  BY <4>1
      <4>3. /\ Times(r, b) \in Nat
            /\ Times(r, WithLine(b, s)) = IF s = r THEN Times(r, b) + 1 ELSE Times(r, b)
        BY TimesWithLine
      <4> HIDE DEF Times, WithLine
      <4> QED  BY <4>1, <4>2, <4>3
    <3>2. Times(r, buf[s]) <= Limit(r, p)  BY <2>3 DEF SetBy, TimesOK
    <3>3. p \in todo[s]  BY <2>3 DEF SetBy, PathOK
    <3>4. s = r => Limit(r, p) = 1 /\ Limit(r, p)' = 2  BY <2>3, <3>3 DEF SetBy, Limit
    <3> HIDE DEF Times, Limit
    <3> QED  BY <1>l, <3>1, <3>2, <3>4
  <2> QED  BY <2>1, <2>2, <2>3 DEF StepSources
<1>2. ASSUME NEW r \in Runs, NEW p \in Services, NEW q \in Runs, pc'[q] = "set", path'[q] = p
      PROVE  Times(r, buf'[q]) <= Limit(r, p)'
  <2>1. CASE ReadSame(q)
    <3>1. Times(r, buf[q]) <= Limit(r, p)  BY <1>2, <2>1 DEF ReadSame, TimesOK
    <3>2. Times(r, buf[q]) \in Nat  BY <1>t, TimesWithLine
    <3>3. buf'[q] = buf[q]  BY <2>1 DEF ReadSame
    <3> HIDE DEF Times, Limit
    <3> QED  BY <1>l, <3>1, <3>2, <3>3
  <2>2. CASE ReadNow(q)
    <3>1. CASE buf'[q] = <<Line(Junk, Capacity)>>
      <4>0. Times(r, <<Line(Junk, Capacity)>>) = 0  BY <1>j, JunkFacts, TimesEmpty
      <4>1. Times(r, buf'[q]) = 0  BY <3>1, <4>0
      <4> HIDE DEF Times, Limit
      <4> QED  BY <1>l, <4>1
    <3>2. ASSUME node[p] # NoNode, NEW k \in 0..Len(node[p]), Fits(node[p], k), buf'[q] = Prefix(node[p], k)
          PROVE  Times(r, buf'[q]) <= Limit(r, p)'
      <4>1. Times(r, node[p]) <= Limit(r, p)  BY <3>2 DEF TimesOK
      <4>2. Times(r, node[p]) \in Nat  BY <1>t, <3>2, TimesWithLine
      <4>3. PICK v \in Seq(Lines) : v = node[p]  BY <1>t, <3>2
      <4>4. Times(r, Prefix(v, k)) \in Nat /\ Times(r, Prefix(v, k)) <= Times(r, v)
        BY <3>2, <4>3, TimesPrefix
      <4> HIDE DEF Times, Limit
      <4> QED  BY <1>l, <3>2, <4>1, <4>2, <4>3, <4>4
    <3> QED  BY <1>2, <2>2, <3>1, <3>2 DEF ReadNow
  <2> QED  BY <1>2, <2>1, <2>2 DEF StepSources
<1> HIDE DEF Times, Limit
<1> QED  BY <1>1, <1>2 DEF TimesOK

\* A step that writes no znode and reads none.
LEMMA SourcesFrame ==
  ASSUME \A p \in Services : node'[p] \in {node[p], NoNode}, todo' = todo,
         \A q \in Runs : \/ pc'[q] = "crashed"
                         \/ pc'[q] = pc[q] /\ path'[q] = path[q] /\ buf'[q] = buf[q]
                         \/ pc'[q] # "set" /\ pc[q] \notin {"crashed", "get", "set"}
  PROVE  StepSources
<1>1. \A r \in Runs, p \in Services : Further(r, p)  BY DEF Further
<1>2. \A q \in Runs : pc'[q] = "set" => ReadSame(q)  BY DEF ReadSame
<1> QED  BY <1>1, <1>2 DEF StepSources, Stays

LEMMA SourcesHold ==
  ASSUME TypeOK, PathOK, [Next]_vars
  PROVE  StepSources
<1>t. /\ pc \in [Runs -> {"idle", "handle", "wait", "run", "create", "get", "set", "serving"} \cup Dead]
      /\ buf \in [Runs -> Seq(Lines)] /\ path \in [Runs -> Services \cup {Nobody}]
      /\ todo \in [Runs -> SUBSET Services] /\ node \in [Services -> Seq(Lines) \cup {NoNode}]
  BY DEF TypeOK
<1>0. \A r \in Runs : pc[r] \in {"create", "get", "set"} => path[r] \in Services /\ path[r] \in todo[r]
  BY <1>t DEF PathOK
<1>1. CASE UNCHANGED vars
  BY <1>1, SourcesFrame DEF vars, zkVars, appendVars
<1>2. ASSUME NEW r \in Runs,
             StartInit(r) \/ SetContext(r) \/ SemWait(r) \/ Serve(r) \/ Connect(r) \/ LoseConnection(r)
      PROVE  StepSources
  <2>1. UNCHANGED <<node, todo, path, buf>>
    BY <1>2 DEF StartInit, SetContext, SemWait, Serve, Connect, LoseConnection, zkVars, appendVars
  <2>2. \A q \in Runs : pc'[q] = pc[q] \/ (pc'[q] # "set" /\ pc[q] \notin {"crashed", "get", "set"})
    BY <1>2, <1>t DEF StartInit, SetContext, SemWait, Serve, Connect, LoseConnection, Goto
  <2> QED  BY <2>1, <2>2, SourcesFrame
<1>3. ASSUME NEW r \in Runs, Watcher(r) \/ Crash(r) PROVE StepSources
  <2>1. UNCHANGED <<node, todo>>  BY <1>3 DEF Watcher, Crash, zkVars
  <2>2. \/ UNCHANGED <<pc, path, buf>>
        \/ /\ pc' = [pc EXCEPT ![r] = "crashed"] /\ path' = [path EXCEPT ![r] = Nobody]
           /\ buf' = [buf EXCEPT ![r] = <<>>]
    BY <1>3 DEF Watcher, Crash, Die
  <2>3. \A q \in Runs : pc'[q] = "crashed" \/ (pc'[q] = pc[q] /\ path'[q] = path[q] /\ buf'[q] = buf[q])
    BY <1>t, <2>2
  <2> QED  BY <2>1, <2>3, SourcesFrame
<1>4. ASSUME NEW r \in Runs, Expire(r) PROVE StepSources
  <2>1. UNCHANGED <<pc, todo, path, buf>> /\ \A p \in Services : node'[p] \in {node[p], NoNode}
    BY <1>4 DEF Expire
  <2> QED  BY <2>1, SourcesFrame
<1>5. ASSUME NEW r \in Runs, Exists(r) PROVE StepSources
  <2>1. PICK x \in todo[r] : Looks(r, x)  BY <1>5, CallEffects
  <2>2. /\ node' = node /\ buf' = buf /\ pc[r] = "run"
        /\ \A q \in Runs : q # r => pc'[q] = pc[q] /\ path'[q] = path[q] /\ todo'[q] = todo[q]
        /\ pc'[r] # "set" /\ todo'[r] \subseteq todo[r]
    BY <1>t, <2>1 DEF Looks
  <2>3. \A q \in Runs : pc'[q] = "set" => ReadSame(q)  BY <2>2 DEF ReadSame
  <2>4. \A q \in Runs, p \in Services : Further(q, p)  BY <2>2 DEF Further
  <2> QED  BY <2>2, <2>3, <2>4 DEF StepSources, Stays
<1>6. ASSUME NEW r \in Runs, Create(r) PROVE StepSources
  <2> DEFINE x == path[r]
  <2>1. pc[r] = "create" /\ x \in Services /\ x \in todo[r] /\ Creates(r, x)
    BY <1>0, <1>6, CallEffects
  <2>2. \/ pc' = [pc EXCEPT ![r] = "get"] /\ todo' = todo /\ path' = path /\ buf' = buf
        \/ /\ pc' = [pc EXCEPT ![r] = "run"] /\ todo' = [todo EXCEPT ![r] = @ \ {x}]
           /\ path' = [path EXCEPT ![r] = Nobody] /\ buf' = [buf EXCEPT ![r] = <<>>]
    BY <2>1 DEF Creates, Leave
  <2>3. \A q \in Runs : q # r => pc'[q] = pc[q] /\ path'[q] = path[q] /\ todo'[q] = todo[q] /\ buf'[q] = buf[q]
    BY <1>t, <2>2
  <2>4. pc'[r] # "set" /\ ((pc'[r] = "get" /\ path'[r] = x /\ todo'[r] = todo[r]) \/ todo'[r] = todo[r] \ {x})
    BY <1>t, <2>2
  <2>5. \A q \in Runs : pc'[q] = "set" => ReadSame(q)  BY <2>3, <2>4 DEF ReadSame
  <2>6. \A q \in Runs, p \in Services : Further(q, p)  BY <2>1, <2>3, <2>4 DEF Further
  <2>7. node' = node \/ node' = [node EXCEPT ![x] = WithLine(<<>>, r)]  BY <2>1 DEF Creates, Stores
  <2>8. \A p \in Services : Stays(p) \/ CreatedBy(r, p)
    BY <1>t, <2>1, <2>4, <2>7 DEF Stays, CreatedBy
  <2> QED  BY <2>5, <2>6, <2>8 DEF StepSources
<1>7. ASSUME NEW r \in Runs, Get(r) PROVE StepSources
  <2> DEFINE x == path[r]
  <2>1. /\ pc[r] = "get" /\ pc' = [pc EXCEPT ![r] = "set"] /\ UNCHANGED <<node, todo, path>>
        /\ \/ node[x] # NoNode /\ \E k \in 0..Len(node[x]) :
                                   Fits(node[x], k) /\ buf' = [buf EXCEPT ![r] = Prefix(node[x], k)]
           \/ buf' = [buf EXCEPT ![r] = <<Line(Junk, Capacity)>>]
    BY <1>7 DEF Get, Goto, zkVars
  <2>2. \A q \in Runs : q # r => pc'[q] = pc[q] /\ buf'[q] = buf[q]  BY <1>t, <2>1
  <2>3. pc'[r] = "set" /\ ReadNow(r)  BY <1>t, <2>1 DEF ReadNow
  <2>4. \A q \in Runs : pc'[q] = "set" => ReadSame(q) \/ ReadNow(q)
    BY <2>1, <2>2, <2>3 DEF ReadSame
  <2>5. \A q \in Runs, p \in Services : Further(q, p)  BY <2>1, <2>2, <2>3 DEF Further
  <2> QED  BY <2>1, <2>4, <2>5 DEF StepSources, Stays
<1>8. ASSUME NEW r \in Runs, Set(r) PROVE StepSources
  <2> DEFINE x == path[r]
  <2>1. pc[r] = "set" /\ x \in Services /\ x \in todo[r] /\ Sets(r, x)
    BY <1>0, <1>8, CallEffects
  <2>2. /\ pc' = [pc EXCEPT ![r] = "run"] /\ todo' = [todo EXCEPT ![r] = @ \ {x}]
        /\ path' = [path EXCEPT ![r] = Nobody] /\ buf' = [buf EXCEPT ![r] = <<>>]
    BY <2>1 DEF Sets, Leave
  <2>3. \A q \in Runs : q # r => pc'[q] = pc[q] /\ path'[q] = path[q] /\ todo'[q] = todo[q] /\ buf'[q] = buf[q]
    BY <1>t, <2>2
  <2>4. pc'[r] = "run" /\ todo'[r] = todo[r] \ {x}  BY <1>t, <2>2
  <2>5. \A q \in Runs : pc'[q] = "set" => ReadSame(q)  BY <2>3, <2>4 DEF ReadSame
  <2>6. \A q \in Runs, p \in Services : Further(q, p)  BY <2>1, <2>3, <2>4 DEF Further
  <2>7. node' = node \/ node' = [node EXCEPT ![x] = WithLine(buf[r], r)]  BY <2>1 DEF Sets
  <2>8. \A p \in Services : Stays(p) \/ SetBy(r, p)
    BY <1>t, <2>1, <2>4, <2>7 DEF Stays, SetBy
  <2> QED  BY <2>5, <2>6, <2>8 DEF StepSources
<1> QED  BY <1>1, <1>2, <1>3, <1>4, <1>5, <1>6, <1>7, <1>8 DEF Next, Step

\* ZkClient::Append: no server is listed more than twice in a znode, however the
\* reads and writes of old values interleave; the znodes keep their type, and
\* none grows beyond the buffer and one line.
THEOREM InvTheorem == Spec => []Inv
<1>1. Init => TimesOK  BY DEF Init, TimesOK
<1>2. IInv /\ TimesOK /\ [Next]_vars => (IInv /\ TimesOK)'
  BY StepInv, SourcesHold, TimesKept DEF IInv
<1>3. IInv /\ TimesOK => Inv
  <2> SUFFICES ASSUME IInv, TimesOK PROVE ListedTwiceAtMost
    BY DEF IInv, Inv, NodesOK, NodeOK, OneBehind
  <2> SUFFICES ASSUME NEW p \in Services, node[p] # NoNode, NEW r \in Runs
               PROVE  Times(r, node[p]) <= 2
    BY DEF ListedTwiceAtMost
  <2>1. Times(r, node[p]) <= Limit(r, p) /\ Limit(r, p) \in 0..2  BY DEF TimesOK, Limit
  <2>2. Times(r, node[p]) \in Nat
    <3>1. node[p] \in Seq(Lines)  BY DEF IInv, TypeOK
    <3> QED  BY <3>1, TimesWithLine
  <2> HIDE DEF Times, Limit
  <2> QED  BY <2>1, <2>2
<1> QED  BY InitInv, <1>1, <1>2, <1>3, PTL DEF Spec
=============================================================================
