------------------------- MODULE AsyncLoggingProofs -------------------------
(***************************************************************************)
(* Proofs about AsyncLogging for any set of lines and any capacity: the    *)
(* buffers are always where threadFunc's assertions say they are, and the  *)
(* lines reach the file once and in order, except those threadFunc says it *)
(* drops.  Then about the LogFile that AsyncLogging writes to, whose       *)
(* behaviours are those of LogSpec: its files lose nothing, are in order   *)
(* and bounded.                                                            *)
(***************************************************************************)
EXTENDS AsyncLogging, LogFile, SequenceTheorems, TLAPS

(* A buffer is not a null pointer, and the empty buffer is a buffer.        *)
LEMMA NullFacts == <<>> \in Buffers /\ <<>> # Null /\ \A b \in Buffers : b # Null
<1>1. <<>> \in Buffers  BY DEF Buffers
<1>2. Null \notin Buffers  BY NullAssumption, Zenon DEF Buffers
<1>3. \A b \in Buffers : b # Null  BY <1>2, Zenon
<1> QED  BY <1>1, <1>3, Zenon

(* What is left of a sequence of buffers after all but two are erased.      *)
LEMMA FirstTwo ==
  ASSUME NEW S, NEW s \in Seq(S), Len(s) > 2
  PROVE  SubSeq(s, 1, 2) \in Seq(S) /\ Len(SubSeq(s, 1, 2)) = 2
  OBVIOUS

(* What the file is given is a sequence of buffers, with the notice among   *)
(* the lines.                                                               *)
Texts == Seq(Lines \cup {Notice})

LEMMA BuffersAreTexts == Buffers \subseteq Texts /\ Seq(Buffers) \subseteq Seq(Texts)
<1>1. Buffers \subseteq Texts  BY DEF Buffers, Texts
<1> QED  BY <1>1

(* Writing buffers gives the file those buffers, or nothing at all.         *)
LEMMA GivenType ==
  ASSUME file \in Seq(Texts), NEW bs \in Seq(Texts)
  PROVE  Given(bs) \in Seq(Texts) /\ Len(Given(bs)) \in Nat
<1>1. Given(bs) = file \/ Given(bs) = file \o bs  BY Zenon DEF Given
<1>2. file \o bs \in Seq(Texts)  OBVIOUS
<1>3. Given(bs) \in Seq(Texts)  BY <1>1, <1>2, Zenon
<1> QED  BY <1>3, LenProperties

(* The lines in a sequence of buffers are lines.                            *)
LEMMA LinesOfType == ASSUME NEW bs \in Seq(Buffers) PROVE LinesOf(bs) \subseteq Lines
<1> SUFFICES ASSUME NEW i \in 1 .. Len(bs), NEW j \in 1 .. Len(bs[i]) PROVE bs[i][j] \in Lines
  BY DEF LinesOf
<1>1. bs[i] \in Buffers  BY ElementOfSeq
<1> QED  BY <1>1, ElementOfSeq DEF Buffers

(* append() keeps Inv: what it takes from nextBuffer_ it leaves in buffers_.*)
LEMMA AppendInv ==
  ASSUME Inv, NEW l \in Lines, AppendFits(l) \/ AppendFull(l)
  PROVE  Inv'
<1> USE NullFacts DEF Inv, SpareInv
<1>0. ctor = "done" /\ currentBuffer_ \in Buffers /\ Spare \in Buffers
  BY DEF AppendFits, AppendFull, Exists, TypeOK, Spare
<1>1. CASE AppendFits(l)
  <2>1. currentBuffer_' \in Buffers  BY <1>0, <1>1 DEF AppendFits, Buffers
  <2>2. /\ UNCHANGED <<ctor, early, latch_, running_, nextBuffer_, buffers_, pc>>
        /\ UNCHANGED <<newBuffer1, newBuffer2, buffersToWrite, notified, stopper>>
        /\ UNCHANGED <<file, flushed, dropped>> /\ unused' \subseteq unused
    BY <1>1 DEF AppendFits, threadVars
  <2>3. appended' \in Seq(Lines)
    <3>1. appended \in Seq(Lines) /\ appended' = Append(appended, l)
      BY <1>1 DEF AppendFits, TypeOK
    <3> QED  BY <3>1, AppendProperties
  <2>4. TypeOK'  BY <2>1, <2>2, <2>3 DEF TypeOK
  <2> QED  BY <1>0, <2>1, <2>2, <2>4
<1>2. CASE AppendFull(l)
  <2>1. currentBuffer_' \in Buffers
    <3>1. currentBuffer_' = Append(Spare, l) \/ currentBuffer_' = Spare
      BY <1>2, Zenon DEF AppendFull
    <3>2. Append(Spare, l) \in Buffers
      <4> HIDE NullFacts DEF Inv, SpareInv
      <4> QED  BY <1>0, AppendProperties DEF Buffers
    <3> QED  BY <1>0, <3>1, <3>2, Zenon
  <2>2. buffers_' \in Seq(Buffers) /\ buffers_' # <<>> /\ nextBuffer_' = Null
    <3>1. buffers_ \in Seq(Buffers)  BY DEF TypeOK
    <3> QED  BY <1>0, <1>2, <3>1, AppendProperties, EmptySeq DEF AppendFull
  <2>3. /\ UNCHANGED <<ctor, early, latch_, running_, pc, newBuffer1, newBuffer2>>
        /\ UNCHANGED <<buffersToWrite, stopper>> /\ notified' = TRUE
        /\ UNCHANGED <<file, flushed, dropped>> /\ unused' \subseteq unused
    BY <1>2 DEF AppendFull, threadVars
  <2>4. appended' \in Seq(Lines)
    <3>1. appended \in Seq(Lines)  BY DEF TypeOK
    <3>2. appended' = Append(appended, l) \/ appended' = appended
      BY <1>2, Zenon DEF AppendFull
    <3> QED  BY <3>1, <3>2, AppendProperties
  <2>5. TypeOK'  BY <2>1, <2>2, <2>3, <2>4 DEF TypeOK
  <2> QED  BY <1>0, <2>1, <2>2, <2>3, <2>5
<1> QED  BY <1>1, <1>2

(* The background thread's critical section and its drop keep Inv: a spare  *)
(* is missing only if there is a buffer more to recycle.                    *)
LEMMA TakeInv == ASSUME Inv, Take \/ DropBuffers \/ KeepBuffers PROVE Inv'
<1> USE NullFacts DEF Inv, SpareInv
<1>1. CASE Take
  <2>1. /\ ctor = "done" /\ pc \in {"lock", "waiting"}
        /\ newBuffer1 = <<>> /\ newBuffer2 = <<>> /\ currentBuffer_ \in Buffers
        /\ buffers_ \in Seq(Buffers)
    BY <1>1 DEF Take, Locks, TypeOK
  <2>2. /\ buffersToWrite' = Append(buffers_, currentBuffer_) /\ buffers_' = <<>>
        /\ currentBuffer_' = <<>> /\ newBuffer1' = Null /\ pc' = "taken"
        /\ UNCHANGED <<ctor, early, latch_, running_, notified, stopper, unused>>
        /\ UNCHANGED <<file, flushed, appended, dropped>>
    BY <1>1, <2>1 DEF Take, TakeBuffers
  <2>3. /\ buffersToWrite' \in Seq(Buffers) /\ Len(buffersToWrite') = Len(buffers_) + 1
        /\ Len(buffers_) \in Nat
    BY <2>1, <2>2, AppendProperties
  <2>4. /\ nextBuffer_' = <<>>
        /\ newBuffer2' = IF nextBuffer_ = Null THEN Null ELSE <<>>
    BY <1>1, <2>1 DEF Take, TakeBuffers
  <2>5. nextBuffer_ = Null => Len(buffers_) >= 1  BY <2>1, <2>3, EmptySeq
  <2>6. TypeOK'  BY <2>1, <2>2, <2>3, <2>4 DEF TypeOK
  <2> QED  BY <2>1, <2>2, <2>3, <2>4, <2>5, <2>6
<1>2. CASE DropBuffers
  <2>1. /\ ctor = "done" /\ pc = "taken" /\ pc' = "write"
        /\ Len(buffersToWrite) > 2 /\ buffersToWrite \in Seq(Buffers)
        /\ buffersToWrite' = SubSeq(buffersToWrite, 1, 2)
        /\ UNCHANGED <<ctor, early, latch_, running_, currentBuffer_, nextBuffer_, buffers_>>
        /\ UNCHANGED <<newBuffer1, newBuffer2, notified, stopper, unused>>
        /\ UNCHANGED <<flushed, appended>>
    BY <1>2, BuffersAssumption DEF DropBuffers, TypeOK, sharedVars
  <2>2. buffersToWrite' \in Seq(Buffers) /\ Len(buffersToWrite') = 2
    BY <2>1, FirstTwo
  <2>3. dropped' \subseteq Lines
    <3>1. SubSeq(buffersToWrite, 3, Len(buffersToWrite)) \in Seq(Buffers)  BY <2>1
    <3>2. LinesOf(SubSeq(buffersToWrite, 3, Len(buffersToWrite))) \subseteq Lines
      BY <3>1, LinesOfType
    <3> QED  BY <1>2, <3>2 DEF DropBuffers, TypeOK
  <2>4. file' \in Seq(Texts)
    <3>1. file \in Seq(Texts) /\ file' = Append(file, <<Notice>>)
      BY <1>2 DEF DropBuffers, TypeOK, Texts
    <3>2. <<Notice>> \in Texts  BY DEF Texts
    <3> QED  BY <3>1, <3>2, AppendProperties
  <2>5. TypeOK'  BY <2>1, <2>2, <2>3, <2>4 DEF TypeOK, Texts
  <2> QED  BY <2>1, <2>2, <2>5
<1>3. CASE KeepBuffers
  BY <1>3 DEF KeepBuffers, TypeOK, sharedVars, threadVars
<1> QED  BY <1>1, <1>2, <1>3

(* Inv is inductive.                                                        *)
LEMMA InvStep == ASSUME Inv, [Next]_vars PROVE Inv'
<1> USE NullFacts DEF Inv, SpareInv, TypeOK, sharedVars, threadVars
<1>1. CASE ConstructLatch  BY <1>1 DEF ConstructLatch
<1>2. CASE ConstructRest  
  <2>1. pc # "undefined" /\ currentBuffer_' # Null
    BY <1>2, Zenon DEF ConstructRest, Next, Ended, vars
  <2> QED  BY <1>2, <2>1 DEF ConstructRest
<1>3. CASE Acquire  
  <2>1. early' \in BOOLEAN /\ (ctor = "thread" => early')  BY <1>3, Zenon DEF Acquire
  <2>2. ctor = "thread" \/ ctor = "done"  BY <1>3 DEF Acquire
  <2> QED  BY <1>3, <2>1, <2>2 DEF Acquire
<1>4. CASE Start  BY <1>4 DEF Start
<1>5. CASE CheckRunning
  <2>1. /\ pc = "check" /\ pc' = (IF running_ THEN "lock" ELSE "done")
        /\ flushed' = flushed \/ flushed' = Len(file)
    BY <1>5 DEF CheckRunning
  <2>2. flushed' \in Nat  BY <2>1, LenProperties
  <2> QED  BY <1>5, <2>1, <2>2 DEF CheckRunning
<1>6. CASE Wait  BY <1>6 DEF Wait, Locks
<1>7. CASE WriteBuffers
  <2>1. /\ ctor = "done" /\ pc = "write" /\ newBuffer1' = <<>> /\ newBuffer2' = <<>>
        /\ buffersToWrite' = <<>> /\ pc' = "check"
        /\ UNCHANGED <<ctor, early, latch_, running_, currentBuffer_, nextBuffer_, buffers_>>
        /\ UNCHANGED <<notified, stopper, appended, dropped, unused>>
    BY <1>7 DEF WriteBuffers
  <2>2. file \in Seq(Texts) /\ buffersToWrite \in Seq(Texts)  BY BuffersAreTexts DEF Texts
  <2>3. file' = Given(buffersToWrite) /\ flushed' = Len(file')  BY <1>7 DEF WriteBuffers
  <2>4. file' \in Seq(Texts) /\ flushed' \in Nat  BY <2>2, <2>3, GivenType
  <2> QED  BY <2>1, <2>4 DEF Texts
<1>8. CASE Stop  
  <2>1. running_' = FALSE /\ running_' \in BOOLEAN  BY <1>8, Zenon DEF Stop
  <2> QED  BY <1>8, <2>1 DEF Stop
<1>9. CASE StopNotifies  BY <1>9 DEF StopNotifies
<1>10. CASE Join  BY <1>10 DEF Join
<1>11. CASE Terminate  BY <1>11 DEF Terminate
<1>12. CASE UNCHANGED vars  BY <1>12 DEF vars
<1>13. CASE UsesUnconstructed  BY <1>13 DEF UsesUnconstructed
<1> HIDE DEF Inv, SpareInv, TypeOK
<1> QED  BY <1>1, <1>2, <1>3, <1>4, <1>5, <1>6, <1>7, <1>8, <1>9, <1>10, <1>11, <1>12,
            <1>13, AppendInv, TakeInv DEF Next, ThreadStep

LEMMA InitInv == ASSUME Init PROVE Inv
<1>1. latch_ \in {0, 1}  BY GarbageAssumption DEF Init
<1>2. <<>> \in Seq(Buffers) /\ <<>> \in Seq(Lines) /\ <<>> \in Seq(Seq(Lines \cup {Notice}))
  OBVIOUS
<1>3. TypeOK  BY <1>1, <1>2 DEF Init, TypeOK
<1> QED  BY <1>3, NullFacts DEF Init, Inv, SpareInv

(* Every buffer is where append() and threadFunc expect it.                 *)
THEOREM Invariance == Spec => []Inv
<1>1. Init => Inv  BY InitInv
<1> QED  BY <1>1, InvStep, PTL DEF Spec

(* No assertion of threadFunc ever fails, for any lines, any capacity and   *)
(* any number of buffers filled while the thread was writing, and it runs   *)
(* on members that are not there only past a latch_ that was not there.     *)
THEOREM AssertionsNeverFail == Spec => []AssertionsHold
<1>1. Inv => AssertionsHold
  <2> SUFFICES ASSUME Inv PROVE AssertionsHold  OBVIOUS
  <2>1. buffersToWrite \in Seq(Buffers) /\ Len(buffersToWrite) \in Nat
    BY DEF Inv, TypeOK
  <2>2. pc = "taken" => Len(buffersToWrite) >= 1  BY <2>1 DEF Inv, SpareInv
  <2>3. pc = "taken" => buffersToWrite # <<>>  BY <2>1, <2>2, EmptySeq
  <2> QED  BY <2>1, <2>3, NullFacts DEF Inv, SpareInv, AssertionsHold
<1> QED  BY <1>1, Invariance, PTL

(***************************************************************************)
(* The order of the lines.                                                 *)
(***************************************************************************)

(* Leaving buffers out, and putting empty buffers and notices in, does not  *)
(* disturb the order: g says where a buffer of q2 was in q.                 *)
LEMMA OrderKept ==
  ASSUME NEW lines, NEW q, NEW q2, InOrderOf(q, lines), NEW g,
         \A i \in DOMAIN q2 : \/ q2[i] = <<>> \/ q2[i] = <<Notice>>
                              \/ g[i] \in DOMAIN q /\ q2[i] = q[g[i]],
         \A i, k \in DOMAIN q2 :
            i < k => g[i] < g[k] \/ q2[i] = <<Notice>> \/ q2[k] = <<Notice>>
  PROVE  InOrderOf(q2, lines)
<1> SUFFICES ASSUME NEW i \in DOMAIN q2, NEW k \in DOMAIN q2,
                    NEW j \in DOMAIN q2[i], NEW m \in DOMAIN q2[k],
                    i < k \/ (i = k /\ j < m), q2[i][j] # Notice, q2[k][m] # Notice
             PROVE  \E x, y \in DOMAIN lines : x < y /\ lines[x] = q2[i][j] /\ lines[y] = q2[k][m]
  BY DEF InOrderOf
<1>1. g[i] \in DOMAIN q /\ q2[i] = q[g[i]]  OBVIOUS
<1>2. g[k] \in DOMAIN q /\ q2[k] = q[g[k]]  OBVIOUS
<1>3. g[i] < g[k] \/ (g[i] = g[k] /\ j < m)  OBVIOUS
<1> QED  BY <1>1, <1>2, <1>3 DEF InOrderOf

(* A line is in one place only, if no line was appended twice.              *)
Injective(lines) == \A x, y \in DOMAIN lines : lines[x] = lines[y] => x = y

LEMMA OnePlace ==
  ASSUME NEW lines \in Seq(Lines), Injective(lines), NEW q \in Seq(Texts), InOrderOf(q, lines),
         NEW i \in DOMAIN q, NEW k \in DOMAIN q, NEW j \in DOMAIN q[i], NEW m \in DOMAIN q[k],
         q[i][j] = q[k][m], q[i][j] # Notice
  PROVE  i = k /\ j = m
<1>1. i \in Nat /\ k \in Nat  OBVIOUS
<1>2. q[i] \in Texts /\ q[k] \in Texts  OBVIOUS
<1>3. j \in Nat /\ m \in Nat  BY <1>2 DEF Texts
<1>4. ~(i < k \/ (i = k /\ j < m))
  <2> SUFFICES ASSUME i < k \/ (i = k /\ j < m) PROVE FALSE  OBVIOUS
  <2>1. PICK x \in DOMAIN lines, y \in DOMAIN lines :
           x < y /\ lines[x] = q[i][j] /\ lines[y] = q[k][m]
    BY DEF InOrderOf
  <2>2. x = y /\ x \in Nat  BY <2>1 DEF Injective
  <2> QED  BY <2>1, <2>2
<1>5. ~(k < i \/ (k = i /\ m < j))
  <2> SUFFICES ASSUME k < i \/ (k = i /\ m < j) PROVE FALSE  OBVIOUS
  <2>1. PICK x \in DOMAIN lines, y \in DOMAIN lines :
           x < y /\ lines[x] = q[k][m] /\ lines[y] = q[i][j]
    BY DEF InOrderOf
  <2>2. x = y /\ x \in Nat  BY <2>1 DEF Injective
  <2> QED  BY <2>1, <2>2
<1> QED  BY <1>1, <1>3, <1>4, <1>5

(* What LinesInOrder says of the buffers q, the appended lines and the      *)
(* dropped ones.                                                            *)
Occurs(l, lines) == \E x \in DOMAIN lines : lines[x] = l
Matches(q, lines, gone) ==
    \A l \in Lines : Occurs(l, lines) /\ l \notin gone <=> Holds(q, l)

(* A further empty buffer changes nothing.                                  *)
LEMMA EmptyAppended ==
  ASSUME NEW lines, NEW gone, NEW q \in Seq(Texts), InOrderOf(q, lines), Matches(q, lines, gone)
  PROVE  InOrderOf(Append(q, <<>>), lines) /\ Matches(Append(q, <<>>), lines, gone)
<1> DEFINE q2 == Append(q, <<>>)
           g == [i \in DOMAIN q2 |-> i]
<1>1. /\ DOMAIN q = 1 .. Len(q) /\ DOMAIN q2 = 1 .. Len(q) + 1 /\ Len(q) \in Nat
      /\ \A i \in 1 .. Len(q) : q2[i] = q[i]
      /\ q2[Len(q) + 1] = <<>>
  OBVIOUS
<1>2. InOrderOf(q2, lines)
  <2>1. \A i \in DOMAIN q2 : \/ q2[i] = <<>> \/ q2[i] = <<Notice>>
                             \/ g[i] \in DOMAIN q /\ q2[i] = q[g[i]]
    BY <1>1
  <2>2. \A i, k \in DOMAIN q2 : i < k => g[i] < g[k]  BY <1>1
  <2> HIDE DEF q2, g
  <2> QED  BY <2>1, <2>2, OrderKept
<1>3. \A l : Holds(q2, l) <=> Holds(q, l)
  <2> HIDE DEF q2
  <2> QED  BY <1>1 DEF Holds
<1> QED  BY <1>2, <1>3, Zenon DEF Matches

(* A new line behind all others keeps the order.                            *)
LEMMA LineAppended ==
  ASSUME NEW lines \in Seq(Lines), NEW gone, NEW q \in Seq(Texts), InOrderOf(q, lines),
         Matches(q, lines, gone), NEW l \in Lines, l \notin gone,
         NEW q2 \in Seq(Texts), NEW n \in Nat \ {0}, Len(q) = n, Len(q2) = n,
         q2[n] = Append(q[n], l), \A i \in 1 .. n - 1 : q2[i] = q[i]
  PROVE  InOrderOf(q2, Append(lines, l)) /\ Matches(q2, Append(lines, l), gone)
<1> DEFINE lines2 == Append(lines, l)
<1>1. /\ DOMAIN lines = 1 .. Len(lines) /\ Len(lines) \in Nat
      /\ DOMAIN lines2 = 1 .. Len(lines) + 1
      /\ \A x \in 1 .. Len(lines) : lines2[x] = lines[x]
      /\ lines2[Len(lines) + 1] = l
  OBVIOUS
<1>2. DOMAIN q = 1 .. n /\ DOMAIN q2 = 1 .. n  OBVIOUS
<1>3. q[n] \in Texts /\ l # Notice  BY <1>2, NullAssumption
<1>4. /\ DOMAIN q[n] = 1 .. Len(q[n]) /\ Len(q[n]) \in Nat
      /\ DOMAIN q2[n] = 1 .. Len(q[n]) + 1
      /\ \A j \in 1 .. Len(q[n]) : q2[n][j] = q[n][j]
      /\ q2[n][Len(q[n]) + 1] = l
  BY <1>3 DEF Texts
<1> HIDE DEF lines2
\* a place of q2 is a place of q, or the last
<1>5. ASSUME NEW i \in DOMAIN q2, NEW j \in DOMAIN q2[i]
      PROVE  \/ i \in DOMAIN q /\ j \in DOMAIN q[i] /\ q2[i][j] = q[i][j]
             \/ i = n /\ j = Len(q[n]) + 1 /\ q2[i][j] = l
  <2>1. CASE i = n  BY <2>1, <1>2, <1>4
  <2>2. CASE i # n  BY <2>2, <1>2
  <2> QED  BY <2>1, <2>2
\* and every line of q has been appended before
<1>6. ASSUME NEW i \in DOMAIN q, NEW j \in DOMAIN q[i], q[i][j] # Notice
      PROVE  \E x \in DOMAIN lines : lines[x] = q[i][j]
  <2>1. q[i] \in Texts  BY <1>2
  <2>2. q[i][j] \in Lines
    <3>1. j \in 1 .. Len(q[i])  BY <2>1 DEF Texts
    <3>2. q[i][j] \in Lines \cup {Notice}  BY <2>1, <3>1, ElementOfSeq DEF Texts
    <3> QED  BY <3>2, <1>6
  <2>3. Holds(q, q[i][j])  BY DEF Holds
  <2> QED  BY <2>2, <2>3 DEF Matches, Occurs
<1>7. InOrderOf(q2, lines2)
  <2> SUFFICES ASSUME NEW i \in DOMAIN q2, NEW k \in DOMAIN q2,
                      NEW j \in DOMAIN q2[i], NEW m \in DOMAIN q2[k],
                      i < k \/ (i = k /\ j < m), q2[i][j] # Notice, q2[k][m] # Notice
               PROVE  \E x, y \in DOMAIN lines2 :
                         x < y /\ lines2[x] = q2[i][j] /\ lines2[y] = q2[k][m]
    BY DEF InOrderOf
  <2>1. i \in DOMAIN q /\ j \in DOMAIN q[i] /\ q2[i][j] = q[i][j]
    <3> SUFFICES ASSUME i = n, j = Len(q[n]) + 1 PROVE FALSE  BY <1>5
    <3>1. k = n  BY <1>2
    <3> QED  BY <3>1, <1>4
  <2>2. CASE k \in DOMAIN q /\ m \in DOMAIN q[k] /\ q2[k][m] = q[k][m]
    <3>1. PICK x \in DOMAIN lines, y \in DOMAIN lines :
             x < y /\ lines[x] = q[i][j] /\ lines[y] = q[k][m]
      BY <2>1, <2>2 DEF InOrderOf
    <3> QED  BY <3>1, <2>1, <2>2, <1>1
  <2>3. CASE k = n /\ m = Len(q[n]) + 1 /\ q2[k][m] = l
    <3>1. PICK x \in DOMAIN lines : lines[x] = q[i][j]  BY <2>1, <1>6
    <3>2. x \in DOMAIN lines2 /\ lines2[x] = q2[i][j] /\ x < Len(lines) + 1
      BY <3>1, <2>1, <1>1
    <3>3. Len(lines) + 1 \in DOMAIN lines2 /\ lines2[Len(lines) + 1] = q2[k][m]
      BY <2>3, <1>1
    <3> QED  BY ONLY <3>2, <3>3
  <2> QED  BY <2>2, <2>3, <1>5
<1>8. Matches(q2, lines2, gone)
  <2>1. ASSUME NEW b PROVE Occurs(b, lines2) <=> Occurs(b, lines) \/ b = l
    <3>1. Len(lines) + 1 \in DOMAIN lines2 /\ DOMAIN lines \subseteq DOMAIN lines2
          /\ \A x \in DOMAIN lines2 : x \in DOMAIN lines \/ x = Len(lines) + 1
      BY <1>1
    <3> QED  BY <3>1, <1>1, Zenon DEF Occurs
  <2>2. ASSUME NEW b PROVE Holds(q2, b) => Holds(q, b) \/ b = l  BY <1>5 DEF Holds
  <2>3. Holds(q2, l)  BY <1>2, <1>4 DEF Holds
  <2>4. ASSUME NEW b, Holds(q, b) PROVE Holds(q2, b)
    <3>1. PICK i \in DOMAIN q : \E j \in DOMAIN q[i] : q[i][j] = b  BY <2>4 DEF Holds
    <3>2. PICK j \in DOMAIN q[i] : q[i][j] = b  BY <3>1
    <3>3. i \in DOMAIN q2 /\ j \in DOMAIN q2[i] /\ q2[i][j] = b
      <4>1. CASE i = n  BY <4>1, <3>2, <1>2, <1>4
      <4>2. CASE i # n  BY <4>2, <3>2, <1>2
      <4> QED  BY <4>1, <4>2
    <3> QED  BY <3>3 DEF Holds
  <2> QED  BY <2>1, <2>2, <2>3, <2>4, Zenon DEF Matches
<1> QED  BY <1>7, <1>8 DEF lines2

(* Where the buffers of three sequences put together are.                   *)
LEMMA Joined ==
  ASSUME NEW f \in Seq(Texts), NEW w \in Seq(Texts), NEW r \in Seq(Texts),
         NEW q, q = (f \o w) \o r
  PROVE  /\ q \in Seq(Texts) /\ Len(f) \in Nat /\ Len(w) \in Nat /\ Len(r) \in Nat
         /\ DOMAIN q = 1 .. Len(f) + Len(w) + Len(r)
         /\ \A i \in 1 .. Len(f) : q[i] = f[i]
         /\ \A i \in Len(f) + 1 .. Len(f) + Len(w) : q[i] = w[i - Len(f)]
         /\ \A i \in Len(f) + Len(w) + 1 .. Len(f) + Len(w) + Len(r) :
               q[i] = r[i - (Len(f) + Len(w))]
<1> DEFINE p == f \o w
<1>1. /\ p \in Seq(Texts) /\ Len(p) = Len(f) + Len(w) /\ Len(f) \in Nat /\ Len(w) \in Nat
      /\ \A i \in 1 .. Len(f) : p[i] = f[i]
      /\ \A i \in Len(f) + 1 .. Len(f) + Len(w) : p[i] = w[i - Len(f)]
  BY ConcatProperties
<1> HIDE DEF p
<1>2. /\ p \o r \in Seq(Texts) /\ Len(p \o r) = Len(p) + Len(r) /\ Len(r) \in Nat
      /\ \A i \in 1 .. Len(p) : (p \o r)[i] = p[i]
      /\ \A i \in Len(p) + 1 .. Len(p) + Len(r) : (p \o r)[i] = r[i - Len(p)]
  <2>1. p \in Seq(Texts)  BY <1>1
  <2> QED  BY ONLY <2>1, r \in Seq(Texts), ConcatProperties
<1>3. q = p \o r  BY DEF p
<1>4. q \in Seq(Texts) /\ DOMAIN q = 1 .. Len(f) + Len(w) + Len(r)
  BY <1>1, <1>2, <1>3, LenProperties
<1>5. \A i \in 1 .. Len(f) : q[i] = f[i]  BY <1>1, <1>2, <1>3
<1>6. \A i \in Len(f) + 1 .. Len(f) + Len(w) : q[i] = w[i - Len(f)]  BY <1>1, <1>2, <1>3
<1>7. \A i \in Len(f) + Len(w) + 1 .. Len(f) + Len(w) + Len(r) :
         q[i] = r[i - (Len(f) + Len(w))]
  BY <1>1, <1>2, <1>3
<1> QED  BY <1>1, <1>2, <1>4, <1>5, <1>6, <1>7

(* Empty buffers can be left out.                                           *)
LEMMA EmptyLeftOut ==
  ASSUME NEW lines, NEW gone, NEW f \in Seq(Texts), NEW w \in Seq(Texts), NEW r \in Seq(Texts),
         NEW q, q = (f \o w) \o r, InOrderOf(q, lines), Matches(q, lines, gone),
         \A i \in DOMAIN w : w[i] = <<>>,
         NEW q2, q2 = (f \o <<>>) \o r
  PROVE  InOrderOf(q2, lines) /\ Matches(q2, lines, gone)
<1> DEFINE g == [i \in DOMAIN q2 |-> IF i <= Len(f) THEN i ELSE i + Len(w)]
<1>1. /\ Len(f) \in Nat /\ Len(w) \in Nat /\ Len(r) \in Nat
      /\ DOMAIN q = 1 .. Len(f) + Len(w) + Len(r)
      /\ \A i \in 1 .. Len(f) : q[i] = f[i]
      /\ \A i \in Len(f) + 1 .. Len(f) + Len(w) : q[i] = w[i - Len(f)]
      /\ \A i \in Len(f) + Len(w) + 1 .. Len(f) + Len(w) + Len(r) :
            q[i] = r[i - (Len(f) + Len(w))]
  BY Joined
<1>2. <<>> \in Seq(Texts) /\ Len(<<>>) = 0  OBVIOUS
<1>3. /\ DOMAIN q2 = 1 .. Len(f) + Len(r)
      /\ \A i \in 1 .. Len(f) : q2[i] = f[i]
      /\ \A i \in Len(f) + 1 .. Len(f) + Len(r) : q2[i] = r[i - Len(f)]
  <2>1. /\ DOMAIN q2 = 1 .. Len(f) + 0 + Len(r)
        /\ \A i \in 1 .. Len(f) : q2[i] = f[i]
        /\ \A i \in Len(f) + 0 + 1 .. Len(f) + 0 + Len(r) : q2[i] = r[i - (Len(f) + 0)]
    BY <1>2, Joined
  <2> QED  BY <2>1, <1>1
<1>4. DOMAIN w = 1 .. Len(w)  OBVIOUS
<1>5. \A i \in DOMAIN q2 : g[i] \in DOMAIN q /\ q2[i] = q[g[i]]
  <2> SUFFICES ASSUME NEW i \in DOMAIN q2 PROVE g[i] \in DOMAIN q /\ q2[i] = q[g[i]]
    OBVIOUS
  <2>1. CASE i <= Len(f)  BY <2>1, <1>1, <1>3
  <2>2. CASE ~(i <= Len(f))
    <3>1. /\ i \in Len(f) + 1 .. Len(f) + Len(r) /\ g[i] = i + Len(w)
      BY <2>2, <1>1, <1>3
    <3>2. /\ g[i] \in Len(f) + Len(w) + 1 .. Len(f) + Len(w) + Len(r)
          /\ g[i] - (Len(f) + Len(w)) = i - Len(f)
      BY <3>1, <1>1
    <3>3. q[g[i]] = r[g[i] - (Len(f) + Len(w))]  BY <3>2, <1>1
    <3>4. q2[i] = r[i - Len(f)]  BY <3>1, <1>3
    <3>5. g[i] \in DOMAIN q  BY <3>2, <1>1
    <3> QED  BY <3>2, <3>3, <3>4, <3>5, Zenon
  <2> QED  BY <2>1, <2>2
<1>6. \A i, k \in DOMAIN q2 : i < k => g[i] < g[k]  BY <1>1, <1>3
<1>7. InOrderOf(q2, lines)
  <2>1. \A i \in DOMAIN q2 : \/ q2[i] = <<>> \/ q2[i] = <<Notice>>
                             \/ g[i] \in DOMAIN q /\ q2[i] = q[g[i]]
    BY <1>5, Zenon
  <2>2. PICK h : h = g  OBVIOUS
  <2>3. /\ \A i \in DOMAIN q2 : \/ q2[i] = <<>> \/ q2[i] = <<Notice>>
                                \/ h[i] \in DOMAIN q /\ q2[i] = q[h[i]]
        /\ \A i, k \in DOMAIN q2 : i < k => h[i] < h[k]
    BY <2>1, <2>2, <1>6, Zenon
  <2> HIDE DEF g
  <2> QED  BY ONLY <2>3, InOrderOf(q, lines), OrderKept
<1>8. \A i \in DOMAIN q : q[i] = <<>> \/ \E k \in DOMAIN q2 : q[i] = q2[k]
  <2> SUFFICES ASSUME NEW i \in DOMAIN q
               PROVE  q[i] = <<>> \/ \E k \in DOMAIN q2 : q[i] = q2[k]
    OBVIOUS
  <2>1. CASE i <= Len(f)  BY <2>1, <1>1, <1>3
  <2>2. CASE Len(f) < i /\ i <= Len(f) + Len(w)  BY <2>2, <1>1, <1>4
  <2>3. CASE Len(f) + Len(w) < i
    <3>1. /\ i - Len(w) \in Len(f) + 1 .. Len(f) + Len(r)
          /\ i \in Len(f) + Len(w) + 1 .. Len(f) + Len(w) + Len(r)
          /\ i - (Len(f) + Len(w)) = (i - Len(w)) - Len(f)
      BY <2>3, <1>1
    <3>2. q[i] = r[i - (Len(f) + Len(w))]  BY <3>1, <1>1
    <3>3. q2[i - Len(w)] = r[(i - Len(w)) - Len(f)] /\ i - Len(w) \in DOMAIN q2
      BY <3>1, <1>1, <1>3
    <3>4. q[i] = q2[i - Len(w)]  BY <3>1, <3>2, <3>3, Zenon
    <3> QED  BY <3>3, <3>4, Zenon
  <2> QED  BY <2>1, <2>2, <2>3, <1>1
<1>9. \A l : Holds(q2, l) <=> Holds(q, l)
  <2>1. \A j \in DOMAIN <<>> : FALSE  OBVIOUS
  <2>2. ASSUME NEW l, Holds(q2, l) PROVE Holds(q, l)
    <3>1. PICK i \in DOMAIN q2 : \E j \in DOMAIN q2[i] : q2[i][j] = l
      BY <2>2, Zenon DEF Holds
    <3>2. g[i] \in DOMAIN q /\ q2[i] = q[g[i]]  BY <1>5, Zenon
    <3> HIDE DEF g
    <3> QED  BY <3>1, <3>2, Zenon DEF Holds
  <2>3. ASSUME NEW l, Holds(q, l) PROVE Holds(q2, l)
    <3>1. PICK i \in DOMAIN q : \E j \in DOMAIN q[i] : q[i][j] = l
      BY <2>3, Zenon DEF Holds
    <3>2. PICK k \in DOMAIN q2 : q[i] = q2[k]  BY <1>8, <2>1, <3>1, Zenon
    <3> QED  BY <3>1, <3>2, Zenon DEF Holds
  <2> QED  BY <2>2, <2>3, Zenon
<1> QED  BY <1>7, <1>9, Zenon DEF Matches

(* DropBuffers: what is behind the first two buffers of w goes, and a       *)
(* notice comes in front of them.  Where each buffer is: in q, in front and *)
(* behind in q2.                                                            *)
Before(q, F, N, R, f, w, r) ==
    /\ DOMAIN q = 1 .. F + N + R
    /\ \A i \in 1 .. F : q[i] = f[i]
    /\ \A i \in F + 1 .. F + N : q[i] = w[i - F]
    /\ \A i \in F + N + 1 .. F + N + R : q[i] = r[i - (F + N)]

After(q2, F, R, f, w, r) ==
    /\ DOMAIN q2 = 1 .. F + 3 + R
    /\ \A i \in 1 .. F : q2[i] = f[i]
    /\ q2[F + 1] = <<Notice>> /\ q2[F + 2] = w[1] /\ q2[F + 3] = w[2]
    /\ \A i \in F + 4 .. F + 3 + R : q2[i] = r[i - (F + 3)]

\* q2 has the buffers of q that are not at the places in Gone, and notices:
\* buffer i of q2 is buffer g[i] of q
KeptBy(q, q2, Gone, g) ==
    /\ \A i \in DOMAIN q2 :
          q2[i] = <<Notice>> \/ (g[i] \in DOMAIN q /\ q2[i] = q[g[i]] /\ g[i] \notin Gone)
    /\ \A i, k \in DOMAIN q2 :
          i < k => g[i] < g[k] \/ q2[i] = <<Notice>> \/ q2[k] = <<Notice>>
Drops(q, q2, Gone) ==
    /\ \A i \in DOMAIN q : (\E k \in DOMAIN q2 : q[i] = q2[k]) \/ i \in Gone
    /\ \E g : KeptBy(q, q2, Gone, g)

\* a line at one of the places in Gone
IsAt(l, q, Gone) == \E i \in Gone : \E j \in DOMAIN q[i] : q[i][j] = l

LEMMA DropPlaces ==
  ASSUME NEW F \in Nat, NEW N \in Nat, N > 2, NEW R \in Nat,
         NEW f, NEW w, NEW r, NEW q, NEW q2,
         Before(q, F, N, R, f, w, r), After(q2, F, R, f, w, r)
  PROVE  Drops(q, q2, F + 3 .. F + N)
<1> USE DEF Before, After
<1> PICK g : g = [i \in DOMAIN q2 |-> IF i <= F + 3 THEN IF i <= F THEN i ELSE i - 1
                                                        ELSE (i - 3) + N]
  OBVIOUS
<1>g. /\ \A i \in 1 .. F : g[i] = i
      /\ g[F + 2] = F + 1 /\ g[F + 3] = F + 2
      /\ \A i \in F + 4 .. F + 3 + R : g[i] = (i - 3) + N
  OBVIOUS
<1>d. /\ \A i \in 1 .. F + 3 + R : \/ i \in 1 .. F \/ i = F + 1 \/ i = F + 2 \/ i = F + 3
                                     \/ i \in F + 4 .. F + 3 + R
      /\ \A i \in 1 .. F + N + R : \/ i \in 1 .. F \/ i = F + 1 \/ i = F + 2
                                     \/ i \in F + 3 .. F + N \/ i \in F + N + 1 .. F + N + R
  BY ONLY F \in Nat, N \in Nat, N > 2, R \in Nat
<1>1. \A i \in DOMAIN q2 : \/ q2[i] = <<Notice>>
                           \/ /\ g[i] \in DOMAIN q /\ q2[i] = q[g[i]]
                              /\ g[i] \notin F + 3 .. F + N
  <2> SUFFICES ASSUME NEW i \in DOMAIN q2, i # F + 1
               PROVE  g[i] \in DOMAIN q /\ q2[i] = q[g[i]] /\ g[i] \notin F + 3 .. F + N
    OBVIOUS
  <2>1. CASE i \in 1 .. F  BY <2>1, <1>g
  <2>2. CASE i = F + 2  BY <2>2, <1>g
  <2>3. CASE i = F + 3  BY <2>3, <1>g
  <2>4. CASE i \in F + 4 .. F + 3 + R
    <3>1. /\ g[i] \in F + N + 1 .. F + N + R
          /\ g[i] - (F + N) = i - (F + 3)
      BY <2>4, <1>g
    <3>2. q[g[i]] = r[g[i] - (F + N)]  BY <3>1
    <3>3. q2[i] = r[i - (F + 3)]  BY <2>4
    <3>4. g[i] \in DOMAIN q /\ g[i] \notin F + 3 .. F + N  BY <3>1
    <3> QED  BY <3>1, <3>2, <3>3, <3>4, Zenon
  <2> QED  BY <2>1, <2>2, <2>3, <2>4, <1>d
<1>2. ASSUME NEW i \in DOMAIN q2, NEW k \in DOMAIN q2, i < k
      PROVE  g[i] < g[k] \/ q2[i] = <<Notice>> \/ q2[k] = <<Notice>>
  <2>1. ASSUME NEW x \in DOMAIN q2, x # F + 1
        PROVE  /\ x \in 1 .. F => g[x] = x
               /\ x \in F + 2 .. F + 3 => g[x] = x - 1
               /\ x \in F + 4 .. F + 3 + R => g[x] = (x - 3) + N
    BY <2>1, <1>g
  <2> SUFFICES ASSUME i # F + 1, k # F + 1 PROVE g[i] < g[k]  OBVIOUS
  <2>2. i \in 1 .. F + 3 + R /\ k \in 1 .. F + 3 + R  OBVIOUS
  <2>3. /\ i \in 1 .. F => g[i] = i
        /\ i \in F + 2 .. F + 3 => g[i] = i - 1
        /\ i \in F + 4 .. F + 3 + R => g[i] = (i - 3) + N
        /\ k \in 1 .. F => g[k] = k
        /\ k \in F + 2 .. F + 3 => g[k] = k - 1
        /\ k \in F + 4 .. F + 3 + R => g[k] = (k - 3) + N
    BY <2>1
  <2> QED
    BY ONLY <2>2, <2>3, i < k, i # F + 1, k # F + 1, F \in Nat, N \in Nat, N > 2, R \in Nat
<1>3. ASSUME NEW i \in DOMAIN q, i \notin F + 3 .. F + N
      PROVE  \E k \in DOMAIN q2 : q[i] = q2[k]
  <2>1. CASE i \in 1 .. F  BY <2>1
  <2>2. CASE i = F + 1
    <3>1. F + 2 \in DOMAIN q2 /\ q[i] = q2[F + 2]  BY <2>2
    <3> QED  BY <3>1, Zenon
  <2>3. CASE i = F + 2
    <3>1. F + 3 \in DOMAIN q2 /\ q[i] = q2[F + 3]  BY <2>3
    <3> QED  BY <3>1, Zenon
  <2>4. CASE i \in F + N + 1 .. F + N + R
    <3>1. /\ (i - N) + 3 \in F + 4 .. F + 3 + R
          /\ ((i - N) + 3) - (F + 3) = i - (F + N)
      BY <2>4
    <3>2. q[i] = r[i - (F + N)]  BY <2>4
    <3>3. q2[(i - N) + 3] = r[((i - N) + 3) - (F + 3)]  BY <3>1
    <3>4. (i - N) + 3 \in DOMAIN q2  BY <3>1
    <3> QED  BY <3>1, <3>2, <3>3, <3>4, Zenon
  <2>5. i \in 1 .. F + N + R  OBVIOUS
  <2> QED  BY ONLY <2>1, <2>2, <2>3, <2>4, <1>3, <1>d, <2>5
<1>4. \A i \in DOMAIN q : (\E k \in DOMAIN q2 : q[i] = q2[k]) \/ i \in F + 3 .. F + N
  BY ONLY <1>3, Zenon
<1>5. \A i, k \in DOMAIN q2 : i < k => \/ g[i] < g[k]
                                       \/ q2[i] = <<Notice>> \/ q2[k] = <<Notice>>
  BY ONLY <1>2, Zenon
<1>6. \A i \in DOMAIN q2 : \/ q2[i] = <<Notice>>
                           \/ /\ g[i] \in DOMAIN q /\ q2[i] = q[g[i]]
                              /\ g[i] \notin F + 3 .. F + N
  BY ONLY <1>1, Zenon
<1>7. KeptBy(q, q2, F + 3 .. F + N, g)  BY ONLY <1>5, <1>6 DEF KeptBy
<1> QED  BY ONLY <1>4, <1>7, Zenon DEF Drops

(* The lines erased are those at the places erased.                         *)
LEMMA LinesOfPart ==
  ASSUME NEW F \in Nat, NEW N \in Nat, N > 2, NEW q, NEW v \in Seq(Texts), Len(v) = N - 2,
         \A k \in 1 .. N - 2 : v[k] = q[(F + 2) + k],
         NEW l
  PROVE  l \in LinesOf(v) <=> IsAt(l, q, F + 3 .. F + N)
<1>1. l \in LinesOf(v) <=> \E k \in 1 .. N - 2 : \E j \in 1 .. Len(v[k]) : v[k][j] = l
  <2>1. l \in LinesOf(v) <=> \E k \in 1 .. Len(v) : l \in {v[k][j] : j \in 1 .. Len(v[k])}
    BY ONLY Zenon DEF LinesOf
  <2>2. \A k : l \in {v[k][j] : j \in 1 .. Len(v[k])} <=> \E j \in 1 .. Len(v[k]) : v[k][j] = l
    BY ONLY TRUE
  <2>3. 1 .. Len(v) = 1 .. N - 2  OBVIOUS
  <2> QED  BY ONLY <2>1, <2>2, <2>3, Zenon
<1>2. \A k \in 1 .. N - 2 : 1 .. Len(v[k]) = DOMAIN v[k]
  <2>1. \A k \in 1 .. N - 2 : v[k] \in Texts  OBVIOUS
  <2> QED  BY ONLY <2>1 DEF Texts
<1>3. \A i \in F + 3 .. F + N : i - (F + 2) \in 1 .. N - 2 /\ (F + 2) + (i - (F + 2)) = i
  BY ONLY F \in Nat, N \in Nat, N > 2
<1>4. \A k \in 1 .. N - 2 : (F + 2) + k \in F + 3 .. F + N
  BY ONLY F \in Nat, N \in Nat, N > 2
<1>5. ASSUME NEW k \in 1 .. N - 2, \E j \in DOMAIN v[k] : v[k][j] = l
      PROVE  \E i \in F + 3 .. F + N : \E j \in DOMAIN q[i] : q[i][j] = l
  <2>1. (F + 2) + k \in F + 3 .. F + N /\ v[k] = q[(F + 2) + k]  BY <1>4
  <2>2. \E j \in DOMAIN q[(F + 2) + k] : q[(F + 2) + k][j] = l  BY <1>5, <2>1, Zenon
  <2> QED  BY <2>1, <2>2, Zenon
<1>6. ASSUME NEW i \in F + 3 .. F + N, \E j \in DOMAIN q[i] : q[i][j] = l
      PROVE  l \in LinesOf(v)
  <2>1. PICK k \in 1 .. N - 2 : (F + 2) + k = i  BY <1>3
  <2>2. v[k] = q[i]  BY <2>1
  <2>3. \E j \in 1 .. Len(v[k]) : v[k][j] = l  BY <1>6, <2>2, <1>2
  <2> QED  BY <2>3, <1>1, Zenon
<1> QED  BY ONLY <1>1, <1>2, <1>5, <1>6 DEF IsAt

(* Without the buffers at the places Gone, the lines are in order, and just  *)
(* those of the erased buffers are gone.                                    *)
LEMMA RestDropped ==
  ASSUME NEW lines \in Seq(Lines), Injective(lines), NEW gone,
         NEW q \in Seq(Texts), NEW q2, InOrderOf(q, lines), Matches(q, lines, gone),
         NEW Gone, Gone \subseteq DOMAIN q,
         NEW erased,
         \A l : l \in erased <=> IsAt(l, q, Gone), Drops(q, q2, Gone)
  PROVE  InOrderOf(q2, lines) /\ Matches(q2, lines, gone \cup erased)
<1>a. \A i \in DOMAIN q : (\E k \in DOMAIN q2 : q[i] = q2[k]) \/ i \in Gone  BY DEF Drops
<1>b. PICK g : KeptBy(q, q2, Gone, g)
  BY Zenon DEF Drops
<1>c. \A l : l \in erased <=> \E i \in Gone : \E j \in DOMAIN q[i] : q[i][j] = l  BY DEF IsAt
<1>1. InOrderOf(q2, lines)
  <2>1. \A i \in DOMAIN q2 : \/ q2[i] = <<>> \/ q2[i] = <<Notice>>
                             \/ g[i] \in DOMAIN q /\ q2[i] = q[g[i]]
    BY <1>b DEF KeptBy
  <2> QED  BY <2>1, <1>b, OrderKept DEF KeptBy
<1>2. ASSUME NEW l \in Lines PROVE Holds(q2, l) <=> Holds(q, l) /\ l \notin erased
  <2>n. l # Notice  BY NullAssumption
  <2>1. ASSUME Holds(q2, l) PROVE Holds(q, l) /\ l \notin erased
    <3>1. PICK i \in DOMAIN q2 : \E j \in DOMAIN q2[i] : q2[i][j] = l
      BY <2>1, Zenon DEF Holds
    <3>2. q2[i] # <<Notice>>  BY <3>1, <2>n
    <3>3. PICK k \in DOMAIN q : q2[i] = q[k] /\ k \notin Gone
      BY <3>2, <1>b, Zenon DEF KeptBy
    <3>4. PICK j \in DOMAIN q[k] : q[k][j] = l  BY <3>1, <3>3
    <3>5. l \notin erased
      <4> SUFFICES ASSUME l \in erased PROVE FALSE  OBVIOUS
      <4>1. PICK e \in Gone : \E m \in DOMAIN q[e] : q[e][m] = l  BY <1>c
      <4>2. PICK m \in DOMAIN q[e] : q[e][m] = l  BY <4>1
      <4>3. e \in DOMAIN q  BY <4>1
      <4>4. k = e  BY <3>4, <4>2, <4>3, <2>n, OnePlace
      <4> QED  BY <4>4, <3>3, <4>1
    <3> QED  BY <3>4, <3>5, Zenon DEF Holds
  <2>2. ASSUME Holds(q, l), l \notin erased PROVE Holds(q2, l)
    <3>1. PICK i \in DOMAIN q : \E j \in DOMAIN q[i] : q[i][j] = l
      BY <2>2, Zenon DEF Holds
    <3>2. i \notin Gone  BY <3>1, <2>2, <1>c
    <3>3. PICK k \in DOMAIN q2 : q[i] = q2[k]  BY <3>2, <1>a, Zenon
    <3>4. \E j \in DOMAIN q2[k] : q2[k][j] = l  BY ONLY <3>1, <3>3
    <3> QED  BY <3>4, Zenon DEF Holds
  <2> QED  BY <2>1, <2>2
<1>3. Matches(q2, lines, gone \cup erased)
  <2> SUFFICES ASSUME NEW l \in Lines
               PROVE  Occurs(l, lines) /\ l \notin gone \cup erased <=> Holds(q2, l)
    BY Zenon DEF Matches
  <2>1. Occurs(l, lines) /\ l \notin gone <=> Holds(q, l)  BY Zenon DEF Matches
  <2>2. Holds(q2, l) <=> Holds(q, l) /\ l \notin erased  BY <1>2, Zenon
  <2>3. l \notin gone \cup erased <=> l \notin gone /\ l \notin erased  OBVIOUS
  <2> QED  BY <2>1, <2>2, <2>3, Zenon
<1> QED  BY <1>1, <1>3

LEMMA DropKept ==
  ASSUME NEW lines \in Seq(Lines), Injective(lines), NEW gone, NEW f \in Seq(Texts),
         NEW w \in Seq(Texts), Len(w) > 2, NEW r \in Seq(Texts),
         NEW q, q = (f \o w) \o r, InOrderOf(q, lines), Matches(q, lines, gone),
         NEW q2, q2 = (Append(f, <<Notice>>) \o SubSeq(w, 1, 2)) \o r
  PROVE  /\ InOrderOf(q2, lines)
         /\ Matches(q2, lines, gone \cup LinesOf(SubSeq(w, 3, Len(w))))
<1>1. PICK F, N, R, v, f2, w2 :
        /\ F = Len(f) /\ N = Len(w) /\ R = Len(r) /\ v = SubSeq(w, 3, Len(w))
        /\ f2 = Append(f, <<Notice>>) /\ w2 = SubSeq(w, 1, 2)
  OBVIOUS
<1>2. /\ q \in Seq(Texts) /\ F \in Nat /\ N \in Nat /\ R \in Nat
      /\ Before(q, F, N, R, f, w, r)
  BY <1>1, Joined DEF Before
<1>3. N > 2  BY <1>1
<1>4. /\ f2 \in Seq(Texts) /\ Len(f2) = F + 1
      /\ \A i \in 1 .. F : f2[i] = f[i]
      /\ f2[F + 1] = <<Notice>>
  <2>1. <<Notice>> \in Texts  BY DEF Texts
  <2> QED  BY ONLY <2>1, <1>1, f \in Seq(Texts), AppendProperties
<1>5. w2 \in Seq(Texts) /\ Len(w2) = 2 /\ w2[1] = w[1] /\ w2[2] = w[2]
  BY ONLY <1>1, w \in Seq(Texts), Len(w) > 2
<1>6. /\ v \in Seq(Texts) /\ Len(v) = N - 2 /\ \A k \in 1 .. N - 2 : v[k] = w[k + 2]
  BY ONLY <1>1, w \in Seq(Texts), Len(w) > 2
<1>7. /\ DOMAIN q2 = 1 .. Len(f2) + Len(w2) + Len(r)
      /\ \A i \in 1 .. Len(f2) : q2[i] = f2[i]
      /\ \A i \in Len(f2) + 1 .. Len(f2) + Len(w2) : q2[i] = w2[i - Len(f2)]
      /\ \A i \in Len(f2) + Len(w2) + 1 .. Len(f2) + Len(w2) + Len(r) :
            q2[i] = r[i - (Len(f2) + Len(w2))]
  <2>1. q2 = (f2 \o w2) \o r  BY <1>1, Zenon
  <2>2. f2 \in Seq(Texts) /\ w2 \in Seq(Texts) /\ r \in Seq(Texts)  BY <1>4, <1>5, Zenon
  <2> QED  BY ONLY <2>1, <2>2, Joined
<1>8. After(q2, F, R, f, w, r)
  <2>1. Len(f2) = F + 1 /\ Len(w2) = 2 /\ Len(r) = R /\ F \in Nat /\ R \in Nat
    BY <1>1, <1>2, <1>4, <1>5, Zenon
  <2>2. /\ DOMAIN q2 = 1 .. (F + 1) + 2 + R
        /\ \A i \in 1 .. F + 1 : q2[i] = f2[i]
        /\ \A i \in (F + 1) + 1 .. (F + 1) + 2 : q2[i] = w2[i - (F + 1)]
        /\ \A i \in (F + 1) + 2 + 1 .. (F + 1) + 2 + R : q2[i] = r[i - ((F + 1) + 2)]
    BY ONLY <1>7, <2>1
  <2>3. DOMAIN q2 = 1 .. F + 3 + R /\ \A i \in F + 4 .. F + 3 + R : q2[i] = r[i - (F + 3)]
    <3>1. (F + 1) + 2 = F + 3 /\ (F + 1) + 2 + 1 = F + 4 /\ (F + 1) + 2 + R = F + 3 + R
      BY ONLY <2>1
    <3> QED  BY ONLY <2>2, <3>1
  <2>4. \A i \in 1 .. F : q2[i] = f[i]
    <3>1. \A i \in 1 .. F : i \in 1 .. F + 1  BY ONLY <2>1
    <3> QED  BY ONLY <2>2, <3>1, <1>4
  <2>5. q2[F + 1] = <<Notice>>
    <3>1. F + 1 \in 1 .. F + 1  BY ONLY <2>1
    <3> QED  BY ONLY <2>2, <3>1, <1>4
  <2>6. q2[F + 2] = w[1] /\ q2[F + 3] = w[2]
    <3>1. PICK x, y : x = F + 2 /\ y = F + 3  OBVIOUS
    <3>2. /\ x \in (F + 1) + 1 .. (F + 1) + 2 /\ x - (F + 1) = 1
          /\ y \in (F + 1) + 1 .. (F + 1) + 2 /\ y - (F + 1) = 2
      BY ONLY <2>1, <3>1
    <3>3. q2[x] = w2[x - (F + 1)] /\ q2[y] = w2[y - (F + 1)]  BY <2>2, <3>2, Zenon
    <3> QED  BY <3>1, <3>2, <3>3, <1>5, Zenon
  <2> QED  BY ONLY <2>3, <2>4, <2>5, <2>6, Zenon DEF After
<1>9. Drops(q, q2, F + 3 .. F + N)  BY ONLY <1>2, <1>3, <1>8, DropPlaces, Zenon
<1>10. ASSUME NEW l PROVE l \in LinesOf(v) <=> IsAt(l, q, F + 3 .. F + N)
  <2>1. \A k \in 1 .. N - 2 : v[k] = q[(F + 2) + k]
    <3>1. \A k \in 1 .. N - 2 : (F + 2) + k \in F + 1 .. F + N /\ ((F + 2) + k) - F = k + 2
      BY ONLY <1>2, <1>3
    <3> QED  BY ONLY <3>1, <1>2, <1>6 DEF Before
  <2>2. F \in Nat /\ N \in Nat /\ v \in Seq(Texts) /\ Len(v) = N - 2
    BY <1>2, <1>6, Zenon
  <2> QED  BY ONLY <2>1, <2>2, <1>3, LinesOfPart, Zenon
<1>11. F + 3 .. F + N \subseteq DOMAIN q  BY ONLY <1>2, <1>3 DEF Before
<1>12. \A l : l \in LinesOf(v) <=> IsAt(l, q, F + 3 .. F + N)  BY ONLY <1>10, Zenon
<1>13. InOrderOf(q2, lines) /\ Matches(q2, lines, gone \cup LinesOf(v))
  BY ONLY <1>2, <1>9, <1>11, <1>12, lines \in Seq(Lines), Injective(lines),
          InOrderOf(q, lines), Matches(q, lines, gone), RestDropped, Zenon
<1> QED  BY <1>13, <1>1, Zenon

(* A line put behind the last buffer's other lines.                         *)
LEMMA LineAtEnd ==
  ASSUME NEW lines \in Seq(Lines), NEW gone, NEW p \in Seq(Texts), NEW b \in Texts,
         InOrderOf(Append(p, b), lines), Matches(Append(p, b), lines, gone),
         NEW l \in Lines, l \notin gone
  PROVE  /\ InOrderOf(Append(p, Append(b, l)), Append(lines, l))
         /\ Matches(Append(p, Append(b, l)), Append(lines, l), gone)
<1>1. PICK q, q2, n : q = Append(p, b) /\ q2 = Append(p, Append(b, l)) /\ n = Len(p) + 1
  OBVIOUS
<1>2. Append(b, l) \in Texts  BY DEF Texts
<1>3. q \in Seq(Texts) /\ Len(q) = n /\ q[n] = b /\ n \in Nat \ {0}
      /\ \A i \in 1 .. n - 1 : q[i] = p[i]
  BY ONLY <1>1, p \in Seq(Texts), b \in Texts
<1>4. q2 \in Seq(Texts) /\ Len(q2) = n /\ q2[n] = Append(b, l)
      /\ \A i \in 1 .. n - 1 : q2[i] = p[i]
  BY ONLY <1>1, <1>2, p \in Seq(Texts)
<1>5. \A i \in 1 .. n - 1 : q2[i] = q[i]  BY <1>3, <1>4, Zenon
<1>6. q2[n] = Append(q[n], l)  BY <1>3, <1>4, Zenon
<1>7. InOrderOf(q, lines) /\ Matches(q, lines, gone)  BY <1>1, Zenon
<1>8. InOrderOf(q2, Append(lines, l)) /\ Matches(q2, Append(lines, l), gone)
  BY ONLY <1>3, <1>4, <1>5, <1>6, <1>7, lines \in Seq(Lines), l \in Lines, l \notin gone,
          LineAppended
<1> QED  BY <1>1, <1>8, Zenon

(* What is in memory behind the buffers to write.                           *)
Rest == buffers_ \o (IF currentBuffer_ = Null THEN <<>> ELSE <<currentBuffer_>>)

LEMMA PipelineParts ==
  ASSUME Inv
  PROVE  /\ file \in Seq(Texts) /\ buffersToWrite \in Seq(Texts) /\ Rest \in Seq(Texts)
         /\ Pipeline = (file \o buffersToWrite) \o Rest /\ Pipeline \in Seq(Texts)
         /\ buffers_ \in Seq(Texts)
<1>1. /\ file \in Seq(Texts) /\ buffersToWrite \in Seq(Texts) /\ buffers_ \in Seq(Texts)
      /\ currentBuffer_ \in Texts \cup {Null}
  BY BuffersAreTexts DEF Inv, TypeOK, Texts
<1>2. Rest \in Seq(Texts)
  <2>1. CASE currentBuffer_ = Null
    <3>1. <<>> \in Seq(Texts)  OBVIOUS
    <3>2. buffers_ \o <<>> \in Seq(Texts)  BY <1>1, <3>1, ConcatProperties
    <3> QED  BY <2>1, <3>2, Zenon DEF Rest
  <2>2. CASE currentBuffer_ # Null
    <3>1. currentBuffer_ \in Texts  BY <2>2, <1>1
    <3>2. <<currentBuffer_>> \in Seq(Texts)  BY <3>1
    <3>3. buffers_ \o <<currentBuffer_>> \in Seq(Texts)  BY <1>1, <3>2, ConcatProperties
    <3> QED  BY <2>2, <3>3, Zenon DEF Rest
  <2> QED  BY <2>1, <2>2
<1>3. Pipeline = (file \o buffersToWrite) \o Rest  BY DEF Pipeline, Rest
<1> QED  BY <1>1, <1>2, <1>3, Joined

(* Lines are appended once, and only those are dropped.                     *)
HistoryOK ==
    /\ Injective(appended)
    /\ \A x \in DOMAIN appended : appended[x] \notin unused
    /\ \A l \in dropped : l \notin unused

OrderInv == Inv /\ LinesInOrder /\ HistoryOK

LEMMA LinesInOrderIs ==
  LinesInOrder <=> InOrderOf(Pipeline, appended) /\ Matches(Pipeline, appended, dropped)
<1> QED  BY Zenon DEF LinesInOrder, Matches, Occurs

(* A new line in the history.                                               *)
LEMMA HistoryGrows ==
  ASSUME NEW lines \in Seq(Lines), Injective(lines), NEW l, \A x \in DOMAIN lines : lines[x] # l
  PROVE  /\ Injective(Append(lines, l))
         /\ \A x \in DOMAIN Append(lines, l) :
               Append(lines, l)[x] = l \/ \E y \in DOMAIN lines : Append(lines, l)[x] = lines[y]
<1>1. PICK lines2 : lines2 = Append(lines, l)  OBVIOUS
<1>2. /\ \A x \in DOMAIN lines2 : x \in DOMAIN lines \/ x = Len(lines) + 1
      /\ \A x \in DOMAIN lines : lines2[x] = lines[x]
      /\ lines2[Len(lines) + 1] = l
  BY <1>1
<1>3. Injective(lines2)  BY <1>2, Zenon DEF Injective
<1>4. \A x \in DOMAIN lines2 : lines2[x] = l \/ \E y \in DOMAIN lines : lines2[x] = lines[y]
  BY <1>2, Zenon
<1> QED  BY <1>1, <1>3, <1>4, Zenon

LEMMA LinesInOrderNext ==
  ASSUME InOrderOf(Pipeline', appended'), Matches(Pipeline', appended', dropped')
  PROVE  LinesInOrder'
<1> QED  BY Zenon DEF LinesInOrder, Matches, Occurs, InOrderOf, Holds

(* Most steps at most put an empty buffer behind the others.                *)
LEMMA QuietStep ==
  ASSUME OrderInv, Pipeline' = Pipeline \/ Pipeline' = Append(Pipeline, <<>>),
         appended' = appended, dropped' = dropped, unused' \subseteq unused
  PROVE  LinesInOrder' /\ HistoryOK'
<1>1. /\ Pipeline \in Seq(Texts)
      /\ InOrderOf(Pipeline, appended) /\ Matches(Pipeline, appended, dropped)
  BY PipelineParts, LinesInOrderIs DEF OrderInv
<1>2. InOrderOf(Pipeline', appended) /\ Matches(Pipeline', appended, dropped)
  BY <1>1, EmptyAppended, Zenon
<1>3. LinesInOrder'  BY <1>2, LinesInOrderNext
<1>4. HistoryOK'  BY DEF OrderInv, HistoryOK, Injective
<1> QED  BY <1>3, <1>4

(* One buffer behind three others.                                          *)
LEMMA ConcatLast ==
  ASSUME NEW p \in Seq(Texts), NEW bs \in Seq(Texts), NEW b \in Texts
  PROVE  p \o (bs \o <<b>>) = Append(p \o bs, b) /\ p \o bs \in Seq(Texts)
  OBVIOUS

(* append(): the line is put behind all others, or the long one is gone.    *)
LEMMA AppendFitsOrder ==
  ASSUME OrderInv, NEW l \in Lines, AppendFits(l) PROVE LinesInOrder' /\ HistoryOK'
<1>1. /\ ctor = "done" /\ currentBuffer_ \in Buffers /\ currentBuffer_ # Null
      /\ appended \in Seq(Lines)
  BY DEF AppendFits, Exists, OrderInv, Inv, SpareInv, TypeOK
<1>2. /\ l \in unused /\ unused' = unused \ {l} /\ appended' = Append(appended, l)
      /\ currentBuffer_' = Append(currentBuffer_, l)
      /\ file' = file /\ buffersToWrite' = buffersToWrite /\ buffers_' = buffers_
      /\ dropped' = dropped
  BY DEF AppendFits, threadVars
<1>3. PICK p, b : p = (file \o buffersToWrite) \o buffers_ /\ b = currentBuffer_  OBVIOUS
<1>4. b \in Texts /\ Append(b, l) \in Texts /\ Append(b, l) # Null
  <2>1. b \in Buffers  BY <1>1, <1>3
  <2>2. Append(b, l) \in Buffers  BY <2>1 DEF Buffers
  <2> QED  BY <2>1, <2>2, NullFacts, BuffersAreTexts
<1>5. /\ p \in Seq(Texts) /\ Pipeline = Append(p, b) /\ Pipeline' = Append(p, Append(b, l))
  <2>1. /\ file \o buffersToWrite \in Seq(Texts) /\ buffers_ \in Seq(Texts)
    BY PipelineParts, ConcatProperties DEF OrderInv
  <2>2. Pipeline = (file \o buffersToWrite) \o (buffers_ \o <<b>>)
    BY <1>1, <1>3, Zenon DEF Pipeline
  <2>3. Pipeline' = (file \o buffersToWrite) \o (buffers_ \o <<Append(b, l)>>)
    BY <1>2, <1>3, <1>4, Zenon DEF Pipeline
  <2> QED  BY ONLY <2>1, <2>2, <2>3, <1>3, <1>4, ConcatLast
<1>6. l \notin dropped /\ Injective(appended) /\ \A x \in DOMAIN appended : appended[x] # l
  BY <1>2 DEF OrderInv, HistoryOK
<1>7. InOrderOf(Pipeline', appended') /\ Matches(Pipeline', appended', dropped')
  <2>1. InOrderOf(Append(p, b), appended) /\ Matches(Append(p, b), appended, dropped)
    BY LinesInOrderIs, <1>5, Zenon DEF OrderInv
  <2>2. /\ InOrderOf(Append(p, Append(b, l)), Append(appended, l))
        /\ Matches(Append(p, Append(b, l)), Append(appended, l), dropped)
    BY ONLY <2>1, <1>1, <1>4, <1>5, <1>6, l \in Lines, LineAtEnd
  <2> QED  BY <2>2, <1>2, <1>5, Zenon
<1>8. HistoryOK'
  <2>1. /\ Injective(Append(appended, l))
        /\ \A x \in DOMAIN Append(appended, l) :
              \/ Append(appended, l)[x] = l
              \/ \E y \in DOMAIN appended : Append(appended, l)[x] = appended[y]
    BY <1>1, <1>6, HistoryGrows
  <2>2. Injective(appended)'  BY <2>1, <1>2, Zenon DEF Injective
  <2>3. \A x \in DOMAIN appended' : appended'[x] \notin unused'
    BY <2>1, <1>2, Zenon DEF OrderInv, HistoryOK
  <2>4. \A z \in dropped' : z \notin unused'  BY <1>2 DEF OrderInv, HistoryOK
  <2> QED  BY <2>2, <2>3, <2>4, Zenon DEF HistoryOK
<1> QED  BY <1>7, <1>8, LinesInOrderNext

LEMMA AppendFullOrder ==
  ASSUME OrderInv, NEW l \in Lines, AppendFull(l) PROVE LinesInOrder' /\ HistoryOK'
<1>1. /\ ctor = "done" /\ currentBuffer_ \in Buffers /\ currentBuffer_ # Null
      /\ appended \in Seq(Lines) /\ Spare = <<>>
  BY DEF AppendFull, Exists, OrderInv, Inv, SpareInv, TypeOK, Spare
<1>2. /\ l \in unused /\ unused' = unused \ {l} /\ dropped' = dropped
      /\ buffers_' = Append(buffers_, currentBuffer_)
      /\ file' = file /\ buffersToWrite' = buffersToWrite
  BY DEF AppendFull, threadVars
<1>3. \/ currentBuffer_' = <<>> /\ appended' = appended
      \/ currentBuffer_' = Append(<<>>, l) /\ appended' = Append(appended, l)
  BY <1>1, Zenon DEF AppendFull
<1>4. currentBuffer_' \in Texts /\ currentBuffer_' # Null /\ <<>> \in Texts
  <2>1. Append(<<>>, l) \in Buffers  BY DEF Buffers
  <2> QED  BY <1>3, <2>1, NullFacts, BuffersAreTexts
<1>5. Pipeline \in Seq(Texts) /\ Pipeline' = Append(Pipeline, currentBuffer_')
  <2>1. /\ file \o buffersToWrite \in Seq(Texts) /\ buffers_ \in Seq(Texts)
        /\ currentBuffer_ \in Texts
    BY <1>1, PipelineParts, ConcatProperties, BuffersAreTexts DEF OrderInv
  <2>2. PICK p, b, b2 : p = file \o buffersToWrite /\ b = currentBuffer_ /\ b2 = currentBuffer_'
    OBVIOUS
  <2>3. Pipeline = p \o (buffers_ \o <<b>>)  BY <1>1, <2>2, Zenon DEF Pipeline
  <2>4. Pipeline' = p \o (Append(buffers_, b) \o <<b2>>)
    BY <1>2, <1>4, <2>2, Zenon DEF Pipeline
  <2>5. Append(buffers_, b) = buffers_ \o <<b>> /\ buffers_ \o <<b>> \in Seq(Texts)
    BY ONLY <2>1, <2>2
  <2>6. /\ p \o ((buffers_ \o <<b>>) \o <<b2>>) = Append(p \o (buffers_ \o <<b>>), b2)
        /\ p \o (buffers_ \o <<b>>) \in Seq(Texts)
    BY ONLY <2>1, <2>2, <2>5, <1>4, ConcatLast
  <2> QED  BY <2>2, <2>3, <2>4, <2>5, <2>6, Zenon
<1>6. CASE currentBuffer_' = <<>> /\ appended' = appended
  BY <1>2, <1>5, <1>6, QuietStep
<1>7. CASE currentBuffer_' = Append(<<>>, l) /\ appended' = Append(appended, l)
  <2>1. l \notin dropped /\ Injective(appended) /\ \A x \in DOMAIN appended : appended[x] # l
    BY <1>2 DEF OrderInv, HistoryOK
  <2>2. InOrderOf(Pipeline', appended') /\ Matches(Pipeline', appended', dropped')
    <3>1. InOrderOf(Pipeline, appended) /\ Matches(Pipeline, appended, dropped)
      BY LinesInOrderIs, Zenon DEF OrderInv
    <3>2. /\ InOrderOf(Append(Pipeline, <<>>), appended)
          /\ Matches(Append(Pipeline, <<>>), appended, dropped)
      BY ONLY <3>1, <1>5, EmptyAppended
    <3>3. /\ InOrderOf(Append(Pipeline, Append(<<>>, l)), Append(appended, l))
          /\ Matches(Append(Pipeline, Append(<<>>, l)), Append(appended, l), dropped)
      BY ONLY <3>2, <1>1, <1>4, <1>5, <2>1, l \in Lines, LineAtEnd
    <3> QED  BY <3>3, <1>2, <1>5, <1>7, Zenon
  <2>3. HistoryOK'
    <3>1. /\ Injective(Append(appended, l))
          /\ \A x \in DOMAIN Append(appended, l) :
                \/ Append(appended, l)[x] = l
                \/ \E y \in DOMAIN appended : Append(appended, l)[x] = appended[y]
      BY <1>1, <2>1, HistoryGrows
    <3>2. Injective(appended)'  BY <3>1, <1>7, Zenon DEF Injective
    <3>3. \A x \in DOMAIN appended' : appended'[x] \notin unused'
      BY <3>1, <1>2, <1>7, Zenon DEF OrderInv, HistoryOK
    <3>4. \A z \in dropped' : z \notin unused'  BY <1>2 DEF OrderInv, HistoryOK
    <3> QED  BY <3>2, <3>3, <3>4, Zenon DEF HistoryOK
  <2> QED  BY <2>2, <2>3, LinesInOrderNext
<1> QED  BY <1>3, <1>6, <1>7

(* The background thread takes the buffers where they are.                  *)
LEMMA TakeOrder == ASSUME OrderInv, Take PROVE LinesInOrder' /\ HistoryOK'
<1>1. /\ ctor = "done" /\ newBuffer1 = <<>> /\ buffersToWrite = <<>>
      /\ currentBuffer_ \in Buffers /\ currentBuffer_ # Null
  BY DEF Take, Locks, OrderInv, Inv, SpareInv, TypeOK
<1>2. /\ buffersToWrite' = Append(buffers_, currentBuffer_) /\ buffers_' = <<>>
      /\ currentBuffer_' = <<>> /\ file' = file
      /\ appended' = appended /\ dropped' = dropped /\ unused' = unused
  BY <1>1 DEF Take, TakeBuffers
<1>3. /\ file \in Seq(Texts) /\ buffers_ \in Seq(Texts) /\ currentBuffer_ \in Texts
      /\ <<>> \in Texts
  BY <1>1, PipelineParts, BuffersAreTexts, NullFacts DEF OrderInv
<1>4. PICK b : b = currentBuffer_  OBVIOUS
<1>5. Pipeline = (file \o <<>>) \o (buffers_ \o <<b>>)
  BY <1>1, <1>4, Zenon DEF Pipeline
<1>6. Pipeline' = (file \o Append(buffers_, b)) \o (<<>> \o << <<>> >>)
  BY <1>2, <1>4, NullFacts, Zenon DEF Pipeline
<1>7. (file \o Append(buffers_, b)) \o (<<>> \o << <<>> >>)
         = Append((file \o <<>>) \o (buffers_ \o <<b>>), <<>>)
  <2>1. file \o <<>> = file /\ <<>> \o << <<>> >> = << <<>> >>  BY ONLY <1>3
  <2>2. Append(buffers_, b) = buffers_ \o <<b>> /\ buffers_ \o <<b>> \in Seq(Texts)
    BY ONLY <1>3, <1>4
  <2>3. file \o (buffers_ \o <<b>>) \in Seq(Texts)  BY ONLY <2>2, <1>3, ConcatProperties
  <2>4. (file \o (buffers_ \o <<b>>)) \o << <<>> >> = Append(file \o (buffers_ \o <<b>>), <<>>)
    BY ONLY <2>3
  <2> QED  BY <2>1, <2>2, <2>4, Zenon
<1>8. Pipeline' = Append(Pipeline, <<>>)  BY <1>5, <1>6, <1>7, Zenon
<1> QED  BY <1>2, <1>8, QuietStep

(* Writing moves buffers from memory to the file, or leaves empty ones out. *)
LEMMA WriteOrder == ASSUME OrderInv, WriteBuffers PROVE LinesInOrder' /\ HistoryOK'
<1>1. /\ file' = Given(buffersToWrite) /\ buffersToWrite' = <<>>
      /\ Rest' = Rest
      /\ appended' = appended /\ dropped' = dropped /\ unused' = unused
  BY DEF WriteBuffers, sharedVars, Rest
<1>2. /\ file \in Seq(Texts) /\ buffersToWrite \in Seq(Texts) /\ Rest \in Seq(Texts)
      /\ Pipeline = (file \o buffersToWrite) \o Rest
      /\ InOrderOf(Pipeline, appended) /\ Matches(Pipeline, appended, dropped)
  BY PipelineParts, LinesInOrderIs DEF OrderInv
<1>3. Pipeline' = (file' \o <<>>) \o Rest  BY <1>1, Zenon DEF Pipeline, Rest
<1>4. CASE LinesOf(buffersToWrite) = {}
  <2>1. file' = file  BY <1>1, <1>4, Zenon DEF Given
  <2>2. \A i \in DOMAIN buffersToWrite : buffersToWrite[i] = <<>>
    <3> SUFFICES ASSUME NEW i \in DOMAIN buffersToWrite, buffersToWrite[i] # <<>> PROVE FALSE
      OBVIOUS
    <3>1. i \in 1 .. Len(buffersToWrite) /\ buffersToWrite[i] \in Texts  BY <1>2
    <3>2. 1 \in 1 .. Len(buffersToWrite[i])
      <4>1. Len(buffersToWrite[i]) # 0 /\ Len(buffersToWrite[i]) \in Nat
        BY <3>1, EmptySeq, LenProperties DEF Texts
      <4> QED  BY <4>1
    <3>3. buffersToWrite[i][1] \in {buffersToWrite[i][j] : j \in 1 .. Len(buffersToWrite[i])}
      BY <3>2
    <3>4. buffersToWrite[i][1] \in LinesOf(buffersToWrite)  BY <3>1, <3>3, Zenon DEF LinesOf
    <3> QED  BY <3>4, <1>4
  <2>3. InOrderOf(Pipeline', appended) /\ Matches(Pipeline', appended, dropped)
    <3>1. PICK f, w, r, q, q2 : /\ f = file /\ w = buffersToWrite /\ r = Rest
                                /\ q = Pipeline /\ q2 = Pipeline'
      OBVIOUS
    <3>2. /\ f \in Seq(Texts) /\ w \in Seq(Texts) /\ r \in Seq(Texts)
          /\ q = (f \o w) \o r /\ q2 = (f \o <<>>) \o r
          /\ \A i \in DOMAIN w : w[i] = <<>>
          /\ InOrderOf(q, appended) /\ Matches(q, appended, dropped)
      BY <3>1, <1>2, <1>3, <2>1, <2>2, Zenon
    <3>3. InOrderOf(q2, appended) /\ Matches(q2, appended, dropped)
      BY ONLY <3>2, EmptyLeftOut
    <3> QED  BY <3>1, <3>3, Zenon
  <2>4. LinesInOrder'  BY <2>3, <1>1, LinesInOrderNext
  <2>5. HistoryOK'  BY <1>1 DEF OrderInv, HistoryOK, Injective
  <2> QED  BY <2>4, <2>5
<1>5. CASE LinesOf(buffersToWrite) # {}
  <2>1. file' = file \o buffersToWrite  BY <1>1, <1>5, Zenon DEF Given
  <2>2. (file \o buffersToWrite) \o <<>> = file \o buffersToWrite  BY ONLY <1>2
  <2>3. Pipeline' = Pipeline  BY <1>2, <1>3, <2>1, <2>2, Zenon
  <2> QED  BY <1>1, <2>3, QuietStep
<1> QED  BY <1>4, <1>5

(* Dropping takes lines out, and the history says which.                    *)
LEMMA DropOrder == ASSUME OrderInv, DropBuffers PROVE LinesInOrder' /\ HistoryOK'
<1>1. PICK v : v = SubSeq(buffersToWrite, 3, Len(buffersToWrite))  OBVIOUS
<1>2. /\ file' = Append(file, <<Notice>>) /\ buffersToWrite' = SubSeq(buffersToWrite, 1, 2)
      /\ Rest' = Rest /\ appended' = appended /\ unused' = unused
      /\ dropped' = dropped \cup LinesOf(v)
  BY <1>1 DEF DropBuffers, sharedVars, Rest
<1>3. /\ file \in Seq(Texts) /\ buffersToWrite \in Seq(Texts) /\ Rest \in Seq(Texts)
      /\ Pipeline = (file \o buffersToWrite) \o Rest
      /\ InOrderOf(Pipeline, appended) /\ Matches(Pipeline, appended, dropped)
      /\ appended \in Seq(Lines) /\ Injective(appended)
  BY PipelineParts, LinesInOrderIs DEF OrderInv, HistoryOK, Inv, TypeOK
<1>4. Pipeline' = (Append(file, <<Notice>>) \o SubSeq(buffersToWrite, 1, 2)) \o Rest
  BY <1>2, Zenon DEF Pipeline, Rest
<1>5. Len(buffersToWrite) > 2
  BY BuffersAssumption, <1>3, LenProperties DEF DropBuffers
<1>6. InOrderOf(Pipeline', appended) /\ Matches(Pipeline', appended, dropped \cup LinesOf(v))
  <2>1. PICK f, w, r, q, q2 : /\ f = file /\ w = buffersToWrite /\ r = Rest
                              /\ q = Pipeline /\ q2 = Pipeline'
    OBVIOUS
  <2>2. /\ f \in Seq(Texts) /\ w \in Seq(Texts) /\ r \in Seq(Texts) /\ Len(w) > 2
        /\ q = (f \o w) \o r /\ q2 = (Append(f, <<Notice>>) \o SubSeq(w, 1, 2)) \o r
        /\ v = SubSeq(w, 3, Len(w))
        /\ InOrderOf(q, appended) /\ Matches(q, appended, dropped)
    BY <2>1, <1>1, <1>3, <1>4, <1>5, Zenon
  <2>3. InOrderOf(q2, appended) /\ Matches(q2, appended, dropped \cup LinesOf(v))
    BY ONLY <2>2, <1>3, DropKept
  <2> QED  BY <2>1, <2>3, Zenon
<1>7. LinesInOrder'  BY <1>2, <1>6, LinesInOrderNext
\* a line that is erased was in a buffer, so it has been appended
<1>8. \A l \in LinesOf(v) : l \notin unused
  <2> SUFFICES ASSUME NEW l \in LinesOf(v) PROVE l \notin unused  OBVIOUS
  <2>1. l \in Lines
    <3>1. v \in Seq(Buffers)  BY <1>1, <1>5 DEF OrderInv, Inv, TypeOK
    <3> QED  BY <3>1, LinesOfType
  <2>2. Holds(Pipeline, l)
    <3>1. PICK i \in 1 .. Len(v) : l \in {v[i][j] : j \in 1 .. Len(v[i])}
      BY Zenon DEF LinesOf
    <3>2. PICK j \in 1 .. Len(v[i]) : l = v[i][j]  BY <3>1
    <3>3. /\ Len(v) = Len(buffersToWrite) - 2 /\ v[i] = buffersToWrite[i + 2]
          /\ v[i] \in Texts /\ i \in Nat /\ Len(buffersToWrite) \in Nat
      BY <1>1, <1>3, <1>5
    <3>4. j \in DOMAIN v[i]  BY <3>3 DEF Texts
    <3>5. /\ Len(file) \in Nat /\ Len(Rest) \in Nat
          /\ DOMAIN Pipeline = 1 .. Len(file) + Len(buffersToWrite) + Len(Rest)
          /\ \A k \in Len(file) + 1 .. Len(file) + Len(buffersToWrite) :
                Pipeline[k] = buffersToWrite[k - Len(file)]
      <4>1. PICK f, w, r, q : f = file /\ w = buffersToWrite /\ r = Rest /\ q = Pipeline
        OBVIOUS
      <4>2. f \in Seq(Texts) /\ w \in Seq(Texts) /\ r \in Seq(Texts) /\ q = (f \o w) \o r
        BY <4>1, <1>3, Zenon
      <4>3. /\ Len(f) \in Nat /\ Len(r) \in Nat
            /\ DOMAIN q = 1 .. Len(f) + Len(w) + Len(r)
            /\ \A k \in Len(f) + 1 .. Len(f) + Len(w) : q[k] = w[k - Len(f)]
        BY ONLY <4>2, Joined
      <4> QED  BY <4>1, <4>3, Zenon
    <3>6. PICK k : k = Len(file) + (i + 2)  OBVIOUS
    <3>7. /\ k \in Len(file) + 1 .. Len(file) + Len(buffersToWrite) /\ k - Len(file) = i + 2
          /\ k \in 1 .. Len(file) + Len(buffersToWrite) + Len(Rest)
      <4>1. i \in 1 .. Len(buffersToWrite) - 2  BY <3>3
      <4> QED  BY ONLY <4>1, <3>3, <3>5, <3>6
    <3>8. k \in DOMAIN Pipeline /\ Pipeline[k] = v[i]
      BY <3>3, <3>5, <3>7, Zenon
    <3>9. j \in DOMAIN Pipeline[k] /\ Pipeline[k][j] = l  BY <3>2, <3>4, <3>8, Zenon
    <3> QED  BY <3>8, <3>9, Zenon DEF Holds
  <2>3. PICK x \in DOMAIN appended : appended[x] = l
    BY <2>1, <2>2, <1>3, Zenon DEF Matches, Occurs
  <2> QED  BY <2>3 DEF OrderInv, HistoryOK
<1>9. HistoryOK'
  BY <1>2, <1>8 DEF OrderInv, HistoryOK, Injective
<1> QED  BY <1>7, <1>9

(* The constructor makes the first buffer.                                  *)
LEMMA ConstructOrder == ASSUME OrderInv, ConstructRest PROVE LinesInOrder' /\ HistoryOK'
<1>1. /\ currentBuffer_ = Null /\ buffers_ = <<>> /\ currentBuffer_' = <<>> /\ buffers_' = <<>>
      /\ file' = file /\ buffersToWrite' = buffersToWrite
      /\ appended' = appended /\ dropped' = dropped /\ unused' = unused
  BY DEF ConstructRest, threadVars, OrderInv, Inv, SpareInv
<1>2. PICK p : p = file \o buffersToWrite  OBVIOUS
<1>3. p \in Seq(Texts)  BY <1>2, PipelineParts, ConcatProperties DEF OrderInv
<1>4. Pipeline = p \o (<<>> \o <<>>)  BY <1>1, <1>2, Zenon DEF Pipeline
<1>5. Pipeline' = p \o (<<>> \o << <<>> >>)
  BY <1>1, <1>2, NullFacts, Zenon DEF Pipeline
<1>6. p \o (<<>> \o <<>>) = p /\ p \o (<<>> \o << <<>> >>) = Append(p, <<>>)
  <2>1. <<>> \o <<>> = <<>> /\ <<>> \o << <<>> >> = << <<>> >>  OBVIOUS
  <2>2. p \o <<>> = p /\ p \o << <<>> >> = Append(p, <<>>)  BY ONLY <1>3
  <2> QED  BY <2>1, <2>2, Zenon
<1>7. Pipeline' = Append(Pipeline, <<>>)  BY <1>4, <1>5, <1>6, Zenon
<1> QED  BY <1>1, <1>7, QuietStep

LEMMA OrderStep == ASSUME OrderInv, [Next]_vars PROVE OrderInv'
<1>1. Inv'  BY InvStep DEF OrderInv
<1> SUFFICES LinesInOrder' /\ HistoryOK'  BY <1>1 DEF OrderInv
<1>2. ASSUME /\ file' = file /\ buffersToWrite' = buffersToWrite /\ buffers_' = buffers_
             /\ currentBuffer_' = currentBuffer_
             /\ appended' = appended /\ dropped' = dropped /\ unused' = unused
      PROVE  LinesInOrder' /\ HistoryOK'
  <2>1. Pipeline' = Pipeline  BY <1>2, Zenon DEF Pipeline
  <2> QED  BY <1>2, <2>1, QuietStep
<1> USE DEF sharedVars, threadVars
<1>3. CASE ConstructLatch  BY <1>3, <1>2 DEF ConstructLatch
<1>4. CASE ConstructRest  BY <1>4, ConstructOrder
<1>5. CASE Acquire  BY <1>5, <1>2 DEF Acquire
<1>6. CASE Start  BY <1>6, <1>2 DEF Start
<1>7. CASE CheckRunning  BY <1>7, <1>2 DEF CheckRunning
<1>8. CASE Wait  BY <1>8, <1>2 DEF Wait
<1>9. CASE Take  BY <1>9, TakeOrder
<1>10. CASE DropBuffers  BY <1>10, DropOrder
<1>11. CASE KeepBuffers  BY <1>11, <1>2 DEF KeepBuffers
<1>12. CASE WriteBuffers  BY <1>12, WriteOrder
<1>13. CASE Stop  BY <1>13, <1>2 DEF Stop
<1>14. CASE StopNotifies  BY <1>14, <1>2 DEF StopNotifies
<1>15. CASE Join  BY <1>15, <1>2 DEF Join
<1>16. CASE Terminate  BY <1>16, <1>2 DEF Terminate
<1>17. CASE UNCHANGED vars  BY <1>17, <1>2 DEF vars
<1>18. ASSUME NEW l \in Lines, AppendFits(l) \/ AppendFull(l) PROVE LinesInOrder' /\ HistoryOK'
  BY <1>18, AppendFitsOrder, AppendFullOrder
<1>19. CASE UsesUnconstructed  BY <1>19, <1>2 DEF UsesUnconstructed
<1> QED  BY <1>3, <1>4, <1>5, <1>6, <1>7, <1>8, <1>9, <1>10, <1>11, <1>12, <1>13,
            <1>14, <1>15, <1>16, <1>17, <1>18, <1>19 DEF Next, ThreadStep

(* Lines are in the file and in the buffers in the order append() got them, *)
(* each once, and only those of dropped buffers are missing: for any lines, *)
(* any capacity and any interleaving of append() with the background thread.*)
THEOREM OrderTheorem == Spec => []LinesInOrder
<1>1. Init => OrderInv
  <2> SUFFICES ASSUME Init PROVE OrderInv  OBVIOUS
  <2>1. Inv  BY InitInv
  <2>2. /\ appended = <<>> /\ dropped = {} /\ Pipeline = (<<>> \o <<>>) \o (<<>> \o <<>>)
    BY Zenon DEF Init, Pipeline
  <2>3. Pipeline = <<>> /\ DOMAIN Pipeline = {}
    <3>1. <<>> \o <<>> = <<>> /\ DOMAIN <<>> = {}  OBVIOUS
    <3> QED  BY <2>2, <3>1, Zenon
  <2>4. LinesInOrder
    <3>1. InOrderOf(Pipeline, appended)  BY <2>3, Zenon DEF InOrderOf
    <3>2. DOMAIN appended = {}  BY <2>2
    <3>3. Matches(Pipeline, appended, dropped)  BY <2>3, <3>2, Zenon DEF Matches, Occurs, Holds
    <3> QED  BY <3>1, <3>3, LinesInOrderIs
  <2>5. HistoryOK  BY <2>2 DEF HistoryOK, Injective
  <2> QED  BY <2>1, <2>4, <2>5 DEF OrderInv
<1>2. OrderInv => LinesInOrder  BY DEF OrderInv
<1> QED  BY <1>1, <1>2, OrderStep, PTL DEF Spec

-----------------------------------------------------------------------------
(* LogFile, for any clock, any lengths and any parameters: no buffer is     *)
(* lost to a file that is opened twice, the names are in the order of the   *)
(* data, and the size of a file is bounded.  All of them rest on what one   *)
(* step may do to the files, stated once as Writes.                         *)


\* One step writes w, which is empty or the buffer of this step, and leaves it
\* in the stream buffer, or moves everything to the present file, or goes on to
\* a file whose name is later than every name so far.
Writes(w) ==
  /\ w \subseteq {appends + 1} \intersect {appends'}
  /\ \/ disk' = disk /\ pending' = pending \union w /\ lastRoll' = lastRoll
     \/ disk' = Flushed(w) /\ pending' = {} /\ lastRoll' = lastRoll
     \/ disk' = Flushed(w) /\ pending' = {} /\ lastRoll' = now /\ now > lastRoll
     \/ /\ disk' = [Flushed(w) EXCEPT ![now] = {}]
        /\ pending' = {} /\ lastRoll' = now /\ now > lastRoll

\* What the proofs use of a step: the buffer that it appends is written or lost.
Effect ==
  /\ \E w \in SUBSET {appends'} :
       Writes(w) /\ (appends' # appends => w = {appends'} \/ appends' \in lost')
  /\ appends' = appends \/ appends' = appends + 1
  /\ lost \subseteq lost'

LEMMA AppendEffect == ASSUME LogInv, NEW len \in Lens, append(len) PROVE Effect
<1> DEFINE n == appends + 1
           w == Written(n)
<1>1. appends' = n /\ w \subseteq {n}  BY DEF append, Written
<1>2. w = {n} \/ n \in lost'  BY DEF append, Written
<1>3. lost \subseteq lost'  BY DEF append
<1>4. Writes(w)
  <2>1. CASE Due(len) /\ RollFile(w, len)
    BY <1>1, <2>1 DEF RollFile, SecondOver, Writes
  <2>2. CASE ~Due(len) /\ CheckFlush(w, len)
    BY <1>1, <2>2 DEF CheckFlush, Writes
  <2> QED  BY <2>1, <2>2 DEF append
<1> HIDE DEF w
<1> QED  BY <1>1, <1>2, <1>3, <1>4 DEF Effect

LEMMA StepEffect == ASSUME LogInv, [LogNext]_logVars PROVE Effect
<1>1. ASSUME NEW len \in Lens, append(len) PROVE Effect
  BY <1>1, AppendEffect
<1>2. CASE Flush
  <2>1. Writes({})  BY <1>2 DEF Flush, Writes, counters
  <2>2. appends' = appends /\ lost' = lost  BY <1>2 DEF Flush
  <2> QED  BY <2>1, <2>2 DEF Effect
<1>3. CASE UNCHANGED <<counters, fileVars, lost, appends>>
  <2>1. Writes({})  BY <1>3 DEF counters, fileVars, Writes
  <2> QED  BY <1>3, <2>1 DEF Effect
<1> QED  BY <1>1, <1>2, <1>3 DEF LogNext, SetClock, logVars

(* The types, one action at a time.                                        *)
LEMMA LogTypeStep == ASSUME LogInv, [LogNext]_logVars PROVE LogTypeOK'
<1> USE LogFileAssumption DEF LogInv, LogTypeOK
<1>0. \A w \in SUBSET Nat : Flushed(w) \in [Times -> SUBSET Nat]
  BY DEF Flushed
<1>1. ASSUME NEW len \in Lens, append(len) PROVE LogTypeOK'
  <2> DEFINE w == Written(appends + 1)
  <2>1. w \in SUBSET Nat /\ len \in Nat  BY DEF Written
  <2>2. /\ appends' \in Nat /\ curLen' \in Nat /\ now' \in Times
        /\ lost' \in SUBSET Nat
    BY <1>1, <2>1 DEF append
  <2>5. \/ Due(len) /\ RollFile(w, len) /\ count' = count
        \/ ~Due(len) /\ CheckFlush(w, len)
    BY <1>1 DEF append
  <2> HIDE DEF w
  <2>3. CASE Due(len) /\ RollFile(w, len) /\ count' = count
    <3>1. Flushed(w) \in [Times -> SUBSET Nat]  BY <1>0, <2>1
    <3>2. disk' \in [Times -> SUBSET Nat]  BY <2>3, <3>1 DEF RollFile
    <3>3. \/ fileLen' = 0 /\ refused' = 0
          \/ fileLen' = fileLen + len /\ refused' = refused + 1
      BY <2>3 DEF RollFile
    <3>5. pending' = {} \/ pending' = pending \union w
      BY <2>3 DEF RollFile
    <3>6. fileLen' \in Nat /\ refused' \in Nat  BY <2>1, <3>3
    <3>7. pending' \in SUBSET Nat  BY <2>1, <3>5
    <3>4. lastRoll' \in Times /\ lastFlush' \in Times /\ failed' \in BOOLEAN
      BY <2>3 DEF RollFile
    <3> QED  BY <2>2, <2>3, <3>2, <3>4, <3>6, <3>7
  <2>4. CASE ~Due(len) /\ CheckFlush(w, len)
    BY <1>0, <2>1, <2>2, <2>4 DEF CheckFlush
  <2> QED  BY <2>3, <2>4, <2>5
<1>2. CASE Flush
  BY <1>0, <1>2 DEF Flush, counters
<1>3. ASSUME NEW t \in Times, SetClock(t) PROVE LogTypeOK'
  BY <1>3 DEF SetClock, counters, fileVars
<1>4. CASE UNCHANGED logVars
  BY <1>4 DEF logVars, counters, fileVars
<1> QED  BY <1>1, <1>2, <1>3, <1>4 DEF LogNext

LEMMA LogInvStep == ASSUME LogInv, [LogNext]_logVars PROVE LogInv'
<1>1. LogTypeOK'  BY LogTypeStep
<1>2. PICK w \in SUBSET {appends'} : Writes(w)  BY StepEffect DEF Effect
<1>3. appends' = appends \/ appends' = appends + 1  BY StepEffect DEF Effect
<1>4. \A n \in w : n = appends + 1 /\ n = appends'  BY <1>2 DEF Writes
<1> USE LogFileAssumption DEF LogInv, LogTypeOK, Flushed
<1>5. CASE disk' = disk /\ pending' = pending \union w /\ lastRoll' = lastRoll
  BY <1>1, <1>3, <1>4, <1>5
<1>6. CASE disk' = Flushed(w) /\ pending' = {} /\ lastRoll' >= lastRoll
  BY <1>1, <1>3, <1>4, <1>6 DEF Name
<1>7. CASE /\ disk' = [Flushed(w) EXCEPT ![now] = {}]
           /\ pending' = {} /\ lastRoll' = now /\ now > lastRoll
  BY <1>1, <1>3, <1>4, <1>7 DEF Name
<1> QED  BY <1>2, <1>5, <1>6, <1>7 DEF Writes

(* Inv holds of the log file whatever the clock does: data is only under    *)
(* names that have been used, numbered as it was appended.                  *)
THEOREM LogInvariance == LogSpec => []LogInv
<1>1. LogInit => LogInv
  BY LogFileAssumption DEF LogInit, LogInv, LogTypeOK
<1>2. LogInv /\ [LogNext]_logVars => LogInv'
  BY LogInvStep
<1> QED  BY <1>1, <1>2, PTL DEF LogSpec

(* No buffer is lost while a file is open: what is appended is pending or in *)
(* a file, and a file that is opened is new.                               *)
THEOREM NothingLostTheorem == LogSpec => []NothingLost
<1>1. LogInit => NothingLost
  BY DEF LogInit, NothingLost
<1>2. ASSUME LogInv, NothingLost, [LogNext]_logVars PROVE NothingLost'
  <2>1. PICK w \in SUBSET {appends'} :
          Writes(w) /\ (appends' # appends => w = {appends'} \/ appends' \in lost')
    BY <1>2, StepEffect DEF Effect
  <2>2. lost \subseteq lost' /\ (appends' = appends \/ appends' = appends + 1)
    BY <1>2, StepEffect DEF Effect
  <2>3. \A t \in Times : t > lastRoll => disk[t] = {}  BY <1>2 DEF LogInv
  <2>4. /\ lastRoll \in Times /\ now \in Times /\ disk \in [Times -> SUBSET Nat]
        /\ appends \in Nat
    BY <1>2 DEF LogInv, LogTypeOK
  <2>5. w \subseteq pending' \/ w \subseteq disk'[lastRoll]
    BY <2>1, <2>4, LogFileAssumption DEF Writes, Flushed, Name
  <2>6. \A n : n \in pending => n \in pending' \/ n \in disk'[lastRoll]
    BY <2>1, <2>4, LogFileAssumption DEF Writes, Flushed, Name
  <2>7. \A t \in Times : disk[t] \subseteq disk'[t]
    BY <2>1, <2>3, <2>4, LogFileAssumption DEF Writes, Flushed, Name
  <2> SUFFICES ASSUME NEW n \in 1..appends'
               PROVE  \/ n \in pending' \/ n \in lost'
                      \/ \E t \in Times : n \in disk'[t]
    BY DEF NothingLost
  <2>8. CASE n \in 1..appends
    BY <1>2, <2>2, <2>4, <2>6, <2>7, <2>8 DEF NothingLost
  <2>9. CASE n = appends' /\ appends' # appends
    BY <2>1, <2>4, <2>5, <2>9
  <2> QED  BY <2>2, <2>4, <2>8, <2>9
<1> QED  BY <1>1, <1>2, LogInvariance, PTL DEF LogSpec

(* The names of the files are in the order of their contents.               *)
THEOREM NamesInOrderTheorem == LogSpec => []NamesInOrder
<1>1. LogInit => NamesInOrder
  BY DEF LogInit, NamesInOrder
<1>2. ASSUME LogInv, NamesInOrder, [LogNext]_logVars PROVE NamesInOrder'
  <2>1. PICK w \in SUBSET {appends'} : Writes(w)
    BY <1>2, StepEffect DEF Effect
  <2>2. \A n \in w : n = appends + 1  BY <2>1 DEF Writes
  <2>3. /\ \A t \in Times : t > lastRoll => disk[t] = {}
        /\ \A t \in Times : \A m \in disk[t] :
             m <= appends /\ \A n \in pending : m < n
        /\ \A t, u \in Times : t < u => \A m \in disk[t], n \in disk[u] : m < n
    BY <1>2 DEF LogInv, NamesInOrder
  <2>4. /\ lastRoll \in Times /\ now \in Times /\ disk \in [Times -> SUBSET Nat]
        /\ appends \in Nat
    BY <1>2 DEF LogInv, LogTypeOK
  <2> DEFINE d == Flushed(w)
  <2>5. \A t \in Times : d[t] = IF t = lastRoll THEN disk[t] \union pending \union w
                                ELSE disk[t]
    BY <2>4 DEF Flushed, Name
  <2>6. \A t, u \in Times : t < u => \A m \in d[t], n \in d[u] : m < n
    <3> HIDE DEF d
    <3> SUFFICES ASSUME NEW t \in Times, NEW u \in Times, t < u,
                        NEW m \in d[t], NEW n \in d[u]
                 PROVE  m < n
      OBVIOUS
    <3>0. t \in Int /\ u \in Int /\ lastRoll \in Int
      BY <2>4, LogFileAssumption
    <3>1. t # lastRoll
      <4> SUFFICES ASSUME t = lastRoll PROVE FALSE
        OBVIOUS
      <4>1. u > lastRoll /\ u # lastRoll  BY <3>0
      <4>2. disk[u] = {} /\ d[u] = disk[u]  BY <2>3, <2>5, <4>1
      <4> QED  BY <4>2
    <3>4. m \in disk[t]  BY <2>5, <3>1
    <3>2. CASE u = lastRoll /\ n \in pending \union w
      <4> m \in Nat  BY <2>4, <3>4
      <4> QED  BY <2>2, <2>3, <2>4, <3>1, <3>4, <3>2
    <3>3. CASE n \in disk[u]
      BY <2>3, <3>4, <3>3
    <3> QED  BY <2>5, <3>2, <3>3
  <2>7. disk' = disk \/ \A t \in Times : disk'[t] \subseteq d[t]
    BY <2>1, <2>4 DEF Writes, Flushed
  <2> HIDE DEF d
  <2> QED  BY <2>3, <2>6, <2>7 DEF NamesInOrder
<1> QED  BY <1>1, <1>2, LogInvariance, PTL DEF LogSpec

(* The size of a file: what cur_len_ has not forgotten stays within the roll *)
(* size, and every time it forgot a refusal was counted.                    *)
Sized == /\ curLen <= RollSize
         /\ fileLen <= refused * (RollSize + MaxLen) + curLen

LEMMA SizedStep == ASSUME LogInv, Sized, [LogNext]_logVars PROVE Sized'
<1> DEFINE K == RollSize + MaxLen
<1>0. /\ K \in Nat /\ RollSize \in Nat /\ MaxLen \in Nat /\ curLen \in Nat
      /\ fileLen \in Nat /\ refused \in Nat
  BY LogFileAssumption DEF LogInv, LogTypeOK
<1>1. ASSUME NEW len \in Lens, append(len) PROVE Sized'
  <2>0. len \in Nat /\ len <= MaxLen  BY LogFileAssumption
  <2>1. CASE /\ curLen' = 0 /\ fileLen' = 0 /\ refused' = 0
    BY <1>0, <2>1 DEF Sized
  <2>2. CASE /\ curLen' = 0 /\ fileLen' = fileLen + len /\ refused' = refused + 1
    <3>1. (refused + 1) * K = refused * K + K  BY <1>0
    <3>2. refused * K \in Nat  BY <1>0
    <3> HIDE DEF K
    <3>3. fileLen <= refused * K + curLen /\ curLen <= RollSize
      BY DEF Sized, K
    <3>4. fileLen + len <= refused * K + (RollSize + MaxLen)
      BY <1>0, <2>0, <3>2, <3>3
    <3> QED  BY <1>0, <2>0, <2>2, <3>1, <3>4 DEF Sized, K
  <2>3. CASE /\ curLen' = curLen + len /\ fileLen' = fileLen + len
             /\ refused' = refused /\ ~Due(len)
    <3>2. refused * K \in Nat  BY <1>0
    <3>3. fileLen <= refused * K + curLen  BY DEF Sized
    <3> HIDE DEF K
    <3>4. fileLen + len <= refused * K + (curLen + len) /\ curLen + len <= RollSize
      BY <1>0, <2>0, <2>3, <3>2, <3>3 DEF Due
    <3> QED  BY <2>3, <3>4 DEF Sized, K
  <2> QED  BY <1>1, <2>1, <2>2, <2>3 DEF append, RollFile, CheckFlush
<1>2. CASE UNCHANGED <<curLen, fileLen, refused>>
  BY <1>2 DEF Sized
<1> QED  BY <1>1, <1>2 DEF LogNext, Flush, SetClock, logVars, counters, fileVars

THEOREM FileBoundedTheorem == LogSpec => []FileBounded
<1>1. LogInit => Sized
  <2>1. RollSize \in Nat /\ 0 * (RollSize + MaxLen) = 0  BY LogFileAssumption
  <2> QED  BY <2>1 DEF LogInit, Sized
<1>2. LogInv /\ Sized => FileBounded
  <2> SUFFICES ASSUME LogInv, Sized PROVE FileBounded
    OBVIOUS
  <2> DEFINE B == refused * (RollSize + MaxLen)
  <2>1. /\ B \in Nat /\ RollSize \in Nat /\ curLen \in Nat /\ fileLen \in Nat
        /\ fileLen <= B + curLen /\ curLen <= RollSize
    BY LogFileAssumption DEF LogInv, LogTypeOK, Sized
  <2> HIDE DEF B
  <2>2. fileLen <= B + RollSize  BY <2>1
  <2> QED  BY <2>2 DEF FileBounded, B
<1>3. LogInv /\ Sized /\ [LogNext]_logVars => Sized'
  BY SizedStep
<1> QED  BY <1>1, <1>2, <1>3, LogInvariance, PTL DEF LogSpec
=============================================================================
