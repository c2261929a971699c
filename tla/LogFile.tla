------------------------------ MODULE LogFile ------------------------------
(***************************************************************************)
(* AsyncLogging::LogFile, the rolling file behind the asynchronous log.    *)
(* The background thread alone appends and flushes; the system clock may   *)
(* be set to any second meanwhile.  A file is named after the second it is *)
(* opened in (UTC; the other parts of the name are the same in one         *)
(* process), and opening a name that exists truncates that file.  The      *)
(* appended buffers are numbered; the disk is what each file holds of      *)
(* them.                                                                   *)
(***************************************************************************)
EXTENDS Integers

CONSTANTS Times,         \* seconds the clock may show
          Lens, MaxLen,  \* lengths of the appended buffers, and the largest
          RollSize,      \* rollSize_
          FlushInterval, \* flushInterval_
          CheckEveryN,   \* checkEveryN_
          MaxAppends     \* bound on the appends of a behaviour

ASSUME LogFileAssumption ==
  /\ Times \subseteq Int /\ MaxLen \in Nat /\ Lens \subseteq 0..MaxLen
  /\ RollSize \in Nat /\ FlushInterval \in Nat
  /\ CheckEveryN \in Nat /\ MaxAppends \in Nat

VARIABLES now,       \* the system clock
          count, lastRoll, lastFlush, curLen, \* count_, lastRoll_, lastFlush_, cur_len_
          disk,      \* by name, what has reached the file
          pending,   \* written to file_ and still in its stream buffer
          failed,    \* file_ could not be opened and takes no data
          lost,      \* appended while file_ had failed
          appends,   \* number of appends
          fileLen,   \* bytes written to the present file
          refused    \* rollFile calls that kept the present file

fileVars == <<disk, pending, failed, fileLen, refused>>
counters == <<count, lastRoll, lastFlush, curLen>>
logVars == <<now, counters, fileVars, lost, appends>>

\* getLogFileName(basename_, ts): the file of the second lastRoll_
Name == lastRoll

LogInit == /\ now \in Times
           /\ count = 0 /\ curLen = 0
           /\ lastRoll = now /\ lastFlush = now
           /\ disk = [t \in Times |-> {}]
           /\ pending = {} /\ lost = {} /\ appends = 0
           /\ failed \in BOOLEAN
           /\ fileLen = 0 /\ refused = 0

\* the stream buffer and w reach the present file
Flushed(w) == [disk EXCEPT ![Name] = @ \union pending \union w]

\* file_.write of buffer n: dropped if file_ has failed
Written(n) == IF failed THEN {} ELSE {n}

\* Mutants: a file may roll within the second; or whenever the second differs.
SameSecond == now >= lastRoll
OtherSecond == now # lastRoll

\* a name that has not been used: the second of the last roll is over
SecondOver == now > lastRoll

\* rollFile after writing w: a new file, unless the second is not over (or the
\* clock was set back).  cur_len_ is cleared either way.
RollFile(w, len) ==
  \/ /\ SecondOver
     /\ lastRoll' = now /\ lastFlush' = now
     /\ pending' = {} /\ fileLen' = 0 /\ refused' = 0
     /\ \/ failed' = FALSE /\ disk' = [Flushed(w) EXCEPT ![now] = {}]
        \/ failed' = TRUE /\ disk' = Flushed(w)
  \/ /\ ~SecondOver
     /\ pending' = pending \union w
     /\ fileLen' = fileLen + len /\ refused' = refused + 1
     /\ UNCHANGED <<lastRoll, lastFlush, disk, failed>>

\* every checkEveryN_ appends the interval since the last flush is looked at
CheckFlush(w, len) ==
  LET check == count + 1 >= CheckEveryN
      flush == check /\ now - lastFlush > FlushInterval
  IN /\ count' = IF check THEN 0 ELSE count + 1
     /\ lastFlush' = IF flush THEN now ELSE lastFlush
     /\ disk' = IF flush THEN Flushed(w) ELSE disk
     /\ pending' = IF flush THEN {} ELSE pending \union w
     /\ fileLen' = fileLen + len
     /\ UNCHANGED <<lastRoll, failed, refused>>

\* Mutant: only what was there before counts.
DueBefore(len) == curLen > RollSize

Due(len) == curLen + len > RollSize

append(len) ==
  LET n == appends + 1 IN
  /\ appends < MaxAppends
  /\ appends' = n
  /\ lost' = IF failed THEN lost \union {n} ELSE lost
  /\ \/ /\ Due(len)
        /\ RollFile(Written(n), len)
        /\ curLen' = 0 /\ UNCHANGED count
     \/ /\ ~Due(len)
        /\ CheckFlush(Written(n), len)
        /\ curLen' = curLen + len
  /\ UNCHANGED now

\* flush(), or the stream buffer is full
Flush == /\ disk' = Flushed({}) /\ pending' = {}
         /\ UNCHANGED <<now, counters, failed, lost, appends, fileLen, refused>>

SetClock(t) == now' = t /\ UNCHANGED <<counters, fileVars, lost, appends>>

LogNext == \/ \E len \in Lens : append(len)
           \/ Flush
           \/ \E t \in Times : SetClock(t)

LogSpec == LogInit /\ [][LogNext]_logVars
-----------------------------------------------------------------------------
LogTypeOK == /\ now \in Times /\ lastRoll \in Times /\ lastFlush \in Times
             /\ count \in Nat /\ curLen \in Nat /\ fileLen \in Nat /\ refused \in Nat
             /\ appends \in Nat /\ failed \in BOOLEAN
             /\ disk \in [Times -> SUBSET Nat]
             /\ pending \in SUBSET Nat /\ lost \in SUBSET Nat

\* Data is only where file_ has been: nothing under a name still to come, what
\* is pending was appended after what the present file holds.
LogInv == /\ LogTypeOK
          /\ \A t \in Times : t > lastRoll => disk[t] = {}
          /\ \A t \in Times : \A m \in disk[t] :
               m <= appends /\ \A n \in pending : m < n
          /\ \A n \in pending : n <= appends

\* Every appended buffer is in a file or on its way, unless it came when there
\* was no file: no file is opened under a name that holds data already, however
\* the clock is set and however often the file rolls within a second.
NothingLost ==
  \A n \in 1..appends : n \in pending \/ n \in lost \/ \E t \in Times : n \in disk[t]

\* Sorting the files by name sorts their contents: a buffer in an earlier file
\* was appended before every buffer of a later file, even after the clock went
\* back.
NamesInOrder ==
  \A t, u \in Times : t < u =>
    \A m \in disk[t], n \in disk[u] : m < n

\* A file takes at most one roll size and one buffer more for each time rollFile
\* refused to roll, although cur_len_ forgets what the file holds.
FileBounded == fileLen <= refused * (RollSize + MaxLen) + RollSize
=============================================================================
