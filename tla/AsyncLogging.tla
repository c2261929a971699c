---------------------------- MODULE AsyncLogging ----------------------------
(***************************************************************************)
(* gdrpc::gdlog::AsyncLogging: threads append log lines to currentBuffer_; *)
(* a full buffer goes to buffers_ and a background thread takes all of     *)
(* them, at the latest every flushInterval_ seconds, writes them to the    *)
(* log file and keeps two of them as the next spare buffers.               *)
(*                                                                         *)
(* A buffer is the sequence of its lines, a null unique_ptr is Null.       *)
(* append and the background thread's two critical sections are atomic     *)
(* (mutex_); wait_for may also end by its timeout, so waiting can always   *)
(* end, and "notified" says whether it will at once.  The background       *)
(* thread starts before the members behind thread_ are constructed: until  *)
(* then latch_ holds a value of Garbage (1 for any count that lets acquire *)
(* pass).  A thread that gets past it and locks mutex_ before the members  *)
(* are there has undefined behaviour: pc is "undefined" and the model ends.*)
(***************************************************************************)
EXTENDS Integers, SequencesExt

CONSTANTS Lines,       \* each is appended at most once
          Size,        \* the length of each line
          Capacity,    \* Buffer::size_ (4000 * 1024)
          MaxBuffers,  \* more buffers than this are dropped (25)
          Garbage,     \* what an unconstructed latch_ may hold
          Null,        \* a null BufferPtr
          Notice       \* the "Dropped log messages" line

ASSUME SizeAssumption == Size \in [Lines -> Nat]
ASSUME CapacityAssumption == Capacity \in Nat
ASSUME BuffersAssumption == MaxBuffers \in Nat /\ MaxBuffers >= 2
ASSUME GarbageAssumption == Garbage \subseteq {0, 1}
ASSUME NullAssumption == Null \notin Seq(Lines) /\ Notice \notin Lines

VARIABLES
    ctor,           \* how far the constructor is
    latch_, running_,
    currentBuffer_, nextBuffer_, buffers_,
    pc, newBuffer1, newBuffer2, buffersToWrite,   \* the background thread
    notified,       \* the thread in wait_for has been woken
    stopper,        \* the thread in stop() or in the destructor
    file,           \* what file_ was given, buffer by buffer
    flushed,        \* how many of them have been flushed
    early,          \* history, during the constructor: threadFunc got past
                    \* a latch_ that was not there yet
    appended,       \* history: lines append() put into a buffer, in order
    dropped,        \* history: lines erased with their buffers
    unused          \* lines not yet given to append()

threadVars == <<newBuffer1, newBuffer2, buffersToWrite>>
sharedVars == <<currentBuffer_, nextBuffer_, buffers_>>
vars == <<ctor, latch_, running_, sharedVars, pc, threadVars, notified, stopper,
          file, flushed, early, appended, dropped, unused>>

Buffers == Seq(Lines)

TypeOK ==
    /\ ctor \in {"thread", "latch", "done"} /\ latch_ \in {0, 1}
    /\ running_ \in BOOLEAN /\ notified \in BOOLEAN
    /\ currentBuffer_ \in Buffers \cup {Null}
    /\ nextBuffer_ \in Buffers \cup {Null}
    /\ buffers_ \in Seq(Buffers)
    /\ newBuffer1 \in Buffers \cup {Null} /\ newBuffer2 \in Buffers \cup {Null}
    /\ buffersToWrite \in Seq(Buffers)
    /\ pc \in {"latch", "start", "check", "lock", "waiting", "taken", "write", "done",
               "undefined"}
    /\ stopper \in {"none", "stored", "joining", "joined", "terminated"}
    /\ file \in Seq(Seq(Lines \cup {Notice})) /\ flushed \in Nat /\ early \in BOOLEAN
    /\ appended \in Seq(Lines) /\ dropped \subseteq Lines /\ unused \subseteq Lines

\* thread_ has just been constructed, latch_ not yet
Init ==
    /\ ctor = "thread" /\ latch_ \in Garbage /\ running_ = FALSE
    /\ currentBuffer_ = Null /\ nextBuffer_ = Null /\ buffers_ = <<>>
    /\ pc = "latch" /\ newBuffer1 = Null /\ newBuffer2 = Null /\ buffersToWrite = <<>>
    /\ notified = FALSE /\ stopper = "none"
    /\ file = <<>> /\ flushed = 0 /\ early = FALSE /\ appended = <<>> /\ dropped = {}
    /\ unused = Lines
-----------------------------------------------------------------------------
(* The constructor, behind thread_                                         *)

ConstructLatch ==
    /\ ctor = "thread" /\ ctor' = "latch"
    /\ latch_' = 0
    /\ UNCHANGED <<early, running_, sharedVars, pc, threadVars, notified, stopper,
                   file, flushed, appended, dropped, unused>>

\* the other members, and latch_.release()
ConstructRest ==
    /\ ctor = "latch" /\ ctor' = "done"
    /\ currentBuffer_' = <<>> /\ nextBuffer_' = <<>> /\ buffers_' = <<>>
    /\ latch_' = 1 /\ early' = FALSE
    /\ UNCHANGED <<running_, pc, threadVars, notified, stopper,
                   file, flushed, appended, dropped, unused>>
-----------------------------------------------------------------------------
(* append(), from any thread                                               *)

Used(b) == FoldSeq(LAMBDA l, n : n + Size[l], 0, b)
Fits(l, b) == Capacity - Used(b) > Size[l]

Exists == ctor = "done" /\ stopper \notin {"joined", "terminated"}

AppendFits(l) ==
    /\ Exists /\ l \in unused /\ unused' = unused \ {l}
    /\ Fits(l, currentBuffer_)
    /\ currentBuffer_' = Append(currentBuffer_, l)
    /\ appended' = Append(appended, l)
    /\ UNCHANGED <<ctor, early, latch_, running_, nextBuffer_, buffers_, pc, threadVars,
                   notified, stopper, file, flushed, dropped>>

\* nextBuffer_, or a new Buffer
Spare == IF nextBuffer_ = Null THEN <<>> ELSE nextBuffer_

\* the buffer is handed over; a line longer than any buffer is then lost in
\* Buffer::append, which checks again
AppendFull(l) ==
    /\ Exists /\ l \in unused /\ unused' = unused \ {l}
    /\ ~Fits(l, currentBuffer_)
    /\ buffers_' = Append(buffers_, currentBuffer_)
    /\ nextBuffer_' = Null
    /\ IF Fits(l, Spare)
         THEN currentBuffer_' = Append(Spare, l) /\ appended' = Append(appended, l)
         ELSE currentBuffer_' = Spare /\ UNCHANGED appended
    /\ notified' = TRUE
    /\ UNCHANGED <<ctor, early, latch_, running_, pc, threadVars, stopper, file, flushed, dropped>>
-----------------------------------------------------------------------------
(* threadFunc                                                              *)

Acquire ==
    /\ pc = "latch" /\ latch_ = 1
    /\ latch_' = 0 /\ pc' = "start"
    /\ early' = (ctor = "thread")
    /\ UNCHANGED <<ctor, running_, sharedVars, threadVars, notified, stopper,
                   file, flushed, appended, dropped, unused>>

Start ==
    /\ pc = "start"
    /\ newBuffer1' = <<>> /\ newBuffer2' = <<>>
    /\ running_' = TRUE
    /\ pc' = "check"
    /\ UNCHANGED <<ctor, early, latch_, sharedVars, buffersToWrite, notified, stopper,
                   file, flushed, appended, dropped, unused>>

\* while (running_); on the way out file_.flush()
CheckRunning ==
    /\ pc = "check"
    /\ IF running_ THEN pc' = "lock" /\ UNCHANGED flushed
                   ELSE pc' = "done" /\ flushed' = Len(file)
    /\ UNCHANGED <<ctor, early, latch_, running_, sharedVars, threadVars, notified,
                   stopper, file, appended, dropped, unused>>

\* mutex_ is there to be locked
Locks == pc = "lock" /\ ctor = "done"

\* mutex_, buffers_ and currentBuffer_ are used and not constructed yet
UsesUnconstructed ==
    /\ pc = "lock" /\ ctor # "done"
    /\ pc' = "undefined"
    /\ UNCHANGED <<ctor, early, latch_, running_, sharedVars, threadVars, notified,
                   stopper, file, flushed, appended, dropped, unused>>

Wait ==
    /\ Locks /\ buffers_ = <<>>
    /\ pc' = "waiting" /\ notified' = FALSE
    /\ UNCHANGED <<ctor, early, latch_, running_, sharedVars, threadVars, stopper,
                   file, flushed, appended, dropped, unused>>

\* a mutant: currentBuffer_ is put in front of the full buffers
TakeBuffersCurrentFirst ==
    /\ buffersToWrite' = <<currentBuffer_>> \o buffers_
    /\ buffers_' = <<>>
    /\ currentBuffer_' = newBuffer1 /\ newBuffer1' = Null
    /\ IF nextBuffer_ = Null THEN nextBuffer_' = newBuffer2 /\ newBuffer2' = Null
                             ELSE UNCHANGED <<nextBuffer_, newBuffer2>>
    /\ pc' = "taken"

\* a mutant: the spare for nextBuffer_ is taken whether or not it is needed
TakeBuffersBothSpares ==
    /\ buffersToWrite' = Append(buffers_, currentBuffer_)
    /\ buffers_' = <<>>
    /\ currentBuffer_' = newBuffer1 /\ newBuffer1' = Null
    /\ nextBuffer_' = newBuffer2 /\ newBuffer2' = Null
    /\ pc' = "taken"

\* the critical section behind the wait
TakeBuffers ==
    /\ buffersToWrite' = Append(buffers_, currentBuffer_)
    /\ buffers_' = <<>>
    /\ currentBuffer_' = newBuffer1 /\ newBuffer1' = Null
    /\ IF nextBuffer_ = Null THEN nextBuffer_' = newBuffer2 /\ newBuffer2' = Null
                             ELSE UNCHANGED <<nextBuffer_, newBuffer2>>
    /\ pc' = "taken"

\* a mutant: wait instead of wait_for
TakeWhenNotified ==
    /\ (Locks /\ buffers_ # <<>>) \/ (pc = "waiting" /\ notified)
    /\ TakeBuffers
    /\ UNCHANGED <<ctor, early, latch_, running_, notified, stopper, file, flushed,
                   appended, dropped, unused>>

\* buffers are there already, or wait_for returned
Take ==
    /\ (Locks /\ buffers_ # <<>>) \/ pc = "waiting"
    /\ TakeBuffers
    /\ UNCHANGED <<ctor, early, latch_, running_, notified, stopper, file, flushed,
                   appended, dropped, unused>>

LinesOf(bs) == UNION {{bs[i][j] : j \in 1 .. Len(bs[i])} : i \in 1 .. Len(bs)}

\* file_.append of the buffers bs, one by one; empty ones write nothing
Given(bs) == IF LinesOf(bs) = {} THEN file ELSE file \o bs

\* too many buffers: all but the first two are erased, and a notice is logged
DropBuffers ==
    /\ pc = "taken" /\ Len(buffersToWrite) > MaxBuffers
    /\ buffersToWrite' = SubSeq(buffersToWrite, 1, 2)
    /\ dropped' = dropped \cup LinesOf(SubSeq(buffersToWrite, 3, Len(buffersToWrite)))
    /\ file' = Append(file, <<Notice>>)
    /\ pc' = "write"
    /\ UNCHANGED <<ctor, early, latch_, running_, sharedVars, newBuffer1, newBuffer2,
                   notified, stopper, flushed, appended, unused>>

KeepBuffers ==
    /\ pc = "taken" /\ Len(buffersToWrite) <= MaxBuffers
    /\ pc' = "write"
    /\ UNCHANGED <<ctor, early, latch_, running_, sharedVars, threadVars, notified,
                   stopper, file, flushed, appended, dropped, unused>>

\* a mutant: what has been written is not flushed
WriteBuffersNoFlush ==
    /\ pc = "write"
    /\ file' = Given(buffersToWrite)
    /\ newBuffer1' = IF newBuffer1 = Null THEN <<>> ELSE newBuffer1
    /\ newBuffer2' = IF newBuffer2 = Null THEN <<>> ELSE newBuffer2
    /\ buffersToWrite' = <<>>
    /\ pc' = "check"
    /\ UNCHANGED <<ctor, early, latch_, running_, sharedVars, notified, stopper, flushed,
                   appended, dropped, unused>>

\* every buffer is written, two are kept as spares, file_.flush()
WriteBuffers ==
    /\ pc = "write"
    /\ file' = Given(buffersToWrite)
    /\ newBuffer1' = IF newBuffer1 = Null THEN <<>> ELSE newBuffer1
    /\ newBuffer2' = IF newBuffer2 = Null THEN <<>> ELSE newBuffer2
    /\ buffersToWrite' = <<>>
    /\ flushed' = Len(file')
    /\ pc' = "check"
    /\ UNCHANGED <<ctor, early, latch_, running_, sharedVars, notified, stopper, appended, dropped,
                   unused>>

ThreadStep == \/ Acquire \/ Start \/ CheckRunning \/ UsesUnconstructed
              \/ Wait \/ Take \/ DropBuffers \/ KeepBuffers \/ WriteBuffers
-----------------------------------------------------------------------------
(* stop() and the destructor, from one thread                              *)

\* running_ = false
Stop ==
    /\ ctor = "done" /\ stopper = "none"
    /\ running_' = FALSE
    /\ stopper' = "stored"
    /\ UNCHANGED <<ctor, early, latch_, sharedVars, pc, threadVars, notified,
                   file, flushed, appended, dropped, unused>>

\* cond_.notify_one(), and join() is entered
StopNotifies ==
    /\ stopper = "stored"
    /\ notified' = TRUE
    /\ stopper' = "joining"
    /\ UNCHANGED <<ctor, early, latch_, running_, sharedVars, pc, threadVars,
                   file, flushed, appended, dropped, unused>>

Join ==
    /\ stopper = "joining" /\ pc = "done"
    /\ stopper' = "joined"
    /\ UNCHANGED <<ctor, early, latch_, running_, sharedVars, pc, threadVars, notified,
                   file, flushed, appended, dropped, unused>>

\* ~AsyncLogging before threadFunc has set running_: thread_ is destroyed
\* while joinable
Terminate ==
    /\ ctor = "done" /\ stopper = "none" /\ ~running_
    /\ stopper' = "terminated"
    /\ UNCHANGED <<ctor, early, latch_, running_, sharedVars, pc, threadVars, notified,
                   file, flushed, appended, dropped, unused>>

Ended == stopper = "terminated" \/ pc = "undefined"

Next == /\ ~Ended
        /\ \/ ConstructLatch \/ ConstructRest \/ ThreadStep
           \/ Stop \/ StopNotifies \/ Join \/ Terminate
           \/ \E l \in Lines : AppendFits(l) \/ AppendFull(l)

Spec == Init /\ [][Next]_vars

(* The background thread is scheduled and wait_for ends by its timeout; a  *)
(* thread inside stop() goes on.                                           *)
FairSpec == /\ Spec
            /\ WF_vars(~Ended /\ ThreadStep)
            /\ WF_vars(~Ended /\ (StopNotifies \/ Join))
            /\ WF_vars(~Ended /\ (ConstructLatch \/ ConstructRest))
-----------------------------------------------------------------------------
(* threadFunc uses no member before the constructor has made it, unless it *)
(* got past latch_ before that was made itself (async_log.cpp:17-18).  Its *)
(* assertions hold: the spares are there and empty at the top of the loop, *)
(* something is always taken, and there are as many buffers to recycle as  *)
(* spares are missing, also after buffers were dropped.                    *)
AssertionsHold ==
    /\ pc = "undefined" => early
    /\ pc = "lock" => newBuffer1 = <<>> /\ newBuffer2 = <<>> /\ buffersToWrite = <<>>
    /\ pc = "taken" => buffersToWrite # <<>>
    /\ pc = "write" /\ newBuffer1 = Null => Len(buffersToWrite) >= 1
    /\ pc = "write" /\ newBuffer1 = Null /\ newBuffer2 = Null => Len(buffersToWrite) >= 2

(* append() never meets a null currentBuffer_, whatever the background     *)
(* thread moved away: its spare takes the place in the same section.       *)
(* A spare is missing only if a buffer is there to be recycled.            *)
SpareInv ==
    /\ ctor = "done" => currentBuffer_ # Null
    /\ ctor # "done" => currentBuffer_ = Null /\ nextBuffer_ = Null /\ buffers_ = <<>>
                        /\ pc \in {"latch", "start", "check", "lock", "undefined"}
                        /\ (pc \notin {"latch", "start"} => running_)
                        /\ (pc # "latch" => early) /\ stopper = "none"
    /\ ctor = "latch" => latch_ = 0
    /\ pc = "undefined" => ctor # "done"
    /\ ctor = "done" /\ nextBuffer_ = Null => buffers_ # <<>>
    /\ nextBuffer_ # Null => nextBuffer_ = <<>>
    /\ pc \in {"check", "lock", "waiting", "done", "undefined"} =>
          newBuffer1 = <<>> /\ newBuffer2 = <<>> /\ buffersToWrite = <<>>
    /\ pc \in {"taken", "write"} =>
          /\ newBuffer1 = Null /\ newBuffer2 \in {Null, <<>>}
          /\ Len(buffersToWrite) >= IF newBuffer2 = Null THEN 2 ELSE 1
    /\ pc \in {"latch", "start"} => buffersToWrite = <<>>

Inv == TypeOK /\ SpareInv

(* Lines reach the file in the order append() got them, none twice and     *)
(* none lost, apart from the dropped ones: whatever is not in the file yet *)
(* is still in a buffer.                                                   *)
Pipeline == (file \o buffersToWrite) \o
            (buffers_ \o (IF currentBuffer_ = Null THEN <<>> ELSE <<currentBuffer_>>))

Holds(q, l) == \E i \in DOMAIN q : \E j \in DOMAIN q[i] : q[i][j] = l

\* of two lines in the buffers q, the one in front was appended before
InOrderOf(q, lines) ==
    \A i, k \in DOMAIN q : \A j \in DOMAIN q[i], m \in DOMAIN q[k] :
        /\ i < k \/ (i = k /\ j < m)
        /\ q[i][j] # Notice /\ q[k][m] # Notice
        => \E x, y \in DOMAIN lines : x < y /\ lines[x] = q[i][j] /\ lines[y] = q[k][m]

LinesInOrder ==
    /\ InOrderOf(Pipeline, appended)
    /\ \A l \in Lines : (\E x \in DOMAIN appended : appended[x] = l) /\ l \notin dropped
                           <=> Holds(Pipeline, l)

(* Without stop(), every appended line is flushed to the file or reported  *)
(* as dropped.                                                             *)
InFile(l) == Holds(SubSeq(file, 1, flushed), l)
LinesAreFlushed ==
    \A l \in Lines : (\E i \in 1 .. Len(appended) : appended[i] = l)
                       ~> (InFile(l) \/ l \in dropped \/ stopper # "none")

(* stop() returns, if threadFunc had set running_ before it was called.    *)
StopReturns == (stopper = "joining" /\ ~running_ /\ pc \notin {"latch", "start"})
                   ~> (stopper = "joined")
=============================================================================
