------------------------- MODULE MediaObjectBuffer -------------------------
(***************************************************************************)
(* The bounded queue between the thread that buffers segments and the      *)
(* threads that decode them (MediaObjectBuffer), a monitor with a mutex    *)
(* and two condition variables.  Buffer<T>, the queue of decoded frames,   *)
(* is the same monitor without the abort loop of SetEOS.                   *)
(*                                                                         *)
(* A thread runs one operation at a time.  The code between Enter- and     *)
(* LeaveCriticalSection is one step, except in SetEOS, which waits inside  *)
(* the critical section for the downloads it aborts; a thread that sleeps  *)
(* on a condition variable is in that variable's wait set and, once woken, *)
(* tests its loop condition again.  The n-th accepted media object is the  *)
(* number n, so order and loss can be read off the numbers.                *)
(***************************************************************************)
EXTENDS Naturals, Sequences, FiniteSets

CONSTANTS Producers,    \* threads that call PushBack (DoBuffering)
          Consumers,    \* threads that call GetFront (CreateAVDecoder)
          Controllers,  \* threads that stop, clear or trim the queue
          NoThread,     \* "nobody": the value of a free mutex
          MaxCapacity,  \* maxcapacity
          MaxPushes     \* bound of the model: a PushBack is called only while
                        \* fewer objects were accepted

Threads == Producers \cup Consumers \cup Controllers

ASSUME BufferAssumption ==
    /\ MaxCapacity \in Nat \ {0}
    /\ MaxPushes \in Nat
    /\ NoThread \notin Threads

VARIABLES mediaobjects,  \* the deque
          eos,           \* end of stream
          monitorMutex,  \* who holds the mutex across steps: only SetEOS does
          full,          \* wait set of `full`: consumers of an empty queue
          empty,         \* wait set of `empty`: producers at a full queue
          pc,            \* where each thread is
          nextAbort,     \* loop index of SetEOS
          seen,          \* the fill level each thread last computed in Notify
          fill,          \* the fill level the observers last received
          aborted,       \* history: objects the last SetEOS has aborted so far
          closers,       \* history: threads that called SetEOS
          pushed,        \* history: number of accepted objects
          taken,         \* history: objects GetFront or PopFront removed
          dropped,       \* history: objects Clear or ClearTail deleted
          staleFill      \* history: the last report was out of date

queueVars   == <<mediaobjects, pushed, taken, dropped>>
waitVars    == <<full, empty>>
abortVars   == <<nextAbort, aborted, closers>>
reportVars  == <<seen, fill, staleFill>>
vars == <<queueVars, waitVars, abortVars, reportVars, eos, monitorMutex, pc>>

Queued == {mediaobjects[i] : i \in 1..Len(mediaobjects)}

Percent(n) == (100 * n) \div MaxCapacity

Init ==
    /\ mediaobjects = <<>>
    /\ eos = FALSE
    /\ monitorMutex = NoThread
    /\ full = {}
    /\ empty = {}
    /\ pc = [t \in Threads |-> "idle"]
    /\ nextAbort = 1
    /\ seen = [t \in Threads |-> 0]
    /\ fill = 0
    /\ aborted = {}
    /\ closers = {}
    /\ pushed = 0
    /\ taken = {}
    /\ dropped = {}
    /\ staleFill = FALSE

\* EnterCriticalSection succeeds, for a thread at one of these places that no
\* condition variable holds back.
Enter(t, places) ==
    /\ pc[t] \in places
    /\ t \notin full \cup empty
    /\ monitorMutex = NoThread

Goto(t, place) == pc' = [pc EXCEPT ![t] = place]

-----------------------------------------------------------------------------
(* PushBack *)

PushBackWait(t) ==
    /\ Enter(t, {"idle", "PushBack"})
    /\ Len(mediaobjects) >= MaxCapacity
    /\ ~eos
    /\ empty' = empty \cup {t}
    /\ Goto(t, "PushBack")
    /\ UNCHANGED <<queueVars, full, abortVars, reportVars, eos, monitorMutex>>

PushBackReject(t) ==
    /\ Enter(t, {"idle", "PushBack"})
    /\ Len(mediaobjects) >= MaxCapacity
    /\ eos
    /\ Goto(t, "idle")
    /\ UNCHANGED <<queueVars, waitVars, abortVars, reportVars, eos, monitorMutex>>

PushBackAccept(t) ==
    /\ Enter(t, {"idle", "PushBack"})
    /\ Len(mediaobjects) < MaxCapacity
    /\ pushed' = pushed + 1
    /\ mediaobjects' = Append(mediaobjects, pushed + 1)
    /\ full' = {}
    /\ Goto(t, "Notify")
    /\ UNCHANGED <<empty, taken, dropped, abortVars, reportVars, eos, monitorMutex>>

PushBack(t) ==
    /\ pc[t] = "PushBack" \/ pushed < MaxPushes
    /\ PushBackWait(t) \/ PushBackReject(t) \/ PushBackAccept(t)

-----------------------------------------------------------------------------
(* GetFront, and PopFront, which pops without looking *)

GetFrontWait(t) ==
    /\ Enter(t, {"idle", "GetFront"})
    /\ Len(mediaobjects) = 0
    /\ ~eos
    /\ full' = full \cup {t}
    /\ Goto(t, "GetFront")
    /\ UNCHANGED <<queueVars, empty, abortVars, reportVars, eos, monitorMutex>>

GetFrontNull(t) ==
    /\ Enter(t, {"idle", "GetFront"})
    /\ Len(mediaobjects) = 0
    /\ eos
    /\ Goto(t, "idle")
    /\ UNCHANGED <<queueVars, waitVars, abortVars, reportVars, eos, monitorMutex>>

\* Mutant: the producers are not woken.
TakeHeadSilently ==
    /\ taken' = taken \cup {Head(mediaobjects)}
    /\ mediaobjects' = Tail(mediaobjects)
    /\ UNCHANGED empty

TakeHead ==
    /\ taken' = taken \cup {Head(mediaobjects)}
    /\ mediaobjects' = Tail(mediaobjects)
    /\ empty' = {}

GetFrontTake(t) ==
    /\ Enter(t, {"idle", "GetFront"})
    /\ Len(mediaobjects) > 0
    /\ TakeHead
    /\ Goto(t, "Notify")
    /\ UNCHANGED <<full, pushed, dropped, abortVars, reportVars, eos, monitorMutex>>

GetFront(t) == GetFrontWait(t) \/ GetFrontNull(t) \/ GetFrontTake(t)

\* std::deque::pop_front requires a non-empty deque; the program never calls
\* PopFront without one.
PopFront(t) ==
    /\ Enter(t, {"idle"})
    /\ Len(mediaobjects) > 0
    /\ TakeHead
    /\ Goto(t, "Notify")
    /\ UNCHANGED <<full, pushed, dropped, abortVars, reportVars, eos, monitorMutex>>

-----------------------------------------------------------------------------
(* SetEOS(true), the only value any caller passes.  DoBuffering calls it    *)
(* once, as its last call, and Stop calls it once.                          *)

SetEOSEnter(t) ==
    /\ Enter(t, {"idle"})
    /\ t \notin closers
    /\ monitorMutex' = t
    /\ closers' = closers \cup {t}
    /\ aborted' = {}
    /\ Goto(t, "SetEOS")
    /\ UNCHANGED <<queueVars, waitVars, nextAbort, reportVars, eos>>

\* AbortDownload returned: it may have waited for the download thread, with
\* the mutex held.
SetEOSAbort(t) ==
    /\ pc[t] = "SetEOS"
    /\ nextAbort <= Len(mediaobjects)
    /\ aborted' = aborted \cup {mediaobjects[nextAbort]}
    /\ nextAbort' = nextAbort + 1
    /\ UNCHANGED <<queueVars, waitVars, closers, reportVars, eos, monitorMutex, pc>>

\* Mutants: the loop ends one object early; the producers are not woken.
SetEOSLeaveEarly(t) ==
    /\ pc[t] = "SetEOS"
    /\ nextAbort >= Len(mediaobjects)
    /\ eos' = TRUE
    /\ empty' = {}
    /\ full' = {}
    /\ monitorMutex' = NoThread
    /\ nextAbort' = 1
    /\ Goto(t, "idle")
    /\ UNCHANGED <<queueVars, aborted, closers, reportVars>>

SetEOSLeaveSilently(t) ==
    /\ pc[t] = "SetEOS"
    /\ nextAbort > Len(mediaobjects)
    /\ eos' = TRUE
    /\ full' = {}
    /\ monitorMutex' = NoThread
    /\ nextAbort' = 1
    /\ Goto(t, "idle")
    /\ UNCHANGED <<queueVars, empty, aborted, closers, reportVars>>

SetEOSLeave(t) ==
    /\ pc[t] = "SetEOS"
    /\ nextAbort > Len(mediaobjects)
    /\ eos' = TRUE
    /\ empty' = {}
    /\ full' = {}
    /\ monitorMutex' = NoThread
    /\ nextAbort' = 1
    /\ Goto(t, "idle")
    /\ UNCHANGED <<queueVars, aborted, closers, reportVars>>

SetEOS(t) == SetEOSEnter(t) \/ SetEOSAbort(t) \/ SetEOSLeave(t)

-----------------------------------------------------------------------------
(* Clear and ClearTail *)

\* Mutant: nobody is told that the queue is empty now.
ClearUnreported(t) ==
    /\ Enter(t, {"idle"})
    /\ dropped' = dropped \cup Queued
    /\ mediaobjects' = <<>>
    /\ empty' = {}
    /\ full' = {}
    /\ UNCHANGED <<pushed, taken, abortVars, reportVars, eos, monitorMutex, pc>>

Clear(t) ==
    /\ Enter(t, {"idle"})
    /\ dropped' = dropped \cup Queued
    /\ mediaobjects' = <<>>
    /\ empty' = {}
    /\ full' = {}
    /\ Goto(t, "Notify")
    /\ UNCHANGED <<pushed, taken, abortVars, reportVars, eos, monitorMutex>>

\* Mutant: the head is deleted too, and then put back.
ClearTailWithHead(t) ==
    /\ Enter(t, {"idle"})
    /\ Len(mediaobjects) - 1 >= 1
    /\ dropped' = dropped \cup Queued
    /\ mediaobjects' = <<Head(mediaobjects)>>
    /\ empty' = {}
    /\ full' = {}
    /\ Goto(t, "Notify")
    /\ UNCHANGED <<pushed, taken, abortVars, reportVars, eos, monitorMutex>>

\* With fewer than two objects ClearTail returns without a step.
ClearTail(t) ==
    /\ Enter(t, {"idle"})
    /\ Len(mediaobjects) - 1 >= 1
    /\ dropped' = dropped \cup {mediaobjects[i] : i \in 2..Len(mediaobjects)}
    /\ mediaobjects' = <<Head(mediaobjects)>>
    /\ empty' = {}
    /\ full' = {}
    /\ Goto(t, "Notify")
    /\ UNCHANGED <<pushed, taken, abortVars, reportVars, eos, monitorMutex>>

-----------------------------------------------------------------------------
(* Notify, after the mutex is released: it reads the size without the mutex *)
(* and hands the level to the observers, which store it.                    *)

NotifyRead(t) ==
    /\ pc[t] = "Notify"
    /\ seen' = [seen EXCEPT ![t] = Percent(Len(mediaobjects))]
    /\ Goto(t, "Report")
    /\ UNCHANGED <<queueVars, waitVars, abortVars, fill, staleFill, eos, monitorMutex>>

NotifyReport(t) ==
    /\ pc[t] = "Report"
    /\ fill' = seen[t]
    /\ staleFill' = (seen[t] # Percent(Len(mediaobjects)))
    /\ seen' = [seen EXCEPT ![t] = 0]
    /\ Goto(t, "idle")
    /\ UNCHANGED <<queueVars, waitVars, abortVars, eos, monitorMutex>>

Notify(t) == NotifyRead(t) \/ NotifyReport(t)

\* A condition variable may release a thread nobody woke.
SpuriousWakeup(t) ==
    /\ t \in full \cup empty
    /\ full' = full \ {t}
    /\ empty' = empty \ {t}
    /\ UNCHANGED <<queueVars, abortVars, reportVars, eos, monitorMutex, pc>>

-----------------------------------------------------------------------------

Next ==
    \/ \E t \in Producers \ closers : PushBack(t)
    \/ \E t \in Consumers : GetFront(t)
    \/ \E t \in Producers \cup Controllers : SetEOS(t)
    \/ \E t \in Controllers : Clear(t) \/ ClearTail(t) \/ PopFront(t)
    \/ \E t \in Threads : Notify(t) \/ SpuriousWakeup(t)

Spec == Init /\ [][Next]_vars

\* A thread inside an operation is scheduled again; whether an idle thread
\* calls an operation is up to the program around the queue.
Fairness ==
    /\ \A t \in Producers : WF_vars(pc[t] = "PushBack" /\ PushBack(t))
    /\ \A t \in Consumers : WF_vars(pc[t] = "GetFront" /\ GetFront(t))
    /\ \A t \in Producers \cup Controllers : WF_vars(pc[t] = "SetEOS" /\ SetEOS(t))
    /\ \A t \in Threads : WF_vars(Notify(t))

FairSpec == Spec /\ Fairness

-----------------------------------------------------------------------------
(* The abstract queue this monitor implements.  A thread that sleeps, or was *)
(* woken and has not tested its condition again, is a blocked caller.        *)

Blocked == [t \in Threads |-> CASE pc[t] = "PushBack" -> "put"
                                [] pc[t] = "GetFront" -> "get"
                                [] OTHER -> "nothing"]

Queue == INSTANCE SegmentQueue
            WITH Capacity <- MaxCapacity, queue <- mediaobjects,
                 accepted <- pushed, closed <- eos, blocked <- Blocked

-----------------------------------------------------------------------------
(* Properties *)

Places == {"idle", "PushBack", "GetFront", "SetEOS", "Notify", "Report"}

QueueType ==
    /\ mediaobjects \in Seq(Nat)
    /\ Len(mediaobjects) <= MaxCapacity
    /\ pushed \in Nat
    /\ taken \subseteq Nat
    /\ dropped \subseteq Nat

ThreadType ==
    /\ monitorMutex \in Threads \cup {NoThread}
    /\ full \subseteq Threads
    /\ empty \subseteq Threads
    /\ closers \subseteq Threads
    /\ pc \in [Threads -> Places]

EOSType ==
    /\ eos \in BOOLEAN
    /\ nextAbort \in Nat \ {0}
    /\ aborted \subseteq Nat

ReportType ==
    /\ seen \in [Threads -> Nat]
    /\ fill \in Nat
    /\ staleFill \in BOOLEAN

\* Every variable has its type: in particular the queue never outgrows
\* maxcapacity, although several producers wake up at once.
TypeOK == QueueType /\ ThreadType /\ EOSType /\ ReportType

\* No lost wakeup: a producer sleeps only while the queue is full and a
\* consumer only while it is empty, and neither sleeps once the end of the
\* stream is set.  Whatever makes the condition false wakes the sleepers in
\* the same critical section.
NoLostWakeup ==
    /\ empty # {} => Len(mediaobjects) >= MaxCapacity /\ ~eos
    /\ full # {} => Len(mediaobjects) = 0 /\ ~eos

\* Every accepted media object is in exactly one place: still queued, taken
\* by one consumer, or deleted by Clear or ClearTail.
Conserved ==
    /\ Queued \cup taken \cup dropped = 1..pushed
    /\ Queued \cap (taken \cup dropped) = {}
    /\ taken \cap dropped = {}

\* The queue keeps the order of the pushes and every queued object is younger
\* than every object taken before.
InOrder ==
    /\ \A i, j \in 1..Len(mediaobjects) : i < j => mediaobjects[i] < mediaobjects[j]
    /\ \A x \in taken, y \in Queued : x < y

\* When no notification is under way, the observers know the current fill
\* level unless the last report was already out of date when it was made: no
\* change of the size goes unreported.
FillReported ==
    \/ \E t \in Threads : pc[t] \in {"Notify", "Report"}
    \/ staleFill
    \/ fill = Percent(Len(mediaobjects))

\* The mutex is held across steps by the thread inside SetEOS and nobody else,
\* and what its loop has aborted so far is the front of a queue that stands
\* still meanwhile.
AbortPrefix ==
    /\ \A t \in Threads : pc[t] = "SetEOS" <=> monitorMutex = t
    /\ monitorMutex = NoThread => nextAbort = 1
    /\ monitorMutex # NoThread =>
          /\ nextAbort <= Len(mediaobjects) + 1
          /\ aborted = {mediaobjects[i] : i \in 1..(nextAbort - 1)}

\* When the end of the stream is set, every object still in the queue has
\* been aborted: none slips in behind SetEOS's loop.
AbortedBeforeEOS == [][~eos /\ eos' => Queued' \subseteq aborted']_vars

\* The monitor is a bounded, closable FIFO queue.
ImplementsQueue == Queue!Spec

\* ... whose blocked callers return whenever they can go on: a wakeup is never
\* lost, and a woken thread never goes back to sleep although it need not.
ImplementsFairQueue == Queue!FairSpec
=============================================================================
