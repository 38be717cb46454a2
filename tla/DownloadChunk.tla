--------------------------- MODULE DownloadChunk ---------------------------
(***************************************************************************)
(* One segment being downloaded: AbstractChunk with its                    *)
(* DownloadStateManager and its SyncedBlockStream, and the MediaObject     *)
(* that observes it.  Four kinds of thread meet here: the thread that      *)
(* starts the download and waits for its end (DoBuffering), the download   *)
(* thread that StartDownload creates, the threads that abort the download  *)
(* (SetEOS of the queue) and the thread that decodes the bytes.            *)
(*                                                                         *)
(* A critical section is one step.  State(s) calls the observer and wakes  *)
(* the sleepers inside its critical section, so MediaObject's copy of the  *)
(* state changes in the same step.  The data is a number of blocks: how    *)
(* many the connection has, how many were pushed to the stream, how many   *)
(* were read from it.                                                      *)
(***************************************************************************)
EXTENDS Naturals

CONSTANTS Starter,      \* the thread that starts the download
          Downloader,   \* the download thread
          Reader,       \* the thread that reads the stream
          Aborters,     \* the threads that call AbortDownload
          MaxBlocks     \* bound of the model: blocks of a segment

Threads == {Starter, Downloader, Reader} \cup Aborters

ASSUME ChunkAssumption ==
    /\ Starter # Downloader /\ Starter # Reader /\ Downloader # Reader
    /\ {Starter, Downloader, Reader} \cap Aborters = {}
    /\ MaxBlocks \in Nat

VARIABLES state,       \* DownloadStateManager::state
          mstate,      \* MediaObject::state
          connection,  \* "none": StartDownload() with libcurl; else that of
                     \* StartDownload(connection), "unset" or "set"
          size,        \* blocks the connection has for this segment
          pushed,      \* blocks pushed to the stream
          received,    \* blocks read from the stream
          eos,         \* the stream's end was set
          pc,          \* where each thread is
          asleep       \* threads that sleep on a condition variable

dataVars == <<size, pushed, received, eos>>
vars == <<state, mstate, connection, dataVars, pc, asleep>>

DownloadStates == {"NOT_STARTED", "IN_PROGRESS", "REQUEST_ABORT", "ABORTED", "COMPLETED"}
Final == {"ABORTED", "COMPLETED"}
Connections == {"none", "unset", "set"}

\* StartDownload was given a connection.
External == connection # "none"

\* The constructor of MediaObject leaves its state uninitialised.
Init ==
    /\ state = "NOT_STARTED"
    /\ mstate \in DownloadStates
    /\ connection \in {"none", "unset"}
    /\ size \in 0..MaxBlocks
    /\ pushed = 0
    /\ received = 0
    /\ eos = FALSE
    /\ pc = [t \in Threads |-> IF t = Starter THEN "check"
                              ELSE IF t = Downloader THEN "none" ELSE "idle"]
    /\ asleep = {}

\* A thread that calls through NULL takes the process with it.
Crashed == pc[Downloader] = "crashed"

At(t, place) == ~Crashed /\ pc[t] = place /\ t \notin asleep
Goto(t, place) == pc' = [pc EXCEPT ![t] = place]

\* The threads may touch the object once StartDownload returned: only then
\* does DoBuffering put it into the queue.
Published == pc[Starter] \in {"started", "wait", "finished"}

\* MediaObject::OnDownloadStateChanged, in a step that also wakes the threads
\* of `others`.
OnDownloadStateChanged(s, others) ==
    /\ mstate' = s
    /\ asleep' = asleep \ ({Starter} \cup others)

\* DownloadStateManager::State(s): set, notify the observer, wake all.
State(s) ==
    /\ state' = s
    /\ OnDownloadStateChanged(s, Aborters)

-----------------------------------------------------------------------------
(* StartDownload and WaitFinished.  MediaObject attached itself before.     *)

CheckNotStarted ==
    /\ At(Starter, "check")
    /\ Goto(Starter, IF state # "NOT_STARTED" THEN "started" ELSE "create")
    /\ UNCHANGED <<state, mstate, connection, dataVars, asleep>>

CreateThread ==
    /\ At(Starter, "create")
    /\ pc' = [pc EXCEPT ![Starter] = "setState",
                        ![Downloader] = IF External THEN "read" ELSE "receive"]
    /\ UNCHANGED <<state, mstate, connection, dataVars, asleep>>

\* StartDownload returns false; DoBuffering does not look at the result.
CreateThreadFails ==
    /\ At(Starter, "create")
    /\ Goto(Starter, "started")
    /\ UNCHANGED <<state, mstate, connection, dataVars, asleep>>

SetInProgress ==
    /\ At(Starter, "setState")
    /\ State("IN_PROGRESS")
    /\ Goto(Starter, IF External THEN "setConnection" ELSE "started")
    /\ UNCHANGED <<connection, dataVars>>

SetConnection ==
    /\ At(Starter, "setConnection")
    /\ connection' = "set"
    /\ Goto(Starter, "started")
    /\ UNCHANGED <<state, mstate, dataVars, asleep>>

WaitFinished ==
    /\ At(Starter, "started") \/ At(Starter, "wait")
    /\ IF mstate \in Final
       THEN Goto(Starter, "finished") /\ UNCHANGED asleep
       ELSE Goto(Starter, "wait") /\ asleep' = asleep \cup {Starter}
    /\ UNCHANGED <<state, mstate, connection, dataVars>>

Start ==
    \/ CheckNotStarted
    \/ CreateThread
    \/ CreateThreadFails
    \/ SetInProgress
    \/ SetConnection
    \/ WaitFinished

-----------------------------------------------------------------------------
(* The download thread: DownloadExternalConnection reads a block, pushes it *)
(* and looks for an abort request; DownloadInternalConnection lets libcurl  *)
(* call CurlResponseCallback, which looks for the request first.            *)

\* A call through the connection that StartDownload has not set yet.
ReadUnset ==
    /\ At(Downloader, "read")
    /\ connection = "unset"
    /\ Goto(Downloader, "crashed")
    /\ UNCHANGED <<state, mstate, connection, dataVars, asleep>>

Read ==
    /\ At(Downloader, "read")
    /\ connection = "set"
    /\ Goto(Downloader, IF pushed < size THEN "push" ELSE "decide")
    /\ UNCHANGED <<state, mstate, connection, dataVars, asleep>>

\* libcurl has more data, or is done: complete, or with an error that nobody
\* looks at.
Receive ==
    /\ At(Downloader, "receive")
    /\ \/ pushed < size /\ Goto(Downloader, "callback")
       \/ Goto(Downloader, "decide")
    /\ UNCHANGED <<state, mstate, connection, dataVars, asleep>>

CurlResponseCallback ==
    /\ At(Downloader, "callback")
    /\ Goto(Downloader, IF state = "REQUEST_ABORT" THEN "decide" ELSE "push")
    /\ UNCHANGED <<state, mstate, connection, dataVars, asleep>>

PushBack ==
    /\ At(Downloader, "push")
    /\ pushed' = pushed + 1
    /\ asleep' = asleep \ {Reader}
    /\ Goto(Downloader, IF External THEN "poll" ELSE "receive")
    /\ UNCHANGED <<state, mstate, connection, size, received, eos>>

PollAbort ==
    /\ At(Downloader, "poll")
    /\ Goto(Downloader, IF state = "REQUEST_ABORT" THEN "decide" ELSE "read")
    /\ UNCHANGED <<state, mstate, connection, dataVars, asleep>>

\* Mutant: an aborted download counts as complete.
DecideCompleted ==
    /\ At(Downloader, "decide")
    /\ Goto(Downloader, "COMPLETED")
    /\ UNCHANGED <<state, mstate, connection, dataVars, asleep>>

\* The state is tested in one critical section and set in another.
Decide ==
    /\ At(Downloader, "decide")
    /\ Goto(Downloader, IF state = "REQUEST_ABORT" THEN "ABORTED" ELSE "COMPLETED")
    /\ UNCHANGED <<state, mstate, connection, dataVars, asleep>>

SetFinalState ==
    /\ pc[Downloader] \in Final
    /\ State(pc[Downloader])
    /\ Goto(Downloader, "setEOS")
    /\ UNCHANGED <<connection, dataVars>>

\* Mutant: the reader is not woken.
SetEOSSilently ==
    /\ At(Downloader, "setEOS")
    /\ eos' = TRUE
    /\ Goto(Downloader, "done")
    /\ UNCHANGED <<state, mstate, connection, size, pushed, received, asleep>>

SetEOS ==
    /\ At(Downloader, "setEOS")
    /\ eos' = TRUE
    /\ asleep' = asleep \ {Reader}
    /\ Goto(Downloader, "done")
    /\ UNCHANGED <<state, mstate, connection, size, pushed, received>>

Download ==
    \/ ReadUnset
    \/ Read
    \/ Receive
    \/ CurlResponseCallback
    \/ PushBack
    \/ PollAbort
    \/ Decide
    \/ SetFinalState
    \/ SetEOS

-----------------------------------------------------------------------------
(* MediaObject::AbortDownload: AbstractChunk::AbortDownload, then the       *)
(* observer's own state.                                                    *)

\* Mutant: whatever the state is.
RequestAbortAlways(a) ==
    /\ At(a, "idle")
    /\ Published
    /\ state' = "REQUEST_ABORT"
    /\ Goto(a, "check")
    /\ UNCHANGED <<mstate, connection, dataVars, asleep>>

\* Mutant: the media object calls itself aborted before the chunk is.
RequestAbortMarked(a) ==
    /\ At(a, "idle")
    /\ Published
    /\ state' = IF state = "IN_PROGRESS" THEN "REQUEST_ABORT" ELSE state
    /\ OnDownloadStateChanged("ABORTED", {})
    /\ Goto(a, "check")
    /\ UNCHANGED <<connection, dataVars>>

RequestAbort(a) ==
    /\ At(a, "idle")
    /\ Published
    /\ state' = IF state = "IN_PROGRESS" THEN "REQUEST_ABORT" ELSE state
    /\ Goto(a, "check")
    /\ UNCHANGED <<mstate, connection, dataVars, asleep>>

\* Mutant: `if` for `while`.
AwaitAbortedOnce(a) ==
    /\ At(a, "check") \/ At(a, "wait")
    /\ IF pc[a] = "wait" \/ state # "REQUEST_ABORT"
       THEN Goto(a, "notify") /\ UNCHANGED asleep
       ELSE Goto(a, "wait") /\ asleep' = asleep \cup {a}
    /\ UNCHANGED <<state, mstate, connection, dataVars>>

\* CheckAndWait(REQUEST_ABORT, ABORTED): the first state is tested once, the
\* second one again after every wakeup.
AwaitAborted(a) ==
    /\ At(a, "check") \/ At(a, "wait")
    /\ IF (pc[a] = "check" /\ state # "REQUEST_ABORT") \/ state = "ABORTED"
       THEN Goto(a, "notify") /\ UNCHANGED asleep
       ELSE Goto(a, "wait") /\ asleep' = asleep \cup {a}
    /\ UNCHANGED <<state, mstate, connection, dataVars>>

MarkAborted(a) ==
    /\ At(a, "notify")
    /\ OnDownloadStateChanged("ABORTED", {})
    /\ Goto(a, "returned")
    /\ UNCHANGED <<state, connection, dataVars>>

AbortDownload(a) == RequestAbort(a) \/ AwaitAborted(a) \/ MarkAborted(a)

-----------------------------------------------------------------------------
(* SyncedBlockStream::GetBytes, called until it returns nothing.            *)

\* Mutant: `if` for `while`.
GetBytesOnce ==
    /\ At(Reader, "idle") \/ At(Reader, "wait")
    /\ Published
    /\ \/ /\ received < pushed
          /\ received' \in (received + 1)..pushed
          /\ Goto(Reader, "idle")
          /\ UNCHANGED asleep
       \/ /\ received = pushed /\ ~eos /\ pc[Reader] = "idle"
          /\ Goto(Reader, "wait")
          /\ asleep' = asleep \cup {Reader}
          /\ UNCHANGED received
       \/ /\ received = pushed /\ (eos \/ pc[Reader] = "wait")
          /\ Goto(Reader, "ended")
          /\ UNCHANGED <<received, asleep>>
    /\ UNCHANGED <<state, mstate, connection, size, pushed, eos>>

GetBytes ==
    /\ At(Reader, "idle") \/ At(Reader, "wait")
    /\ Published
    /\ \/ /\ received < pushed
          /\ received' \in (received + 1)..pushed
          /\ Goto(Reader, "idle")
          /\ UNCHANGED asleep
       \/ /\ received = pushed /\ ~eos
          /\ Goto(Reader, "wait")
          /\ asleep' = asleep \cup {Reader}
          /\ UNCHANGED received
       \/ /\ received = pushed /\ eos
          /\ Goto(Reader, "ended")
          /\ UNCHANGED <<received, asleep>>
    /\ UNCHANGED <<state, mstate, connection, size, pushed, eos>>

SpuriousWakeup ==
    /\ ~Crashed
    /\ \E t \in asleep : asleep' = asleep \ {t}
    /\ UNCHANGED <<state, mstate, connection, dataVars, pc>>

-----------------------------------------------------------------------------

Next ==
    \/ Start
    \/ Download
    \/ \E a \in Aborters : AbortDownload(a)
    \/ GetBytes
    \/ SpuriousWakeup

Spec == Init /\ [][Next]_vars

\* Every thread is scheduled again.  Whether AbortDownload is called is up to
\* the user; a call that has begun goes on.
Fairness ==
    /\ WF_vars(Start)
    /\ WF_vars(Download)
    /\ \A a \in Aborters : WF_vars(pc[a] # "idle" /\ AbortDownload(a))
    /\ WF_vars(GetBytes)

FairSpec == Spec /\ Fairness

-----------------------------------------------------------------------------
(* Properties *)

StarterPlaces == {"check", "create", "setState", "setConnection", "started", "wait", "finished"}
AborterPlaces == {"idle", "check", "wait", "notify", "returned"}
ReaderPlaces  == {"idle", "wait", "ended"}
LoopPlaces    == {"read", "receive", "callback", "push", "poll"}
OverPlaces    == Final \cup {"decide", "setEOS", "done"}
DownloaderPlaces == LoopPlaces \cup OverPlaces \cup {"none", "crashed"}

StateType ==
    /\ state \in DownloadStates
    /\ mstate \in DownloadStates
    /\ connection \in Connections

DataType ==
    /\ size \in Nat
    /\ pushed \in 0..size
    /\ received \in 0..pushed
    /\ eos \in BOOLEAN

PlaceType ==
    /\ pc \in [Threads -> StarterPlaces \cup AborterPlaces \cup ReaderPlaces
                            \cup DownloaderPlaces]
    /\ pc[Starter] \in StarterPlaces
    /\ pc[Downloader] \in DownloaderPlaces
    /\ pc[Reader] \in ReaderPlaces
    /\ \A a \in Aborters : pc[a] \in AborterPlaces
    /\ asleep \subseteq {t \in Threads : pc[t] = "wait"}

\* Every variable has its type: in particular the reader never reads more
\* than was pushed, and no more is pushed than the connection has.
TypeOK == StateType /\ DataType /\ PlaceType

\* No lost wakeup: a thread sleeps only while what it waits for has not
\* happened, on all three condition variables.
NoLostWakeup ==
    /\ \A a \in Aborters \cap asleep : state # "ABORTED"
    /\ Starter \in asleep => mstate \notin Final
    /\ Reader \in asleep => received = pushed /\ ~eos

\* AbortDownload returns only when the download thread has left its loop: the
\* caller may reuse the connection, nothing reads from it any more.
AbortQuiesces ==
    \A a \in Aborters :
        pc[a] \in {"notify", "returned"} => pc[Downloader] \notin LoopPlaces

\* A download that reports COMPLETED without libcurl has delivered every
\* block the connection had, whatever the aborting threads do meanwhile.
CompletedIsComplete == External /\ state = "COMPLETED" => pushed = size

\* The end of the stream comes after the last block and after the final
\* state: a reader that was told the end has received everything.
EndIsFinal ==
    /\ eos => pc[Downloader] = "done" /\ (External => state \in Final)
    /\ pc[Reader] = "ended" => eos /\ received = pushed

\* WaitFinished returns only once the download is over, so DoBuffering may use
\* the connection for the next segment.  (A download that was never started
\* may be found in any state: the observer's state is not initialised.)
FinishedIsFinal ==
    External /\ pc[Starter] = "finished" => pc[Downloader] \notin LoopPlaces

\* The media object's own copy of the state, on which WaitFinished relies, is
\* final exactly when the chunk's state is, although AbortDownload sets it
\* whatever the chunk did: an abort that came too late makes of COMPLETED an
\* ABORTED, but never the other way round.
CopyFollows ==
    connection = "set" =>
        /\ mstate \in Final <=> state \in Final
        /\ mstate = "COMPLETED" => state = "COMPLETED"

\* No block enters the stream once the download reached a final state, nor
\* does a final state ever change.
FinalIsFinal ==
    [][External /\ state \in Final => UNCHANGED <<state, pushed>>]_vars

\* A reader always reaches the end of the stream, and the starting thread
\* gets out of WaitFinished, whatever the aborting threads do, once a thread
\* was created that has its connection.
DownloadEnds ==
    connection = "set" ~> pc[Reader] = "ended" /\ pc[Starter] = "finished"

\* IDownloadableChunk.h: AbortDownload "aborts the download of a chunk".  The
\* caller gets control back.
AbortReturns == \A a \in Aborters : pc[a] = "check" ~> pc[a] = "returned"
=============================================================================
