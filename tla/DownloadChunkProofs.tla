------------------------ MODULE DownloadChunkProofs ------------------------
(***************************************************************************)
(* Theorems about DownloadChunk, for every set of aborting threads, every  *)
(* segment size and both ways to download.  The inductive invariant ties   *)
(* the places of the starting thread, of the download thread and of the    *)
(* aborting threads to the download state.                                 *)
(***************************************************************************)
EXTENDS DownloadChunk, TLAPS

(* Until the thread exists nothing has happened. *)
NotCreated ==
    /\ pc[Starter] \in {"check", "create"} => pc[Downloader] = "none"
    /\ pc[Downloader] = "none" =>
          /\ state = "NOT_STARTED"
          /\ pc[Starter] \notin {"setState", "setConnection"}

(* What the starting thread has set, and who may act before it is done. *)
Starting ==
    /\ ~Published => pc[Reader] = "idle" /\ \A a \in Aborters : pc[a] = "idle"
    /\ Published /\ pc[Downloader] # "none" => state # "NOT_STARTED"
    /\ pc[Starter] = "setConnection" => External
    /\ External => /\ connection = "set" <=> Published /\ pc[Downloader] # "none"
                   /\ pc[Starter] = "setState" => state = "NOT_STARTED"
                   /\ pc[Starter] = "setConnection" =>
                         state = "IN_PROGRESS" /\ mstate = "IN_PROGRESS"
                   /\ pc[Downloader] \notin {"read", "none", "crashed"} => connection = "set"
                   /\ pc[Downloader] \notin {"receive", "callback"}
                   /\ pc[Downloader] = "crashed" => connection = "unset"

(* How the download thread's place and the state belong together. *)
Deciding ==
    /\ state \in Final => pc[Downloader] \in {"setEOS", "done"}
    /\ pc[Downloader] = "ABORTED" => state = "REQUEST_ABORT" \/ ~External
    /\ External =>
          /\ pc[Downloader] = "decide" => pushed = size \/ state = "REQUEST_ABORT"
          /\ pc[Downloader] = "COMPLETED" => pushed = size
          /\ pc[Downloader] \in {"setEOS", "done"} => state \in Final
          /\ state = "COMPLETED" => pushed = size

(* There is a block to push when the thread is about to push one. *)
Pushing == pc[Downloader] \in {"push", "callback"} => pushed < size

(* What an aborting thread knows at each place. *)
Aborting ==
    \A a \in Aborters :
        /\ pc[a] # "idle" => state # "IN_PROGRESS"
        /\ pc[a] \in {"notify", "returned"} => state \in Final \/ pc[Downloader] = "none"

(* The end of the stream and the reader that saw it. *)
Ending == eos => pc[Downloader] = "done"

Ended == pc[Reader] = "ended" => eos /\ received = pushed

IInv ==
    /\ TypeOK
    /\ NotCreated
    /\ Starting
    /\ Deciding
    /\ Pushing
    /\ Aborting
    /\ CopyFollows
    /\ Ending
    /\ Ended
    /\ FinishedIsFinal
    /\ NoLostWakeup

-----------------------------------------------------------------------------
(* The helper definitions of the model, expanded in every proof below. *)
USE ChunkAssumption
    DEF At, Goto, vars, External, Connections, dataVars, Crashed, Published, Threads, DownloadStates, Final,
        StarterPlaces, AborterPlaces, ReaderPlaces, DownloaderPlaces, LoopPlaces, OverPlaces

-----------------------------------------------------------------------------
(* The invariant, part by part *)

(* The two copies of the state are download states. *)
LEMMA StateTypeStep ==
    ASSUME StateType, PlaceType, [Next]_vars
    PROVE  StateType'
<1> USE DEF StateType, PlaceType
<1>1. CASE Start
    BY <1>1 DEF Start, CheckNotStarted, CreateThread, CreateThreadFails, SetInProgress,
                SetConnection, WaitFinished, State, OnDownloadStateChanged
<1>2. CASE Download
    BY <1>2 DEF Download, ReadUnset, Read, Receive, CurlResponseCallback, PushBack,
                PollAbort, Decide, SetFinalState, SetEOS, State, OnDownloadStateChanged
<1>3. ASSUME NEW a \in Aborters, AbortDownload(a) PROVE StateType'
    BY <1>3 DEF AbortDownload, RequestAbort, AwaitAborted, MarkAborted, OnDownloadStateChanged
<1>4. CASE GetBytes
    BY <1>4 DEF GetBytes
<1>5. CASE SpuriousWakeup \/ UNCHANGED vars
    BY <1>5 DEF SpuriousWakeup
<1>6. QED
    BY <1>1, <1>2, <1>3, <1>4, <1>5 DEF Next

(* Nothing is pushed beyond the size and nothing read beyond what was pushed. *)
LEMMA DataTypeStep ==
    ASSUME DataType, PlaceType, Pushing, [Next]_vars
    PROVE  DataType'
<1> USE DEF DataType, PlaceType, Pushing
<1>1. CASE Start
    BY <1>1 DEF Start, CheckNotStarted, CreateThread, CreateThreadFails, SetInProgress,
                SetConnection, WaitFinished, State, OnDownloadStateChanged
<1>2. CASE Download
    <2>1. CASE PushBack
        BY <2>1 DEF PushBack
    <2>2. CASE SetEOS
        BY <2>2 DEF SetEOS
    <2>3. UNCHANGED dataVars \/ PushBack \/ SetEOS
        BY <1>2 DEF Download, ReadUnset, Read, Receive, CurlResponseCallback, PollAbort,
                    Decide, SetFinalState
    <2>4. QED
        BY <2>1, <2>2, <2>3
<1>3. ASSUME NEW a \in Aborters, AbortDownload(a) PROVE DataType'
    BY <1>3 DEF AbortDownload, RequestAbort, AwaitAborted, MarkAborted, OnDownloadStateChanged
<1>4. CASE GetBytes
    BY <1>4 DEF GetBytes
<1>5. CASE SpuriousWakeup \/ UNCHANGED vars
    BY <1>5 DEF SpuriousWakeup
<1>6. QED
    BY <1>1, <1>2, <1>3, <1>4, <1>5 DEF Next

(* Every thread is at one of its places and sleeps only where it waits. *)
LEMMA PlaceTypeStep ==
    ASSUME PlaceType, [Next]_vars
    PROVE  PlaceType'
<1> USE DEF PlaceType
<1>1. CASE Start
    BY <1>1 DEF Start, CheckNotStarted, CreateThread, CreateThreadFails, SetInProgress,
                SetConnection, WaitFinished, State, OnDownloadStateChanged
<1>2. CASE Download
    BY <1>2 DEF Download, ReadUnset, Read, Receive, CurlResponseCallback, PushBack,
                PollAbort, Decide, SetFinalState, SetEOS, State, OnDownloadStateChanged
<1>3. ASSUME NEW a \in Aborters, AbortDownload(a) PROVE PlaceType'
    BY <1>3 DEF AbortDownload, RequestAbort, AwaitAborted, MarkAborted, OnDownloadStateChanged
<1>4. CASE GetBytes
    BY <1>4 DEF GetBytes
<1>5. CASE SpuriousWakeup \/ UNCHANGED vars
    BY <1>5 DEF SpuriousWakeup
<1>6. QED
    BY <1>1, <1>2, <1>3, <1>4, <1>5 DEF Next

(* Only the starting thread moves until it has created the download thread. *)
LEMMA NotCreatedStep ==
    ASSUME StateType, DataType, PlaceType, NotCreated, Starting, [Next]_vars
    PROVE  NotCreated'
<1> USE DEF StateType, PlaceType, NotCreated, Starting
<1>1. CASE Start
    BY <1>1 DEF Start, CheckNotStarted, CreateThread, CreateThreadFails, SetInProgress,
                SetConnection, WaitFinished, State, OnDownloadStateChanged
<1>2. CASE Download
    BY <1>2 DEF Download, ReadUnset, Read, Receive, CurlResponseCallback, PushBack,
                PollAbort, Decide, SetFinalState, SetEOS, State, OnDownloadStateChanged
<1>3. ASSUME NEW a \in Aborters, AbortDownload(a) PROVE NotCreated'
    BY <1>3 DEF AbortDownload, RequestAbort, AwaitAborted, MarkAborted, OnDownloadStateChanged
<1>4. CASE GetBytes
    BY <1>4 DEF GetBytes
<1>5. CASE SpuriousWakeup \/ UNCHANGED vars
    BY <1>5 DEF SpuriousWakeup
<1>6. QED
    BY <1>1, <1>2, <1>3, <1>4, <1>5 DEF Next

(* The starting thread sets the state, then the connection, then lets others in. *)
LEMMA StartingStep ==
    ASSUME StateType, PlaceType, NotCreated, Starting, [Next]_vars
    PROVE  Starting'
<1> USE DEF StateType, PlaceType, NotCreated, Starting
<1>1. CASE Start
    <2>1. CASE SetConnection
        <3>1. /\ External /\ pc[Downloader] # "none" /\ state = "IN_PROGRESS"
              /\ pc[Downloader] \notin {"receive", "callback", "crashed"}
            BY <2>1 DEF SetConnection
        <3>2. /\ pc' = [pc EXCEPT ![Starter] = "started"]
              /\ UNCHANGED <<state, mstate>>
            BY <2>1 DEF SetConnection
        <3>3. connection' = "set"
            BY <2>1 DEF SetConnection
        <3>4. QED
            BY <3>1, <3>2, <3>3
    <2>2. CASE SetInProgress
        BY <2>2 DEF SetInProgress, State, OnDownloadStateChanged
    <2>3. CASE CheckNotStarted \/ CreateThread \/ CreateThreadFails \/ WaitFinished
        BY <2>3 DEF CheckNotStarted, CreateThread, CreateThreadFails, WaitFinished
    <2>4. QED
        BY <1>1, <2>1, <2>2, <2>3 DEF Start
<1>2. CASE Download
    BY <1>2 DEF Download, ReadUnset, Read, Receive, CurlResponseCallback, PushBack,
                PollAbort, Decide, SetFinalState, SetEOS, State, OnDownloadStateChanged
<1>3. ASSUME NEW a \in Aborters, AbortDownload(a) PROVE Starting'
    BY <1>3 DEF AbortDownload, RequestAbort, AwaitAborted, MarkAborted, OnDownloadStateChanged
<1>4. CASE GetBytes
    BY <1>4 DEF GetBytes
<1>5. CASE SpuriousWakeup \/ UNCHANGED vars
    BY <1>5 DEF SpuriousWakeup
<1>6. QED
    BY <1>1, <1>2, <1>3, <1>4, <1>5 DEF Next

(* What the download thread found when it left the loop is still so when it sets
   the final state: only it leaves REQUEST_ABORT. *)
LEMMA DecidingStep ==
    ASSUME StateType, DataType, PlaceType, NotCreated, Starting, Pushing, Deciding, [Next]_vars
    PROVE  Deciding'
<1> USE DEF StateType, DataType, PlaceType, NotCreated, Starting, Pushing, Deciding
<1>1. CASE Start
    BY <1>1 DEF Start, CheckNotStarted, CreateThread, CreateThreadFails, SetInProgress,
                SetConnection, WaitFinished, State, OnDownloadStateChanged
<1>2. CASE Download
    BY <1>2 DEF Download, ReadUnset, Read, Receive, CurlResponseCallback, PushBack,
                PollAbort, Decide, SetFinalState, SetEOS, State, OnDownloadStateChanged
<1>3. ASSUME NEW a \in Aborters, AbortDownload(a) PROVE Deciding'
    BY <1>3 DEF AbortDownload, RequestAbort, AwaitAborted, MarkAborted, OnDownloadStateChanged
<1>4. CASE GetBytes
    BY <1>4 DEF GetBytes
<1>5. CASE SpuriousWakeup \/ UNCHANGED vars
    BY <1>5 DEF SpuriousWakeup
<1>6. QED
    BY <1>1, <1>2, <1>3, <1>4, <1>5 DEF Next

(* A block that was read is still to be pushed. *)
LEMMA PushingStep ==
    ASSUME DataType, PlaceType, NotCreated, Starting, Pushing, [Next]_vars
    PROVE  Pushing'
<1> USE DEF DataType, PlaceType, NotCreated, Starting, Pushing
<1>1. CASE Start
    BY <1>1 DEF Start, CheckNotStarted, CreateThread, CreateThreadFails, SetInProgress,
                SetConnection, WaitFinished, State, OnDownloadStateChanged
<1>2. CASE Download
    BY <1>2 DEF Download, ReadUnset, Read, Receive, CurlResponseCallback, PushBack,
                PollAbort, Decide, SetFinalState, SetEOS, State, OnDownloadStateChanged
<1>3. ASSUME NEW a \in Aborters, AbortDownload(a) PROVE Pushing'
    BY <1>3 DEF AbortDownload, RequestAbort, AwaitAborted, MarkAborted, OnDownloadStateChanged
<1>4. CASE GetBytes
    BY <1>4 DEF GetBytes
<1>5. CASE SpuriousWakeup \/ UNCHANGED vars
    BY <1>5 DEF SpuriousWakeup
<1>6. QED
    BY <1>1, <1>2, <1>3, <1>4, <1>5 DEF Next

(* An aborting thread returns when there is no download thread, or when the final
   state, which is set after the loop, was reached. *)
LEMMA AbortingStep ==
    ASSUME StateType, PlaceType, NotCreated, Starting, Deciding, Aborting, [Next]_vars
    PROVE  Aborting'
<1> USE DEF StateType, PlaceType, NotCreated, Starting, Deciding, Aborting
<1>1. CASE Start
    BY <1>1 DEF Start, CheckNotStarted, CreateThread, CreateThreadFails, SetInProgress,
                SetConnection, WaitFinished, State, OnDownloadStateChanged
<1>2. CASE Download
    BY <1>2 DEF Download, ReadUnset, Read, Receive, CurlResponseCallback, PushBack,
                PollAbort, Decide, SetFinalState, SetEOS, State, OnDownloadStateChanged
<1>3. ASSUME NEW a \in Aborters, AbortDownload(a) PROVE Aborting'
    BY <1>3 DEF AbortDownload, RequestAbort, AwaitAborted, MarkAborted, OnDownloadStateChanged
<1>4. CASE GetBytes
    BY <1>4 DEF GetBytes
<1>5. CASE SpuriousWakeup \/ UNCHANGED vars
    BY <1>5 DEF SpuriousWakeup
<1>6. QED
    BY <1>1, <1>2, <1>3, <1>4, <1>5 DEF Next

(* The end of the download sets both states; an abort that returned found the chunk's final. *)
LEMMA CopyStep ==
    ASSUME StateType, PlaceType, NotCreated, Starting, Deciding, Aborting, CopyFollows, [Next]_vars
    PROVE  CopyFollows'
<1> USE DEF StateType, PlaceType, NotCreated, Starting, Deciding, Aborting, CopyFollows
<1>1. CASE Start
    BY <1>1 DEF Start, CheckNotStarted, CreateThread, CreateThreadFails, SetInProgress,
                SetConnection, WaitFinished, State, OnDownloadStateChanged
<1>2. CASE Download
    BY <1>2 DEF Download, ReadUnset, Read, Receive, CurlResponseCallback, PushBack,
                PollAbort, Decide, SetFinalState, SetEOS, State, OnDownloadStateChanged
<1>3. ASSUME NEW a \in Aborters, AbortDownload(a) PROVE CopyFollows'
    BY <1>3 DEF AbortDownload, RequestAbort, AwaitAborted, MarkAborted, OnDownloadStateChanged
<1>4. CASE GetBytes
    BY <1>4 DEF GetBytes
<1>5. CASE SpuriousWakeup \/ UNCHANGED vars
    BY <1>5 DEF SpuriousWakeup
<1>6. QED
    BY <1>1, <1>2, <1>3, <1>4, <1>5 DEF Next

(* The end of the stream is set by the last step of the download thread. *)
LEMMA EndingStep ==
    ASSUME DataType, PlaceType, NotCreated, Starting, Ending, [Next]_vars
    PROVE  Ending'
<1> USE DEF DataType, PlaceType, NotCreated, Starting, Ending
<1>1. CASE Start
    BY <1>1 DEF Start, CheckNotStarted, CreateThread, CreateThreadFails, SetInProgress,
                SetConnection, WaitFinished, State, OnDownloadStateChanged
<1>2. CASE Download
    BY <1>2 DEF Download, ReadUnset, Read, Receive, CurlResponseCallback, PushBack,
                PollAbort, Decide, SetFinalState, SetEOS, State, OnDownloadStateChanged
<1>3. ASSUME NEW a \in Aborters, AbortDownload(a) PROVE Ending'
    BY <1>3 DEF AbortDownload, RequestAbort, AwaitAborted, MarkAborted, OnDownloadStateChanged
<1>4. CASE GetBytes
    BY <1>4 DEF GetBytes
<1>5. CASE SpuriousWakeup \/ UNCHANGED vars
    BY <1>5 DEF SpuriousWakeup
<1>6. QED
    BY <1>1, <1>2, <1>3, <1>4, <1>5 DEF Next

(* Nothing is pushed after the end of the stream. *)
LEMMA EndedStep ==
    ASSUME DataType, PlaceType, Ending, Ended, [Next]_vars
    PROVE  Ended'
<1> USE DEF DataType, PlaceType, Ending, Ended
<1>1. CASE Start
    BY <1>1 DEF Start, CheckNotStarted, CreateThread, CreateThreadFails, SetInProgress,
                SetConnection, WaitFinished, State, OnDownloadStateChanged
<1>2. CASE Download
    BY <1>2 DEF Download, ReadUnset, Read, Receive, CurlResponseCallback, PushBack,
                PollAbort, Decide, SetFinalState, SetEOS, State, OnDownloadStateChanged
<1>3. ASSUME NEW a \in Aborters, AbortDownload(a) PROVE Ended'
    BY <1>3 DEF AbortDownload, RequestAbort, AwaitAborted, MarkAborted, OnDownloadStateChanged
<1>4. CASE GetBytes
    BY <1>4 DEF GetBytes
<1>5. CASE SpuriousWakeup \/ UNCHANGED vars
    BY <1>5 DEF SpuriousWakeup
<1>6. QED
    BY <1>1, <1>2, <1>3, <1>4, <1>5 DEF Next

(* WaitFinished returns only when the observer is final. *)
LEMMA FinishedStep ==
    ASSUME PlaceType, NotCreated, Starting, Deciding, CopyFollows, FinishedIsFinal, [Next]_vars
    PROVE  FinishedIsFinal'
<1> USE DEF PlaceType, NotCreated, Starting, Deciding, CopyFollows, FinishedIsFinal
<1>1. CASE Start
    BY <1>1 DEF Start, CheckNotStarted, CreateThread, CreateThreadFails, SetInProgress,
                SetConnection, WaitFinished, State, OnDownloadStateChanged
<1>2. CASE Download
    BY <1>2 DEF Download, ReadUnset, Read, Receive, CurlResponseCallback, PushBack,
                PollAbort, Decide, SetFinalState, SetEOS, State, OnDownloadStateChanged
<1>3. ASSUME NEW a \in Aborters, AbortDownload(a) PROVE FinishedIsFinal'
    BY <1>3 DEF AbortDownload, RequestAbort, AwaitAborted, MarkAborted, OnDownloadStateChanged
<1>4. CASE GetBytes
    BY <1>4 DEF GetBytes
<1>5. CASE SpuriousWakeup \/ UNCHANGED vars
    BY <1>5 DEF SpuriousWakeup
<1>6. QED
    BY <1>1, <1>2, <1>3, <1>4, <1>5 DEF Next

(* Whatever a sleeper waits for wakes it in the same step. *)
LEMMA WakeupStep ==
    ASSUME DataType, PlaceType, NoLostWakeup, [Next]_vars
    PROVE  NoLostWakeup'
<1> USE DEF DataType, PlaceType, NoLostWakeup
<1>1. CASE Start
    BY <1>1 DEF Start, CheckNotStarted, CreateThread, CreateThreadFails, SetInProgress,
                SetConnection, WaitFinished, State, OnDownloadStateChanged
<1>2. CASE Download
    BY <1>2 DEF Download, ReadUnset, Read, Receive, CurlResponseCallback, PushBack,
                PollAbort, Decide, SetFinalState, SetEOS, State, OnDownloadStateChanged
<1>3. ASSUME NEW a \in Aborters, AbortDownload(a) PROVE NoLostWakeup'
    BY <1>3 DEF AbortDownload, RequestAbort, AwaitAborted, MarkAborted, OnDownloadStateChanged
<1>4. CASE GetBytes
    BY <1>4 DEF GetBytes
<1>5. CASE SpuriousWakeup \/ UNCHANGED vars
    BY <1>5 DEF SpuriousWakeup
<1>6. QED
    BY <1>1, <1>2, <1>3, <1>4, <1>5 DEF Next

LEMMA InvInit == Init => IInv
<1> SUFFICES ASSUME Init PROVE IInv
    OBVIOUS
<1>1. StateType
    <2>1. state \in DownloadStates /\ mstate \in DownloadStates
        BY DEF Init
    <2>2. connection \in Connections
        BY DEF Init
    <2>3. QED
        BY <2>1, <2>2 DEF StateType
<1>2. DataType
    <2>1. size \in Nat /\ pushed \in 0..size /\ received \in 0..pushed
        BY DEF Init
    <2>2. eos \in BOOLEAN
        BY DEF Init
    <2>3. QED
        BY <2>1, <2>2 DEF DataType
<1>3. PlaceType
    <2>1. /\ pc[Starter] = "check" /\ pc[Downloader] = "none" /\ pc[Reader] = "idle"
          /\ \A a \in Aborters : pc[a] = "idle"
        BY DEF Init
    <2>2. pc \in [Threads -> StarterPlaces \cup AborterPlaces \cup ReaderPlaces
                                \cup DownloaderPlaces]
        BY DEF Init
    <2>3. asleep \subseteq {t \in Threads : pc[t] = "wait"}
        BY DEF Init
    <2>4. QED
        BY <2>1, <2>2, <2>3 DEF PlaceType
<1>4. NotCreated /\ Starting /\ Deciding /\ Pushing
    BY DEF Init, NotCreated, Starting, Deciding, Pushing
<1>5. Aborting /\ CopyFollows /\ Ending /\ Ended
    BY DEF Init, Aborting, CopyFollows, Ending, Ended
<1>6. FinishedIsFinal /\ NoLostWakeup
    BY DEF Init, FinishedIsFinal, NoLostWakeup
<1>7. QED
    BY <1>1, <1>2, <1>3, <1>4, <1>5, <1>6 DEF IInv, TypeOK

LEMMA InvStep == IInv /\ [Next]_vars => IInv'
    BY StateTypeStep, DataTypeStep, PlaceTypeStep, NotCreatedStep, StartingStep,
       DecidingStep, PushingStep, AbortingStep, CopyStep, EndingStep, EndedStep,
       FinishedStep, WakeupStep
       DEF IInv, TypeOK

LEMMA Invariant == Spec => []IInv
<1>1. Init => IInv
    BY InvInit
<1>2. IInv /\ [Next]_vars => IInv'
    BY InvStep
<1>3. QED
    BY <1>1, <1>2, PTL DEF Spec

-----------------------------------------------------------------------------
(* Theorems *)

(* Every variable has its type: the stream never holds more than the connection
   had, and the reader never reads more than was pushed. *)
THEOREM TypeCorrect == Spec => []TypeOK
<1>1. IInv => TypeOK
    BY DEF IInv
<1>2. QED
    BY <1>1, Invariant, PTL

(* AbortDownload returns only when the download thread has left its loop, for any
   number of threads that abort. *)
THEOREM AbortWaitsForLoop == Spec => []AbortQuiesces
<1>1. IInv => AbortQuiesces
    BY DEF IInv, Aborting, Deciding, AbortQuiesces
<1>2. QED
    BY <1>1, Invariant, PTL

(* A download over an external connection that reports COMPLETED has delivered
   every block, however aborts interleave with its last steps. *)
THEOREM CompletedIsWhole == Spec => []CompletedIsComplete
<1>1. IInv => CompletedIsComplete
    BY DEF IInv, Deciding, CompletedIsComplete
<1>2. QED
    BY <1>1, Invariant, PTL

(* The end of the stream follows the last block and the final state, and a reader
   that saw it has read everything. *)
THEOREM EndComesLast == Spec => []EndIsFinal
<1>1. IInv => EndIsFinal
    BY DEF IInv, Ending, Ended, Deciding, EndIsFinal
<1>2. QED
    BY <1>1, Invariant, PTL

(* The media object's copy of the state is final exactly when the chunk's state is,
   for any number of aborts, late ones included. *)
THEOREM CopyFollowsState == Spec => []CopyFollows
<1>1. IInv => CopyFollows
    BY DEF IInv
<1>2. QED
    BY <1>1, Invariant, PTL

(* WaitFinished returns only when the download is over, so the connection is free
   for the next segment. *)
THEOREM FinishedWaits == Spec => []FinishedIsFinal
<1>1. IInv => FinishedIsFinal
    BY DEF IInv, FinishedIsFinal
<1>2. QED
    BY <1>1, Invariant, PTL

(* No thread sleeps through what it waits for. *)
THEOREM WakeupsNotLost == Spec => []NoLostWakeup
<1>1. IInv => NoLostWakeup
    BY DEF IInv, NoLostWakeup
<1>2. QED
    BY <1>1, Invariant, PTL

(* A final state stays, and no block follows it. *)
THEOREM FinalStays == Spec => FinalIsFinal
<1> DEFINE Kept == External /\ state \in Final => UNCHANGED <<state, pushed>>
<1>1. ASSUME IInv, [Next]_vars PROVE Kept
    <2> SUFFICES ASSUME External, state \in Final PROVE UNCHANGED <<state, pushed>>
        OBVIOUS
    <2>1. pc[Downloader] \in {"setEOS", "done"} /\ pc[Starter] # "setState"
        BY <1>1 DEF IInv, Deciding, Starting
    <2>2. CASE Start
        BY <2>1, <2>2 DEF Start, CheckNotStarted, CreateThread, CreateThreadFails,
            SetInProgress, SetConnection, WaitFinished
    <2>3. CASE Download
        BY <2>1, <2>3 DEF Download, ReadUnset, Read, Receive, CurlResponseCallback,
            PushBack, PollAbort, Decide, SetFinalState, SetEOS
    <2>4. ASSUME NEW a \in Aborters, AbortDownload(a) PROVE UNCHANGED <<state, pushed>>
        BY <2>4 DEF AbortDownload, RequestAbort, AwaitAborted, MarkAborted
    <2>5. CASE GetBytes \/ SpuriousWakeup \/ UNCHANGED vars
        BY <2>5 DEF GetBytes, SpuriousWakeup
    <2>6. QED
        BY <1>1, <2>2, <2>3, <2>4, <2>5 DEF Next
<1>2. QED
    BY <1>1, Invariant, PTL DEF Spec, FinalIsFinal
=============================================================================
