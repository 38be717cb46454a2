---------------------------- MODULE NdnTransfer ----------------------------
(***************************************************************************)
(* How a segment reaches the player over NDN: NDNConnection and its        *)
(* NdnDashConsumer, the NdnDasServer that answers, and the network between *)
(* them.  PreDownload asks for the number of packets and then for one      *)
(* packet after the other, each once; processEvents blocks until the       *)
(* packet arrives or the interest times out.  The download thread of the   *)
(* chunk then Reads what is in the buffer.                                 *)
(*                                                                         *)
(* The network never forgets: a packet in `data` may arrive at any time,   *)
(* again, late, or never, which is how loss, duplication, reordering and   *)
(* the caches of the forwarders look to the consumer.  A byte is the pair  *)
(* of its file and its offset.                                             *)
(***************************************************************************)
EXTENDS Integers, Sequences, SequencesExt, FiniteSetsExt

CONSTANTS Users,        \* threads that download through one NDNConnection
          Files,        \* the segments, as files of the server
          PacketSize,   \* PACKET_SEG_SIZE
          BlockSize,    \* AbstractChunk::BLOCKSIZE
          WordModulus,  \* size_t is arithmetic modulo this number
          NoName,       \* no pending interest
          FaceThrows,   \* may processEvents throw?
          FileSizes,    \* bound of the model: sizes of files, -1 for one that is not there
          MaxDownloads  \* bound of the model: downloads a thread begins

ASSUME TransferAssumption ==
    /\ PacketSize \in Nat \ {0}
    /\ BlockSize \in Nat \ {0}
    /\ WordModulus \in Nat \ {0}
    /\ FileSizes \subseteq -1..WordModulus - 1
    /\ Files # {}
    /\ FaceThrows \in BOOLEAN
    /\ MaxDownloads \in Nat

VARIABLES fileSize,          \* GetFileSize: -1 for a file that is not there
          serverUp,          \* the server process lives
          interests,         \* interests sent
          data,              \* Data packets put into the network
          pending,           \* the interest each thread waits for
          m_nSegNumber,      \* consumer: number of packets to ask for
          m_segBuffer,       \* consumer: the bytes up to m_validateBufferSize
          m_readBufferSize,  \* consumer: how many of them were read
          pc,                \* where each thread is
          index,             \* loop index of PreDownload
          current,           \* the file each thread downloads
          delivered,         \* bytes Read has handed to the chunk
          missed,            \* history: a request of this download failed
          shared,            \* history: another thread downloaded meanwhile
          downloads          \* history: downloads each thread began

networkVars  == <<interests, data, pending>>
consumerVars == <<m_nSegNumber, m_segBuffer, m_readBufferSize>>
threadVars   == <<pc, index, current, delivered, missed, shared, downloads>>
vars == <<fileSize, serverUp, networkVars, consumerVars, threadVars>>

NumberOf(f)    == <<"requestNumber", f, 0>>
PacketOf(f, i) == <<"requestData", f, i>>
Names == {NumberOf(f) : f \in Files}
            \cup {PacketOf(f, i) : f \in Files, i \in 0..(WordModulus - 1)}

ASSUME NoNameAssumption == NoName \notin Names

Init ==
    /\ fileSize \in [Files -> FileSizes]
    /\ serverUp = TRUE
    /\ interests = {}
    /\ data = {}
    /\ pending = [u \in Users |-> NoName]
    /\ m_nSegNumber = 0
    /\ m_segBuffer = <<>>
    /\ m_readBufferSize = 0
    /\ pc = [u \in Users |-> "idle"]
    /\ index = [u \in Users |-> 0]
    /\ current = [u \in Users |-> CHOOSE f \in Files : TRUE]
    /\ delivered = [u \in Users |-> <<>>]
    /\ missed = [u \in Users |-> FALSE]
    /\ shared = [u \in Users |-> FALSE]
    /\ downloads = [u \in Users |-> 0]

Goto(u, place) == pc' = [pc EXCEPT ![u] = place]

-----------------------------------------------------------------------------
(* The server.  The sizes it keeps in m_mapFileSize are those of the files, *)
(* which do not change while it serves them.                                *)

\* Mutant: the last, shorter packet is not counted.
SegNumberTruncated(size) == (size % WordModulus) \div PacketSize

\* size_t segNumber: the cast to size_t comes before the division.
SegNumber(size) ==
    ((size % WordModulus) \div PacketSize) + (IF size % PacketSize # 0 THEN 1 ELSE 0)

\* The bytes read from the file at index * PACKET_SEG_SIZE.
PacketBytes(f, i) ==
    LET nCount == IF fileSize[f] < (i + 1) * PacketSize
                  THEN fileSize[f] - i * PacketSize
                  ELSE PacketSize
    IN  [k \in 1..nCount |-> <<f, i * PacketSize + k - 1>>]

OnRequestSegNumber(f) ==
    /\ serverUp
    /\ NumberOf(f) \in interests
    /\ data' = data \cup {[name |-> NumberOf(f), content |-> SegNumber(fileSize[f])]}
    /\ UNCHANGED <<fileSize, serverUp, interests, pending, consumerVars, threadVars>>

\* An empty file gets no answer.
OnRequestSegData(f, i) ==
    /\ serverUp
    /\ PacketOf(f, i) \in interests
    /\ fileSize[f] > 0 /\ i * PacketSize <= fileSize[f]
    /\ data' = data \cup {[name |-> PacketOf(f, i), content |-> PacketBytes(f, i)]}
    /\ UNCHANGED <<fileSize, serverUp, interests, pending, consumerVars, threadVars>>

\* The server does not survive a request beyond the file's end.  fopen of a file
\* that is not there (its size is -1) returns NULL, and fseek takes it.  Of a file
\* that is there the length of the packet is negative, a huge size_t, and the
\* buffer for it throws.
OnRequestBeyondEnd(f, i) ==
    /\ serverUp
    /\ PacketOf(f, i) \in interests
    /\ fileSize[f] # 0 /\ fileSize[f] < i * PacketSize
    /\ serverUp' = FALSE
    /\ UNCHANGED <<fileSize, networkVars, consumerVars, threadVars>>

OnInterest ==
    \/ \E f \in Files : OnRequestSegNumber(f)
    \/ \E f \in Files, i \in 0..(WordModulus - 1) :
           OnRequestSegData(f, i) \/ OnRequestBeyondEnd(f, i)

-----------------------------------------------------------------------------
(* PreDownload *)

ExpressInterest(u, name) ==
    /\ interests' = interests \cup {name}
    /\ pending' = [pending EXCEPT ![u] = name]

\* Mutant: the bytes of the previous segment are kept.
ResetReadOnly == m_readBufferSize' = 0 /\ UNCHANGED m_segBuffer

\* resetSegBuffer, then getRequestNumber.
ResetSegBuffer == m_segBuffer' = <<>> /\ m_readBufferSize' = 0

Downloading == {u \in Users : pc[u] \in {"predownload", "read"}}

PreDownload(u) ==
    /\ pc[u] \in {"idle", "done"}
    /\ downloads[u] < MaxDownloads
    /\ downloads' = [downloads EXCEPT ![u] = @ + 1]
    /\ \E f \in Files :
          /\ current' = [current EXCEPT ![u] = f]
          /\ ExpressInterest(u, NumberOf(f))
    /\ ResetSegBuffer
    /\ delivered' = [delivered EXCEPT ![u] = <<>>]
    /\ missed' = [missed EXCEPT ![u] = FALSE]
    /\ shared' = [v \in Users |-> IF v = u THEN Downloading # {}
                                   ELSE shared[v] \/ v \in Downloading]
    /\ index' = [index EXCEPT ![u] = 0]
    /\ Goto(u, "predownload")
    /\ UNCHANGED <<fileSize, serverUp, data, m_nSegNumber>>

\* processEvents returns once the table of pending interests is empty.
ProcessedEvents(u) == pc[u] = "predownload" /\ \A v \in Users : pending[v] = NoName

GetRequestData(u) ==
    /\ ProcessedEvents(u)
    /\ index[u] < m_nSegNumber
    /\ ExpressInterest(u, PacketOf(current[u], index[u]))
    /\ index' = [index EXCEPT ![u] = @ + 1]
    /\ UNCHANGED <<fileSize, serverUp, data, consumerVars, pc, current, delivered, missed,
                   shared, downloads>>

StartReading(u) ==
    /\ ProcessedEvents(u)
    /\ index[u] >= m_nSegNumber
    /\ Goto(u, "read")
    /\ UNCHANGED <<fileSize, serverUp, networkVars, consumerVars, index, current, delivered,
                   missed, shared, downloads>>

\* processEvents throws: it has cleared the pending interests, and PreDownload
\* only prints the error.
ProcessEventsThrows(u) ==
    /\ FaceThrows
    /\ pc[u] = "predownload"
    /\ pending' = [v \in Users |-> NoName]
    /\ missed' = [missed EXCEPT ![u] = TRUE]
    /\ Goto(u, "read")
    /\ UNCHANGED <<fileSize, serverUp, interests, data, consumerVars, index, current,
                   delivered, shared, downloads>>

\* A packet nobody waits for is dropped by the face.
OnRequestNumberArrive(u) ==
    /\ \E d \in data :
          /\ d.name = pending[u]
          /\ d.name = NumberOf(current[u])
          /\ m_nSegNumber' = d.content
    /\ pending' = [pending EXCEPT ![u] = NoName]
    /\ UNCHANGED <<fileSize, serverUp, interests, data, m_segBuffer, m_readBufferSize,
                   threadVars>>

OnRequestDataArrive(u) ==
    /\ \E d \in data :
          /\ d.name = pending[u]
          /\ d.name # NumberOf(current[u])
          /\ m_segBuffer' = m_segBuffer \o d.content
    /\ pending' = [pending EXCEPT ![u] = NoName]
    /\ UNCHANGED <<fileSize, serverUp, interests, data, m_nSegNumber, m_readBufferSize,
                   threadVars>>

\* Mutant: the interest is sent again, for ever.
OnTimeoutRetry(u) ==
    /\ pending[u] # NoName
    /\ missed' = [missed EXCEPT ![u] = TRUE]
    /\ UNCHANGED <<fileSize, serverUp, networkVars, consumerVars, pc, index, current,
                   delivered, shared, downloads>>

\* Either timeout, or a Nack, which the face reports as one.
OnTimeout(u) ==
    /\ pending[u] # NoName
    /\ m_nSegNumber' = IF pending[u] = NumberOf(current[u]) THEN 0 ELSE m_nSegNumber
    /\ pending' = [pending EXCEPT ![u] = NoName]
    /\ missed' = [missed EXCEPT ![u] = TRUE]
    /\ UNCHANGED <<fileSize, serverUp, interests, data, m_segBuffer, m_readBufferSize, pc,
                   index, current, delivered, shared, downloads>>

Callback(u) == OnRequestNumberArrive(u) \/ OnRequestDataArrive(u) \/ OnTimeout(u)

-----------------------------------------------------------------------------
(* Read, called by the chunk's download thread until it returns 0 *)

Read(u) ==
    /\ pc[u] = "read"
    /\ m_readBufferSize < Len(m_segBuffer)
    /\ LET readLen == Min({BlockSize, Len(m_segBuffer) - m_readBufferSize})
           block   == SubSeq(m_segBuffer, m_readBufferSize + 1, m_readBufferSize + readLen)
       IN  /\ m_readBufferSize' = m_readBufferSize + readLen
           /\ delivered' = [delivered EXCEPT ![u] = @ \o block]
    /\ UNCHANGED <<fileSize, serverUp, networkVars, m_nSegNumber, m_segBuffer, pc, index,
                   current, missed, shared, downloads>>

ReadNothing(u) ==
    /\ pc[u] = "read"
    /\ m_readBufferSize = Len(m_segBuffer)
    /\ Goto(u, "done")
    /\ UNCHANGED <<fileSize, serverUp, networkVars, consumerVars, index, current, delivered,
                   missed, shared, downloads>>

\* The download thread found an abort request and reads no more.
StopReading(u) ==
    /\ pc[u] = "read"
    /\ Goto(u, "idle")
    /\ UNCHANGED <<fileSize, serverUp, networkVars, consumerVars, index, current, delivered,
                   missed, shared, downloads>>

-----------------------------------------------------------------------------

Consume(u) == GetRequestData(u) \/ StartReading(u) \/ Read(u) \/ ReadNothing(u)

Next ==
    \/ OnInterest
    \/ \E u \in Users : \/ PreDownload(u)
                        \/ Consume(u)
                        \/ Callback(u)
                        \/ ProcessEventsThrows(u)
                        \/ StopReading(u)

Spec == Init /\ [][Next]_vars

\* Threads are scheduled, and every interest has a lifetime.  Nothing is asked
\* of the network or of the server.
Fairness == \A u \in Users : WF_vars(Consume(u)) /\ WF_vars(Callback(u))

FairSpec == Spec /\ Fairness

-----------------------------------------------------------------------------
(* Properties *)

FileBytes(f) == [k \in 1..Max({0, fileSize[f]}) |-> <<f, k - 1>>]

\* Every variable has its type: in particular the reader stays inside the
\* part of the buffer that holds data.
TypeOK ==
    /\ fileSize \in [Files -> FileSizes]
    /\ serverUp \in BOOLEAN
    /\ interests \subseteq Names
    /\ pending \in [Users -> interests \cup {NoName}]
    /\ \A d \in data : d.name \in interests
    /\ m_nSegNumber \in 0..WordModulus
    /\ m_readBufferSize \in 0..Len(m_segBuffer)
    /\ pc \in [Users -> {"idle", "predownload", "read", "done"}]
    /\ index \in [Users -> 0..WordModulus]
    /\ current \in [Users -> Files]
    /\ missed \in [Users -> BOOLEAN]
    /\ shared \in [Users -> BOOLEAN]
    /\ downloads \in [Users -> 0..MaxDownloads]

\* Whatever is lost, late or duplicated, and whatever the download before it
\* left behind, the bytes of a download come from its own file, in order, none
\* twice, as long as no other thread uses the connection meanwhile.
DeliveredInOrder ==
    \A u \in Users : ~shared[u] =>
        \A k \in 1..Len(delivered[u]) :
            /\ delivered[u][k][1] = current[u]
            /\ k > 1 => delivered[u][k - 1][2] < delivered[u][k][2]

\* A download of its own with no timeout and no error delivers exactly the
\* file, whatever the size of its last packet; with timeouts, what is missing
\* are whole packets, however Read cuts the buffer into blocks.
WholeUnlessMissed ==
    \A u \in Users :
        pc[u] = "done" /\ ~shared[u] /\ fileSize[current[u]] >= 0 =>
            /\ ~missed[u] => delivered[u] = FileBytes(current[u])
            /\ \A b \in ToSet(delivered[u]), o \in 0..(fileSize[current[u]] - 1) :
                   o \div PacketSize = b[2] \div PacketSize
                       => <<current[u], o>> \in ToSet(delivered[u])

\* A download that began comes to an end: no loss and no dead server keeps
\* PreDownload waiting, and no other thread does that uses the face.
DownloadReturns ==
    \A u \in Users : pc[u] = "predownload" ~> pc[u] \in {"done", "idle"}
=============================================================================
