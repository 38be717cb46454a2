-------------------------- MODULE NdnTransferProofs --------------------------
(***************************************************************************)
(* Theorems about NdnTransfer, for any number of threads, files and        *)
(* downloads, any size of a file, of a packet and of a block, any width of *)
(* size_t, and a network that may lose, delay, duplicate and reorder.  The *)
(* inductive invariant says what a thread that has the connection to       *)
(* itself finds in the buffer: the packets that arrived so far, each       *)
(* whole and in its place, and how far Read has got in it.                 *)
(***************************************************************************)
EXTENDS NdnTransfer, SequenceTheorems, TLAPS

Bytes == Files \X Nat

Types == TypeOK /\ m_segBuffer \in Seq(Bytes) /\ delivered \in [Users -> Seq(Bytes)]

(* A thread waits in PreDownload only, for the last thing it asked for. *)
LastRequest(u) ==
    IF index[u] = 0 THEN NumberOf(current[u]) ELSE PacketOf(current[u], index[u] - 1)

Waits == \A u \in Users : pending[u] # NoName => pc[u] = "predownload" /\ pending[u] = LastRequest(u)

(* The network holds nothing but what the server answered. *)
NumberAnswer(f)    == [name |-> NumberOf(f), content |-> SegNumber(fileSize[f])]
PacketAnswer(f, i) == [name |-> PacketOf(f, i), content |-> PacketBytes(f, i)]

Answers ==
    \A d \in data :
        \E f \in Files :
            \/ d = NumberAnswer(f)
            \/ fileSize[f] > 0 /\ \E i \in 0..(WordModulus - 1) : d = PacketAnswer(f, i)

Alone == \A u \in Downloading : ~shared[u] => Downloading = {u}

(* The bytes of a sequence are those of f, in order, ... *)
InOrder(s, f) ==
    \A k \in 1..Len(s) : s[k][1] = f /\ (k > 1 => s[k - 1][2] < s[k][2])

(* ... all before an offset, ... *)
Below(s, offset) == \A k \in 1..Len(s) : s[k][2] < offset

(* ... in whole packets, ... *)
WholePackets(s, f) ==
    \A k \in 1..Len(s), o \in 0..(fileSize[f] - 1) :
        o \div PacketSize = s[k][2] \div PacketSize => \E j \in 1..Len(s) : s[j] = <<f, o>>

(* ... or the first n of them. *)
FirstBytes(s, f, n) == Len(s) = n /\ \A k \in 1..Len(s) : s[k] = <<f, k - 1>>

(* How many packets have arrived, or never will, when u is to ask for more. *)
Settled(u) == IF index[u] > 0 /\ pending[u] # NoName THEN index[u] - 1 ELSE index[u]

UpTo(f, i) == IF i * PacketSize < fileSize[f] THEN i * PacketSize ELSE fileSize[f]

(* The buffer of a download, ... *)
Buffered(u) ==
    /\ InOrder(m_segBuffer, current[u])
    /\ Below(m_segBuffer, Settled(u) * PacketSize)
    /\ WholePackets(m_segBuffer, current[u])

(* ... how far it was read, ... *)
ReadSoFar(u) ==
    /\ Len(delivered[u]) = m_readBufferSize
    /\ \A k \in 1..m_readBufferSize : delivered[u][k] = m_segBuffer[k]
    /\ pc[u] = "predownload" => m_readBufferSize = 0

(* ... and that nothing is missing in it. *)
NothingMissing(u) ==
    fileSize[current[u]] >= 0 /\ ~missed[u] =>
        /\ index[u] > 0 \/ pending[u] = NoName => m_nSegNumber = SegNumber(fileSize[current[u]])
        /\ FirstBytes(m_segBuffer, current[u], UpTo(current[u], Settled(u)))
        /\ pc[u] = "read" => Len(m_segBuffer) = fileSize[current[u]]

Transfers ==
    \A u \in Downloading : ~shared[u] => Buffered(u) /\ ReadSoFar(u) /\ NothingMissing(u)

(* What was delivered, also when the buffer is no longer this download's. *)
Ordered == \A u \in Users : ~shared[u] => InOrder(delivered[u], current[u])

Whole ==
    \A u \in Users :
        pc[u] = "done" /\ ~shared[u] /\ fileSize[current[u]] >= 0 =>
            /\ WholePackets(delivered[u], current[u])
            /\ ~missed[u] => FirstBytes(delivered[u], current[u], fileSize[current[u]])

IInv == Types /\ Waits /\ Answers /\ Alone /\ Transfers /\ Ordered /\ Whole

-----------------------------------------------------------------------------
(* Arithmetic and sequences *)

USE DEF Goto, vars, networkVars, consumerVars, threadVars, Bytes

LEMMA Constants ==
    /\ PacketSize \in Nat \ {0} /\ BlockSize \in Nat \ {0} /\ WordModulus \in Nat \ {0}
    /\ FileSizes \subseteq -1..WordModulus - 1 /\ Files # {} /\ FaceThrows \in BOOLEAN
    /\ MaxDownloads \in Nat /\ NoName \notin Names
    BY TransferAssumption, NoNameAssumption

LEMMA Sizes ==
    PacketSize \in Nat /\ PacketSize > 0 /\ WordModulus \in Nat /\ WordModulus > 0
    BY TransferAssumption

LEMMA Divides ==
    ASSUME NEW a \in Nat, NEW b \in Nat \ {0}
    PROVE  /\ a = b * (a \div b) + (a % b) /\ a % b \in 0..b-1
           /\ a \div b \in Nat /\ a \div b <= a
    OBVIOUS

LEMMA Quotient ==
    ASSUME NEW a \in Nat, NEW b \in Nat \ {0}, NEW i \in Nat
    PROVE  a \div b = i <=> i * b <= a /\ a < (i + 1) * b
<1>1. i * b <= a /\ a < (i + 1) * b => a \div b = i
    OBVIOUS
<1>2. a \div b = i => i * b <= a /\ a < (i + 1) * b
    BY Divides
<1>3. QED
    BY <1>1, <1>2

(* The number of packets that the server answers covers the file. *)
LEMMA NumberCovers ==
    ASSUME NEW size \in -1..WordModulus - 1
    PROVE  /\ SegNumber(size) \in 0..WordModulus
           /\ size >= 0 => SegNumber(size) * PacketSize >= size
<1> USE Sizes
<1> DEFINE word == size % WordModulus
<1>1. word \in 0..WordModulus - 1 /\ (size >= 0 => word = size)
    OBVIOUS
<1> HIDE DEF word
<1>2. word \div PacketSize \in Nat /\ word \div PacketSize <= word
    <2>1. word \in Nat /\ PacketSize \in Nat \ {0}
        BY <1>1
    <2>2. QED
        BY <2>1, Divides
<1>3. SegNumber(size) = word \div PacketSize \/ SegNumber(size) = word \div PacketSize + 1
    BY <1>2 DEF SegNumber, word
<1>4. SegNumber(size) \in 0..WordModulus
    BY <1>1, <1>2, <1>3
<1>5. ASSUME size >= 0 PROVE SegNumber(size) * PacketSize >= size
    <2> DEFINE q == size \div PacketSize
               r == size % PacketSize
    <2>1. /\ size = PacketSize * q + r
          /\ r \in 0..PacketSize - 1 /\ q \in Nat
        <3>1. size \in Nat /\ PacketSize \in Nat \ {0}
            BY <1>5
        <3>2. QED
            BY <3>1, Divides
    <2>2. SegNumber(size) = q + (IF r # 0 THEN 1 ELSE 0)
        BY <1>1, <1>5 DEF SegNumber, word
    <2> HIDE DEF q, r
    <2>3. (q + 1) * PacketSize = PacketSize * q + PacketSize /\ q * PacketSize = PacketSize * q
        BY <2>1
    <2>4. CASE r = 0
        BY <2>1, <2>2, <2>3, <2>4
    <2>5. CASE r # 0
        <3>1. SegNumber(size) * PacketSize = PacketSize * q + PacketSize
            BY <2>2, <2>3, <2>5
        <3>2. PacketSize * q \in Nat
            BY <2>1
        <3>3. QED
            BY <2>1, <3>1, <3>2
    <2>6. QED
        BY <2>4, <2>5
<1>6. QED
    BY <1>4, <1>5

LEMMA ByteFields ==
    ASSUME NEW s \in Seq(Bytes), NEW k \in 1..Len(s)
    PROVE  s[k] = <<s[k][1], s[k][2]>> /\ s[k][1] \in Files /\ s[k][2] \in Nat
    OBVIOUS

LEMMA Concatenates ==
    ASSUME NEW s \in Seq(Bytes), NEW t \in Seq(Bytes)
    PROVE  /\ s \o t \in Seq(Bytes) /\ Len(s \o t) = Len(s) + Len(t)
           /\ \A k \in 1..Len(s) : (s \o t)[k] = s[k]
           /\ \A k \in 1..Len(t) : (s \o t)[Len(s) + k] = t[k]
    BY ConcatProperties

(* The bytes of packet i of a file that is not empty. *)
LEMMA PacketContent ==
    ASSUME NEW f \in Files, NEW i \in Nat, fileSize[f] \in Nat
    PROVE  LET packet == PacketBytes(f, i)
           IN /\ packet \in Seq(Bytes)
              /\ Len(packet) <= PacketSize
              /\ i * PacketSize + Len(packet) <= fileSize[f] \/ Len(packet) = 0
              /\ Len(packet) = PacketSize \/ fileSize[f] <= i * PacketSize + Len(packet)
              /\ \A k \in 1..Len(packet) : packet[k] = <<f, i * PacketSize + k - 1>>
<1> USE Constants
<1> DEFINE nCount == IF fileSize[f] < (i + 1) * PacketSize THEN fileSize[f] - i * PacketSize
                                                          ELSE PacketSize
           n == IF nCount < 0 THEN 0 ELSE nCount
           start == i * PacketSize
<1>1. start \in Nat /\ (i + 1) * PacketSize = start + PacketSize
    OBVIOUS
<1>2. /\ nCount \in Int /\ n \in Nat /\ 1..nCount = 1..n
      /\ n <= PacketSize
      /\ start + n <= fileSize[f] \/ n = 0
      /\ n = PacketSize \/ fileSize[f] <= start + n
    BY <1>1
<1>3. PacketBytes(f, i) = [k \in 1..n |-> <<f, start + k - 1>>]
    BY <1>2 DEF PacketBytes
<1>4. \A k \in 1..n : <<f, start + k - 1>> \in Bytes
    BY <1>1, <1>2
<1>5. /\ PacketBytes(f, i) \in Seq(Bytes) /\ Len(PacketBytes(f, i)) = n
      /\ \A k \in 1..n : PacketBytes(f, i)[k] = <<f, start + k - 1>>
    <2> HIDE DEF n, start
    <2>1. QED
        BY <1>2, <1>3, <1>4
<1>6. QED
    BY <1>2, <1>5

(* A packet that arrives in its turn keeps the buffer in order and whole ... *)
LEMMA PacketAppended ==
    ASSUME NEW f \in Files, NEW i \in Nat, fileSize[f] \in Nat, NEW s \in Seq(Bytes),
           InOrder(s, f), Below(s, i * PacketSize), WholePackets(s, f)
    PROVE  LET t == s \o PacketBytes(f, i)
           IN /\ t \in Seq(Bytes) /\ InOrder(t, f) /\ Below(t, (i + 1) * PacketSize)
              /\ WholePackets(t, f)
<1> USE Sizes
<1> DEFINE packet == PacketBytes(f, i)
           t == s \o packet
           start == i * PacketSize
<1>1. /\ packet \in Seq(Bytes) /\ Len(packet) \in Nat /\ Len(packet) <= PacketSize
      /\ Len(packet) = PacketSize \/ fileSize[f] <= start + Len(packet)
      /\ \A k \in 1..Len(packet) : packet[k] = <<f, start + k - 1>>
    BY PacketContent
<1>2. start \in Nat /\ (i + 1) * PacketSize = start + PacketSize
    OBVIOUS
<1> HIDE DEF packet, start
<1>len. /\ Len(t) = Len(s) + Len(packet) /\ Len(s) \in Nat /\ Len(packet) \in Nat
        /\ Len(packet) <= PacketSize
    BY <1>1, Concatenates
<1>3. /\ t \in Seq(Bytes) /\ Len(t) = Len(s) + Len(packet) /\ Len(s) \in Nat
      /\ \A k \in 1..Len(s) : t[k] = s[k]
      /\ \A k \in 1..Len(packet) : t[Len(s) + k] = packet[k]
    BY <1>1, Concatenates
<1> HIDE DEF t
<1>4. \A k \in 1..Len(t) :
         \/ k \in 1..Len(s) /\ t[k] = s[k]
         \/ k - Len(s) \in 1..Len(packet) /\ t[k] = <<f, start + (k - Len(s)) - 1>>
    <2>1. \A k \in 1..Len(t) :
             \/ k \in 1..Len(s)
             \/ k - Len(s) \in 1..Len(packet) /\ k = Len(s) + (k - Len(s))
        BY <1>1, <1>3
    <2>2. QED
        BY <1>1, <1>3, <2>1
<1>5. \A k \in 1..Len(s) : s[k][1] = f /\ s[k][2] \in Nat /\ s[k][2] < start
    BY ByteFields DEF InOrder, Below, start
<1>6. InOrder(t, f)
    <2>1. SUFFICES ASSUME NEW k \in 1..Len(t)
                   PROVE  t[k][1] = f /\ (k > 1 => t[k - 1][2] < t[k][2])
        BY DEF InOrder
    <2>2. t[k][1] = f
        BY <1>4, <1>5
    <2>3. ASSUME k > 1 PROVE t[k - 1][2] < t[k][2]
        <3>1. k - 1 \in 1..Len(t) /\ k \in Nat /\ Len(s) \in Nat
            BY <1>1, <1>3, <2>3
        <3>2. CASE k \in 1..Len(s)
            <4>1. k - 1 \in 1..Len(s)
                BY <2>3, <3>1, <3>2
            <4>2. t[k - 1] = s[k - 1] /\ t[k] = s[k]
                BY <1>3, <3>2, <4>1
            <4>3. QED
                BY <2>3, <3>2, <4>2 DEF InOrder
        <3>3. CASE k \notin 1..Len(s)
            <4>1. t[k][2] = start + (k - Len(s)) - 1 /\ k > Len(s)
                BY <1>4, <3>1, <3>3
            <4>2. CASE k - 1 \in 1..Len(s)
                <5>1. t[k - 1] = s[k - 1]
                    BY <1>3, <4>2
                <5>2. t[k - 1][2] \in Nat /\ t[k - 1][2] < start
                    BY <1>5, <4>2, <5>1
                <5>3. t[k][2] >= start
                    BY <1>2, <3>1, <4>1
                <5>4. QED
                    BY <1>2, <3>1, <4>1, <5>2, <5>3
            <4>3. CASE k - 1 \notin 1..Len(s)
                <5> DEFINE j == k - 1
                <5>1. j \in 1..Len(t) /\ j \notin 1..Len(s)
                    BY <3>1, <4>3
                <5>2. t[j][2] = start + (j - Len(s)) - 1
                    <6> HIDE DEF j
                    <6> QED
                        BY <1>4, <5>1
                <5>3. QED
                    BY <1>2, <3>1, <4>1, <5>2
            <4>4. QED
                BY <4>2, <4>3
        <3>4. QED
            BY <3>2, <3>3
    <2>4. QED
        BY <2>2, <2>3
<1>7. Below(t, (i + 1) * PacketSize)
    <2>1. ASSUME NEW k \in 1..Len(t) PROVE t[k][2] < start + PacketSize
        <3>1. CASE k \in 1..Len(s)
            <4>1. t[k] = s[k]
                BY <1>3, <3>1
            <4>2. t[k][2] \in Nat /\ t[k][2] < start
                BY <1>5, <3>1, <4>1
            <4>3. QED
                BY <1>2, <4>2
        <3>2. CASE k \notin 1..Len(s)
            <4>1. k - Len(s) \in 1..Len(packet) /\ t[k][2] = start + (k - Len(s)) - 1
                BY <1>4, <3>2
            <4>2. QED
                BY <1>2, <1>len, <4>1
        <3>3. QED
            BY <3>1, <3>2
    <2>2. QED
        BY <1>2, <2>1 DEF Below
<1>8. WholePackets(t, f)
    <2>1. SUFFICES ASSUME NEW k \in 1..Len(t), NEW o \in 0..(fileSize[f] - 1),
                          o \div PacketSize = t[k][2] \div PacketSize
                   PROVE  \E j \in 1..Len(t) : t[j] = <<f, o>>
        BY DEF WholePackets
    <2>2. CASE k \in 1..Len(s)
        <3>1. PICK j \in 1..Len(s) : s[j] = <<f, o>>
            BY <1>3, <2>1, <2>2 DEF WholePackets
        <3>2. j \in 1..Len(t) /\ t[j] = <<f, o>>
            <4>1. j \in 1..Len(t)
                BY <1>len
            <4>2. QED
                BY <1>3, <3>1, <4>1
        <3>3. QED
            BY <3>2
    <2>3. CASE k \notin 1..Len(s)
        <3>1. k - Len(s) \in 1..Len(packet) /\ t[k][2] = start + (k - Len(s)) - 1
            BY <1>4, <2>3
        <3>2. t[k][2] \in Nat /\ i * PacketSize <= t[k][2] /\ t[k][2] < (i + 1) * PacketSize
            <4> DEFINE first == i * PacketSize
                       next  == (i + 1) * PacketSize
                       j     == k - Len(s)
            <4>1. start = first /\ next = start + PacketSize
                BY <1>2 DEF start
            <4>2. j \in 1..Len(packet) /\ t[k][2] = start + j - 1
                BY <3>1
            <4> HIDE DEF first, next, j
            <4>3. t[k][2] \in Nat /\ first <= t[k][2] /\ t[k][2] < next
                BY <1>1, <1>2, <4>1, <4>2
            <4> QED
                BY <4>3 DEF first, next
        <3>3. t[k][2] \div PacketSize = i
            <4>1. PacketSize \in Nat \ {0}
                OBVIOUS
            <4> DEFINE offset == t[k][2]
            <4>2. offset \in Nat /\ i * PacketSize <= offset /\ offset < (i + 1) * PacketSize
                BY <3>2
            <4> HIDE DEF offset
            <4>3. offset \div PacketSize = i
                BY <4>1, <4>2, Quotient
            <4>4. QED
                BY <4>3 DEF offset
        <3>4. start <= o /\ o < start + PacketSize
            <4>1. o \in Nat /\ o \div PacketSize = i /\ PacketSize \in Nat \ {0}
                BY <2>1, <3>3
            <4>2. i * PacketSize <= o /\ o < (i + 1) * PacketSize
                BY <4>1, Quotient
            <4>3. QED
                BY <1>2, <4>2 DEF start
        <3>5. o - start + 1 \in 1..Len(packet) /\ o = start + (o - start + 1) - 1
            <4> DEFINE m == Len(packet)
                       filesize == fileSize[f]
            <4>1. start \in Nat
                BY <1>2
            <4>2. filesize \in Nat /\ o \in 0..(filesize - 1)
                OBVIOUS
            <4>3. m \in Nat /\ (m = PacketSize \/ filesize <= start + m)
                BY <1>1
            <4> HIDE DEF m, filesize
            <4>4. start <= o /\ o < start + m
                BY <3>4, <4>1, <4>2, <4>3
            <4>5. o - start + 1 \in 1..m
                BY <4>1, <4>2, <4>3, <4>4
            <4> QED
                BY <4>1, <4>2, <4>5 DEF m
        <3>6. t[Len(s) + (o - start + 1)] = <<f, o>>
            BY <1>1, <1>3, <3>5
        <3>7. Len(s) + (o - start + 1) \in 1..Len(t)
            BY <1>len, <3>5
        <3>8. QED
            BY <3>6, <3>7
    <2>4. QED
        BY <2>2, <2>3
<1>9. QED
    BY <1>3, <1>6, <1>7, <1>8 DEF t, packet

(* ... and, when nothing was missing, leaves nothing out. *)
LEMMA NextBytesAppended ==
    ASSUME NEW f \in Files, NEW i \in Nat, fileSize[f] \in Nat, NEW s \in Seq(Bytes),
           FirstBytes(s, f, UpTo(f, i))
    PROVE  FirstBytes(s \o PacketBytes(f, i), f, UpTo(f, i + 1))
<1> USE Sizes
<1> DEFINE packet == PacketBytes(f, i)
           t == s \o packet
           start == i * PacketSize
<1>1. /\ packet \in Seq(Bytes) /\ Len(packet) \in Nat /\ Len(packet) <= PacketSize
      /\ start + Len(packet) <= fileSize[f] \/ Len(packet) = 0
      /\ Len(packet) = PacketSize \/ fileSize[f] <= start + Len(packet)
      /\ \A k \in 1..Len(packet) : packet[k] = <<f, start + k - 1>>
    BY PacketContent
<1>2. start \in Nat /\ (i + 1) * PacketSize = start + PacketSize
    OBVIOUS
<1>3. UpTo(f, i) = IF start < fileSize[f] THEN start ELSE fileSize[f]
    BY DEF UpTo
<1>4. UpTo(f, i + 1) = IF start + PacketSize < fileSize[f] THEN start + PacketSize ELSE fileSize[f]
    BY <1>2 DEF UpTo
<1> HIDE DEF packet, start
<1>len. /\ Len(t) = Len(s) + Len(packet) /\ Len(s) \in Nat /\ Len(packet) \in Nat
        /\ Len(packet) <= PacketSize
        /\ start + Len(packet) <= fileSize[f] \/ Len(packet) = 0
        /\ Len(packet) = PacketSize \/ fileSize[f] <= start + Len(packet)
    BY <1>1, Concatenates
<1>5. /\ t \in Seq(Bytes) /\ Len(t) = Len(s) + Len(packet) /\ Len(s) \in Nat
      /\ \A k \in 1..Len(s) : t[k] = s[k]
      /\ \A k \in 1..Len(packet) : t[Len(s) + k] = packet[k]
    BY <1>1, Concatenates
<1> HIDE DEF t
<1>6. Len(s) = UpTo(f, i) /\ \A k \in 1..Len(s) : s[k] = <<f, k - 1>>
    BY DEF FirstBytes
<1>7. Len(t) = UpTo(f, i + 1) /\ (Len(packet) > 0 => Len(s) = start)
    <2>1. Len(s) = IF start < fileSize[f] THEN start ELSE fileSize[f]
        BY <1>3, <1>6
    <2> DEFINE size == fileSize[f]
               n == Len(packet)
    <2>2. size \in Nat /\ start \in Nat /\ n \in Nat /\ PacketSize \in Nat /\ PacketSize > 0
        BY <1>len, <1>2
    <2>3. (start + n <= size \/ n = 0) /\ (n = PacketSize \/ size <= start + n) /\ n <= PacketSize
        BY <1>len
    <2>4. Len(t) = Len(s) + n
        BY <1>len
    <2>5. Len(s) = IF start < size THEN start ELSE size
        BY <2>1
    <2> HIDE DEF size, n
    <2>6. (IF start < size THEN start ELSE size) + n
              = (IF start + PacketSize < size THEN start + PacketSize ELSE size)
        BY <2>2, <2>3
    <2>7. n > 0 => start < size \/ start = size
        BY <2>2, <2>3
    <2>8. n > 0 => Len(s) = start
        BY <2>5, <2>7
    <2>9. Len(t) = IF start + PacketSize < size THEN start + PacketSize ELSE size
        BY <2>4, <2>5, <2>6
    <2>10. QED
        BY <1>4, <2>8, <2>9 DEF size, n
<1>8. ASSUME NEW k \in 1..Len(t) PROVE t[k] = <<f, k - 1>>
    <2>1. CASE k \in 1..Len(s)
        BY <1>5, <1>6, <2>1
    <2>2. CASE k \notin 1..Len(s)
        <3>1. k - Len(s) \in 1..Len(packet) /\ k = Len(s) + (k - Len(s)) /\ Len(packet) > 0
            BY <1>len, <2>2
        <3>2. t[k] = <<f, start + (k - Len(s)) - 1>>
            BY <1>1, <1>5, <3>1
        <3>3. start + (k - Len(s)) - 1 = k - 1
            <4>1. Len(s) = start /\ k \in Int
                BY <1>7, <3>1
            <4>2. QED
                BY <1>2, <4>1
        <3>4. QED
            BY <3>2, <3>3
    <2>3. QED
        BY <2>1, <2>2
<1>9. QED
    BY <1>7, <1>8 DEF FirstBytes, t, packet

-----------------------------------------------------------------------------
(* What an answer says *)

LEMMA NameFacts ==
    ASSUME NEW f \in Files, NEW g \in Files, NEW i, NEW j
    PROVE  /\ NumberOf(f) # PacketOf(g, i)
           /\ NumberOf(f) = NumberOf(g) <=> f = g
           /\ PacketOf(f, i) = PacketOf(g, j) <=> f = g /\ i = j
    BY DEF NumberOf, PacketOf

LEMMA NumberArrives ==
    ASSUME Types, Waits, Answers, NEW u \in Users, OnRequestNumberArrive(u)
    PROVE  /\ pc[u] = "predownload" /\ index[u] = 0 /\ pending[u] # NoName
           /\ current[u] \in Files /\ fileSize[current[u]] \in FileSizes
           /\ m_nSegNumber' = SegNumber(fileSize[current[u]])
<1>1. PICK d \in data : d.name = pending[u] /\ d.name = NumberOf(current[u]) /\ m_nSegNumber' = d.content
    BY DEF OnRequestNumberArrive
<1>2. current[u] \in Files /\ fileSize[current[u]] \in FileSizes /\ d.name \in Names
    BY <1>1 DEF Types, TypeOK
<1>3. pending[u] # NoName
    BY <1>1, <1>2, Constants
<1>4. pc[u] = "predownload" /\ pending[u] = LastRequest(u)
    BY <1>3 DEF Waits
<1>5. index[u] = 0
    <2>1. NumberOf(current[u]) # PacketOf(current[u], index[u] - 1)
        BY <1>2, NameFacts
    <2>2. QED
        BY <1>1, <1>4, <2>1 DEF LastRequest
<1>6. d = NumberAnswer(current[u])
    <2>1. PICK f \in Files :
             d = NumberAnswer(f) \/ \E i \in 0..(WordModulus - 1) : d = PacketAnswer(f, i)
        BY DEF Answers
    <2>2. d = NumberAnswer(f)
        BY <1>1, <1>2, <2>1, NameFacts DEF PacketAnswer
    <2>3. f = current[u]
        BY <1>1, <1>2, <2>2, NameFacts DEF NumberAnswer
    <2>4. QED
        BY <2>2, <2>3
<1>7. QED
    BY <1>1, <1>2, <1>3, <1>4, <1>5, <1>6 DEF NumberAnswer

LEMMA DataArrives ==
    ASSUME Types, Waits, Answers, NEW u \in Users, OnRequestDataArrive(u)
    PROVE  /\ pc[u] = "predownload" /\ index[u] > 0 /\ pending[u] # NoName
           /\ index[u] \in Nat /\ index[u] - 1 \in Nat
           /\ current[u] \in Files /\ fileSize[current[u]] \in Nat
           /\ m_segBuffer' = m_segBuffer \o PacketBytes(current[u], index[u] - 1)
<1>1. PICK d \in data : /\ d.name = pending[u] /\ d.name # NumberOf(current[u])
                        /\ m_segBuffer' = m_segBuffer \o d.content
    BY DEF OnRequestDataArrive
<1>2. /\ current[u] \in Files /\ fileSize[current[u]] \in FileSizes /\ d.name \in Names
      /\ index[u] \in Nat
    BY <1>1, Sizes DEF Types, TypeOK
<1>3. pending[u] # NoName
    BY <1>1, <1>2, Constants
<1>4. pc[u] = "predownload" /\ pending[u] = LastRequest(u)
    BY <1>3 DEF Waits
<1>5. index[u] # 0 /\ d.name = PacketOf(current[u], index[u] - 1)
    BY <1>1, <1>4 DEF LastRequest
<1>6. d = PacketAnswer(current[u], index[u] - 1) /\ fileSize[current[u]] > 0
    <2>1. PICK f \in Files :
             \/ d = NumberAnswer(f)
             \/ fileSize[f] > 0 /\ \E i \in 0..(WordModulus - 1) : d = PacketAnswer(f, i)
        BY DEF Answers
    <2>2. d # NumberAnswer(f)
        BY <1>2, <1>5, NameFacts DEF NumberAnswer
    <2>3. PICK i \in 0..(WordModulus - 1) : d = PacketAnswer(f, i)
        BY <2>1, <2>2
    <2>4. f = current[u] /\ i = index[u] - 1
        BY <1>2, <1>5, <2>3, NameFacts DEF PacketAnswer
    <2>5. QED
        BY <2>1, <2>2, <2>3, <2>4
<1>7. fileSize[current[u]] \in Nat
    <2>1. fileSize[current[u]] \in -1..WordModulus - 1 /\ fileSize[current[u]] > 0
        BY <1>2, <1>6, Constants
    <2>2. QED
        BY <2>1, Sizes
<1>8. QED
    BY <1>1, <1>2, <1>3, <1>4, <1>5, <1>6, <1>7 DEF PacketAnswer

-----------------------------------------------------------------------------
(* Types *)

NetworkType ==
    /\ fileSize \in [Files -> FileSizes] /\ serverUp \in BOOLEAN
    /\ interests \subseteq Names
    /\ pending \in [Users -> interests \cup {NoName}]
    /\ \A d \in data : d.name \in interests

ConsumerType ==
    /\ m_nSegNumber \in 0..WordModulus
    /\ m_segBuffer \in Seq(Bytes) /\ m_readBufferSize \in 0..Len(m_segBuffer)

ThreadType ==
    /\ pc \in [Users -> {"idle", "predownload", "read", "done"}]
    /\ index \in [Users -> 0..WordModulus]
    /\ current \in [Users -> Files]
    /\ downloads \in [Users -> 0..MaxDownloads]

HistoryType == missed \in [Users -> BOOLEAN] /\ shared \in [Users -> BOOLEAN]

DeliveredType == delivered \in [Users -> Seq(Bytes)]

LEMMA TypeParts ==
    Types <=> NetworkType /\ ConsumerType /\ ThreadType /\ HistoryType /\ DeliveredType
    BY DEF Types, TypeOK, NetworkType, ConsumerType, ThreadType, HistoryType, DeliveredType

LEMMA Requests ==
    ASSUME NetworkType, NEW u \in Users, NEW name \in Names, ExpressInterest(u, name),
           UNCHANGED <<fileSize, serverUp, data>>
    PROVE  NetworkType'
    BY DEF NetworkType, ExpressInterest

LEMMA NetworkTypeStep == Types /\ [Next]_vars => NetworkType'
<1> SUFFICES ASSUME NetworkType, ThreadType, ConsumerType, [Next]_vars PROVE NetworkType'
    BY TypeParts
<1>1. ASSUME UNCHANGED <<fileSize, serverUp, interests, pending, data>> PROVE NetworkType'
    BY <1>1 DEF NetworkType
<1>2. CASE UNCHANGED vars
    BY <1>1, <1>2
<1>3. ASSUME NEW f \in Files, OnRequestSegNumber(f) PROVE NetworkType'
    BY <1>3 DEF OnRequestSegNumber, NetworkType
<1>4. ASSUME NEW f \in Files, NEW i \in 0..(WordModulus - 1), OnRequestSegData(f, i) PROVE NetworkType'
    BY <1>4 DEF OnRequestSegData, NetworkType
<1>5. ASSUME NEW f \in Files, NEW i \in 0..(WordModulus - 1), OnRequestBeyondEnd(f, i)
      PROVE  NetworkType'
    BY <1>5 DEF OnRequestBeyondEnd, NetworkType
<1>6. ASSUME NEW u \in Users, PreDownload(u) PROVE NetworkType'
    <2>1. PICK f \in Files : ExpressInterest(u, NumberOf(f))
        BY <1>6 DEF PreDownload
    <2>2. NumberOf(f) \in Names
        BY DEF Names
    <2>3. QED
        BY <1>6, <2>1, <2>2, Requests DEF PreDownload
<1>7. ASSUME NEW u \in Users, GetRequestData(u) PROVE NetworkType'
    <2>1. index[u] < m_nSegNumber /\ ExpressInterest(u, PacketOf(current[u], index[u]))
        BY <1>7 DEF GetRequestData
    <2>2. index[u] \in 0..(WordModulus - 1) /\ current[u] \in Files
        BY <2>1, Sizes DEF ThreadType, ConsumerType
    <2>3. PacketOf(current[u], index[u]) \in Names
        BY <2>2 DEF Names
    <2>4. QED
        BY <1>7, <2>1, <2>3, Requests DEF GetRequestData
<1>8. ASSUME NEW u \in Users, Callback(u) \/ ProcessEventsThrows(u) PROVE NetworkType'
    BY <1>8 DEF Callback, OnRequestNumberArrive, OnRequestDataArrive, OnTimeout,
                ProcessEventsThrows, NetworkType
<1>9. ASSUME NEW u \in Users, StartReading(u) \/ Read(u) \/ ReadNothing(u) \/ StopReading(u)
      PROVE  NetworkType'
    BY <1>1, <1>9 DEF StartReading, Read, ReadNothing, StopReading
<1>10. QED
    BY <1>2, <1>3, <1>4, <1>5, <1>6, <1>7, <1>8, <1>9 DEF Next, OnInterest, Consume

(* What one call of Read hands over. *)
ReadLen == Min({BlockSize, Len(m_segBuffer) - m_readBufferSize})

LEMMA ReadsBlock ==
    ASSUME ConsumerType, DeliveredType, NEW u \in Users, Read(u)
    PROVE  LET block == SubSeq(m_segBuffer, m_readBufferSize + 1, m_readBufferSize + ReadLen)
           IN /\ ReadLen \in Nat /\ m_readBufferSize \in Nat /\ Len(m_segBuffer) \in Nat
              /\ m_readBufferSize' = m_readBufferSize + ReadLen
              /\ m_readBufferSize' <= Len(m_segBuffer)
              /\ block \in Seq(Bytes) /\ Len(block) = ReadLen
              /\ \A k \in 1..ReadLen : block[k] = m_segBuffer[m_readBufferSize + k]
              /\ delivered' = [delivered EXCEPT ![u] = delivered[u] \o block]
<1> DEFINE block == SubSeq(m_segBuffer, m_readBufferSize + 1, m_readBufferSize + ReadLen)
           rest == Len(m_segBuffer) - m_readBufferSize
<1>1. /\ m_readBufferSize \in Nat /\ Len(m_segBuffer) \in Nat
      /\ rest \in Nat /\ rest > 0 /\ BlockSize \in Nat /\ BlockSize > 0
    BY Constants DEF ConsumerType, Read
<1>2. ReadLen \in Nat /\ ReadLen <= rest
    <2>1. ReadLen = IF rest < BlockSize THEN rest ELSE BlockSize
        BY <1>1 DEF ReadLen, Min
    <2>2. QED
        BY <1>1, <2>1
<1>3. m_readBufferSize + ReadLen <= Len(m_segBuffer)
    BY <1>1, <1>2
<1>4. \A k \in (m_readBufferSize + 1)..(m_readBufferSize + ReadLen) : m_segBuffer[k] \in Bytes
    <2>1. \A k \in (m_readBufferSize + 1)..(m_readBufferSize + ReadLen) : k \in 1..Len(m_segBuffer)
        BY <1>1, <1>2, <1>3
    <2>2. QED
        BY <2>1 DEF ConsumerType
<1>5. /\ block \in Seq(Bytes) /\ Len(block) = ReadLen
      /\ \A k \in 1..ReadLen : block[k] = m_segBuffer[m_readBufferSize + k]
    <2> DEFINE first == m_readBufferSize + 1
               last  == m_readBufferSize + ReadLen
    <2>1. first \in Int /\ last \in Int /\ last - first + 1 = ReadLen
          /\ (IF first <= last THEN last - first + 1 ELSE 0) = ReadLen
        BY <1>1, <1>2
    <2>2. /\ SubSeq(m_segBuffer, first, last) \in Seq(Bytes)
          /\ Len(SubSeq(m_segBuffer, first, last)) = IF first <= last THEN last - first + 1 ELSE 0
          /\ \A k \in 1..last - first + 1 :
                SubSeq(m_segBuffer, first, last)[k] = m_segBuffer[first + k - 1]
        <3> HIDE DEF first, last
        <3>1. \A k \in first..last : m_segBuffer[k] \in Bytes
            BY <1>4 DEF first, last
        <3>2. QED
            BY <2>1, <3>1, SubSeqProperties
    <2>3. \A k \in 1..ReadLen : first + k - 1 = m_readBufferSize + k
        BY <1>1, <1>2
    <2>4. QED
        BY <2>1, <2>2, <2>3
<1>6. QED
    BY <1>1, <1>2, <1>3, <1>5 DEF Read, ReadLen

LEMMA ConsumerTypeStep == Types /\ Waits /\ Answers /\ [Next]_vars => ConsumerType'
<1> SUFFICES ASSUME Types, ConsumerType, DeliveredType, Waits, Answers, [Next]_vars PROVE ConsumerType'
    BY TypeParts
<1>1. ASSUME UNCHANGED consumerVars PROVE ConsumerType'
    BY <1>1 DEF ConsumerType
<1>2. CASE UNCHANGED vars
    BY <1>1, <1>2
<1>3. CASE OnInterest
    BY <1>1, <1>3 DEF OnInterest, OnRequestSegNumber, OnRequestSegData, OnRequestBeyondEnd
<1>4. ASSUME NEW u \in Users, PreDownload(u) PROVE ConsumerType'
    <2>1. m_segBuffer' = <<>> /\ m_readBufferSize' = 0 /\ UNCHANGED m_nSegNumber
        BY <1>4 DEF PreDownload, ResetSegBuffer
    <2>2. m_segBuffer' \in Seq(Bytes) /\ Len(m_segBuffer') = 0
        BY <2>1
    <2>3. QED
        BY <2>1, <2>2 DEF ConsumerType
<1>5. ASSUME NEW u \in Users, OnRequestNumberArrive(u) PROVE ConsumerType'
    <2>1. m_nSegNumber' \in 0..WordModulus
        BY <1>5, NumberArrives, NumberCovers, Constants
    <2>2. QED
        BY <1>5, <2>1 DEF OnRequestNumberArrive, ConsumerType
<1>6. ASSUME NEW u \in Users, OnRequestDataArrive(u) PROVE ConsumerType'
    <2> DEFINE packet == PacketBytes(current[u], index[u] - 1)
    <2>1. /\ packet \in Seq(Bytes) /\ Len(packet) \in Nat /\ m_segBuffer' = m_segBuffer \o packet
        <3>1. /\ current[u] \in Files /\ fileSize[current[u]] \in Nat /\ index[u] - 1 \in Nat
              /\ m_segBuffer' = m_segBuffer \o packet
            BY <1>6, DataArrives
        <3>2. packet \in Seq(Bytes)
            BY <3>1, PacketContent
        <3>3. QED
            BY <3>1, <3>2
    <2> HIDE DEF packet
    <2>2. m_segBuffer' \in Seq(Bytes) /\ Len(m_segBuffer') = Len(m_segBuffer) + Len(packet)
        BY <2>1, Concatenates DEF ConsumerType
    <2>3. m_readBufferSize' \in 0..Len(m_segBuffer')
        BY <1>6, <2>1, <2>2 DEF ConsumerType, OnRequestDataArrive
    <2>4. QED
        BY <1>6, <2>2, <2>3 DEF OnRequestDataArrive, ConsumerType
<1>7. ASSUME NEW u \in Users, OnTimeout(u) PROVE ConsumerType'
    BY <1>7, Sizes DEF OnTimeout, ConsumerType
<1>8. ASSUME NEW u \in Users, Read(u) PROVE ConsumerType'
    <2>1. m_readBufferSize' \in 0..Len(m_segBuffer) /\ UNCHANGED <<m_segBuffer, m_nSegNumber>>
        <3>1. /\ ReadLen \in Nat /\ m_readBufferSize \in Nat /\ Len(m_segBuffer) \in Nat
              /\ m_readBufferSize' = m_readBufferSize + ReadLen
              /\ m_readBufferSize' <= Len(m_segBuffer)
            BY <1>8, ReadsBlock
        <3>2. QED
            BY <1>8, <3>1 DEF Read
    <2>2. QED
        BY <2>1 DEF ConsumerType
<1>9. ASSUME NEW u \in Users,
             GetRequestData(u) \/ StartReading(u) \/ ReadNothing(u) \/ StopReading(u)
             \/ ProcessEventsThrows(u)
      PROVE  ConsumerType'
    BY <1>1, <1>9 DEF GetRequestData, StartReading, ReadNothing, StopReading, ProcessEventsThrows
<1>10. QED
    BY <1>2, <1>3, <1>4, <1>5, <1>6, <1>7, <1>8, <1>9 DEF Next, Consume, Callback

LEMMA ThreadTypeStep == Types /\ [Next]_vars => ThreadType'
<1> SUFFICES ASSUME ThreadType, ConsumerType, [Next]_vars PROVE ThreadType'
    BY TypeParts
<1> USE DEF ThreadType
<1>1. ASSUME UNCHANGED <<pc, index, current, downloads>> PROVE ThreadType'
    BY <1>1
<1>2. CASE UNCHANGED vars
    BY <1>1, <1>2
<1>3. CASE OnInterest
    BY <1>1, <1>3 DEF OnInterest, OnRequestSegNumber, OnRequestSegData, OnRequestBeyondEnd
<1>4. ASSUME NEW u \in Users, PreDownload(u) PROVE ThreadType'
    <2>1. downloads' \in [Users -> 0..MaxDownloads]
        <3>1. downloads[u] + 1 \in 0..MaxDownloads
            BY <1>4, Constants DEF PreDownload
        <3>2. QED
            BY <1>4, <3>1 DEF PreDownload
    <2>2. current' \in [Users -> Files] /\ pc' \in [Users -> {"idle", "predownload", "read", "done"}]
        BY <1>4 DEF PreDownload
    <2>3. index' \in [Users -> 0..WordModulus]
        BY <1>4, Sizes DEF PreDownload
    <2>4. QED
        BY <2>1, <2>2, <2>3
<1>5. ASSUME NEW u \in Users, GetRequestData(u) PROVE ThreadType'
    <2>1. index[u] + 1 \in 0..WordModulus
        BY <1>5, Sizes DEF GetRequestData, ConsumerType
    <2>2. index' = [index EXCEPT ![u] = index[u] + 1] /\ UNCHANGED <<pc, current, downloads>>
        BY <1>5 DEF GetRequestData
    <2>3. QED
        BY <2>1, <2>2
<1>6. ASSUME NEW u \in Users,
             StartReading(u) \/ ReadNothing(u) \/ StopReading(u) \/ ProcessEventsThrows(u)
      PROVE  ThreadType'
    BY <1>6 DEF StartReading, ReadNothing, StopReading, ProcessEventsThrows
<1>7. ASSUME NEW u \in Users, Callback(u) \/ Read(u) PROVE ThreadType'
    BY <1>1, <1>7 DEF Callback, OnRequestNumberArrive, OnRequestDataArrive, OnTimeout, Read
<1>8. QED
    BY <1>2, <1>3, <1>4, <1>5, <1>6, <1>7 DEF Next, Consume

LEMMA HistoryTypeStep == Types /\ [Next]_vars => HistoryType'
<1> SUFFICES ASSUME HistoryType, [Next]_vars PROVE HistoryType'
    BY TypeParts
<1> USE DEF HistoryType
<1>1. ASSUME UNCHANGED <<missed, shared>> PROVE HistoryType'
    BY <1>1
<1>2. CASE UNCHANGED vars
    BY <1>1, <1>2
<1>3. CASE OnInterest
    BY <1>1, <1>3 DEF OnInterest, OnRequestSegNumber, OnRequestSegData, OnRequestBeyondEnd
<1>4. ASSUME NEW u \in Users, PreDownload(u) PROVE HistoryType'
    <2>1. \A v \in Users : (IF v = u THEN Downloading # {} ELSE shared[v] \/ v \in Downloading) \in BOOLEAN
        OBVIOUS
    <2>2. QED
        BY <1>4, <2>1 DEF PreDownload
<1>5. ASSUME NEW u \in Users, ProcessEventsThrows(u) \/ OnTimeout(u) PROVE HistoryType'
    BY <1>5 DEF ProcessEventsThrows, OnTimeout
<1>6. ASSUME NEW u \in Users, OnRequestNumberArrive(u) \/ OnRequestDataArrive(u) \/ Consume(u)
                              \/ StopReading(u)
      PROVE  HistoryType'
    BY <1>1, <1>6 DEF OnRequestNumberArrive, OnRequestDataArrive, Consume, GetRequestData,
                      StartReading, Read, ReadNothing, StopReading
<1>7. QED
    BY <1>2, <1>3, <1>4, <1>5, <1>6 DEF Next, Callback

LEMMA DeliveredTypeStep == Types /\ [Next]_vars => DeliveredType'
<1> SUFFICES ASSUME DeliveredType, ConsumerType, [Next]_vars PROVE DeliveredType'
    BY TypeParts
<1>1. ASSUME UNCHANGED delivered PROVE DeliveredType'
    BY <1>1 DEF DeliveredType
<1>2. CASE UNCHANGED vars
    BY <1>1, <1>2
<1>3. CASE OnInterest
    BY <1>1, <1>3 DEF OnInterest, OnRequestSegNumber, OnRequestSegData, OnRequestBeyondEnd
<1>4. ASSUME NEW u \in Users, PreDownload(u) PROVE DeliveredType'
    <2>1. delivered' = [delivered EXCEPT ![u] = <<>>]
        BY <1>4 DEF PreDownload
    <2>2. <<>> \in Seq(Bytes)
        OBVIOUS
    <2>3. QED
        BY <2>1, <2>2 DEF DeliveredType
<1>5. ASSUME NEW u \in Users, Read(u) PROVE DeliveredType'
    <2> DEFINE block == SubSeq(m_segBuffer, m_readBufferSize + 1, m_readBufferSize + ReadLen)
    <2>1. block \in Seq(Bytes) /\ delivered' = [delivered EXCEPT ![u] = delivered[u] \o block]
        BY <1>5, ReadsBlock
    <2> HIDE DEF block
    <2>2. delivered[u] \o block \in Seq(Bytes)
        BY <2>1, Concatenates DEF DeliveredType
    <2>3. QED
        BY <2>1, <2>2 DEF DeliveredType
<1>6. ASSUME NEW u \in Users, Callback(u) \/ GetRequestData(u) \/ StartReading(u) \/ ReadNothing(u)
                              \/ StopReading(u) \/ ProcessEventsThrows(u)
      PROVE  DeliveredType'
    BY <1>1, <1>6 DEF Callback, OnRequestNumberArrive, OnRequestDataArrive, OnTimeout,
                GetRequestData, StartReading, ReadNothing, StopReading, ProcessEventsThrows
<1>7. QED
    BY <1>2, <1>3, <1>4, <1>5, <1>6 DEF Next, Consume

LEMMA TypesStep == IInv /\ [Next]_vars => Types'
<1> SUFFICES ASSUME IInv, [Next]_vars PROVE Types'
    OBVIOUS
<1>1. NetworkType' /\ ConsumerType' /\ ThreadType' /\ HistoryType' /\ DeliveredType'
    BY NetworkTypeStep, ConsumerTypeStep, ThreadTypeStep, HistoryTypeStep, DeliveredTypeStep DEF IInv
<1>2. QED
    BY <1>1 DEF Types, TypeOK, NetworkType, ConsumerType, ThreadType, HistoryType, DeliveredType

-----------------------------------------------------------------------------
(* The network and the face *)

LEMMA WaitsStep == Types /\ Waits /\ [Next]_vars => Waits'
<1> SUFFICES ASSUME NetworkType, ThreadType, Waits, [Next]_vars PROVE Waits'
    BY TypeParts
<1>1. ASSUME UNCHANGED <<pending, pc, index, current>> PROVE Waits'
    BY <1>1 DEF Waits, LastRequest, NumberOf, PacketOf
<1>2. CASE UNCHANGED vars
    BY <1>1, <1>2
<1>3. CASE OnInterest
    BY <1>1, <1>3 DEF OnInterest, OnRequestSegNumber, OnRequestSegData, OnRequestBeyondEnd
<1>4. ASSUME NEW u \in Users, PreDownload(u) PROVE Waits'
    <2>1. PICK f \in Files : /\ current' = [current EXCEPT ![u] = f]
                             /\ pending' = [pending EXCEPT ![u] = NumberOf(f)]
        BY <1>4 DEF PreDownload, ExpressInterest
    <2>2. /\ pc' = [pc EXCEPT ![u] = "predownload"] /\ index' = [index EXCEPT ![u] = 0]
        BY <1>4 DEF PreDownload
    <2>3. SUFFICES ASSUME NEW v \in Users, pending'[v] # NoName
                   PROVE  pc'[v] = "predownload" /\ pending'[v] = LastRequest(v)'
        BY DEF Waits
    <2>4. CASE v = u
        BY <2>1, <2>2, <2>4 DEF LastRequest, NumberOf, NetworkType, ThreadType
    <2>5. CASE v # u
        BY <2>1, <2>2, <2>3, <2>5 DEF Waits, LastRequest, NumberOf, PacketOf, NetworkType, ThreadType
    <2>6. QED
        BY <2>4, <2>5
<1>5. ASSUME NEW u \in Users, GetRequestData(u) PROVE Waits'
    <2>1. /\ pending' = [pending EXCEPT ![u] = PacketOf(current[u], index[u])]
          /\ index' = [index EXCEPT ![u] = index[u] + 1] /\ UNCHANGED <<pc, current>>
          /\ pc[u] = "predownload"
        BY <1>5 DEF GetRequestData, ProcessedEvents, ExpressInterest
    <2>2. index[u] \in Nat
        BY Sizes DEF ThreadType
    <2>3. SUFFICES ASSUME NEW v \in Users, pending'[v] # NoName
                   PROVE  pc'[v] = "predownload" /\ pending'[v] = LastRequest(v)'
        BY DEF Waits
    <2>4. CASE v = u
        <3>1. index'[u] # 0 /\ index'[u] - 1 = index[u]
            BY <2>1, <2>2 DEF ThreadType
        <3>2. pending'[u] = PacketOf(current[u], index[u])
            BY <2>1 DEF NetworkType
        <3>3. QED
            BY <2>1, <2>4, <3>1, <3>2 DEF LastRequest, PacketOf
    <2>5. CASE v # u
        BY <2>1, <2>3, <2>5 DEF Waits, LastRequest, NumberOf, PacketOf, NetworkType, ThreadType
    <2>6. QED
        BY <2>4, <2>5
<1>6. ASSUME NEW u \in Users, StartReading(u) \/ ProcessEventsThrows(u) PROVE Waits'
    BY <1>6 DEF StartReading, ProcessedEvents, ProcessEventsThrows, Waits
<1>7. ASSUME NEW u \in Users, ReadNothing(u) \/ StopReading(u) PROVE Waits'
    <2>1. /\ pc[u] # "predownload" /\ UNCHANGED <<pending, index, current>>
          /\ \A v \in Users : v # u => pc'[v] = pc[v]
        BY <1>7 DEF ReadNothing, StopReading, ThreadType
    <2>2. QED
        BY <2>1 DEF Waits, LastRequest, NumberOf, PacketOf
<1>8. ASSUME NEW u \in Users, Callback(u) PROVE Waits'
    <2>1. pending' = [pending EXCEPT ![u] = NoName] /\ UNCHANGED <<pc, index, current>>
        BY <1>8 DEF Callback, OnRequestNumberArrive, OnRequestDataArrive, OnTimeout
    <2>2. \A v \in Users : pending'[v] = NoName \/ pending'[v] = pending[v]
        BY <2>1 DEF NetworkType
    <2>3. QED
        BY <2>1, <2>2 DEF Waits, LastRequest, NumberOf, PacketOf
<1>9. ASSUME NEW u \in Users, Read(u) PROVE Waits'
    BY <1>1, <1>9 DEF Read
<1>10. QED
    BY <1>2, <1>3, <1>4, <1>5, <1>6, <1>7, <1>8, <1>9 DEF Next, Consume

LEMMA AnswersStep == Types /\ Answers /\ [Next]_vars => Answers'
<1> SUFFICES ASSUME Answers, [Next]_vars PROVE Answers'
    OBVIOUS
<1>1. UNCHANGED fileSize
    BY DEF Next, OnInterest, OnRequestSegNumber, OnRequestSegData, OnRequestBeyondEnd,
           PreDownload, Consume, GetRequestData, StartReading, Read, ReadNothing, Callback,
           OnRequestNumberArrive, OnRequestDataArrive, OnTimeout, ProcessEventsThrows, StopReading
<1>2. \A f \in Files : /\ NumberAnswer(f)' = NumberAnswer(f)
                       /\ \A i \in 0..(WordModulus - 1) : PacketAnswer(f, i)' = PacketAnswer(f, i)
    BY <1>1 DEF NumberAnswer, PacketAnswer, PacketBytes, NumberOf, PacketOf, SegNumber
<1>3. ASSUME NEW d,
             \E f \in Files :
                \/ d = NumberAnswer(f)
                \/ fileSize[f] > 0 /\ \E i \in 0..(WordModulus - 1) : d = PacketAnswer(f, i)
      PROVE  \E f \in Files :
                \/ d = NumberAnswer(f)'
                \/ fileSize'[f] > 0 /\ \E i \in 0..(WordModulus - 1) : d = PacketAnswer(f, i)'
    BY <1>1, <1>2, <1>3
<1>4. ASSUME data' \subseteq data PROVE Answers'
    BY <1>3, <1>4 DEF Answers
<1>5. ASSUME NEW f \in Files, OnRequestSegNumber(f) PROVE Answers'
    <2>1. data' = data \cup {NumberAnswer(f)}
        BY <1>5 DEF OnRequestSegNumber, NumberAnswer
    <2>2. QED
        BY <1>3, <2>1 DEF Answers
<1>6. ASSUME NEW f \in Files, NEW i \in 0..(WordModulus - 1), OnRequestSegData(f, i) PROVE Answers'
    <2>1. data' = data \cup {PacketAnswer(f, i)} /\ fileSize[f] > 0
        BY <1>6 DEF OnRequestSegData, PacketAnswer
    <2>2. QED
        BY <1>3, <2>1 DEF Answers
<1>7. CASE \/ UNCHANGED vars
           \/ \E f \in Files, i \in 0..(WordModulus - 1) : OnRequestBeyondEnd(f, i)
           \/ \E u \in Users : PreDownload(u) \/ Consume(u) \/ Callback(u) \/ ProcessEventsThrows(u)
                               \/ StopReading(u)
    BY <1>4, <1>7 DEF OnRequestBeyondEnd, PreDownload, Consume, GetRequestData, StartReading,
           Read, ReadNothing, Callback, OnRequestNumberArrive, OnRequestDataArrive, OnTimeout,
           ProcessEventsThrows, StopReading
<1>8. QED
    BY <1>5, <1>6, <1>7 DEF Next, OnInterest

-----------------------------------------------------------------------------
(* A thread that has the connection to itself *)

LEMMA AloneStep == Types /\ Alone /\ [Next]_vars => Alone'
<1> SUFFICES ASSUME ThreadType, HistoryType, Alone, [Next]_vars PROVE Alone'
    BY TypeParts
<1>1. ASSUME UNCHANGED <<pc, shared>> PROVE Alone'
    BY <1>1 DEF Alone, Downloading
<1>2. CASE UNCHANGED vars
    BY <1>1, <1>2
<1>3. CASE OnInterest
    BY <1>1, <1>3 DEF OnInterest, OnRequestSegNumber, OnRequestSegData, OnRequestBeyondEnd
<1>4. ASSUME NEW u \in Users, PreDownload(u) PROVE Alone'
    <2>1. Downloading' = Downloading \cup {u}
        BY <1>4 DEF PreDownload, Downloading, ThreadType
    <2>2. \A v \in Users : shared'[v] = IF v = u THEN Downloading # {} ELSE shared[v] \/ v \in Downloading
        BY <1>4 DEF PreDownload
    <2>3. SUFFICES ASSUME NEW v \in Downloading', ~shared'[v] PROVE Downloading' = {v}
        BY DEF Alone
    <2>4. v \in Users
        BY <2>3 DEF Downloading
    <2>5. v = u
        BY <2>1, <2>2, <2>3, <2>4
    <2>6. QED
        BY <2>1, <2>2, <2>3, <2>4, <2>5
<1>5. ASSUME NEW u \in Users, StartReading(u) \/ ProcessEventsThrows(u) PROVE Alone'
    <2>1. Downloading' = Downloading /\ UNCHANGED shared
        BY <1>5 DEF StartReading, ProcessedEvents, ProcessEventsThrows, Downloading, ThreadType
    <2>2. QED
        BY <2>1 DEF Alone
<1>6. ASSUME NEW u \in Users, ReadNothing(u) \/ StopReading(u) PROVE Alone'
    <2>1. Downloading' = Downloading \ {u} /\ UNCHANGED shared
        BY <1>6 DEF ReadNothing, StopReading, Downloading, ThreadType
    <2>2. QED
        BY <2>1 DEF Alone
<1>7. ASSUME NEW u \in Users, GetRequestData(u) \/ Read(u) \/ Callback(u) PROVE Alone'
    BY <1>1, <1>7 DEF GetRequestData, Read, Callback, OnRequestNumberArrive, OnRequestDataArrive,
                OnTimeout
<1>8. QED
    BY <1>2, <1>3, <1>4, <1>5, <1>6, <1>7 DEF Next, Consume

(* While it has, the others neither wait nor read: the steps are its own. *)
LEMMA OwnSteps ==
    ASSUME Types, Waits, Answers, Alone, NEW u \in Users, NEW w \in Downloading, ~shared[w],
           Consume(u) \/ Callback(u) \/ ProcessEventsThrows(u) \/ StopReading(u)
    PROVE  u = w
<1>1. u \in Downloading
    <2>1. pending[u] # NoName => pc[u] = "predownload"
        BY DEF Waits
    <2>2. CASE OnRequestNumberArrive(u)
        BY <2>2, NumberArrives DEF Downloading
    <2>3. CASE OnRequestDataArrive(u)
        BY <2>3, DataArrives DEF Downloading
    <2>4. CASE OnTimeout(u)
        BY <2>1, <2>4 DEF OnTimeout, Downloading
    <2>5. CASE Consume(u) \/ ProcessEventsThrows(u) \/ StopReading(u)
        BY <2>5 DEF Consume, GetRequestData, StartReading, Read, ReadNothing, ProcessedEvents,
                    ProcessEventsThrows, StopReading, Downloading
    <2>6. QED
        BY <2>2, <2>3, <2>4, <2>5 DEF Callback
<1>2. QED
    BY <1>1 DEF Alone

(* A new download begins with an empty buffer; who else is downloading      *)
(* shares the connection from now on.                                       *)
LEMMA PreDownloadTransfers ==
    ASSUME Types, Alone', NEW u \in Users, PreDownload(u)
    PROVE  Transfers'
<1> SUFFICES ASSUME NEW w \in Downloading', ~shared'[w]
             PROVE  (Buffered(w) /\ ReadSoFar(w) /\ NothingMissing(w))'
    BY DEF Transfers
<1>1. u \in Downloading'
    BY TypeParts DEF PreDownload, Downloading, ThreadType
<1>2. w = u
    BY <1>1 DEF Alone
<1>3. /\ m_segBuffer' = <<>> /\ m_readBufferSize' = 0
      /\ delivered'[u] = <<>> /\ index'[u] = 0 /\ pc'[u] = "predownload"
      /\ UNCHANGED fileSize
    BY TypeParts DEF PreDownload, ResetSegBuffer, ThreadType, DeliveredType
<1>4. pending'[u] # NoName
    <2>1. PICK f \in Files : pending' = [pending EXCEPT ![u] = NumberOf(f)]
        BY DEF PreDownload, ExpressInterest
    <2>2. NumberOf(f) # NoName
        BY Constants DEF Names
    <2>3. QED
        BY <2>1, <2>2, TypeParts DEF NetworkType
<1>5. Len(m_segBuffer') = 0 /\ Len(delivered'[u]) = 0
    BY <1>3
<1>6. 1..Len(m_segBuffer') = {} /\ 1..m_readBufferSize' = {}
    BY <1>3, <1>5
<1>7. Buffered(w)'
    BY <1>2, <1>6 DEF Buffered, InOrder, Below, WholePackets
<1>8. ReadSoFar(w)'
    BY <1>2, <1>3, <1>5, <1>6 DEF ReadSoFar
<1>9. NothingMissing(w)'
    <2>1. Settled(u)' = 0
        BY <1>3 DEF Settled
    <2>2. fileSize'[current'[u]] >= 0 => UpTo(current[u], 0)' = 0
        <3>1. current'[u] \in Files
            BY TypeParts DEF PreDownload, ThreadType
        <3>2. fileSize'[current'[u]] \in Int
            <4>1. fileSize'[current'[u]] \in FileSizes
                BY <1>3, <3>1, TypeParts DEF NetworkType
            <4>2. fileSize'[current'[u]] \in -1..WordModulus - 1
                BY <4>1, Constants
            <4>3. QED
                BY <4>2, Sizes
        <3>3. 0 * PacketSize = 0
            BY Sizes
        <3>4. QED
            BY <3>2, <3>3 DEF UpTo
    <2>3. UpTo(current[u], Settled(u))' = UpTo(current[u], 0)'
        BY <2>1 DEF UpTo
    <2>4. fileSize'[current'[u]] >= 0 => FirstBytes(m_segBuffer, current[u], UpTo(current[u], Settled(u)))'
        BY <1>5, <1>6, <2>2, <2>3 DEF FirstBytes
    <2>5. QED
        BY <1>2, <1>3, <1>4, <2>4 DEF NothingMissing
<1>10. QED
    BY <1>7, <1>8, <1>9

Mine(w) == Buffered(w) /\ ReadSoFar(w) /\ NothingMissing(w)

LEMMA MineTypes ==
    ASSUME Types, NEW w \in Users
    PROVE  /\ index[w] \in Nat /\ current[w] \in Files /\ Settled(w) \in Nat
           /\ fileSize[current[w]] \in -1..WordModulus - 1
           /\ fileSize[current[w]] \in Int
           /\ m_segBuffer \in Seq(Bytes) /\ Len(m_segBuffer) \in Nat
           /\ m_readBufferSize \in Nat /\ m_readBufferSize <= Len(m_segBuffer)
           /\ m_nSegNumber \in Nat /\ delivered[w] \in Seq(Bytes)
<1>1. index[w] \in Nat /\ current[w] \in Files
    BY TypeParts, Sizes DEF ThreadType
<1>2. Settled(w) \in Nat
    BY <1>1 DEF Settled
<1>3. fileSize[current[w]] \in FileSizes
    BY <1>1, TypeParts DEF NetworkType
<1>4. fileSize[current[w]] \in -1..WordModulus - 1 /\ fileSize[current[w]] \in Int
    <2>1. fileSize[current[w]] \in -1..WordModulus - 1
        BY <1>3, Constants
    <2>2. QED
        BY <2>1, Sizes
<1>5. /\ m_segBuffer \in Seq(Bytes) /\ Len(m_segBuffer) \in Nat
      /\ m_readBufferSize \in Nat /\ m_readBufferSize <= Len(m_segBuffer)
      /\ m_nSegNumber \in Nat
    BY TypeParts, Sizes DEF ConsumerType
<1>6. delivered[w] \in Seq(Bytes)
    BY TypeParts DEF DeliveredType
<1>7. QED
    BY <1>1, <1>2, <1>4, <1>5, <1>6

LEMMA Scales ==
    ASSUME NEW a \in Nat, NEW b \in Nat, a <= b
    PROVE  a * PacketSize \in Nat /\ b * PacketSize \in Nat /\ a * PacketSize <= b * PacketSize
    BY Sizes

LEMMA BelowGrows ==
    ASSUME NEW s \in Seq(Bytes), NEW a \in Nat, NEW b \in Nat, a <= b, Below(s, a * PacketSize)
    PROVE  Below(s, b * PacketSize)
<1>1. a * PacketSize \in Nat /\ b * PacketSize \in Nat /\ a * PacketSize <= b * PacketSize
    BY Scales
<1>2. \A k \in 1..Len(s) : s[k][2] \in Nat
    BY ByteFields
<1>3. QED
    BY <1>1, <1>2 DEF Below

LEMMA AsksForPacket ==
    ASSUME Types, NEW w \in Users, Mine(w), GetRequestData(w)
    PROVE  Mine(w)'
<1>1. /\ pc[w] = "predownload" /\ pending[w] = NoName
      /\ index' = [index EXCEPT ![w] = index[w] + 1]
      /\ pending' = [pending EXCEPT ![w] = PacketOf(current[w], index[w])]
      /\ UNCHANGED <<fileSize, consumerVars, pc, current, delivered, missed>>
    BY DEF GetRequestData, ProcessedEvents, ExpressInterest
<1>2. index[w] \in Nat /\ index[w] < m_nSegNumber /\ current[w] \in Files
    BY MineTypes DEF GetRequestData
<1>3. pending'[w] # NoName
    <2>1. index[w] \in 0..(WordModulus - 1)
        BY <1>2, TypeParts, Sizes DEF ConsumerType
    <2>2. PacketOf(current[w], index[w]) \in Names
        BY <1>2, <2>1 DEF Names
    <2>3. QED
        BY <1>1, <2>2, Constants, TypeParts DEF NetworkType
<1>4. index'[w] = index[w] + 1
    BY <1>1, TypeParts DEF ThreadType
<1>5. Settled(w)' = Settled(w)
    BY <1>1, <1>2, <1>3, <1>4 DEF Settled
<1>6. Buffered(w)' /\ ReadSoFar(w)'
    BY <1>1, <1>5 DEF Mine, Buffered, ReadSoFar, InOrder, Below, WholePackets
<1>7. NothingMissing(w)'
    <2>1. UpTo(current[w], Settled(w))' = UpTo(current[w], Settled(w))
        BY <1>1, <1>5 DEF UpTo
    <2>2. SegNumber(fileSize[current[w]])' = SegNumber(fileSize[current[w]])
        BY <1>1 DEF SegNumber
    <2>3. QED
        BY <1>1, <2>1, <2>2 DEF Mine, NothingMissing, FirstBytes
<1>8. QED
    BY <1>6, <1>7 DEF Mine

(* The loop of PreDownload ends when all of the file has arrived, or some    *)
(* of it was missed.                                                        *)
LEMMA BeginsToRead ==
    ASSUME Types, NEW w \in Users, Mine(w), StartReading(w)
    PROVE  Mine(w)'
<1>1. /\ pc[w] = "predownload" /\ pending[w] = NoName /\ index[w] >= m_nSegNumber
      /\ pc'[w] = "read"
      /\ UNCHANGED <<fileSize, networkVars, consumerVars, index, current, delivered, missed>>
    BY TypeParts DEF StartReading, ProcessedEvents, ThreadType
<1>2. Settled(w) = index[w] /\ Settled(w)' = Settled(w)
    BY <1>1 DEF Settled
<1>3. Buffered(w)' /\ ReadSoFar(w)'
    BY <1>1, <1>2 DEF Mine, Buffered, ReadSoFar, InOrder, Below, WholePackets
<1>4. ASSUME fileSize[current[w]] >= 0, ~missed[w]
      PROVE  Len(m_segBuffer) = fileSize[current[w]]
    <2>1. m_nSegNumber = SegNumber(fileSize[current[w]])
          /\ Len(m_segBuffer) = UpTo(current[w], index[w])
        BY <1>1, <1>2, <1>4 DEF Mine, NothingMissing, FirstBytes
    <2>2. m_nSegNumber * PacketSize >= fileSize[current[w]]
        BY <1>4, <2>1, MineTypes, NumberCovers
    <2>3. index[w] * PacketSize >= m_nSegNumber * PacketSize
          /\ index[w] * PacketSize \in Nat /\ m_nSegNumber * PacketSize \in Nat
        <3>1. index[w] \in Nat /\ m_nSegNumber \in Nat /\ m_nSegNumber <= index[w]
            BY <1>1, MineTypes
        <3>2. QED
            BY <3>1, Scales
    <2>4. ~(index[w] * PacketSize < fileSize[current[w]])
        BY <2>2, <2>3, MineTypes
    <2>5. QED
        BY <2>1, <2>4 DEF UpTo
<1>5. NothingMissing(w)'
    <2>1. UpTo(current[w], Settled(w))' = UpTo(current[w], Settled(w))
        BY <1>1, <1>2 DEF UpTo
    <2>2. SegNumber(fileSize[current[w]])' = SegNumber(fileSize[current[w]])
        BY <1>1 DEF SegNumber
    <2>3. QED
        BY <1>1, <1>4, <2>1, <2>2 DEF Mine, NothingMissing, FirstBytes
<1>6. QED
    BY <1>3, <1>5 DEF Mine

(* A timeout or an error: from then on something may be missing. *)
LEMMA MissesPacket ==
    ASSUME Types, Waits, NEW w \in Users, Mine(w), OnTimeout(w) \/ ProcessEventsThrows(w)
    PROVE  Mine(w)'
<1>1. /\ missed'[w] /\ pending'[w] = NoName /\ pc[w] = "predownload"
      /\ UNCHANGED <<fileSize, m_segBuffer, m_readBufferSize, index, current, delivered>>
    <2>1. missed'[w] /\ pending'[w] = NoName
        BY TypeParts DEF OnTimeout, ProcessEventsThrows, HistoryType, NetworkType
    <2>2. pc[w] = "predownload"
        BY DEF OnTimeout, ProcessEventsThrows, Waits
    <2>3. QED
        BY <2>1, <2>2 DEF OnTimeout, ProcessEventsThrows
<1>2. Settled(w)' \in Nat /\ Settled(w) <= Settled(w)'
    BY <1>1, MineTypes DEF Settled
<1>3. Buffered(w)'
    <2>1. Below(m_segBuffer, Settled(w)' * PacketSize)
        BY <1>2, MineTypes, BelowGrows DEF Mine, Buffered
    <2>2. QED
        BY <1>1, <2>1 DEF Mine, Buffered, InOrder, Below, WholePackets
<1>4. ReadSoFar(w)' /\ NothingMissing(w)'
    BY <1>1 DEF Mine, ReadSoFar, NothingMissing
<1>5. QED
    BY <1>3, <1>4 DEF Mine

LEMMA LearnsNumber ==
    ASSUME Types, Waits, Answers, NEW w \in Users, Mine(w), OnRequestNumberArrive(w)
    PROVE  Mine(w)'
<1>1. /\ pc[w] = "predownload" /\ index[w] = 0
      /\ m_nSegNumber' = SegNumber(fileSize[current[w]])
    BY NumberArrives
<1>2. UNCHANGED <<fileSize, m_segBuffer, m_readBufferSize, pc, index, current, delivered, missed>>
    BY DEF OnRequestNumberArrive
<1>3. Settled(w)' = 0 /\ Settled(w) = 0
    BY <1>1, <1>2 DEF Settled
<1>4. Buffered(w)' /\ ReadSoFar(w)'
    BY <1>2, <1>3 DEF Mine, Buffered, ReadSoFar, InOrder, Below, WholePackets
<1>5. NothingMissing(w)'
    <2>1. UpTo(current[w], Settled(w))' = UpTo(current[w], Settled(w))
        BY <1>2, <1>3 DEF UpTo
    <2>2. SegNumber(fileSize[current[w]])' = SegNumber(fileSize[current[w]])
        BY <1>2 DEF SegNumber
    <2>3. QED
        BY <1>1, <1>2, <2>1, <2>2 DEF Mine, NothingMissing, FirstBytes
<1>6. QED
    BY <1>4, <1>5 DEF Mine

(* The packet that arrives is the one that was asked for last. *)
LEMMA GetsPacket ==
    ASSUME Types, Waits, Answers, NEW w \in Users, Mine(w), OnRequestDataArrive(w)
    PROVE  Mine(w)'
<1> DEFINE f == current[w]
           i == index[w] - 1
<1>1. /\ pc[w] = "predownload" /\ index[w] > 0 /\ index[w] \in Nat /\ i \in Nat
      /\ pending[w] # NoName /\ f \in Files /\ fileSize[f] \in Nat
      /\ m_segBuffer' = m_segBuffer \o PacketBytes(f, i)
    BY DataArrives
<1>2. /\ pending'[w] = NoName
      /\ UNCHANGED <<fileSize, m_nSegNumber, m_readBufferSize, pc, index, current, delivered, missed>>
    BY TypeParts DEF OnRequestDataArrive, NetworkType
<1>3. Settled(w) = i /\ Settled(w)' = i + 1
    BY <1>1, <1>2 DEF Settled
<1>4. Buffered(w)'
    <2>1. InOrder(m_segBuffer, f) /\ Below(m_segBuffer, i * PacketSize) /\ WholePackets(m_segBuffer, f)
        BY <1>3 DEF Mine, Buffered
    <2>2. /\ InOrder(m_segBuffer', f) /\ Below(m_segBuffer', (i + 1) * PacketSize)
          /\ WholePackets(m_segBuffer', f)
        <3> HIDE DEF f, i
        <3>1. QED
            BY <1>1, <2>1, MineTypes, PacketAppended
    <2>3. QED
        BY <1>2, <1>3, <2>2 DEF Buffered, InOrder, Below, WholePackets
<1>5. ReadSoFar(w)'
    <2>1. m_readBufferSize = 0
        BY <1>1 DEF Mine, ReadSoFar
    <2>2. QED
        BY <1>2, <2>1 DEF Mine, ReadSoFar
<1>6. NothingMissing(w)'
    <2>1. ASSUME ~missed[w] PROVE FirstBytes(m_segBuffer', f, UpTo(f, i + 1))
        <3>1. FirstBytes(m_segBuffer, f, UpTo(f, i))
            BY <1>1, <1>3, <2>1 DEF Mine, NothingMissing
        <3> HIDE DEF f, i
        <3>2. QED
            BY <1>1, <3>1, MineTypes, NextBytesAppended
    <2>2. UpTo(current[w], Settled(w))' = UpTo(f, i + 1)
        BY <1>2, <1>3 DEF UpTo
    <2>3. SegNumber(fileSize[current[w]])' = SegNumber(fileSize[current[w]])
        BY <1>2 DEF SegNumber
    <2>4. FirstBytes(m_segBuffer, f, UpTo(f, i + 1))' <=> FirstBytes(m_segBuffer', f, UpTo(f, i + 1))
        BY <1>2 DEF FirstBytes, UpTo
    <2>5. QED
        BY <1>1, <1>2, <2>1, <2>2, <2>3, <2>4 DEF Mine, NothingMissing, FirstBytes
<1>7. QED
    BY <1>4, <1>5, <1>6 DEF Mine

LEMMA ReadsOn ==
    ASSUME Types, NEW w \in Users, Mine(w), Read(w)
    PROVE  Mine(w)'
<1> DEFINE block == SubSeq(m_segBuffer, m_readBufferSize + 1, m_readBufferSize + ReadLen)
           before == delivered[w]
<1>1. /\ pc[w] = "read"
      /\ UNCHANGED <<fileSize, networkVars, m_nSegNumber, m_segBuffer, pc, index, current, missed>>
    BY DEF Read
<1>2. /\ ReadLen \in Nat /\ m_readBufferSize \in Nat /\ m_readBufferSize' = m_readBufferSize + ReadLen
      /\ block \in Seq(Bytes) /\ Len(block) = ReadLen
      /\ \A k \in 1..ReadLen : block[k] = m_segBuffer[m_readBufferSize + k]
      /\ delivered'[w] = before \o block
    BY TypeParts, ReadsBlock DEF DeliveredType
<1>3. /\ before \in Seq(Bytes) /\ Len(before) = m_readBufferSize
      /\ \A k \in 1..m_readBufferSize : before[k] = m_segBuffer[k]
    BY MineTypes DEF Mine, ReadSoFar
<1> HIDE DEF block, before
<1>4. /\ Len(delivered'[w]) = m_readBufferSize'
      /\ \A k \in 1..m_readBufferSize : delivered'[w][k] = before[k]
      /\ \A k \in 1..ReadLen : delivered'[w][m_readBufferSize + k] = block[k]
    <2>1. /\ Len(before \o block) = Len(before) + Len(block)
          /\ \A k \in 1..Len(before) : (before \o block)[k] = before[k]
          /\ \A k \in 1..Len(block) : (before \o block)[Len(before) + k] = block[k]
        BY <1>2, <1>3, Concatenates
    <2>2. QED
        BY <1>2, <1>3, <2>1
<1>5. ReadSoFar(w)'
    <2>1. ASSUME NEW k \in 1..m_readBufferSize' PROVE delivered'[w][k] = m_segBuffer[k]
        <3>1. CASE k \in 1..m_readBufferSize
            BY <1>3, <1>4, <3>1
        <3>2. CASE k \notin 1..m_readBufferSize
            <4>1. k - m_readBufferSize \in 1..ReadLen /\ k = m_readBufferSize + (k - m_readBufferSize)
                BY <1>2, <3>2
            <4>2. QED
                BY <1>2, <1>4, <4>1
        <3>3. QED
            BY <3>1, <3>2
    <2>2. QED
        BY <1>1, <1>4, <2>1 DEF ReadSoFar
<1>6. Settled(w)' = Settled(w)
    BY <1>1 DEF Settled
<1>7. Buffered(w)'
    BY <1>1, <1>6 DEF Mine, Buffered, InOrder, Below, WholePackets
<1>8. NothingMissing(w)'
    <2>1. UpTo(current[w], Settled(w))' = UpTo(current[w], Settled(w))
        BY <1>1, <1>6 DEF UpTo
    <2>2. SegNumber(fileSize[current[w]])' = SegNumber(fileSize[current[w]])
        BY <1>1 DEF SegNumber
    <2>3. QED
        BY <1>1, <2>1, <2>2 DEF Mine, NothingMissing, FirstBytes
<1>9. QED
    BY <1>5, <1>7, <1>8 DEF Mine

LEMMA TransfersStep == IInv /\ [Next]_vars => Transfers'
<1> SUFFICES ASSUME IInv, [Next]_vars PROVE Transfers'
    OBVIOUS
<1>1. Types /\ Waits /\ Answers /\ Alone /\ Transfers /\ Alone'
    BY AloneStep DEF IInv
<1>2. ThreadType /\ HistoryType
    BY <1>1, TypeParts
<1>3. \A w \in Downloading : w \in Users /\ (~shared[w] => Mine(w))
    BY <1>1 DEF Transfers, Mine, Downloading
<1>4. ASSUME UNCHANGED <<fileSize, pending, consumerVars, threadVars>> PROVE Transfers'
    <2>1. Downloading' = Downloading /\ UNCHANGED shared
        BY <1>4 DEF Downloading
    <2>2. ASSUME NEW w PROVE Mine(w)' = Mine(w)
        BY <1>4 DEF Mine, Buffered, ReadSoFar, NothingMissing, InOrder, Below, WholePackets,
                    FirstBytes, UpTo, Settled, SegNumber
    <2>3. QED
        BY <1>1, <1>3, <2>1, <2>2 DEF Transfers, Mine
<1>5. CASE UNCHANGED vars
    BY <1>4, <1>5
<1>6. CASE OnInterest
    BY <1>4, <1>6 DEF OnInterest, OnRequestSegNumber, OnRequestSegData, OnRequestBeyondEnd
<1>7. ASSUME NEW u \in Users, PreDownload(u) PROVE Transfers'
    BY <1>1, <1>7, PreDownloadTransfers
<1>8. ASSUME NEW u \in Users, Consume(u) \/ Callback(u) \/ ProcessEventsThrows(u) \/ StopReading(u)
      PROVE  Transfers'
    <2>1. UNCHANGED shared
        BY <1>8 DEF Consume, GetRequestData, StartReading, Read, ReadNothing, Callback,
                    OnRequestNumberArrive, OnRequestDataArrive, OnTimeout, ProcessEventsThrows,
                    StopReading
    <2>2. Downloading' \subseteq Downloading
        BY <1>2, <1>8 DEF Consume, GetRequestData, StartReading, ProcessedEvents, Read, ReadNothing,
                    Callback, OnRequestNumberArrive, OnRequestDataArrive, OnTimeout,
                    ProcessEventsThrows, StopReading, Downloading, ThreadType
    <2>3. SUFFICES ASSUME NEW w \in Downloading', ~shared'[w] PROVE Mine(w)'
        BY DEF Transfers, Mine
    <2>4. w \in Downloading /\ ~shared[w] /\ w \in Users /\ Mine(w)
        BY <1>3, <2>1, <2>2, <2>3
    <2>5. u = w
        BY <1>1, <1>8, <2>4, OwnSteps
    <2>6. ~ReadNothing(w) /\ ~StopReading(w)
        BY <1>2, <2>3, <2>4 DEF ReadNothing, StopReading, Downloading, ThreadType
    <2>7. CASE GetRequestData(w)
        BY <1>1, <2>4, <2>7, AsksForPacket
    <2>8. CASE StartReading(w)
        BY <1>1, <2>4, <2>8, BeginsToRead
    <2>9. CASE Read(w)
        BY <1>1, <2>4, <2>9, ReadsOn
    <2>10. CASE OnRequestNumberArrive(w)
        BY <1>1, <2>4, <2>10, LearnsNumber
    <2>11. CASE OnRequestDataArrive(w)
        BY <1>1, <2>4, <2>11, GetsPacket
    <2>12. CASE OnTimeout(w) \/ ProcessEventsThrows(w)
        BY <1>1, <2>4, <2>12, MissesPacket
    <2>13. QED
        BY <1>8, <2>5, <2>6, <2>7, <2>8, <2>9, <2>10, <2>11, <2>12 DEF Consume, Callback
<1>9. QED
    BY <1>5, <1>6, <1>7, <1>8 DEF Next

-----------------------------------------------------------------------------
(* What has been delivered *)

LEMMA PrefixInOrder ==
    ASSUME NEW s, NEW buffer, NEW f, NEW n \in Nat, Len(buffer) \in Nat, n <= Len(buffer),
           Len(s) = n, \A k \in 1..n : s[k] = buffer[k], InOrder(buffer, f)
    PROVE  InOrder(s, f)
<1>1. SUFFICES ASSUME NEW k \in 1..n
               PROVE  s[k][1] = f /\ (k > 1 => s[k - 1][2] < s[k][2])
    BY DEF InOrder
<1>2. k \in 1..Len(buffer) /\ s[k] = buffer[k]
    OBVIOUS
<1>3. k > 1 => k - 1 \in 1..n /\ s[k - 1] = buffer[k - 1]
    OBVIOUS
<1>4. QED
    BY <1>2, <1>3 DEF InOrder

LEMMA OrderedStep == IInv /\ Types' /\ Transfers' /\ [Next]_vars => Ordered'
<1> SUFFICES ASSUME IInv, Types', Transfers', [Next]_vars PROVE Ordered'
    OBVIOUS
<1>1. Types /\ Ordered /\ ThreadType /\ DeliveredType
    BY TypeParts DEF IInv
<1>2. ASSUME UNCHANGED <<delivered, current, shared>> PROVE Ordered'
    BY <1>1, <1>2 DEF Ordered, InOrder
<1>3. CASE UNCHANGED vars
    BY <1>2, <1>3
<1>4. CASE OnInterest
    BY <1>2, <1>4 DEF OnInterest, OnRequestSegNumber, OnRequestSegData, OnRequestBeyondEnd
<1>5. ASSUME NEW u \in Users, PreDownload(u) PROVE Ordered'
    <2>1. PICK f \in Files : current' = [current EXCEPT ![u] = f]
        BY <1>5 DEF PreDownload
    <2>2. /\ delivered' = [delivered EXCEPT ![u] = <<>>]
          /\ \A v \in Users \ {u} : shared'[v] = (shared[v] \/ v \in Downloading)
        BY <1>5 DEF PreDownload
    <2>3. ASSUME NEW v \in Users, ~shared'[v] PROVE InOrder(delivered'[v], current'[v])
        <3>1. CASE v = u
            <4>1. delivered'[v] = <<>>
                BY <1>1, <2>2, <3>1 DEF DeliveredType
            <4>2. 1..Len(delivered'[v]) = {}
                BY <4>1
            <4>3. QED
                BY <4>2 DEF InOrder
        <3>2. CASE v # u
            <4>1. ~shared[v]
                BY <2>2, <2>3, <3>2
            <4>2. delivered'[v] = delivered[v] /\ current'[v] = current[v]
                BY <1>1, <2>1, <2>2, <3>2 DEF ThreadType, DeliveredType
            <4>3. QED
                BY <1>1, <4>1, <4>2 DEF Ordered
        <3>3. QED
            BY <3>1, <3>2
    <2>4. QED
        BY <2>3 DEF Ordered, InOrder
<1>6. ASSUME NEW u \in Users, Read(u) PROVE Ordered'
    <2>1. /\ pc[u] = "read" /\ UNCHANGED <<pc, current, shared>>
          /\ \E s : delivered' = [delivered EXCEPT ![u] = s]
        BY <1>6 DEF Read
    <2>2. u \in Downloading'
        BY <2>1 DEF Downloading
    <2>3. ASSUME ~shared'[u] PROVE InOrder(delivered[u], current[u])'
        <3>1. Buffered(u)' /\ ReadSoFar(u)'
            BY <2>2, <2>3 DEF Transfers
        <3>2. m_readBufferSize' \in 0..Len(m_segBuffer') /\ m_segBuffer' \in Seq(Bytes)
            BY DEF Types, TypeOK
        <3>3. m_readBufferSize' \in Nat /\ Len(m_segBuffer') \in Nat /\ m_readBufferSize' <= Len(m_segBuffer')
            BY <3>2
        <3>4. InOrder(m_segBuffer', current'[u]) /\ Len(delivered'[u]) = m_readBufferSize'
              /\ \A k \in 1..m_readBufferSize' : delivered'[u][k] = m_segBuffer'[k]
            BY <3>1 DEF Buffered, ReadSoFar, InOrder
        <3>5. InOrder(delivered'[u], current'[u])
            BY <3>3, <3>4, PrefixInOrder
        <3>6. QED
            BY <3>5 DEF InOrder
    <2>4. \A v \in Users \ {u} : delivered'[v] = delivered[v]
        BY <1>1, <2>1 DEF DeliveredType
    <2>5. QED
        BY <1>1, <2>1, <2>3, <2>4 DEF Ordered, InOrder
<1>7. ASSUME NEW u \in Users, Callback(u) \/ GetRequestData(u) \/ StartReading(u) \/ ReadNothing(u)
                              \/ StopReading(u) \/ ProcessEventsThrows(u)
      PROVE  Ordered'
    BY <1>2, <1>7 DEF Callback, OnRequestNumberArrive, OnRequestDataArrive, OnTimeout,
                GetRequestData, StartReading, ReadNothing, StopReading, ProcessEventsThrows
<1>8. QED
    BY <1>3, <1>4, <1>5, <1>6, <1>7 DEF Next, Consume

(* A download that has come to its end has delivered all of the buffer. *)
LEMMA WholeStep == IInv /\ [Next]_vars => Whole'
<1> SUFFICES ASSUME IInv, [Next]_vars PROVE Whole'
    OBVIOUS
<1>1. Types /\ Waits /\ Transfers /\ Whole /\ ThreadType /\ DeliveredType /\ HistoryType
    BY TypeParts DEF IInv
<1> DEFINE Good(w) == /\ WholePackets(delivered[w], current[w])
                      /\ ~missed[w] => FirstBytes(delivered[w], current[w], fileSize[current[w]])
<1>2. ASSUME NEW w \in Users, UNCHANGED fileSize, pc[w] = "done", delivered'[w] = delivered[w],
             current'[w] = current[w], shared[w] => shared'[w], missed'[w] = missed[w]
      PROVE  pc'[w] = "done" /\ ~shared'[w] /\ fileSize'[current'[w]] >= 0 => Good(w)'
    <2>1. SUFFICES ASSUME ~shared'[w], fileSize'[current'[w]] >= 0
                   PROVE  Good(w)'
        OBVIOUS
    <2>2. ~shared[w] /\ fileSize[current[w]] >= 0
        BY <1>2, <2>1
    <2>3. Good(w)
        BY <1>1, <1>2, <2>2 DEF Whole
    <2>4. WholePackets(delivered[w], current[w])'
        BY <1>2, <2>3 DEF WholePackets
    <2>5. ~missed'[w] => FirstBytes(delivered[w], current[w], fileSize[current[w]])'
        BY <1>2, <2>3 DEF FirstBytes
    <2>6. QED
        BY <2>4, <2>5
<1>3. ASSUME UNCHANGED <<fileSize, pc, delivered, current, shared, missed>> PROVE Whole'
    BY <1>2, <1>3 DEF Whole
<1>4. CASE UNCHANGED vars
    BY <1>3, <1>4
<1>5. CASE OnInterest
    BY <1>3, <1>5 DEF OnInterest, OnRequestSegNumber, OnRequestSegData, OnRequestBeyondEnd
<1>6. ASSUME NEW u \in Users, UNCHANGED fileSize, pc'[u] # "done",
             \A w \in Users \ {u} : /\ pc'[w] = pc[w] /\ delivered'[w] = delivered[w]
                                    /\ current'[w] = current[w] /\ missed'[w] = missed[w]
                                    /\ shared[w] => shared'[w]
      PROVE  Whole'
    <2>1. ASSUME NEW w \in Users
          PROVE  pc'[w] = "done" /\ ~shared'[w] /\ fileSize'[current'[w]] >= 0 => Good(w)'
        BY <1>2, <1>6
    <2>2. QED
        BY <2>1 DEF Whole
<1>7. ASSUME NEW u \in Users, PreDownload(u) PROVE Whole'
    <2>1. PICK f \in Files : current' = [current EXCEPT ![u] = f]
        BY <1>7 DEF PreDownload
    <2>2. /\ UNCHANGED fileSize
          /\ pc' = [pc EXCEPT ![u] = "predownload"]
          /\ delivered' = [delivered EXCEPT ![u] = <<>>] /\ missed' = [missed EXCEPT ![u] = FALSE]
          /\ \A v \in Users \ {u} : shared'[v] = (shared[v] \/ v \in Downloading)
        BY <1>7 DEF PreDownload
    <2>3. pc'[u] # "done"
        BY <1>1, <2>2 DEF ThreadType
    <2>4. \A w \in Users \ {u} : /\ pc'[w] = pc[w] /\ delivered'[w] = delivered[w]
                                 /\ current'[w] = current[w] /\ missed'[w] = missed[w]
                                 /\ shared[w] => shared'[w]
        BY <1>1, <2>1, <2>2 DEF ThreadType, DeliveredType, HistoryType
    <2>5. QED
        BY <1>6, <2>2, <2>3, <2>4
<1>8. ASSUME NEW u \in Users, GetRequestData(u) \/ OnRequestNumberArrive(u) \/ OnRequestDataArrive(u)
      PROVE  Whole'
    BY <1>3, <1>8 DEF GetRequestData, OnRequestNumberArrive, OnRequestDataArrive
<1>9. ASSUME NEW u \in Users,
             StartReading(u) \/ StopReading(u) \/ ProcessEventsThrows(u) \/ OnTimeout(u) \/ Read(u)
      PROVE  Whole'
    <2>1. /\ UNCHANGED <<fileSize, current, shared>>
          /\ pc' = pc \/ pc' = [pc EXCEPT ![u] = "read"] \/ pc' = [pc EXCEPT ![u] = "idle"]
          /\ delivered' = delivered \/ \E s : delivered' = [delivered EXCEPT ![u] = s]
          /\ missed' = missed \/ missed' = [missed EXCEPT ![u] = TRUE]
        BY <1>9 DEF StartReading, StopReading, ProcessEventsThrows, OnTimeout, Read
    <2>2. pc[u] \in {"predownload", "read"}
        BY <1>1, <1>9 DEF StartReading, ProcessedEvents, StopReading, ProcessEventsThrows, OnTimeout,
                          Read, Waits
    <2>3. pc'[u] # "done"
        BY <1>1, <2>1, <2>2 DEF ThreadType
    <2>4. \A w \in Users \ {u} : pc'[w] = pc[w] /\ delivered'[w] = delivered[w]
                                 /\ missed'[w] = missed[w]
        BY <1>1, <2>1 DEF ThreadType, DeliveredType, HistoryType
    <2>5. QED
        BY <1>6, <2>1, <2>3, <2>4
<1>10. ASSUME NEW u \in Users, ReadNothing(u) PROVE Whole'
    <2>1. /\ pc[u] = "read" /\ m_readBufferSize = Len(m_segBuffer)
          /\ pc' = [pc EXCEPT ![u] = "done"]
          /\ UNCHANGED <<fileSize, delivered, current, shared, missed>>
        BY <1>10 DEF ReadNothing
    <2>2. ASSUME ~shared[u], fileSize[current[u]] >= 0 PROVE Good(u)
        <3>1. Mine(u)
            BY <1>1, <2>1, <2>2 DEF Transfers, Mine, Downloading
        <3>2. /\ Len(delivered[u]) = Len(m_segBuffer)
              /\ \A k \in 1..Len(m_segBuffer) : delivered[u][k] = m_segBuffer[k]
            BY <2>1, <3>1 DEF Mine, ReadSoFar
        <3>3. WholePackets(delivered[u], current[u])
            BY <3>1, <3>2 DEF Mine, Buffered, WholePackets
        <3>4. ~missed[u] => FirstBytes(delivered[u], current[u], fileSize[current[u]])
            BY <2>1, <2>2, <3>1, <3>2 DEF Mine, NothingMissing, FirstBytes
        <3>5. QED
            BY <3>3, <3>4
    <2>3. ASSUME NEW w \in Users
          PROVE  pc'[w] = "done" /\ ~shared'[w] /\ fileSize'[current'[w]] >= 0 => Good(w)'
        <3>1. CASE w = u
            BY <2>1, <2>2, <3>1 DEF WholePackets, FirstBytes
        <3>2. CASE w # u
            <4>1. pc'[w] = pc[w]
                BY <1>1, <2>1, <3>2 DEF ThreadType
            <4>2. QED
                BY <1>2, <2>1, <4>1
        <3>3. QED
            BY <3>1, <3>2
    <2>4. QED
        BY <2>3 DEF Whole
<1>11. QED
    BY <1>4, <1>5, <1>7, <1>8, <1>9, <1>10 DEF Next, Consume, Callback

-----------------------------------------------------------------------------
(* The theorems *)

LEMMA InitIInv == Init => IInv
<1> SUFFICES ASSUME Init PROVE IInv
    OBVIOUS
<1>1. /\ pc = [u \in Users |-> "idle"] /\ pending = [u \in Users |-> NoName]
      /\ delivered = [u \in Users |-> <<>>] /\ m_segBuffer = <<>> /\ data = {}
    BY DEF Init
<1>2. NetworkType
    BY DEF Init, NetworkType
<1>3. ConsumerType
    <2>1. m_segBuffer \in Seq(Bytes) /\ Len(m_segBuffer) = 0
        BY <1>1
    <2>2. QED
        BY <2>1, Sizes DEF Init, ConsumerType
<1>4. ThreadType
    <2>1. (CHOOSE f \in Files : TRUE) \in Files
        BY Constants
    <2>2. QED
        BY <2>1, Sizes, Constants DEF Init, ThreadType
<1>5. HistoryType
    BY DEF Init, HistoryType
<1>6. DeliveredType
    <2>1. <<>> \in Seq(Bytes)
        OBVIOUS
    <2>2. QED
        BY <1>1, <2>1 DEF DeliveredType
<1>7. Waits /\ Answers
    BY <1>1 DEF Waits, Answers
<1>8. Alone /\ Transfers /\ Whole
    BY <1>1 DEF Alone, Transfers, Whole, Downloading
<1>9. Ordered
    <2>1. \A u \in Users : Len(delivered[u]) = 0
        BY <1>1
    <2>2. QED
        BY <2>1 DEF Ordered, InOrder
<1>10. QED
    BY <1>2, <1>3, <1>4, <1>5, <1>6, <1>7, <1>8, <1>9, TypeParts DEF IInv

LEMMA InductiveInvariant == Spec => []IInv
<1>1. Init => IInv
    BY InitIInv
<1>2. IInv /\ [Next]_vars => IInv'
    <2> SUFFICES ASSUME IInv, [Next]_vars PROVE IInv'
        OBVIOUS
    <2>1. Types'
        BY TypesStep
    <2>2. Waits' /\ Answers' /\ Alone'
        BY WaitsStep, AnswersStep, AloneStep DEF IInv
    <2>3. Transfers' /\ Whole'
        BY TransfersStep, WholeStep
    <2>4. Ordered'
        BY <2>1, <2>3, OrderedStep
    <2>5. QED
        BY <2>1, <2>2, <2>3, <2>4 DEF IInv
<1>3. QED
    BY <1>1, <1>2, PTL DEF Spec

(* Type correctness: for one, Read never leaves the part of the buffer that *)
(* holds data, and no index leaves the width of a size_t.                   *)
THEOREM TypeCorrect == Spec => []TypeOK
<1>1. IInv => TypeOK
    BY DEF IInv, Types
<1>2. QED
    BY <1>1, InductiveInvariant, PTL

(* Whatever the network loses, delays, repeats or reorders, and whatever the *)
(* download before it left in the buffer, what Read hands to the chunk are   *)
(* bytes of the download's own file, in order and none twice, as long as no  *)
(* other thread uses the connection meanwhile: for any sizes of file, packet *)
(* and block.                                                                *)
THEOREM DeliveredInOrderAlways == Spec => []DeliveredInOrder
<1>1. IInv => DeliveredInOrder
    BY DEF IInv, Ordered, InOrder, DeliveredInOrder
<1>2. QED
    BY <1>1, InductiveInvariant, PTL

(* A download that has the connection to itself and comes to its end without *)
(* a timeout or an error has delivered exactly the file, whatever the size   *)
(* of its last packet; with timeouts, what is missing are whole packets.     *)
THEOREM WholeUnlessMissedAlways == Spec => []WholeUnlessMissed
<1>1. IInv => WholeUnlessMissed
    <2> SUFFICES ASSUME IInv, NEW u \in Users, pc[u] = "done", ~shared[u],
                        fileSize[current[u]] >= 0
                 PROVE  /\ ~missed[u] => delivered[u] = FileBytes(current[u])
                        /\ \A b \in ToSet(delivered[u]), o \in 0..(fileSize[current[u]] - 1) :
                               o \div PacketSize = b[2] \div PacketSize
                                   => <<current[u], o>> \in ToSet(delivered[u])
        BY DEF WholeUnlessMissed
    <2> DEFINE s == delivered[u]
               f == current[u]
               size == fileSize[f]
    <2>1. s \in Seq(Bytes) /\ size \in Int /\ f \in Files
        BY MineTypes DEF IInv
    <2>2. WholePackets(s, f) /\ (~missed[u] => FirstBytes(s, f, size))
        BY DEF IInv, Whole
    <2>3. ToSet(s) = {s[k] : k \in 1..Len(s)}
        <3>1. DOMAIN s = 1..Len(s)
            BY <2>1
        <3>2. QED
            BY <3>1 DEF ToSet
    <2>4. ASSUME ~missed[u] PROVE s = FileBytes(f)
        <3>1. Len(s) = size /\ \A k \in 1..size : s[k] = <<f, k - 1>>
            BY <2>2, <2>4 DEF FirstBytes
        <3>2. Max({0, size}) = size
            BY <2>1 DEF Max
        <3>3. FileBytes(f) = [k \in 1..size |-> <<f, k - 1>>]
            BY <3>2 DEF FileBytes
        <3>4. s = [k \in 1..Len(s) |-> s[k]]
            BY <2>1
        <3>5. QED
            BY <3>1, <3>3, <3>4
    <2>5. ASSUME NEW b \in ToSet(s), NEW o \in 0..(size - 1), o \div PacketSize = b[2] \div PacketSize
          PROVE  <<f, o>> \in ToSet(s)
        <3>1. PICK k \in 1..Len(s) : s[k] = b
            BY <2>3, <2>5
        <3>2. PICK j \in 1..Len(s) : s[j] = <<f, o>>
            BY <2>2, <2>5, <3>1 DEF WholePackets
        <3>3. QED
            BY <2>3, <3>2
    <2>6. QED
        BY <2>4, <2>5
<1>2. QED
    BY <1>1, InductiveInvariant, PTL
=============================================================================
