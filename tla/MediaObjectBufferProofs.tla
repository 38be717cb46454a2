---------------------- MODULE MediaObjectBufferProofs ----------------------
(***************************************************************************)
(* Theorems about MediaObjectBuffer, for every set of threads, every       *)
(* capacity and every number of pushes.  The footprint lemmas say which    *)
(* actions write a group of variables; each invariant is then proved       *)
(* action by action over its footprint.                                    *)
(***************************************************************************)
EXTENDS MediaObjectBuffer, TLAPS

(* The monitor's helper definitions, expanded in every proof below. *)
USE BufferAssumption DEF Enter, Goto, vars, queueVars, waitVars, abortVars, reportVars

-----------------------------------------------------------------------------
(* Sequences and fill levels *)

(* What is left when the head of a sequence of numbers is taken. *)
LEMMA TailFacts ==
    ASSUME NEW s \in Seq(Nat), Len(s) > 0
    PROVE  /\ Head(s) = s[1]
           /\ Head(s) \in Nat
           /\ Tail(s) \in Seq(Nat)
           /\ Len(Tail(s)) = Len(s) - 1
           /\ \A i \in 1..Len(Tail(s)) : Tail(s)[i] = s[i + 1]
    OBVIOUS

(* What a sequence of numbers is once a number is appended. *)
LEMMA AppendFacts ==
    ASSUME NEW s \in Seq(Nat), NEW x \in Nat
    PROVE  /\ Append(s, x) \in Seq(Nat)
           /\ Len(Append(s, x)) = Len(s) + 1
           /\ \A i \in 1..Len(s) : Append(s, x)[i] = s[i]
           /\ Append(s, x)[Len(s) + 1] = x
    OBVIOUS

(* The elements of a sequence of numbers are numbers. *)
LEMMA ElementFacts ==
    ASSUME NEW s \in Seq(Nat)
    PROVE  /\ {s[i] : i \in 1..Len(s)} \subseteq Nat
           /\ {s[i] : i \in 2..Len(s)} \subseteq Nat
    OBVIOUS

(* Fill levels are natural numbers. *)
LEMMA PercentType == \A n \in Nat : Percent(n) \in Nat
    BY DEF Percent

-----------------------------------------------------------------------------
(* Footprints: the actions that write a group of variables *)

(* The steps that change the queue or the histories of its objects. *)
LEMMA QueueSteps ==
    ASSUME [Next]_vars
    PROVE  \/ UNCHANGED queueVars
           \/ \E t \in Threads : \/ PushBackAccept(t)
                                 \/ GetFrontTake(t) \/ PopFront(t)
                                 \/ Clear(t) \/ ClearTail(t)
<1>1. CASE UNCHANGED vars
    BY <1>1
<1>2. ASSUME NEW t \in Producers, PushBack(t)
      PROVE  UNCHANGED queueVars \/ PushBackAccept(t)
    BY <1>2 DEF PushBack, PushBackWait, PushBackReject
<1>3. ASSUME NEW t \in Consumers, GetFront(t)
      PROVE  UNCHANGED queueVars \/ GetFrontTake(t)
    BY <1>3 DEF GetFront, GetFrontWait, GetFrontNull
<1>4. ASSUME NEW t \in Threads, SetEOS(t) \/ Notify(t) \/ SpuriousWakeup(t)
      PROVE  UNCHANGED queueVars
    BY <1>4 DEF SetEOS, SetEOSEnter, SetEOSAbort, SetEOSLeave, Notify, NotifyRead,
                NotifyReport, SpuriousWakeup
<1>5. QED
    BY <1>1, <1>2, <1>3, <1>4 DEF Next, Threads

(* The steps that change what SetEOS writes. *)
LEMMA EOSSteps ==
    ASSUME [Next]_vars
    PROVE  \/ UNCHANGED <<eos, monitorMutex, abortVars>>
           \/ \E t \in Threads : SetEOSEnter(t) \/ SetEOSAbort(t) \/ SetEOSLeave(t)
<1>1. CASE UNCHANGED vars
    BY <1>1
<1>2. ASSUME NEW t \in Threads, \/ PushBack(t) \/ GetFront(t) \/ Clear(t) \/ ClearTail(t)
                                \/ PopFront(t) \/ Notify(t) \/ SpuriousWakeup(t)
      PROVE  UNCHANGED <<eos, monitorMutex, abortVars>>
    BY <1>2 DEF PushBack, PushBackWait, PushBackReject, PushBackAccept, GetFront,
                GetFrontWait, GetFrontNull, GetFrontTake, Clear, ClearTail, PopFront,
                Notify, NotifyRead, NotifyReport, SpuriousWakeup
<1>3. QED
    BY <1>1, <1>2 DEF Next, SetEOS, Threads

(* The steps that change what the observers are told. *)
LEMMA ReportSteps ==
    ASSUME [Next]_vars
    PROVE  \/ UNCHANGED reportVars
           \/ \E t \in Threads : NotifyRead(t) \/ NotifyReport(t)
<1>1. CASE UNCHANGED vars
    BY <1>1
<1>2. ASSUME NEW t \in Threads, \/ PushBack(t) \/ GetFront(t) \/ Clear(t) \/ ClearTail(t)
                                \/ PopFront(t) \/ SetEOS(t) \/ SpuriousWakeup(t)
      PROVE  UNCHANGED reportVars
    BY <1>2 DEF PushBack, PushBackWait, PushBackReject, PushBackAccept, GetFront,
                GetFrontWait, GetFrontNull, GetFrontTake, Clear, ClearTail, PopFront,
                SetEOS, SetEOSEnter, SetEOSAbort, SetEOSLeave, SpuriousWakeup
<1>3. QED
    BY <1>1, <1>2 DEF Next, Notify, Threads

-----------------------------------------------------------------------------
(* Type correctness *)

LEMMA TypeInit == Init => TypeOK
<1> SUFFICES ASSUME Init PROVE TypeOK
    OBVIOUS
<1>1. QueueType
    BY DEF Init, QueueType
<1>2. ThreadType
    BY DEF Init, ThreadType, Places
<1>3. EOSType
    <2>1. eos \in BOOLEAN
        BY DEF Init
    <2>2. nextAbort \in Nat \ {0} /\ aborted \subseteq Nat
        BY DEF Init
    <2>3. QED
        BY <2>1, <2>2 DEF EOSType
<1>4. ReportType
    BY DEF Init, ReportType
<1>5. QED
    BY <1>1, <1>2, <1>3, <1>4 DEF TypeOK

LEMMA QueueTypeStep == QueueType /\ [Next]_vars => QueueType'
<1> SUFFICES ASSUME QueueType, [Next]_vars PROVE QueueType'
    OBVIOUS
<1> USE DEF QueueType
<1>1. CASE UNCHANGED queueVars
    BY <1>1
<1>2. ASSUME NEW t \in Threads, PushBackAccept(t) PROVE QueueType'
    BY <1>2, AppendFacts DEF PushBackAccept
<1>3. ASSUME NEW t \in Threads, GetFrontTake(t) \/ PopFront(t) PROVE QueueType'
    <2>1. Len(mediaobjects) > 0 /\ TakeHead /\ UNCHANGED <<pushed, dropped>>
        BY <1>3 DEF GetFrontTake, PopFront
    <2>2. /\ Head(mediaobjects) \in Nat
          /\ Tail(mediaobjects) \in Seq(Nat)
          /\ Len(Tail(mediaobjects)) = Len(mediaobjects) - 1
        BY <2>1, TailFacts
    <2>3. mediaobjects' \in Seq(Nat) /\ Len(mediaobjects') <= MaxCapacity
        BY ONLY <2>1, <2>2, QueueType, BufferAssumption DEF QueueType, TakeHead
    <2>4. taken' \subseteq Nat
        BY ONLY <2>1, <2>2, QueueType DEF QueueType, TakeHead
    <2>5. QED
        BY <2>1, <2>3, <2>4
<1>4. ASSUME NEW t \in Threads, Clear(t) PROVE QueueType'
    <2>1. dropped' \subseteq Nat
        BY <1>4, ElementFacts DEF Clear, Queued
    <2>2. QED
        BY <1>4, <2>1 DEF Clear
<1>5. ASSUME NEW t \in Threads, ClearTail(t) PROVE QueueType'
    <2>1. dropped' \subseteq Nat
        BY <1>5, ElementFacts DEF ClearTail
    <2>2. QED
        BY <1>5, <2>1 DEF ClearTail
<1>6. QED
    BY <1>1, <1>2, <1>3, <1>4, <1>5, QueueSteps

LEMMA ThreadTypeStep == ThreadType /\ [Next]_vars => ThreadType'
<1> SUFFICES ASSUME ThreadType, [Next]_vars PROVE ThreadType'
    OBVIOUS
<1> USE DEF ThreadType, Places
<1>1. CASE UNCHANGED vars
    BY <1>1
<1>2. ASSUME NEW t \in Producers, PushBack(t) PROVE ThreadType'
    BY <1>2 DEF PushBack, PushBackWait, PushBackReject, PushBackAccept, Threads
<1>3. ASSUME NEW t \in Consumers, GetFront(t) PROVE ThreadType'
    BY <1>3 DEF GetFront, GetFrontWait, GetFrontNull, GetFrontTake, TakeHead, Threads
<1>4. ASSUME NEW t \in Threads, SetEOS(t) PROVE ThreadType'
    BY <1>4 DEF SetEOS, SetEOSEnter, SetEOSAbort, SetEOSLeave
<1>5. ASSUME NEW t \in Threads, Clear(t) \/ ClearTail(t) \/ PopFront(t) PROVE ThreadType'
    BY <1>5 DEF Clear, ClearTail, PopFront, TakeHead
<1>6. ASSUME NEW t \in Threads, Notify(t) \/ SpuriousWakeup(t) PROVE ThreadType'
    BY <1>6 DEF Notify, NotifyRead, NotifyReport, SpuriousWakeup
<1>7. QED
    BY <1>1, <1>2, <1>3, <1>4, <1>5, <1>6 DEF Next, Threads

LEMMA EOSTypeStep == QueueType /\ EOSType /\ [Next]_vars => EOSType'
<1> SUFFICES ASSUME QueueType, EOSType, [Next]_vars PROVE EOSType'
    OBVIOUS
<1> USE DEF EOSType
<1>1. CASE UNCHANGED <<eos, monitorMutex, abortVars>>
    BY <1>1
<1>2. ASSUME NEW t \in Threads, SetEOSEnter(t) \/ SetEOSAbort(t) \/ SetEOSLeave(t)
      PROVE  EOSType'
    <2>1. eos' \in BOOLEAN
        BY <1>2 DEF SetEOSEnter, SetEOSAbort, SetEOSLeave
    <2>2. nextAbort' \in Nat \ {0}
        BY <1>2 DEF SetEOSEnter, SetEOSAbort, SetEOSLeave
    <2>3. aborted' \subseteq Nat
        <3>1. CASE SetEOSAbort(t)
            <4>1. mediaobjects[nextAbort] \in Nat
                BY <3>1 DEF SetEOSAbort, QueueType
            <4>2. QED
                BY <3>1, <4>1 DEF SetEOSAbort
        <3>2. QED
            BY <1>2, <3>1 DEF SetEOSEnter, SetEOSLeave
    <2>4. QED
        BY <2>1, <2>2, <2>3
<1>3. QED
    BY <1>1, <1>2, EOSSteps

LEMMA ReportTypeStep == QueueType /\ ReportType /\ [Next]_vars => ReportType'
<1> SUFFICES ASSUME QueueType, ReportType, [Next]_vars PROVE ReportType'
    OBVIOUS
<1> USE DEF ReportType
<1>1. CASE UNCHANGED reportVars
    BY <1>1
<1>2. ASSUME NEW t \in Threads, NotifyRead(t) PROVE ReportType'
    BY <1>2, PercentType DEF NotifyRead, QueueType
<1>3. ASSUME NEW t \in Threads, NotifyReport(t) PROVE ReportType'
    BY <1>3 DEF NotifyReport
<1>4. QED
    BY <1>1, <1>2, <1>3, ReportSteps

LEMMA TypeStep == TypeOK /\ [Next]_vars => TypeOK'
    BY QueueTypeStep, ThreadTypeStep, EOSTypeStep, ReportTypeStep DEF TypeOK

(* Every variable keeps its type; in particular the segment buffer never    *)
(* holds more than maxcapacity objects, however many producers wake up.     *)
THEOREM TypeCorrect == Spec => []TypeOK
    BY TypeInit, TypeStep, PTL DEF Spec

-----------------------------------------------------------------------------
(* No lost wakeup *)

LEMMA NoLostWakeupStep == TypeOK /\ NoLostWakeup /\ [Next]_vars => NoLostWakeup'
<1> SUFFICES ASSUME TypeOK, NoLostWakeup, [Next]_vars PROVE NoLostWakeup'
    OBVIOUS
<1> USE DEF NoLostWakeup, TypeOK, QueueType
<1>1. CASE UNCHANGED vars
    BY <1>1
<1>2. ASSUME NEW t \in Producers, PushBackAccept(t) PROVE NoLostWakeup'
    BY <1>2, AppendFacts DEF PushBackAccept
<1>3. ASSUME NEW t \in Producers, PushBackWait(t) \/ PushBackReject(t) PROVE NoLostWakeup'
    BY <1>3 DEF PushBackWait, PushBackReject
<1>4. ASSUME NEW t \in Consumers, GetFrontWait(t) \/ GetFrontNull(t) PROVE NoLostWakeup'
    BY <1>4 DEF GetFrontWait, GetFrontNull
<1>5. ASSUME NEW t \in Threads, GetFrontTake(t) \/ PopFront(t) PROVE NoLostWakeup'
    BY <1>5, TailFacts DEF GetFrontTake, PopFront, TakeHead
<1>6. ASSUME NEW t \in Threads, SetEOS(t) PROVE NoLostWakeup'
    BY <1>6 DEF SetEOS, SetEOSEnter, SetEOSAbort, SetEOSLeave
<1>7. ASSUME NEW t \in Threads, Clear(t) \/ ClearTail(t) PROVE NoLostWakeup'
    BY <1>7 DEF Clear, ClearTail
<1>8. ASSUME NEW t \in Threads, Notify(t) \/ SpuriousWakeup(t) PROVE NoLostWakeup'
    BY <1>8 DEF Notify, NotifyRead, NotifyReport, SpuriousWakeup
<1>9. QED
    BY <1>1, <1>2, <1>3, <1>4, <1>5, <1>6, <1>7, <1>8
    DEF Next, PushBack, GetFront, Threads

(* A producer sleeps only at a full queue and a consumer only at an empty   *)
(* one, and nobody sleeps after the end of the stream: every change that    *)
(* ends a reason to sleep wakes the sleepers within its critical section.   *)
THEOREM WakeupsNotLost == Spec => []NoLostWakeup
<1>1. Init => NoLostWakeup
    BY DEF Init, NoLostWakeup
<1>2. QED
    BY <1>1, NoLostWakeupStep, TypeCorrect, PTL DEF Spec

-----------------------------------------------------------------------------
(* The objects: none lost, none delivered twice, order kept *)

(* What taking the head does to the set of queued objects. *)
LEMMA TakenHead ==
    ASSUME QueueType, InOrder, Len(mediaobjects) > 0, TakeHead
    PROVE  /\ Queued = {Head(mediaobjects)} \cup Queued'
           /\ Head(mediaobjects) \notin Queued'
           /\ \A y \in Queued' : Head(mediaobjects) < y
<1> USE DEF QueueType, Queued, TakeHead
<1>1. /\ Head(mediaobjects) = mediaobjects[1]
      /\ Len(mediaobjects') = Len(mediaobjects) - 1
      /\ \A i \in 1..Len(mediaobjects') : mediaobjects'[i] = mediaobjects[i + 1]
    BY TailFacts
<1>2. \A y \in Queued' : \E i \in 2..Len(mediaobjects) : y = mediaobjects[i]
    BY <1>1
<1>3. \A i \in 2..Len(mediaobjects) : mediaobjects[i] \in Queued'
    <2>1. SUFFICES ASSUME NEW i \in 2..Len(mediaobjects)
                   PROVE  mediaobjects[i] \in Queued'
        OBVIOUS
    <2>2. i - 1 \in 1..Len(mediaobjects') /\ mediaobjects'[i - 1] = mediaobjects[i]
        BY <1>1
    <2>3. QED
        BY <2>2
<1>4. \A y \in Queued' : Head(mediaobjects) < y
    BY <1>1, <1>2 DEF InOrder
<1>5. Queued = {Head(mediaobjects)} \cup Queued'
    <2>1. ASSUME NEW i \in 1..Len(mediaobjects)
          PROVE  mediaobjects[i] \in {Head(mediaobjects)} \cup Queued'
        <3>1. CASE i = 1
            BY <1>1, <3>1
        <3>2. CASE i \in 2..Len(mediaobjects)
            BY <1>3, <3>2
        <3>3. QED
            BY <3>1, <3>2
    <2>2. Queued \subseteq {Head(mediaobjects)} \cup Queued'
        BY <2>1
    <2>3. Head(mediaobjects) \in Queued
        BY <1>1
    <2>4. Queued' \subseteq Queued
        BY <1>2
    <2>5. QED
        BY ONLY <2>2, <2>3, <2>4
<1>6. Head(mediaobjects) \notin Queued'
    <2>1. Head(mediaobjects) \in Nat
        BY <1>1
    <2>2. Head(mediaobjects) \in Queued' => Head(mediaobjects) < Head(mediaobjects)
        BY <1>4
    <2>3. QED
        BY ONLY <2>1, <2>2
<1>7. QED
    BY <1>4, <1>5, <1>6

LEMMA ConservedStep ==
    TypeOK /\ Conserved /\ InOrder /\ [Next]_vars => Conserved' /\ InOrder'
<1> SUFFICES ASSUME TypeOK, Conserved, InOrder, [Next]_vars
             PROVE  Conserved' /\ InOrder'
    OBVIOUS
<1> USE DEF TypeOK, QueueType
<1>1. CASE UNCHANGED queueVars
    BY <1>1 DEF Conserved, InOrder, Queued
<1>2. ASSUME NEW t \in Threads, PushBackAccept(t) PROVE Conserved' /\ InOrder'
    <2>1. /\ mediaobjects' = Append(mediaobjects, pushed + 1)
          /\ pushed' = pushed + 1
          /\ UNCHANGED <<taken, dropped>>
        BY <1>2 DEF PushBackAccept
    <2>2. /\ Len(mediaobjects') = Len(mediaobjects) + 1
          /\ \A i \in 1..Len(mediaobjects) : mediaobjects'[i] = mediaobjects[i]
          /\ mediaobjects'[Len(mediaobjects) + 1] = pushed + 1
        BY <2>1, AppendFacts
    <2>3. Queued' = Queued \cup {pushed + 1}
        BY <2>2 DEF Queued
    <2>4. Queued \cup taken \cup dropped = 1..pushed
        BY DEF Conserved
    <2>5. Conserved'
        BY <2>1, <2>3 DEF Conserved
    <2>6. ASSUME NEW i \in 1..Len(mediaobjects'), NEW j \in 1..Len(mediaobjects'), i < j
          PROVE  mediaobjects'[i] < mediaobjects'[j]
        <3>1. i \in 1..Len(mediaobjects) /\ mediaobjects'[i] = mediaobjects[i]
            BY <2>2, <2>6
        <3>2. mediaobjects[i] \in 1..pushed
            BY <2>4, <3>1 DEF Queued
        <3>3. CASE j = Len(mediaobjects) + 1
            BY <2>2, <3>1, <3>2, <3>3
        <3>4. CASE j \in 1..Len(mediaobjects)
            BY <2>2, <2>6, <3>1, <3>4 DEF InOrder
        <3>5. QED
            BY <2>2, <3>3, <3>4
    <2>7. \A x \in taken', y \in Queued' : x < y
        BY <2>1, <2>3, <2>4 DEF InOrder
    <2>8. QED
        BY <2>5, <2>6, <2>7 DEF InOrder
<1>3. ASSUME NEW t \in Threads, GetFrontTake(t) \/ PopFront(t) PROVE Conserved' /\ InOrder'
    <2>1. Len(mediaobjects) > 0 /\ TakeHead /\ UNCHANGED <<pushed, dropped>>
        BY <1>3 DEF GetFrontTake, PopFront
    <2>2. /\ Queued = {Head(mediaobjects)} \cup Queued'
          /\ Head(mediaobjects) \notin Queued'
          /\ \A y \in Queued' : Head(mediaobjects) < y
        BY <2>1, TakenHead
    <2>3. taken' = taken \cup {Head(mediaobjects)}
        BY <2>1 DEF TakeHead
    <2>4. Conserved'
        BY <2>1, <2>2, <2>3 DEF Conserved
    <2>5. /\ Len(mediaobjects') = Len(mediaobjects) - 1
          /\ \A i \in 1..Len(mediaobjects') : mediaobjects'[i] = mediaobjects[i + 1]
        BY <2>1, TailFacts DEF TakeHead
    <2>6. ASSUME NEW i \in 1..Len(mediaobjects'), NEW j \in 1..Len(mediaobjects'), i < j
          PROVE  mediaobjects'[i] < mediaobjects'[j]
        <3>1. i + 1 \in 1..Len(mediaobjects) /\ j + 1 \in 1..Len(mediaobjects) /\ i + 1 < j + 1
            BY <2>1, <2>5, <2>6
        <3>2. mediaobjects[i + 1] < mediaobjects[j + 1]
            BY <3>1 DEF InOrder
        <3>3. QED
            BY <2>5, <3>2
    <2>7. \A x \in taken', y \in Queued' : x < y
        BY <2>2, <2>3 DEF InOrder
    <2>8. QED
        BY <2>4, <2>6, <2>7 DEF InOrder
<1>4. ASSUME NEW t \in Threads, Clear(t) PROVE Conserved' /\ InOrder'
    <2>1. /\ mediaobjects' = <<>>
          /\ dropped' = dropped \cup Queued
          /\ UNCHANGED <<pushed, taken>>
        BY <1>4 DEF Clear
    <2>2. Queued' = {}
        BY <2>1 DEF Queued
    <2>3. QED
        BY <2>1, <2>2 DEF Conserved, InOrder
<1>5. ASSUME NEW t \in Threads, ClearTail(t) PROVE Conserved' /\ InOrder'
    <2>1. /\ Len(mediaobjects) > 1
          /\ mediaobjects' = <<Head(mediaobjects)>>
          /\ dropped' = dropped \cup {mediaobjects[i] : i \in 2..Len(mediaobjects)}
          /\ UNCHANGED <<pushed, taken>>
        BY <1>5 DEF ClearTail
    <2>2. Queued' = {mediaobjects[1]} /\ mediaobjects[1] \in Queued
        BY <2>1, TailFacts DEF Queued
    <2>3. Queued = Queued' \cup {mediaobjects[i] : i \in 2..Len(mediaobjects)}
        BY <2>1, <2>2 DEF Queued
    <2>4. mediaobjects[1] \notin {mediaobjects[i] : i \in 2..Len(mediaobjects)}
        <3>1. ASSUME NEW i \in 2..Len(mediaobjects) PROVE mediaobjects[1] < mediaobjects[i]
            BY <2>1 DEF InOrder
        <3>2. mediaobjects[1] \in Nat
            BY <2>1
        <3>3. QED
            BY <3>1, <3>2
    <2>5. Conserved'
        BY <2>1, <2>2, <2>3, <2>4 DEF Conserved
    <2>6. InOrder'
        BY <2>1, <2>2 DEF InOrder
    <2>7. QED
        BY <2>5, <2>6
<1>6. QED
    BY <1>1, <1>2, <1>3, <1>4, <1>5, QueueSteps

(* Every accepted media object is queued, taken once, or deleted, and the   *)
(* objects leave in the order they were accepted.                           *)
THEOREM ObjectsConserved == Spec => [](Conserved /\ InOrder)
<1>1. Init => Conserved /\ InOrder
    BY DEF Init, Conserved, InOrder, Queued
<1>2. QED
    BY <1>1, ConservedStep, TypeCorrect, PTL DEF Spec

-----------------------------------------------------------------------------
(* Closing the queue *)

(* Inside SetEOS the queue stands still, since every operation on it needs   *)
(* the mutex.                                                                *)
LEMMA QueueStandsStill ==
    ASSUME [Next]_vars, monitorMutex # NoThread
    PROVE  UNCHANGED queueVars
    BY QueueSteps DEF PushBackAccept, GetFrontTake, PopFront, Clear, ClearTail

(* Who is inside SetEOS: entering and leaving are the only steps that take   *)
(* or release the mutex.                                                     *)
LEMMA MutexStep ==
    ASSUME TypeOK, AbortPrefix, [Next]_vars
    PROVE  \A t \in Threads : (pc[t] = "SetEOS" <=> monitorMutex = t)'
<1> USE DEF TypeOK, ThreadType, AbortPrefix
<1>1. CASE UNCHANGED vars
    BY <1>1
<1>2. ASSUME NEW t \in Threads, \/ PushBack(t) \/ GetFront(t) \/ Clear(t) \/ ClearTail(t)
                                \/ PopFront(t) \/ Notify(t) \/ SpuriousWakeup(t)
      PROVE  \A u \in Threads : (pc[u] = "SetEOS" <=> monitorMutex = u)'
    <2>1. /\ monitorMutex' = monitorMutex
          /\ pc'[t] # "SetEOS" \/ pc' = pc
          /\ pc[t] # "SetEOS" \/ pc' = pc
          /\ \A u \in Threads \ {t} : pc'[u] = pc[u]
        BY <1>2 DEF PushBack, PushBackWait, PushBackReject, PushBackAccept, GetFront,
                    GetFrontWait, GetFrontNull, GetFrontTake, Clear, ClearTail, PopFront,
                    Notify, NotifyRead, NotifyReport, SpuriousWakeup
    <2>2. QED
        BY <2>1
<1>3. ASSUME NEW t \in Threads, SetEOS(t)
      PROVE  \A u \in Threads : (pc[u] = "SetEOS" <=> monitorMutex = u)'
    BY <1>3 DEF SetEOS, SetEOSEnter, SetEOSAbort, SetEOSLeave
<1>4. QED
    BY <1>1, <1>2, <1>3 DEF Next, Threads

LEMMA AbortPrefixStep == TypeOK /\ AbortPrefix /\ [Next]_vars => AbortPrefix'
<1> SUFFICES ASSUME TypeOK, AbortPrefix, [Next]_vars PROVE AbortPrefix'
    OBVIOUS
<1> DEFINE Prefix == /\ monitorMutex = NoThread => nextAbort = 1
                     /\ monitorMutex # NoThread =>
                           /\ nextAbort <= Len(mediaobjects) + 1
                           /\ aborted = {mediaobjects[i] : i \in 1..(nextAbort - 1)}
<1>1. \A t \in Threads : (pc[t] = "SetEOS" <=> monitorMutex = t)'
    BY MutexStep
<1>2. Prefix'
    <2>1. CASE UNCHANGED <<eos, monitorMutex, abortVars>>
        BY <2>1, QueueStandsStill DEF AbortPrefix
    <2>2. ASSUME NEW t \in Threads, SetEOSEnter(t) PROVE Prefix'
        <3>1. /\ monitorMutex = NoThread /\ monitorMutex' = t
              /\ aborted' = {} /\ nextAbort' = nextAbort /\ mediaobjects' = mediaobjects
            BY <2>2 DEF SetEOSEnter
        <3>2. nextAbort' = 1
            BY <3>1 DEF AbortPrefix
        <3>3. QED
            BY <3>1, <3>2 DEF TypeOK, QueueType
    <2>3. ASSUME NEW t \in Threads, SetEOSAbort(t) PROVE Prefix'
        <3>1. monitorMutex # NoThread
            BY <2>3 DEF SetEOSAbort, AbortPrefix
        <3>2. /\ nextAbort \in Nat \ {0} /\ nextAbort <= Len(mediaobjects)
              /\ aborted' = aborted \cup {mediaobjects[nextAbort]}
              /\ nextAbort' = nextAbort + 1
              /\ UNCHANGED <<mediaobjects, monitorMutex>>
            BY <2>3 DEF SetEOSAbort, TypeOK, EOSType
        <3>3. aborted = {mediaobjects[i] : i \in 1..(nextAbort - 1)}
            BY <3>1 DEF AbortPrefix
        <3>4. 1..nextAbort = 1..(nextAbort - 1) \cup {nextAbort}
            BY <3>2
        <3>5. aborted' = {mediaobjects[i] : i \in 1..nextAbort}
            BY <3>2, <3>3, <3>4
        <3>6. nextAbort' <= Len(mediaobjects') + 1
            BY <3>2 DEF TypeOK, QueueType
        <3>7. QED
            BY <3>1, <3>2, <3>5, <3>6
    <2>4. ASSUME NEW t \in Threads, SetEOSLeave(t) PROVE Prefix'
        BY <2>4 DEF SetEOSLeave
    <2>5. QED
        BY <2>1, <2>2, <2>3, <2>4, EOSSteps
<1>3. QED
    BY <1>1, <1>2 DEF AbortPrefix

(* SetEOS holds the mutex from its first abort to its last, and has aborted  *)
(* exactly the front part of the queue its loop went through.                *)
THEOREM AbortsInPlace == Spec => []AbortPrefix
<1>1. Init => AbortPrefix
    BY DEF Init, AbortPrefix
<1>2. QED
    BY <1>1, AbortPrefixStep, TypeCorrect, PTL DEF Spec

(* At the moment the end of the stream is set, every object still queued has *)
(* been aborted.                                                             *)
THEOREM NoDownloadSlipsIn == Spec => AbortedBeforeEOS
<1>1. ASSUME TypeOK, AbortPrefix, [Next]_vars, ~eos, eos'
      PROVE  Queued' \subseteq aborted'
    <2>1. PICK t \in Threads : SetEOSLeave(t)
        BY <1>1, EOSSteps DEF SetEOSEnter, SetEOSAbort
    <2>2. /\ monitorMutex # NoThread
          /\ nextAbort > Len(mediaobjects)
          /\ UNCHANGED <<mediaobjects, aborted>>
        BY <1>1, <2>1 DEF SetEOSLeave, AbortPrefix
    <2>3. /\ nextAbort - 1 = Len(mediaobjects)
          /\ aborted = {mediaobjects[i] : i \in 1..(nextAbort - 1)}
        BY <1>1, <2>2 DEF AbortPrefix, TypeOK, QueueType, EOSType
    <2>4. QED
        BY <2>2, <2>3 DEF Queued
<1>2. TypeOK /\ AbortPrefix /\ [Next]_vars => [~eos /\ eos' => Queued' \subseteq aborted']_vars
    BY <1>1
<1>3. QED
    BY <1>2, TypeCorrect, AbortsInPlace, PTL DEF Spec, AbortedBeforeEOS

-----------------------------------------------------------------------------
(* Reporting the fill level *)

LEMMA FillReportedStep == TypeOK /\ FillReported /\ [Next]_vars => FillReported'
<1> SUFFICES ASSUME TypeOK, FillReported, [Next]_vars PROVE FillReported'
    OBVIOUS
<1> USE DEF TypeOK, ThreadType, ReportType, FillReported
<1>1. CASE UNCHANGED vars
    BY <1>1 DEF Percent
<1>2. ASSUME NEW t \in Threads, \/ PushBackAccept(t) \/ GetFrontTake(t) \/ PopFront(t)
                                \/ Clear(t) \/ ClearTail(t)
      PROVE  FillReported'
    <2>1. pc'[t] = "Notify"
        BY <1>2 DEF PushBackAccept, GetFrontTake, PopFront, Clear, ClearTail
    <2>2. QED
        BY <2>1
<1>3. ASSUME NEW t \in Threads, \/ PushBackWait(t) \/ PushBackReject(t) \/ GetFrontWait(t)
                                \/ GetFrontNull(t) \/ SetEOS(t) \/ SpuriousWakeup(t)
      PROVE  FillReported'
    <2>1. /\ UNCHANGED <<mediaobjects, fill, staleFill>>
          /\ \A u \in Threads : pc[u] \in {"Notify", "Report"} => pc'[u] = pc[u]
        BY <1>3 DEF PushBackWait, PushBackReject, GetFrontWait, GetFrontNull, SetEOS,
                    SetEOSEnter, SetEOSAbort, SetEOSLeave, SpuriousWakeup
    <2>2. QED
        BY <2>1 DEF Percent
<1>4. ASSUME NEW t \in Threads, NotifyRead(t) PROVE FillReported'
    <2>1. pc'[t] = "Report"
        BY <1>4 DEF NotifyRead
    <2>2. QED
        BY <2>1
<1>5. ASSUME NEW t \in Threads, NotifyReport(t) PROVE FillReported'
    <2>1. /\ fill' = seen[t]
          /\ staleFill' = (seen[t] # Percent(Len(mediaobjects)))
          /\ mediaobjects' = mediaobjects
        BY <1>5 DEF NotifyReport
    <2>2. staleFill' \/ fill' = Percent(Len(mediaobjects'))
        BY <2>1
    <2>3. QED
        BY <2>2 DEF Percent
<1>6. QED
    BY <1>1, <1>2, <1>3, <1>4, <1>5 DEF Next, PushBack, GetFront, Notify, Threads

(* No change of the queue's size goes unreported: at rest the observers know *)
(* the fill level, unless the last report was overtaken by a change.         *)
THEOREM SizesReported == Spec => []FillReported
<1>1. Init => FillReported
    BY DEF Init, FillReported, Percent
<1>2. QED
    BY <1>1, FillReportedStep, TypeCorrect, PTL DEF Spec

-----------------------------------------------------------------------------
(* The abstract queue *)

(* How a step of the program counter shows in the abstract caller states.    *)
LEMMA BlockedStep ==
    ASSUME ThreadType, NEW t \in Threads, NEW place \in Places, pc' = [pc EXCEPT ![t] = place]
    PROVE  Blocked' = [Blocked EXCEPT ![t] = CASE place = "PushBack" -> "put"
                                               [] place = "GetFront" -> "get"
                                               [] OTHER -> "nothing"]
    BY DEF Blocked, ThreadType, Places

(* Every step of the monitor is a step of the abstract queue or leaves it    *)
(* unchanged.                                                                *)
LEMMA QueueStep == TypeOK /\ [Next]_vars => [Queue!Next]_Queue!vars
<1> SUFFICES ASSUME TypeOK, [Next]_vars PROVE [Queue!Next]_Queue!vars
    OBVIOUS
<1> USE DEF TypeOK, QueueType, ThreadType, Places, Queue!vars
<1>1. CASE UNCHANGED vars
    BY <1>1 DEF Blocked
<1>2. ASSUME NEW t \in Producers, PushBack(t) PROVE [Queue!Next]_Queue!vars
    <2>1. t \in Threads
        BY DEF Threads
    <2>2. CASE PushBackWait(t)
        <3>1. Blocked' = [Blocked EXCEPT ![t] = "put"]
            BY <2>1, <2>2, BlockedStep DEF PushBackWait
        <3>2. CASE pc[t] = "idle"
            <4>1. Queue!PutBlocks(t)
                BY <2>1, <2>2, <3>1, <3>2 DEF PushBackWait, Queue!PutBlocks, Queue!Block, Blocked
            <4>2. QED
                BY <4>1 DEF Queue!Next
        <3>3. CASE pc[t] = "PushBack"
            BY <2>1, <2>2, <3>1, <3>3 DEF PushBackWait, Blocked
        <3>4. QED
            BY <2>2, <3>2, <3>3 DEF PushBackWait
    <2>3. CASE PushBackReject(t)
        <3>1. Blocked' = [Blocked EXCEPT ![t] = "nothing"]
            BY <2>1, <2>3, BlockedStep DEF PushBackReject
        <3>2. Queue!PutRefused(t)
            BY <2>1, <2>3, <3>1 DEF PushBackReject, Queue!PutRefused, Queue!Return, Blocked
        <3>3. QED
            BY <3>2 DEF Queue!Next, Queue!PutReturns
    <2>4. CASE PushBackAccept(t)
        <3>1. Blocked' = [Blocked EXCEPT ![t] = "nothing"]
            BY <2>1, <2>4, BlockedStep DEF PushBackAccept
        <3>2. Queue!PutAccepted(t)
            BY <2>1, <2>4, <3>1 DEF PushBackAccept, Queue!PutAccepted, Queue!Return, Blocked
        <3>3. QED
            BY <3>2 DEF Queue!Next, Queue!PutReturns
    <2>5. QED
        BY <1>2, <2>2, <2>3, <2>4 DEF PushBack
<1>3. ASSUME NEW t \in Consumers, GetFront(t) PROVE [Queue!Next]_Queue!vars
    <2>1. t \in Threads
        BY DEF Threads
    <2>2. CASE GetFrontWait(t)
        <3>1. Blocked' = [Blocked EXCEPT ![t] = "get"]
            BY <2>1, <2>2, BlockedStep DEF GetFrontWait
        <3>2. CASE pc[t] = "idle"
            <4>1. Queue!GetBlocks(t)
                BY <2>1, <2>2, <3>1, <3>2 DEF GetFrontWait, Queue!GetBlocks, Queue!Block, Blocked
            <4>2. QED
                BY <4>1 DEF Queue!Next
        <3>3. CASE pc[t] = "GetFront"
            BY <2>1, <2>2, <3>1, <3>3 DEF GetFrontWait, Blocked
        <3>4. QED
            BY <2>2, <3>2, <3>3 DEF GetFrontWait
    <2>3. CASE GetFrontNull(t)
        <3>1. Blocked' = [Blocked EXCEPT ![t] = "nothing"]
            BY <2>1, <2>3, BlockedStep DEF GetFrontNull
        <3>2. Queue!GetNothing(t)
            BY <2>1, <2>3, <3>1 DEF GetFrontNull, Queue!GetNothing, Queue!Return, Blocked
        <3>3. QED
            BY <3>2 DEF Queue!Next, Queue!GetReturns
    <2>4. CASE GetFrontTake(t)
        <3>1. Blocked' = [Blocked EXCEPT ![t] = "nothing"]
            BY <2>1, <2>4, BlockedStep DEF GetFrontTake
        <3>2. Queue!GetHead(t)
            BY <2>1, <2>4, <3>1 DEF GetFrontTake, TakeHead, Queue!GetHead, Queue!Return, Blocked
        <3>3. QED
            BY <3>2 DEF Queue!Next, Queue!GetReturns
    <2>5. QED
        BY <1>3, <2>2, <2>3, <2>4 DEF GetFront
<1>4. ASSUME NEW t \in Controllers, PopFront(t) PROVE [Queue!Next]_Queue!vars
    <2>1. t \in Threads
        BY DEF Threads
    <2>2. Blocked' = [Blocked EXCEPT ![t] = "nothing"]
        BY <1>4, <2>1, BlockedStep DEF PopFront
    <2>3. Queue!GetHead(t)
        BY <1>4, <2>1, <2>2 DEF PopFront, TakeHead, Queue!GetHead, Queue!Return, Blocked
    <2>4. QED
        BY <2>3 DEF Queue!Next
<1>5. ASSUME NEW t \in Threads, SetEOS(t) PROVE [Queue!Next]_Queue!vars
    <2>1. Blocked' = Blocked
        BY <1>5 DEF SetEOS, SetEOSEnter, SetEOSAbort, SetEOSLeave, Blocked
    <2>2. UNCHANGED Queue!vars \/ Queue!Close
        BY <1>5, <2>1 DEF SetEOS, SetEOSEnter, SetEOSAbort, SetEOSLeave, Queue!Close
    <2>3. QED
        BY <2>2 DEF Queue!Next
<1>6. ASSUME NEW t \in Threads, Clear(t) \/ ClearTail(t) PROVE [Queue!Next]_Queue!vars
    <2>1. Blocked' = Blocked
        BY <1>6 DEF Clear, ClearTail, Blocked
    <2>2. (mediaobjects = <<>> /\ mediaobjects' = <<>>) \/ Queue!Discard
        BY <1>6, <2>1 DEF Clear, ClearTail, Queue!Discard
    <2>3. QED
        BY <1>6, <2>1, <2>2 DEF Clear, ClearTail, Queue!Next
<1>7. ASSUME NEW t \in Threads, Notify(t) \/ SpuriousWakeup(t) PROVE UNCHANGED Queue!vars
    <2>1. Blocked' = Blocked
        BY <1>7 DEF Notify, NotifyRead, NotifyReport, SpuriousWakeup, Blocked
    <2>2. QED
        BY <1>7, <2>1 DEF Notify, NotifyRead, NotifyReport, SpuriousWakeup
<1>8. QED
    BY <1>1, <1>2, <1>3, <1>4, <1>5, <1>6, <1>7 DEF Next, Threads

(* The segment buffer implements the abstract queue.                         *)
THEOREM BufferImplementsQueue == Spec => ImplementsQueue
<1>1. Init => Queue!Init
    BY DEF Init, Queue!Init, Queue!Callers, Threads, Blocked
<1>2. QED
    BY <1>1, QueueStep, TypeCorrect, PTL DEF Spec, ImplementsQueue, Queue!Spec
=============================================================================
