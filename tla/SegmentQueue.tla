---------------------------- MODULE SegmentQueue ----------------------------
(***************************************************************************)
(* What the segment buffer promises the threads on its two sides: a        *)
(* bounded first-in first-out queue that can be closed, and whose callers  *)
(* wait exactly as long as they must.  There is no mutex, no wait set and  *)
(* no wakeup here: a blocked call returns once its condition holds, and    *)
(* how it learns of that is the implementation's affair.                   *)
(***************************************************************************)
EXTENDS Naturals, Sequences

CONSTANTS Producers, Consumers, Controllers, Capacity

Callers == Producers \cup Consumers \cup Controllers

VARIABLES queue,     \* accepted objects, numbered in the order of acceptance
          accepted,  \* how many were accepted
          closed,    \* no call waits any more
          blocked    \* what each caller waits to do: "put", "get" or "nothing"

vars == <<queue, accepted, closed, blocked>>

Init ==
    /\ queue = <<>>
    /\ accepted = 0
    /\ closed = FALSE
    /\ blocked = [t \in Callers |-> "nothing"]

Block(t, what) == blocked[t] = "nothing" /\ blocked' = [blocked EXCEPT ![t] = what]

Return(t, what) ==
    /\ blocked[t] \in {"nothing", what}
    /\ blocked' = [blocked EXCEPT ![t] = "nothing"]

PutBlocks(t) ==
    /\ Len(queue) >= Capacity /\ ~closed
    /\ Block(t, "put")
    /\ UNCHANGED <<queue, accepted, closed>>

PutAccepted(t) ==
    /\ Len(queue) < Capacity
    /\ queue' = Append(queue, accepted + 1)
    /\ accepted' = accepted + 1
    /\ Return(t, "put")
    /\ UNCHANGED closed

PutRefused(t) ==
    /\ Len(queue) >= Capacity /\ closed
    /\ Return(t, "put")
    /\ UNCHANGED <<queue, accepted, closed>>

GetBlocks(t) ==
    /\ queue = <<>> /\ ~closed
    /\ Block(t, "get")
    /\ UNCHANGED <<queue, accepted, closed>>

GetHead(t) ==
    /\ queue # <<>>
    /\ queue' = Tail(queue)
    /\ Return(t, "get")
    /\ UNCHANGED <<accepted, closed>>

GetNothing(t) ==
    /\ queue = <<>> /\ closed
    /\ Return(t, "get")
    /\ UNCHANGED <<queue, accepted, closed>>

Close ==
    /\ closed' = TRUE
    /\ UNCHANGED <<queue, accepted, blocked>>

\* A caller that is not blocked discards the queue, or all of it but the head.
Discard ==
    /\ queue # <<>>
    /\ queue' \in {<<>>, <<Head(queue)>>}
    /\ UNCHANGED <<accepted, closed, blocked>>

PutReturns(t) == PutAccepted(t) \/ PutRefused(t)
GetReturns(t) == GetHead(t) \/ GetNothing(t)

Next ==
    \/ \E t \in Producers : PutBlocks(t) \/ PutReturns(t)
    \/ \E t \in Consumers : GetBlocks(t) \/ GetReturns(t)
    \/ \E t \in Controllers : GetHead(t)
    \/ Close
    \/ Discard

Spec == Init /\ [][Next]_vars

\* A blocked call that can go on for good eventually returns.
Fairness ==
    /\ \A t \in Producers : WF_vars(blocked[t] = "put" /\ PutReturns(t))
    /\ \A t \in Consumers : WF_vars(blocked[t] = "get" /\ GetReturns(t))

FairSpec == Spec /\ Fairness
=============================================================================
