-------------------------- MODULE OrderedDelivery --------------------------
(***************************************************************************)
(* What one direction of a reliable channel promises, without sequence      *)
(* numbers, windows, proofs or retransmission: messages are accepted one    *)
(* after the other, and the other side sees a growing prefix of them until  *)
(* its end is closed.                                                       *)
(***************************************************************************)
EXTENDS Naturals, Sequences

VARIABLES
    accepted,   \* how many messages the sender has put on the wire
    delivered,  \* the messages the receiver's handlers have seen, in order
    closed      \* whether the receiving end is closed

vars == <<accepted, delivered, closed>>

FirstMessages(n) == [i \in 1..n |-> i]

Init == accepted = 0 /\ delivered = << >> /\ closed = FALSE

Accept ==
    /\ accepted' = accepted + 1
    /\ UNCHANGED <<delivered, closed>>

\* One or more messages become deliverable at once when a gap is filled.
Deliver ==
    /\ ~closed
    /\ \E n \in (Len(delivered) + 1)..accepted : delivered' = FirstMessages(n)
    /\ UNCHANGED <<accepted, closed>>

Close ==
    /\ ~closed
    /\ closed' = TRUE
    /\ UNCHANGED <<accepted, delivered>>

Next == Accept \/ Deliver \/ Close

Spec == Init /\ [][Next]_vars
=============================================================================
