------------------------------ MODULE ByteChannel ------------------------------
(* What the ring between the two cores promises: a channel that holds at most      *)
(* Capacity bytes, accepts bytes in order and delivers them in that order.  The    *)
(* n-th byte of the stream is the number n.                                        *)
EXTENDS Naturals

CONSTANT Capacity

VARIABLES sent, received, delivered   \* delivered: the bytes of the last delivery

Init == sent = 0 /\ received = 0 /\ delivered = {}

Send(n) ==
    /\ sent + n - received <= Capacity
    /\ sent' = sent + n
    /\ UNCHANGED <<received, delivered>>

Receive(n) ==
    /\ received + n <= sent
    /\ received' = received + n
    /\ delivered' = received .. (received + n - 1)
    /\ UNCHANGED sent

Next == \E n \in 1..Capacity : Send(n) \/ Receive(n)
Spec == Init /\ [][Next]_<<sent, received, delivered>>
================================================================================
