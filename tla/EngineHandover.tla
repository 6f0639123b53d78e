---------------------------- MODULE EngineHandover ----------------------------
(* What the retirement path promises: Core 1 gives an engine away at most once *)
(* and only while there is room, Core 0 takes engines in the order they were   *)
(* given, and an engine it takes is destroyed after it stopped, or kept (in    *)
(* the quarantine, or for ever) when it does not stop.                         *)
EXTENDS Sequences, FiniteSets, Naturals

CONSTANTS
    Engines,            \* engine objects Core 1 owns at the start
    Capacity,           \* engines the queue holds
    QuarantineCapacity  \* engines the quarantine holds

VARIABLES owned, queue, stopping, quarantine, leaked, destroyed

vars == <<owned, queue, stopping, quarantine, leaked, destroyed>>

Init ==
    /\ owned = Engines
    /\ queue = <<>>
    /\ stopping = {}
    /\ quarantine = {}
    /\ leaked = {}
    /\ destroyed = {}

GiveAway(e) ==
    /\ e \in owned
    /\ Len(queue) < Capacity
    /\ owned' = owned \ {e}
    /\ queue' = Append(queue, e)
    /\ UNCHANGED <<stopping, quarantine, leaked, destroyed>>

Take ==
    /\ queue # <<>>
    /\ stopping = {}
    /\ stopping' = {Head(queue)}
    /\ queue' = Tail(queue)
    /\ UNCHANGED <<owned, quarantine, leaked, destroyed>>

Stopped ==
    /\ stopping # {}
    /\ destroyed' = destroyed \cup stopping
    /\ stopping' = {}
    /\ UNCHANGED <<owned, queue, quarantine, leaked>>

Stuck ==
    /\ stopping # {}
    /\ IF Cardinality(quarantine) < QuarantineCapacity
       THEN quarantine' = quarantine \cup stopping /\ leaked' = leaked
       ELSE leaked' = leaked \cup stopping /\ quarantine' = quarantine
    /\ stopping' = {}
    /\ UNCHANGED <<owned, queue, destroyed>>

StoppedLate(S) ==
    /\ quarantine' = quarantine \ S
    /\ destroyed' = destroyed \cup S
    /\ UNCHANGED <<owned, queue, stopping, leaked>>

Next ==
    \/ \E e \in owned : GiveAway(e)
    \/ Take \/ Stopped \/ Stuck
    \/ \E S \in SUBSET quarantine : StoppedLate(S)

Spec == Init /\ [][Next]_vars
=============================================================================
