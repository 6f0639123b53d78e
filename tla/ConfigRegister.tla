---------------------------- MODULE ConfigRegister ----------------------------
(* What ConfigLoader promises the tasks of the firmware: a register that holds *)
(* the last published configuration.  A mutator changes the live fields, a    *)
(* publication copies all of them into the register at once, a borrow returns *)
(* the register's value at one instant and that value does not change until   *)
(* the borrow ends.  A configuration is the number of mutations it contains.  *)
EXTENDS Naturals

CONSTANTS
    Guards,     \* ConfigSnapshotGuard objects, over all tasks
    NoView      \* what a guard shows while it borrows nothing; not a number

VARIABLES
    live,       \* mutations applied to the public fields of ConfigLoader
    published,  \* mutations contained in the current snapshot
    view        \* view[g]: mutations contained in the snapshot g borrows

vars == <<live, published, view>>

TypeOK ==
    /\ live \in Nat
    /\ published \in Nat
    /\ view \in [Guards -> Nat \cup {NoView}]

Init ==
    /\ live = 0
    /\ published = 0
    /\ view = [g \in Guards |-> NoView]

Mutate ==
    /\ live' = live + 1
    /\ UNCHANGED <<published, view>>

Publish ==
    /\ published' = live
    /\ UNCHANGED <<live, view>>

Borrow(g) ==
    /\ view[g] = NoView
    /\ view' = [view EXCEPT ![g] = published]
    /\ UNCHANGED <<live, published>>

Return(g) ==
    /\ view[g] # NoView
    /\ view' = [view EXCEPT ![g] = NoView]
    /\ UNCHANGED <<live, published>>

Next ==
    \/ Mutate
    \/ Publish
    \/ \E g \in Guards : Borrow(g) \/ Return(g)

Spec == Init /\ [][Next]_vars
=============================================================================
