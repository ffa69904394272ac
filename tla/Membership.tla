----------------------------- MODULE Membership -----------------------------
(***************************************************************************)
(* What the rooms of the server promise, with no goroutines, sessions or   *)
(* tables: everybody is in at most one room, a room starts with its        *)
(* creator, holds at most Capacity people, disappears with the last of     *)
(* them, and never comes back.                                             *)
(***************************************************************************)
EXTENDS Naturals, FiniteSets

CONSTANTS Person, Place, Nowhere, Capacity

VARIABLES
    where,      \* the room each person is in
    open,       \* the rooms that exist
    used        \* the rooms that have ever existed

mVars == <<where, open, used>>

In(r) == {u \in Person : where[u] = r}

MInit ==
    /\ where = [u \in Person |-> Nowhere]
    /\ open = {} /\ used = {}

Start(u, r) ==
    /\ where[u] = Nowhere
    /\ r \in Place \ used
    /\ where' = [where EXCEPT ![u] = r]
    /\ open' = open \cup {r}
    /\ used' = used \cup {r}

Enter(u, r) ==
    /\ where[u] = Nowhere
    /\ r \in open
    /\ In(r) # {}
    /\ Cardinality(In(r)) < Capacity
    /\ where' = [where EXCEPT ![u] = r]
    /\ UNCHANGED <<open, used>>

Exit(u, r) ==
    /\ where[u] = r
    /\ r \in open
    /\ where' = [where EXCEPT ![u] = Nowhere]
    /\ open' = IF In(r) = {u} THEN open \ {r} ELSE open
    /\ UNCHANGED used

MNext == \E u \in Person, r \in Place : Start(u, r) \/ Enter(u, r) \/ Exit(u, r)

MSpec == MInit /\ [][MNext]_mVars
=============================================================================
