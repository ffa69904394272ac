--------------------------- MODULE MCTransactions ---------------------------
(* Instances of Transactions for TLC. *)
EXTENDS Transactions, TLC

Symmetric ==
    Permutations(User) \cup Permutations(UserName)
        \cup Permutations(Room) \cup Permutations(RoomName)
=============================================================================
