------------------------------- MODULE MCChat -------------------------------
(***************************************************************************)
(* Instances of Chat for TLC.  They start in the middle of a conversation, *)
(* in three of the states that KeyExchange reaches: the members of a room  *)
(* hold its key, no line is on its way.                                    *)
(***************************************************************************)
EXTENDS Chat, MCKeyExchange

(* Nothing has been said; the host has sent its key to the others.         *)
Silence(host, others) ==
    /\ cast = << >> /\ said = 0
    /\ keyed = [u \in User |-> IF u = host THEN others ELSE {}]

(* Either everybody is in the room, and a guest's name contains the word   *)
(* "created"; or, the host's name containing it, two users are connected,  *)
(* and the guest may join, while another room can be created; or the two   *)
(* are in the room, and may ask for a listing.                             *)
MCInit ==
    LET tale == CHOOSE n \in UserName : n \in Telltale
        plain == CHOOSE s \in SetToSeqs(UserName \ Telltale) : TRUE
        all == Called(<<plain[1], plain[2], tale>>)
        two == Called(<<tale, plain[1]>>)
    IN  \/ /\ Conversation(all, Seat[1], TheRoom, TheName, {Seat[2], Seat[3]}, {}, 0, FALSE, 0)
           /\ Silence(Seat[1], {Seat[2], Seat[3]})
        \/ /\ Conversation(two, Seat[1], TheRoom, TheName, {}, {Seat[3]}, 1, TRUE, 0)
           /\ Silence(Seat[1], {})
        \/ /\ Conversation(two, Seat[1], TheRoom, TheName, {Seat[2]}, {Seat[3]}, 0, FALSE, MaxListings)
           /\ Silence(Seat[1], {Seat[2]})

(* Bound: once there is nothing more to say or to hear, nothing happens.    *)
Talk ==
    \/ cast # << >>
    \/ \E c \in DOMAIN sess :
          \/ said < MaxSays
          \/ \E i \in DOMAIN outbox[c] : "say" \in DOMAIN outbox[c][i]
          \/ \E i \in DOMAIN inbox[c] : inbox[c][i].type = "text"

(* Bound: how many goroutines are amid a command or a teardown at once; the *)
(* one that broadcasts is not counted.                                     *)
MaxAmid == 2
FewAmid == Cardinality({c \in User : pc[c] \notin {"loop", "closed"}}) <= MaxAmid

MCSpec == MCInit /\ [][CNext /\ (Talk /\ FewAmid)']_cVars
=============================================================================
