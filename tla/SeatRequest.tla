---------------------------- MODULE SeatRequest ----------------------------
(***************************************************************************)
(* What a matchmaking command promises its client, whatever rooms it tries *)
(* on the way: a command is answered once, a client told "ok" was seated   *)
(* by that very command in the room it is told about, and a client told    *)
(* "bad" was seated nowhere by it.  MatchMaker implements this module.     *)
(***************************************************************************)
EXTENDS FiniteSets, Integers

CONSTANTS
    Users,      \* connected clients
    Commands,   \* slots for the commands in flight
    Issuer,     \* Issuer[c] is the client that sends command c
    Rooms,
    MaxMembers

VARIABLES
    status,     \* status[c]: where command c stands
    seats       \* seats[r]: the clients seated in room r

vars == <<status, seats>>

Asking  == [at |-> "asking"]
Seated(r) == [at |-> "seated", room |-> r]
Granted == [at |-> "granted"]
Denied  == [at |-> "denied"]

\* A slot whose last command, if any, has been answered.
Answered(c) == status[c] \in {Granted, Denied}

Init ==
    /\ status = [c \in Commands |-> Denied]
    /\ seats = [r \in Rooms |-> {}]

Ask(c) ==
    /\ Answered(c)
    /\ status' = [status EXCEPT ![c] = Asking]
    /\ UNCHANGED seats

\* Taking a seat: only a client that sits nowhere, only in a room with a place.
Seat(c, r) ==
    /\ Answered(c) \/ status[c] = Asking
    /\ \A q \in Rooms : Issuer[c] \notin seats[q]
    /\ Cardinality(seats[r]) < MaxMembers
    /\ seats' = [seats EXCEPT ![r] = @ \union {Issuer[c]}]
    /\ status' = [status EXCEPT ![c] = Seated(r)]

\* Told "ok" and the room it sits in.
Grant(c) ==
    /\ status[c] \in {Seated(r) : r \in Rooms}
    /\ status' = [status EXCEPT ![c] = Granted]
    /\ UNCHANGED seats

Deny(c) ==
    /\ Answered(c) \/ status[c] = Asking
    /\ status' = [status EXCEPT ![c] = Denied]
    /\ UNCHANGED seats

Leave(u, r) ==
    /\ u \in seats[r]
    /\ seats' = [seats EXCEPT ![r] = @ \ {u}]
    /\ UNCHANGED status

Next ==
    \/ \E c \in Commands : Ask(c) \/ Grant(c) \/ Deny(c)
    \/ \E c \in Commands, r \in Rooms : Seat(c, r)
    \/ \E u \in Users, r \in Rooms : Leave(u, r)

Spec == Init /\ [][Next]_vars
=============================================================================
