---------------------------- MODULE MCMatchMaker ----------------------------
(* Small instances of MatchMaker for TLC. *)
EXTENDS MatchMaker, TLC

CONSTANTS u1, u2, c1, c2, r1, r2, m1, m2, i1, i2

\* Each client has one command in flight.
IssuerTwo == c1 :> u1 @@ c2 :> u2
\* No action tells room IDs, or unique IDs, apart.
Interchangeable == Permutations(Rooms) \union Permutations(UIDs)

\* For the same reason r1 may always be the room that is made first, where symmetry
\* cannot be used for liveness.  Making a room is not among the fair actions.
InOrder == roomState[r2] # "none" => roomState[r1] # "none"
LiveNext == Next /\ InOrder'
LiveSpec == Init /\ [][LiveNext]_vars /\ Fairness
=============================================================================
