--------------------------- MODULE MCOnlineStatus ---------------------------
(***************************************************************************)
(* Small instances of OnlineStatus for TLC: two users that only connect    *)
(* and disconnect, or one that enters and leaves rooms and sessions too.   *)
(***************************************************************************)
EXTENDS OnlineStatus, TLC

CONSTANTS u1, u2, n1, n2, s1, q1

\* The statuses of the two users are on different nodes.
HomeApart == u1 :> n1 @@ u2 :> n2
\* Every combination of room and sessions.
Anywhere == [inRoom : BOOLEAN, sessions : SUBSET Sessions]

\* The lists asked for: of nobody, of users on one node or on two, one of them
\* twice, and one that is too long.
Asked == {<<>>, <<u1>>, <<u2, u1>>, <<u2, u2>>, <<u1, u2, u1>>}

VARIABLE moves

MCInit == moves \in BOOLEAN /\ Init
MCNext ==
    /\ UNCHANGED moves /\ Next
    /\ \A q \in Queries : query'[q].uids \in Asked
    /\ IF moves THEN ~conn'[u2] ELSE \A u \in Users : fact'[u] = Nowhere
MCSpec == MCInit /\ [][MCNext]_<<moves, vars>>
=============================================================================
