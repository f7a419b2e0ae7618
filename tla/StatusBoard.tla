---------------------------- MODULE StatusBoard -----------------------------
(***************************************************************************)
(* What the online status promises, wherever the statuses are kept and     *)
(* however a list is gathered: one board, on which a status is put up only *)
(* for a user that is there, from which it may be lost at any time, where  *)
(* it stays less than Term seconds after its user has gone, and where each *)
(* position of a list is looked up once, at some moment between question   *)
(* and answer.  OnlineStatus implements this module.                       *)
(***************************************************************************)
EXTENDS Integers, Sequences

CONSTANTS
    Users,
    Queries,    \* slots for the lists asked for
    Statuses,
    None,       \* the absent value
    Limit,      \* how many users a list may ask for
    Term        \* the seconds a status may outlive its user

VARIABLES
    present,    \* the users that are there, or are being handled
    shown,      \* shown[u]: the status of u on the board
    away,       \* away[u]: seconds since u was present, capped
    list        \* list[q]: the list in slot q

vars == <<present, shown, away, list>>
boardVars == <<present, shown, away>>

Positions == 1..(Limit + 1)
Blank == [i \in Positions |-> None]
List(at, uids, unread, found) ==
    [at |-> at, uids |-> uids, unread |-> unread, found |-> found]

Init ==
    /\ present = {}
    /\ shown = [u \in Users |-> None]
    /\ away = [u \in Users |-> Term]
    /\ list = [q \in Queries |-> List("idle", <<>>, {}, Blank)]

-----------------------------------------------------------------------------
(* The board.                                                               *)

Come(u) ==
    /\ u \notin present
    /\ present' = present \union {u}
    /\ away' = [away EXCEPT ![u] = 0]
    /\ UNCHANGED shown

Go(u) ==
    /\ u \in present
    /\ present' = present \ {u}
    /\ UNCHANGED <<shown, away>>

\* The handler that puts up the status may be the last thing heard of its user.
PutUp(u, s) ==
    /\ u \in present
    /\ shown' = [shown EXCEPT ![u] = s]
    /\ present' \in {present, present \ {u}}
    /\ UNCHANGED away

Without(lost) == [u \in Users |-> IF u \in lost THEN None ELSE shown[u]]

Lose(lost) ==
    /\ shown' = Without(lost)
    /\ UNCHANGED <<present, away>>

\* A second passes; statuses go, among them those of whoever is away for Term.
Second(lost) ==
    /\ away' = [u \in Users |-> IF u \notin present /\ away[u] < Term
                                THEN away[u] + 1 ELSE away[u]]
    /\ shown' = Without(lost)
    /\ \A u \in Users : away'[u] >= Term => shown'[u] = None
    /\ UNCHANGED present

-----------------------------------------------------------------------------
(* The lists.                                                               *)

Become(q, l) == list' = [list EXCEPT ![q] = l]

Ask(q, uids) ==
    /\ list[q].at # "open"
    /\ Become(q, IF Len(uids) > Limit THEN List("bad", uids, {}, Blank)
                 ELSE List("open", uids, 1..Len(uids), Blank))

LookUp(q, i) ==
    /\ list[q].at = "open"
    /\ i \in list[q].unread
    /\ Become(q, List("open", list[q].uids, list[q].unread \ {i},
                      [list[q].found EXCEPT ![i] = shown[list[q].uids[i]]]))

Answer(q) ==
    /\ list[q].at = "open"
    /\ list[q].unread = {}
    /\ Become(q, List("ok", list[q].uids, {}, list[q].found))

Fail(q) ==
    /\ list[q].at = "open"
    /\ Become(q, List("bad", list[q].uids, {}, Blank))

-----------------------------------------------------------------------------
BoardStep ==
    \/ \E u \in Users : Come(u) \/ Go(u) \/ \E s \in Statuses : PutUp(u, s)
    \/ \E lost \in SUBSET Users : Lose(lost) \/ Second(lost)

ListStep(q) ==
    \/ \E i \in Positions : LookUp(q, i)
    \/ Answer(q) \/ Fail(q)
    \/ \E uids \in UNION {[1..n -> Users] : n \in 0..(Limit + 1)} : Ask(q, uids)

Next ==
    \/ UNCHANGED list /\ BoardStep
    \/ \E q \in Queries : UNCHANGED boardVars /\ ListStep(q)

Spec == Init /\ [][Next]_vars
=============================================================================
