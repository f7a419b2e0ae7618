----------------------------- MODULE FieldWalk ------------------------------
(***************************************************************************)
(* How a bot of the field load test (bot/field) moves.  randomSync draws   *)
(* an angle, up to 20 times, until the point movementRange away lies in    *)
(* the bot's quadrant of the map; the bot is there from then on, and the   *)
(* field hears of the way in nine Syncs of a ninth each, and of the end in *)
(* one more.  Each Sync is a goroutine, so they reach the field in any     *)
(* order.                                                                  *)
(***************************************************************************)
EXTENDS Integers, FiniteSets

CONSTANTS MapSize,   \* mapSize
          movementRange,
          Scale,     \* the fractions of the model's sines and cosines
          Turns,     \* movementRange times <<cos, sin>> of each angle, in 1/Scale
          Starts,    \* bound: where a bot may be spawned
          MaxSyncs   \* bound: the Syncs under way at once

\* RandomInt(-mapSize/2, mapSize/2), where / of Go rounds towards zero.
Half == MapSize \div 2
Map == (-Half .. Half) \X (-Half .. Half)

\* main refuses a map that is not larger than the range.
ASSUME MapLargerThanRange ==
    /\ MapSize \in Nat /\ movementRange \in Nat /\ movementRange < MapSize
    /\ Scale \in Nat \ {0} /\ MaxSyncs \in Nat
    /\ Starts \subseteq Map
ASSUME TurnsInRange ==
    Turns \subseteq (-(movementRange * Scale) .. movementRange * Scale)
                        \X (-(movementRange * Scale) .. movementRange * Scale)

VARIABLES pos,     \* bot.x and bot.y
          prev,    \* where the walk under way began
          cur,     \* currentX and currentY: how far the Syncs have told of it
          leg,     \* how many Syncs of the walk were sent, or AtRest
          joined,  \* the bot has joined the field
          syncs    \* the Syncs under way
vars == <<pos, prev, cur, leg, joined, syncs>>

nbSyncPerMovement == 9
AtRest == nbSyncPerMovement + 1
Legs == 0 .. AtRest

\* Division of Go, and the conversion of a float to an int.
Truncate(n, d) == IF n >= 0 THEN n \div d ELSE -((-n) \div d)

\* One axis: the end of a turn, and whether it lies on the side of the start.
To(from, turn) == Truncate(from * Scale + turn, Scale)
\* Mutants of OnSide: the edge of the map is not looked at; a quadrant is taken
\* to be a quarter of the map long.
OnSideEndless(from, to) == IF from < 0 THEN to <= 0 ELSE to >= 0
OnSideShort(from, to) ==
    IF from < 0 THEN to \in -(Half \div 2) .. 0 ELSE to \in 0 .. Half \div 2
OnSide(from, to) ==
    IF from < 0 THEN to \in -Half .. 0 ELSE to \in 0 .. Half
\* Mutant of Step: rounded away from zero.
StepUp(from, to) ==
    Truncate(IF from <= to THEN to - from + nbSyncPerMovement - 1
             ELSE to - from - nbSyncPerMovement + 1, nbSyncPerMovement)
Step(from, to) == Truncate(to - from, nbSyncPerMovement)

End(turn) == <<To(pos[1], turn[1]), To(pos[2], turn[2])>>
nextMoveIsInArea(to) == OnSide(pos[1], to[1]) /\ OnSide(pos[2], to[2])
Next9th == <<cur[1] + Step(prev[1], pos[1]), cur[2] + Step(prev[2], pos[2])>>

Init ==
    /\ pos \in Starts
    /\ prev = pos
    /\ cur = pos
    /\ leg = AtRest
    /\ joined = FALSE
    /\ syncs = {}
-----------------------------------------------------------------------------
\* The first round of startBot.
Join ==
    /\ ~joined
    /\ joined' = TRUE
    /\ UNCHANGED <<pos, prev, cur, leg, syncs>>

\* A walk starts at a point in the quadrant.  When 20 angles were not, nothing
\* changes and the loop comes back; when the bot stands, it walks to where it is.
Set(to) ==
    /\ joined
    /\ leg = AtRest
    /\ pos' = to
    /\ prev' = pos
    /\ cur' = pos
    /\ leg' = 0
    /\ UNCHANGED <<joined, syncs>>
Move == \E turn \in Turns : nextMoveIsInArea(End(turn)) /\ Set(End(turn))
Stand == Set(pos)

\* One turn of the loop, and the Sync after it.
Tell(point) ==
    /\ Cardinality(syncs) < MaxSyncs
    /\ syncs' = syncs \union {point}
    /\ leg' = leg + 1
    /\ UNCHANGED <<pos, prev, joined>>
Walk == leg < nbSyncPerMovement /\ Tell(Next9th) /\ cur' = Next9th
Arrive == leg = nbSyncPerMovement /\ Tell(pos) /\ cur' = pos

\* The field takes a Sync, whichever of those under way.
Taken ==
    /\ \E point \in syncs : syncs' = syncs \ {point}
    /\ UNCHANGED <<pos, prev, cur, leg, joined>>

Next == Join \/ Move \/ Stand \/ Walk \/ Arrive \/ Taken
Spec == Init /\ [][Next]_vars
-----------------------------------------------------------------------------
TypeOK ==
    /\ pos \in Int \X Int /\ prev \in Int \X Int /\ cur \in Int \X Int
    /\ leg \in Legs
    /\ joined \in BOOLEAN
    /\ syncs \subseteq Int \X Int

Distance(a, b) == IF a < b THEN b - a ELSE a - b
Between(a, b, c) == (a <= b /\ b <= c) \/ (c <= b /\ b <= a)

\* Every point the field is told of is on the map: the ninths, rounded and
\* added up, never lead past the end of a walk or out of the map's last half
\* unit, whichever side of the axes the walk is on.
SyncsOnMap == syncs \subseteq Map

\* The way is told from its start towards its end, and what is left for the
\* last Sync when all ninths are told is less than one unit for each of them:
\* a viewer sees the bot jump by eight units at most.
LastJumpShort ==
    \A a \in {1, 2} :
        /\ Between(prev[a], cur[a], pos[a])
        /\ leg = nbSyncPerMovement => Distance(cur[a], pos[a]) < nbSyncPerMovement

\* A bot is never caught where no angle leads on, provided that it can turn
\* along the axes and that half of a quadrant is as long as the range; main
\* asks for much less, and a larger range may stop bots for ever.
NeverCaught ==
    /\ 2 * movementRange <= Half
    /\ {<<r, 0>> : r \in {movementRange * Scale, -(movementRange * Scale)}} \subseteq Turns
    => \E turn \in Turns : nextMoveIsInArea(End(turn))
=============================================================================
