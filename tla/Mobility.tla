------------------------------- MODULE Mobility -------------------------------
(***************************************************************************)
(* One host that moves: the border handling of BasicMobility below the     *)
(* movers MassMobility (reflects, and turns at any time), LinearMobility   *)
(* (wraps), ConstSpeedMobility (random waypoints), CircleMobility and      *)
(* RectangleMobility (round and round), and TurtleMobility and the traces  *)
(* of BonnMotionMobility and ANSimMobility over LineSegmentsMobilityBase.  *)
(*                                                                         *)
(* A host tells where it is every updateInterval, and also where and when  *)
(* it reaches a border on the way: a message to itself, made when the next *)
(* step is found to end outside.  The host has eight directions and one    *)
(* speed, a unit per tick, straight or diagonal; acceleration is left out. *)
(* Steps start on odd coordinates and the sides are even, so that a step   *)
(* never ends exactly on a border: real steps hardly ever do.  The angular *)
(* speed on a circle is a quarter turn in a step.                          *)
(***************************************************************************)
EXTENDS Integers

CONSTANTS
    Mover,           \* the kinds of host
    playgroundSizeX, playgroundSizeY,
    updateInterval,  \* ticks, and units of a step
    Lengths,         \* of the segments of a script, in ticks
    Rectangles,      \* <<x1, y1, x2, y2>> of RectangleMobility
    MaxBacklog       \* bound: ticks that short segments cost a host before it makes them up

Size == <<playgroundSizeX, playgroundSizeY>>
Axes == {1, 2}

Inside(p) == \A i \in Axes : p[i] \in 0..Size[i]

\* Places between which steps go, off the borders
Places == {p \in (0..playgroundSizeX) \X (0..playgroundSizeY) : \A i \in Axes : p[i] % 2 = 1}

GeneralPosition ==
    /\ \A i \in Axes : Size[i] \in Nat /\ Size[i] % 2 = 0
    /\ updateInterval % 2 = 0 /\ \A d \in Lengths : d \in Nat \ {0} /\ d % 2 = 0
    /\ \A r \in Rectangles : \A i \in 1..4 : r[i] \in Nat /\ r[i] % 2 = 1

ASSUME MobilityAssumption ==
    /\ Mover \subseteq {"Mass", "Linear", "ConstSpeed", "Circle", "Rectangle",
                        "Turtle", "BonnMotion", "ANSim"}
    /\ updateInterval \in Nat \ {0}
    /\ GeneralPosition
    /\ \A i \in Axes : updateInterval <= Size[i]
    /\ MaxBacklog \in Nat
    /\ \A r \in Rectangles :                    \* from the top left to the bottom right
          r[1] <= r[3] /\ r[2] <= r[4] /\ r[1] + r[2] < r[3] + r[4]

VARIABLES
    host

VARIABLES            \* history, read by properties only
    ideal,           \* where the step under way ends, on a playground folded or wrapped
    strayed,         \* has a turn come before a border, or has a segment ended outside?
    due,             \* time until the statements begun so far should be over
    backlog          \* time that is lost so far and not yet made up

mobilityVars == <<host, ideal, strayed, due, backlog>>

Direction == {-1, 0, 1} \X {-1, 0, 1} \ {<<0, 0>>}
Quarters == {<<1, 0>>, <<0, 1>>, <<-1, 0>>, <<0, -1>>}

Plus(a, k, b) == <<a[1] + k * b[1], a[2] + k * b[2]>>
Abs(x) == IF x < 0 THEN -x ELSE x
Sign(x) == IF x < 0 THEN -1 ELSE IF x > 0 THEN 1 ELSE 0

\* setDirection.  What is crooked after a turn at the wrong time is taken for the next
\* of the eight directions; <<0, 0>> stands for a division by zero.
Towards(from, to) == <<Sign(to[1] - from[1]), Sign(to[2] - from[2])>>

Traced(h) == h.kind \in {"BonnMotion", "ANSim"}
Segmented(h) == h.kind = "Turtle" \/ Traced(h)

Never == -1

NewHost(kind, p, angle, at) ==
    [kind |-> kind, startPos |-> p,
     direction |-> IF kind = "Mass" THEN angle ELSE <<0, 0>>,
     moving |-> TRUE,                  \* speed > 0
     stepTarget |-> p,                 \* targetPos of MassMobility
     targetPos |-> <<0, 0>>,           \* end of a segment, or center of a circle
     stepSize |-> IF kind = "Mass" THEN Plus(<<0, 0>>, updateInterval, angle) ELSE <<0, 0>>,
     angle |-> angle, borderPolicy |-> "REFLECT",
     moveMsg |-> at,                   \* ticks until it comes, or Never
     targetTime |-> 0,                 \* ticks until the segment should be over
     rectangle |-> <<>>, d |-> 0,      \* RectangleMobility: its way along the perimeter
     numSteps |-> 0, step |-> -1,      \* ConstSpeedMobility
     borders |-> {},                   \* border messages, with the ticks until each comes
     error |-> FALSE]

Started(h, at) == [h EXCEPT !.moveMsg = at]

\* The hosts of a kind before their first step
FreeHosts(kind) ==
    {NewHost(kind, p, angle, 0) : p \in Places,
        angle \in IF kind \in {"Mass", "Linear"} THEN Direction ELSE {<<1, 0>>}}

\* The first place of a trace or script is reached before the first segment begins.
ScriptHosts(kind) == {[NewHost(kind, p, <<1, 0>>, 0) EXCEPT !.targetPos = p] : p \in Places}

\* CircleMobility: the angle is the direction from the center, the radius is the way
\* of a step, and targetPos is the center.
CircleHosts ==
    {h \in {[NewHost("Circle", Plus(center, updateInterval, angle), angle, 0)
                EXCEPT !.targetPos = center] : center \in Places, angle \in Quarters} :
        Inside(h.startPos)}

\* Lengths along the perimeter up to each corner
Corners(r) ==
    LET dx == r[3] - r[1]
        dy == r[4] - r[2]
    IN  <<dx, dx + dy, dx + dy + dx, dx + dy + dx + dy>>

\* where d along the perimeter, clockwise from <<x1, y1>>, is
calculateXY(r, d) ==
    CASE d < Corners(r)[1] -> <<r[1] + d, r[2]>>
      [] d \in Corners(r)[1]..Corners(r)[2] - 1 -> <<r[3], r[2] + d - Corners(r)[1]>>
      [] d \in Corners(r)[2]..Corners(r)[3] - 1 -> <<r[3] - d + Corners(r)[2], r[4]>>
      [] d >= Corners(r)[3] -> <<r[1], r[4] - d + Corners(r)[3]>>

RectangleHost(r, d) ==
    [NewHost("Rectangle", calculateXY(r, d), <<1, 0>>, 0) EXCEPT !.rectangle = r, !.d = d]

RectangleHosts ==
    {h \in {RectangleHost(r, 2 * k) : r \in Rectangles, k \in 0..playgroundSizeX + playgroundSizeY} :
        h.d < Corners(h.rectangle)[4] /\ Inside(h.startPos)}

NewHosts(kind) == CASE kind = "Circle" -> CircleHosts
                    [] kind = "Rectangle" -> RectangleHosts
                    [] Segmented([kind |-> kind]) -> ScriptHosts(kind)
                    [] OTHER -> FreeHosts(kind)

\* The first move message comes at a random time within the first interval.
MobilityInit ==
    /\ \E kind \in Mover, at \in 0..updateInterval - 1 : \E h \in NewHosts(kind) :
          /\ host = Started(h, at) /\ ideal = h.startPos
          /\ due = 0 /\ backlog = IF Segmented(h) THEN at ELSE 0
    /\ strayed = FALSE

-----------------------------------------------------------------------------
(* Border handling *)

Out(h, i) == h.stepTarget[i] < 0 \/ h.stepTarget[i] >= Size[i]
Edge(h, i) == IF h.stepTarget[i] < 0 THEN 0 ELSE Size[i]
BorderStep(h, i) == Edge(h, i) - h.startPos[i]

\* Seeded fault: of two borders the one in x is always taken
YIsFirstNever(h) == FALSE

\* fabs(borderStep.x/direction.x) > fabs(borderStep.y/direction.y)
YIsFirst(h) ==
    /\ h.direction[2] # 0
    /\ IF h.direction[1] = 0 THEN BorderStep(h, 1) # 0
       ELSE Abs(BorderStep(h, 1)) > Abs(BorderStep(h, 2))

checkIfOutside(h) ==
    IF Out(h, 1) /\ ~(Out(h, 2) /\ YIsFirst(h)) THEN {1} ELSE IF Out(h, 2) THEN {2} ELSE {}

reflectIfOutside(h, i) ==
    [h EXCEPT !.stepTarget[i] = 2 * Edge(h, i) - @,
              !.targetPos[i] = IF Segmented(h) THEN 2 * Edge(h, i) - @ ELSE @,
              !.stepSize[i] = -@, !.angle[i] = -@]

wrapIfOutside(h, i) ==
    LET shift == Size[i] - 2 * Edge(h, i)
    IN  [h EXCEPT !.stepTarget[i] = @ + shift,
                  !.targetPos[i] = IF Segmented(h) \/ h.kind = "Circle" THEN @ + shift ELSE @]

\* The signed way to the border, in steps of the direction; the direction is -1 or 1
goToBorder(h, i) == BorderStep(h, i) * h.direction[i]

\* Seeded fault: the time to the border is measured along the whole step
BorderIntervalWhole(h, i) == updateInterval

BorderInterval(h, i) == Abs(goToBorder(h, i))

BorderMsg(h, i, policy, start, dir) ==
    [in |-> BorderInterval(h, i), policy |-> policy, startPos |-> start, direction |-> dir]

\* the ways to go on at border i
handleIfOutside(h, i, policy) ==
    LET reached == Plus(h.startPos, goToBorder(h, i), h.direction)
        Sending(g, start, dir) ==
            [g EXCEPT !.borders = @ \cup {BorderMsg(h, i, policy, start, dir)}]
        mirrored == reflectIfOutside(h, i)
    IN  IF h.direction[i] = 0 \/ ~h.moving THEN {[h EXCEPT !.error = TRUE]} ELSE
        CASE policy = "REFLECT" -> {Sending(mirrored, reached, Towards(reached, mirrored.stepTarget))}
          [] policy = "WRAP" ->
               {Sending(wrapIfOutside(h, i), [reached EXCEPT ![i] = Size[i] - Edge(h, i)], <<0, 0>>)}
          [] policy = "PLACERANDOMLY" ->
               {Sending([h EXCEPT !.targetPos = p, !.stepTarget = p], p, <<0, 0>>) : p \in Places}
          [] policy = "RAISEERROR" -> {Sending(h, reached, <<0, 0>>)}

Policy(h) == CASE h.kind = "Mass" -> "REFLECT"
               [] h.kind \in {"Linear", "Circle"} -> "WRAP"
               [] h.kind = "Turtle" -> h.borderPolicy
               [] Traced(h) \/ h.kind = "Rectangle" -> "RAISEERROR"
               [] h.kind = "ConstSpeed" -> "NONE"   \* it never asks

fixIfHostGetsOutside(h) ==
    IF Policy(h) = "NONE" \/ checkIfOutside(h) = {} THEN {h}
    ELSE UNION {handleIfOutside(h, i, Policy(h)) : i \in checkIfOutside(h)}

-----------------------------------------------------------------------------
(* Steps *)

Goes(k) == host.kind = k /\ host.moving /\ host.moveMsg = 0

\* Where the border policy leads from a place, whichever border comes first
Folded(policy, p) ==
    LET At(i) == LET m == p[i] % (2 * Size[i]) IN IF m < Size[i] THEN m ELSE 2 * Size[i] - m
    IN  CASE policy = "REFLECT" -> <<At(1), At(2)>>
          [] policy = "WRAP"    -> <<p[1] % Size[1], p[2] % Size[2]>>
          [] OTHER -> p

\* a step of host h has been planned and is looked at
Plan(h) ==
    /\ host' \in fixIfHostGetsOutside(h)
    /\ ideal' = Folded(Policy(h), h.stepTarget)

MassMove ==
    /\ Goes("Mass")
    /\ Plan([host EXCEPT !.startPos = host.stepTarget,
                         !.stepTarget = Plus(@, 1, host.stepSize), !.moveMsg = updateInterval])
    /\ UNCHANGED <<strayed, due, backlog>>

\* MK_CHANGE_DIR comes at any time.
MassTurn ==
    /\ host.kind = "Mass"
    /\ \E angle \in Direction :
         host' = [host EXCEPT !.angle = angle, !.direction = angle,
                              !.stepSize = Plus(<<0, 0>>, updateInterval, angle)]
    /\ strayed' = (strayed \/ host.borders # {})
    /\ UNCHANGED <<ideal, due, backlog>>

LinearMove ==
    /\ Goes("Linear")
    /\ Plan([host EXCEPT !.startPos = host.stepTarget, !.direction = host.angle,
                         !.stepTarget = Plus(@, updateInterval, host.angle),
                         !.moveMsg = updateInterval])
    /\ UNCHANGED <<strayed, due, backlog>>

\* k steps from here in direction a
StepsAway(h, k, a) ==
    [h EXCEPT !.numSteps = k, !.step = 0, !.direction = a,
              !.stepSize = Plus(<<0, 0>>, updateInterval, a),
              !.stepTarget = Plus(h.startPos, updateInterval, a)]

\* setTargetPosition: k steps in a direction, or to a place so near that k is rounded to 0
\* and the size of a step is infinite.
ConstSpeedTarget(h) ==
    {g \in {StepsAway(h, k, a) : k \in 0..playgroundSizeX + playgroundSizeY, a \in Direction} :
       Inside(Plus(h.startPos, g.numSteps * updateInterval, g.direction))}

ConstSpeedMove ==
    LET step == host.step + 1
        there == [host EXCEPT !.step = step, !.startPos = host.stepTarget, !.moveMsg = updateInterval]
    IN  /\ Goes("ConstSpeed")
        /\ \/ /\ step = host.numSteps
              /\ \E h \in ConstSpeedTarget(there) : Plan(h)
           \/ /\ step < host.numSteps
              /\ Plan([there EXCEPT !.stepTarget = Plus(@, 1, host.stepSize)])
           \/ /\ step > host.numSteps
              /\ host' = [host EXCEPT !.error = TRUE]
              /\ UNCHANGED ideal
        /\ UNCHANGED <<strayed, due, backlog>>

CircleMove ==
    LET angle == <<-host.angle[2], host.angle[1]>>
        target == Plus(host.targetPos, updateInterval, angle)
    IN  /\ Goes("Circle")
        /\ Plan([host EXCEPT !.startPos = host.stepTarget, !.stepTarget = target, !.angle = angle,
                             !.direction = Towards(host.stepTarget, target),
                             !.moveMsg = updateInterval])
        /\ UNCHANGED <<strayed, due, backlog>>

RectangleMove ==
    LET d == (host.d + updateInterval) % Corners(host.rectangle)[4]
        target == calculateXY(host.rectangle, d)
    IN  /\ Goes("Rectangle")
        /\ Plan([host EXCEPT !.startPos = host.stepTarget, !.stepTarget = target, !.d = d,
                             !.direction = Towards(host.stepTarget, target),
                             !.moveMsg = updateInterval])
        /\ UNCHANGED <<strayed, due, backlog>>

LastStep(h) == updateInterval >= h.targetTime

SegmentStep ==
    /\ Segmented(host) /\ Goes(host.kind) /\ ~LastStep(host)
    /\ Plan([host EXCEPT !.startPos = host.stepTarget, !.stepTarget = Plus(@, 1, host.stepSize),
                         !.moveMsg = updateInterval])
    /\ UNCHANGED <<strayed, due, backlog>>

\* Seeded fault: a statement begins now, and not when the last one was to be over
BeginsAtNow(h) == 0

BeginsAt(h) == h.targetTime

\* The host is put to the end of the last segment, which is over up to an interval too
\* early, or too late: a segment takes an interval even if it should last a part of one.
AtSegmentEnd(lasts) ==
    [host EXCEPT !.startPos = host.targetPos, !.stepTarget = host.targetPos,
                 !.targetTime = BeginsAt(host) + lasts]

\* What is lost in a statement that should last so long and takes so long at least, and
\* what a longer one makes up
Backlog(lasts, takes) == IF backlog + takes > lasts THEN backlog + takes - lasts ELSE 0

\* beginNextMove, with what setTargetPosition may make of the host
beginNextMove(lasts, takes, hosts) ==
    /\ Segmented(host) /\ Goes(host.kind) /\ LastStep(host)
    /\ Backlog(lasts, takes) <= MaxBacklog
    /\ \E h \in hosts : Plan(h)
    /\ strayed' = (strayed \/ ~Inside(host.targetPos))
    /\ due' = due + lasts /\ backlog' = Backlog(lasts, takes)

Segment(h, d, a) ==
    [h EXCEPT !.targetPos = Plus(@, d, a), !.stepTarget = Plus(@, updateInterval, a),
              !.stepSize = Plus(<<0, 0>>, updateInterval, a), !.direction = a,
              !.moveMsg = updateInterval]

\* A script turns the host and sets its border policy as it likes.
executeStatement(h, d, a) ==
    {[Segment(h, d, a) EXCEPT !.angle = a, !.borderPolicy = policy] :
       policy \in {"REFLECT", "WRAP", "PLACERANDOMLY", "RAISEERROR"}}

\* A line of a trace leads to a place on the playground.
NextOfTrace(h, d, a) == {g \in {Segment(h, d, a)} : Inside(g.targetPos)}

\* the next <position_change> of this host; those of other hosts are skipped
PositionChange(h, d, a) == NextOfTrace(h, d, a)

Forward(d, a) ==
    LET h == AtSegmentEnd(d)
    IN  beginNextMove(d, updateInterval,
                      CASE h.kind = "Turtle"     -> executeStatement(h, d, a)
                        [] h.kind = "BonnMotion" -> NextOfTrace(h, d, a)
                        [] h.kind = "ANSim"      -> PositionChange(h, d, a)
                        [] OTHER                 -> {})

Wait(t) ==
    LET h == AtSegmentEnd(t)
    IN  beginNextMove(t, 0, {[h EXCEPT !.stepSize = <<0, 0>>,
                                       !.moveMsg = IF h.targetTime > 0 THEN h.targetTime ELSE 0]})

\* The script or the trace is over.
EndOfScript ==
    beginNextMove(0, 0, {[AtSegmentEnd(0) EXCEPT !.stepSize = <<0, 0>>, !.moving = FALSE,
                                                 !.moveMsg = Never]})

-----------------------------------------------------------------------------

\* Seeded fault: a border that is crossed next, in the other axis, is not looked for
AtBorderOnce(h) == {h}

AtBorder(h) == fixIfHostGetsOutside(h)

handleBorderMsg(b) ==
    /\ b.in = 0
    /\ IF b.policy = "RAISEERROR"
       THEN host' = [host EXCEPT !.error = TRUE]
       ELSE host' \in AtBorder([host EXCEPT !.borders = @ \ {b}, !.startPos = b.startPos,
                                            !.direction = IF b.policy = "REFLECT"
                                                          THEN b.direction ELSE @])
    /\ UNCHANGED <<ideal, strayed, due, backlog>>

\* Time passes until the next message.
Tick ==
    /\ host.moveMsg # 0 /\ \A b \in host.borders : b.in > 0
    /\ host.moveMsg # Never \/ host.borders # {}
    /\ host' = [host EXCEPT !.moveMsg = IF @ = Never THEN @ ELSE @ - 1,
                            !.targetTime = IF Segmented(host) THEN @ - 1 ELSE @,
                            !.borders = {[b EXCEPT !.in = @ - 1] : b \in @}]
    /\ due' = IF Segmented(host) THEN due - 1 ELSE due
    /\ UNCHANGED <<ideal, strayed, backlog>>

\* A host that is outside is not followed: the square it sits in does not exist.
MobilityNext ==
    /\ ~host.error /\ Inside(host.startPos)
    /\ \/ MassMove \/ MassTurn \/ LinearMove \/ ConstSpeedMove \/ CircleMove \/ RectangleMove
       \/ SegmentStep
       \/ \E d \in Lengths : Wait(d) \/ \E a \in Direction : Forward(d, a)
       \/ EndOfScript
       \/ \E b \in host.borders : handleBorderMsg(b)
       \/ Tick

MobilitySpec == MobilityInit /\ [][MobilityNext]_mobilityVars

-----------------------------------------------------------------------------
(* Properties *)

\* Where ChannelControl is told a host is, is on the playground, except after a turn of
\* MassMobility before a border and after a segment that ends outside.
InPlayground == strayed \/ Inside(host.startPos)

\* "reflect off the wall" and "reappear at the opposite edge": once the borders on the
\* way have been passed, one message at a time, a step ends where a mirror or a torus
\* has it end.
StepsAsMirrored ==
    \/ strayed \/ host.error \/ host.borders # {}
    \/ Policy(host) \notin {"REFLECT", "WRAP"}
    \/ host.stepTarget = ideal

\* A border that a step crosses is passed before the next step, and one at a time.
BordersFirst ==
    strayed \/ \A b, c \in host.borders : b = c /\ (host.moveMsg = Never \/ b.in <= host.moveMsg)

Begins == Segmented(host) /\ host.moveMsg = 0 /\ LastStep(host)

\* "go to exact position where previous statement was supposed to finish": a host begins
\* the next statement of its script at most an interval early, and late only by what
\* statements shorter than an interval have cost it; longer ones and pauses make it up.
KeepsSchedule == Begins => due \in -backlog..updateInterval
=============================================================================
