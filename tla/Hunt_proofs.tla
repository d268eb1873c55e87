----------------------------- MODULE Hunt_proofs -----------------------------
(***************************************************************************)
(* What an enemy's bullet costs a player that stays, wherever else the       *)
(* enemy is stopped, however far it and its bullet are followed.            *)
(***************************************************************************)
EXTENDS Hunt, TLAPS

(***************************************************************************)
(* A player that stays has a free pixel all around it: the enemy moves one   *)
(* pixel a frame, and no band lets it take the last one.  That needs idx to  *)
(* be settled: a direction that is stopped is never kept until the next     *)
(* frame.                                                                   *)
(***************************************************************************)
Clear(u) == u[1] \notin -19..19 \/ u[2] \notin -19..19

Settled == idx = "none" \/ idx \in Directions \ EnemyStops(Times(-1, at))

ClearInv ==
  /\ scene \in DOMAIN Scenes
  /\ at[1] \in Int /\ at[2] \in Int
  /\ Settled
  /\ facing \in Directions /\ aim \in Directions
  /\ m = "none" /\ Clear(at)

(***************************************************************************)
(* From the explosion in the player to the next shot the bullet stays put.   *)
(***************************************************************************)
Struck == struck => State # "BULLET" /\ Inside(b)

OneLifeInv == Parked => ClearInv /\ Struck

-----------------------------------------------------------------------------
(***************************************************************************)
(* One pixel in a direction that is not stopped does not close the gap.      *)
(***************************************************************************)
LEMMA StepKeepsClear ==
  ASSUME NEW u, u[1] \in Int, u[2] \in Int, Clear(u),
         NEW d \in Directions, d \notin EnemyStops(Times(-1, u))
  PROVE  Clear(<<u[1] + Unit[d][1], u[2] + Unit[d][2]>>)
<1>1. /\ d = "right" => Unit[d][1] = 1 /\ Unit[d][2] = 0
      /\ d = "left" => Unit[d][1] = -1 /\ Unit[d][2] = 0
      /\ d = "up" => Unit[d][1] = 0 /\ Unit[d][2] = -1
      /\ d = "down" => Unit[d][1] = 0 /\ Unit[d][2] = 1
  BY DEF Unit
<1>2. Times(-1, u)[1] = -u[1] /\ Times(-1, u)[2] = -u[2]
  BY DEF Times
<1>3. /\ d = "right" => ~(19 + u[1] \in {-1, 0} /\ -u[2] \in -19..19)
      /\ d = "left" => ~(-u[1] + 19 \in -1..1 /\ -u[2] \in -19..19)
      /\ d = "up" => ~(-u[2] + 19 \in -1..1 /\ -u[1] \in -19..19)
      /\ d = "down" => ~(19 \in (-u[2] - 1)..(-u[2] + 1) /\ -u[1] \in -19..19)
  BY <1>2 DEF EnemyStops, Around, size
<1>4. CASE d = "right"
  BY <1>1, <1>3, <1>4 DEF Clear
<1>5. CASE d = "left"
  BY <1>1, <1>3, <1>5 DEF Clear
<1>6. CASE d = "up"
  BY <1>1, <1>3, <1>6 DEF Clear
<1>7. CASE d = "down"
  BY <1>1, <1>3, <1>7 DEF Clear
<1> QED
  BY <1>4, <1>5, <1>6, <1>7 DEF Directions

(***************************************************************************)
(* With that gap no muzzle is inside the player.                            *)
(***************************************************************************)
LEMMA MuzzleOutside ==
  ASSUME at[1] \in Int, at[2] \in Int, Clear(at), NEW a \in Directions
  PROVE  ~Inside(Gun(a))
<1>1. EnemyMuzzle(a) \in {<<19, 9>>, <<9, 0>>, <<0, 9>>, <<9, 9>>}
  BY DEF EnemyMuzzle, Muzzle, Directions, size
<1> QED
  BY <1>1 DEF Gun, Plus, Inside, Clear, size

-----------------------------------------------------------------------------
LEMMA InitClear == Init => OneLifeInv
<1> SUFFICES ASSUME Init, Parked PROVE ClearInv /\ Struck
  BY DEF OneLifeInv
<1>1. scene \in DOMAIN Scenes
  BY PlayedAssumption DEF Init
<1>2. at \in {<<32, 1>>, <<-32, 7>>, <<-32, -6>>, <<0, 32>>, <<7, -32>>,
              <<-6, 32>>, <<24, 24>>, <<36, 8>>}
  BY <1>1 DEF Init, Scenes
<1>3. at[1] \in Int /\ at[2] \in Int /\ Clear(at)
  BY <1>2 DEF Clear
<1> QED
  BY <1>1, <1>3 DEF Init, ClearInv, Settled, Struck, Directions

LEMMA DecideClear == ASSUME ClearInv, Decide PROVE ClearInv'
<1> DEFINE e == Times(-1, at)
<1>1. PICK elsewhere \in Elsewhere, border \in InTheWay :
        LET stops == EnemyStops(e) \cup elsewhere
            way == IF ~Near(e, stops) THEN Shortest(e, stops)
                   ELSE IF InColumn(e, border) \/ InRow(e) THEN "none" ELSE idx
        IN  idx' = IF way \in stops THEN "none" ELSE way
  BY DEF Decide
<1> DEFINE stops == EnemyStops(e) \cup elsewhere
           way == IF ~Near(e, stops) THEN Shortest(e, stops)
                  ELSE IF InColumn(e, border) \/ InRow(e) THEN "none" ELSE idx
<1>2. Shortest(e, stops) \in Directions
  BY DEF Shortest, Directions
<1>3. way \in Directions \cup {"none"}
  BY <1>2 DEF ClearInv, Settled
<1>4. idx' = IF way \in stops THEN "none" ELSE way
  BY <1>1
<1>5. UNCHANGED <<scene, at, m, facing, aim>>
  BY DEF Decide, bullet
<1>6. Settled'
  <2> HIDE DEF way
  <2> QED BY <1>3, <1>4, <1>5 DEF Settled
<1> QED
  BY <1>5, <1>6 DEF ClearInv, Clear

LEMMA AimedDirection ==
  ASSUME NEW e, NEW border, facing \in Directions
  PROVE  Aimed(e, border) \in Directions
BY DEF Aimed, Directions

LEMMA DriveClear == ASSUME ClearInv, Parked, Drive, UNCHANGED aim PROVE ClearInv'
<1>1. scene' = scene /\ m' = "none"
  BY DEF Drive, Parked
<1>2. PICK way \in {idx, "none"} : at' = Plus(at, Minus(Unit[way], Tread(m)))
  BY DEF Drive
<1>3. Tread(m) = <<0, 0>>
  BY DEF ClearInv, Tread, Times, Unit
<1>4. Unit[way][1] \in Int /\ Unit[way][2] \in Int
  BY DEF Unit, ClearInv, Settled, Directions
<1>5. at' = <<at[1] + Unit[way][1], at[2] + Unit[way][2]>>
  BY <1>2, <1>3, <1>4 DEF Plus, Minus
<1>6. at'[1] \in Int /\ at'[2] \in Int
  BY <1>4, <1>5 DEF ClearInv
<1>7. Clear(at')
  <2>1. CASE way = "none"
    <3>1. Unit[way][1] = 0 /\ Unit[way][2] = 0
      BY <2>1 DEF Unit
    <3> QED BY <3>1, <1>5 DEF ClearInv, Clear
  <2>2. CASE way # "none"
    BY <2>2, <1>5, StepKeepsClear DEF ClearInv, Settled
  <2> QED BY <2>1, <2>2
<1>8. facing' \in Directions
  BY AimedDirection DEF Drive, ClearInv, Settled
<1>9. Settled'
  BY DEF Drive, ClearInv, Settled
<1> QED
  BY <1>1, <1>6, <1>7, <1>8, <1>9 DEF ClearInv

LEMMA FrameStruck == ASSUME ClearInv, Struck, Frame PROVE Struck'
<1>1. Tread(m) = <<0, 0>>
  BY DEF ClearInv, Tread, Times, Unit
<1>2. Inside(b) => Inside(Minus(b, Tread(m)))
  BY <1>1 DEF Minus, Inside, size
<1>3. CASE Fly
  BY <1>3 DEF Fly, Struck
<1>4. CASE Explode
  BY <1>2, <1>4 DEF Explode, Struck
<1>5. CASE Burn
  BY <1>2, <1>5 DEF Burn, Struck
<1> QED
  BY <1>3, <1>4, <1>5 DEF Frame

LEMMA StepKeepsInv == ASSUME OneLifeInv, [Next]_vars PROVE OneLifeInv'
<1> SUFFICES ASSUME Parked' PROVE ClearInv' /\ Struck'
  BY DEF OneLifeInv
<1>0. scene' = scene
  BY DEF Next, Decide, Frame, Drive, RunOut, BoomOver, Reload, tanks, vars
<1>1. Parked /\ ClearInv /\ Struck
  BY <1>0 DEF Parked, OneLifeInv
<1>2. CASE Decide
  BY <1>1, <1>2, DecideClear DEF Decide, bullet, Struck
<1>3. CASE Frame
  BY <1>1, <1>3, DriveClear, FrameStruck DEF Frame
<1>4. CASE RunOut
  BY <1>1, <1>4 DEF RunOut, tanks, ClearInv, Settled, Struck
<1>5. CASE BoomOver
  BY <1>1, <1>5 DEF BoomOver, tanks, ClearInv, Settled, Struck
<1>6. CASE Reload
  BY <1>1, <1>6 DEF Reload, tanks, ClearInv, Settled, Struck
<1>7. CASE UNCHANGED vars
  BY <1>1, <1>7 DEF vars, tanks, bullet, ClearInv, Settled, Struck
<1> QED
  BY <1>2, <1>3, <1>4, <1>5, <1>6, <1>7 DEF Next

(***************************************************************************)
(* In every scene in which the player does not drive, a pixel stays free     *)
(* between the tanks.                                                       *)
(***************************************************************************)
THEOREM OneLifeInvariant == Spec => []OneLifeInv
<1> QED
  BY InitClear, StepKeepsInv, PTL DEF Spec

(***************************************************************************)
(* A bullet costs a player that stays at most one life, and just one when it *)
(* explodes in the player.                                                  *)
(***************************************************************************)
THEOREM ParkedOneLifeAlways == Spec => ParkedOneLife
<1> DEFINE Step == Parked /\ State # "BULLET" /\ State' = "BULLET"
                     => cost' <= 1 /\ (struck => cost' = 1)
<1>1. ASSUME OneLifeInv, [Next]_vars PROVE [Step]_vars
  <2> SUFFICES ASSUME Next, Parked, State # "BULLET", State' = "BULLET"
               PROVE  cost' <= 1 /\ (struck => cost' = 1)
    BY <1>1
  <2>1. Reload
    BY DEF Next, Decide, Frame, Fly, Explode, Burn, RunOut, BoomOver, bullet
  <2>2. ClearInv /\ Struck
    BY <1>1 DEF OneLifeInv
  <2>3. ~Inside(Gun(aim))
    BY <2>2, MuzzleOutside DEF ClearInv
  <2>4. cost' = IF Inside(b) THEN 1 ELSE 0
    BY <2>1, <2>3 DEF Reload
  <2> QED
    BY <2>2, <2>4 DEF Struck
<1> QED
  BY <1>1, OneLifeInvariant, PTL DEF Spec, ParkedOneLife
=============================================================================
