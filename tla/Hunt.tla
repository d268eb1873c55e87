-------------------------------- MODULE Hunt --------------------------------
(***************************************************************************)
(* An enemy and the player of the one-player game: how enemy.sv picks its    *)
(* way by the place of the player, drives and shoots (enemy_bullets in       *)
(* enemy_wall.sv), and what its bullets cost.                               *)
(*                                                                         *)
(* As in Duel only distances count: the enemy is placed relative to the      *)
(* player (at), the bullet likewise (b).  Letters, borders and the other     *)
(* enemy may stop anybody at any moment.                                    *)
(*                                                                         *)
(* A step is a frame (Frame), or what happens at edges of Clk between two    *)
(* frames.  The enemy decides every 2^24 + 2 edges, three times a second;    *)
(* here at any time, but not at the very edge on which a frame begins.       *)
(***************************************************************************)
EXTENDS Encounter

CONSTANTS
  Played,      \* the scenes
  Reach, Far   \* bounds: how far the enemy and the bullet are followed

VARIABLES
  scene,          \* who may drive where, see Scenes
  at,             \* position of the enemy less that of the player
  m,              \* motion of the player that the next frame carries out
  idx, facing,    \* where the enemy drives, and looks (is_enemy1_out)
  State, aim, b,  \* bullet: state, is_bullet_out, position less the player's
  timer,          \* frames since the impact
  struck, cost    \* history: the bullet met a player that stays; lives taken

tanks == <<scene, at, m, idx, facing>>
bullet == <<State, aim, b, timer, struck, cost>>
vars == <<tanks, bullet>>

(* keys: where the player drives; drives: where letters, borders and the      *)
(* other enemy let the enemy drive at times; open: nothing else is near.      *)
Scenes ==
  [beside |-> [start |-> {<<32, 1>>, <<-32, 7>>, <<-32, -6>>}, open |-> FALSE,
               keys |-> {}, drives |-> {"left", "right"}],
   above  |-> [start |-> {<<0, 32>>, <<7, -32>>, <<-6, 32>>}, open |-> FALSE,
               keys |-> {}, drives |-> {"up", "down"}],
   around |-> [start |-> {<<24, 24>>}, open |-> FALSE,
               keys |-> {}, drives |-> Directions],
   meet   |-> [start |-> {<<36, 8>>}, open |-> TRUE,
               keys |-> {"left", "right"}, drives |-> Directions]]

(* Does something else stand in the way, and where does it stop the enemy?    *)
InTheWay == IF Scenes[scene].open THEN {FALSE} ELSE BOOLEAN
Elsewhere == IF Scenes[scene].open THEN {{}}
             ELSE {stops \in SUBSET Directions :
                     Directions \ Scenes[scene].drives \subseteq stops}

ASSUME PlayedAssumption == Played \subseteq DOMAIN Scenes
ASSUME BoundsAssumption == Reach \in Nat /\ Far \in Nat

-----------------------------------------------------------------------------
\* A slip (PROJECT.json "mutants"): the band begins at the pixel of contact.
EnemyStops_Contact(e) ==
  {d \in Directions :
     \/ d = "right" /\ e[1] = size /\ e[2] \in -size..size
     \/ d = "left" /\ 0 \in Around(e[1] + size, 1) /\ e[2] \in -size..size
     \/ d = "up" /\ 0 \in Around(e[2] + size, 1) /\ e[1] \in -size..size
     \/ d = "down" /\ size \in Around(e[2], 1) /\ e[1] \in -size..size}

(* Where an enemy is stopped by a player that is e away: in narrower bands   *)
(* than the player by an enemy (Stops).                                     *)
EnemyStops(e) ==
  {d \in Directions :
     \/ d = "right" /\ size - e[1] \in {-1, 0} /\ e[2] \in -size..size
     \/ d = "left" /\ 0 \in Around(e[1] + size, 1) /\ e[2] \in -size..size
     \/ d = "up" /\ 0 \in Around(e[2] + size, 1) /\ e[1] \in -size..size
     \/ d = "down" /\ size \in Around(e[2], 1) /\ e[1] \in -size..size}

(* The muzzle of an enemy that looks down is wired to the height of the      *)
(* others (Down_mid_Y, enemy.sv 48).                                        *)
EnemyMuzzle(a) == IF a = "down" THEN <<size \div 2, size \div 2>> ELSE Muzzle(a)
Gun(a) == Plus(at, EnemyMuzzle(a))

Square(u) == u[1] * u[1] + u[2] * u[2]

(* The square of the distance to a player e away after two steps.            *)
res(d, e, stops) ==
  IF d \in stops THEN 1048575 ELSE Square(Minus(e, Times(2, Unit[d])))

Near(e, stops) == \E d \in Directions : res(d, e, stops) < 900

(* In a column or row with the player.  A player at the left border is in no *)
(* column: playerX - 2 is a large number.                                   *)
InColumn(e, border) == e[1] \in -2..2 /\ ~border
InRow(e) == e[2] \in -2..2

(* The first of the shortest ways.                                          *)
Shortest(e, stops) ==
  LET best == {d \in Directions : \A c \in Directions :
                 res(d, e, stops) <= res(c, e, stops)}
  IN  IF "right" \in best THEN "right" ELSE IF "up" \in best THEN "up"
      ELSE IF "left" \in best THEN "left" ELSE "down"

(* Where an enemy that stands looks. *)
Aimed(e, border) ==
  IF InRow(e) /\ e[1] # 0 THEN IF e[1] > 0 THEN "right" ELSE "left"
  ELSE IF InColumn(e, border) /\ e[2] # 0 THEN IF e[2] > 0 THEN "down" ELSE "up"
  ELSE facing

-----------------------------------------------------------------------------
Init ==
  /\ scene \in Played /\ at \in Scenes[scene].start
  /\ m = "none" /\ idx = "none" /\ facing = "left"
  /\ State = "BULLET" /\ aim = "left" /\ b = Gun("left") /\ timer = 0
  /\ struck = FALSE /\ cost = 0

(* counter has come round: idx follows, and falls back to none at the next    *)
(* edge if that way is stopped.                                             *)
Decide ==
  /\ \E elsewhere \in Elsewhere, border \in InTheWay :
       LET e == Times(-1, at)
           stops == EnemyStops(e) \cup elsewhere
           way == IF ~Near(e, stops) THEN Shortest(e, stops)
                  ELSE IF InColumn(e, border) \/ InRow(e) THEN "none" ELSE idx
       IN  idx' = IF way \in stops THEN "none" ELSE way
  /\ UNCHANGED <<scene, at, m, facing, bullet>>

(* The tanks at the first edge of a frame.  The player moves by the motion    *)
(* chosen a frame ago; the enemy by idx, one edge later, unless it is at the  *)
(* border; then its stop signals clear idx.                                 *)
Drive ==
  /\ \E k \in Scenes[scene].keys \cup {"none"}, stopped \in InTheWay :
       m' = IF stopped \/ k \in Stops(at) THEN "none" ELSE k
  /\ \E stopped \in InTheWay :
       at' = Plus(at, Minus(Unit[IF stopped THEN "none" ELSE idx], Tread(m)))
  /\ Within(Reach, at')
  /\ \E border \in InTheWay :
       facing' = IF idx = "none" THEN Aimed(Times(-1, at), border) ELSE idx
  /\ \E elsewhere \in Elsewhere :
       idx' = IF idx \in EnemyStops(Times(-1, at')) \cup elsewhere THEN "none"
              ELSE idx
  /\ UNCHANGED scene

(* The bullet at that edge: it flies on, or explodes where it is. *)
Fly ==
  /\ State = "BULLET" /\ ~Inside(b)
  /\ b' = Plus(b, Minus(Flight(aim), Tread(m))) /\ Within(Far, b')
  /\ UNCHANGED <<State, timer, struck>>

Explode ==
  /\ State = "BULLET"        \* in the player, a letter or the border
  /\ Scenes[scene].open => Inside(b)
  /\ State' = "BULLET_BOOM" /\ timer' = 0
  /\ b' = Minus(b, Tread(m))
  /\ struck' = Inside(b)

Burn ==
  /\ State = "BULLET_BOOM" /\ timer < 4
  /\ timer' = timer + 1 /\ b' = Minus(b, Tread(m))
  /\ UNCHANGED <<State, struck>>

Frame ==
  /\ Drive
  /\ Fly \/ Explode \/ Burn
  /\ UNCHANGED <<aim, cost>>

(* The counter of a bullet in flight runs out. *)
RunOut ==
  /\ State = "BULLET"
  /\ State' = "BULLET_WAIT"
  /\ UNCHANGED <<tanks, aim, b, timer, struck, cost>>

(* The explosion lasts 4 frames and two thirds. *)
BoomOver ==
  /\ State = "BULLET_BOOM" /\ timer = 4
  /\ State' = "BOOM_WAIT"
  /\ UNCHANGED <<tanks, aim, b, timer, struck, cost>>

(* Three edges without a drawn bullet, and each that finds it in the player   *)
(* costs a life: one where the bullet was, two on the muzzle of the last      *)
(* shot (NOBULLET, NOBULLET_WAIT).  The next shot follows at once.            *)
Reload ==
  /\ State \in {"BULLET_WAIT", "BOOM_WAIT"}
  /\ cost' = (IF Inside(b) THEN 1 ELSE 0) + (IF Inside(Gun(aim)) THEN 2 ELSE 0)
  /\ State' = "BULLET" /\ aim' = facing /\ b' = Gun(facing) /\ timer' = 0
  /\ struck' = FALSE
  /\ UNCHANGED tanks

Next == Decide \/ Frame \/ RunOut \/ BoomOver \/ Reload

Spec == Init /\ [][Next]_vars

-----------------------------------------------------------------------------
(* A bullet costs a player that stays at most one life, and just one when it  *)
(* explodes in the player.  The hit wire is high whenever the bullet's        *)
(* registers lie in the player and nothing is drawn, so this hangs on the     *)
(* enemy coming to rest with its muzzle outside, in bands of two and three    *)
(* pixels.                                                                  *)
Parked == Scenes[scene].keys = {}
ParkedOneLife ==
  [][Parked /\ State # "BULLET" /\ State' = "BULLET"
       => cost' <= 1 /\ (struck => cost' = 1)]_vars

(* The design report: "Each bullet costs one life."  The code violates this:  *)
(* two tanks that meet close 3 pixels a frame, the band of the enemy is       *)
(* passed over, and its muzzle is in the player.                            *)
EachBulletOneLife == cost <= 1
=============================================================================
