-------------------------------- MODULE Duel --------------------------------
(***************************************************************************)
(* Two tanks, a bullet, and the lives it costs: how ball.sv, tank2.sv,      *)
(* bullets.sv, wall.sv, wall2.sv and the lives registers of lab8.sv work    *)
(* together.  tank1 shoots; bullets2.sv is bullets.sv with another key.     *)
(*                                                                         *)
(* No test between tanks and bullets asks for more than their distance, so  *)
(* the second tank is placed relative to the first (at) and the bullet      *)
(* relative to the second (b).  What depends on the place, the letters and  *)
(* the border, may stop a tank or the bullet at any frame.                  *)
(*                                                                         *)
(* A step is a frame (Frame), or what happens at edges of Clk between two    *)
(* frames.                                                                  *)
(***************************************************************************)
EXTENDS Encounter

CONSTANTS
  Lives,       \* 5
  Reach, Far   \* bounds: how far the tanks and the bullet are followed

ASSUME BoundsAssumption == Lives \in Nat /\ Reach \in Nat /\ Far \in Nat

VARIABLES
  scene,          \* who may drive where, see Scenes
  at,             \* position of tank2 less that of tank1
  m1, m2,         \* motion that the next frame carries out
  dir,            \* where tank1 looks (is_tank_dir)
  State, aim, b,  \* bullet: state, is_bullet_out, position less that of tank2
  timer,          \* frames since the impact
  lives,          \* player2_lives
  paid, struck    \* history: lives the shot has cost; it met a tank that stays

tanks == <<scene, at, m1, m2, dir>>
vars == <<tanks, State, aim, b, timer, lives, paid, struck>>

(* start: where the second tank is first seen.  The tanks are always an even *)
(* number of pixels apart.                                                  *)
Scenes ==
  [duel    |-> [start |-> {<<26, 0>>, <<24, 10>>}, shoots |-> TRUE,
                keys1 |-> {"left", "right"}, keys2 |-> {"left", "right"}],
   crossing |-> [start |-> {<<26, 8>>}, shoots |-> TRUE,
                keys1 |-> {}, keys2 |-> {"up", "down"}],
   parked  |-> [start |-> {<<26, 0>>}, shoots |-> FALSE,
                keys1 |-> Directions, keys2 |-> {}],
   field   |-> [start |-> {<<26, 0>>}, shoots |-> FALSE,
                keys1 |-> Directions, keys2 |-> Directions]]

-----------------------------------------------------------------------------
(* Between two shots the bullet rests on the muzzle, where the hit wire sees *)
(* it like any other.                                                       *)
Contact == State = "NOBULLET" /\ Inside(Minus(Muzzle(aim), at))

-----------------------------------------------------------------------------
Start ==
  /\ at' \in Scenes[scene].start
  /\ m1' = "none" /\ m2' = "none" /\ dir' = "right"
  /\ State' = "NOBULLET" /\ aim' = "right" /\ b' = <<0, 0>> /\ timer' = 0
  /\ lives' = Lives /\ paid' = 0 /\ struck' = FALSE
  /\ UNCHANGED scene

Init ==
  /\ scene \in DOMAIN Scenes /\ at \in Scenes[scene].start
  /\ m1 = "none" /\ m2 = "none" /\ dir = "right"
  /\ State = "NOBULLET" /\ aim = "right" /\ b = <<0, 0>> /\ timer = 0
  /\ lives = Lives /\ paid = 0 /\ struck = FALSE

Moved(e, n1, n2) == Plus(e, Minus(Tread(n2), Tread(n1)))

(* The tanks at the first edge of a frame: positions by the old motions, new *)
(* motions from the keys and from the stop signals at the old positions.     *)
Drive ==
  /\ at' = Moved(at, m1, m2)
  /\ \E k \in Scenes[scene].keys1 \cup {"none"}, elsewhere \in BOOLEAN :
       /\ m1' = IF k \in Stops(at) \/ elsewhere THEN "none" ELSE k
       /\ dir' = IF k = "none" THEN dir ELSE k
  /\ \E k \in Scenes[scene].keys2 \cup {"none"} :
       m2' = IF k \in Stops(Times(-1, at)) THEN "none" ELSE k
  /\ Within(Reach, Moved(at', m1', m2'))
  /\ UNCHANGED scene

(* The bullet at that edge: it flies on, or explodes where it is. *)
Fly ==
  /\ State = "BULLET" /\ ~Inside(b)
  /\ b' = Plus(b, Minus(Flight(aim), Tread(m2))) /\ Within(Far, b')
  /\ UNCHANGED <<State, timer, struck>>

Explode ==
  /\ State = "BULLET"        \* in the tank, a letter or the border
  /\ State' = "BULLET_BOOM" /\ timer' = 0
  /\ b' = Minus(b, Tread(m2))
  /\ struck' = (Inside(b) /\ m2 = "none")

Burn ==
  /\ State = "BULLET_BOOM" /\ timer < 4
  /\ timer' = timer + 1 /\ b' = Minus(b, Tread(m2))
  /\ struck' = (struck /\ m2 = "none")
  /\ UNCHANGED State

Rest ==
  /\ State = "NOBULLET" /\ aim = dir /\ ~Contact
  /\ UNCHANGED <<State, b, timer, struck>>

Frame ==
  /\ lives > 0
  /\ Drive
  /\ Fly \/ Explode \/ Burn \/ Rest
  /\ UNCHANGED <<aim, lives, paid>>

-----------------------------------------------------------------------------
(* Between two frames. *)

Aim ==
  /\ lives > 0 /\ State = "NOBULLET" /\ aim # dir
  /\ aim' = dir
  /\ UNCHANGED <<tanks, State, b, timer, lives, paid, struck>>

Fire ==
  /\ lives > 0 /\ State = "NOBULLET" /\ aim = dir /\ Scenes[scene].shoots
  /\ State' = "BULLET" /\ b' = Minus(Muzzle(aim), at)
  /\ paid' = 0 /\ struck' = FALSE
  /\ UNCHANGED <<tanks, aim, timer, lives>>

(* The counter of a bullet in flight runs out. *)
RunOut ==
  /\ lives > 0 /\ State = "BULLET"
  /\ State' = "BULLET_WAIT"
  /\ UNCHANGED <<tanks, aim, b, timer, lives, paid, struck>>

(* The explosion lasts 4 frames and two thirds. *)
BoomOver ==
  /\ State = "BULLET_BOOM" /\ timer = 4
  /\ State' = "BOOM_WAIT"
  /\ UNCHANGED <<tanks, aim, b, timer, lives, paid, struck>>

Hit == IF Inside(b) THEN lives' = lives - 1 /\ paid' = paid + 1
       ELSE UNCHANGED <<lives, paid>>

\* A slip: the state waits for the key, as lines commented out here would have it.
Wait_Key ==
  /\ lives > 0 /\ State \in {"BULLET_WAIT", "BOOM_WAIT"}
  /\ Hit
  /\ \/ State' = "NOBULLET" /\ b' = <<0, 0>> /\ timer' = 0
     \/ UNCHANGED <<State, b, timer>>
  /\ UNCHANGED <<tanks, aim, struck>>

(* For one edge the bullet is not drawn and still where it was: if the tank  *)
(* is there now, that costs a life.                                         *)
Wait ==
  /\ lives > 0 /\ State \in {"BULLET_WAIT", "BOOM_WAIT"}
  /\ Hit
  /\ State' = "NOBULLET" /\ b' = <<0, 0>> /\ timer' = 0
  /\ UNCHANGED <<tanks, aim, struck>>

(* Every edge costs a life, until none is left: a frame has 840000.          *)
Drain ==
  /\ lives > 0 /\ Contact
  /\ lives' = lives - 1
  /\ UNCHANGED <<tanks, State, aim, b, timer, paid, struck>>

Again == lives = 0 /\ Start

Next == Frame \/ Aim \/ Fire \/ RunOut \/ BoomOver \/ Wait \/ Drain \/ Again

Spec == Init /\ [][Next]_vars

-----------------------------------------------------------------------------
(* Tanks do not drive through each other: however both move and turn, they   *)
(* never overlap by more than 3 pixels, though each is stopped (Stops) by    *)
(* where the other stood a frame ago and both are still rolling.  Their      *)
(* overlap does reach 3 pixels when they meet head on.                       *)
NotThrough == ~Deep(3, at)

(* A tank that drives up to a parked one, from any side, comes to rest with  *)
(* both muzzles outside the other: the bullet that rests on the muzzle costs *)
(* nobody a life, although the hit wire takes it for a bullet that has hit.  *)
(* Of two moving tanks this does not hold: see Drain.                        *)
ParkedUntouched ==
  scene = "parked" =>
    \A a \in Directions :
      ~Inside(Minus(Muzzle(a), at)) /\ ~Inside(Plus(Muzzle(a), at))

(* The hit is counted only when the explosion is over, against where the     *)
(* tank is by then.  Still a shot costs at most one life, and just one when  *)
(* it met a tank that stays: the bullet is at the place of impact for a      *)
(* single edge of Clk with neither it nor the explosion drawn.               *)
ShotSettles ==
  [][State \notin {"NOBULLET", "BULLET"} /\ State' = "NOBULLET" /\ lives > 0
       => paid' <= 1 /\ (struck => paid' = 1)]_vars
=============================================================================
