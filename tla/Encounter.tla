------------------------------ MODULE Encounter ------------------------------
(***************************************************************************)
(* Tanks and bullets that meet: pairs of pixels across and down, and what   *)
(* ball.sv, bullets.sv and wall.sv compute from the distance of two things. *)
(* Duel and Hunt put them in motion.                                        *)
(***************************************************************************)
EXTENDS Wall

Unit == [right |-> <<1, 0>>, left |-> <<-1, 0>>, up |-> <<0, -1>>,
         down |-> <<0, 1>>, none |-> <<0, 0>>]

Plus(u, v) == <<u[1] + v[1], u[2] + v[2]>>
Minus(u, v) == <<u[1] - v[1], u[2] - v[2]>>
Times(n, u) == <<n * u[1], n * u[2]>>
Within(n, u) == u[1] \in -n..n /\ u[2] \in -n..n

(* One step of a tank and of a bullet. *)
Tread(m) == Times(2, Unit[m])
Flight(m) == Times(6, Unit[m])

(* The middle of the side of a tank that faces direction a. *)
Muzzle(a) ==
  [right |-> <<size, size \div 2>>, up |-> <<size \div 2, 0>>,
   left |-> <<0, size \div 2>>, down |-> <<size \div 2, size>>][a]

Inside(u) == u[1] \in 0..(size - 1) /\ u[2] \in 0..(size - 1)

\* A slip (PROJECT.json "mutants"): bands as narrow as those of the letters.
Stops_Narrow(e) ==
  {d \in Directions :
     \/ d = "right" /\ size \in Around(e[1], 1) /\ e[2] \in -size..size
     \/ d = "left" /\ 0 \in Around(e[1] + size, 1) /\ e[2] \in -size..size
     \/ d = "up" /\ 0 \in Around(e[2] + size, 1) /\ e[1] \in -size..size
     \/ d = "down" /\ size \in Around(e[2], 1) /\ e[1] \in -size..size}

(* Where a tank is stopped by another that is e away. *)
Stops(e) ==
  {d \in Directions :
     \/ d = "right" /\ size \in Around(e[1], 4) /\ e[2] \in -size..size
     \/ d = "left" /\ 0 \in Around(e[1] + size, 4) /\ e[2] \in -size..size
     \/ d = "up" /\ 0 \in Around(e[2] + size, 4) /\ e[1] \in -size..size
     \/ d = "down" /\ size \in Around(e[2], 4) /\ e[1] \in -size..size}

(* Do two tanks that are e apart overlap by more than n pixels both ways?    *)
Deep(n, e) == Within(size - 1 - n, e)
=============================================================================
