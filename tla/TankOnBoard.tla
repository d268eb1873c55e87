----------------------------- MODULE TankOnBoard ----------------------------
(***************************************************************************)
(* A tank among the letters: Tank, with its stop signals taken from Wall   *)
(* at the position the tank has before the frame, as in lab8.sv.  Another  *)
(* tank may raise further stop signals (OtherStops).                       *)
(***************************************************************************)
EXTENDS Tank

CONSTANT OtherStops     \* sets of stop signals that other tanks may raise

ASSUME OtherStopsAssumption == OtherStops \subseteq SUBSET Directions

Drive(pressed) ==
  \E others \in OtherStops : Frame(pressed, LetterStops(X_Pos, Y_Pos) \cup others)

BoardNext ==
  \/ Reset
  \/ First
  \/ FirstWait
  \/ \E pressed \in Pressed : Drive(pressed)

BoardSpec == Init /\ [][BoardNext]_vars

-----------------------------------------------------------------------------
(***************************************************************************)
(* The letters are solid: from no side, and by no sequence of turns, does  *)
(* a tank get more than one step into an upright or level stroke other     *)
(* than the right one of the N.  The bands are narrow and tested a frame   *)
(* late, so this hangs on the step, the parity of the start and each band. *)
(***************************************************************************)
StrokesSolid ==
  State = "OTHER" =>
    \A s \in Strokes \ {NRight} : ~Deeper(Step, X_Pos, Y_Pos, s)

(***************************************************************************)
(* The same of all upright and level strokes, as the design report says.   *)
(* The code violates this at the right stroke of the N (see DownBands).    *)
(***************************************************************************)
LettersSolid ==
  State = "OTHER" => \A s \in Strokes : ~Deeper(Step, X_Pos, Y_Pos, s)
=============================================================================
