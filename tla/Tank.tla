-------------------------------- MODULE Tank --------------------------------
(***************************************************************************)
(* A player's tank (tank1 in ball.sv, tank2 in tank2.sv): where it stands, *)
(* how it moves and where it looks.  The registers are clocked by Clk, but *)
(* the tank moves only at the first edge of a frame; a step here is a      *)
(* frame (Frame), a change of the start-up machine, or a reset.            *)
(*                                                                         *)
(* A frame moves the tank by the motion chosen in the frame BEFORE, while  *)
(* the limits of the board and the stop signals are tested at the position *)
(* before the move.  The tank is therefore one frame ahead of every test.  *)
(*                                                                         *)
(* Here the stop signals are inputs and arbitrary; TankOnBoard takes them  *)
(* from the letters.                                                       *)
(***************************************************************************)
EXTENDS Integers, Wall

CONSTANTS
  X_Start, Y_Start,   \* where the tank starts: (2, 458) and (2, 30)
  Pressed             \* the sets of movement keys that may be down together

X_Min == 2
X_Max == 476
Y_Min == 22
Y_Max == 478
Step  == 2

Positions == 0..1023    \* registers of 10 bits

ASSUME StartAssumption ==
  /\ X_Start \in X_Min..(X_Max - size - 1) /\ X_Start % 2 = 0
  /\ Y_Start \in Y_Min..(Y_Max - size + 1) /\ Y_Start % 2 = 0

ASSUME PressedAssumption == Pressed \subseteq SUBSET Directions

VARIABLES
  State,                \* the start-up machine
  X_Pos, Y_Pos,         \* top left corner
  X_Motion, Y_Motion,   \* what the next frame adds, as a signed number
  dir                   \* where the tank looks (is_tank_dir)

vars == <<State, X_Pos, Y_Pos, X_Motion, Y_Motion, dir>>

-----------------------------------------------------------------------------
(***************************************************************************)
(* The direction that wins when several keys are down.                     *)
(***************************************************************************)
Heading(pressed) ==
  IF "up" \in pressed THEN "up"
  ELSE IF "down" \in pressed THEN "down"
  ELSE IF "left" \in pressed THEN "left"
  ELSE "right"

\* A slip (PROJECT.json "mutants"): one pixel too generous.
Free_AtLimit(d, stops) ==
  /\ d \notin stops
  /\ d = "up"    => Y_Pos >= Y_Min
  /\ d = "down"  => Y_Pos + size <= Y_Max
  /\ d = "left"  => X_Pos >= X_Min
  /\ d = "right" => X_Pos + size <= X_Max

(***************************************************************************)
(* May the tank take up motion in direction d, given the stop signals?     *)
(***************************************************************************)
Free(d, stops) ==
  /\ d \notin stops
  /\ d = "up"    => Y_Pos > Y_Min
  /\ d = "down"  => Y_Pos + size < Y_Max
  /\ d = "left"  => X_Pos > X_Min
  /\ d = "right" => X_Pos + size < X_Max

\* A slip (PROJECT.json "mutants"): the complement without the added one.
Along_Complement(plus, minus, d) ==
  IF d = plus THEN Step ELSE IF d = minus THEN -Step - 1 ELSE 0

(***************************************************************************)
(* Motion in direction d on the axis from minus to plus.                   *)
(***************************************************************************)
Along(plus, minus, d) ==
  IF d = plus THEN Step ELSE IF d = minus THEN -Step ELSE 0

Load ==
  /\ X_Pos' = X_Start /\ Y_Pos' = Y_Start
  /\ X_Motion' = 0 /\ Y_Motion' = Step
  /\ dir' = "right"

-----------------------------------------------------------------------------
(***************************************************************************)
(* At power-up every register is zero.                                     *)
(***************************************************************************)
Init ==
  /\ State = "FIRST"
  /\ X_Pos = 0 /\ Y_Pos = 0
  /\ X_Motion = 0 /\ Y_Motion = 0
  /\ dir = "right"

(***************************************************************************)
(* Reset_tank: at the start of a game.                                     *)
(***************************************************************************)
Reset == State' = "FIRST" /\ Load

(***************************************************************************)
(* FIRST: tank1 leaves it at once, tank2 waits for two-player mode.        *)
(***************************************************************************)
First == State = "FIRST" /\ State' \in {"FIRST", "FIRST_WAIT"} /\ Load

(***************************************************************************)
(* FIRST_WAIT, until the keys are released.                                *)
(***************************************************************************)
FirstWait == State = "FIRST_WAIT" /\ State' \in {"FIRST_WAIT", "OTHER"} /\ Load

(***************************************************************************)
(* The first Clk edge of a frame, with the movement keys in pressed down   *)
(* and the stop signals in stops high.                                     *)
(***************************************************************************)
Frame(pressed, stops) ==
  LET goes == pressed # {} /\ Free(Heading(pressed), stops)
      d    == Heading(pressed)
  IN  /\ State = "OTHER"
      /\ X_Pos' = (X_Pos + X_Motion) % 1024
      /\ Y_Pos' = (Y_Pos + Y_Motion) % 1024
      /\ X_Motion' = IF goes THEN Along("right", "left", d) ELSE 0
      /\ Y_Motion' = IF goes THEN Along("down", "up", d) ELSE 0
      /\ dir' = IF pressed = {} THEN dir ELSE d
      /\ UNCHANGED State

Next ==
  \/ Reset
  \/ First
  \/ FirstWait
  \/ \E pressed \in Pressed, stops \in SUBSET Directions : Frame(pressed, stops)

Spec == Init /\ [][Next]_vars

-----------------------------------------------------------------------------
TypeOK ==
  /\ State \in {"FIRST", "FIRST_WAIT", "OTHER"}
  /\ X_Pos \in Positions /\ Y_Pos \in Positions
  /\ X_Motion \in {-Step, 0, Step} /\ Y_Motion \in {-Step, 0, Step}
  /\ dir \in Directions

(***************************************************************************)
(* The tank never leaves the board, whatever keys and stop signals do: it  *)
(* overruns the limits it is tested against by one step at most, so its    *)
(* position registers never wrap.                                          *)
(***************************************************************************)
InField ==
  State = "OTHER" =>
    /\ X_Pos >= X_Min - Step /\ X_Pos + size < X_Max + 2 * Step
    /\ Y_Pos >= Y_Min - Step /\ Y_Pos + size < Y_Max + 2 * Step
=============================================================================
