-------------------------------- MODULE Wall --------------------------------
(***************************************************************************)
(* The letters I L L / I N I on the game board, and where they stop a tank *)
(* (wall.sv for the first tank; wall2.sv repeats the same tests for the    *)
(* second).  A tank is the square of size pixels whose top left corner is  *)
(* its position.                                                           *)
(*                                                                         *)
(* wall.sv does not compare a tank with the letters as they are drawn: for *)
(* each direction it lists bands of positions, a few pixels wide, in which *)
(* the tank stops.  Drawing and bands are kept apart here, as there.       *)
(***************************************************************************)
EXTENDS Integers

Directions == {"right", "up", "left", "down"}

size == 19

-----------------------------------------------------------------------------
(***************************************************************************)
(* The upright and level strokes as drawn: <<left, right, top, bottom>>,   *)
(* right and bottom excluded.  The slanted stroke of the N is not here.    *)
(***************************************************************************)
NRight == <<215, 230, 250, 390>>

Strokes ==
  {<<80, 140, 80, 100>>, <<95, 125, 100, 200>>, <<80, 140, 200, 220>>,
   <<170, 230, 200, 220>>, <<170, 190, 80, 220>>,
   <<260, 320, 200, 220>>, <<260, 280, 80, 220>>,
   <<80, 140, 250, 270>>, <<95, 125, 270, 370>>, <<80, 140, 370, 390>>,
   <<170, 185, 250, 390>>, NRight,
   <<260, 320, 250, 270>>, <<275, 305, 270, 370>>, <<260, 320, 370, 390>>}

(***************************************************************************)
(* Does a tank at (x, y) reach more than n pixels into stroke s?           *)
(***************************************************************************)
Deeper(n, x, y, s) ==
  /\ x + size - s[1] > n
  /\ s[2] - x > n
  /\ y + size - s[3] > n
  /\ s[4] - y > n

-----------------------------------------------------------------------------
(***************************************************************************)
(* A band <<from, to, lo, hi>> stops a tank whose extent along the stroke  *)
(* meets from .. to - 1 and whose leading edge lies in lo .. hi.           *)
(***************************************************************************)
\* A slip (PROJECT.json "mutants"): the tank as a point.
InBand_Point(b, along, edge) ==
  along >= b[1] /\ along < b[2] /\ edge \in b[3]..b[4]

InBand(b, along, edge) ==
  along + size >= b[1] /\ along < b[2] /\ edge \in b[3]..b[4]

RightBands ==
  {<<80, 100, 79, 81>>, <<100, 200, 95, 97>>, <<200, 220, 79, 81>>,
   <<80, 220, 169, 171>>, <<80, 220, 259, 261>>,
   <<250, 270, 79, 81>>, <<270, 370, 95, 97>>, <<370, 390, 79, 81>>,
   <<250, 390, 169, 171>>, <<250, 390, 213, 217>>,
   <<250, 270, 259, 261>>, <<270, 370, 275, 305>>, <<370, 390, 259, 261>>}

LeftBands ==
  {<<80, 100, 138, 142>>, <<100, 200, 123, 127>>, <<200, 220, 138, 142>>,
   <<80, 200, 188, 192>>, <<200, 220, 228, 232>>,
   <<80, 200, 278, 282>>, <<200, 220, 318, 322>>,
   <<250, 270, 138, 142>>, <<270, 371, 123, 127>>, <<370, 390, 138, 142>>,
   <<250, 390, 228, 232>>, <<250, 390, 183, 187>>,
   <<250, 270, 318, 322>>, <<270, 370, 303, 307>>, <<371, 390, 318, 322>>}

UpBands ==
  {<<80, 140, 217, 223>>, <<80, 95, 97, 103>>, <<125, 140, 97, 103>>,
   <<170, 230, 217, 223>>, <<260, 320, 217, 223>>,
   <<80, 140, 387, 393>>, <<80, 95, 267, 273>>, <<125, 140, 267, 273>>,
   <<170, 185, 387, 393>>, <<215, 230, 387, 393>>,
   <<260, 320, 387, 393>>, <<260, 275, 267, 273>>, <<305, 320, 267, 273>>}

(***************************************************************************)
(* The band over the right stroke of the N asks for Ball_X_Pos + size <    *)
(* 230 where the others ask for Ball_X_Pos.                                *)
(***************************************************************************)
DownBands ==
  {<<80, 140, 79, 81>>, <<80, 95, 199, 201>>, <<125, 140, 199, 201>>,
   <<170, 190, 79, 81>>, <<190, 230, 199, 201>>,
   <<260, 280, 79, 81>>, <<280, 320, 199, 201>>,
   <<80, 140, 249, 251>>, <<80, 95, 369, 371>>, <<125, 140, 369, 371>>,
   <<170, 185, 249, 251>>, <<215, 230 - size, 249, 251>>,
   <<260, 320, 249, 251>>, <<260, 275, 369, 371>>, <<305, 320, 369, 371>>}

(***************************************************************************)
(* The slanted stroke of the N: its bands move along with the tank.        *)
(***************************************************************************)
x_func_down(y) == (y + 470) \div 4
x_func_up(y)   == (y + 490) \div 4
y_func_down(x) == (x + size) * 4 - 470
y_func_up(x)   == x * 4 - 490

Around(n, d) == (n - d)..(n + d)

stop_tank_right(x, y) ==
  \/ \E b \in RightBands : InBand(b, y, x + size)
  \/ y + size >= 250 /\ y < 390 /\ x + size \in Around(x_func_down(y), 1)

stop_tank_left(x, y) ==
  \/ \E b \in LeftBands : InBand(b, y, x)
  \/ y + size >= 250 /\ y < 390 /\ x \in Around(x_func_up(y), 2)

stop_tank_up(x, y) ==
  \/ \E b \in UpBands : InBand(b, x, y)
  \/ x \in 185..195 /\ y \in Around(y_func_down(x), 3)

stop_tank_down(x, y) ==
  \/ \E b \in DownBands : InBand(b, x, y + size)
  \/ x + size >= 185 /\ x < 215 /\ y + size \in Around(y_func_up(x), 1)

(***************************************************************************)
(* The directions in which the letters stop a tank at (x, y).              *)
(***************************************************************************)
LetterStops(x, y) ==
  {d \in Directions : \/ d = "right" /\ stop_tank_right(x, y)
                      \/ d = "left"  /\ stop_tank_left(x, y)
                      \/ d = "up"    /\ stop_tank_up(x, y)
                      \/ d = "down"  /\ stop_tank_down(x, y)}
=============================================================================
