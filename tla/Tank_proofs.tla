---------------------------- MODULE Tank_proofs -----------------------------
(***************************************************************************)
(* A tank stays on the board: proved for every start, every set of keys    *)
(* and whatever the stop signals do, and from that for the tank among the  *)
(* letters; and it stays out of the letters, from every start outside them *)
(* and whatever stops it besides.                                          *)
(***************************************************************************)
EXTENDS TankOnBoard, TLAPS

(***************************************************************************)
(* What keeps the tank in: it stands on even positions, so it cannot miss  *)
(* a limit, and a motion is only pending where it has a step of room.      *)
(***************************************************************************)
EvenPositions == X_Pos % 2 = 0 /\ Y_Pos % 2 = 0

RoomForMotion ==
  State = "OTHER" =>
    /\ X_Motion = -Step => X_Pos >= X_Min
    /\ X_Motion = Step  => X_Pos + size < X_Max + Step
    /\ Y_Motion = -Step => Y_Pos >= Y_Min
    /\ Y_Motion = Step  => Y_Pos + size < Y_Max + Step

TankInv == TypeOK /\ EvenPositions /\ RoomForMotion /\ InField

USE DEF X_Min, X_Max, Y_Min, Y_Max, Step, size, Positions

-----------------------------------------------------------------------------
LEMMA TankInvInit == Init => TankInv
BY DEF Init, TankInv, TypeOK, EvenPositions, RoomForMotion, InField, Directions

(***************************************************************************)
(* Every way of not moving loads the start.                                *)
(***************************************************************************)
LEMMA TankInvLoad ==
  ASSUME Load, State' \in {"FIRST", "FIRST_WAIT", "OTHER"}
  PROVE  TankInv'
<1>1. TypeOK'
  BY StartAssumption DEF Load, TypeOK, Directions
<1>2. EvenPositions'
  BY StartAssumption DEF Load, EvenPositions
<1>3. RoomForMotion' /\ InField'
  BY StartAssumption DEF Load, RoomForMotion, InField
<1> QED BY <1>1, <1>2, <1>3 DEF TankInv

LEMMA TankInvFrame ==
  ASSUME TankInv, NEW pressed, NEW stops, Frame(pressed, stops)
  PROVE  TankInv'
<1> DEFINE d == Heading(pressed)
           goes == pressed # {} /\ Free(d, stops)
<1>1. /\ State = "OTHER" /\ State' = "OTHER"
      /\ X_Pos' = (X_Pos + X_Motion) % 1024
      /\ Y_Pos' = (Y_Pos + Y_Motion) % 1024
      /\ X_Motion' = IF goes THEN Along("right", "left", d) ELSE 0
      /\ Y_Motion' = IF goes THEN Along("down", "up", d) ELSE 0
      /\ dir' = IF pressed = {} THEN dir ELSE d
  BY DEF Frame
<1>2. d \in Directions
  BY DEF Heading, Directions
<1>3. goes => /\ d = "up"    => Y_Pos > 22
              /\ d = "down"  => Y_Pos < 459
              /\ d = "left"  => X_Pos > 2
              /\ d = "right" => X_Pos < 457
  BY DEF Free, TankInv, TypeOK
<1>4. /\ X_Pos \in Positions /\ Y_Pos \in Positions
      /\ X_Motion \in {-2, 0, 2} /\ Y_Motion \in {-2, 0, 2}
      /\ dir \in Directions
      /\ X_Pos % 2 = 0 /\ Y_Pos % 2 = 0
      /\ X_Pos >= 0 /\ X_Pos < 461 /\ Y_Pos >= 20 /\ Y_Pos < 463
      /\ X_Motion = -2 => X_Pos >= 2
      /\ X_Motion = 2  => X_Pos < 459
      /\ Y_Motion = -2 => Y_Pos >= 22
      /\ Y_Motion = 2  => Y_Pos < 461
  BY <1>1 DEF TankInv, TypeOK, EvenPositions, RoomForMotion, InField
<1> HIDE DEF d, goes
<1>5. /\ X_Motion' \in {-2, 0, 2} /\ Y_Motion' \in {-2, 0, 2}
      /\ X_Motion' = -2 => X_Pos > 2
      /\ X_Motion' = 2  => X_Pos < 457
      /\ Y_Motion' = -2 => Y_Pos > 22
      /\ Y_Motion' = 2  => Y_Pos < 459
      /\ dir' \in Directions
  BY <1>1, <1>2, <1>3, <1>4 DEF Along
<1>6. /\ X_Pos' \in Positions /\ X_Pos' % 2 = 0 /\ X_Pos' >= 0 /\ X_Pos' <= 460
      /\ X_Motion' = -2 => X_Pos' >= 2
      /\ X_Motion' = 2 => X_Pos' <= 458
  <2>1. X_Pos' = X_Pos + X_Motion
    <3>1. X_Pos + X_Motion \in 0..1023
      BY <1>4
    <3> QED BY <1>1, <3>1
  <2>2. (X_Pos + X_Motion) % 2 = 0
    BY <1>4
  <2>3. /\ X_Motion' = -2 => X_Pos >= 4
        /\ X_Motion' = 2 => X_Pos <= 456
    BY <1>4, <1>5
  <2>4. X_Pos <= 460 /\ (X_Motion = 2 => X_Pos <= 458)
    BY <1>4
  <2> QED BY <1>4, <2>1, <2>2, <2>3, <2>4
<1>7. /\ Y_Pos' \in Positions /\ Y_Pos' % 2 = 0 /\ Y_Pos' >= 20 /\ Y_Pos' <= 462
      /\ Y_Motion' = -2 => Y_Pos' >= 22
      /\ Y_Motion' = 2 => Y_Pos' <= 460
  <2>1. Y_Pos' = Y_Pos + Y_Motion
    <3>1. Y_Pos + Y_Motion \in 0..1023
      BY <1>4
    <3> QED BY <1>1, <3>1
  <2>2. (Y_Pos + Y_Motion) % 2 = 0
    BY <1>4
  <2>3. /\ Y_Motion' = -2 => Y_Pos >= 24
        /\ Y_Motion' = 2 => Y_Pos <= 458
    BY <1>4, <1>5
  <2>4. Y_Pos <= 462 /\ (Y_Motion = 2 => Y_Pos <= 460)
    BY <1>4
  <2> QED BY <1>4, <2>1, <2>2, <2>3, <2>4
<1> QED BY <1>1, <1>5, <1>6, <1>7
        DEF TankInv, TypeOK, EvenPositions, RoomForMotion, InField

LEMMA TankInvStep == TankInv /\ [Next]_vars => TankInv'
<1> SUFFICES ASSUME TankInv, [Next]_vars PROVE TankInv'
  OBVIOUS
<1>1. CASE Reset
  BY <1>1, TankInvLoad DEF Reset
<1>2. CASE First
  BY <1>2, TankInvLoad DEF First
<1>3. CASE FirstWait
  BY <1>3, TankInvLoad DEF FirstWait
<1>4. ASSUME NEW pressed \in Pressed, NEW stops \in SUBSET Directions,
             Frame(pressed, stops)
      PROVE  TankInv'
  BY <1>4, TankInvFrame
<1>5. CASE UNCHANGED vars
  BY <1>5 DEF vars, TankInv, TypeOK, EvenPositions, RoomForMotion, InField
<1> QED BY <1>1, <1>2, <1>3, <1>4, <1>5 DEF Next

(***************************************************************************)
(* The invariant behind it holds of a tank, whatever stops it.             *)
(***************************************************************************)
THEOREM TankInvariant == Spec => []TankInv
BY TankInvInit, TankInvStep, PTL DEF Spec

(***************************************************************************)
(* No keys and no stop signals take a tank off the board or wrap its       *)
(* position registers, although motion is a frame ahead of the tests.      *)
(***************************************************************************)
THEOREM TankStaysInField == Spec => []InField
BY TankInvariant, PTL DEF TankInv

-----------------------------------------------------------------------------
(***************************************************************************)
(* A tank among the letters is a tank with particular stop signals.        *)
(***************************************************************************)
THEOREM BoardImplementsTank == BoardSpec => Spec
<1>1. BoardNext => Next
  <2>1. \A x, y : LetterStops(x, y) \in SUBSET Directions
    BY DEF LetterStops
  <2>2. ASSUME NEW pressed \in Pressed, NEW others \in OtherStops
        PROVE  LetterStops(X_Pos, Y_Pos) \cup others \in SUBSET Directions
    BY <2>1, OtherStopsAssumption
  <2> QED BY <2>2 DEF BoardNext, Next, Drive
<1>2. [BoardNext]_vars => [Next]_vars
  BY <1>1
<1> QED BY <1>2, PTL DEF BoardSpec, Spec

(***************************************************************************)
(* So the tank among the letters, and other tanks, stays on the board.     *)
(***************************************************************************)
THEOREM BoardTankStaysInField == BoardSpec => []InField
BY BoardImplementsTank, TankStaysInField, PTL

(***************************************************************************)
(* And its registers keep their types.                                     *)
(***************************************************************************)
THEOREM BoardTankTypeCorrect == BoardSpec => []TypeOK
BY BoardImplementsTank, TankInvariant, PTL DEF TankInv
-----------------------------------------------------------------------------
(***************************************************************************)
(* The letters are solid.  The proof goes letter by letter: I L L above,   *)
(* I N I below, each a set of strokes; the right stroke of the N is left   *)
(* out.                                                                    *)
(***************************************************************************)
I1 == {<<80, 140, 80, 100>>, <<95, 125, 100, 200>>, <<80, 140, 200, 220>>}
L1 == {<<170, 230, 200, 220>>, <<170, 190, 80, 220>>}
L2 == {<<260, 320, 200, 220>>, <<260, 280, 80, 220>>}
I2 == {<<80, 140, 250, 270>>, <<95, 125, 270, 370>>, <<80, 140, 370, 390>>}
N  == {<<170, 185, 250, 390>>}
I3 == {<<260, 320, 250, 270>>, <<275, 305, 270, 370>>, <<260, 320, 370, 390>>}

Letters == {I1, L1, L2, I2, N, I3}

LEMMA LettersAreStrokes == UNION Letters = Strokes \ {NRight}
<1>1. UNION Letters = I1 \cup L1 \cup L2 \cup I2 \cup N \cup I3
  BY DEF Letters
<1>2. NRight \notin UNION Letters
  BY <1>1 DEF I1, L1, L2, I2, N, I3, NRight
<1> QED BY <1>1, <1>2 DEF Strokes, I1, L1, L2, I2, N, I3

(***************************************************************************)
(* A tank at (x, y) is in no stroke by more than a step; the next frame    *)
(* takes it from there to (u, v), along one axis.                          *)
(***************************************************************************)
Outside(x, y) == \A s \in Strokes \ {NRight} : ~Deeper(Step, x, y, s)

OneStep(x, y, u, v) ==
  /\ x % 2 = 0 /\ y % 2 = 0
  /\ \/ u = x /\ v \in {y - Step, y, y + Step}
     \/ v = y /\ u \in {x - Step, x, x + Step}

Misses(x, y, u, v, s) == ~Deeper(Step, x, y, s) /\ ~Deeper(Step, u, v, s)

(***************************************************************************)
(* Each stop signal is tested at (x, y), where the tank was, and must keep *)
(* it out of the strokes from (u, v), where it is, one step further on.    *)
(***************************************************************************)

(***************************************************************************)
(* To the right, the left side of every stroke has a band along all of it. *)
(***************************************************************************)
LEMMA RightIsStopped ==
  ASSUME NEW x \in Int, NEW y \in Int, NEW u \in Int, NEW v \in Int,
         OneStep(x, y, u, v), Outside(x, y), Outside(u, v), ~stop_tank_right(x, y)
  PROVE  Outside(u + Step, v)
<1> SUFFICES ASSUME NEW l \in Letters, NEW s \in l, Deeper(Step, u + Step, v, s)
             PROVE  FALSE
  BY LettersAreStrokes DEF Outside
<1>1. \A t \in l : Misses(x, y, u, v, t)
  BY LettersAreStrokes DEF Outside, Misses
<1>2. \A b \in RightBands : ~InBand(b, y, x + size)
  BY DEF stop_tank_right
<1> USE DEF Deeper, Misses, InBand, OneStep
<1>3. l # I1
  BY <1>1, <1>2 DEF I1, RightBands
<1>4. l # L1
  BY <1>1, <1>2 DEF L1, RightBands
<1>5. l # L2
  BY <1>1, <1>2 DEF L2, RightBands
<1>6. l # I2
  BY <1>1, <1>2 DEF I2, RightBands
<1>7. l # N
  BY <1>1, <1>2 DEF N, RightBands
<1>8. l # I3
  BY <1>1, <1>2 DEF I3, RightBands
<1> QED BY <1>3, <1>4, <1>5, <1>6, <1>7, <1>8 DEF Letters

(***************************************************************************)
(* To the left, the band of the stem of an L ends at its foot: a tank      *)
(* lower down would be in the foot already.                                *)
(***************************************************************************)
LEMMA LeftIsStopped ==
  ASSUME NEW x \in Int, NEW y \in Int, NEW u \in Int, NEW v \in Int,
         OneStep(x, y, u, v), Outside(x, y), Outside(u, v), ~stop_tank_left(x, y)
  PROVE  Outside(u - Step, v)
<1> SUFFICES ASSUME NEW l \in Letters, NEW s \in l, Deeper(Step, u - Step, v, s)
             PROVE  FALSE
  BY LettersAreStrokes DEF Outside
<1>1. \A t \in l : Misses(x, y, u, v, t)
  BY LettersAreStrokes DEF Outside, Misses
<1>2. \A b \in LeftBands : ~InBand(b, y, x)
  BY DEF stop_tank_left
<1> USE DEF Deeper, Misses, InBand, OneStep
<1>3. l # I1
  BY <1>1, <1>2 DEF I1, LeftBands
<1>4. ASSUME l = L1 PROVE FALSE
  <2>1. Misses(x, y, u, v, <<170, 230, 200, 220>>)
    BY <1>1, <1>4 DEF L1
  <2>2. Misses(x, y, u, v, s)
    BY <1>1
  <2>3. s # <<170, 230, 200, 220>>
    BY <1>2, <2>1, <2>2 DEF LeftBands
  <2>4. s # <<170, 190, 80, 220>>
    BY <1>2, <2>1, <2>2 DEF LeftBands
  <2> QED BY <1>4, <2>3, <2>4 DEF L1
<1>5. ASSUME l = L2 PROVE FALSE
  <2>1. Misses(x, y, u, v, <<260, 320, 200, 220>>)
    BY <1>1, <1>5 DEF L2
  <2>2. Misses(x, y, u, v, s)
    BY <1>1
  <2>3. s # <<260, 320, 200, 220>>
    BY <1>2, <2>1, <2>2 DEF LeftBands
  <2>4. s # <<260, 280, 80, 220>>
    BY <1>2, <2>1, <2>2 DEF LeftBands
  <2> QED BY <1>5, <2>3, <2>4 DEF L2
<1>6. l # I2
  BY <1>1, <1>2 DEF I2, LeftBands
<1>7. l # N
  BY <1>1, <1>2 DEF N, LeftBands
<1>8. l # I3
  BY <1>1, <1>2 DEF I3, LeftBands
<1> QED BY <1>3, <1>4, <1>5, <1>6, <1>7, <1>8 DEF Letters

(***************************************************************************)
(* Upwards, the bar on top of an I has bands beside the stem only, and the *)
(* stem has none: a tank below them would be in the stem, or in the bar at *)
(* the bottom.                                                             *)
(***************************************************************************)
LEMMA UpIsStopped ==
  ASSUME NEW x \in Int, NEW y \in Int, NEW u \in Int, NEW v \in Int,
         OneStep(x, y, u, v), Outside(x, y), Outside(u, v), ~stop_tank_up(x, y)
  PROVE  Outside(u, v - Step)
<1> SUFFICES ASSUME NEW l \in Letters, NEW s \in l, Deeper(Step, u, v - Step, s)
             PROVE  FALSE
  BY LettersAreStrokes DEF Outside
<1>1. \A t \in l : Misses(x, y, u, v, t)
  BY LettersAreStrokes DEF Outside, Misses
<1>2. \A b \in UpBands : ~InBand(b, x, y)
  BY DEF stop_tank_up
<1> USE DEF Deeper, Misses, InBand, OneStep
<1>3. ASSUME l = I1 PROVE FALSE
  <2>1. /\ Misses(x, y, u, v, <<95, 125, 100, 200>>)
        /\ Misses(x, y, u, v, <<80, 140, 200, 220>>)
    BY <1>1, <1>3 DEF I1
  <2>2. Misses(x, y, u, v, s)
    BY <1>1
  <2>3. s # <<80, 140, 80, 100>>
    BY <1>2, <2>1, <2>2 DEF UpBands
  <2>4. s # <<95, 125, 100, 200>>
    BY <1>2, <2>1, <2>2 DEF UpBands
  <2>5. s # <<80, 140, 200, 220>>
    BY <1>2, <2>1, <2>2 DEF UpBands
  <2> QED BY <1>3, <2>3, <2>4, <2>5 DEF I1
<1>4. l # L1
  BY <1>1, <1>2 DEF L1, UpBands
<1>5. l # L2
  BY <1>1, <1>2 DEF L2, UpBands
<1>6. ASSUME l = I2 PROVE FALSE
  <2>1. /\ Misses(x, y, u, v, <<95, 125, 270, 370>>)
        /\ Misses(x, y, u, v, <<80, 140, 370, 390>>)
    BY <1>1, <1>6 DEF I2
  <2>2. Misses(x, y, u, v, s)
    BY <1>1
  <2>3. s # <<80, 140, 250, 270>>
    BY <1>2, <2>1, <2>2 DEF UpBands
  <2>4. s # <<95, 125, 270, 370>>
    BY <1>2, <2>1, <2>2 DEF UpBands
  <2>5. s # <<80, 140, 370, 390>>
    BY <1>2, <2>1, <2>2 DEF UpBands
  <2> QED BY <1>6, <2>3, <2>4, <2>5 DEF I2
<1>7. l # N
  BY <1>1, <1>2 DEF N, UpBands
<1>8. ASSUME l = I3 PROVE FALSE
  <2>1. /\ Misses(x, y, u, v, <<275, 305, 270, 370>>)
        /\ Misses(x, y, u, v, <<260, 320, 370, 390>>)
    BY <1>1, <1>8 DEF I3
  <2>2. Misses(x, y, u, v, s)
    BY <1>1
  <2>3. s # <<260, 320, 250, 270>>
    BY <1>2, <2>1, <2>2 DEF UpBands
  <2>4. s # <<275, 305, 270, 370>>
    BY <1>2, <2>1, <2>2 DEF UpBands
  <2>5. s # <<260, 320, 370, 390>>
    BY <1>2, <2>1, <2>2 DEF UpBands
  <2> QED BY <1>8, <2>3, <2>4, <2>5 DEF I3
<1> QED BY <1>3, <1>4, <1>5, <1>6, <1>7, <1>8 DEF Letters

(***************************************************************************)
(* Downwards likewise, with the stem of an L in place of a band for its    *)
(* foot.                                                                   *)
(***************************************************************************)
LEMMA DownIsStopped ==
  ASSUME NEW x \in Int, NEW y \in Int, NEW u \in Int, NEW v \in Int,
         OneStep(x, y, u, v), Outside(x, y), Outside(u, v), ~stop_tank_down(x, y)
  PROVE  Outside(u, v + Step)
<1> SUFFICES ASSUME NEW l \in Letters, NEW s \in l, Deeper(Step, u, v + Step, s)
             PROVE  FALSE
  BY LettersAreStrokes DEF Outside
<1>1. \A t \in l : Misses(x, y, u, v, t)
  BY LettersAreStrokes DEF Outside, Misses
<1>2. \A b \in DownBands : ~InBand(b, x, y + size)
  BY DEF stop_tank_down
<1> USE DEF Deeper, Misses, InBand, OneStep
<1>3. ASSUME l = I1 PROVE FALSE
  <2>1. /\ Misses(x, y, u, v, <<80, 140, 80, 100>>)
        /\ Misses(x, y, u, v, <<95, 125, 100, 200>>)
    BY <1>1, <1>3 DEF I1
  <2>2. Misses(x, y, u, v, s)
    BY <1>1
  <2>3. s # <<80, 140, 80, 100>>
    BY <1>2, <2>1, <2>2 DEF DownBands
  <2>4. s # <<95, 125, 100, 200>>
    BY <1>2, <2>1, <2>2 DEF DownBands
  <2>5. s # <<80, 140, 200, 220>>
    BY <1>2, <2>1, <2>2 DEF DownBands
  <2> QED BY <1>3, <2>3, <2>4, <2>5 DEF I1
<1>4. ASSUME l = L1 PROVE FALSE
  <2>1. Misses(x, y, u, v, <<170, 190, 80, 220>>)
    BY <1>1, <1>4 DEF L1
  <2>2. Misses(x, y, u, v, s)
    BY <1>1
  <2>3. s # <<170, 230, 200, 220>>
    BY <1>2, <2>1, <2>2 DEF DownBands
  <2>4. s # <<170, 190, 80, 220>>
    BY <1>2, <2>1, <2>2 DEF DownBands
  <2> QED BY <1>4, <2>3, <2>4 DEF L1
<1>5. ASSUME l = L2 PROVE FALSE
  <2>1. Misses(x, y, u, v, <<260, 280, 80, 220>>)
    BY <1>1, <1>5 DEF L2
  <2>2. Misses(x, y, u, v, s)
    BY <1>1
  <2>3. s # <<260, 320, 200, 220>>
    BY <1>2, <2>1, <2>2 DEF DownBands
  <2>4. s # <<260, 280, 80, 220>>
    BY <1>2, <2>1, <2>2 DEF DownBands
  <2> QED BY <1>5, <2>3, <2>4 DEF L2
<1>6. ASSUME l = I2 PROVE FALSE
  <2>1. /\ Misses(x, y, u, v, <<80, 140, 250, 270>>)
        /\ Misses(x, y, u, v, <<95, 125, 270, 370>>)
    BY <1>1, <1>6 DEF I2
  <2>2. Misses(x, y, u, v, s)
    BY <1>1
  <2>3. s # <<80, 140, 250, 270>>
    BY <1>2, <2>1, <2>2 DEF DownBands
  <2>4. s # <<95, 125, 270, 370>>
    BY <1>2, <2>1, <2>2 DEF DownBands
  <2>5. s # <<80, 140, 370, 390>>
    BY <1>2, <2>1, <2>2 DEF DownBands
  <2> QED BY <1>6, <2>3, <2>4, <2>5 DEF I2
<1>7. l # N
  BY <1>1, <1>2 DEF N, DownBands
<1>8. ASSUME l = I3 PROVE FALSE
  <2>1. /\ Misses(x, y, u, v, <<260, 320, 250, 270>>)
        /\ Misses(x, y, u, v, <<275, 305, 270, 370>>)
    BY <1>1, <1>8 DEF I3
  <2>2. Misses(x, y, u, v, s)
    BY <1>1
  <2>3. s # <<260, 320, 250, 270>>
    BY <1>2, <2>1, <2>2 DEF DownBands
  <2>4. s # <<275, 305, 270, 370>>
    BY <1>2, <2>1, <2>2 DEF DownBands
  <2>5. s # <<260, 320, 370, 390>>
    BY <1>2, <2>1, <2>2 DEF DownBands
  <2> QED BY <1>8, <2>3, <2>4, <2>5 DEF I3
<1> QED BY <1>3, <1>4, <1>5, <1>6, <1>7, <1>8 DEF Letters

-----------------------------------------------------------------------------
(***************************************************************************)
(* The tank is outside the strokes where it stands and where the pending   *)
(* motion takes it, and that motion is along one axis.                     *)
(***************************************************************************)
OutsideAhead ==
  State = "OTHER" =>
    /\ Outside(X_Pos, Y_Pos)
    /\ Outside(X_Pos + X_Motion, Y_Pos + Y_Motion)

OneAxis == X_Motion = 0 \/ Y_Motion = 0

SolidInv == OutsideAhead /\ OneAxis

StartOutside ==
  Outside(X_Start, Y_Start) /\ Outside(X_Start, Y_Start + Step)

LEMMA SolidInvLoad ==
  ASSUME StartOutside, Load
  PROVE  SolidInv'
<1>1. X_Start \in Int /\ Y_Start \in Int
  BY StartAssumption
<1>2. X_Start + 0 = X_Start
  BY <1>1
<1> QED BY <1>2 DEF Load, StartOutside, SolidInv, OutsideAhead, OneAxis

LEMMA SolidInvFrame ==
  ASSUME TankInv, SolidInv, NEW pressed, NEW others,
         Frame(pressed, LetterStops(X_Pos, Y_Pos) \cup others)
  PROVE  SolidInv'
<1> DEFINE stops == LetterStops(X_Pos, Y_Pos) \cup others
           d     == Heading(pressed)
           goes  == pressed # {} /\ Free(d, stops)
<1>1. /\ State = "OTHER"
      /\ X_Pos' = (X_Pos + X_Motion) % 1024
      /\ Y_Pos' = (Y_Pos + Y_Motion) % 1024
      /\ X_Motion' = IF goes THEN Along("right", "left", d) ELSE 0
      /\ Y_Motion' = IF goes THEN Along("down", "up", d) ELSE 0
  BY DEF Frame
<1>2. d \in Directions
  BY DEF Heading, Directions
<1>3. /\ X_Pos' = X_Pos + X_Motion /\ X_Pos' \in Int
      /\ Y_Pos' = Y_Pos + Y_Motion /\ Y_Pos' \in Int
  BY <1>1 DEF TankInv, TypeOK, RoomForMotion
<1>4. OneStep(X_Pos, Y_Pos, X_Pos', Y_Pos')
  BY <1>3 DEF TankInv, TypeOK, EvenPositions, SolidInv, OneAxis, OneStep
<1>5. Outside(X_Pos, Y_Pos) /\ Outside(X_Pos', Y_Pos')
  BY <1>1, <1>3 DEF SolidInv, OutsideAhead
<1>6. X_Pos \in Int /\ Y_Pos \in Int
  BY DEF TankInv, TypeOK
<1>7. CASE ~goes
  <2>1. X_Motion' = 0 /\ Y_Motion' = 0
    BY <1>1, <1>7
  <2>2. X_Pos' + X_Motion' = X_Pos' /\ Y_Pos' + Y_Motion' = Y_Pos'
    BY <1>3, <2>1
  <2> QED BY <1>5, <2>1, <2>2 DEF SolidInv, OutsideAhead, OneAxis
<1>8. CASE goes
  <2>1. d \notin LetterStops(X_Pos, Y_Pos)
    BY <1>8 DEF Free
  <2>2. CASE d = "right"
    <3>1. X_Motion' = Step /\ Y_Motion' = 0
      BY <1>1, <1>8, <2>2 DEF Along
    <3>2. Outside(X_Pos' + Step, Y_Pos')
      BY <1>3, <1>4, <1>5, <1>6, <2>1, <2>2, RightIsStopped
         DEF LetterStops, Directions
    <3> QED BY <1>3, <1>5, <3>1, <3>2 DEF SolidInv, OutsideAhead, OneAxis
  <2>3. CASE d = "left"
    <3>1. X_Motion' = -Step /\ Y_Motion' = 0
      BY <1>1, <1>8, <2>3 DEF Along
    <3>2. Outside(X_Pos' - Step, Y_Pos')
      BY <1>3, <1>4, <1>5, <1>6, <2>1, <2>3, LeftIsStopped
         DEF LetterStops, Directions
    <3>3. X_Pos' + X_Motion' = X_Pos' - Step
      BY <1>3, <3>1
    <3> QED BY <1>3, <1>5, <3>1, <3>2, <3>3 DEF SolidInv, OutsideAhead, OneAxis
  <2>4. CASE d = "up"
    <3>1. X_Motion' = 0 /\ Y_Motion' = -Step
      BY <1>1, <1>8, <2>4 DEF Along
    <3>2. Outside(X_Pos', Y_Pos' - Step)
      BY <1>3, <1>4, <1>5, <1>6, <2>1, <2>4, UpIsStopped
         DEF LetterStops, Directions
    <3>3. Y_Pos' + Y_Motion' = Y_Pos' - Step
      BY <1>3, <3>1
    <3> QED BY <1>3, <1>5, <3>1, <3>2, <3>3 DEF SolidInv, OutsideAhead, OneAxis
  <2>5. CASE d = "down"
    <3>1. X_Motion' = 0 /\ Y_Motion' = Step
      BY <1>1, <1>8, <2>5 DEF Along
    <3>2. Outside(X_Pos', Y_Pos' + Step)
      BY <1>3, <1>4, <1>5, <1>6, <2>1, <2>5, DownIsStopped
         DEF LetterStops, Directions
    <3> QED BY <1>3, <1>5, <3>1, <3>2 DEF SolidInv, OutsideAhead, OneAxis
  <2> QED BY <1>2, <2>2, <2>3, <2>4, <2>5 DEF Directions
<1> QED BY <1>7, <1>8

LEMMA SolidInvStep ==
  ASSUME StartOutside, TankInv, SolidInv, [BoardNext]_vars
  PROVE  SolidInv'
<1>1. CASE Reset
  BY <1>1, SolidInvLoad DEF Reset
<1>2. CASE First
  BY <1>2, SolidInvLoad DEF First
<1>3. CASE FirstWait
  BY <1>3, SolidInvLoad DEF FirstWait
<1>4. ASSUME NEW pressed \in Pressed, Drive(pressed) PROVE SolidInv'
  BY <1>4, SolidInvFrame DEF Drive
<1>5. CASE UNCHANGED vars
  BY <1>5 DEF vars, SolidInv, OutsideAhead, OneAxis
<1> QED BY <1>1, <1>2, <1>3, <1>4, <1>5 DEF BoardNext

(***************************************************************************)
(* From a start outside the letters, by no sequence of turns and whatever  *)
(* other tanks do, a tank gets more than a step into an upright or level   *)
(* stroke other than the right one of the N: the narrow bands of wall.sv   *)
(* and the joints between the strokes leave no gap for even positions.     *)
(***************************************************************************)
THEOREM LettersAreSolid ==
  ASSUME StartOutside
  PROVE  BoardSpec => []StrokesSolid
<1>1. Init => SolidInv
  BY DEF Init, SolidInv, OutsideAhead, OneAxis
<1>2. TankInv /\ SolidInv /\ [BoardNext]_vars => SolidInv'
  BY SolidInvStep
<1>3. SolidInv => StrokesSolid
  BY DEF SolidInv, OutsideAhead, Outside, StrokesSolid
<1> QED BY <1>1, <1>2, <1>3, BoardImplementsTank, TankInvariant, PTL DEF BoardSpec

(***************************************************************************)
(* The starts of tank1 and tank2, (2, 458) and (2, 30), are such starts.   *)
(***************************************************************************)
LEMMA StartsAreOutside ==
  ASSUME X_Start = 2, Y_Start \in {458, 30}
  PROVE  StartOutside
BY DEF StartOutside, Outside, Deeper, Strokes, NRight
=============================================================================
