----------------------------- MODULE Duel_proofs -----------------------------
(***************************************************************************)
(* Duel for every number of lives and every distance that the tanks and the *)
(* bullet are followed: two tanks do not drive through each other, and what  *)
(* a shot costs.                                                            *)
(***************************************************************************)
EXTENDS Duel, TLAPS

(***************************************************************************)
(* NotThrough is not inductive: a tank moves by what it chose a frame ago,  *)
(* so the place where both will stand after the next frame counts as well.  *)
(* That place is where the stop signals for the frame after it are not yet  *)
(* tested.  One case remains: at a corner, x and y 14 and 16 apart, a tank   *)
(* that is rounding the other could be met by it (Corner).                  *)
(***************************************************************************)
Motions == Directions \cup {"none"}

Apart(u) == u[1] \notin -15..15 \/ u[2] \notin -15..15

Corner(u, v) ==
  \/ u[1] \in {-14, 14} /\ u[2] \in {-16, 16} /\ v[1] \in {-16, 16} /\ v[2] \in {-14, 14}
  \/ u[1] \in {-16, 16} /\ u[2] \in {-14, 14} /\ v[1] \in {-14, 14} /\ v[2] \in {-16, 16}

Placed(u) ==
  /\ u[1] \in Int /\ u[2] \in Int
  /\ u[1] % 2 = 0 /\ u[2] % 2 = 0

ApartInv ==
  /\ scene \in DOMAIN Scenes
  /\ m1 \in Motions /\ m2 \in Motions
  /\ Placed(at)
  /\ Apart(at) /\ Apart(Moved(at, m1, m2))
  /\ ~Corner(at, Moved(at, m1, m2))

-----------------------------------------------------------------------------
(***************************************************************************)
(* How much the tanks come apart in a frame, along each axis.               *)
(***************************************************************************)
Gain(n1, n2) == Minus(Tread(n2), Tread(n1))

LEMMA GainBounds ==
  ASSUME NEW n1 \in Motions, NEW n2 \in Motions
  PROVE  /\ Gain(n1, n2)[1] \in {-4, -2, 0, 2, 4}
         /\ Gain(n1, n2)[2] \in {-4, -2, 0, 2, 4}
         /\ Gain(n1, n2)[1] + Gain(n1, n2)[2] \in -4..4
         /\ Gain(n1, n2)[1] - Gain(n1, n2)[2] \in -4..4
<1>1. Tread(n1) \in {<<2, 0>>, <<-2, 0>>, <<0, 2>>, <<0, -2>>, <<0, 0>>}
  BY DEF Tread, Times, Unit, Motions, Directions
<1>2. Tread(n2) \in {<<2, 0>>, <<-2, 0>>, <<0, 2>>, <<0, -2>>, <<0, 0>>}
  BY DEF Tread, Times, Unit, Motions, Directions
<1> QED
  BY <1>1, <1>2 DEF Gain, Minus

(***************************************************************************)
(* Both tanks' stop signals together: tanks beside each other do not come   *)
(* nearer.                                                                  *)
(***************************************************************************)
LEMMA StopsHold ==
  ASSUME NEW u, Placed(u), NEW n1 \in Motions, NEW n2 \in Motions,
         n1 \notin Stops(u), n2 \notin Stops(Times(-1, u))
  PROVE  /\ u[1] \in 15..23 /\ u[2] \in -19..19 => Gain(n1, n2)[1] >= 0
         /\ u[1] \in -23..-15 /\ u[2] \in -19..19 => Gain(n1, n2)[1] <= 0
         /\ u[2] \in 15..23 /\ u[1] \in -19..19 => Gain(n1, n2)[2] >= 0
         /\ u[2] \in -23..-15 /\ u[1] \in -19..19 => Gain(n1, n2)[2] <= 0
<1>1. /\ u[1] \in 15..23 /\ u[2] \in -19..19 => n1 # "right" /\ n2 # "left"
      /\ u[1] \in -23..-15 /\ u[2] \in -19..19 => n1 # "left" /\ n2 # "right"
      /\ u[2] \in 15..23 /\ u[1] \in -19..19 => n1 # "down" /\ n2 # "up"
      /\ u[2] \in -23..-15 /\ u[1] \in -19..19 => n1 # "up" /\ n2 # "down"
  BY DEF Stops, Around, Times, Directions, Placed, size
<1>2. \A n \in Motions :
        /\ n # "right" => Tread(n)[1] \in {-2, 0}
        /\ n # "left" => Tread(n)[1] \in {0, 2}
        /\ n # "down" => Tread(n)[2] \in {-2, 0}
        /\ n # "up" => Tread(n)[2] \in {0, 2}
  BY DEF Tread, Times, Unit, Motions, Directions
<1>3. /\ Gain(n1, n2)[1] = Tread(n2)[1] - Tread(n1)[1]
      /\ Gain(n1, n2)[2] = Tread(n2)[2] - Tread(n1)[2]
  BY DEF Gain, Minus
<1> QED
  BY <1>1, <1>2, <1>3

-----------------------------------------------------------------------------
(***************************************************************************)
(* ShotSettles speaks of the last edge of a shot only.  What carries it      *)
(* there: until then the shot has cost nothing, and if it met a tank that    *)
(* stays, the bullet has not left that tank.                                *)
(***************************************************************************)
InFlight == {"BULLET", "BULLET_WAIT", "BULLET_BOOM", "BOOM_WAIT"}

Unpaid == State \in InFlight => paid = 0

StillInside == State \in InFlight /\ struck => State # "BULLET" /\ Inside(b)

ShotInv == Unpaid /\ StillInside

(***************************************************************************)
(* The arithmetic of two frames: (x, y) apart, they come d apart by motions  *)
(* chosen before and then e by motions chosen at (x, y).                    *)
(***************************************************************************)
Steps == {-4, -2, 0, 2, 4}

LEMMA TwoFrames ==
  ASSUME NEW x \in Int, NEW y \in Int, x % 2 = 0, y % 2 = 0,
         NEW dx \in Steps, NEW dy \in Steps, NEW ex \in Steps, NEW ey \in Steps,
         dx + dy \in -4..4, dx - dy \in -4..4,
         ex + ey \in -4..4, ex - ey \in -4..4,
         x \notin -15..15 \/ y \notin -15..15,
         x + dx \notin -15..15 \/ y + dy \notin -15..15,
         ~Corner(<<x, y>>, <<x + dx, y + dy>>),
         x \in 15..23 /\ y \in -19..19 => ex >= 0,
         x \in -23..-15 /\ y \in -19..19 => ex <= 0,
         y \in 15..23 /\ x \in -19..19 => ey >= 0,
         y \in -23..-15 /\ x \in -19..19 => ey <= 0
  PROVE  /\ x + dx + ex \notin -15..15 \/ y + dy + ey \notin -15..15
         /\ ~Corner(<<x + dx, y + dy>>, <<x + dx + ex, y + dy + ey>>)
<1>1. x + dx + ex \notin -15..15 \/ y + dy + ey \notin -15..15
  BY SMTT(60) DEF Steps, Corner
<1>2. ~Corner(<<x + dx, y + dy>>, <<x + dx + ex, y + dy + ey>>)
  BY SMTT(60) DEF Steps, Corner
<1> QED
  BY <1>1, <1>2

-----------------------------------------------------------------------------
LEMMA MovedByGain ==
  ASSUME NEW u, Placed(u), NEW n1 \in Motions, NEW n2 \in Motions
  PROVE  /\ Moved(u, n1, n2) = <<u[1] + Gain(n1, n2)[1], u[2] + Gain(n1, n2)[2]>>
         /\ Placed(Moved(u, n1, n2))
<1>1. Moved(u, n1, n2) = <<u[1] + Gain(n1, n2)[1], u[2] + Gain(n1, n2)[2]>>
  BY DEF Moved, Plus, Gain
<1>2. Gain(n1, n2)[1] \in Steps /\ Gain(n1, n2)[2] \in Steps
  BY GainBounds DEF Steps
<1>3. /\ (u[1] + Gain(n1, n2)[1]) \in Int /\ (u[1] + Gain(n1, n2)[1]) % 2 = 0
      /\ (u[2] + Gain(n1, n2)[2]) \in Int /\ (u[2] + Gain(n1, n2)[2]) % 2 = 0
  BY <1>2 DEF Placed, Steps
<1> QED
  BY <1>1, <1>3 DEF Placed

(***************************************************************************)
(* A frame: both tanks move as they chose, and choose anew.                 *)
(***************************************************************************)
LEMMA DriveApart ==
  ASSUME ApartInv, Drive
  PROVE  ApartInv'
<1> DEFINE d == Gain(m1, m2)
           e == Gain(m1', m2')
<1>1. at' = Moved(at, m1, m2) /\ scene' = scene
  BY DEF Drive
<1>2. /\ Scenes[scene].keys1 \subseteq Directions
      /\ Scenes[scene].keys2 \subseteq Directions
  BY DEF ApartInv, Scenes, Directions
<1>3. m1' \in Motions /\ m1' \notin Stops(at)
  <2>1. "none" \notin Stops(at)
    BY DEF Stops, Directions
  <2> QED
    BY <1>2, <2>1 DEF Drive, Motions
<1>4. m2' \in Motions /\ m2' \notin Stops(Times(-1, at))
  <2>1. "none" \notin Stops(Times(-1, at))
    BY DEF Stops, Directions
  <2> QED
    BY <1>2, <2>1 DEF Drive, Motions
<1>5. at' = <<at[1] + d[1], at[2] + d[2]>> /\ Placed(at')
  BY <1>1, MovedByGain DEF ApartInv
<1>6. Moved(at', m1', m2') = <<at[1] + d[1] + e[1], at[2] + d[2] + e[2]>>
  <2>1. Moved(at', m1', m2') = <<at'[1] + e[1], at'[2] + e[2]>>
    BY <1>3, <1>4, <1>5, MovedByGain
  <2> QED
    BY <1>5, <2>1
<1>7. /\ d[1] \in Steps /\ d[2] \in Steps /\ e[1] \in Steps /\ e[2] \in Steps
      /\ d[1] + d[2] \in -4..4 /\ d[1] - d[2] \in -4..4
      /\ e[1] + e[2] \in -4..4 /\ e[1] - e[2] \in -4..4
  BY <1>3, <1>4, GainBounds DEF ApartInv, Steps
<1>8. /\ at[1] \in 15..23 /\ at[2] \in -19..19 => e[1] >= 0
      /\ at[1] \in -23..-15 /\ at[2] \in -19..19 => e[1] <= 0
      /\ at[2] \in 15..23 /\ at[1] \in -19..19 => e[2] >= 0
      /\ at[2] \in -23..-15 /\ at[1] \in -19..19 => e[2] <= 0
  BY <1>3, <1>4, StopsHold DEF ApartInv
<1>9. /\ at[1] \notin -15..15 \/ at[2] \notin -15..15
      /\ at[1] + d[1] \notin -15..15 \/ at[2] + d[2] \notin -15..15
      /\ ~Corner(<<at[1], at[2]>>, <<at[1] + d[1], at[2] + d[2]>>)
  BY <1>1, <1>5 DEF ApartInv, Apart, Corner
<1>10. /\ at[1] + d[1] + e[1] \notin -15..15 \/ at[2] + d[2] + e[2] \notin -15..15
       /\ ~Corner(<<at[1] + d[1], at[2] + d[2]>>,
                   <<at[1] + d[1] + e[1], at[2] + d[2] + e[2]>>)
  <2> HIDE DEF d, e
  <2> QED
    BY <1>7, <1>8, <1>9, TwoFrames DEF ApartInv, Placed
<1>11. Apart(at') /\ Apart(Moved(at', m1', m2')) /\ ~Corner(at', Moved(at', m1', m2'))
  <2> HIDE DEF d, e
  <2> QED
    BY <1>5, <1>6, <1>9, <1>10 DEF Apart
<1>12. Moved(at, m1, m2)' = Moved(at', m1', m2')
  BY DEF Moved
<1> QED
  BY <1>1, <1>3, <1>4, <1>5, <1>11 DEF ApartInv

(***************************************************************************)
(* Where the scenes start, both tanks standing.                             *)
(***************************************************************************)
LEMMA StartApart ==
  ASSUME NEW u, NEW s \in DOMAIN Scenes, u \in Scenes[s].start
  PROVE  /\ Placed(u) /\ Apart(u)
         /\ Apart(Moved(u, "none", "none"))
         /\ ~Corner(u, Moved(u, "none", "none"))
<1>1. u \in {<<26, 0>>, <<24, 10>>, <<26, 8>>}
  BY DEF Scenes
<1>2. Moved(u, "none", "none") = u
  BY <1>1 DEF Moved, Plus, Minus, Tread, Times, Unit
<1>3. Placed(u) /\ Apart(u) /\ ~Corner(u, u)
  BY <1>1 DEF Placed, Apart, Corner
<1> QED
  BY <1>2, <1>3

(***************************************************************************)
(* Two tanks are never both nearer than 16 pixels along both axes, nor      *)
(* about to be, however they drive.                                         *)
(***************************************************************************)
THEOREM ApartInvariant == Spec => []ApartInv
<1>1. Init => ApartInv
  BY StartApart DEF Init, ApartInv, Motions
<1>2. ApartInv /\ [Next]_vars => ApartInv'
  <2> SUFFICES ASSUME ApartInv, [Next]_vars
               PROVE  ApartInv'
    OBVIOUS
  <2>1. CASE Frame
    BY <2>1, DriveApart DEF Frame
  <2>2. CASE Again
    <3>1. /\ scene' = scene /\ scene \in DOMAIN Scenes /\ at' \in Scenes[scene].start
          /\ m1' = "none" /\ m2' = "none"
      BY <2>2 DEF Again, Start, ApartInv
    <3> QED
      BY <3>1, StartApart DEF ApartInv, Motions
  <2>3. CASE Aim \/ Fire \/ RunOut \/ BoomOver \/ Wait \/ Drain \/ UNCHANGED vars
    <3>1. UNCHANGED tanks
      BY <2>3 DEF Aim, Fire, RunOut, BoomOver, Wait, Drain, vars
    <3> QED
      BY <3>1 DEF tanks, ApartInv, Moved, Apart, Corner, Placed
  <2> QED
    BY <2>1, <2>2, <2>3 DEF Next
<1> QED
  BY <1>1, <1>2, PTL DEF Spec

(***************************************************************************)
(* NotThrough: the tanks never overlap by more than 3 pixels.               *)
(***************************************************************************)
THEOREM NotThroughAlways == Spec => []NotThrough
<1>1. ApartInv => NotThrough
  BY DEF ApartInv, Apart, NotThrough, Deep, Within, size
<1> QED
  BY <1>1, ApartInvariant, PTL

-----------------------------------------------------------------------------
(***************************************************************************)
(* A parked tank.  A tank that drives up to it comes to rest beside it (20   *)
(* pixels off along one axis) or, having rounded a corner, overlaps it by a  *)
(* pixel or three at the corner, out of reach of the muzzles.  One case is    *)
(* left out again, cutting a corner of 16 and 20 (Cut).                      *)
(***************************************************************************)
Beside(u) ==
  \/ u[1] \notin -19..19 \/ u[2] \notin -19..19
  \/ u[1] \in {-18, -16, 16, 18} /\ u[2] \in {-18, 18}
  \/ u[1] \in {-18, 18} /\ u[2] \in {-16, 16}

Cut(u, v) ==
  \/ u[1] \in {-16, 16} /\ u[2] \in {-20, 20} /\ v[1] \in {-16, 16} /\ v[2] \in {-18, 18}
  \/ u[1] \in {-20, 20} /\ u[2] \in {-16, 16} /\ v[1] \in {-18, 18} /\ v[2] \in {-16, 16}

ParkedInv ==
  scene = "parked" =>
    /\ m2 = "none"
    /\ Beside(at) /\ Beside(Moved(at, m1, m2))
    /\ ~Cut(at, Moved(at, m1, m2))

Paces == {-2, 0, 2}

LEMMA ParkedGain ==
  ASSUME NEW n1 \in Motions
  PROVE  /\ Gain(n1, "none")[1] \in Paces /\ Gain(n1, "none")[2] \in Paces
         /\ Gain(n1, "none")[1] = 0 \/ Gain(n1, "none")[2] = 0
<1>1. Tread(n1) \in {<<2, 0>>, <<-2, 0>>, <<0, 2>>, <<0, -2>>, <<0, 0>>}
  BY DEF Tread, Times, Unit, Motions, Directions
<1>2. Tread("none") = <<0, 0>>
  BY DEF Tread, Times, Unit
<1> QED
  BY <1>1, <1>2 DEF Gain, Minus, Paces

LEMMA TwoFramesParked ==
  ASSUME NEW x \in Int, NEW y \in Int, x % 2 = 0, y % 2 = 0,
         NEW dx \in Paces, NEW dy \in Paces,
         NEW ex \in Paces, NEW ey \in Paces,
         dx = 0 \/ dy = 0, ex = 0 \/ ey = 0,
         Beside(<<x, y>>), Beside(<<x + dx, y + dy>>),
         ~Cut(<<x, y>>, <<x + dx, y + dy>>),
         x \in 15..23 /\ y \in -19..19 => ex >= 0,
         x \in -23..-15 /\ y \in -19..19 => ex <= 0,
         y \in 15..23 /\ x \in -19..19 => ey >= 0,
         y \in -23..-15 /\ x \in -19..19 => ey <= 0
  PROVE  /\ Beside(<<x + dx + ex, y + dy + ey>>)
         /\ ~Cut(<<x + dx, y + dy>>, <<x + dx + ex, y + dy + ey>>)
<1>1. Beside(<<x + dx + ex, y + dy + ey>>)
  BY SMTT(60) DEF Beside, Cut, Paces
<1>2. ~Cut(<<x + dx, y + dy>>, <<x + dx + ex, y + dy + ey>>)
  BY SMTT(60) DEF Beside, Cut, Paces
<1> QED
  BY <1>1, <1>2

LEMMA DriveParked ==
  ASSUME ApartInv, ParkedInv, Drive
  PROVE  ParkedInv'
<1> SUFFICES ASSUME scene' = "parked"
             PROVE  /\ m2' = "none"
                    /\ Beside(at') /\ Beside(Moved(at', m1', m2'))
                    /\ ~Cut(at', Moved(at', m1', m2'))
  <2>1. Moved(at, m1, m2)' = Moved(at', m1', m2')
    BY DEF Moved
  <2> QED
    BY <2>1 DEF ParkedInv, Beside, Cut
<1> DEFINE d == Gain(m1, "none")
           e == Gain(m1', "none")
<1>1. /\ at' = Moved(at, m1, m2) /\ scene = "parked"
      /\ Scenes[scene].keys1 = Directions /\ Scenes[scene].keys2 = {}
  BY DEF Drive, Scenes
<1>2. m1 \in Motions /\ m2 = "none" /\ Placed(at)
  BY <1>1 DEF ApartInv, ParkedInv
<1>3. m2' = "none"
  BY <1>1 DEF Drive
<1>4. m1' \in Motions /\ m1' \notin Stops(at) /\ "none" \notin Stops(Times(-1, at))
  <2>1. "none" \notin Stops(at) /\ "none" \notin Stops(Times(-1, at))
    BY DEF Stops, Directions
  <2> QED
    BY <1>1, <2>1 DEF Drive, Motions
<1>5. "none" \in Motions
  BY DEF Motions
<1>6. at' = <<at[1] + d[1], at[2] + d[2]>> /\ Placed(at')
  BY <1>1, <1>2, <1>5, MovedByGain
<1>7. Moved(at', m1', m2') = <<at[1] + d[1] + e[1], at[2] + d[2] + e[2]>>
  <2>1. Moved(at', m1', m2') = <<at'[1] + e[1], at'[2] + e[2]>>
    BY <1>3, <1>4, <1>5, <1>6, MovedByGain
  <2> QED
    BY <1>6, <2>1
<1>8. /\ d[1] \in Paces /\ d[2] \in Paces /\ (d[1] = 0 \/ d[2] = 0)
      /\ e[1] \in Paces /\ e[2] \in Paces /\ (e[1] = 0 \/ e[2] = 0)
  BY <1>2, <1>4, ParkedGain
<1>9. /\ at[1] \in 15..23 /\ at[2] \in -19..19 => e[1] >= 0
      /\ at[1] \in -23..-15 /\ at[2] \in -19..19 => e[1] <= 0
      /\ at[2] \in 15..23 /\ at[1] \in -19..19 => e[2] >= 0
      /\ at[2] \in -23..-15 /\ at[1] \in -19..19 => e[2] <= 0
  BY <1>2, <1>4, <1>5, StopsHold
<1>10. /\ Beside(at) /\ Beside(at') /\ ~Cut(at, at')
  BY <1>1 DEF ParkedInv
<1> HIDE DEF d, e
<1>11. /\ Beside(<<at[1], at[2]>>) /\ Beside(<<at[1] + d[1], at[2] + d[2]>>)
       /\ ~Cut(<<at[1], at[2]>>, <<at[1] + d[1], at[2] + d[2]>>)
  BY <1>6, <1>10 DEF Beside, Cut
<1>12. /\ Beside(<<at[1] + d[1] + e[1], at[2] + d[2] + e[2]>>)
       /\ ~Cut(<<at[1] + d[1], at[2] + d[2]>>,
               <<at[1] + d[1] + e[1], at[2] + d[2] + e[2]>>)
  BY <1>2, <1>8, <1>9, <1>11, TwoFramesParked DEF Placed
<1> QED
  BY <1>3, <1>6, <1>7, <1>10, <1>12

LEMMA StartParked ==
  ASSUME NEW u \in Scenes["parked"].start
  PROVE  /\ Beside(u) /\ Beside(Moved(u, "none", "none"))
         /\ ~Cut(u, Moved(u, "none", "none"))
<1>1. u = <<26, 0>>
  BY DEF Scenes
<1>2. Moved(u, "none", "none") = u
  BY <1>1 DEF Moved, Plus, Minus, Tread, Times, Unit
<1> QED
  BY <1>1, <1>2 DEF Beside, Cut

(***************************************************************************)
(* A tank that is driven at a parked one stays beside it.                   *)
(***************************************************************************)
THEOREM ParkedInvariant == Spec => []ParkedInv
<1>1. Init => ParkedInv
  BY StartParked DEF Init, ParkedInv
<1>2. ApartInv /\ ParkedInv /\ [Next]_vars => ParkedInv'
  <2> SUFFICES ASSUME ApartInv, ParkedInv, [Next]_vars
               PROVE  ParkedInv'
    OBVIOUS
  <2>1. CASE Frame
    BY <2>1, DriveParked DEF Frame
  <2>2. CASE Again
    <3>1. /\ scene' = scene /\ at' \in Scenes[scene].start
          /\ m1' = "none" /\ m2' = "none"
      BY <2>2 DEF Again, Start
    <3> QED
      BY <3>1, StartParked DEF ParkedInv
  <2>3. CASE Aim \/ Fire \/ RunOut \/ BoomOver \/ Wait \/ Drain \/ UNCHANGED vars
    <3>1. UNCHANGED tanks
      BY <2>3 DEF Aim, Fire, RunOut, BoomOver, Wait, Drain, vars
    <3> QED
      BY <3>1 DEF tanks, ParkedInv, Moved, Beside, Cut
  <2> QED
    BY <2>1, <2>2, <2>3 DEF Next
<1> QED
  BY <1>1, <1>2, ApartInvariant, PTL DEF Spec

(***************************************************************************)
(* ParkedUntouched: beside a parked tank neither muzzle lies in the other   *)
(* tank, so that contact costs nobody a life.                               *)
(***************************************************************************)
THEOREM ParkedUntouchedAlways == Spec => []ParkedUntouched
<1>1. ApartInv /\ ParkedInv => ParkedUntouched
  <2> SUFFICES ASSUME ApartInv, ParkedInv, scene = "parked", NEW a \in Directions
               PROVE  ~Inside(Minus(Muzzle(a), at)) /\ ~Inside(Plus(Muzzle(a), at))
    BY DEF ParkedUntouched
  <2>1. Muzzle(a) \in {<<19, 9>>, <<9, 0>>, <<0, 9>>, <<9, 19>>}
    BY DEF Muzzle, Directions, size
  <2>2. at[1] \in Int /\ at[2] \in Int /\ Beside(at)
    BY DEF ApartInv, Placed, ParkedInv
  <2> QED
    BY <2>1, <2>2 DEF Inside, Minus, Plus, Beside, size
<1> QED
  BY <1>1, ApartInvariant, ParkedInvariant, PTL

-----------------------------------------------------------------------------
(***************************************************************************)
(* A tank that stays does not move the bullet inside it.                   *)
(***************************************************************************)
LEMMA StaysInside ==
  ASSUME NEW u, Inside(u)
  PROVE  Inside(Minus(u, Tread("none")))
  BY DEF Inside, Minus, Tread, Times, Unit, size

(***************************************************************************)
(* A frame of a shot: it flies, explodes or burns.                          *)
(***************************************************************************)
LEMMA FrameShot ==
  ASSUME ShotInv, Frame
  PROVE  ShotInv'
<1>1. paid' = paid /\ (State' \in InFlight => State \in InFlight)
  BY DEF Frame, Fly, Explode, Burn, Rest, InFlight
<1>2. Unpaid'
  BY <1>1 DEF ShotInv, Unpaid
<1>3. StillInside'
  <2>1. CASE Fly
    BY <2>1 DEF Fly, ShotInv, StillInside, InFlight
  <2>2. CASE Explode
    <3>1. struck' => Inside(b')
      BY <2>2, StaysInside DEF Explode
    <3> QED
      BY <2>2, <3>1 DEF Explode, StillInside
  <2>3. CASE Burn
    <3>1. struck' => Inside(b')
      BY <2>3, StaysInside DEF Burn, ShotInv, StillInside, InFlight
    <3> QED
      BY <2>3, <3>1 DEF Burn, StillInside
  <2>4. CASE Rest
    BY <2>4 DEF Rest, StillInside, InFlight
  <2> QED
    BY <2>1, <2>2, <2>3, <2>4 DEF Frame
<1> QED
  BY <1>2, <1>3 DEF ShotInv

LEMMA ShotInvStep ==
  ASSUME ShotInv, [Next]_vars
  PROVE  ShotInv'
<1>1. CASE Frame
  BY <1>1, FrameShot
<1>2. CASE Aim
  BY <1>2 DEF Aim, ShotInv, Unpaid, StillInside, InFlight
<1>3. CASE Fire
  BY <1>3 DEF Fire, ShotInv, Unpaid, StillInside
<1>4. CASE RunOut
  BY <1>4 DEF RunOut, ShotInv, Unpaid, StillInside, InFlight
<1>5. CASE BoomOver
  BY <1>5 DEF BoomOver, ShotInv, Unpaid, StillInside, InFlight
<1>6. CASE Wait
  BY <1>6 DEF Wait, ShotInv, Unpaid, StillInside, InFlight
<1>7. CASE Drain
  BY <1>7 DEF Drain, Contact, ShotInv, Unpaid, StillInside, InFlight
<1>8. CASE Again
  BY <1>8 DEF Again, Start, ShotInv, Unpaid, StillInside, InFlight
<1>9. CASE UNCHANGED vars
  BY <1>9 DEF vars, tanks, ShotInv, Unpaid, StillInside, InFlight, Inside
<1> QED
  BY <1>1, <1>2, <1>3, <1>4, <1>5, <1>6, <1>7, <1>8, <1>9 DEF Next

(***************************************************************************)
(* A shot that has not come to its end has cost nothing, and one that met a *)
(* tank that stays is still in it.                                          *)
(***************************************************************************)
THEOREM ShotInvariant == Spec => []ShotInv
<1>1. Init => ShotInv
  BY DEF Init, ShotInv, Unpaid, StillInside, InFlight
<1>2. ShotInv /\ [Next]_vars => ShotInv'
  BY ShotInvStep
<1> QED
  BY <1>1, <1>2, PTL DEF Spec

-----------------------------------------------------------------------------
(***************************************************************************)
(* The last edge of a shot.                                                 *)
(***************************************************************************)
LEMMA SettleStep ==
  ASSUME ShotInv, [Next]_vars,
         State \notin {"NOBULLET", "BULLET"}, State' = "NOBULLET", lives > 0
  PROVE  paid' <= 1 /\ (struck => paid' = 1)
<1>1. Wait
  <2>1. ~Frame
    BY DEF Frame, Fly, Explode, Burn, Rest
  <2>2. ~Aim /\ ~Fire /\ ~RunOut /\ ~BoomOver /\ ~Drain
    BY DEF Aim, Fire, RunOut, BoomOver, Drain, Contact
  <2>3. ~Again
    BY DEF Again
  <2>4. State' # State
    OBVIOUS
  <2> QED
    BY <2>1, <2>2, <2>3, <2>4 DEF Next, vars
<1>2. State \in InFlight /\ paid = 0
  BY <1>1 DEF Wait, InFlight, ShotInv, Unpaid
<1>3. CASE Inside(b)
  BY <1>1, <1>2, <1>3 DEF Wait, Hit
<1>4. CASE ~Inside(b)
  BY <1>1, <1>2, <1>4 DEF Wait, Hit, ShotInv, StillInside
<1> QED
  BY <1>3, <1>4

(***************************************************************************)
(* ShotSettles: a shot costs at most one life, and just one when it met a   *)
(* tank that stays.                                                         *)
(***************************************************************************)
THEOREM ShotSettlesAlways == Spec => ShotSettles
<1>1. ShotInv /\ [Next]_vars =>
        [State \notin {"NOBULLET", "BULLET"} /\ State' = "NOBULLET" /\ lives > 0
           => paid' <= 1 /\ (struck => paid' = 1)]_vars
  BY SettleStep
<1> QED
  BY <1>1, ShotInvariant, PTL DEF Spec, ShotSettles
=============================================================================
