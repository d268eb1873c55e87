-------------------------- MODULE GameFlow_proofs --------------------------
(***************************************************************************)
(* Proofs about GameFlow, for every value of its constants.  Most rest on  *)
(* one inductive invariant, FlowInv: the types, the choices behind each    *)
(* screen, the enemy lives, and how the menu machine of the enemy screen,  *)
(* in its slower clock domain, lags behind the flow.  The two properties   *)
(* of MCGameFlow, about key presses, need to know more: what a press that  *)
(* moved a screen leaves behind (PressSpent), and at which edge after a    *)
(* move of the inputs each machine has answered it (MenuInv).              *)
(***************************************************************************)
EXTENDS MCGameFlow, TLAPS

(***************************************************************************)
(* The enemy menu is between two choices only on the enemy screen, or for  *)
(* one edge of Clk after a reset has taken the flow off that screen.       *)
(***************************************************************************)
WaitingOnScreen == en \in Waiting => State = "EN" \/ (State = "BG" /\ vga)

NumberShown == en \in Choosing => en_num = EnNumber(en)

EndHasMode == State = "END" => one_player_mode \/ two_players_mode

FlowInv ==
  /\ TypeOK
  /\ ChoicesMade
  /\ EnemyLivesNeverWrap
  /\ WaitingOnScreen
  /\ NumberShown
  /\ EndHasMode

-----------------------------------------------------------------------------
(***************************************************************************)
(* The menu machines stay within their states and are deaf once decided.   *)
(***************************************************************************)
LEMMA TsNextType ==
  ASSUME NEW s \in TsStates, NEW k
  PROVE  /\ TsNext(s, k) \in TsStates
         /\ s \in {"OPM_DONE", "TPM_DONE"} => TsNext(s, k) = s
BY DEF TsNext, TsStates

LEMMA ChoiceArithmetic ==
  /\ After(0) = 1 /\ After(1) = 2 /\ After(2) = 0
  /\ \A n \in 0..2 : /\ ChoiceState(n) \in Choosing
                     /\ WaitState(n) \in Waiting
                     /\ EnNumber(ChoiceState(n)) = n
  /\ \A s \in EnStates : EnNumber(s) \in 0..2
<1>1. /\ After(0) = 1 /\ After(1) = 2 /\ After(2) = 0
  BY DEF After
<1>2. \A n \in 0..2 : /\ ChoiceState(n) \in Choosing
                      /\ WaitState(n) \in Waiting
                      /\ EnNumber(ChoiceState(n)) = n
  BY DEF ChoiceState, WaitState, EnNumber, Choosing, Waiting
<1>3. \A s \in EnStates : EnNumber(s) \in 0..2
  BY DEF EnStates, EnNumber
<1> QED BY <1>1, <1>2, <1>3

LEMMA EnNextType ==
  ASSUME NEW s \in EnStates, NEW k, NEW e \in BOOLEAN, NEW n \in 0..2
  PROVE  /\ EnNext(s, k, e) \in EnStates
         /\ EnNumNext(s, n, k, e) \in 0..2
         /\ s = "done_state" => EnNext(s, k, e) = s /\ EnNumNext(s, n, k, e) = n
         /\ ~e => EnNext(s, k, e) \notin Waiting
         /\ EnNext(s, k, e) \in Choosing
              => EnNumNext(s, n, k, e) = EnNumber(EnNext(s, k, e))
         /\ s \in Choosing /\ ~e => EnNext(s, k, e) = s
<1> DEFINE num == EnNumber(s)
<1>1. num \in 0..2 /\ After(num) \in 0..2
  BY ChoiceArithmetic
<1>2. /\ ChoiceState(After(num)) \in Choosing
      /\ EnNumber(ChoiceState(After(num))) = After(num)
      /\ WaitState(num) \in Waiting
      /\ WaitState(After(num)) \in Waiting
  BY <1>1, ChoiceArithmetic
<1>3. /\ Choosing \cap Waiting = {}
      /\ "done_state" \notin Choosing \cup Waiting
      /\ EnStates = Choosing \cup Waiting \cup {"done_state"}
  BY DEF EnStates, Choosing, Waiting
<1> HIDE DEF num
<1>4. CASE s \in Choosing
  <2>1. \/ EnNext(s, k, e) = s
        \/ e /\ EnNext(s, k, e) \in {WaitState(num), WaitState(After(num)), "done_state"}
    BY <1>3, <1>4 DEF EnNext, num
  <2>2. EnNumNext(s, n, k, e) = num
    BY <1>3, <1>4 DEF EnNumNext, num
  <2> QED BY <1>1, <1>2, <1>3, <1>4, <2>1, <2>2 DEF num
<1>5. CASE s \in Waiting
  <2>1. CASE e /\ k \in Arrow
    <3>1. EnNext(s, k, e) = s /\ EnNumNext(s, n, k, e) = num
      BY <1>3, <1>5, <2>1 DEF EnNext, EnNumNext, num
    <3> QED BY <1>1, <1>3, <1>5, <2>1, <3>1
  <2>2. CASE ~(e /\ k \in Arrow)
    <3>1. /\ EnNext(s, k, e) = ChoiceState(After(num))
          /\ EnNumNext(s, n, k, e) = After(num)
      BY <1>3, <1>5, <2>2 DEF EnNext, EnNumNext, num
    <3> QED BY <1>1, <1>2, <1>3, <1>5, <2>2, <3>1
  <2> QED BY <2>1, <2>2
<1>6. CASE s = "done_state"
  <2>1. EnNext(s, k, e) = s /\ EnNumNext(s, n, k, e) = n
    BY <1>3, <1>6 DEF EnNext, EnNumNext
  <2> QED BY <1>3, <1>6, <2>1
<1> QED BY <1>3, <1>4, <1>5, <1>6

-----------------------------------------------------------------------------
(***************************************************************************)
(* Lives stay in their register, and a tank loses at most one life an edge.*)
(***************************************************************************)
LEMMA LivesEdgeType ==
  ASSUME NEW hits, TypeOK, LivesEdge(hits)
  PROVE  lives' \in [Tanks -> 0..(LivesMod - 1)]
<1>1. \A n \in 0..(LivesMod - 1) : Decrement(n) \in 0..(LivesMod - 1)
  BY LivesAssumption DEF Decrement
<1>2. StartLives \in 0..(LivesMod - 1)
  BY LivesAssumption
<1> QED BY <1>1, <1>2 DEF LivesEdge, TypeOK

(***************************************************************************)
(* The flow after an edge, state by state.                                 *)
(***************************************************************************)
LEMMA FlowEdgeCases ==
  ASSUME TypeOK, FlowEdge
  PROVE  /\ State' \in FlowStates
         /\ Reset_h => State' = "BG"
         /\ ~Reset_h => Flow
         /\ ~Reset_h /\ State' = "GAME1" => State \in {"GAME_RST1", "GAME1"}
         /\ ~Reset_h /\ State' = "GAME2" => State \in {"GAME_RST2", "GAME2"}
BY DEF FlowEdge, Flow, FlowStates, Background, BackgroundWait, ChooseEnemies,
       ChooseEnemiesWait, StartGame1, PlayGame1, StartGame2, PlayGame2, ShowEnd

-----------------------------------------------------------------------------
LEMMA FlowInvInit == Init => FlowInv
<1> SUFFICES ASSUME Init PROVE FlowInv
  OBVIOUS
<1>1. keycode \in Words
  <2>1. [low |-> "none", more |-> FALSE] \in [low : Keys, more : BOOLEAN]
    BY DEF Keys
  <2>2. keycode.low = "none" /\ keycode.more = FALSE
    BY DEF Init
  <2> QED BY <2>1, <2>2 DEF Init, Words
<1>2. lives \in [Tanks -> 0..(LivesMod - 1)]
  <2>1. 0 \in 0..(LivesMod - 1)
    BY LivesAssumption
  <2> QED BY <2>1 DEF Init
<1>3. TypeOK
  <2>1. /\ State \in FlowStates /\ ts \in TsStates /\ en \in EnStates
        /\ en_num \in 0..2
    BY DEF Init, FlowStates, TsStates, EnStates, Choosing
  <2>2. KEY0 \in BOOLEAN /\ Reset_hi \in BOOLEAN /\ vga \in BOOLEAN
    BY DEF Init
  <2>3. held \in 0..MinHold
    BY InputsAssumption DEF Init
  <2> QED BY <1>1, <1>2, <2>1, <2>2, <2>3 DEF TypeOK
<1>4. ChoicesMade /\ EnemyLivesNeverWrap /\ EndHasMode
  BY DEF Init, ChoicesMade, EnemyLivesNeverWrap, EndHasMode
<1>5. WaitingOnScreen /\ NumberShown
  BY DEF Init, WaitingOnScreen, NumberShown, Waiting, EnNumber
<1> QED BY <1>3, <1>4, <1>5 DEF FlowInv

(***************************************************************************)
(* A mode and a number of enemies, once decided, stay decided until reset. *)
(***************************************************************************)
LEMMA DecidedStays ==
  ASSUME FlowInv, ClkEdge, ~Reset_h
  PROVE  /\ one_player_mode => one_player_mode'
         /\ two_players_mode => two_players_mode'
         /\ chosen => chosen' /\ en_num' = en_num
<1>1. ts \in TsStates /\ en \in EnStates /\ en_num \in 0..2
  BY DEF FlowInv, TypeOK
<1>2. ts' = ts \/ ts' = TsNext(ts, low)
  BY DEF ClkEdge, TanksSelectorEdge
<1>3. \/ en' = en /\ en_num' = en_num
      \/ /\ en' = EnNext(en, low, en_state)
         /\ en_num' = EnNumNext(en, en_num, low, en_state)
  BY DEF ClkEdge, EnDrawEdge
<1>4. en_state \in BOOLEAN
  BY DEF en_state
<1>5. ts \in {"OPM_DONE", "TPM_DONE"} => ts' = ts
  BY <1>1, <1>2, TsNextType
<1>6. en = "done_state" => en' = en /\ en_num' = en_num
  BY <1>1, <1>3, <1>4, EnNextType
<1> QED BY <1>5, <1>6 DEF one_player_mode, two_players_mode, OnePlayer, TwoPlayers,
                          chosen, Chosen

LEMMA TypeOKClk ==
  ASSUME FlowInv, ClkEdge
  PROVE  TypeOK'
<1> USE DEF FlowInv
<1>1. State' \in FlowStates
  BY FlowEdgeCases DEF ClkEdge
<1>2. lives' \in [Tanks -> 0..(LivesMod - 1)]
  BY LivesEdgeType DEF ClkEdge
<1>3. ts' \in TsStates
  BY TsNextType DEF ClkEdge, TanksSelectorEdge, TypeOK, TsStates
<1>4. en_state \in BOOLEAN
  BY DEF en_state
<1>5. en' \in EnStates
  BY <1>4, EnNextType DEF ClkEdge, EnDrawEdge, TypeOK, EnStates, Choosing
<1>6. en_num' \in 0..2
  BY <1>4, EnNextType DEF ClkEdge, EnDrawEdge, TypeOK
<1>7. /\ keycode' \in Words /\ KEY0' \in BOOLEAN /\ Reset_hi' \in BOOLEAN
      /\ vga' \in BOOLEAN /\ held' \in 0..MinHold
  BY InputsAssumption DEF ClkEdge, TypeOK
<1> QED BY <1>1, <1>2, <1>3, <1>5, <1>6, <1>7 DEF TypeOK

LEMMA ChoicesMadeClk ==
  ASSUME FlowInv, ClkEdge
  PROVE  ChoicesMade' /\ EndHasMode'
<1>1. CASE Reset_h
  BY <1>1 DEF ClkEdge, FlowEdge, ChoicesMade, EndHasMode
<1>2. CASE ~Reset_h
  <2>1. Flow
    BY <1>2 DEF ClkEdge, FlowEdge
  <2>2. /\ one_player_mode => one_player_mode'
        /\ two_players_mode => two_players_mode'
        /\ chosen => chosen'
    BY <1>2, DecidedStays
  <2>3. ChoicesMade /\ EndHasMode
    BY DEF FlowInv
  <2> HIDE DEF one_player_mode, two_players_mode, chosen
  <2> QED BY <2>1, <2>2, <2>3
             DEF ChoicesMade, EndHasMode, Flow, Background, BackgroundWait,
                 ChooseEnemies, ChooseEnemiesWait, StartGame1, PlayGame1,
                 StartGame2, PlayGame2, ShowEnd, ModeConfirmed
<1> QED BY <1>1, <1>2

(***************************************************************************)
(* In a two-enemy game only an enemy with a life left can be hit.          *)
(***************************************************************************)
LEMMA EnemyLivesClk ==
  ASSUME FlowInv, ClkEdge
  PROVE  EnemyLivesNeverWrap'
<1> SUFFICES ASSUME State' = "GAME1", en_num' = 2
             PROVE  lives'["enemy1"] <= StartLives /\ lives'["enemy2"] <= StartLives
  BY DEF EnemyLivesNeverWrap
<1>1. ~Reset_h /\ State \in {"GAME_RST1", "GAME1"}
  BY FlowEdgeCases DEF ClkEdge, FlowInv
<1>2. PICK hits \in SUBSET Armed : LivesEdge(hits)
  BY DEF ClkEdge
<1>3. CASE State = "GAME_RST1"
  BY <1>2, <1>3, LivesAssumption DEF LivesEdge, lives_activate, Tanks
<1>4. CASE State = "GAME1"
  <2>1. en_num = 2
    BY <1>1, <1>4, DecidedStays DEF FlowInv, ChoicesMade
  <2>2. lives["enemy1"] <= StartLives /\ lives["enemy2"] <= StartLives
    BY <1>4, <2>1 DEF FlowInv, EnemyLivesNeverWrap
  <2>3. lives["enemy1"] \in 0..(LivesMod - 1) /\ lives["enemy2"] \in 0..(LivesMod - 1)
    BY DEF FlowInv, TypeOK, Tanks
  <2>4. ASSUME NEW t \in {"enemy1", "enemy2"}, lives[t] = 0
        PROVE  Against(t) \cap hits = {}
    <3>1. t = "enemy1" => ~enable1
      BY <1>4, <2>1, <2>4 DEF enable1
    <3>2. t = "enemy2" => ~enable12
      BY <1>4, <2>1, <2>4 DEF enable12
    <3>3. "player_hit_en1" \in hits => enable1
      BY <1>2 DEF Armed, Gate
    <3>4. "player_hit_en2" \in hits => enable12
      BY <1>2 DEF Armed, Gate
    <3> QED BY <2>4, <3>1, <3>2, <3>3, <3>4 DEF Against
  <2>5. ASSUME NEW t \in {"enemy1", "enemy2"}
        PROVE  \/ lives'[t] \in {StartLives, lives[t]}
               \/ lives[t] # 0 /\ lives'[t] = lives[t] - 1
    <3>1. lives'[t] = IF Reset_h \/ lives_activate THEN StartLives
                      ELSE IF Counts(t) /\ Against(t) \cap hits # {}
                        THEN Decrement(lives[t])
                        ELSE lives[t]
      BY <1>2 DEF LivesEdge, Tanks
    <3>2. \/ lives'[t] = StartLives
          \/ lives'[t] = lives[t]
          \/ Against(t) \cap hits # {} /\ lives'[t] = Decrement(lives[t])
      BY <3>1, Zenon
    <3>3. lives[t] # 0 => Decrement(lives[t]) = lives[t] - 1
      BY DEF Decrement
    <3>4. CASE lives'[t] = Decrement(lives[t]) /\ Against(t) \cap hits # {}
      <4>1. lives[t] # 0
        BY <2>4, <3>4
      <4> QED BY <3>3, <3>4, <4>1
    <3> QED BY <3>2, <3>4
  <2>6. ASSUME NEW t \in {"enemy1", "enemy2"}
        PROVE  lives'[t] <= StartLives
    BY <2>2, <2>3, <2>5, LivesAssumption
  <2> QED BY <2>6
<1> QED BY <1>1, <1>3, <1>4

LEMMA MenuLagClk ==
  ASSUME FlowInv, ClkEdge
  PROVE  WaitingOnScreen' /\ NumberShown'
<1>1. /\ en \in EnStates /\ en_num \in 0..2 /\ vga \in BOOLEAN
      /\ WaitingOnScreen /\ NumberShown
  BY DEF FlowInv, TypeOK
<1>2. en_state \in BOOLEAN
  BY DEF en_state
<1>3. vga' = ~vga
  BY DEF ClkEdge
<1>4. CASE ~vga
  <2>1. en' = en /\ en_num' = en_num
    BY <1>4 DEF ClkEdge, EnDrawEdge
  <2>2. State = "EN" /\ en \in Waiting => State' \in {"EN", "BG"}
    <3>1. en \in Waiting => ~chosen
      BY DEF Waiting, chosen, Chosen
    <3> QED BY <3>1 DEF ClkEdge, FlowEdge, Flow, Background, BackgroundWait,
                        ChooseEnemies, ChooseEnemiesWait, StartGame1, PlayGame1,
                        StartGame2, PlayGame2, ShowEnd
  <2> QED BY <1>1, <1>3, <1>4, <2>1, <2>2 DEF WaitingOnScreen, NumberShown
<1>5. CASE vga /\ Reset_h
  <2>1. en' = "state0" /\ en_num' = 0
    BY <1>5 DEF ClkEdge, EnDrawEdge
  <2> QED BY <2>1 DEF WaitingOnScreen, NumberShown, Waiting, EnNumber
<1>6. CASE vga /\ ~Reset_h
  <2>1. /\ en' = EnNext(en, low, en_state)
        /\ en_num' = EnNumNext(en, en_num, low, en_state)
    BY <1>6 DEF ClkEdge, EnDrawEdge
  <2>2. NumberShown'
    BY <1>1, <1>2, <2>1, EnNextType DEF NumberShown
  <2>3. en' \in Waiting => en # "done_state" /\ en_state
    BY <1>1, <1>2, <2>1, EnNextType DEF Waiting
  <2>4. ChoicesMade
    BY DEF FlowInv
  <2>5. en' \in Waiting => State = "EN"
    BY <2>3, <2>4 DEF en_state, ChoicesMade, chosen, Chosen
  <2>6. en # "done_state" /\ State = "EN" => State' = "EN"
    BY <1>6 DEF ClkEdge, FlowEdge, Flow, Background, BackgroundWait, ChooseEnemies,
                ChooseEnemiesWait, StartGame1, PlayGame1, StartGame2, PlayGame2,
                ShowEnd, chosen, Chosen
  <2> QED BY <2>2, <2>3, <2>5, <2>6 DEF WaitingOnScreen
<1> QED BY <1>1, <1>4, <1>5, <1>6

LEMMA FlowInvStep == FlowInv /\ [Next]_vars => FlowInv'
<1> SUFFICES ASSUME FlowInv, [Next]_vars PROVE FlowInv'
  OBVIOUS
<1>1. CASE ClkEdge
  BY <1>1, TypeOKClk, ChoicesMadeClk, EnemyLivesClk, MenuLagClk DEF FlowInv
<1>2. CASE Inputs
  <2>1. TypeOK'
    BY <1>2, InputsAssumption DEF Inputs, FlowInv, TypeOK
  <2> QED BY <1>2, <2>1
             DEF Inputs, FlowInv, ChoicesMade, EnemyLivesNeverWrap, WaitingOnScreen,
                 NumberShown, EndHasMode, one_player_mode, two_players_mode, chosen
<1>3. CASE UNCHANGED vars
  <2>1. TypeOK'
    BY <1>3 DEF vars, FlowInv, TypeOK
  <2> QED BY <1>3, <2>1
             DEF vars, FlowInv, ChoicesMade, EnemyLivesNeverWrap, WaitingOnScreen,
                 NumberShown, EndHasMode, one_player_mode, two_players_mode, chosen
<1> QED BY <1>1, <1>2, <1>3 DEF Next

-----------------------------------------------------------------------------
(***************************************************************************)
(* The inductive invariant holds of every behaviour.                       *)
(***************************************************************************)
THEOREM FlowInvariant == Spec => []FlowInv
BY FlowInvInit, FlowInvStep, PTL DEF Spec

(***************************************************************************)
(* Every register keeps to its type: in particular en_num never shows a    *)
(* number of enemies other than 0, 1 or 2.                                 *)
(***************************************************************************)
THEOREM TypeCorrect == Spec => []TypeOK
BY FlowInvariant, PTL DEF FlowInv

(***************************************************************************)
(* A screen is only reached with the choices it depends on made, although  *)
(* the machines that hold the choices run in another clock domain.         *)
(***************************************************************************)
THEOREM ChoicesMadeAlways == Spec => []ChoicesMade
BY FlowInvariant, PTL DEF FlowInv

(***************************************************************************)
(* The lives of an enemy never wrap in a game with two enemies, for any    *)
(* number of starting lives and any width of the registers.                *)
(***************************************************************************)
THEOREM EnemyLivesSafe == Spec => []EnemyLivesNeverWrap
BY FlowInvariant, PTL DEF FlowInv

-----------------------------------------------------------------------------
(***************************************************************************)
(* What a step may never do, from the invariant before it.                 *)
(***************************************************************************)
LEMMA FreshStartStep ==
  ASSUME FlowInv, [Next]_vars, State # State', State' \in {"GAME1", "GAME2"}
  PROVE  \A t \in Tanks : lives'[t] = StartLives
<1>1. ClkEdge
  BY DEF Next, Inputs, vars
<1>2. State \in {"GAME_RST1", "GAME_RST2"}
  BY <1>1, FlowEdgeCases DEF ClkEdge, FlowInv
<1>3. lives_activate
  BY <1>2 DEF lives_activate
<1> QED BY <1>1, <1>3 DEF ClkEdge, LivesEdge

LEMMA EnemiesSettledStep ==
  ASSUME FlowInv, [Next]_vars, State' # "BG",
         State \in {"EN_WAIT", "GAME_RST1", "GAME1", "END"}
  PROVE  en_num' = en_num
<1>1. CASE ClkEdge
  <2>1. ~Reset_h
    BY <1>1, FlowEdgeCases DEF ClkEdge, FlowInv
  <2>2. CASE chosen
    BY <1>1, <2>1, <2>2, DecidedStays
  <2>3. CASE ~chosen
    <3>1. en \in Choosing /\ en_num = EnNumber(en)
      BY <2>3 DEF FlowInv, TypeOK, EnStates, ChoicesMade, WaitingOnScreen,
                  NumberShown, chosen, Chosen
    <3>2. EnNumNext(en, en_num, low, en_state) = EnNumber(en)
      BY <3>1 DEF EnNumNext, Choosing, Waiting
    <3> QED BY <1>1, <2>1, <3>1, <3>2 DEF ClkEdge, EnDrawEdge
  <2> QED BY <2>2, <2>3
<1>2. CASE ~ClkEdge
  BY <1>2 DEF Next, Inputs, vars
<1> QED BY <1>1, <1>2

LEMMA ResultStandsStep ==
  ASSUME FlowInv, [Next]_vars, State = "END", State' = "END"
  PROVE  EndScreen' = EndScreen
<1>1. en_num' = en_num
  BY EnemiesSettledStep
<1>2. one_player_mode' = one_player_mode /\ lives' = lives
  <2>1. CASE ClkEdge
    <3>1. ~Reset_h
      BY <2>1, FlowEdgeCases DEF ClkEdge, FlowInv
    <3>2. one_player_mode' = one_player_mode
      <4>1. one_player_mode \/ two_players_mode
        BY DEF FlowInv, EndHasMode
      <4>2. CASE one_player_mode
        BY <2>1, <3>1, <4>2, DecidedStays
      <4>3. CASE two_players_mode
        <5>1. two_players_mode'
          BY <2>1, <3>1, <4>3, DecidedStays
        <5> QED BY <4>3, <5>1 DEF one_player_mode, two_players_mode, OnePlayer, TwoPlayers
      <4> QED BY <4>1, <4>2, <4>3
    <3>3. Armed = {}
      BY DEF Armed, HitWires, Gate, enable1, enable12, enable2
    <3>4. PICK hits \in SUBSET Armed : LivesEdge(hits)
      BY <2>1 DEF ClkEdge
    <3>5. hits = {}
      BY <3>3, <3>4
    <3>6. lives' = [t \in Tanks |-> lives[t]]
      <4>1. ~(Reset_h \/ lives_activate)
        BY <3>1 DEF lives_activate
      <4>2. \A t \in Tanks : Against(t) \cap hits = {}
        BY <3>5
      <4> QED BY <3>4, <4>1, <4>2, Zenon DEF LivesEdge
    <3> QED BY <3>2, <3>6 DEF FlowInv, TypeOK
  <2>2. CASE ~ClkEdge
    BY <2>2 DEF Next, Inputs, vars, one_player_mode
  <2> QED BY <2>1, <2>2
<1>3. mode = "end" /\ mode' = "end"
  BY DEF mode
<1> HIDE DEF one_player_mode
<1> QED BY <1>1, <1>2, <1>3 DEF EndScreen

(***************************************************************************)
(* Whatever the last game left in the lives registers, a game starts with  *)
(* full lives: the start states last for an edge at least.                 *)
(***************************************************************************)
THEOREM FreshStartAlways == Spec => FreshStart
<1>1. FlowInv /\ [Next]_vars =>
        [State # State' /\ State' \in {"GAME1", "GAME2"}
           => \A t \in Tanks : lives'[t] = StartLives]_vars
  BY FreshStartStep
<1> QED BY <1>1, FlowInvariant, PTL DEF Spec, FreshStart

(***************************************************************************)
(* The number of enemies is settled from the end of the enemy screen to    *)
(* the end of the end screen: the menu machine that holds it is done, or,  *)
(* after a two-player game, on a choice it is already showing.             *)
(***************************************************************************)
THEOREM EnemiesSettledAlways == Spec => EnemiesSettled
<1>1. FlowInv /\ [Next]_vars =>
        [State' # "BG" /\ State \in {"EN_WAIT", "GAME_RST1", "GAME1", "END"}
           => UNCHANGED en_num]_vars
  BY EnemiesSettledStep
<1> QED BY <1>1, FlowInvariant, PTL DEF Spec, EnemiesSettled

(***************************************************************************)
(* The outcome on the end screen is never rewritten while it is shown.     *)
(***************************************************************************)
THEOREM ResultStandsAlways == Spec => ResultStands
<1>1. FlowInv /\ [Next]_vars =>
        [State = "END" /\ State' = "END" => EndScreen' = EndScreen]_vars
  BY ResultStandsStep
<1> QED BY <1>1, FlowInvariant, PTL DEF Spec, ResultStands

-----------------------------------------------------------------------------
(***************************************************************************)
(* The properties of MCGameFlow.  Its steps are steps of GameFlow, so      *)
(* FlowInv holds of it too.                                                *)
(***************************************************************************)
mcvars == <<vars, spent, chord>>

LEMMA HistoryAddsNothing == [MCNext]_mcvars => [Next]_vars
BY DEF MCNext, mcvars, Next

LEMMA FlowInvariantMC == MCSpec => []FlowInv
<1>1. MCInit => FlowInv
  BY FlowInvInit DEF MCInit
<1>2. FlowInv /\ [MCNext]_mcvars => FlowInv'
  BY FlowInvStep, HistoryAddsNothing
<1> QED BY <1>1, <1>2, PTL DEF MCSpec, mcvars

(***************************************************************************)
(* A press that has moved a screen is over, for no confirm key is held any *)
(* more, and has left the flow in no state that waits for its end.         *)
(***************************************************************************)
PressSpent == spent => low # "confirm" /\ State \notin {"BG_WAIT", "EN_WAIT"}

(***************************************************************************)
(* The flow reaches another screen from a wait state only, at the end of   *)
(* the confirm key.                                                        *)
(***************************************************************************)
LEMMA NextScreenCases ==
  ASSUME FlowInv, ClkEdge, NextScreen
  PROVE  /\ State \in {"BG_WAIT", "EN_WAIT"}
         /\ State' \notin {"BG_WAIT", "EN_WAIT"}
         /\ low # "confirm"
<1>1. State \in FlowStates /\ State' \in FlowStates
  BY FlowEdgeCases DEF FlowInv, TypeOK, ClkEdge
<1>2. State' \notin {"BG", "BG_WAIT"}
  <2>1. Screen \in {1, 2, 3}
    BY DEF Screen
  <2>2. State' \in {"BG", "BG_WAIT"} => Screen' = 1
    BY DEF Screen
  <2> QED BY <2>1, <2>2 DEF NextScreen
<1>3. ~Reset_h /\ Flow
  BY <1>2, FlowEdgeCases DEF FlowInv, ClkEdge
<1>4. State \in {"EN", "EN_WAIT"} => State' \notin {"EN", "EN_WAIT"}
  BY DEF NextScreen, Screen
<1>5. State \in {"BG", "BG_WAIT", "EN", "EN_WAIT"}
  <2>1. State \notin {"BG", "BG_WAIT", "EN", "EN_WAIT"} => Screen = 3
    BY DEF Screen
  <2>2. Screen' \in {1, 2, 3}
    BY DEF Screen
  <2> QED BY <2>1, <2>2 DEF NextScreen
<1>6. CASE State \in {"BG", "EN"}
  BY <1>2, <1>3, <1>4, <1>6
     DEF Flow, Background, BackgroundWait, ChooseEnemies, ChooseEnemiesWait,
         StartGame1, PlayGame1, StartGame2, PlayGame2, ShowEnd
<1>7. CASE State = "BG_WAIT"
  <2>1. BackgroundWait
    BY <1>3, <1>7
       DEF Flow, Background, BackgroundWait, ChooseEnemies, ChooseEnemiesWait,
           StartGame1, PlayGame1, StartGame2, PlayGame2, ShowEnd
  <2>2. one_player_mode \/ two_players_mode
    BY <1>7 DEF FlowInv, ChoicesMade
  <2> QED BY <1>2, <1>7, <2>1, <2>2 DEF BackgroundWait, ModeConfirmed
<1>8. CASE State = "EN_WAIT"
  <2>1. ChooseEnemiesWait
    BY <1>3, <1>8
       DEF Flow, Background, BackgroundWait, ChooseEnemies, ChooseEnemiesWait,
           StartGame1, PlayGame1, StartGame2, PlayGame2, ShowEnd
  <2> QED BY <1>2, <1>4, <1>8, <2>1 DEF ChooseEnemiesWait
<1> QED BY <1>5, <1>6, <1>7, <1>8

(***************************************************************************)
(* The wait states are entered by the confirm key only.                    *)
(***************************************************************************)
LEMMA WaitNeedsConfirm ==
  ASSUME FlowInv, ClkEdge, low # "confirm",
         State \notin {"BG_WAIT", "EN_WAIT"}
  PROVE  State' \notin {"BG_WAIT", "EN_WAIT"}
<1>1. State' = "BG" \/ Flow
  BY FlowEdgeCases DEF FlowInv, ClkEdge
<1> QED BY <1>1 DEF Flow, Background, BackgroundWait, ChooseEnemies,
                    ChooseEnemiesWait, StartGame1, PlayGame1, StartGame2, PlayGame2,
                    ShowEnd, ModeConfirmed

LEMMA PressSpentStep ==
  ASSUME FlowInv, PressSpent, [MCNext]_mcvars
  PROVE  /\ PressSpent'
         /\ NextScreen => ~spent
<1>1. CASE ClkEdge /\ spent' = (spent \/ NextScreen) /\ chord' = chord
  <2>1. low' = low
    BY <1>1 DEF ClkEdge, low
  <2> QED BY <1>1, <2>1, NextScreenCases, WaitNeedsConfirm DEF PressSpent
<1>2. CASE Inputs /\ spent' = (spent /\ low' \in {low, "none"})
  <2>1. State' = State
    BY <1>2 DEF Inputs
  <2>2. ~NextScreen
    <3>1. Screen' = Screen
      BY <2>1 DEF Screen
    <3>2. Screen \in {1, 2, 3}
      BY DEF Screen
    <3> QED BY <3>1, <3>2 DEF NextScreen
  <2> QED BY <1>2, <2>1, <2>2 DEF PressSpent
<1>3. CASE UNCHANGED mcvars
  <2>1. State' = State /\ spent' = spent /\ low' = low
    BY <1>3 DEF mcvars, vars, low
  <2>2. ~NextScreen
    <3>1. Screen' = Screen
      BY <2>1 DEF Screen
    <3>2. Screen \in {1, 2, 3}
      BY DEF Screen
    <3> QED BY <3>1, <3>2 DEF NextScreen
  <2> QED BY <2>1, <2>2 DEF PressSpent
<1> QED BY <1>1, <1>2, <1>3 DEF MCNext

(***************************************************************************)
(* One press of a key, from the moment it shows to the next key, moves the *)
(* flow by one screen at most, for any number of edges it is held and any  *)
(* number that pass after its release: the next wait state would need the  *)
(* confirm key anew.                                                       *)
(***************************************************************************)
THEOREM OnePressOneScreenAlways == MCSpec => OnePressOneScreen
<1>1. MCInit => PressSpent
  BY DEF MCInit, PressSpent
<1>2. FlowInv /\ PressSpent /\ [MCNext]_mcvars => PressSpent'
  BY PressSpentStep
<1>3. FlowInv /\ PressSpent /\ [MCNext]_mcvars =>
        [NextScreen => ~spent]_mcvars
  BY PressSpentStep
<1> QED BY <1>1, <1>2, <1>3, FlowInvariantMC, PTL
           DEF MCSpec, OnePressOneScreen, mcvars

-----------------------------------------------------------------------------
(***************************************************************************)
(* How far the machines are with their answer to the inputs, counted from  *)
(* the edge at which the inputs moved.  Past(n): the menu machines, which  *)
(* step at every second edge, have stepped at edge n or since.             *)
(***************************************************************************)
Decided == one_player_mode \/ two_players_mode

Past(n) == held > n \/ (held = n /\ ~vga)

ButtonSeen == held > 0 => Reset_hi = KEY0

(***************************************************************************)
(* A reset has reached the flow after two edges, the start menu after the  *)
(* next of its own, and is not forgotten before its last edge.             *)
(***************************************************************************)
ResetTaken ==
  /\ Reset_h /\ held > 1 => State = "BG"
  /\ Reset_h /\ Past(2) => ts = "OPM"
  /\ Reset_hi /\ held = 0 => State = "BG" /\ ts = "OPM"

(***************************************************************************)
(* A confirm key takes the start menu out of its wait states and then to a *)
(* decision.                                                               *)
(***************************************************************************)
ConfirmTaken ==
  low = "confirm" /\ ~Reset_h =>
    /\ Past(1) => ts \notin {"OPM_WAIT", "TPM_WAIT"}
    /\ Past(3) => Decided

(***************************************************************************)
(* Only a chord can be a quit without a reset.                             *)
(***************************************************************************)
QuitResets == low = "quit" /\ keycode.more => chord

(***************************************************************************)
(* A decision stands on the start screen for one edge, after which the     *)
(* flow has moved on: five edges after the confirm key at the latest.      *)
(***************************************************************************)
DecisionTaken ==
  chord \/ (State = "BG" /\ Decided /\ ~Reset_h =>
              low = "confirm" /\ ~vga /\ held < 5)

MenuInv ==
  ButtonSeen /\ ResetTaken /\ ConfirmTaken /\ QuitResets /\ DecisionTaken

-----------------------------------------------------------------------------
(***************************************************************************)
(* What a key does to the start menu.                                      *)
(***************************************************************************)
LEMMA TsNextConfirm ==
  ASSUME NEW s \in TsStates, NEW k
  PROVE  /\ TsNext(s, "confirm") \notin {"OPM_WAIT", "TPM_WAIT"}
         /\ s \notin {"OPM_WAIT", "TPM_WAIT"} =>
              TsNext(s, "confirm") \in {"OPM_DONE", "TPM_DONE"}
         /\ /\ s \notin {"OPM_DONE", "TPM_DONE"}
            /\ TsNext(s, k) \in {"OPM_DONE", "TPM_DONE"}
            => k = "confirm"
<1>1. "confirm" \notin Arrow
  BY DEF Arrow
<1> QED BY <1>1 DEF TsNext, TsStates

(***************************************************************************)
(* From the first edge on, a reset is asked for as long as the inputs hold.*)
(***************************************************************************)
LEMMA ResetHolds ==
  ASSUME FlowInv, ButtonSeen, ClkEdge
  PROVE  /\ held > 0 => Reset_h' = Reset_h
         /\ ~Reset_h' => ~Reset_h \/ (held = 0 /\ Reset_hi)
<1>1. keycode' = keycode /\ Reset_hi' = KEY0
  BY DEF ClkEdge
<1>2. held \in Nat /\ Reset_hi \in BOOLEAN /\ KEY0 \in BOOLEAN
  BY InputsAssumption DEF FlowInv, TypeOK
<1> QED BY <1>1, <1>2 DEF ButtonSeen, Reset_h, low

LEMMA HeldCounts ==
  ASSUME FlowInv, ClkEdge, MinHold >= 5
  PROVE  /\ held \in Nat /\ held' \in Nat
         /\ held' = held + 1 \/ (held' = held /\ held >= 5)
         /\ vga' <=> ~vga
<1>1. held \in 0..MinHold /\ MinHold \in Nat
  BY InputsAssumption DEF FlowInv, TypeOK
<1>2. held' = IF held < MinHold THEN held + 1 ELSE held
  BY DEF ClkEdge
<1>3. vga' <=> ~vga
  BY DEF ClkEdge
<1> QED BY <1>1, <1>2, <1>3

LEMMA ResetTakenClk ==
  ASSUME FlowInv, MenuInv, ClkEdge, MinHold >= 5
  PROVE  ResetTaken'
<1>1. ButtonSeen /\ ResetTaken
  BY DEF MenuInv
<1>2. Reset_h' /\ held' > 1 => State' = "BG"
  <2>1. held' > 1 => held > 0
    BY HeldCounts
  <2>2. Reset_h => State' = "BG"
    BY FlowEdgeCases DEF ClkEdge, FlowInv
  <2> QED BY <1>1, <2>1, <2>2, ResetHolds
<1>3. Reset_h' /\ Past(2)' => ts' = "OPM"
  <2> SUFFICES ASSUME Reset_h', Past(2)' PROVE ts' = "OPM"
    OBVIOUS
  <2>1. held > 0 /\ (~vga => Past(2))
    BY HeldCounts DEF Past
  <2>2. Reset_h
    BY <1>1, <2>1, ResetHolds
  <2>3. ~vga => ts = "OPM"
    BY <1>1, <2>1, <2>2 DEF ResetTaken
  <2> QED BY <2>2, <2>3 DEF ClkEdge, TanksSelectorEdge
<1>4. held' # 0
  BY HeldCounts
<1> QED BY <1>2, <1>3, <1>4 DEF ResetTaken

LEMMA ConfirmTakenClk ==
  ASSUME FlowInv, MenuInv, ClkEdge, MinHold >= 5
  PROVE  ConfirmTaken'
<1> SUFFICES ASSUME low' = "confirm", ~Reset_h'
             PROVE  /\ Past(1)' => ts' \notin {"OPM_WAIT", "TPM_WAIT"}
                    /\ Past(3)' => Decided'
  BY DEF ConfirmTaken
<1>1. low = "confirm" /\ ts \in TsStates
  BY DEF ClkEdge, low, FlowInv, TypeOK
<1>2. Decided <=> ts \in {"OPM_DONE", "TPM_DONE"}
  BY DEF Decided, one_player_mode, two_players_mode, OnePlayer, TwoPlayers
<1>3. Decided' <=> ts' \in {"OPM_DONE", "TPM_DONE"}
  BY DEF Decided, one_player_mode, two_players_mode, OnePlayer, TwoPlayers
<1>4. ts' = IF ~vga THEN ts ELSE IF Reset_h THEN "OPM" ELSE TsNext(ts, "confirm")
  BY <1>1 DEF ClkEdge, TanksSelectorEdge
<1>5. ConfirmTaken /\ ResetTaken /\ ButtonSeen
  BY DEF MenuInv
<1>6. Past(1)' => ts' \notin {"OPM_WAIT", "TPM_WAIT"}
  <2> SUFFICES ASSUME Past(1)' PROVE ts' \notin {"OPM_WAIT", "TPM_WAIT"}
    OBVIOUS
  <2>1. ~vga => Past(1) /\ held > 0
    BY HeldCounts DEF Past
  <2>2. CASE vga
    BY <1>1, <1>4, <2>2, TsNextConfirm
  <2>3. CASE ~vga
    BY <1>1, <1>4, <1>5, <2>1, <2>3, ResetHolds DEF ConfirmTaken
  <2> QED BY <2>2, <2>3
<1>7. Past(3)' => Decided'
  <2> SUFFICES ASSUME Past(3)' PROVE Decided'
    OBVIOUS
  <2>1. /\ held > 0
        /\ ~vga => Past(3)
        /\ Past(1)
    BY HeldCounts DEF Past
  <2>2. ~Reset_h
    BY <1>5, <2>1, ResetHolds
  <2>3. ts \notin {"OPM_WAIT", "TPM_WAIT"} /\ (~vga => Decided)
    BY <1>1, <1>5, <2>1, <2>2 DEF ConfirmTaken
  <2> QED BY <1>1, <1>2, <1>3, <1>4, <2>2, <2>3, TsNextConfirm
<1> QED BY <1>6, <1>7

LEMMA DecisionTakenClk ==
  ASSUME FlowInv, MenuInv, ClkEdge, chord' = chord, MinHold >= 5
  PROVE  DecisionTaken'
<1> SUFFICES ASSUME ~chord, State' = "BG", Decided', ~Reset_h'
             PROVE  low' = "confirm" /\ ~vga' /\ held' < 5
  BY DEF DecisionTaken
<1>1. /\ ButtonSeen /\ ResetTaken /\ ConfirmTaken /\ DecisionTaken
      /\ QuitResets
  BY DEF MenuInv
<1>2. /\ ts \in TsStates /\ low' = low
      /\ ts' = IF ~vga THEN ts ELSE IF Reset_h THEN "OPM" ELSE TsNext(ts, low)
  BY DEF ClkEdge, TanksSelectorEdge, low, FlowInv, TypeOK
<1>3. /\ Decided <=> ts \in {"OPM_DONE", "TPM_DONE"}
      /\ Decided' <=> ts' \in {"OPM_DONE", "TPM_DONE"}
  BY DEF Decided, one_player_mode, two_players_mode, OnePlayer, TwoPlayers
<1>4. ~Reset_h
  <2> SUFFICES ASSUME Reset_h PROVE FALSE
    OBVIOUS
  <2>1. ts = "OPM"
    BY <1>1, ResetHolds DEF ResetTaken
  <2> QED BY <1>2, <1>3, <2>1
<1>5. State = "BG" /\ Background
  <2>1. Flow /\ State \in FlowStates
    BY <1>4, FlowEdgeCases DEF ClkEdge, FlowInv, TypeOK
  <2>2. ~(State = "END" /\ low = "quit")
    BY <1>1, <1>4 DEF QuitResets, Reset_h
  <2> QED BY <2>1, <2>2
             DEF Flow, Background, BackgroundWait, ChooseEnemies, ChooseEnemiesWait,
                 StartGame1, PlayGame1, StartGame2, PlayGame2, ShowEnd
<1>6. ~Decided
  <2>1. ~ModeConfirmed
    BY <1>5 DEF Background
  <2> QED BY <1>1, <1>4, <1>5, <2>1 DEF DecisionTaken, ModeConfirmed, Decided
<1>7. vga /\ low = "confirm"
  BY <1>2, <1>3, <1>4, <1>6, TsNextConfirm
<1>8. ~(held > 3)
  BY <1>1, <1>4, <1>6, <1>7 DEF ConfirmTaken, Past
<1> QED BY <1>2, <1>7, <1>8, HeldCounts

(***************************************************************************)
(* When the inputs move, they have held still for long enough.             *)
(***************************************************************************)
LEMMA MenuInvInputs ==
  ASSUME FlowInv, MenuInv, Inputs, MinHold >= 5,
         chord' = (chord \/ (low' = "quit" /\ keycode'.more))
  PROVE  MenuInv'
<1>1. held = MinHold /\ MinHold \in Nat /\ held' = 0
  BY InputsAssumption DEF Inputs
<1>2. State' = State /\ ts' = ts /\ Reset_hi' = Reset_hi /\ Decided' = Decided
  BY DEF Inputs, Decided, one_player_mode, two_players_mode
<1>3. ResetTaken /\ DecisionTaken
  BY DEF MenuInv
<1>4. Reset_h => State = "BG" /\ ts = "OPM"
  BY <1>1, <1>3 DEF ResetTaken, Past
<1>5. ~Past(1)' /\ ~Past(2)' /\ ~Past(3)'
  BY <1>1 DEF Past
<1>6. ButtonSeen' /\ ConfirmTaken'
  BY <1>1, <1>5 DEF ButtonSeen, ConfirmTaken
<1>7. QuitResets'
  BY DEF QuitResets, low
<1>8. ResetTaken'
  <2>1. Reset_hi' => State' = "BG" /\ ts' = "OPM"
    BY <1>2, <1>4 DEF Reset_h
  <2> QED BY <1>1, <1>5, <2>1 DEF ResetTaken
<1>9. DecisionTaken'
  <2> SUFFICES ASSUME ~chord, State = "BG", Decided PROVE FALSE
    BY <1>2 DEF DecisionTaken
  <2>1. ~Reset_h
    BY <1>4 DEF Decided, one_player_mode, two_players_mode, OnePlayer, TwoPlayers
  <2> QED BY <1>1, <1>3, <2>1 DEF DecisionTaken
<1> QED BY <1>6, <1>7, <1>8, <1>9 DEF MenuInv

LEMMA MenuInvStep ==
  ASSUME FlowInv, MenuInv, [MCNext]_mcvars, MinHold >= 5
  PROVE  MenuInv'
<1>1. CASE ClkEdge /\ chord' = chord
  <2>1. ButtonSeen'
    BY <1>1 DEF ClkEdge, ButtonSeen
  <2>2. QuitResets'
    BY <1>1 DEF ClkEdge, QuitResets, MenuInv, low
  <2> QED BY <1>1, <2>1, <2>2, ResetTakenClk, ConfirmTakenClk, DecisionTakenClk
             DEF MenuInv
<1>2. CASE /\ Inputs
           /\ chord' = (chord \/ (low' = "quit" /\ keycode'.more))
  BY <1>2, MenuInvInputs
<1>3. CASE UNCHANGED mcvars
  BY <1>3 DEF mcvars, vars, MenuInv, ButtonSeen, ResetTaken, ConfirmTaken,
              QuitResets, DecisionTaken, Past, Decided, one_player_mode,
              two_players_mode, Reset_h, low
<1> QED BY <1>1, <1>2, <1>3 DEF MCNext

(***************************************************************************)
(* If the inputs hold still for five edges of Clk after each move, and Q   *)
(* is never reported beside another key, the start screen is always open   *)
(* to a choice: a mode is decided there only under its confirm key or      *)
(* while a reset is still on its way.  With four edges it fails: the key   *)
(* can then be gone at the edge between the decision of the menu, in its   *)
(* slower clock domain, and the step of the flow.                          *)
(***************************************************************************)
THEOREM MenuStaysOpen ==
  ASSUME MinHold >= 5
  PROVE  MCSpec => []MenuOpenUnlessChord
<1>1. MCInit => MenuInv
  <2> SUFFICES ASSUME MCInit PROVE MenuInv
    OBVIOUS
  <2>1. /\ State = "BG" /\ ts = "OPM" /\ ~Reset_hi /\ held = 0
        /\ low = "none"
    BY DEF MCInit, Init, low
  <2>2. ~Decided
    BY <2>1 DEF Decided, one_player_mode, two_players_mode, OnePlayer, TwoPlayers
  <2> QED BY <2>1, <2>2 DEF MenuInv, ButtonSeen, ResetTaken, ConfirmTaken,
                            QuitResets, DecisionTaken
<1>2. FlowInv /\ MenuInv /\ [MCNext]_mcvars => MenuInv'
  BY MenuInvStep
<1>3. MenuInv => MenuOpenUnlessChord
  BY DEF MenuInv, DecisionTaken, MenuOpenUnlessChord, MenuOpen, Decided
<1> QED BY <1>1, <1>2, <1>3, FlowInvariantMC, PTL DEF MCSpec, mcvars

=============================================================================
