------------------------------ MODULE GameFlow ------------------------------
(***************************************************************************)
(* The flow of a game: the top-level state machine of lab8.sv, the menu    *)
(* machines of selector.sv it waits for, and the five lives registers that *)
(* decide when a game is over and which end screen sp_addr_lookup.sv       *)
(* shows.                                                                  *)
(*                                                                         *)
(* Everything here is a register updated at a clock edge, so a step is one *)
(* edge of the 50 MHz Clk (ClkEdge): all registers take their next values  *)
(* together, from the values before the edge.  VGA_CLK is Clk divided by   *)
(* two by the PLL, so every second edge is also an edge of VGA_CLK and     *)
(* clocks the two menu machines.  Between edges the inputs move (Inputs):  *)
(* the keycode word written by the Nios II firmware and the push button.   *)
(*                                                                         *)
(* Which tank is hit at an edge is decided by the bullets and walls; here  *)
(* it is an arbitrary subset of the hit wires that are armed (Armed).      *)
(***************************************************************************)
EXTENDS Integers, Selector

CONSTANTS
  StartLives,   \* lives at the start of a game (6'd5)
  LivesMod,     \* number of values of a lives register (2^6)
  MinHold,      \* Clk edges for which the inputs hold still
  Chords        \* may Q be reported together with another key?

ASSUME LivesAssumption ==
  /\ StartLives \in Nat \ {0}
  /\ LivesMod \in Nat
  /\ StartLives < LivesMod

ASSUME InputsAssumption ==
  /\ MinHold \in Nat
  /\ Chords \in BOOLEAN

VARIABLES
  State,     \* state of the top-level machine
  ts,        \* state of tanks_selector
  en,        \* state of en_draw
  en_num,    \* number of enemies register of en_draw
  lives,     \* the five lives registers
  keycode,   \* the keycode word: class of its low byte, other bytes nonzero?
  KEY0,      \* is the reset button pressed?
  Reset_hi,  \* the button, registered
  vga,       \* is the next Clk edge an edge of VGA_CLK?
  held       \* Clk edges since the inputs moved, up to MinHold

vars == <<State, ts, en, en_num, lives, keycode, KEY0, Reset_hi, vga, held>>

-----------------------------------------------------------------------------
FlowStates == {"BG", "BG_WAIT", "EN", "EN_WAIT", "GAME_RST1", "GAME1",
               "GAME_RST2", "GAME2", "END"}

Tanks == {"player", "enemy1", "enemy2", "player1", "player2"}

(***************************************************************************)
(* The keycode words.  The keyboard reports pressed keys from byte 0 on,   *)
(* so a word whose low byte is clear is zero.                              *)
(***************************************************************************)
Words == {w \in [low : Keys, more : BOOLEAN] :
            /\ w.low = "none" => ~w.more
            /\ ~Chords /\ w.low = "quit" => ~w.more}

low == keycode.low

(***************************************************************************)
(* Reset: the button, or a keycode word that is exactly 8'h14.             *)
(***************************************************************************)
Reset_h == Reset_hi \/ (low = "quit" /\ ~keycode.more)

one_player_mode  == OnePlayer(ts)
two_players_mode == TwoPlayers(ts)
chosen           == Chosen(en)

(***************************************************************************)
(* Outputs of the top-level machine.                                       *)
(***************************************************************************)
mode ==
  CASE State \in {"BG", "BG_WAIT"}                               -> "menu"
    [] State \in {"EN", "EN_WAIT"}                               -> "enemies"
    [] State \in {"GAME_RST1", "GAME1", "GAME_RST2", "GAME2"}    -> "game"
    [] State = "END"                                             -> "end"

en_state       == State \in {"EN", "EN_WAIT"}

\* What a slip would have been (PROJECT.json "mutants"): one game of two.
lives_activate_One == State = "GAME_RST1"
lives_activate == State \in {"GAME_RST1", "GAME_RST2"}

\* What a slip would have been (PROJECT.json "mutants"): a dead enemy stays armed.
enable1_Dead == State \in {"GAME_RST1", "GAME1"} /\ en_num \in {1, 2}

enable1 ==
  \/ State = "GAME_RST1" /\ en_num \in {1, 2}
  \/ State = "GAME1" /\ en_num = 1
  \/ State = "GAME1" /\ en_num = 2 /\ lives["enemy1"] > 0
                                   /\ lives["enemy2"] <= StartLives

enable12 ==
  \/ State = "GAME_RST1" /\ en_num = 2
  \/ State = "GAME1" /\ en_num = 2 /\ lives["enemy2"] > 0
                                   /\ lives["enemy2"] <= StartLives

\* What a slip would have been (PROJECT.json "mutants"): armed past the end.
enable2_Late == State \in {"GAME_RST2", "GAME2", "END"}

enable2 == State \in {"GAME_RST2", "GAME2"}

-----------------------------------------------------------------------------
(***************************************************************************)
(* The top-level machine, one action per state.                            *)
(***************************************************************************)
ModeConfirmed == (one_player_mode \/ two_players_mode) /\ low = "confirm"

Background ==
  /\ State = "BG"
  /\ State' = IF ModeConfirmed THEN "BG_WAIT" ELSE "BG"

\* What a slip would have been (PROJECT.json "mutants"): no wait for the release.
BackgroundWait_NoWait ==
  /\ State = "BG_WAIT"
  /\ State' = IF one_player_mode THEN "EN" ELSE "GAME_RST2"

BackgroundWait ==
  /\ State = "BG_WAIT"
  /\ State' = IF ModeConfirmed THEN "BG_WAIT"
              ELSE IF one_player_mode THEN "EN" ELSE "GAME_RST2"

\* What a slip would have been (PROJECT.json "mutants"): the key alone decides.
ChooseEnemies_KeyOnly ==
  /\ State = "EN"
  /\ State' = IF low = "confirm" THEN "EN_WAIT" ELSE "EN"

ChooseEnemies ==
  /\ State = "EN"
  /\ State' = IF low = "confirm" /\ chosen THEN "EN_WAIT" ELSE "EN"

ChooseEnemiesWait ==
  /\ State = "EN_WAIT"
  /\ State' = IF low = "none" THEN "GAME_RST1" ELSE "EN_WAIT"

\* What a slip would have been (PROJECT.json "mutants"): waits for a press.
StartGame1_Press ==
  /\ State = "GAME_RST1"
  /\ State' = IF low # "none" THEN "GAME1" ELSE "GAME_RST1"

StartGame1 ==
  /\ State = "GAME_RST1"
  /\ State' = IF low = "none" THEN "GAME1" ELSE "GAME_RST1"

Game1Over ==
  \/ en_num = 0
  \/ en_num = 1 /\ (lives["player"] = 0 \/ lives["enemy1"] = 0)
  \/ en_num = 2 /\ (lives["player"] = 0 \/ lives["enemy1"] + lives["enemy2"] = 0)

PlayGame1 ==
  /\ State = "GAME1"
  /\ State' = IF Game1Over THEN "END" ELSE "GAME1"

StartGame2 ==
  /\ State = "GAME_RST2"
  /\ State' = IF low = "none" THEN "GAME2" ELSE "GAME_RST2"

PlayGame2 ==
  /\ State = "GAME2"
  /\ State' = IF lives["player1"] = 0 \/ lives["player2"] = 0 THEN "END"
              ELSE "GAME2"

ShowEnd ==
  /\ State = "END"
  /\ State' = IF low = "quit" THEN "BG" ELSE "END"

Flow ==
  \/ Background
  \/ BackgroundWait
  \/ ChooseEnemies
  \/ ChooseEnemiesWait
  \/ StartGame1
  \/ PlayGame1
  \/ StartGame2
  \/ PlayGame2
  \/ ShowEnd

FlowEdge == IF Reset_h THEN State' = "BG" ELSE Flow

-----------------------------------------------------------------------------
(***************************************************************************)
(* The lives registers.  A hit wire that is high at an edge costs one      *)
(* life, whatever the register holds: the decrement of 0 wraps.  Both      *)
(* enemies hitting the player at one edge assign the same next value.      *)
(***************************************************************************)
HitWires == {"player_hit_en1", "en1_hit_player", "player_hit_en2",
             "en2_hit_player", "player1_hit", "player2_hit"}

Gate(w) ==
  CASE w \in {"player_hit_en1", "en1_hit_player"} -> enable1
    [] w \in {"player_hit_en2", "en2_hit_player"} -> enable12
    [] w \in {"player1_hit", "player2_hit"}       -> enable2

Armed == {w \in HitWires : Gate(w)}

(***************************************************************************)
(* The wires that cost a tank a life, and the mode in which they count.    *)
(***************************************************************************)
Against(t) ==
  CASE t = "player"  -> {"en1_hit_player", "en2_hit_player"}
    [] t = "enemy1"  -> {"player_hit_en1"}
    [] t = "enemy2"  -> {"player_hit_en2"}
    [] t = "player1" -> {"player1_hit"}
    [] t = "player2" -> {"player2_hit"}

Counts(t) == IF t \in {"player1", "player2"} THEN enable2 ELSE one_player_mode

Decrement(n) == IF n = 0 THEN LivesMod - 1 ELSE n - 1

LivesEdge(hits) ==
  lives' = [t \in Tanks |->
              IF Reset_h \/ lives_activate THEN StartLives
              ELSE IF Counts(t) /\ Against(t) \cap hits # {}
                THEN Decrement(lives[t])
                ELSE lives[t]]

-----------------------------------------------------------------------------
(***************************************************************************)
(* The menu machines take a step at the edges of VGA_CLK only.             *)
(***************************************************************************)
\* What a slip would have been (PROJECT.json "mutants"): reset left out.
TanksSelectorEdge_NoReset == ts' = IF ~vga THEN ts ELSE TsNext(ts, low)

TanksSelectorEdge ==
  ts' = IF ~vga THEN ts ELSE IF Reset_h THEN "OPM" ELSE TsNext(ts, low)

\* What a slip would have been (PROJECT.json "mutants"): reset left out.
EnDrawEdge_NoReset ==
  /\ en' = IF ~vga THEN en ELSE EnNext(en, low, en_state)
  /\ en_num' = IF ~vga THEN en_num ELSE EnNumNext(en, en_num, low, en_state)

EnDrawEdge ==
  /\ en' = IF ~vga THEN en ELSE IF Reset_h THEN "state0"
           ELSE EnNext(en, low, en_state)
  /\ en_num' = IF ~vga THEN en_num ELSE IF Reset_h THEN 0
               ELSE EnNumNext(en, en_num, low, en_state)

-----------------------------------------------------------------------------
(***************************************************************************)
(* Power-up: the registers of the FPGA come up as zero.                    *)
(***************************************************************************)
Init ==
  /\ State = "BG"
  /\ ts = "OPM"
  /\ en = "state0"
  /\ en_num = 0
  /\ lives = [t \in Tanks |-> 0]
  /\ keycode = [low |-> "none", more |-> FALSE]
  /\ KEY0 = FALSE
  /\ Reset_hi = FALSE
  /\ vga \in BOOLEAN
  /\ held = 0

ClkEdge ==
  /\ FlowEdge
  /\ \E hits \in SUBSET Armed : LivesEdge(hits)
  /\ TanksSelectorEdge
  /\ EnDrawEdge
  /\ Reset_hi' = KEY0
  /\ vga' = ~vga
  /\ held' = IF held < MinHold THEN held + 1 ELSE held
  /\ UNCHANGED <<keycode, KEY0>>

(***************************************************************************)
(* The inputs move.  Two writes of the keycode PIO are a USB poll apart    *)
(* and a press of the button lasts milliseconds, so they hold still for    *)
(* many edges of Clk; MinHold of them are assumed.                         *)
(***************************************************************************)
Inputs ==
  /\ held = MinHold
  /\ keycode' \in Words
  /\ KEY0' \in BOOLEAN
  /\ held' = 0
  /\ UNCHANGED <<State, ts, en, en_num, lives, Reset_hi, vga>>

Next == ClkEdge \/ Inputs

(***************************************************************************)
(* The clock of the board never stops.                                     *)
(***************************************************************************)
Spec == Init /\ [][Next]_vars /\ WF_vars(ClkEdge)

-----------------------------------------------------------------------------
(***************************************************************************)
(* The end screen that sp_addr_lookup selects, "none" when no branch of    *)
(* its chain applies and the address stays what the sprites left it.       *)
(***************************************************************************)
EndScreen ==
  IF mode # "end" THEN "none"
  ELSE IF en_num = 0 /\ one_player_mode THEN "win"
  ELSE IF en_num = 1 /\ lives["enemy1"] = 0 THEN "win"
  ELSE IF en_num = 2 /\ lives["enemy1"] + lives["enemy2"] = 0 THEN "win"
  ELSE IF lives["player"] = 0 THEN "lose"
  ELSE IF lives["player1"] = 0 THEN "player2_wins"
  ELSE IF lives["player2"] = 0 THEN "player1_wins"
  ELSE "none"

-----------------------------------------------------------------------------
TypeOK ==
  /\ State \in FlowStates
  /\ ts \in TsStates
  /\ en \in EnStates
  /\ en_num \in 0..2
  /\ lives \in [Tanks -> 0..(LivesMod - 1)]
  /\ keycode \in Words
  /\ KEY0 \in BOOLEAN
  /\ Reset_hi \in BOOLEAN
  /\ vga \in BOOLEAN
  /\ held \in 0..MinHold

(***************************************************************************)
(* A screen past the start screen is only reached with the choices it      *)
(* depends on made, although the choices live in another clock domain:     *)
(* the enemy screen and its game need one-player mode, the game also a     *)
(* chosen number of enemies, the two-player game two-player mode.          *)
(***************************************************************************)
ChoicesMade ==
  /\ State = "BG_WAIT" => one_player_mode \/ two_players_mode
  /\ State \in {"EN", "EN_WAIT", "GAME_RST1", "GAME1"} => one_player_mode
  /\ State \in {"EN_WAIT", "GAME_RST1", "GAME1"} => chosen
  /\ State \in {"GAME_RST2", "GAME2"} => two_players_mode

(***************************************************************************)
(* In a game with two enemies the lives of an enemy never wrap below zero: *)
(* the enable outputs disarm the hits on an enemy at the very edge its     *)
(* register reaches zero, also while the other one fights on.              *)
(***************************************************************************)
EnemyLivesNeverWrap ==
  State = "GAME1" /\ en_num = 2 =>
    lives["enemy1"] <= StartLives /\ lives["enemy2"] <= StartLives

(***************************************************************************)
(* A game starts with full lives for everybody, whatever the last game     *)
(* left in the registers and whatever hits came during its start.          *)
(***************************************************************************)
FreshStart ==
  [][State # State' /\ State' \in {"GAME1", "GAME2"}
       => \A t \in Tanks : lives'[t] = StartLives]_vars

(***************************************************************************)
(* The number of enemies is settled once the game is being started: it is  *)
(* the same until the end screen is left.                                  *)
(***************************************************************************)
EnemiesSettled ==
  [][State' # "BG" /\ State \in {"EN_WAIT", "GAME_RST1", "GAME1", "END"}
       => UNCHANGED en_num]_vars

(***************************************************************************)
(* The result that the end screen shows does not change while it is shown: *)
(* no late hit, key or menu step rewrites the outcome of the game.         *)
(***************************************************************************)
ResultStands ==
  [][State = "END" /\ State' = "END" => EndScreen' = EndScreen]_vars

(***************************************************************************)
(* On the start screen a mode is decided only while its confirm key is     *)
(* held, or in the few edges before a reset has reached the menu machines: *)
(* back at the start screen the players can choose again.  Holds as long   *)
(* as Q is never reported together with another key.                       *)
(***************************************************************************)
MenuOpen ==
  State = "BG" /\ (one_player_mode \/ two_players_mode) =>
    low = "confirm" \/ Reset_h

(***************************************************************************)
(* A reset, even of the shortest length the inputs allow, reaches both     *)
(* clock domains: the flow is back at the start screen with both menu      *)
(* machines in their first state.                                          *)
(***************************************************************************)
ResetReachesAll ==
  Reset_h ~> (State = "BG" /\ ts = "OPM" /\ en = "state0" /\ en_num = 0)

(***************************************************************************)
(* No waiting state traps the flow: if the keys are released for good, the *)
(* flow is in none of the states that wait for a release.                  *)
(***************************************************************************)
ReleaseFreesFlow ==
  <>[](low = "none") =>
    <>[](State \notin {"BG_WAIT", "EN_WAIT", "GAME_RST1", "GAME_RST2"})

(***************************************************************************)
(* Every end of a game shows one of the four end screens, as the design    *)
(* report says.  The code violates this: a hit wire that is still high at  *)
(* the edge on which the flow goes to END wraps the register that ended    *)
(* the game.                                                               *)
(***************************************************************************)
EndShowsResult == State = "END" => EndScreen # "none"
=============================================================================
