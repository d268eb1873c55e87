------------------------------ MODULE Selector ------------------------------
(***************************************************************************)
(* The two menu state machines of selector.sv, both clocked by VGA_CLK:    *)
(* tanks_selector (one or two players, on the start screen) and en_draw    *)
(* (number of enemies, on the enemy screen).  They are given here as pure  *)
(* next-state operators; GameFlow clocks them.                             *)
(*                                                                         *)
(* A key is the class of the low byte of the keycode word: both machines   *)
(* compare keycode[7:0] and nothing else.                                  *)
(***************************************************************************)
EXTENDS Integers

(***************************************************************************)
(* Classes of keycode[7:0]: 00, {52, 1a}, {51, 16}, {28, 2c}, 14, the rest.*)
(***************************************************************************)
Keys  == {"none", "up", "down", "confirm", "quit", "other"}
Arrow == {"up", "down"}

-----------------------------------------------------------------------------
(***************************************************************************)
(* tanks_selector: start screen, one player (OPM) or two (TPM).            *)
(***************************************************************************)
TsStates == {"OPM", "TPM", "OPM_WAIT", "TPM_WAIT", "OPM_DONE", "TPM_DONE"}

OnePlayer(ts)  == ts = "OPM_DONE"
TwoPlayers(ts) == ts = "TPM_DONE"

TsNext(ts, key) ==
  CASE ts = "OPM" /\ key \in Arrow            -> "OPM_WAIT"
    [] ts = "OPM" /\ key = "confirm"          -> "OPM_DONE"
    [] ts = "OPM_WAIT" /\ key \notin Arrow    -> "TPM"
    [] ts = "TPM" /\ key \in Arrow            -> "TPM_WAIT"
    [] ts = "TPM" /\ key = "confirm"          -> "TPM_DONE"
    [] ts = "TPM_WAIT" /\ key \notin Arrow    -> "OPM"
    [] OTHER                                  -> ts

-----------------------------------------------------------------------------
(***************************************************************************)
(* en_draw: enemy screen, 0, 1 or 2 enemies.  Choice n is state<n>; the    *)
(* state<n>_wait states lead to choice n + 1 modulo 3, so pressing down in *)
(* choice n waits in state<n>_wait, and pressing up, to reach choice n - 1 *)
(* = n + 2, waits in the state of choice n + 1.                            *)
(***************************************************************************)
Choosing == {"state0", "state1", "state2"}
Waiting  == {"state0_wait", "state1_wait", "state2_wait"}
EnStates == Choosing \cup Waiting \cup {"done_state"}

EnNumber(en) ==
  CASE en \in {"state0", "state0_wait"} -> 0
    [] en \in {"state1", "state1_wait"} -> 1
    [] OTHER                            -> 2

ChoiceState(n) == CASE n = 0 -> "state0" [] n = 1 -> "state1" [] OTHER -> "state2"
WaitState(n)   == CASE n = 0 -> "state0_wait" [] n = 1 -> "state1_wait"
                    [] OTHER -> "state2_wait"

\* What a slip would have been (PROJECT.json "mutants"): no way round.
After_NoWrap(n) == n + 1

After(n)       == (n + 1) % 3

Chosen(en) == en = "done_state"

EnNext(en, key, en_state) ==
  CASE en \in Choosing /\ en_state /\ key = "down"    -> WaitState(EnNumber(en))
    [] en \in Choosing /\ en_state /\ key = "up"      ->
         WaitState(After(EnNumber(en)))
    [] en \in Choosing /\ en_state /\ key = "confirm" -> "done_state"
    [] en \in Waiting /\ ~(en_state /\ key \in Arrow) ->
         ChoiceState(After(EnNumber(en)))
    [] OTHER                                          -> en

\* What a slip would have been (PROJECT.json "mutants"): done_state does not keep it.
EnNumNext_Dropped(en, en_num, key, en_state) ==
  IF Chosen(en) THEN 0 ELSE EnNumber(en)

(***************************************************************************)
(* The value "enemy" that en_num takes at the same edge: the choice being  *)
(* shown, the next choice when a wait state is left; kept in done_state.   *)
(***************************************************************************)
EnNumNext(en, en_num, key, en_state) ==
  CASE en \in Choosing                                -> EnNumber(en)
    [] en \in Waiting /\ en_state /\ key \in Arrow    -> EnNumber(en)
    [] en \in Waiting /\ ~(en_state /\ key \in Arrow) -> After(EnNumber(en))
    [] OTHER                                          -> en_num
=============================================================================
