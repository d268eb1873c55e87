----------------------------- MODULE MCGameFlow -----------------------------
(***************************************************************************)
(* GameFlow for TLC, with history variables that tell one key press from   *)
(* the next, and whether Q ever came together with another key.            *)
(***************************************************************************)
EXTENDS GameFlow

VARIABLES
  spent,     \* has the key shown last, pressed or just let go, moved a screen?
  chord      \* was Q ever reported beside another key?

Screen == CASE State \in {"BG", "BG_WAIT"} -> 1
            [] State \in {"EN", "EN_WAIT"} -> 2
            [] OTHER                       -> 3

NextScreen == Screen' > Screen /\ State' # "END"

MCInit == Init /\ spent = FALSE /\ chord = FALSE

MCNext ==
  \/ ClkEdge /\ spent' = (spent \/ NextScreen) /\ chord' = chord
  \/ /\ Inputs
     /\ spent' = (spent /\ low' \in {low, "none"})
     /\ chord' = (chord \/ (low' = "quit" /\ keycode'.more))

MCSpec == MCInit /\ [][MCNext]_<<vars, spent, chord>> /\ WF_vars(ClkEdge)

(***************************************************************************)
(* One press, one screen: from the moment a key shows until another one    *)
(* does, its release and the time after it included, the flow moves to a   *)
(* next screen at most once.  That is what the wait states are for: the    *)
(* screen changes when the key is let go, and no screen is passed over.    *)
(***************************************************************************)
OnePressOneScreen == [][NextScreen => ~spent]_<<vars, spent, chord>>

(***************************************************************************)
(* A player who never presses Q together with another key finds the start  *)
(* screen open to a choice, whenever and for however short a time reset is *)
(* asked for.                                                              *)
(***************************************************************************)
MenuOpenUnlessChord == chord \/ MenuOpen
=============================================================================
