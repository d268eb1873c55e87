--------------------------- MODULE MCTankOnBoard ----------------------------
(***************************************************************************)
(* TankOnBoard for TLC.                                                    *)
(***************************************************************************)
EXTENDS TankOnBoard

OneKey  == {{}} \cup {{d} : d \in Directions}
NoStops == {{}}
=============================================================================
