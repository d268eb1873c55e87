----------------------------- MODULE ByteStream -----------------------------
(***************************************************************************)
(* What a character device promises in one direction: characters come out  *)
(* in the order they went in, none lost, none twice, and the device holds   *)
(* no more than Capacity of them.  Characters are numbered in the order in  *)
(* which they are put in, so two counters say it all.                       *)
(***************************************************************************)
EXTENDS Naturals

CONSTANT Capacity

VARIABLES
    put,    \* the number of the last character put in
    got     \* the number of the last character taken out

vars == <<put, got>>

Init == put = 0 /\ got = 0

(* A caller puts in some characters, as many as there is room for. *)
Put ==
    /\ \E n \in 1 .. Capacity :
         /\ put + n - got <= Capacity
         /\ put' = put + n
    /\ UNCHANGED got

(* The next character comes out, and no other. *)
Get ==
    /\ got < put
    /\ got' = got + 1
    /\ UNCHANGED put

Next == Put \/ Get

Spec == Init /\ [][Next]_vars
=============================================================================
