---------------------------- MODULE MCHardenedHub ----------------------------
(* A small hub: c1 and c2 come from one address, c3 from another.  With one *)
(* slot c3 meets a full hub, and with one connection for each address c2    *)
(* meets the limit of its address.  The client of c1 sends a byte now and   *)
(* then and never finishes.                                                 *)
EXTENDS HardenedHub, TLC

CONSTANTS c1, c2, c3, a1, a2

MCClientOf == c1 :> a1 @@ c2 :> a1 @@ c3 :> a2
==============================================================================
