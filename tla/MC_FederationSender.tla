------------------------- MODULE MC_FederationSender -------------------------
(***************************************************************************)
(* Model of FederationSender for TLC: local server hs1 with user a,       *)
(* remote server s2 with user b, up to two rooms, one receipt key.        *)
(***************************************************************************)
EXTENDS FederationSender

CONSTANTS a, b, r1, r2, w1, w2, k1, hs1, s2, p1, p2

MC_Users == {a, b}
MC_UserServer == (a :> hs1 @@ b :> s2)
=============================================================================
