---------------------------- MODULE MCRateLimit ----------------------------
(* An instance of RateLimit for TLC: logins, counted by address and then by
   identifier, and requests of a route counted by address alone. *)
EXTENDS RateLimit

CONSTANTS ip, ident

LoginAndRoute == {<<ip, ident>>, <<ip>>}
SmallLimits == [k \in Keys |-> IF k = ident THEN 1 ELSE 2]
SmallWindows == [k \in Keys |-> IF k = ident THEN 3 ELSE 2]
=============================================================================
