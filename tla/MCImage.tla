------------------------------ MODULE MCImage ------------------------------
(* Two trades and two actions on tables of four slots where the keys collide. *)
EXTENDS Image, TLC

MCHash == (NoTrade :> 0) @@ (1 :> 3) @@ (2 :> 3) @@ (11 :> 3) @@ (12 :> 3)
=============================================================================
