--------------------------- MODULE MCServiceCall ---------------------------
(* Two requests, from one caller or from two: an action beside a request of
   each kind. *)
EXTENDS ServiceCall, TLC

CONSTANTS r1, r2, k1, k2

MCCallers == {r1 :> k1 @@ r2 :> k1, r1 :> k1 @@ r2 :> k2}

MCAsked == {r1 :> "invoke" @@ r2 :> k : k \in Kinds}
=============================================================================
