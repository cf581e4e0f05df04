--------------------------- MODULE MCAccountSeeding ---------------------------
EXTENDS AccountSeeding, TLC
CONSTANTS u1, u2, u3, a1, a2, seed, form

MCAccountOf == u1 :> a1 @@ u2 :> a1 @@ u3 :> a2
MCSeed == a1 :> [token |-> None, server |-> Home] @@
          a2 :> [token |-> None, server |-> Elsewhere]
=============================================================================
