---------------------------- MODULE MCNetCommands ----------------------------
EXTENDS NetCommands, TLC
CONSTANTS s1, s2, h1, a1, a2
\* One server names a router, the other leaves the option out.
Routers == s1 :> h1 @@ s2 :> None
\* Each server leases one address.
Pools == s1 :> {a1} @@ s2 :> {a2}
=============================================================================
