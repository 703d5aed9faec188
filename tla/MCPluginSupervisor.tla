------------------------- MODULE MCPluginSupervisor -------------------------
(* Two plugins that share a tool name; see the configurations.              *)
EXTENDS PluginSupervisor, TLC
CONSTANTS a, b, x, y

SharedOffers == (a :> {{x}, {x, y}}) @@ (b :> {{y}})
Policies == (a :> "always") @@ (b :> "on_failure")
LoneOffers == a :> {{x}}
LonePolicy == a :> "always"
=============================================================================
