------------------------------ MODULE PricingMC -------------------------------
(* Instances of Pricing over the tables of BcpMC: two phantoms hide the routes
   of two pairs of customers, one of them only from the checker. *)
EXTENDS BcpMC, Pricing

MCPhantom == {"x12", "x23"}
MCVague   == {"x23"}
MCCrew    == MCVisits @@ ("x12" :> {1, 2}) @@ ("x23" :> {2, 3})
MCDust    == {"r12", "r23"}

Limited == [Plain EXCEPT !.limits = {"Time", "Memory"}, !.cutLimit = 1, !.smooth = TRUE]
Shared  == [Plain EXCEPT !.limits = {"Memory"}, !.rival = TRUE]
Ghostly == [Plain EXCEPT !.phantoms = TRUE]

PassConfigs == {Limited, Shared, Ghostly}
=============================================================================
