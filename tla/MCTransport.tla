----------------------------- MODULE MCTransport -----------------------------
(***************************************************************************)
(* Transport for TLC: methods of each kind of result, and a message for    *)
(* each way through the routing.                                           *)
(***************************************************************************)
EXTENDS Transport

Startup == {"registerEvent", "enableCasting", "isCastingEnabled"}
Serving == {"getPluginState", "launchPremiumApp", "sendDeepLinkRequest"}

SomeArrivals == {Event("onApplicationLaunchRequest", TRUE), Event("onDestroyed", TRUE),
                 NullIdError, StringIdResponse, Event("", FALSE)}

(* No methods and no messages: until main is connected there are none. *)
Nothing == {}
=============================================================================
