----------------------------- MODULE MCCollector -----------------------------
(***************************************************************************)
(* Collector for model checking: ten devices that differ in what the       *)
(* collector asks for, and six zones among which are a quarter and a half  *)
(* hour, two an hour and a quarter apart, and two across the date line.    *)
(***************************************************************************)
EXTENDS Collector, TLC

MCOffsetOf ==
    "UTC" :> 0 @@ "Kathmandu" :> 345 @@ "Bangkok" :> 420 @@ "St Johns" :> -210
        @@ "Kiritimati" :> 840 @@ "Honolulu" :> -600

\* Before and after full hours, halves and quarters, and around midnight.
MCMinutes == {0, 15, 29, 30, 209, 210, 600, 854, 855, 1439}

Chrome ==
    [product |-> "Chrome", bigSwitch |-> TRUE, installTrigger |-> FALSE,
     chromeObject |-> TRUE, canvas |-> "drawn", renderer |-> "direct3d",
     audio |-> TRUE, markers |-> {}, platform |-> "win", plugins |-> {"pdf"},
     languages |-> {"en"}, connection |-> "connection", battery |-> "given",
     storage |-> TRUE, secure |-> TRUE, turns |-> TRUE, claims |-> Nil,
     midnight |-> 24]

Edge == [Chrome EXCEPT !.product = "Edge", !.plugins = {}]

Firefox ==
    [Chrome EXCEPT !.product = "Firefox", !.bigSwitch = FALSE,
                   !.chromeObject = FALSE, !.renderer = "other",
                   !.platform = "linux", !.connection = "none",
                   !.battery = "none", !.midnight = 0]

Safari ==
    [Chrome EXCEPT !.product = "Safari", !.bigSwitch = FALSE, !.chromeObject = FALSE,
                   !.renderer = "apple gpu", !.platform = "mac",
                   !.connection = "none", !.battery = "none"]

Strict == [Chrome EXCEPT !.canvas = "unsupported", !.storage = FALSE,
                         !.battery = "blocked", !.connection = "prefixed",
                         !.plugins = {}]

MCDevices ==
    {Chrome, Edge, Firefox, Safari, Strict,
     [Firefox EXCEPT !.renderer = Nil, !.installTrigger = TRUE, !.product = "Other"],
     [Chrome EXCEPT !.markers = {"webdriver", "headless_ua"}, !.languages = {}],
     [Chrome EXCEPT !.claims = "Kathmandu", !.platform = "linux"],
     [Safari EXCEPT !.claims = "Nowhere", !.audio = FALSE, !.turns = FALSE],
     [Chrome EXCEPT !.secure = FALSE]}
=============================================================================
