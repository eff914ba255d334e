---------------------------- MODULE SampleBrowsers ----------------------------
(* Browsers for TLC's runs, as the collector reports them: one at home, one * *)
(* that differs in every attribute, and what lies between.                  * *)
EXTENDS Scoring

Home == [userAgent |-> "firefox", timezone |-> "Europe/Berlin",
         timezoneOffset |-> -60, isAutomated |-> FALSE,
         engineMatchesUA |-> TRUE, timezoneMatchesOffset |-> TRUE,
         pluginsMatchEngine |-> TRUE, webglMatchesPlatform |-> TRUE,
         hash |-> "h1", canvasHash |-> "c1", audioHash |-> "a1",
         mathHash |-> "m1", webglRenderer |-> "r1", platform |-> "linux",
         screenSize |-> <<1920, 1080>>, others |-> "present"]

Foreign == [Home EXCEPT !.userAgent = "chrome", !.hash = "h2",
                        !.canvasHash = "c2", !.audioHash = "a2",
                        !.mathHash = "m2", !.webglRenderer = "r2",
                        !.platform = "win", !.screenSize = <<1280, 720>>]

Bot == [Foreign EXCEPT !.isAutomated = TRUE, !.engineMatchesUA = FALSE,
                       !.timezoneMatchesOffset = FALSE,
                       !.pluginsMatchEngine = FALSE,
                       !.webglMatchesPlatform = FALSE,
                       !.timezone = "Asia/Tokyo", !.timezoneOffset = -540]

\* Automated and inconsistent, and otherwise the home browser.
Driven == [Home EXCEPT !.isAutomated = TRUE, !.engineMatchesUA = FALSE,
                       !.timezoneMatchesOffset = FALSE,
                       !.pluginsMatchEngine = FALSE,
                       !.webglMatchesPlatform = FALSE]

\* One attribute missing, or one taken from another device under a new hash.
Clients ==
    {Nil, Home, Foreign, Bot, Driven}
        \cup {[Home EXCEPT ![a] = Nil] : a \in Attributes}
        \cup {[Home EXCEPT ![a] = Bot[a], !.hash = "h3"] : a \in Attributes}

HomeTLS == [ja3 |-> "j1", ja4 |-> "k1", peetPrint |-> "p1"]

Stacks == {HomeTLS, [ja3 |-> "j2", ja4 |-> "k2", peetPrint |-> "p2"],
           [HomeTLS EXCEPT !.ja3 = "j2"], [HomeTLS EXCEPT !.ja4 = ""]}

Presented(tls, client, ip) ==
    [ja3 |-> tls.ja3, ja4 |-> tls.ja4, peetPrint |-> tls.peetPrint,
     userAgent |-> "firefox", ip |-> ip, client |-> client]

SampleFingerprints ==
    {Presented(HomeTLS, c, "ip1") : c \in Clients}
        \cup {Presented(t, c, "ip2") : t \in Stacks, c \in {Nil, Home, Foreign, Bot}}
=============================================================================
