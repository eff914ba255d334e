---------------------------- MODULE MCAuthService ----------------------------
(* Small instances of AuthService: the browsers, the accounts and the      *)
(* requests of each run.                                                   *)
EXTENDS AuthService

\* A complete client fingerprint of a browser in Berlin.
Client(name) ==
    [userAgent |-> "ua", timezone |-> "Berlin", timezoneOffset |-> -60,
     isAutomated |-> FALSE, engineMatchesUA |-> TRUE,
     timezoneMatchesOffset |-> TRUE, pluginsMatchEngine |-> TRUE,
     webglMatchesPlatform |-> TRUE, hash |-> name, canvasHash |-> name,
     audioHash |-> name, mathHash |-> name, webglRenderer |-> name,
     platform |-> name, screenSize |-> name, others |-> name]

Incomplete == [Client("alice") EXCEPT !.audioHash = Nil]

Stack(name) == [ja3 |-> name, ja4 |-> name, peetPrint |-> name]

Failing == [ja3 |-> "", ja4 |-> "", peetPrint |-> ""]

Message(route, ip, stack, body) ==
    [route |-> route, probe |-> FALSE, forwarded |-> << >>, remote |-> ip,
     computed |-> stack, supplied |-> Failing, userAgent |-> "ua", body |-> body]

Body(theme, username, password, client) ==
    [theme |-> theme, username |-> username, password |-> password, client |-> client]

Home == "198.51.100.1"
Abroad == "198.51.100.2"
Tor == "198.51.100.3"

Berlin == [timezone |-> "Berlin", offset |-> 60, flags |-> {"isProxy"}]
NewYork == [timezone |-> "NewYork", offset |-> -300, flags |-> {}]
TorExit == [timezone |-> "", offset |-> Nil, flags |-> {"isTor"}]

MCAnswers == (Home :> {Berlin}) @@ (Abroad :> {NewYork}) @@ (Tor :> {TorExit})
MCIPs == {Home, Abroad, Tor}
MCUsers == {"alice", ""}
MCBlacklist == {"dridex"}
MCLongPasswords == {"endless"}

AliceBody == Body("Emerald", "alice", "pw1", Client("alice"))
RivalBody == Body("Emerald", "alice", "pw2", Client("rival"))

(* Two registrations of one username with different passwords and          *)
(* browsers, one of which is abroad, behind a proxy that rewrites the      *)
(* User-Agent, and comes back to log in.                                   *)
RaceMessages ==
    {[Message(route, Abroad, Stack("alice"), AliceBody) EXCEPT !.userAgent = "proxied"] :
         route \in {"register", "login"}}
    \cup {Message("register", Home, Stack("rival"), RivalBody)}

(* Everything the guard and the handlers tell apart.                       *)
GuardMessages ==
    {[Message("page", Home, Stack("alice"), Nil) EXCEPT !.probe = TRUE],
     Message("page", Home, Stack("alice"), Nil),
     Message("register", Tor, Stack("alice"), AliceBody),
     Message("debug", Home, Failing, Nil),
     Message("debug", Tor, Failing, Nil),
     [Message("debug", Home, Failing, Nil) EXCEPT !.supplied = Stack("dridex")],
     Message("register", Home, Stack("alice"), Nil),
     Message("register", Home, Stack("alice"),
             Body("Emerald", "alice", "pw1", Incomplete)),
     Message("register", Home, Stack("alice"), Body("Dusk", "", "pw1", Nil)),
     Message("register", Home, Stack("alice"), Body("Dusk", "alice", "endless", Nil)),
     Message("register", Home, Stack("alice"), AliceBody),
     Message("login", Home, Stack("alice"), Nil),
     Message("login", Home, Stack("alice"), Body("Emerald", "alice", "pw1", Nil)),
     Message("login", Home, Stack("rival"), RivalBody),
     [Message("login", Home, Stack("rival"),
              Body("Dusk", "alice", "pw1", Client("rival")))
        EXCEPT !.forwarded = <<Abroad, Tor>>]}

Symmetry == Permutations(Slots)
=============================================================================
