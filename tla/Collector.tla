------------------------------ MODULE Collector ------------------------------
(***************************************************************************)
(* The collector of frontend/src/utils/fingerprint.ts, run by a form at    *)
(* every submission, and what the server makes of the result.              *)
(*                                                                         *)
(* A device has fixed facts (device) and an environment that changes while *)
(* the collector waits (env).  collectFingerprint runs in turns separated  *)
(* by its awaits: audio rendering, the battery, the digests.  Within one   *)
(* turn nothing changes but the clock.                                     *)
(*                                                                         *)
(* SHA-256 is injective here, a canvas, audio or math result a value of    *)
(* the device.  Sets of strings (fonts, plugins, signals) stand for the    *)
(* arrays, whose order the code fixes.                                     *)
(***************************************************************************)
EXTENDS Scoring, FiniteSets

CONSTANTS
    Devices,      \* records of the facts listed below
    OffsetOf,     \* time zones, and their minutes east of UTC
    Minutes,      \* minutes of the UTC day at which the collector may run
    MaxChanges    \* bound: changes of the environment

VARIABLES
    device, env,
    pc,           \* the await at which collectFingerprint stands
    fp,           \* what it has read; Nil for what it has not
    baseline,     \* the client fingerprint the server has enrolled
    enrolledUnder,  \* history: the theme of the registration that did
    quiet,        \* history: no change since the run that enrolled it began
    changes

vars == <<device, env, pc, fp, baseline, enrolledUnder, quiet, changes>>

(* product       the browser that navigator.userAgent stands for           *)
(* bigSwitch     eval of a switch with 66000 cases succeeds                *)
(* installTrigger, chromeObject   globals of Firefox and of Chrome         *)
(* canvas        "drawn", "unsupported" or "error"                         *)
(* renderer      of WebGL, Nil without WebGL                               *)
(* audio         there is an OfflineAudioContext                           *)
(* markers       traces of automation tools                                *)
(* platform, plugins, languages, connection (the name of the interface),   *)
(* battery ("none", "blocked" or "given"), storage (it is not blocked),    *)
(* secure        crypto.subtle is there                                    *)
(* turns         screen.width follows the orientation (not on iOS)         *)
(* claims        what Intl names instead of the clock's zone, maybe a name *)
(*               it does not know itself; or Nil                           *)
(* midnight      0 or 24: how the hour after midnight is written           *)
Zones == DOMAIN OffsetOf

ASSUME ZonesAssumption == Zones \subseteq STRING

\* Offsets are less than a day.
ASSUME OffsetAssumption ==
    \A z \in Zones : OffsetOf[z] \in Int /\ -1440 < OffsetOf[z] /\ OffsetOf[z] < 1440

ASSUME MinutesAssumption == \A m \in Minutes : m \in Nat /\ m < 1440

ASSUME MaxChangesAssumption == MaxChanges \in Nat

Maybe(S) == S \cup {Nil}

ASSUME DevicesAssumption ==
    Devices \subseteq
        [product : STRING, bigSwitch : BOOLEAN, installTrigger : BOOLEAN,
         chromeObject : BOOLEAN, canvas : {"drawn", "unsupported", "error"},
         renderer : Maybe(STRING), audio : BOOLEAN, markers : SUBSET STRING,
         platform : STRING, plugins : SUBSET STRING, languages : SUBSET STRING,
         connection : {"none", "prefixed", "connection"},
         battery : {"none", "blocked", "given"}, storage : BOOLEAN, secure : BOOLEAN,
         turns : BOOLEAN, claims : Maybe(STRING), midnight : {0, 24}]

Links == {[rtt |-> 50, downlink |-> 10], [rtt |-> 0, downlink |-> 10],
          [rtt |-> 0, downlink |-> 0]}

\* devtools docked or the page zoomed in: the window exceeds its contents
Environments ==
    [zone : Zones, gap : {160, 161}, link : Links, pluggedFull : BOOLEAN,
     landscape : BOOLEAN, denied : BOOLEAN]

Unread ==
    [engine |-> Nil, canvasHash |-> Nil, webgl |-> Nil, audioHash |-> Nil,
     signals |-> Nil, fonts |-> Nil, mathHash |-> Nil, plugins |-> Nil,
     connection |-> Nil, storage |-> Nil, battery |-> Nil, screen |-> Nil,
     userAgent |-> Nil, platform |-> Nil, languages |-> Nil, timezone |-> Nil,
     timezoneOffset |-> Nil, consistency |-> Nil, hash |-> Nil]

(* What may be read, and what the digests are taken of.                    *)
Digests(inputs) == {"sha256"} \X inputs

Engines == {"chromium", "firefox", "unknown"}

Pictures == {"drawn", "unsupported", "error"} \X Maybe(STRING)

Signals ==
    {"webdriver", "webdriver_tampered", "selenium", "cdp_runtime", "phantomjs",
     "nightmare", "playwright", "headless_ua", "zero_dimensions",
     "missing_chrome_obj", "no_plugins", "no_languages", "zero_rtt",
     "notification_denied_default", "devtools_open"}

Readings(hashes) ==
    [engine : Maybe(Engines), canvasHash : Maybe(Digests(Pictures)),
     webgl : Maybe(STRING), audioHash : Maybe({"sum"}), signals : Maybe(SUBSET Signals),
     fonts : Maybe(SUBSET {"Arial"}), mathHash : Maybe(Digests({"math"} \X Engines)),
     plugins : Maybe(SUBSET STRING), connection : Maybe(Links),
     storage : Maybe([localStorage : BOOLEAN, sessionStorage : BOOLEAN,
                      indexedDB : BOOLEAN]),
     battery : Maybe({"desktop", "laptop", "unknown"}),
     screen : Maybe([width : {9, 16}, height : {9, 16},
                     orientation : {"landscape", "portrait"}]),
     userAgent : Maybe(STRING), platform : Maybe(STRING),
     languages : Maybe(SUBSET STRING), timezone : Maybe(STRING),
     timezoneOffset : Maybe(Int),
     consistency : Maybe([engineMatchesUA : BOOLEAN, timezoneMatchesOffset : BOOLEAN,
                          pluginsMatchEngine : BOOLEAN, webglMatchesPlatform : BOOLEAN]),
     hash : Maybe(hashes)]

\* The object literal, and the same with its hash.
Literals == Readings({})

Fingerprints == Readings(Digests(Literals))

\* What the server decodes.
Clients ==
    [userAgent : STRING, timezone : STRING, timezoneOffset : Int, isAutomated : BOOLEAN,
     engineMatchesUA : BOOLEAN, timezoneMatchesOffset : BOOLEAN,
     pluginsMatchEngine : BOOLEAN, webglMatchesPlatform : BOOLEAN,
     hash : Digests(Literals), canvasHash : Digests(Pictures), audioHash : Maybe({"sum"}),
     mathHash : Digests({"math"} \X Engines), webglRenderer : Maybe(STRING),
     platform : STRING, screenSize : Int \X Int, others : Maybe({"present"})]

\* Nil is nothing that can be read.
ASSUME NilIsNoReading ==
    Nil \notin STRING \cup {"present"} \cup Int \cup (Int \X Int) \cup Clients
                 \cup Digests(Pictures) \cup Digests({"math"} \X Engines)
                 \cup Digests(Literals)

-----------------------------------------------------------------------------
(* What one call reads.                                                    *)

sha256(input) == <<"sha256", input>>

\* The words that the code looks for in the user agent.
UASays(word) ==
    word \in CASE device.product = "Chrome"  -> {"Chrome"}
             [] device.product = "Edge"    -> {"Chrome", "Edg"}
             [] device.product = "Firefox" -> {"Firefox"}
             [] OTHER                      -> {}

\* Firefox throws at the huge switch.
detectEngine ==
    IF device.bigSwitch THEN "chromium"
    ELSE IF device.installTrigger \/ UASays("Firefox") THEN "firefox"
    ELSE "unknown"

\* What was drawn depends on the graphics stack.
getCanvasData ==
    <<device.canvas, IF device.canvas = "drawn" THEN device.renderer ELSE Nil>>

getWebGL == device.renderer

\* Nil without the interface, and whenever rendering fails.
AudioHashes == IF device.audio THEN {"sum", Nil} ELSE {Nil}

\* The first rules are tests for one trace each.
detectAutomation ==
    {s \in {"webdriver", "webdriver_tampered", "selenium", "cdp_runtime",
            "phantomjs", "nightmare", "playwright", "headless_ua",
            "zero_dimensions"} : s \in device.markers}
    \cup {s \in {"missing_chrome_obj"} : UASays("Chrome") /\ ~device.chromeObject}
    \cup {s \in {"no_plugins"} : device.plugins = {}}
    \cup {s \in {"no_languages"} : device.languages = {}}
    \cup {s \in {"zero_rtt"} : /\ device.connection = "connection"
                               /\ env.link.rtt = 0 /\ env.link.downlink # 0}
    \cup {s \in {"notification_denied_default"} :
              env.denied /\ UASays("Chrome") /\ ~UASays("Firefox")}
    \cup {s \in {"devtools_open"} : env.gap > 160}

\* Text is measured on a canvas too.
detectFonts == IF device.canvas = "drawn" THEN {"Arial"} ELSE {}

getMathValues == <<"math", detectEngine>>

getPlugins == device.plugins

\* The prefixed interfaces are accepted here, not by detectAutomation.
getConnection == IF device.connection = "none" THEN Nil ELSE env.link

getStorage ==
    [localStorage |-> device.storage, sessionStorage |-> device.storage,
     indexedDB |-> TRUE]

ReadScreen ==
    LET wide == env.landscape /\ device.turns
    IN  [width |-> IF wide THEN 16 ELSE 9, height |-> IF wide THEN 9 ELSE 16,
         orientation |-> IF env.landscape THEN "landscape" ELSE "portrait"]

ReadBattery == IF env.pluggedFull THEN "desktop" ELSE "laptop"

-----------------------------------------------------------------------------
(* Consistency checks.                                                     *)

\* The hour that toLocale text gives for a zone, and the one of UTC.
LocalHour(offset, minute, midnight) ==
    LET hour == ((minute + offset) \div 60) % 24
    IN  IF hour = 0 THEN midnight ELSE hour

UTCHour(minute) == minute \div 60

\* Multiples of an hour, from the name of the zone.
ExpectedOffset(offset, minute, midnight) ==
    ((LocalHour(offset, minute, midnight) - UTCHour(minute) + 24) % 24) * 60

\* From Date.getTimezoneOffset, which counts minutes west of UTC.
ActualOffset(jsOffset) == (-jsOffset) % 1440

Apart(a, b) == IF a < b THEN b - a ELSE a - b

\* MUTANT of Close: the tolerance is half an hour.
CloseByHalfHour(expected, actual) ==
    Apart(expected, actual) <= 30 \/ Apart(expected, actual) >= 1410

\* MUTANT of Close: hours are compared with minutes.
CloseInHours(expected, actual) ==
    Apart(expected, actual) <= 60 \/ Apart(expected, actual) >= 23

Close(expected, actual) ==
    Apart(expected, actual) <= 60 \/ Apart(expected, actual) >= 23 * 60

\* MUTANT of ZoneMatches: the catch clause leaves it undefined.
ZoneMatchesUncaught(named, jsOffset, minute, midnight) ==
    IF named \in Zones
    THEN Close(ExpectedOffset(OffsetOf[named], minute, midnight), ActualOffset(jsOffset))
    ELSE Nil

\* Intl throws at a name it does not know.
ZoneMatches(named, jsOffset, minute, midnight) ==
    /\ named \in Zones
    /\ Close(ExpectedOffset(OffsetOf[named], minute, midnight), ActualOffset(jsOffset))

\* Edge names Chrome as well and is excluded.
EngineMatchesUA(engine) ==
    \/ engine = "chromium" /\ UASays("Chrome") /\ ~UASays("Edg")
    \/ engine = "firefox" /\ UASays("Firefox")
    \/ engine = "unknown"

WebGLMatchesPlatform(webgl) ==
    <<device.platform, webgl>> \notin
        {<<"mac", "direct3d">>, <<"win", "apple gpu">>, <<"linux", "direct3d">>}

timeZone == IF device.claims = Nil THEN env.zone ELSE device.claims

timezoneOffset == -OffsetOf[env.zone]

checkConsistency(engine, webgl, plugins, minute) ==
    [engineMatchesUA |-> EngineMatchesUA(engine),
     timezoneMatchesOffset |->
         ZoneMatches(timeZone, timezoneOffset, minute, device.midnight),
     pluginsMatchEngine |-> engine # "chromium" \/ plugins # {},
     webglMatchesPlatform |-> WebGLMatchesPlatform(webgl)]

-----------------------------------------------------------------------------
(* collectFingerprint, turn by turn.                                       *)

AtHome ==
    CHOOSE e \in Environments :
        /\ e.gap = 160 /\ e.link.rtt # 0
        /\ e.pluggedFull /\ e.landscape /\ ~e.denied

Init ==
    /\ device \in Devices
    /\ env \in {[AtHome EXCEPT !.zone = z] : z \in Zones}
    /\ pc = "idle"
    /\ fp = Unread
    /\ baseline = Nil /\ enrolledUnder = Nil /\ quiet = TRUE
    /\ changes = 0

Outside == <<device, env, baseline, enrolledUnder, changes>>

\* Engine, canvas and WebGL are read before the first await.
Start ==
    /\ pc = "idle"
    /\ fp' = [Unread EXCEPT !.engine = detectEngine,
                            !.canvasHash = sha256(getCanvasData),
                            !.webgl = getWebGL]
    /\ pc' = "audio"
    /\ quiet' = (quiet \/ baseline = Nil)
    /\ UNCHANGED Outside

\* The last read before the digests.  Without crypto.subtle the first of them
\* throws and the promise is rejected.
Digest(read) ==
    /\ fp' = [read EXCEPT !.screen = ReadScreen]
    /\ pc' = IF device.secure THEN "digests" ELSE "rejected"

ReadAfterAudio(sum) ==
    [fp EXCEPT !.audioHash = sum, !.signals = detectAutomation, !.fonts = detectFonts,
               !.mathHash = sha256(getMathValues), !.plugins = getPlugins,
               !.connection = getConnection, !.storage = getStorage]

AudioRendered ==
    /\ pc = "audio"
    /\ \E sum \in AudioHashes :
           IF device.battery = "none"
           THEN Digest([ReadAfterAudio(sum) EXCEPT !.battery = "unknown"])
           ELSE fp' = ReadAfterAudio(sum) /\ pc' = "battery"
    /\ UNCHANGED <<Outside, quiet>>

\* MUTANT of BatteryAnswered: the connection is read with the battery.
BatteryAnsweredLate ==
    /\ pc = "battery"
    /\ Digest([fp EXCEPT !.battery = IF device.battery = "given" THEN ReadBattery
                                     ELSE "unknown",
                         !.connection = getConnection])
    /\ UNCHANGED <<Outside, quiet>>

\* MUTANT of BatteryAnswered: a refusal is not caught.
BatteryGiven ==
    /\ pc = "battery" /\ device.battery = "given"
    /\ Digest([fp EXCEPT !.battery = ReadBattery])
    /\ UNCHANGED <<Outside, quiet>>

BatteryAnswered ==
    /\ pc = "battery"
    /\ Digest([fp EXCEPT !.battery = IF device.battery = "given" THEN ReadBattery
                                     ELSE "unknown"])
    /\ UNCHANGED <<Outside, quiet>>

\* Attributes that never change and that nobody asks for are left out.
Literal(minute) ==
    [fp EXCEPT !.userAgent = device.product, !.platform = device.platform,
               !.languages = device.languages, !.timezone = timeZone,
               !.timezoneOffset = timezoneOffset,
               !.consistency = checkConsistency(fp.engine, fp.webgl, fp.plugins, minute)]

\* The digests of canvas and math: nothing is read between them.
DigestsReady ==
    /\ pc = "digests"
    /\ \E minute \in Minutes : fp' = Literal(minute)
    /\ pc' = "hash"
    /\ UNCHANGED <<Outside, quiet>>

\* MUTANT of HashReady: the time of day gets into the fingerprint.
HashReadyStamped ==
    /\ pc = "hash"
    /\ \E minute \in Minutes : fp' = [fp EXCEPT !.hash = sha256(<<fp, minute>>)]
    /\ pc' = "done"
    /\ UNCHANGED <<Outside, quiet>>

HashReady ==
    /\ pc = "hash"
    /\ fp' = [fp EXCEPT !.hash = sha256(fp)]
    /\ pc' = "done"
    /\ UNCHANGED <<Outside, quiet>>

-----------------------------------------------------------------------------
(* The server's side.                                                      *)

\* MUTANT of Others: the connection is demanded too.
OthersConnected(c) ==
    IF c.webgl # Nil /\ c.languages # {} /\ c.connection # Nil THEN "present" ELSE Nil

\* The attributes that are demanded and never compared.
Others(c) == IF c.webgl # Nil /\ c.languages # {} THEN "present" ELSE Nil

\* What the JSON decodes to.
ClientOf(c) ==
    [userAgent |-> c.userAgent, timezone |-> c.timezone,
     timezoneOffset |-> c.timezoneOffset, isAutomated |-> c.signals # {},
     engineMatchesUA |-> c.consistency.engineMatchesUA,
     timezoneMatchesOffset |-> c.consistency.timezoneMatchesOffset,
     pluginsMatchEngine |-> c.consistency.pluginsMatchEngine,
     webglMatchesPlatform |-> c.consistency.webglMatchesPlatform,
     hash |-> c.hash, canvasHash |-> c.canvasHash, audioHash |-> c.audioHash,
     mathHash |-> c.mathHash, webglRenderer |-> c.webgl, platform |-> c.platform,
     screenSize |-> <<c.screen.width, c.screen.height>>,
     others |-> Others(c)]

\* MUTANT of Accepts: no theme demands a complete fingerprint.
AcceptsAll(theme, client) == TRUE

\* Completeness is demanded under one theme only.
Accepts(theme, client) == theme = "Emerald" => IsValid(client)

\* Only a registration adds a fingerprint, and a name registers once.
Enrol(theme) ==
    /\ baseline = Nil
    /\ Accepts(theme, ClientOf(fp))
    /\ baseline' = ClientOf(fp) /\ enrolledUnder' = theme

\* The form posts the fingerprint.  A login, and a registration that is refused
\* or fails, enrols nothing.
Deliver ==
    /\ pc = "done"
    /\ \/ \E theme \in {"Emerald", "Rubine"} : Enrol(theme)
       \/ UNCHANGED <<baseline, enrolledUnder>>
    /\ pc' = "idle" /\ fp' = Unread
    /\ UNCHANGED <<device, env, quiet, changes>>

\* The catch clause of the form.
Rejected ==
    /\ pc = "rejected"
    /\ pc' = "idle" /\ fp' = Unread
    /\ UNCHANGED <<Outside, quiet>>

-----------------------------------------------------------------------------
(* What goes on around the collector, at any of its awaits.                *)

Change(e) ==
    /\ changes < MaxChanges
    /\ changes' = changes + 1
    /\ env' = e
    /\ quiet' = FALSE
    /\ UNCHANGED <<device, pc, fp, baseline, enrolledUnder>>

Travel == \E z \in Zones \ {env.zone} : Change([env EXCEPT !.zone = z])

DockOrZoom == Change([env EXCEPT !.gap = 321 - @])

Rotate == Change([env EXCEPT !.landscape = ~@])

DenyNotifications == ~env.denied /\ Change([env EXCEPT !.denied = TRUE])

SwitchLink == \E l \in Links \ {env.link} : Change([env EXCEPT !.link = l])

PlugOrUnplug == Change([env EXCEPT !.pluggedFull = ~@])

-----------------------------------------------------------------------------
Collect ==
    \/ AudioRendered \/ BatteryAnswered \/ DigestsReady \/ HashReady
    \/ Deliver \/ Rejected

Next ==
    \/ Start \/ Collect
    \/ Travel \/ DockOrZoom \/ Rotate \/ DenyNotifications \/ SwitchLink \/ PlugOrUnplug

\* Audio rendering, getBattery and the digests settle; users need do nothing.
Fairness == WF_vars(Collect)

Spec == Init /\ [][Next]_vars /\ Fairness

-----------------------------------------------------------------------------
(* The type invariant: where the collector stands, what it may have read,  *)
(* and what the server may have enrolled, complete or not.                 *)
TypeOK ==
    /\ device \in Devices /\ env \in Environments
    /\ pc \in {"idle", "audio", "battery", "digests", "hash", "done", "rejected"}
    /\ fp \in Fingerprints /\ baseline \in Maybe(Clients)
    /\ enrolledUnder \in {Nil, "Emerald", "Rubine"}
    /\ quiet \in BOOLEAN
    /\ changes \in 0..MaxChanges

Consistency == fp.consistency

\* A device whose browser tells the truth about its clock, as far as Intl knows.
Honest == device.claims = Nil

(* A browser that names its own zone passes the time zone check at every   *)
(* minute of the day and in every zone, those of half and quarter hours    *)
(* included, also when its user travels while the collector waits.         *)
HonestZoneMatches ==
    pc \in {"hash", "done"} /\ Honest => Consistency.timezoneMatchesOffset

\* Minutes between two offsets around the day.
CircularDistance(a, b) ==
    LET d == Apart(a % 1440, b % 1440) IN IF d > 720 THEN 1440 - d ELSE d

(* A browser that names a zone two hours or more from its own offset never *)
(* passes the check, whatever the minute; nor does one whose zone Intl     *)
(* does not know.                                                          *)
SpoofedZoneIsFlagged ==
    pc \in {"hash", "done"} =>
        \/ fp.timezone \in Zones
           /\ CircularDistance(OffsetOf[fp.timezone], -fp.timezoneOffset) < 120
        \/ ~Consistency.timezoneMatchesOffset

(* The connection is looked at twice, by detectAutomation for the zero_rtt *)
(* signal and by getConnection for what is sent.  Both happen in the turn  *)
(* between two awaits, so the signal agrees with the connection beside it  *)
(* whenever the device changes its network.                                *)
SnapshotsAgree ==
    pc \in {"hash", "done"} /\ device.connection = "connection" =>
        ("zero_rtt" \in fp.signals
            <=> fp.connection.rtt = 0 /\ fp.connection.downlink # 0)

(* The server takes a collected fingerprint for complete unless WebGL,     *)
(* audio or the languages are missing: none of the other interfaces that a *)
(* browser may lack or block (battery, connection, storage, canvas,        *)
(* plugins) costs its user the login.                                      *)
OnlyThreeAreDemanded ==
    pc = "done" =>
        (IsValid(ClientOf(fp))
            <=> fp.webgl # Nil /\ fp.audioHash # Nil /\ fp.languages # {})

(* A device that nothing happened to gets the same hash at its next run:   *)
(* neither the time of day nor the waits leave a trace in it.  There are   *)
(* two exceptions: audio rendering may work in one run and fail in the     *)
(* other; and a browser may name another zone, less than two hours from    *)
(* its own: whether that passes the zone check may depend on the minute,   *)
(* and the outcome is part of what is hashed.                              *)
NamesNearbyZone ==
    /\ ~Honest /\ fp.timezone \in Zones
    /\ CircularDistance(OffsetOf[fp.timezone], -fp.timezoneOffset) < 120

QuietDeviceKeepsHash ==
    /\ pc = "done" /\ quiet /\ baseline # Nil
    /\ fp.audioHash = baseline.audioHash /\ ~NamesNearbyZone
    => fp.hash = baseline.hash

\* Not driven by a tool, and its browser hides nothing.
Genuine ==
    /\ Honest
    /\ device.markers = {}
    /\ WebGLMatchesPlatform(device.renderer)

Digit(n) == Numerals[(n % 10) + 1]

\* The digits ipdata writes an offset with.
OffsetText(offset) ==
    LET east == Apart(offset, 0)
        hours == east \div 60
        rest == east % 60
    IN  <<IF offset < 0 THEN "-" ELSE "+",
          Digit(hours \div 10), Digit(hours), Digit(rest \div 10), Digit(rest)>>

\* What the IP database says: nothing, or the zone the browser is in.
KnownInfo(zone) ==
    {[timezone |-> "", offset |-> Nil],
     [timezone |-> zone, offset |-> ipOffsetToMinutes(OffsetText(OffsetOf[zone]))]}

\* A premise: the connection shows the TLS prints that were enrolled.  (One
\* that resumes a session does not: TlsConnections, ResumptionShows.)
Presented(client) ==
    [ja3 |-> "ja3", ja4 |-> "ja4", peetPrint |-> "peet",
     userAgent |-> device.product, client |-> client]

\* Everything at once: a suspicious signal, Edge's user agent, no plugins, a
\* rotated screen, and audio that failed when the device was enrolled.
AllSpeaksAgainst(client) ==
    /\ client.isAutomated /\ ~client.engineMatchesUA /\ ~client.pluginsMatchEngine
    /\ client.screenSize # baseline.screenSize
    /\ baseline.audioHash = Nil /\ client.audioHash # Nil

(* The engine allows the owner who comes back with the enrolled device     *)
(* over a connection with the enrolled TLS prints, whatever changed about  *)
(* the device and whatever its browser is suspected of, but for one case.  *)
(* Devtools, denied notifications, a fast link, missing plugins, Edge's    *)
(* user agent, a rotated screen and the hash they all spoil leave at least *)
(* 52 points.  If all of them meet, and audio, which failed at the         *)
(* registration, works now, 51 points are lost and the owner is banned.    *)
(* That takes a registration under Rubine: Emerald demands audio, so that  *)
(* who registered under Emerald is always allowed.  (A login under Emerald *)
(* asks for a complete fingerprint besides, handler.go line 86.)           *)
GenuineReturnerAllowed ==
    pc = "done" /\ Genuine /\ baseline # Nil =>
        \A info \in KnownInfo(fp.timezone) :
            Evaluate(<<Presented(baseline)>>, Presented(ClientOf(fp)), info).verdict
                = IF enrolledUnder = "Rubine" /\ AllSpeaksAgainst(ClientOf(fp))
                  THEN "ban" ELSE "allow"

(* Every run of the collector ends: a blocked battery, a failed rendering  *)
(* or missing digests do not leave the form waiting.                       *)
CollectionEnds == pc # "idle" ~> pc = "idle"
=============================================================================
