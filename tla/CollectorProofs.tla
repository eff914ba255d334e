--------------------------- MODULE CollectorProofs ---------------------------
(***************************************************************************)
(* Theorems on the collector, for any devices, zones and minutes: first    *)
(* the arithmetic of the zone check, then what is read and what remains    *)
(* of it on the server, and last the owner and the hash.                   *)
(***************************************************************************)
EXTENDS Collector, OperatorProofs

(* Hours and minutes of a number of minutes.                               *)
LEMMA HoursAndMinutes ==
    ASSUME NEW n \in Int
    PROVE  /\ n \div 60 \in Int /\ (n % 60) \in 0..59
           /\ n = 60 * (n \div 60) + (n % 60)
OBVIOUS

(* The whole hours of a sum: a carry at most.                              *)
LEMMA Carry ==
    ASSUME NEW a \in Int, NEW b \in Int
    PROVE  \/ (a + b) \div 60 = (a \div 60) + (b \div 60)
           \/ /\ (a + b) \div 60 = (a \div 60) + (b \div 60) + 1
              /\ (b % 60) >= 1
OBVIOUS

(* Taking the hour of UTC from the local hour leaves that of the offset.   *)
LEMMA HourDifference ==
    ASSUME NEW h \in Int, NEW u \in 0..23
    PROVE  ((((u + h) % 24) - u + 24) % 24) = (h % 24)
OBVIOUS

LEMMA DayOfHours ==
    ASSUME NEW h \in Int, NEW m \in 0..59
    PROVE  ((60 * h + m) % 1440) = 60 * (h % 24) + m
OBVIOUS

-----------------------------------------------------------------------------
(* The two offsets that the check compares.                                *)

(* The hours that the name of a zone gives: those of its offset, or one    *)
(* more when the minutes carry.                                            *)
LEMMA NamedHours ==
    ASSUME NEW off \in Int, NEW minute \in Int, 0 <= minute, minute < 1440,
           NEW midnight \in {0, 24}
    PROVE  \/ ExpectedOffset(off, minute, midnight) = ((off \div 60) % 24) * 60
           \/ /\ ExpectedOffset(off, minute, midnight) = (((off \div 60) + 1) % 24) * 60
              /\ (off % 60) >= 1
<1> DEFINE u == minute \div 60
           h == off \div 60
           sum == (minute + off) \div 60
<1>1. u \in 0..23 /\ h \in Int /\ sum \in Int
  OBVIOUS
<1>2. \/ sum = u + h
      \/ sum = u + (h + 1) /\ (off % 60) >= 1
  BY Carry
<1>3. ASSUME NEW x \in Int, sum = u + x
      PROVE  ExpectedOffset(off, minute, midnight) = (x % 24) * 60
  <2> DEFINE hour == sum % 24
             written == IF hour = 0 THEN midnight ELSE hour
  <2>1. hour \in 0..23 /\ written \in 0..24 /\ ((written - u + 24) % 24) = ((hour - u + 24) % 24)
    <3>1. hour \in 0..23
      BY <1>1
    <3>2. ((24 - u + 24) % 24) = ((0 - u + 24) % 24)
      BY <1>1
    <3> QED BY <3>1, <3>2
  <2>2. ((hour - u + 24) % 24) = (x % 24)
    BY <1>1, <1>3, HourDifference
  <2>3. ExpectedOffset(off, minute, midnight) = ((written - u + 24) % 24) * 60
    BY DEF ExpectedOffset, LocalHour, UTCHour
  <2> QED BY <2>1, <2>2, <2>3
<1>4. h + 1 \in Int
  BY <1>1
<1>5. CASE sum = u + h
  BY <1>1, <1>3, <1>5
<1>6. CASE sum = u + (h + 1) /\ (off % 60) >= 1
  BY <1>3, <1>4, <1>6
<1> QED BY <1>2, <1>5, <1>6

(* What the clock gives: the same hours, and the minutes.                  *)
LEMMA ClockOffset ==
    ASSUME NEW off \in Int
    PROVE  ActualOffset(-off) = 60 * ((off \div 60) % 24) + (off % 60)
<1> DEFINE h == off \div 60
           m == off % 60
<1>1. h \in Int /\ m \in 0..59 /\ off = 60 * h + m
  BY HoursAndMinutes
<1>2. ((60 * h + m) % 1440) = 60 * (h % 24) + m
  BY <1>1, DayOfHours
<1>3. ActualOffset(-off) = off % 1440
  BY DEF ActualOffset
<1> QED BY <1>1, <1>2, <1>3

(* Distances from a time of day to the full hours before and after it.     *)
LEMMA HourBefore ==
    ASSUME NEW k \in Int, NEW m \in 0..59
    PROVE  Apart(k * 60, 60 * k + m) = m
BY DEF Apart

LEMMA HourAfter ==
    ASSUME NEW k \in Int, NEW m \in 1..59
    PROVE  Apart((k + 1) * 60, 60 * k + m) = 60 - m
BY DEF Apart

LEMMA Midnight ==
    ASSUME NEW m \in 1..59
    PROVE  Apart(0 * 60, 60 * 23 + m) = 1380 + m
BY DEF Apart

(* The two are less than an hour apart around the day: the comparison with *)
(* sixty minutes is never decided on its boundary, where the floating      *)
(* point division of the code could round either way.                      *)
LEMMA ZoneMargin ==
    ASSUME NEW off \in Int, NEW minute \in Int, 0 <= minute, minute < 1440,
           NEW midnight \in {0, 24}
    PROVE  \/ Apart(ExpectedOffset(off, minute, midnight), ActualOffset(-off)) < 60
           \/ Apart(ExpectedOffset(off, minute, midnight), ActualOffset(-off)) > 1380
<1> DEFINE h == off \div 60
           m == off % 60
           e == ExpectedOffset(off, minute, midnight)
<1>1. h \in Int /\ m \in 0..59
  BY HoursAndMinutes
<1>2. ActualOffset(-off) = 60 * (h % 24) + m
  BY ClockOffset
<1>3. (h % 24) \in 0..23
  BY <1>1
<1>4. CASE e = (h % 24) * 60
  <2>1. Apart(e, ActualOffset(-off)) = m
    BY <1>1, <1>2, <1>3, <1>4, HourBefore
  <2> QED BY <1>1, <2>1
<1>5. CASE e = ((h + 1) % 24) * 60 /\ m >= 1
  <2>1. m \in 1..59
    BY <1>1, <1>5
  <2>2. CASE ((h + 1) % 24) = (h % 24) + 1
    <3>1. Apart(e, ActualOffset(-off)) = 60 - m
      BY <1>2, <1>3, <1>5, <2>1, <2>2, HourAfter
    <3> QED BY <2>1, <3>1
  <2>3. CASE (h % 24) = 23 /\ ((h + 1) % 24) = 0
    <3>1. Apart(e, ActualOffset(-off)) = 1380 + m
      BY <1>2, <1>5, <2>1, <2>3, Midnight
    <3> QED BY <2>1, <3>1
  <2> QED BY <1>1, <2>2, <2>3
<1>6. e = (h % 24) * 60 \/ (e = ((h + 1) % 24) * 60 /\ m >= 1)
  BY NamedHours
<1> HIDE DEF h, m, e
<1> QED BY <1>4, <1>5, <1>6

-----------------------------------------------------------------------------
(* What passes the check.                                                  *)

LEMMA Midnights == \A d \in Devices : d.midnight \in {0, 24}
BY DevicesAssumption

LEMMA Offsets == \A z \in Zones : OffsetOf[z] \in Int
BY OffsetAssumption

(* A zone that is named truly passes.                                      *)
LEMMA TrueZonePasses ==
    ASSUME NEW z \in Zones, NEW minute \in Minutes, NEW d \in Devices
    PROVE  ZoneMatches(z, -OffsetOf[z], minute, d.midnight) = TRUE
<1>1. /\ OffsetOf[z] \in Int /\ d.midnight \in {0, 24}
      /\ minute \in Int /\ 0 <= minute /\ minute < 1440
  BY Offsets, MinutesAssumption, Midnights
<1> DEFINE apart == Apart(ExpectedOffset(OffsetOf[z], minute, d.midnight), ActualOffset(-OffsetOf[z]))
<1>2. apart < 60 \/ apart > 1380
  BY <1>1, ZoneMargin
<1>3. apart \in Int
  <2>1. ActualOffset(-OffsetOf[z]) \in Int
    BY <1>1 DEF ActualOffset
  <2>2. ExpectedOffset(OffsetOf[z], minute, d.midnight) \in Int
    BY <1>1 DEF ExpectedOffset, LocalHour, UTCHour
  <2> QED BY <2>1, <2>2 DEF Apart
<1>4. Close(ExpectedOffset(OffsetOf[z], minute, d.midnight), ActualOffset(-OffsetOf[z])) = TRUE
  BY <1>2, <1>3 DEF Close
<1> QED BY <1>4 DEF ZoneMatches

(* Three times of day of which one is within an hour of both others.       *)
LEMMA WithinTwoHours ==
    ASSUME NEW a \in Int, NEW b \in Int, NEW e \in Int,
           0 <= a, a < 1440, 0 <= b, b < 1440,
           Apart(e, a) < 60 \/ Apart(e, a) > 1380,
           Apart(e, b) <= 60 \/ Apart(e, b) >= 1380,
           0 <= e, e <= 1380
    PROVE  LET d == Apart(a, b) IN (IF d > 720 THEN 1440 - d ELSE d) < 120
BY DEF Apart

(* A zone that passes is less than two hours from the clock.               *)
LEMMA PassingZoneIsNear ==
    ASSUME NEW named \in Zones, NEW z \in Zones, NEW minute \in Minutes,
           NEW d \in Devices, ZoneMatches(named, -OffsetOf[z], minute, d.midnight)
    PROVE  CircularDistance(OffsetOf[named], OffsetOf[z]) < 120
<1> DEFINE a == OffsetOf[named]
           b == OffsetOf[z]
           e == ExpectedOffset(a, minute, d.midnight)
<1>1. /\ a \in Int /\ b \in Int /\ d.midnight \in {0, 24}
      /\ minute \in Int /\ 0 <= minute /\ minute < 1440
  BY Offsets, MinutesAssumption, Midnights
<1> HIDE DEF a, b
<1>2. e \in Int /\ 0 <= e /\ e <= 1380
  <2>1. LocalHour(a, minute, d.midnight) - UTCHour(minute) + 24 \in Int
    BY <1>1 DEF LocalHour, UTCHour
  <2> QED BY <2>1 DEF ExpectedOffset
<1>3. /\ ActualOffset(-a) = a % 1440 /\ ActualOffset(-b) = b % 1440
      /\ (a % 1440) \in Int /\ 0 <= (a % 1440) /\ (a % 1440) < 1440
      /\ (b % 1440) \in Int /\ 0 <= (b % 1440) /\ (b % 1440) < 1440
  BY <1>1 DEF ActualOffset
<1>4. Apart(e, a % 1440) < 60 \/ Apart(e, a % 1440) > 1380
  BY <1>1, <1>3, ZoneMargin
<1>5. Apart(e, b % 1440) <= 60 \/ Apart(e, b % 1440) >= 1380
  <2>1. Close(e, ActualOffset(-b))
    BY DEF ZoneMatches, a, b
  <2> QED BY <1>3, <2>1 DEF Close
<1> HIDE DEF e
<1>6. LET d0 == Apart(a % 1440, b % 1440) IN (IF d0 > 720 THEN 1440 - d0 ELSE d0) < 120
  BY <1>2, <1>3, <1>4, <1>5, WithinTwoHours
<1> QED BY <1>6 DEF CircularDistance, a, b

-----------------------------------------------------------------------------
(* Types.  There is no hash before the last turn, so that the last digest  *)
(* is one of a literal.                                                    *)
TInv ==
    /\ device \in Devices /\ env \in Environments
    /\ pc \in {"idle", "audio", "battery", "digests", "hash", "done", "rejected"}
    /\ fp \in Fingerprints /\ (pc # "done" => fp.hash = Nil)
    /\ enrolledUnder \in {Nil, "Emerald", "Rubine"}
    /\ quiet \in BOOLEAN /\ changes \in 0 .. MaxChanges

(* What the functions of the collector return.                             *)
LEMMA DeviceTypes ==
    ASSUME device \in Devices
    PROVE  /\ device.product \in STRING /\ device.platform \in STRING
           /\ device.canvas \in {"drawn", "unsupported", "error"}
           /\ device.renderer \in Maybe(STRING) /\ device.claims \in Maybe(STRING)
           /\ device.plugins \in SUBSET STRING /\ device.languages \in SUBSET STRING
           /\ device.storage \in BOOLEAN
BY DevicesAssumption

LEMMA EarlyTypes ==
    ASSUME device \in Devices
    PROVE  /\ detectEngine \in Maybe(Engines) \cap Engines /\ getWebGL \in Maybe(STRING)
           /\ sha256(getCanvasData) \in Maybe(Digests(Pictures))
<1>1. getCanvasData \in Pictures
  BY DeviceTypes DEF getCanvasData, Pictures, Maybe
<1> QED BY <1>1, DeviceTypes DEF detectEngine, Engines, getWebGL, sha256, Digests, Maybe

LEMMA LaterTypes ==
    ASSUME device \in Devices, env \in Environments, NEW sum \in AudioHashes
    PROVE  /\ sum \in Maybe({"sum"}) /\ detectAutomation \in Maybe(SUBSET Signals)
           /\ detectFonts \in Maybe(SUBSET {"Arial"})
           /\ sha256(getMathValues) \in Maybe(Digests({"math"} \X Engines))
           /\ getPlugins \in Maybe(SUBSET STRING) /\ getConnection \in Maybe(Links)
           /\ getStorage \in Maybe([localStorage : BOOLEAN, sessionStorage : BOOLEAN,
                                     indexedDB : BOOLEAN])
<1>1. detectAutomation \in SUBSET Signals
  BY DEF detectAutomation, Signals
<1>2. sum \in Maybe({"sum"})
  BY DEF AudioHashes, Maybe
<1>3. getMathValues \in {"math"} \X Engines
  BY EarlyTypes DEF getMathValues
<1>4. getConnection \in Maybe(Links)
  BY DEF getConnection, Environments, Maybe
<1> QED BY <1>1, <1>2, <1>3, <1>4, DeviceTypes
        DEF detectFonts, getPlugins, getStorage, sha256, Digests, Maybe

LEMMA LiteralTypes ==
    ASSUME device \in Devices, env \in Environments, NEW engine, NEW webgl, NEW plugins,
           NEW minute
    PROVE  /\ device.product \in Maybe(STRING) /\ device.platform \in Maybe(STRING)
           /\ device.languages \in Maybe(SUBSET STRING)
           /\ timeZone \in Maybe(STRING) /\ timezoneOffset \in Maybe(Int)
           /\ checkConsistency(engine, webgl, plugins, minute)
                 \in Maybe([engineMatchesUA : BOOLEAN, timezoneMatchesOffset : BOOLEAN,
                            pluginsMatchEngine : BOOLEAN, webglMatchesPlatform : BOOLEAN])
<1>1. env.zone \in Zones
  BY DEF Environments
<1>2. timeZone \in STRING
  BY <1>1, DeviceTypes, ZonesAssumption DEF timeZone, Maybe
<1>3. timezoneOffset \in Maybe(Int)
  BY <1>1, Offsets DEF timezoneOffset, Maybe
<1>4. /\ EngineMatchesUA(engine) \in BOOLEAN /\ WebGLMatchesPlatform(webgl) \in BOOLEAN
      /\ ZoneMatches(timeZone, timezoneOffset, minute, device.midnight) \in BOOLEAN
  BY DEF EngineMatchesUA, WebGLMatchesPlatform, ZoneMatches
<1> QED BY <1>2, <1>3, <1>4, DeviceTypes DEF checkConsistency, Maybe

LEMMA InitTInv == Init => TInv
<1> SUFFICES ASSUME Init PROVE TInv
  OBVIOUS
<1>1. Unread \in Fingerprints /\ Unread.hash = Nil
  BY DEF Unread, Fingerprints, Readings, Maybe
<1>2. PICK z \in Zones : env = [AtHome EXCEPT !.zone = z]
  BY DEF Init
<1>3. AtHome \in Environments
  <2> DEFINE home == [zone |-> z, gap |-> 160, link |-> [rtt |-> 50, downlink |-> 10],
                      pluggedFull |-> TRUE, landscape |-> TRUE, denied |-> FALSE]
  <2>1. home \in Environments
    BY DEF Environments, Links
  <2>2. /\ home.gap = 160 /\ home.link.rtt # 0
        /\ home.pluggedFull /\ home.landscape /\ ~home.denied
    OBVIOUS
  <2> QED BY <2>1, <2>2 DEF AtHome
<1>4. env \in Environments
  BY <1>2, <1>3 DEF Environments
<1> QED BY <1>1, <1>4, MaxChangesAssumption DEF Init, TInv

LEMMA DigestTypes ==
    ASSUME NEW read \in Fingerprints, read.hash = Nil, Digest(read)
    PROVE  /\ fp' \in Fingerprints /\ fp'.hash = Nil
           /\ pc' \in {"digests", "rejected"}
<1>1. ReadScreen \in [width : {9, 16}, height : {9, 16},
                      orientation : {"landscape", "portrait"}]
  BY DEF ReadScreen
<1>2. fp' = [read EXCEPT !.screen = ReadScreen] /\ pc' \in {"digests", "rejected"}
  BY DEF Digest
<1> QED BY <1>1, <1>2 DEF Fingerprints, Readings, Maybe

LEMMA NextTInv == TInv /\ [Next]_vars => TInv'
<1> SUFFICES ASSUME TInv, [Next]_vars PROVE TInv'
  OBVIOUS
<1>0. /\ device \in Devices /\ env \in Environments /\ fp \in Fingerprints
      /\ quiet \in BOOLEAN /\ changes \in 0 .. MaxChanges
      /\ enrolledUnder \in {Nil, "Emerald", "Rubine"}
      /\ pc # "done" => fp.hash = Nil
  BY DEF TInv
<1>1. ASSUME UNCHANGED Outside, quiet' \in BOOLEAN, fp' \in Fingerprints,
             pc' \in {"idle", "audio", "battery", "digests", "hash", "done", "rejected"},
             pc' # "done" => fp'.hash = Nil
      PROVE  TInv'
  BY <1>0, <1>1 DEF Outside, TInv
<1>2. Unread \in Fingerprints /\ Unread.hash = Nil
  BY DEF Unread, Fingerprints, Readings, Maybe
<1>3. CASE Start
  <2>1. fp' \in Fingerprints /\ fp'.hash = Nil
    BY <1>0, <1>2, <1>3, EarlyTypes DEF Start, Fingerprints, Readings
  <2> QED BY <1>0, <1>1, <1>3, <2>1 DEF Start
<1>4. CASE AudioRendered
  <2>1. PICK sum \in AudioHashes :
            IF device.battery = "none"
            THEN Digest([ReadAfterAudio(sum) EXCEPT !.battery = "unknown"])
            ELSE fp' = ReadAfterAudio(sum) /\ pc' = "battery"
    BY <1>4 DEF AudioRendered
  <2>2. ReadAfterAudio(sum) \in Fingerprints /\ ReadAfterAudio(sum).hash = Nil
    BY <1>0, <1>4, LaterTypes DEF AudioRendered, ReadAfterAudio, Fingerprints, Readings
  <2> DEFINE read == [ReadAfterAudio(sum) EXCEPT !.battery = "unknown"]
  <2>3. read \in Fingerprints /\ read.hash = Nil
    BY <2>2 DEF Fingerprints, Readings, Maybe
  <2> HIDE DEF read
  <2>4. CASE device.battery = "none"
    <3>1. Digest(read)
      BY <2>1, <2>4 DEF read
    <3>2. fp' \in Fingerprints /\ fp'.hash = Nil /\ pc' \in {"digests", "rejected"}
      BY <2>3, <3>1, DigestTypes
    <3> QED BY <1>0, <1>1, <1>4, <3>2 DEF AudioRendered
  <2>5. CASE device.battery # "none"
    BY <1>0, <1>1, <1>4, <2>1, <2>2, <2>5 DEF AudioRendered
  <2> QED BY <2>4, <2>5
<1>5. CASE BatteryAnswered
  <2> DEFINE read == [fp EXCEPT !.battery = IF device.battery = "given" THEN ReadBattery
                                            ELSE "unknown"]
  <2>1. read \in Fingerprints /\ read.hash = Nil
    BY <1>0, <1>5 DEF BatteryAnswered, ReadBattery, Fingerprints, Readings, Maybe
  <2>2. Digest(read)
    BY <1>5 DEF BatteryAnswered
  <2> HIDE DEF read
  <2>3. fp' \in Fingerprints /\ fp'.hash = Nil /\ pc' \in {"digests", "rejected"}
    BY <2>1, <2>2, DigestTypes
  <2> QED BY <1>0, <1>1, <1>5, <2>3 DEF BatteryAnswered
<1>6. CASE DigestsReady
  <2>1. PICK minute \in Minutes : fp' = Literal(minute)
    BY <1>6 DEF DigestsReady
  <2>2. fp' \in Fingerprints /\ fp'.hash = Nil
    BY <1>0, <1>6, <2>1, LiteralTypes DEF DigestsReady, Literal, Fingerprints, Readings
  <2> QED BY <1>0, <1>1, <1>6, <2>2 DEF DigestsReady
<1>7. CASE HashReady
  <2>1. fp \in Literals
    BY <1>0, <1>7 DEF HashReady, Fingerprints, Literals, Readings, Maybe
  <2>2. sha256(fp) \in Digests(Literals)
    BY <2>1 DEF sha256, Digests
  <2>3. fp' \in Fingerprints
    BY <1>0, <1>7, <2>2 DEF HashReady, Fingerprints, Readings, Maybe
  <2> QED BY <1>0, <1>1, <1>7, <2>3 DEF HashReady
<1>8. CASE Deliver
  <2>1. enrolledUnder' \in {Nil, "Emerald", "Rubine"}
    BY <1>0, <1>8 DEF Deliver, Enrol
  <2> QED BY <1>0, <1>2, <1>8, <2>1 DEF Deliver, TInv
<1>9. CASE Rejected
  BY <1>0, <1>1, <1>2, <1>9 DEF Rejected
<1>10. ASSUME NEW e \in Environments, Change(e) PROVE TInv'
  <2>1. changes' \in 0 .. MaxChanges
    BY <1>0, <1>10, MaxChangesAssumption DEF Change
  <2> QED BY <1>10, <2>1 DEF Change, TInv
<1>11. CASE Travel \/ SwitchLink
  <2>1. PICK e \in Environments : Change(e)
    BY <1>0, <1>11 DEF Travel, SwitchLink, Environments
  <2> QED BY <1>10, <2>1
<1>12. CASE DockOrZoom
  <2>1. env.gap \in {160, 161}
    BY <1>0 DEF Environments
  <2>2. 321 - env.gap \in {160, 161}
    BY <2>1
  <2>3. [env EXCEPT !.gap = 321 - @] \in Environments
    BY <1>0, <2>2 DEF Environments
  <2> QED BY <1>10, <1>12, <2>3 DEF DockOrZoom
<1>13. CASE Rotate
  <2>1. [env EXCEPT !.landscape = ~@] \in Environments
    BY <1>0 DEF Environments
  <2> QED BY <1>10, <1>13, <2>1 DEF Rotate
<1>14. CASE DenyNotifications
  <2>1. [env EXCEPT !.denied = TRUE] \in Environments
    BY <1>0 DEF Environments
  <2> QED BY <1>10, <1>14, <2>1 DEF DenyNotifications
<1>15. CASE PlugOrUnplug
  <2>1. [env EXCEPT !.pluggedFull = ~@] \in Environments
    BY <1>0 DEF Environments
  <2> QED BY <1>10, <1>15, <2>1 DEF PlugOrUnplug
<1>16. CASE UNCHANGED vars
  BY <1>16 DEF vars, TInv
<1> QED
  BY <1>3, <1>4, <1>5, <1>6, <1>7, <1>8, <1>9, <1>11, <1>12, <1>13, <1>14, <1>15, <1>16
  DEF Next, Collect

-----------------------------------------------------------------------------
(* The inductive invariant.                                                *)

(* The literal was made from the zone the clock stood in at that turn.     *)
ReadInOneTurn ==
    pc \in {"hash", "done"} =>
        \E z \in Zones, minute \in Minutes :
            /\ fp.timezone = (IF device.claims = Nil THEN z ELSE device.claims)
            /\ fp.timezoneOffset = -OffsetOf[z]
            /\ fp.consistency.timezoneMatchesOffset
                   = ZoneMatches(fp.timezone, -OffsetOf[z], minute, device.midnight)

SignalsAgree(read) ==
    device.connection = "connection" =>
        ("zero_rtt" \in read.signals
            <=> read.connection.rtt = 0 /\ read.connection.downlink # 0)

IInv ==
    /\ device \in Devices /\ env.zone \in Zones
    /\ DOMAIN env = {"zone", "gap", "link", "pluggedFull", "landscape", "denied"}
    /\ DOMAIN fp = DOMAIN Unread
    /\ pc \in {"battery", "digests", "hash", "done"} => SignalsAgree(fp)
    /\ ReadInOneTurn

LEMMA InitIInv == Init => IInv
<1> SUFFICES ASSUME Init PROVE IInv
  OBVIOUS
<1>1. PICK z \in Zones : env = [AtHome EXCEPT !.zone = z]
  BY DEF Init
<1>2. AtHome \in Environments
  <2> DEFINE home == [zone |-> z, gap |-> 160, link |-> [rtt |-> 50, downlink |-> 10],
                      pluggedFull |-> TRUE, landscape |-> TRUE, denied |-> FALSE]
  <2>1. home \in Environments
    BY DEF Environments, Links
  <2>2. /\ home.gap = 160 /\ home.link.rtt # 0
        /\ home.pluggedFull /\ home.landscape /\ ~home.denied
    OBVIOUS
  <2> QED BY <2>1, <2>2 DEF AtHome
<1>3. env.zone \in Zones /\ DOMAIN env = {"zone", "gap", "link", "pluggedFull", "landscape", "denied"}
  BY <1>1, <1>2 DEF Environments
<1>4. pc = "idle" /\ fp = Unread /\ device \in Devices
  BY DEF Init
<1> QED BY <1>3, <1>4 DEF IInv, ReadInOneTurn

(* The screen is read last.                                                *)
LEMMA DigestAgrees ==
    ASSUME NEW read, DOMAIN read = DOMAIN Unread, SignalsAgree(read), Digest(read)
    PROVE  /\ DOMAIN fp' = DOMAIN Unread /\ SignalsAgree(fp')
           /\ pc' \in {"digests", "rejected"}
<1>1. fp' = [read EXCEPT !.screen = ReadScreen] /\ pc' \in {"digests", "rejected"}
  BY DEF Digest
<1>2. /\ DOMAIN fp' = DOMAIN Unread
      /\ fp'.signals = read.signals /\ fp'.connection = read.connection
  BY <1>1 DEF Unread
<1> QED BY <1>1, <1>2 DEF SignalsAgree

(* Everything after the audio is read in one turn.                         *)
LEMMA AudioAgrees ==
    ASSUME NEW sum, DOMAIN fp = DOMAIN Unread
    PROVE  DOMAIN ReadAfterAudio(sum) = DOMAIN Unread /\ SignalsAgree(ReadAfterAudio(sum))
<1> DEFINE read == ReadAfterAudio(sum)
<1>1. /\ DOMAIN read = DOMAIN Unread
      /\ read.signals = detectAutomation /\ read.connection = getConnection
  BY DEF ReadAfterAudio, Unread
<1>2. "zero_rtt" \in detectAutomation
          <=> /\ device.connection = "connection"
              /\ env.link.rtt = 0 /\ env.link.downlink # 0
  BY DEF detectAutomation
<1> HIDE DEF read
<1> QED BY <1>1, <1>2 DEF SignalsAgree, getConnection, read

LEMMA NextIInv == IInv /\ [Next]_vars => IInv'
<1> SUFFICES ASSUME IInv, [Next]_vars PROVE IInv'
  OBVIOUS
<1> USE DEF IInv, ReadInOneTurn, Outside
<1>1. CASE Start
  <2>1. DOMAIN fp' = DOMAIN Unread
    BY <1>1 DEF Start, Unread
  <2> QED BY <1>1, <2>1 DEF Start
<1>2. CASE AudioRendered
  <2>1. PICK sum \in AudioHashes :
            IF device.battery = "none"
            THEN Digest([ReadAfterAudio(sum) EXCEPT !.battery = "unknown"])
            ELSE fp' = ReadAfterAudio(sum) /\ pc' = "battery"
    BY <1>2 DEF AudioRendered
  <2> DEFINE read == ReadAfterAudio(sum)
  <2>2. DOMAIN read = DOMAIN Unread /\ SignalsAgree(read)
    BY AudioAgrees
  <2>3. UNCHANGED <<device, env>>
    BY <1>2 DEF AudioRendered
  <2> HIDE DEF read
  <2>4. CASE device.battery = "none"
    <3> DEFINE full == [read EXCEPT !.battery = "unknown"]
    <3>1. DOMAIN full = DOMAIN Unread /\ SignalsAgree(full)
      BY <2>2 DEF SignalsAgree, Unread
    <3>2. Digest(full)
      BY <2>1, <2>4 DEF read
    <3> HIDE DEF full
    <3>3. /\ DOMAIN fp' = DOMAIN Unread /\ SignalsAgree(fp')
          /\ pc' \in {"digests", "rejected"}
      BY <3>1, <3>2, DigestAgrees
    <3> QED BY <2>3, <3>3 DEF SignalsAgree
  <2>5. CASE device.battery # "none"
    <3>1. fp' = read /\ pc' = "battery"
      BY <2>1, <2>5 DEF read
    <3> QED BY <2>2, <2>3, <3>1 DEF SignalsAgree
  <2> QED BY <2>4, <2>5
<1>3. CASE BatteryAnswered
  <2> DEFINE full == [fp EXCEPT !.battery = IF device.battery = "given" THEN ReadBattery
                                            ELSE "unknown"]
  <2>1. Digest(full) /\ pc = "battery" /\ UNCHANGED <<device, env>>
    BY <1>3 DEF BatteryAnswered
  <2>2. DOMAIN full = DOMAIN Unread /\ SignalsAgree(full)
    BY <2>1 DEF SignalsAgree, Unread
  <2> HIDE DEF full
  <2>3. /\ DOMAIN fp' = DOMAIN Unread /\ SignalsAgree(fp')
        /\ pc' \in {"digests", "rejected"}
    BY <2>1, <2>2, DigestAgrees
  <2> QED BY <2>1, <2>3 DEF SignalsAgree
<1>4. CASE DigestsReady
  <2>1. PICK minute \in Minutes : fp' = Literal(minute)
    BY <1>4 DEF DigestsReady
  <2>2. pc = "digests" /\ pc' = "hash" /\ UNCHANGED <<device, env>>
    BY <1>4 DEF DigestsReady
  <2>3. /\ DOMAIN fp' = DOMAIN Unread
        /\ fp'.signals = fp.signals /\ fp'.plugins = fp.plugins
        /\ fp'.connection = fp.connection /\ fp'.screen = fp.screen
        /\ fp'.timezone = timeZone /\ fp'.timezoneOffset = timezoneOffset
        /\ fp'.consistency = checkConsistency(fp.engine, fp.webgl, fp.plugins, minute)
    BY <2>1 DEF Literal, Unread
  <2>4. fp'.consistency.timezoneMatchesOffset
            = ZoneMatches(timeZone, timezoneOffset, minute, device.midnight)
    BY <2>3 DEF checkConsistency
  <2>5. ReadInOneTurn'
    BY <2>2, <2>3, <2>4 DEF timeZone, timezoneOffset
  <2>6. SignalsAgree(fp)'
    BY <2>2, <2>3 DEF SignalsAgree
  <2> QED BY <2>2, <2>3, <2>5, <2>6
<1>5. CASE HashReady
  <2>1. /\ pc = "hash" /\ pc' = "done" /\ UNCHANGED <<device, env>>
        /\ DOMAIN fp' = DOMAIN Unread
        /\ fp'.signals = fp.signals /\ fp'.plugins = fp.plugins
        /\ fp'.connection = fp.connection /\ fp'.screen = fp.screen
        /\ fp'.timezone = fp.timezone /\ fp'.timezoneOffset = fp.timezoneOffset
        /\ fp'.consistency = fp.consistency
    BY <1>5 DEF HashReady, Unread
  <2>2. SignalsAgree(fp)'
    BY <2>1 DEF SignalsAgree
  <2>3. ReadInOneTurn'
    BY <2>1
  <2> QED BY <2>1, <2>2, <2>3
<1>6. CASE Deliver \/ Rejected
  BY <1>6 DEF Deliver, Rejected
<1>7. ASSUME NEW e, Change(e), e.zone \in Zones, DOMAIN e = DOMAIN env
      PROVE  IInv'
  BY <1>7 DEF Change, SignalsAgree
<1>8. CASE Travel
  <2>1. PICK z \in Zones : Change([env EXCEPT !.zone = z])
    BY <1>8 DEF Travel
  <2> QED BY <1>7, <2>1
<1>9. CASE DockOrZoom
  BY <1>7, <1>9 DEF DockOrZoom
<1>10. CASE Rotate
  BY <1>7, <1>10 DEF Rotate
<1>11. CASE DenyNotifications
  BY <1>7, <1>11 DEF DenyNotifications
<1>12. CASE SwitchLink
  <2>1. PICK l \in Links : Change([env EXCEPT !.link = l])
    BY <1>12 DEF SwitchLink
  <2> QED BY <1>7, <2>1
<1>13. CASE PlugOrUnplug
  BY <1>7, <1>13 DEF PlugOrUnplug
<1>14. CASE UNCHANGED vars
  BY <1>14 DEF vars, SignalsAgree
<1> QED
  BY <1>1, <1>2, <1>3, <1>4, <1>5, <1>6, <1>8, <1>9, <1>10, <1>11, <1>12, <1>13, <1>14
  DEF Next, Collect

LEMMA Invariant == Spec => []IInv
BY InitIInv, NextIInv, PTL DEF Spec

-----------------------------------------------------------------------------
(* A browser that names its own zone passes the time zone check, in every  *)
(* zone, at every minute, wherever its user travels while the collector of *)
(* fingerprint.ts waits.                                                   *)
THEOREM HonestZones == Spec => []HonestZoneMatches
<1>1. IInv => HonestZoneMatches
  <2> SUFFICES ASSUME IInv, pc \in {"hash", "done"}, Honest
               PROVE  Consistency.timezoneMatchesOffset
    BY DEF HonestZoneMatches
  <2>1. PICK z \in Zones, minute \in Minutes :
            /\ fp.timezone = z
            /\ fp.consistency.timezoneMatchesOffset
                   = ZoneMatches(fp.timezone, -OffsetOf[z], minute, device.midnight)
    BY DEF IInv, ReadInOneTurn, Honest
  <2>2. ZoneMatches(z, -OffsetOf[z], minute, device.midnight) = TRUE
    BY TrueZonePasses DEF IInv
  <2> QED BY <2>1, <2>2 DEF Consistency
<1> QED BY <1>1, Invariant, PTL

(* A browser that passes the time zone check names a zone less than two    *)
(* hours from its own clock: checkConsistency misses no greater difference *)
(* at any minute.                                                          *)
THEOREM SpoofedZones == Spec => []SpoofedZoneIsFlagged
<1>1. IInv => SpoofedZoneIsFlagged
  <2> SUFFICES ASSUME IInv, pc \in {"hash", "done"}, Consistency.timezoneMatchesOffset
               PROVE  /\ fp.timezone \in Zones
                      /\ CircularDistance(OffsetOf[fp.timezone], -fp.timezoneOffset) < 120
    BY DEF SpoofedZoneIsFlagged
  <2>1. PICK z \in Zones, minute \in Minutes :
            /\ fp.timezoneOffset = -OffsetOf[z]
            /\ fp.consistency.timezoneMatchesOffset
                   = ZoneMatches(fp.timezone, -OffsetOf[z], minute, device.midnight)
    BY DEF IInv, ReadInOneTurn
  <2>2. ZoneMatches(fp.timezone, -OffsetOf[z], minute, device.midnight)
    BY <2>1 DEF Consistency
  <2>3. fp.timezone \in Zones
    BY <2>2 DEF ZoneMatches
  <2>4. CircularDistance(OffsetOf[fp.timezone], OffsetOf[z]) < 120
    BY <2>2, <2>3, PassingZoneIsNear DEF IInv
  <2>5. -fp.timezoneOffset = OffsetOf[z]
    BY <2>1, Offsets
  <2> QED BY <2>3, <2>4, <2>5
<1> QED BY <1>1, Invariant, PTL

(* detectAutomation and getConnection look at the connection in one turn   *)
(* of collectFingerprint: the signal agrees with what is sent beside it,   *)
(* however often the network changes.                                      *)
THEOREM Snapshots == Spec => []SnapshotsAgree
<1>1. IInv => SnapshotsAgree
  BY DEF IInv, SnapshotsAgree, SignalsAgree
<1> QED BY <1>1, Invariant, PTL

-----------------------------------------------------------------------------
(* What the device fixes, whatever changes around it while the collector   *)
(* waits, and what of it the baseline keeps.                               *)
FixedInv ==
    /\ pc \in {"audio", "battery", "digests", "hash", "done"} =>
          /\ fp.engine = detectEngine
          /\ fp.canvasHash = sha256(getCanvasData)
          /\ fp.webgl = device.renderer
    /\ pc \in {"battery", "digests", "hash", "done"} =>
          /\ fp.audioHash \in AudioHashes
          /\ fp.mathHash = sha256(getMathValues)
    /\ pc \in {"digests", "hash", "done"} =>
          fp.screen.width \in Int /\ fp.screen.height \in Int
    /\ pc \in {"hash", "done"} =>
          /\ fp.userAgent = device.product /\ fp.platform = device.platform
          /\ fp.languages = device.languages
          /\ fp.consistency.engineMatchesUA \in BOOLEAN
          /\ fp.consistency.pluginsMatchEngine \in BOOLEAN
          /\ fp.consistency.webglMatchesPlatform = WebGLMatchesPlatform(device.renderer)
    /\ pc = "done" => fp.hash \in Digests(Literals) /\ fp.hash[2].audioHash = fp.audioHash
    /\ baseline # Nil =>
          /\ baseline.canvasHash = sha256(getCanvasData)
          /\ baseline.audioHash \in AudioHashes
          /\ baseline.mathHash = sha256(getMathValues)
          /\ baseline.webglRenderer = device.renderer
          /\ baseline.platform = device.platform
          /\ baseline.hash[2].audioHash = baseline.audioHash
          /\ enrolledUnder \in {"Emerald", "Rubine"}
          /\ enrolledUnder = "Emerald" => baseline.audioHash # Nil

LEMMA InitFixed == Init => FixedInv
BY DEF Init, FixedInv

(* The device is the same at every turn.                                   *)
LEMMA SameDevice ==
    ASSUME UNCHANGED device
    PROVE  /\ detectEngine' = detectEngine /\ getCanvasData' = getCanvasData
           /\ getMathValues' = getMathValues /\ AudioHashes' = AudioHashes
BY DEF detectEngine, UASays, getCanvasData, getMathValues, AudioHashes

(* The last read of the run overwrites the screen alone.                   *)
LEMMA DigestReads ==
    ASSUME NEW read, DOMAIN read = DOMAIN Unread, Digest(read)
    PROVE  /\ pc' \in {"digests", "rejected"}
           /\ fp'.screen.width \in Int /\ fp'.screen.height \in Int
           /\ fp'.engine = read.engine /\ fp'.canvasHash = read.canvasHash
           /\ fp'.webgl = read.webgl /\ fp'.audioHash = read.audioHash
           /\ fp'.mathHash = read.mathHash
<1>1. fp' = [read EXCEPT !.screen = ReadScreen] /\ pc' \in {"digests", "rejected"}
  BY DEF Digest
<1>2. ReadScreen.width \in Int /\ ReadScreen.height \in Int
  BY DEF ReadScreen
<1> QED BY <1>1, <1>2 DEF Unread

LEMMA NextFixed == TInv /\ IInv /\ FixedInv /\ [Next]_vars => FixedInv'
<1> SUFFICES ASSUME TInv, IInv, FixedInv, [Next]_vars PROVE FixedInv'
  OBVIOUS
<1>0. /\ DOMAIN fp = DOMAIN Unread /\ fp \in Fingerprints
      /\ pc # "done" => fp.hash = Nil
  BY DEF TInv, IInv
<1>1. CASE Start
  <2>1. /\ UNCHANGED <<device, baseline, enrolledUnder>> /\ pc' = "audio"
        /\ fp'.engine = detectEngine /\ fp'.canvasHash = sha256(getCanvasData)
        /\ fp'.webgl = device.renderer
    BY <1>1 DEF Start, Outside, Unread, getWebGL
  <2> QED BY <2>1, SameDevice DEF FixedInv, sha256
<1>2. CASE AudioRendered
  <2>1. PICK sum \in AudioHashes :
            IF device.battery = "none"
            THEN Digest([ReadAfterAudio(sum) EXCEPT !.battery = "unknown"])
            ELSE fp' = ReadAfterAudio(sum) /\ pc' = "battery"
    BY <1>2 DEF AudioRendered
  <2> DEFINE read == ReadAfterAudio(sum)
  <2>2. /\ DOMAIN read = DOMAIN Unread
        /\ read.engine = fp.engine /\ read.canvasHash = fp.canvasHash
        /\ read.webgl = fp.webgl /\ read.audioHash = sum
        /\ read.mathHash = sha256(getMathValues)
    BY <1>0 DEF ReadAfterAudio, Unread
  <2>3. UNCHANGED <<device, baseline, enrolledUnder>> /\ pc = "audio"
    BY <1>2 DEF AudioRendered, Outside
  <2> HIDE DEF read
  <2>4. CASE device.battery = "none"
    <3> DEFINE full == [read EXCEPT !.battery = "unknown"]
    <3>1. /\ DOMAIN full = DOMAIN Unread
          /\ full.engine = fp.engine /\ full.canvasHash = fp.canvasHash
          /\ full.webgl = fp.webgl /\ full.audioHash = sum
          /\ full.mathHash = sha256(getMathValues)
      BY <2>2 DEF Unread
    <3>2. Digest(full)
      BY <2>1, <2>4 DEF read
    <3> HIDE DEF full
    <3> QED BY <2>3, <3>1, <3>2, DigestReads, SameDevice DEF FixedInv, sha256
  <2>5. CASE device.battery # "none"
    <3>1. fp' = read /\ pc' = "battery"
      BY <2>1, <2>5 DEF read
    <3> QED BY <2>2, <2>3, <3>1, SameDevice DEF FixedInv, sha256
  <2> QED BY <2>4, <2>5
<1>3. CASE BatteryAnswered
  <2> DEFINE full == [fp EXCEPT !.battery = IF device.battery = "given" THEN ReadBattery
                                            ELSE "unknown"]
  <2>1. Digest(full) /\ pc = "battery" /\ UNCHANGED <<device, baseline, enrolledUnder>>
    BY <1>3 DEF BatteryAnswered, Outside
  <2>2. /\ DOMAIN full = DOMAIN Unread
        /\ full.engine = fp.engine /\ full.canvasHash = fp.canvasHash
        /\ full.webgl = fp.webgl /\ full.audioHash = fp.audioHash
        /\ full.mathHash = fp.mathHash
    BY <1>0 DEF Unread
  <2> HIDE DEF full
  <2> QED BY <2>1, <2>2, DigestReads, SameDevice DEF FixedInv, sha256
<1>4. CASE DigestsReady
  <2>1. PICK minute \in Minutes : fp' = Literal(minute)
    BY <1>4 DEF DigestsReady
  <2>2. pc = "digests" /\ pc' = "hash" /\ UNCHANGED <<device, baseline, enrolledUnder>>
    BY <1>4 DEF DigestsReady, Outside
  <2>3. /\ fp'.engine = fp.engine /\ fp'.canvasHash = fp.canvasHash
        /\ fp'.webgl = fp.webgl /\ fp'.audioHash = fp.audioHash
        /\ fp'.mathHash = fp.mathHash /\ fp'.screen = fp.screen
        /\ fp'.userAgent = device.product /\ fp'.platform = device.platform
        /\ fp'.languages = device.languages
        /\ fp'.consistency = checkConsistency(fp.engine, fp.webgl, fp.plugins, minute)
    BY <1>0, <2>1 DEF Literal, Unread
  <2>4. /\ fp'.consistency.engineMatchesUA \in BOOLEAN
        /\ fp'.consistency.pluginsMatchEngine \in BOOLEAN
        /\ fp'.consistency.webglMatchesPlatform = WebGLMatchesPlatform(fp.webgl)
    BY <2>3 DEF checkConsistency, EngineMatchesUA
  <2>5. WebGLMatchesPlatform(device.renderer)' = WebGLMatchesPlatform(device.renderer)
    BY <2>2 DEF WebGLMatchesPlatform
  <2> QED BY <2>2, <2>3, <2>4, <2>5, SameDevice DEF FixedInv, sha256
<1>5. CASE HashReady
  <2>1. /\ pc = "hash" /\ pc' = "done" /\ UNCHANGED <<device, baseline, enrolledUnder>>
        /\ fp'.engine = fp.engine /\ fp'.canvasHash = fp.canvasHash
        /\ fp'.webgl = fp.webgl /\ fp'.audioHash = fp.audioHash
        /\ fp'.mathHash = fp.mathHash /\ fp'.screen = fp.screen
        /\ fp'.userAgent = fp.userAgent /\ fp'.platform = fp.platform
        /\ fp'.languages = fp.languages /\ fp'.consistency = fp.consistency
        /\ fp'.hash = sha256(fp)
    BY <1>0, <1>5 DEF HashReady, Outside, Unread
  <2>2. fp \in Literals
    BY <1>0, <2>1 DEF Fingerprints, Literals, Readings, Maybe
  <2>3. fp'.hash \in Digests(Literals) /\ fp'.hash[2].audioHash = fp'.audioHash
    BY <2>1, <2>2 DEF sha256, Digests
  <2>4. WebGLMatchesPlatform(device.renderer)' = WebGLMatchesPlatform(device.renderer)
    BY <2>1 DEF WebGLMatchesPlatform
  <2> QED BY <2>1, <2>3, <2>4, SameDevice DEF FixedInv, sha256
<1>6. CASE Deliver
  <2>1. pc = "done" /\ pc' = "idle" /\ UNCHANGED device
    BY <1>6 DEF Deliver
  <2>2. ASSUME NEW theme \in {"Emerald", "Rubine"}, Enrol(theme)
        PROVE  FixedInv'
    <3>1. /\ baseline'.canvasHash = fp.canvasHash /\ baseline'.audioHash = fp.audioHash
          /\ baseline'.mathHash = fp.mathHash /\ baseline'.webglRenderer = fp.webgl
          /\ baseline'.platform = fp.platform /\ baseline'.hash = fp.hash
          /\ enrolledUnder' = theme
      BY <2>2 DEF Enrol, ClientOf
    <3>2. theme = "Emerald" => fp.audioHash # Nil
      BY <2>2 DEF Enrol, Accepts, IsValid, RequiredAttributes, Attributes, ClientOf
    <3> QED BY <2>1, <3>1, <3>2, SameDevice DEF FixedInv, sha256
  <2>3. CASE UNCHANGED <<baseline, enrolledUnder>>
    BY <2>1, <2>3, SameDevice DEF FixedInv, sha256
  <2> QED BY <1>6, <2>2, <2>3 DEF Deliver
<1>7. CASE Rejected
  BY <1>7, SameDevice DEF Rejected, Outside, FixedInv, sha256
<1>8. ASSUME NEW e, Change(e) PROVE FixedInv'
  <2>1. UNCHANGED <<device, pc, fp, baseline, enrolledUnder>>
    BY <1>8 DEF Change
  <2>2. WebGLMatchesPlatform(device.renderer)' = WebGLMatchesPlatform(device.renderer)
    BY <2>1 DEF WebGLMatchesPlatform
  <2> QED BY <2>1, <2>2, SameDevice DEF FixedInv, sha256
<1>9. CASE Travel \/ DockOrZoom \/ Rotate \/ DenyNotifications \/ SwitchLink \/ PlugOrUnplug
  BY <1>8, <1>9
  DEF Travel, DockOrZoom, Rotate, DenyNotifications, SwitchLink, PlugOrUnplug
<1>10. CASE UNCHANGED vars
  <2>1. UNCHANGED <<device, pc, fp, baseline, enrolledUnder>>
    BY <1>10 DEF vars
  <2>2. WebGLMatchesPlatform(device.renderer)' = WebGLMatchesPlatform(device.renderer)
    BY <2>1 DEF WebGLMatchesPlatform
  <2> QED BY <2>1, <2>2, SameDevice DEF FixedInv, sha256
<1> QED
  BY <1>1, <1>2, <1>3, <1>4, <1>5, <1>6, <1>7, <1>9, <1>10 DEF Next, Collect

LEMMA Fixed == Spec => [](TInv /\ IInv /\ FixedInv)
BY InitTInv, NextTInv, InitIInv, NextIInv, InitFixed, NextFixed, PTL DEF Spec

(* What the form posts has the types that the server decodes.              *)
LEMMA SentTypes ==
    ASSUME TInv, IInv, FixedInv, pc = "done"
    PROVE  ClientOf(fp) \in Clients
<1>1. /\ device \in Devices /\ device.product \in STRING /\ device.platform \in STRING
      /\ device.renderer \in Maybe(STRING)
  BY DeviceTypes DEF IInv
<1>2. fp.userAgent \in STRING /\ fp.platform \in STRING /\ fp.webgl \in Maybe(STRING)
  BY <1>1 DEF FixedInv
<1>3. /\ fp.timezone \in STRING /\ fp.timezoneOffset \in Int
      /\ fp.consistency.timezoneMatchesOffset \in BOOLEAN
  <2>1. PICK z \in Zones, minute \in Minutes :
            /\ fp.timezone = (IF device.claims = Nil THEN z ELSE device.claims)
            /\ fp.timezoneOffset = -OffsetOf[z]
            /\ fp.consistency.timezoneMatchesOffset
                   = ZoneMatches(fp.timezone, -OffsetOf[z], minute, device.midnight)
    BY DEF IInv, ReadInOneTurn
  <2>2. z \in STRING /\ device.claims \in Maybe(STRING)
    BY <1>1, ZonesAssumption, DeviceTypes
  <2>3. fp.timezone \in STRING
    BY <2>1, <2>2 DEF Maybe
  <2>4. fp.timezoneOffset \in Int
    BY <2>1, Offsets
  <2> QED BY <2>1, <2>3, <2>4 DEF ZoneMatches
<1>4. fp.canvasHash \in Digests(Pictures)
  <2>1. getCanvasData \in Pictures
    BY <1>1, DeviceTypes DEF getCanvasData, Pictures, Maybe
  <2> QED BY <2>1 DEF FixedInv, sha256, Digests
<1>5. fp.mathHash \in Digests({"math"} \X Engines) /\ fp.hash \in Digests(Literals)
  BY <1>1, EarlyTypes DEF FixedInv, getMathValues, sha256, Digests
<1>6. <<fp.screen.width, fp.screen.height>> \in Int \X Int
  BY DEF FixedInv
<1>7. fp.audioHash \in Maybe({"sum"})
  BY DEF FixedInv, AudioHashes, Maybe
<1>8. /\ fp.consistency.engineMatchesUA \in BOOLEAN
      /\ fp.consistency.pluginsMatchEngine \in BOOLEAN
      /\ fp.consistency.webglMatchesPlatform \in BOOLEAN
  BY DEF FixedInv, WebGLMatchesPlatform
<1>9. Others(fp) \in Maybe({"present"}) /\ (fp.signals # {}) \in BOOLEAN
  BY DEF Others, Maybe
<1> QED BY <1>2, <1>3, <1>4, <1>5, <1>6, <1>7, <1>8, <1>9 DEF ClientOf, Clients

BaselineInv == baseline \in Maybe(Clients)

LEMMA InitBaseline == Init => BaselineInv
BY DEF Init, BaselineInv, Maybe

LEMMA NextBaseline ==
    TInv /\ IInv /\ FixedInv /\ BaselineInv /\ [Next]_vars => BaselineInv'
<1>1. ASSUME TInv, IInv, FixedInv, BaselineInv, Deliver PROVE BaselineInv'
  BY <1>1, SentTypes DEF Deliver, Enrol, BaselineInv, Maybe
<1>2. ASSUME [Next]_vars, ~Deliver PROVE UNCHANGED baseline
  BY <1>2 DEF Next, Collect, Start, AudioRendered, BatteryAnswered, DigestsReady,
              HashReady, Rejected, Travel, DockOrZoom, Rotate, DenyNotifications,
              SwitchLink, PlugOrUnplug, Change, Outside, vars
<1> QED BY <1>1, <1>2 DEF BaselineInv

LEMMA Baseline == Spec => []BaselineInv
BY Fixed, InitBaseline, NextBaseline, PTL DEF Spec

(* Whatever the device lacks and whatever changes around it, what is read  *)
(* and what the server enrols has the types that the server decodes        *)
(* (fingerprint.ts lines 1-65 and 521-592).                                *)
THEOREM CollectorTypes == Spec => []TypeOK
<1>1. TInv /\ BaselineInv => TypeOK
  BY DEF TInv, BaselineInv, TypeOK
<1> QED BY <1>1, Fixed, Baseline, PTL

(* The server takes what collectFingerprint sends for complete (IsValid of *)
(* valid.go) exactly when WebGL, audio and languages are there, whatever   *)
(* else the browser lacks or blocks.                                       *)
THEOREM ThreeAreDemanded == Spec => []OnlyThreeAreDemanded
<1>1. TInv /\ IInv /\ FixedInv => OnlyThreeAreDemanded
  <2> SUFFICES ASSUME TInv, IInv, FixedInv, pc = "done"
               PROVE  IsValid(ClientOf(fp))
                          <=> fp.webgl # Nil /\ fp.audioHash # Nil /\ fp.languages # {}
    BY DEF OnlyThreeAreDemanded
  <2> DEFINE c == ClientOf(fp)
  <2>1. c \in Clients /\ c # Nil
    BY SentTypes, NilIsNoReading
  <2>2. c.audioHash = fp.audioHash /\ c.others = Others(fp)
    BY DEF ClientOf
  <2>3. c.others # Nil <=> fp.webgl # Nil /\ fp.languages # {}
    <3>1. "present" # Nil
      BY NilIsNoReading
    <3> QED BY <2>2, <3>1 DEF Others
  <2> HIDE DEF c
  <2>4. /\ c.userAgent # Nil /\ c.timezone # Nil /\ c.platform # Nil
    BY <2>1, NilIsNoReading DEF Clients
  <2>5. c.timezoneOffset # Nil /\ c.screenSize # Nil
    BY <2>1, NilIsNoReading DEF Clients
  <2>6. c.hash # Nil /\ c.canvasHash # Nil /\ c.mathHash # Nil
    BY <2>1, NilIsNoReading DEF Clients
  <2>7. \A b \in BOOLEAN : b # Nil
    BY NilAssumption
  <2>8. /\ c.isAutomated # Nil /\ c.engineMatchesUA # Nil
        /\ c.timezoneMatchesOffset # Nil /\ c.pluginsMatchEngine # Nil
        /\ c.webglMatchesPlatform # Nil
    BY <2>1, <2>7 DEF Clients
  <2>9. IsValid(c) <=> c.audioHash # Nil /\ c.others # Nil
    BY <2>1, <2>4, <2>5, <2>6, <2>8 DEF IsValid, RequiredAttributes, Attributes
  <2> QED BY <2>2, <2>3, <2>9 DEF c
<1> QED BY <1>1, Fixed, PTL

-----------------------------------------------------------------------------
(* The text of an offset, read back.                                       *)

LEMMA NumeralsDiffer ==
    ASSUME NEW m \in 0 .. 9, NEW n \in 0 .. 9, Numerals[m + 1] = Numerals[n + 1]
    PROVE  m = n
BY DEF Numerals

LEMMA DigitRead ==
    ASSUME NEW n \in 0 .. 9
    PROVE  IsDigit(Numerals[n + 1]) /\ DigitValue(Numerals[n + 1]) = n
<1>1. IsDigit(Numerals[n + 1])
  BY DEF IsDigit
<1> DEFINE c == Numerals[n + 1]
           v == CHOOSE m \in 0 .. 9 : Numerals[m + 1] = c
<1>2. v \in 0 .. 9 /\ Numerals[v + 1] = c
  <2>1. \E m \in 0 .. 9 : Numerals[m + 1] = c
    OBVIOUS
  <2> HIDE DEF c
  <2> QED BY <2>1
<1>3. DigitValue(c) = v
  BY DEF DigitValue
<1> HIDE DEF v
<1> QED BY <1>1, <1>2, <1>3, NumeralsDiffer

LEMMA AtoiReads ==
    ASSUME NEW a \in 0 .. 9, NEW b \in 0 .. 9
    PROVE  Atoi(Numerals[a + 1], Numerals[b + 1]) = 10 * a + b
BY DigitRead DEF Atoi

LEMMA TwoDigits ==
    ASSUME NEW n \in Int, 0 <= n, n < 100
    PROVE  /\ n \div 10 \in 0 .. 9 /\ (n \div 10) % 10 = n \div 10
           /\ n % 10 \in 0 .. 9 /\ 10 * (n \div 10) + (n % 10) = n
<1>1. /\ n \div 10 \in 0 .. 9 /\ n % 10 \in 0 .. 9
      /\ 10 * (n \div 10) + (n % 10) = n
  OBVIOUS
<1>2. \A k \in 0 .. 9 : k % 10 = k
  OBVIOUS
<1> QED BY <1>1, <1>2

LEMMA TextReads ==
    ASSUME NEW n \in Int, 0 <= n, n < 100
    PROVE  Atoi(Digit(n \div 10), Digit(n)) = n
<1> DEFINE a == (n \div 10) % 10
           b == n % 10
<1>1. a \in 0 .. 9 /\ b \in 0 .. 9 /\ 10 * a + b = n
  BY TwoDigits
<1> HIDE DEF a, b
<1>2. Atoi(Numerals[a + 1], Numerals[b + 1]) = n
  BY <1>1, AtoiReads
<1> QED BY <1>2 DEF Digit, a, b

(* ipOffsetToMinutes of engine.go returns the offset that ipdata wrote.    *)
LEMMA OffsetReads ==
    ASSUME NEW x \in Int, -1440 < x, x < 1440
    PROVE  ipOffsetToMinutes(OffsetText(x)) = x
<1> DEFINE east == Apart(x, 0)
           hours == east \div 60
           rest == east % 60
           text == OffsetText(x)
<1>1. /\ east \in Int /\ 0 <= east /\ east < 1440
      /\ x < 0 => east = -x
      /\ ~(x < 0) => east = x
  BY DEF Apart
<1>2. /\ hours \in Int /\ 0 <= hours /\ hours < 100
      /\ rest \in Int /\ 0 <= rest /\ rest < 100
      /\ hours * 60 + rest = east
  <2> HIDE DEF east
  <2> QED BY <1>1
<1> HIDE DEF east, hours, rest
<1>3. /\ Len(text) = 5 /\ text[1] = IF x < 0 THEN "-" ELSE "+"
      /\ text[2] = Digit(hours \div 10) /\ text[3] = Digit(hours)
      /\ text[4] = Digit(rest \div 10) /\ text[5] = Digit(rest)
  BY DEF OffsetText, hours, rest, east
<1> HIDE DEF text
<1>4. Atoi(text[2], text[3]) = hours /\ Atoi(text[4], text[5]) = rest
  <2>1. Atoi(Digit(hours \div 10), Digit(hours)) = hours
    BY <1>2, TextReads
  <2>2. Atoi(Digit(rest \div 10), Digit(rest)) = rest
    BY <1>2, TextReads
  <2> QED BY <1>3, <2>1, <2>2
<1>5. \A n \in Int : n # Nil
  BY NilIsNoReading
<1>6. Parsable(text)
  <2>1. text[1] \in {"+", "-"} /\ Len(text) = 5
    BY <1>3
  <2>2. hours # Nil /\ rest # Nil
    BY <1>2, <1>5
  <2> QED BY <1>4, <2>1, <2>2 DEF Parsable
<1>7. ipOffsetToMinutes(text)
        = LET sign == IF text[1] = "+" THEN 1 ELSE -1 IN sign * (hours * 60 + rest)
  BY <1>4, <1>6 DEF ipOffsetToMinutes
<1>8. CASE x < 0
  <2>1. text[1] # "+"
    BY <1>3, <1>8
  <2>2. ipOffsetToMinutes(text) = -1 * east
    BY <1>2, <1>7, <2>1
  <2> QED BY <1>1, <1>8, <2>2 DEF text
<1>9. CASE ~(x < 0)
  <2>1. text[1] = "+"
    BY <1>3, <1>9
  <2>2. ipOffsetToMinutes(text) = 1 * east
    BY <1>2, <1>7, <2>1
  <2> QED BY <1>1, <1>9, <2>2 DEF text
<1> QED BY <1>8, <1>9

-----------------------------------------------------------------------------
(* The enrolled owner.                                                     *)

(* What the rules can still take from one whose zone, WebGL, user agent    *)
(* and transport are in order and whose device was seen but for screen and *)
(* audio: 51 points if all five rules fire, and otherwise 48 at most.      *)
LEMMA OwnersDeductions ==
    ASSUME NEW known, NEW current, NEW info, known # << >>,
           current.client # Nil,
           current.client.isAutomated \in BOOLEAN,
           current.client.engineMatchesUA \in BOOLEAN,
           current.client.pluginsMatchEngine \in BOOLEAN,
           current.client.timezoneMatchesOffset = TRUE,
           current.client.webglMatchesPlatform = TRUE,
           CrossLayerPoints(current, info) = 0,
           TransportPoints(known, current) = 0,
           \A a \in {"canvasHash", "mathHash", "webglRenderer", "platform"} :
               ~Unseen(known, a, current.client),
           Unseen(known, "audioHash", current.client)
               => Unseen(known, "hash", current.client)
    PROVE  IF /\ current.client.isAutomated = TRUE
              /\ current.client.engineMatchesUA = FALSE
              /\ current.client.pluginsMatchEngine = FALSE
              /\ Unseen(known, "screenSize", current.client)
              /\ Unseen(known, "audioHash", current.client)
           THEN Deductions(known, current, info) = 51
           ELSE Deductions(known, current, info) \in 0 .. 48
<1> DEFINE client == current.client
           automated == client.isAutomated = TRUE
           engine == client.engineMatchesUA = FALSE
           plugins == client.pluginsMatchEngine = FALSE
           screen == Unseen(known, "screenSize", client)
           audio == Unseen(known, "audioHash", client)
<1>1. AutomationPoints(client) = IF automated THEN 25 ELSE 0
  <2>1. Reported(client, "isAutomated") /\ client["isAutomated"] = TRUE <=> automated
    BY NilAssumption DEF Reported
  <2> QED BY <2>1 DEF AutomationPoints, Points
<1>2. ConsistencyPoints(client) = (IF engine THEN 5 ELSE 0) + (IF plugins THEN 5 ELSE 0)
  <2> DEFINE Failed(a) == Reported(client, a) /\ client[a] = FALSE
  <2>1. /\ Failed("engineMatchesUA") <=> engine
        /\ Failed("pluginsMatchEngine") <=> plugins
    BY NilAssumption DEF Reported
  <2>2. ~Failed("timezoneMatchesOffset") /\ ~Failed("webglMatchesPlatform")
    OBVIOUS
  <2>3. /\ Points(Failed("engineMatchesUA"), 5) = IF engine THEN 5 ELSE 0
        /\ Points(Failed("pluginsMatchEngine"), 5) = IF plugins THEN 5 ELSE 0
        /\ Points(Failed("timezoneMatchesOffset"), 5) = 0
        /\ Points(Failed("webglMatchesPlatform"), 5) = 0
    BY <2>1, <2>2 DEF Points
  <2> HIDE DEF Failed
  <2>4. ConsistencyPoints(client)
           = Points(Failed("engineMatchesUA"), 5)
               + Points(Failed("timezoneMatchesOffset"), 5)
               + Points(Failed("pluginsMatchEngine"), 5)
               + Points(Failed("webglMatchesPlatform"), 5)
    BY DEF ConsistencyPoints, Failed
  <2> HIDE DEF engine, plugins
  <2> QED BY <2>3, <2>4
<1>3. DevicePoints(known, client)
          = IF Unseen(known, "hash", client)
            THEN 10 + (IF screen THEN 3 ELSE 0) + (IF audio THEN 3 ELSE 0)
            ELSE 0
  <2>1. /\ Points(screen, 3) = IF screen THEN 3 ELSE 0
        /\ Points(audio, 3) = IF audio THEN 3 ELSE 0
        /\ Points(Unseen(known, "canvasHash", client), 5) = 0
        /\ Points(Unseen(known, "mathHash", client), 3) = 0
        /\ Points(Unseen(known, "webglRenderer", client), 5) = 0
        /\ Points(Unseen(known, "platform", client), 5) = 0
    BY DEF Points
  <2> QED BY <2>1 DEF DevicePoints
<1>4. NoveltyPoints(known, current) = TransportPoints(known, current) + DevicePoints(known, client)
  BY DEF NoveltyPoints
<1>5. Deductions(known, current, info)
          = (IF automated THEN 25 ELSE 0)
              + ((IF engine THEN 5 ELSE 0) + (IF plugins THEN 5 ELSE 0))
              + (IF Unseen(known, "hash", client)
                 THEN 10 + (IF screen THEN 3 ELSE 0) + (IF audio THEN 3 ELSE 0)
                 ELSE 0)
  <2> DEFINE A == AutomationPoints(client)
             C == ConsistencyPoints(client)
             D == DevicePoints(known, client)
  <2>1. Deductions(known, current, info) = A + C + 0 + (0 + D)
    BY <1>4 DEF Deductions
  <2>2. A \in Int /\ C \in Int /\ D \in Int
    BY <1>1, <1>2, <1>3
  <2>3. A + C + 0 + (0 + D) = A + C + D
    <3> HIDE DEF A, C, D
    <3> QED BY <2>2
  <2> QED BY <1>1, <1>2, <1>3, <2>1, <2>3
<1>6. audio => Unseen(known, "hash", client)
  OBVIOUS
<1> HIDE DEF automated, engine, plugins, screen, audio
<1>7. IF automated /\ engine /\ plugins /\ screen /\ audio
      THEN Deductions(known, current, info) = 51
      ELSE Deductions(known, current, info) \in 0 .. 48
  BY <1>5, <1>6
<1> QED BY <1>7 DEF automated, engine, plugins, screen, audio

(* What the device fixes is what was enrolled.                             *)
LEMMA OwnersDevice ==
    ASSUME FixedInv, pc = "done", baseline # Nil,
           NEW a \in {"canvasHash", "mathHash", "webglRenderer", "platform"}
    PROVE  ~Unseen(<<Presented(baseline)>>, a, ClientOf(fp))
<1> DEFINE c == ClientOf(fp)
           known == <<Presented(baseline)>>
<1>1. 1 \in DOMAIN known /\ known[1].client = baseline
  BY DEF Presented
<1>2. c[a] = baseline[a]
  BY DEF ClientOf, FixedInv
<1> HIDE DEF c, known
<1>3. Reported(c, a) => SeenClient(known, a, c)
  BY <1>1, <1>2 DEF Reported, SeenClient
<1> QED BY <1>3 DEF Unseen, c, known

(* A history of one record holds what that record reports.                 *)
LEMMA OneRecord ==
    ASSUME NEW record, NEW client, NEW a
    PROVE  SeenClient(<<record>>, a, client)
               <=> Reported(record.client, a) /\ record.client[a] = client[a]
<1>1. DOMAIN <<record>> = {1} /\ <<record>>[1] = record
  OBVIOUS
<1> QED BY <1>1, Zenon DEF SeenClient

(* Of what the device does not fix, the rules compare the screen, and the  *)
(* audio where it was not enrolled; then the hash is another one too.      *)
LEMMA OwnersNews ==
    ASSUME TInv, IInv, FixedInv, BaselineInv, pc = "done", baseline # Nil
    PROVE  /\ Unseen(<<Presented(baseline)>>, "screenSize", ClientOf(fp))
                 <=> ClientOf(fp).screenSize # baseline.screenSize
           /\ Unseen(<<Presented(baseline)>>, "audioHash", ClientOf(fp))
                 <=> baseline.audioHash = Nil /\ ClientOf(fp).audioHash # Nil
           /\ Unseen(<<Presented(baseline)>>, "audioHash", ClientOf(fp))
                 => Unseen(<<Presented(baseline)>>, "hash", ClientOf(fp))
<1> DEFINE c == ClientOf(fp)
           known == <<Presented(baseline)>>
<1>1. c \in Clients /\ baseline \in Clients /\ c # Nil
  BY SentTypes, NilIsNoReading DEF BaselineInv, Maybe
<1>2. /\ c.screenSize \in Int \X Int /\ baseline.screenSize \in Int \X Int
      /\ c.hash \in Digests(Literals)
  BY <1>1 DEF Clients
<1>3. /\ c.audioHash = fp.audioHash /\ c.hash = fp.hash
      /\ c.audioHash \in {"sum", Nil} /\ baseline.audioHash \in {"sum", Nil}
      /\ c.hash[2].audioHash = c.audioHash
      /\ baseline.hash[2].audioHash = baseline.audioHash
  BY DEF ClientOf, FixedInv, AudioHashes
<1>4. Presented(baseline).client = baseline
  BY DEF Presented
<1> HIDE DEF c, known
<1>5. \A a : Unseen(known, a, c)
             <=> c[a] # Nil /\ ~(baseline[a] # Nil /\ baseline[a] = c[a])
  BY <1>1, <1>4, OneRecord DEF known, Unseen, Reported
<1>6. Unseen(known, "screenSize", c) <=> c.screenSize # baseline.screenSize
  BY <1>2, <1>5, NilIsNoReading
<1>7. Unseen(known, "audioHash", c) <=> baseline.audioHash = Nil /\ c.audioHash # Nil
  BY <1>3, <1>5
<1>8. ASSUME baseline.audioHash = Nil, c.audioHash # Nil
      PROVE  Unseen(known, "hash", c)
  <2>1. c.hash # baseline.hash
    BY <1>3, <1>8
  <2>2. c.hash # Nil
    BY <1>2, NilIsNoReading
  <2> QED BY <1>5, <2>1, <2>2
<1> QED BY <1>6, <1>7, <1>8 DEF c, known

(* Every layer tells the same of a browser that hides nothing.             *)
LEMMA OwnersLayers ==
    ASSUME TInv, IInv, FixedInv, pc = "done", Honest, NEW info \in KnownInfo(fp.timezone)
    PROVE  CrossLayerPoints(Presented(ClientOf(fp)), info) = 0
<1> DEFINE c == ClientOf(fp)
           current == Presented(c)
<1>1. /\ current.client = c /\ current.userAgent = device.product
      /\ c.userAgent = fp.userAgent /\ c.timezone = fp.timezone
      /\ c.timezoneOffset = fp.timezoneOffset
  BY DEF Presented, ClientOf
<1>2. PICK z \in Zones : fp.timezone = z /\ fp.timezoneOffset = -OffsetOf[z]
  BY DEF IInv, ReadInOneTurn, Honest
<1>3. \/ info = [timezone |-> "", offset |-> Nil]
      \/ info = [timezone |-> fp.timezone,
                 offset |-> ipOffsetToMinutes(OffsetText(OffsetOf[fp.timezone]))]
  BY Zenon DEF KnownInfo
<1>4. /\ info.timezone = "" \/ info.timezone = z
      /\ info.offset = Nil \/ info.offset = OffsetOf[z]
  <2>1. ipOffsetToMinutes(OffsetText(OffsetOf[z])) = OffsetOf[z]
    BY OffsetAssumption, OffsetReads
  <2> DEFINE offset == ipOffsetToMinutes(OffsetText(OffsetOf[z]))
  <2>2. \/ info = [timezone |-> "", offset |-> Nil]
        \/ info = [timezone |-> z, offset |-> offset]
    BY <1>2, <1>3, Zenon
  <2> HIDE DEF offset
  <2>3. /\ info.timezone = "" \/ info.timezone = z
        /\ info.offset = Nil \/ info.offset = offset
    <3>1. CASE info = [timezone |-> "", offset |-> Nil]
      BY <3>1
    <3>2. CASE info = [timezone |-> z, offset |-> offset]
      BY <3>2
    <3> QED BY <2>2, <3>1, <3>2
  <2> QED BY <2>1, <2>3 DEF offset
<1>5. jsOffsetToUTCMinutes(c.timezoneOffset) = OffsetOf[z]
  BY <1>1, <1>2, Offsets DEF jsOffsetToUTCMinutes
<1> HIDE DEF c, current
<1>6. TimezonePoints(c, info) = 0
  BY <1>1, <1>2, <1>4 DEF TimezonePoints, Points
<1>7. OffsetPoints(c, info) = 0
  BY <1>4, <1>5 DEF OffsetPoints, Points
<1>8. UserAgentPoints(current) = 0
  BY <1>1 DEF UserAgentPoints, Points, FixedInv
<1>9. CrossLayerPoints(current, info) = 0
  BY <1>1, <1>6, <1>7, <1>8 DEF CrossLayerPoints
<1> QED BY <1>9 DEF current, c

(* The rules of engine.go allow the enrolled owner of a device that is not *)
(* driven by a tool, wherever it goes and whatever its browser lacks,      *)
(* as long as the connection shows the enrolled TLS prints: at most 48 of  *)
(* the 100 points are lost.  The one exception loses 51; it takes a        *)
(* registration under Rubine whose audio failed (handler.go lines 33 and   *)
(* 69-71), so that an owner registered under Emerald is always allowed.    *)
THEOREM OwnerIsAllowed == Spec => []GenuineReturnerAllowed
<1>1. TInv /\ IInv /\ FixedInv /\ BaselineInv /\ HonestZoneMatches => GenuineReturnerAllowed
  <2> SUFFICES ASSUME TInv, IInv, FixedInv, BaselineInv, HonestZoneMatches, pc = "done",
                      Genuine, baseline # Nil, NEW info \in KnownInfo(fp.timezone)
               PROVE  Evaluate(<<Presented(baseline)>>, Presented(ClientOf(fp)), info).verdict
                          = IF enrolledUnder = "Rubine" /\ AllSpeaksAgainst(ClientOf(fp))
                            THEN "ban" ELSE "allow"
    BY DEF GenuineReturnerAllowed
  <2> DEFINE known == <<Presented(baseline)>>
             client == ClientOf(fp)
             current == Presented(client)
  <2>1. current.client = client
    BY DEF Presented
  <2>2. client.timezoneMatchesOffset = TRUE
    BY DEF ClientOf, HonestZoneMatches, Consistency, Genuine, IInv, ReadInOneTurn,
           ZoneMatches
  <2>3. client.webglMatchesPlatform = TRUE
    <3>1. client.webglMatchesPlatform = fp.consistency.webglMatchesPlatform
      BY DEF ClientOf
    <3>2. WebGLMatchesPlatform(device.renderer) = TRUE
      BY DEF Genuine, WebGLMatchesPlatform
    <3> QED BY <3>1, <3>2 DEF FixedInv
  <2>4. TransportPoints(known, current) = 0
    <3>1. /\ Seen(known, "ja3", current) /\ Seen(known, "ja4", current)
          /\ Seen(known, "peetPrint", current)
      BY DEF Seen, Presented
    <3> QED BY <3>1 DEF TransportPoints, Points
  <2>5. CrossLayerPoints(current, info) = 0
    BY OwnersLayers DEF Genuine
  <2>6. \A a \in {"canvasHash", "mathHash", "webglRenderer", "platform"} :
            ~Unseen(known, a, client)
    BY OwnersDevice
  <2>7. /\ Unseen(known, "screenSize", client)
               <=> client.screenSize # baseline.screenSize
        /\ Unseen(known, "audioHash", client)
               <=> baseline.audioHash = Nil /\ client.audioHash # Nil
        /\ Unseen(known, "audioHash", client) => Unseen(known, "hash", client)
    BY OwnersNews
  <2>8. client \in Clients /\ client # Nil
    BY SentTypes, NilIsNoReading
  <2>9. /\ client.isAutomated \in BOOLEAN /\ client.engineMatchesUA \in BOOLEAN
        /\ client.pluginsMatchEngine \in BOOLEAN
    BY <2>8 DEF Clients
  <2>10. known # << >>
    OBVIOUS
  <2>11. enrolledUnder = "Rubine" \/ baseline.audioHash # Nil
    BY DEF FixedInv
  <2> DEFINE automated == client.isAutomated
             engine == client.engineMatchesUA
             plugins == client.pluginsMatchEngine
             screen == client.screenSize # baseline.screenSize
             audio == baseline.audioHash = Nil /\ client.audioHash # Nil
             everything == /\ automated = TRUE /\ engine = FALSE /\ plugins = FALSE
                           /\ screen /\ audio
  <2>12. enrolledUnder = "Rubine" /\ AllSpeaksAgainst(client) <=> everything
    <3>1. AllSpeaksAgainst(client) <=> automated /\ ~engine /\ ~plugins /\ screen /\ audio
      BY DEF AllSpeaksAgainst
    <3>2. automated \in BOOLEAN /\ engine \in BOOLEAN /\ plugins \in BOOLEAN
      BY <2>9
    <3>3. audio => enrolledUnder = "Rubine"
      BY <2>11
    <3> HIDE DEF automated, engine, plugins, screen, audio
    <3> QED BY <3>1, <3>2, <3>3
  <2> HIDE DEF known, client, current
  <2>13. IF everything THEN Deductions(known, current, info) = 51
         ELSE Deductions(known, current, info) \in 0 .. 48
    BY <2>1, <2>2, <2>3, <2>4, <2>5, <2>6, <2>7, <2>8, <2>9, <2>10, OwnersDeductions
  <2> HIDE DEF everything
  <2>14. Evaluate(known, current, info).verdict = IF everything THEN "ban" ELSE "allow"
    BY <2>13 DEF Evaluate, Score, Clamp, Verdict
  <2> QED BY <2>12, <2>14 DEF known, current, client
<1> QED BY <1>1, Fixed, Baseline, HonestZones, PTL

-----------------------------------------------------------------------------
(* What a run of the collector reads in the present environment, turn by   *)
(* turn.                                                                   *)
AtAudio ==
    [Unread EXCEPT !.engine = detectEngine, !.canvasHash = sha256(getCanvasData),
                   !.webgl = getWebGL]

AtBattery(sum) ==
    [AtAudio EXCEPT !.audioHash = sum, !.signals = detectAutomation, !.fonts = detectFonts,
                    !.mathHash = sha256(getMathValues), !.plugins = getPlugins,
                    !.connection = getConnection, !.storage = getStorage]

AtDigests(sum) ==
    [[AtBattery(sum) EXCEPT !.battery = IF device.battery = "given" THEN ReadBattery
                                        ELSE "unknown"] EXCEPT !.screen = ReadScreen]

AtHash(sum, minute) ==
    [AtDigests(sum) EXCEPT
        !.userAgent = device.product, !.platform = device.platform,
        !.languages = device.languages, !.timezone = timeZone,
        !.timezoneOffset = timezoneOffset,
        !.consistency = checkConsistency(AtDigests(sum).engine, AtDigests(sum).webgl,
                                         AtDigests(sum).plugins, minute)]

(* While nothing changes, that is what has been read, and what was         *)
(* enrolled.                                                               *)
QuietInv ==
    quiet =>
        /\ pc = "audio" => fp = AtAudio
        /\ pc = "battery" => \E sum \in AudioHashes : fp = AtBattery(sum)
        /\ pc = "digests" => \E sum \in AudioHashes : fp = AtDigests(sum)
        /\ pc = "hash" =>
              \E sum \in AudioHashes, minute \in Minutes : fp = AtHash(sum, minute)
        /\ pc = "done" =>
              \E sum \in AudioHashes, minute \in Minutes :
                  fp = [AtHash(sum, minute) EXCEPT !.hash = sha256(AtHash(sum, minute))]
        /\ baseline # Nil =>
              \E sum \in AudioHashes, minute \in Minutes :
                  baseline.audioHash = sum /\ baseline.hash = sha256(AtHash(sum, minute))

LEMMA InitQuiet == Init => QuietInv
BY DEF Init, QuietInv

LEMMA SameSurroundings ==
    ASSUME UNCHANGED <<device, env>>
    PROVE  /\ detectAutomation' = detectAutomation /\ getConnection' = getConnection
           /\ detectFonts' = detectFonts /\ getPlugins' = getPlugins
           /\ getStorage' = getStorage /\ getWebGL' = getWebGL
           /\ ReadBattery' = ReadBattery /\ ReadScreen' = ReadScreen
           /\ timeZone' = timeZone /\ timezoneOffset' = timezoneOffset
<1>1. \A word : UASays(word)' <=> UASays(word)
  BY DEF UASays
<1>2. detectAutomation' = detectAutomation
  BY <1>1 DEF detectAutomation
<1> QED BY <1>2 DEF getConnection, detectFonts, getPlugins, getStorage, getWebGL,
                    ReadBattery, ReadScreen, timeZone, timezoneOffset

LEMMA SameConsistency ==
    ASSUME UNCHANGED <<device, env>>, NEW engine, NEW webgl, NEW plugins, NEW minute
    PROVE  checkConsistency(engine, webgl, plugins, minute)'
               = checkConsistency(engine, webgl, plugins, minute)
<1>1. EngineMatchesUA(engine)' = EngineMatchesUA(engine)
  BY DEF EngineMatchesUA, UASays
<1>2. WebGLMatchesPlatform(webgl)' = WebGLMatchesPlatform(webgl)
  BY DEF WebGLMatchesPlatform
<1> QED BY <1>1, <1>2, SameSurroundings DEF checkConsistency

(* As long as nothing changes, so does nothing of what would be read.      *)
LEMMA SameReading ==
    ASSUME UNCHANGED <<device, env>>, NEW sum, NEW minute
    PROVE  /\ AtAudio' = AtAudio /\ AtBattery(sum)' = AtBattery(sum)
           /\ AtDigests(sum)' = AtDigests(sum)
           /\ AtHash(sum, minute)' = AtHash(sum, minute)
<1>1. AtAudio' = AtAudio
  BY SameDevice, SameSurroundings DEF AtAudio, sha256
<1>2. AtBattery(sum)' = AtBattery(sum)
  BY <1>1, SameDevice, SameSurroundings DEF AtBattery, sha256
<1>3. AtDigests(sum)' = AtDigests(sum)
  BY <1>2, SameSurroundings DEF AtDigests
<1>4. AtHash(sum, minute)' = AtHash(sum, minute)
  BY <1>3, SameSurroundings, SameConsistency DEF AtHash
<1> QED BY <1>1, <1>2, <1>3, <1>4

LEMMA HashFields ==
    ASSUME NEW sum, NEW minute
    PROVE  /\ DOMAIN AtHash(sum, minute) = DOMAIN Unread
           /\ AtHash(sum, minute).audioHash = sum
           /\ AtHash(sum, minute).timezone = timeZone
           /\ AtHash(sum, minute).timezoneOffset = timezoneOffset
<1>1. DOMAIN AtBattery(sum) = DOMAIN Unread /\ AtBattery(sum).audioHash = sum
  BY DEF AtBattery, AtAudio, Unread
<1>2. DOMAIN AtDigests(sum) = DOMAIN Unread /\ AtDigests(sum).audioHash = sum
  BY <1>1 DEF AtDigests, Unread
<1> QED BY <1>2 DEF AtHash, Unread

(* While nothing changes, what was enrolled remains what would be read.    *)
LEMMA EnrolledStays ==
    ASSUME QuietInv, quiet, UNCHANGED <<device, env, baseline>>, baseline' # Nil
    PROVE  \E sum \in AudioHashes', minute \in Minutes :
               /\ baseline'.audioHash = sum
               /\ baseline'.hash = sha256(AtHash(sum, minute)')
<1>1. PICK sum \in AudioHashes, minute \in Minutes :
          baseline.audioHash = sum /\ baseline.hash = sha256(AtHash(sum, minute))
  BY DEF QuietInv
<1>2. AtHash(sum, minute)' = AtHash(sum, minute)
  BY SameReading
<1>3. AudioHashes' = AudioHashes
  BY SameDevice
<1> QED BY <1>1, <1>2, <1>3

LEMMA NextQuiet == TInv /\ IInv /\ FixedInv /\ QuietInv /\ [Next]_vars => QuietInv'
<1> SUFFICES ASSUME TInv, IInv, FixedInv, QuietInv, [Next]_vars, quiet' PROVE QuietInv'
  BY DEF QuietInv
<1> USE DEF sha256
<1>1. CASE Start
  <2>1. UNCHANGED <<device, env, baseline>> /\ fp' = AtAudio /\ pc' = "audio"
    BY <1>1 DEF Start, Outside, AtAudio
  <2>2. AtAudio' = AtAudio
    BY <2>1, SameReading
  <2>3. baseline' # Nil => quiet
    BY <1>1, <2>1 DEF Start
  <2> QED BY <2>1, <2>2, <2>3, EnrolledStays DEF QuietInv
<1>2. CASE AudioRendered
  <2>1. UNCHANGED <<device, env, baseline, quiet>> /\ pc = "audio" /\ fp = AtAudio
    BY <1>2 DEF AudioRendered, Outside, QuietInv
  <2>2. PICK sum \in AudioHashes :
            IF device.battery = "none"
            THEN Digest([ReadAfterAudio(sum) EXCEPT !.battery = "unknown"])
            ELSE fp' = ReadAfterAudio(sum) /\ pc' = "battery"
    BY <1>2 DEF AudioRendered
  <2>3. ReadAfterAudio(sum) = AtBattery(sum)
    BY <2>1 DEF ReadAfterAudio, AtBattery
  <2>4. sum \in AudioHashes'
    BY <2>1, SameDevice
  <2>5. CASE device.battery = "none"
    <3>1. fp' = [[AtBattery(sum) EXCEPT !.battery = "unknown"] EXCEPT !.screen = ReadScreen]
      BY <2>2, <2>3, <2>5 DEF Digest
    <3>2. AtDigests(sum)
            = [[AtBattery(sum) EXCEPT !.battery = "unknown"] EXCEPT !.screen = ReadScreen]
      BY <2>5 DEF AtDigests
    <3>3. fp' = AtDigests(sum)' /\ pc' \in {"digests", "rejected"}
      BY <2>1, <2>2, <2>5, <3>1, <3>2, SameReading DEF Digest
    <3> QED BY <2>1, <2>4, <3>3, EnrolledStays DEF QuietInv
  <2>6. CASE device.battery # "none"
    <3>1. fp' = AtBattery(sum)' /\ pc' = "battery"
      BY <2>1, <2>2, <2>3, <2>6, SameReading
    <3> QED BY <2>1, <2>4, <3>1, EnrolledStays DEF QuietInv
  <2> QED BY <2>5, <2>6
<1>3. CASE BatteryAnswered
  <2>1. UNCHANGED <<device, env, baseline, quiet>> /\ pc = "battery"
    BY <1>3 DEF BatteryAnswered, Outside
  <2>2. PICK sum \in AudioHashes : fp = AtBattery(sum)
    BY <2>1 DEF QuietInv
  <2>3. sum \in AudioHashes'
    BY <2>1, SameDevice
  <2>4. fp' = AtDigests(sum) /\ pc' \in {"digests", "rejected"}
    BY <1>3, <2>2 DEF BatteryAnswered, Digest, AtDigests
  <2>5. fp' = AtDigests(sum)'
    BY <2>1, <2>4, SameReading
  <2> QED BY <2>1, <2>3, <2>4, <2>5, EnrolledStays DEF QuietInv
<1>4. CASE DigestsReady
  <2>1. UNCHANGED <<device, env, baseline, quiet>> /\ pc = "digests" /\ pc' = "hash"
    BY <1>4 DEF DigestsReady, Outside
  <2>2. PICK sum \in AudioHashes : fp = AtDigests(sum)
    BY <2>1 DEF QuietInv
  <2>3. PICK minute \in Minutes : fp' = Literal(minute)
    BY <1>4 DEF DigestsReady
  <2>4. sum \in AudioHashes'
    BY <2>1, SameDevice
  <2>5. fp' = AtHash(sum, minute)
    BY <2>2, <2>3 DEF Literal, AtHash
  <2>6. fp' = AtHash(sum, minute)'
    BY <2>1, <2>5, SameReading
  <2> QED BY <2>1, <2>4, <2>6, EnrolledStays DEF QuietInv
<1>5. CASE HashReady
  <2>1. UNCHANGED <<device, env, baseline, quiet>> /\ pc = "hash" /\ pc' = "done"
    BY <1>5 DEF HashReady, Outside
  <2>2. PICK sum \in AudioHashes, minute \in Minutes : fp = AtHash(sum, minute)
    BY <2>1 DEF QuietInv
  <2>3. sum \in AudioHashes'
    BY <2>1, SameDevice
  <2>4. fp' = [AtHash(sum, minute) EXCEPT !.hash = sha256(AtHash(sum, minute))]
    BY <1>5, <2>2 DEF HashReady
  <2>5. AtHash(sum, minute)' = AtHash(sum, minute)
    BY <2>1, SameReading
  <2>6. fp' = [AtHash(sum, minute)' EXCEPT !.hash = sha256(AtHash(sum, minute)')]
    BY <2>4, <2>5
  <2> QED BY <2>1, <2>3, <2>6, EnrolledStays DEF QuietInv
<1>6. CASE Deliver
  <2>1. UNCHANGED <<device, env, quiet>> /\ pc = "done" /\ pc' = "idle"
    BY <1>6 DEF Deliver
  <2>2. ASSUME NEW theme, Enrol(theme)
        PROVE  QuietInv'
    <3>1. PICK sum \in AudioHashes, minute \in Minutes :
              fp = [AtHash(sum, minute) EXCEPT !.hash = sha256(AtHash(sum, minute))]
      BY <2>1 DEF QuietInv
    <3>2. fp.hash = sha256(AtHash(sum, minute)) /\ fp.audioHash = sum
      BY <3>1, HashFields DEF Unread
    <3>3. baseline'.hash = sha256(AtHash(sum, minute)) /\ baseline'.audioHash = sum
      BY <2>2, <3>2 DEF Enrol, ClientOf
    <3>4. AtHash(sum, minute)' = AtHash(sum, minute) /\ AudioHashes' = AudioHashes
      BY <2>1, SameReading, SameDevice
    <3> QED BY <2>1, <3>3, <3>4 DEF QuietInv
  <2>3. CASE UNCHANGED <<baseline, enrolledUnder>>
    BY <2>1, <2>3, EnrolledStays DEF QuietInv
  <2> QED BY <1>6, <2>2, <2>3 DEF Deliver
<1>7. CASE Rejected
  <2>1. UNCHANGED <<device, env, baseline, quiet>> /\ pc' = "idle"
    BY <1>7 DEF Rejected, Outside
  <2> QED BY <2>1, EnrolledStays DEF QuietInv
<1>8. CASE Travel \/ DockOrZoom \/ Rotate \/ DenyNotifications \/ SwitchLink \/ PlugOrUnplug
  <2>1. quiet' = FALSE
    BY <1>8
    DEF Travel, DockOrZoom, Rotate, DenyNotifications, SwitchLink, PlugOrUnplug, Change
  <2> QED BY <2>1
<1>9. CASE UNCHANGED vars
  <2>1. UNCHANGED <<device, env, pc, fp, baseline, quiet>>
    BY <1>9 DEF vars
  <2>2. AudioHashes' = AudioHashes /\ AtAudio' = AtAudio
    BY <2>1, SameDevice, SameReading
  <2>3. \A sum, minute : /\ AtBattery(sum)' = AtBattery(sum)
                         /\ AtDigests(sum)' = AtDigests(sum)
                         /\ AtHash(sum, minute)' = AtHash(sum, minute)
    BY <2>1, SameReading
  <2> QED BY <2>1, <2>2, <2>3 DEF QuietInv
<1> QED
  BY <1>1, <1>2, <1>3, <1>4, <1>5, <1>6, <1>7, <1>8, <1>9 DEF Next, Collect

(* Whether the zone check passes does not depend on the minute, unless the *)
(* browser names another zone close by.                                    *)
LEMMA ZoneVerdict ==
    ASSUME device \in Devices, env.zone \in Zones, NEW m \in Minutes, NEW n \in Minutes,
           \/ Honest \/ timeZone \notin Zones
           \/ ~(CircularDistance(OffsetOf[timeZone], OffsetOf[env.zone]) < 120)
    PROVE  ZoneMatches(timeZone, timezoneOffset, m, device.midnight)
               = ZoneMatches(timeZone, timezoneOffset, n, device.midnight)
<1>1. CASE Honest
  BY <1>1, TrueZonePasses DEF Honest, timeZone, timezoneOffset
<1>2. CASE timeZone \notin Zones
  BY <1>2 DEF ZoneMatches
<1>3. CASE timeZone \in Zones /\ ~(CircularDistance(OffsetOf[timeZone], OffsetOf[env.zone]) < 120)
  <2>1. ~ZoneMatches(timeZone, timezoneOffset, m, device.midnight)
    BY <1>3, PassingZoneIsNear DEF timezoneOffset
  <2>2. ~ZoneMatches(timeZone, timezoneOffset, n, device.midnight)
    BY <1>3, PassingZoneIsNear DEF timezoneOffset
  <2> QED BY <2>1, <2>2 DEF ZoneMatches
<1> QED BY <1>1, <1>2, <1>3

(* collectFingerprint gives the same hash for the same device in the same  *)
(* surroundings, at whatever minute and whatever the order in which its    *)
(* promises settle, if audio rendering does as it did; but for a browser   *)
(* that names a zone close to its own.                                     *)
THEOREM HashIsKept == Spec => []QuietDeviceKeepsHash
<1>1. TInv /\ IInv /\ FixedInv /\ QuietInv => QuietDeviceKeepsHash
  <2> SUFFICES ASSUME TInv, IInv, FixedInv, QuietInv, pc = "done", quiet, baseline # Nil,
                      fp.audioHash = baseline.audioHash, ~NamesNearbyZone
               PROVE  fp.hash = baseline.hash
    BY DEF QuietDeviceKeepsHash
  <2>1. PICK sum \in AudioHashes, m \in Minutes :
            fp = [AtHash(sum, m) EXCEPT !.hash = sha256(AtHash(sum, m))]
    BY DEF QuietInv
  <2>2. PICK enrolled \in AudioHashes, n \in Minutes :
            baseline.audioHash = enrolled /\ baseline.hash = sha256(AtHash(enrolled, n))
    BY DEF QuietInv
  <2>3. /\ fp.hash = sha256(AtHash(sum, m)) /\ fp.audioHash = sum
        /\ fp.timezone = timeZone /\ fp.timezoneOffset = timezoneOffset
    BY <2>1, HashFields DEF Unread
  <2>4. enrolled = sum
    BY <2>2, <2>3
  <2>5. -fp.timezoneOffset = OffsetOf[env.zone]
    BY <2>3, Offsets DEF timezoneOffset, IInv
  <2>6. \/ Honest \/ timeZone \notin Zones
        \/ ~(CircularDistance(OffsetOf[timeZone], OffsetOf[env.zone]) < 120)
    BY <2>3, <2>5 DEF NamesNearbyZone
  <2>7. ZoneMatches(timeZone, timezoneOffset, m, device.midnight)
            = ZoneMatches(timeZone, timezoneOffset, n, device.midnight)
    BY <2>6, ZoneVerdict DEF IInv
  <2>8. \A engine, webgl, plugins :
            checkConsistency(engine, webgl, plugins, m)
                = checkConsistency(engine, webgl, plugins, n)
    BY <2>7 DEF checkConsistency
  <2>9. AtHash(sum, m) = AtHash(sum, n)
    BY <2>8 DEF AtHash
  <2> QED BY <2>2, <2>3, <2>4, <2>9
<1> QED BY <1>1, Fixed, InitQuiet, NextQuiet, PTL DEF Spec
=============================================================================
