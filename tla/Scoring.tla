------------------------------- MODULE Scoring -------------------------------
(***************************************************************************)
(* The rule engine of pkg/sentinel/scoring/engine.go and the completeness  *)
(* test of pkg/sentinel/js_fingerprint/valid.go, as operators.             *)
(*                                                                         *)
(* A fingerprint is a record [ja3, ja4, peetPrint, userAgent, ip, client]. *)
(* Its client part is Nil (no fingerprint sent) or a function from the     *)
(* attribute names below to nullable values.  Nested structures of the     *)
(* code are flattened: Evaluate and IsValid treat an absent structure and  *)
(* one whose attribute is absent alike.  "others" is present when all the  *)
(* attributes that IsValid demands and Evaluate never reads are.           *)
(*                                                                         *)
(* An IP record carries what the engine reads of ipdata.IPInfo (the time   *)
(* zone name, "" when absent, and the offset in minutes, Nil when absent   *)
(* or not parsable) and the threat flags that screening reads.             *)
(***************************************************************************)
EXTENDS Integers, Sequences

CONSTANT Nil         \* the nil pointer

ASSUME NilAssumption == Nil \notin BOOLEAN

(* Attributes that a novelty test compares with the history, and those     *)
(* that the other rules read.                                              *)
Attributes ==
    {"userAgent", "timezone", "timezoneOffset", "isAutomated",
     "engineMatchesUA", "timezoneMatchesOffset", "pluginsMatchEngine",
     "webglMatchesPlatform", "hash", "canvasHash", "audioHash", "mathHash",
     "webglRenderer", "platform", "screenSize", "others"}

(* unmaskedRenderer is read by Evaluate and not demanded by IsValid.       *)
RequiredAttributes == Attributes \ {"webglRenderer"}

IsValid(client) ==
    client # Nil /\ \A a \in RequiredAttributes : client[a] # Nil

Points(failed, n) == IF failed THEN n ELSE 0

-----------------------------------------------------------------------------
(* Rules on the client fingerprint alone.                                  *)
Reported(client, a) == client # Nil /\ client[a] # Nil

AutomationPoints(client) ==
    Points(Reported(client, "isAutomated") /\ client["isAutomated"] = TRUE, 25)

ConsistencyPoints(client) ==
    LET Failed(a) == Reported(client, a) /\ client[a] = FALSE
    IN  Points(Failed("engineMatchesUA"), 5)
        + Points(Failed("timezoneMatchesOffset"), 5)
        + Points(Failed("pluginsMatchEngine"), 5)
        + Points(Failed("webglMatchesPlatform"), 5)

-----------------------------------------------------------------------------
(* The offset that ipdata sends as text, "+0530": a sequence of characters *)
(* without the blanks around it.                                           *)
Numerals == <<"0", "1", "2", "3", "4", "5", "6", "7", "8", "9">>

IsDigit(c) == \E n \in 0..9 : Numerals[n + 1] = c

DigitValue(c) == CHOOSE n \in 0..9 : Numerals[n + 1] = c

\* strconv.Atoi of two characters: the first may be a sign.  Nil is its error.
Atoi(a, b) ==
    IF ~IsDigit(b) THEN Nil
    ELSE IF IsDigit(a) THEN 10 * DigitValue(a) + DigitValue(b)
    ELSE IF a = "+" THEN DigitValue(b)
    ELSE IF a = "-" THEN -DigitValue(b)
    ELSE Nil

Parsable(offset) ==
    /\ Len(offset) = 5
    /\ offset[1] \in {"+", "-"}
    /\ Atoi(offset[2], offset[3]) # Nil
    /\ Atoi(offset[4], offset[5]) # Nil

\* MUTANT of ipOffsetToMinutes: the sign goes with the hours alone.
ipOffsetToMinutesSignsHours(offset) ==
    IF Parsable(offset)
    THEN LET sign == IF offset[1] = "+" THEN 1 ELSE -1
         IN  sign * Atoi(offset[2], offset[3]) * 60 + Atoi(offset[4], offset[5])
    ELSE Nil

ipOffsetToMinutes(offset) ==
    IF Parsable(offset)
    THEN LET sign == IF offset[1] = "+" THEN 1 ELSE -1
         IN  sign * (Atoi(offset[2], offset[3]) * 60 + Atoi(offset[4], offset[5]))
    ELSE Nil

-----------------------------------------------------------------------------
(* Rules across layers: what the browser says, what its IP address and its *)
(* HTTP headers say.                                                       *)

\* JS Date.getTimezoneOffset() counts minutes west of UTC.
jsOffsetToUTCMinutes(jsOffset) == -jsOffset

TimezonePoints(client, info) ==
    Points(/\ Reported(client, "timezone")
           /\ info.timezone # ""
           /\ client["timezone"] # info.timezone, 5)

OffsetPoints(client, info) ==
    Points(/\ Reported(client, "timezoneOffset")
           /\ info.offset # Nil
           /\ jsOffsetToUTCMinutes(client["timezoneOffset"]) # info.offset, 10)

UserAgentPoints(current) ==
    Points(/\ Reported(current.client, "userAgent")
           /\ current.userAgent # ""
           /\ current.client["userAgent"] # current.userAgent, 10)

CrossLayerPoints(current, info) ==
    TimezonePoints(current.client, info) + OffsetPoints(current.client, info)
        + UserAgentPoints(current)

-----------------------------------------------------------------------------
(* Rules on novelty: what the user's history does not hold.                *)

\* anyMatch
Seen(known, layer, fp) == \E i \in DOMAIN known : known[i][layer] = fp[layer]

\* anyMatchClient
SeenClient(known, a, client) ==
    \E i \in DOMAIN known : Reported(known[i].client, a) /\ known[i].client[a] = client[a]

\* MUTANT of Unseen: what the browser does not report counts as new.
UnseenMissing(known, a, client) == client # Nil /\ ~SeenClient(known, a, client)

Unseen(known, a, client) == Reported(client, a) /\ ~SeenClient(known, a, client)

TransportPoints(known, current) ==
    Points(~Seen(known, "ja3", current), 10)
        + Points(~Seen(known, "ja4", current), 15)
        + Points(~Seen(known, "peetPrint", current), 5)

\* MUTANT of DevicePoints: the attributes behind the hash are not compared.
DevicePointsHashOnly(known, client) == Points(Unseen(known, "hash", client), 10)

\* The attributes are compared only when the hash over all of them is new.
DevicePoints(known, client) ==
    IF Unseen(known, "hash", client)
    THEN 10 + Points(Unseen(known, "canvasHash", client), 5)
            + Points(Unseen(known, "audioHash", client), 3)
            + Points(Unseen(known, "mathHash", client), 3)
            + Points(Unseen(known, "webglRenderer", client), 5)
            + Points(Unseen(known, "platform", client), 5)
            + Points(Unseen(known, "screenSize", client), 3)
    ELSE 0

\* A user without history is not compared with anything.
NoveltyPoints(known, current) ==
    IF known # << >>
    THEN TransportPoints(known, current) + DevicePoints(known, current.client)
    ELSE 0

-----------------------------------------------------------------------------
Deductions(known, current, info) ==
    AutomationPoints(current.client) + ConsistencyPoints(current.client)
        + CrossLayerPoints(current, info) + NoveltyPoints(known, current)

Clamp(score) == IF score < 0 THEN 0 ELSE score

Score(known, current, info) == Clamp(100 - Deductions(known, current, info))

\* MUTANT of Verdict: a stricter threshold.
VerdictStricter(score) == IF score < 60 THEN "ban" ELSE "allow"

Verdict(score) == IF score < 50 THEN "ban" ELSE "allow"

Evaluate(known, current, info) ==
    LET score == Score(known, current, info)
    IN  [score |-> score, verdict |-> Verdict(score)]
=============================================================================
