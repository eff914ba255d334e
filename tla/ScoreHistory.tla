---------------------------- MODULE ScoreHistory ----------------------------
(***************************************************************************)
(* The rule engine over a growing history: every step enrols one more      *)
(* fingerprint (store.AddFingerprint), and every property judges every     *)
(* fingerprint against the history reached.  The engine takes any history; *)
(* AuthService shows which ones the handlers build.                        *)
(***************************************************************************)
EXTENDS Scoring

CONSTANTS
    Fingerprints,    \* the fingerprints judged
    Enrollable,      \* those that may be enrolled
    Infos,           \* the IP records
    MaxHistory       \* bound on the enrolled fingerprints

ASSUME EnrollableAssumption == Enrollable \subseteq Fingerprints

VARIABLE known

vars == <<known>>

-----------------------------------------------------------------------------
Init == known = << >>

AddFingerprint(fp) ==
    /\ Len(known) < MaxHistory
    /\ known' = Append(known, fp)

Next == \E fp \in Enrollable : AddFingerprint(fp)

Spec == Init /\ [][Next]_vars

-----------------------------------------------------------------------------
(* Histories hold fingerprints; every score is in [0, 100] (README line    *)
(* 135) although the deductions of the rules add up to 134.                *)
TypeOK ==
    /\ known \in Seq(Fingerprints)
    /\ \A fp \in Fingerprints, info \in Infos : Score(known, fp, info) \in 0 .. 100

(* A fingerprint that is in the history is new in no rule, nil attributes  *)
(* and empty TLS prints included (lines 90-163): a user who comes back     *)
(* unchanged pays nothing for novelty.                                     *)
EnrolledIsNotNovel == \A i \in DOMAIN known : NoveltyPoints(known, known[i]) = 0

(* A ban takes failures in two layers: the browser alone, the comparison   *)
(* across layers alone, the TLS history alone and the device history alone *)
(* each leave the score at 50 or more (lines 31-173).                      *)
Layers(fp, info) ==
    {AutomationPoints(fp.client) + ConsistencyPoints(fp.client),
     CrossLayerPoints(fp, info),
     IF known = << >> THEN 0 ELSE TransportPoints(known, fp),
     IF known = << >> THEN 0 ELSE DevicePoints(known, fp.client)}

BanNeedsTwoLayers ==
    \A fp \in Fingerprints, info \in Infos :
        Evaluate(known, fp, info).verdict = "ban"
            => \A points \in Layers(fp, info) : Deductions(known, fp, info) > points

(* A complete browser whose TLS prints and device attributes the user      *)
(* never showed is banned without any other evidence (lines 90-173), which *)
(* is what makes a stolen password insufficient.                           *)
TakeoverIsBanned ==
    \A fp \in Fingerprints, info \in Infos :
        (/\ known # << >>
         /\ IsValid(fp.client)
         /\ \A layer \in {"ja3", "ja4", "peetPrint"} : ~Seen(known, layer, fp)
         /\ \A a \in {"hash", "canvasHash", "audioHash", "mathHash", "platform"} :
                ~SeenClient(known, a, fp.client))
            => Evaluate(known, fp, info).verdict = "ban"

(* Every rule skips what the browser did not report (the nil tests of     *)
(* lines 32-158), so a browser that withholds one attribute, or its whole  *)
(* fingerprint, is never judged harder than one that reports it: silence   *)
(* does not look like novelty.  A request without a fingerprint at all     *)
(* therefore loses TLS points only, and only the completeness test of the  *)
(* Emerald theme (handler.go lines 33, 86) stands between it and an allow. *)
Silenced(client, a) == [b \in Attributes |-> IF b = a THEN Nil ELSE client[b]]

Presenting(fp, client) ==
    [ja3 |-> fp.ja3, ja4 |-> fp.ja4, peetPrint |-> fp.peetPrint,
     userAgent |-> fp.userAgent, ip |-> fp.ip, client |-> client]

SilenceNeverHurts ==
    \A fp \in Fingerprints, info \in Infos :
        fp.client # Nil =>
            /\ Score(known, Presenting(fp, Nil), info) >= Score(known, fp, info)
            /\ Score(known, Presenting(fp, Nil), info) >= 70
            /\ \A a \in Attributes :
                  Score(known, Presenting(fp, Silenced(fp.client, a)), info)
                      >= Score(known, fp, info)

(* README line 131: a change of the network location costs 3 to 10 points. *)
(* The engine never reads the address of a fingerprint.                    *)
LocationChangeCosts ==
    \A fp \in Fingerprints, info \in Infos :
        (known # << >> /\ ~Seen(known, "ip", fp))
            => Deductions(known, fp, info)
                 >= 3 + Deductions(known, [fp EXCEPT !.ip = known[1].ip], info)
=============================================================================
