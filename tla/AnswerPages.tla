----------------------------- MODULE AnswerPages -----------------------------
(***************************************************************************)
(* What a login that is evaluated tells its user: the reasons that the     *)
(* engine collects beside its deductions (engine.go), and what the         *)
(* dashboard (DashboardPage.tsx) shows of them, over the growing history   *)
(* of ScoreHistory.                                                        *)
(***************************************************************************)
EXTENDS ScoreHistory, FiniteSetsExt

(* The reasons: each is appended beside a deduction.                       *)
PointsOf ==
    [automation |-> 25, engine |-> 5, zone |-> 5, plugins |-> 5, webgl |-> 5,
     zoneName |-> 5, zoneOffset |-> 10, userAgent |-> 10,
     ja3 |-> 10, ja4 |-> 15, peetPrint |-> 5,
     hash |-> 10, canvas |-> 5, audio |-> 3, math |-> 3, renderer |-> 5,
     platform |-> 5, screen |-> 3]

FiredRules(history, current, info) ==
    LET client == current.client
        Failed(a) == Reported(client, a) /\ client[a] = FALSE
        NewPrint(layer) == history # << >> /\ ~Seen(history, layer, current)
        NewHash == history # << >> /\ Unseen(history, "hash", client)
        New(a) == NewHash /\ Unseen(history, a, client)
    IN  [automation |-> Reported(client, "isAutomated") /\ client["isAutomated"],
         engine |-> Failed("engineMatchesUA"),
         zone |-> Failed("timezoneMatchesOffset"),
         plugins |-> Failed("pluginsMatchEngine"),
         webgl |-> Failed("webglMatchesPlatform"),
         zoneName |-> TimezonePoints(client, info) > 0,
         zoneOffset |-> OffsetPoints(client, info) > 0,
         userAgent |-> UserAgentPoints(current) > 0,
         ja3 |-> NewPrint("ja3"), ja4 |-> NewPrint("ja4"),
         peetPrint |-> NewPrint("peetPrint"),
         hash |-> NewHash, canvas |-> New("canvasHash"), audio |-> New("audioHash"),
         math |-> New("mathHash"), renderer |-> New("webglRenderer"),
         platform |-> New("platform"), screen |-> New("screenSize")]

\* MUTANT of Reasons: a deduction of the device layer without its reason.
ReasonsWithoutRenderer(history, current, info) ==
    {r \in DOMAIN PointsOf \ {"renderer"} : FiredRules(history, current, info)[r]}

Reasons(history, current, info) ==
    {r \in DOMAIN PointsOf : FiredRules(history, current, info)[r]}

-----------------------------------------------------------------------------
(* What the dashboard shows of an answer.                                  *)

\* MUTANT of scoreColor: yellow begins above 50.
scoreColorAbove(score) ==
    IF score >= 75 THEN "theme" ELSE IF score > 50 THEN "yellow" ELSE "red"

scoreColor(score) ==
    IF score >= 75 THEN "theme" ELSE IF score >= 50 THEN "yellow" ELSE "red"

\* A verdict without a style of its own, a ban for one, is drawn as a challenge.
badgeStyle(verdict) ==
    IF verdict \in {"allow", "challenge", "deny"} THEN verdict ELSE "challenge"

Dashboard(current, info) ==
    LET result == Evaluate(known, current, info)
    IN  [score |-> result.score, color |-> scoreColor(result.score),
         verdict |-> result.verdict, badge |-> badgeStyle(result.verdict),
         flags |-> Reasons(known, current, info)]

-----------------------------------------------------------------------------
(* The score is transparent (README line 13): the flags on the dashboard   *)
(* account for every point that was lost, and each tells the truth about   *)
(* the request and the history: no flag of the device layer stands without *)
(* the one of the hash, and none speaks of an attribute that some enrolled *)
(* browser shares.  The ring (ScoreRing.tsx line 7) is red, and the badge  *)
(* (VerdictBadge.tsx line 20) is not that of an allow, exactly when the    *)
(* engine's verdict (engine.go lines 170-173) is a ban.                    *)
Lost(flags) == MapThenSumSet(LAMBDA r : PointsOf[r], flags)

AttributeOf ==
    [canvas |-> "canvasHash", audio |-> "audioHash", math |-> "mathHash",
     renderer |-> "webglRenderer", platform |-> "platform", screen |-> "screenSize"]

LossesAreExplained ==
    \A fp \in Fingerprints, info \in Infos :
        LET shown == Dashboard(fp, info)
        IN  /\ shown.score = Clamp(100 - Lost(shown.flags))
            /\ shown.color = "red" <=> shown.verdict = "ban"
            /\ shown.badge # "allow" <=> shown.verdict = "ban"
            /\ \A flag \in DOMAIN AttributeOf \cap shown.flags :
                  /\ "hash" \in shown.flags
                  /\ ~SeenClient(known, AttributeOf[flag], fp.client)
=============================================================================
