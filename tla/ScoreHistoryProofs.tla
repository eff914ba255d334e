-------------------------- MODULE ScoreHistoryProofs --------------------------
(* Theorems on the rule engine, for every fingerprint, history and record. *)
EXTENDS ScoreHistory, OperatorProofs

(* Histories are sequences of enrollable fingerprints.                     *)
HistoryOK == known \in Seq(Enrollable)

LEMMA HistoryInvariant == Spec => []HistoryOK
<1>1. Init => HistoryOK
  BY DEF Init, HistoryOK
<1>2. HistoryOK /\ [Next]_vars => HistoryOK'
  BY DEF HistoryOK, Next, AddFingerprint, vars
<1> QED BY <1>1, <1>2, PTL DEF Spec

(* Every score the engine gives is in [0, 100], whatever the history and   *)
(* whatever the request (engine.go lines 25-180).                          *)
THEOREM ScoresInRange == Spec => []TypeOK
<1>1. HistoryOK => TypeOK
  <2> SUFFICES ASSUME HistoryOK PROVE TypeOK
    OBVIOUS
  <2>1. known \in Seq(Fingerprints)
    BY EnrollableAssumption DEF HistoryOK
  <2>2. \A fp \in Fingerprints, info \in Infos : Score(known, fp, info) \in 0 .. 100
    BY ScoreBound
  <2> QED BY <2>1, <2>2 DEF TypeOK
<1> QED BY <1>1, HistoryInvariant, PTL

(* Without a client fingerprint only the TLS rules apply (engine.go lines  *)
(* 32-106).                                                                *)
LEMMA NilClientScore ==
    ASSUME NEW history, NEW fp, NEW info, fp.client = Nil
    PROVE  Score(history, fp, info) >= 70
<1>1. ~\E a : Reported(fp.client, a)
  BY DEF Reported
<1>2. AutomationPoints(fp.client) = 0
  BY <1>1 DEF AutomationPoints, Points
<1>3. ConsistencyPoints(fp.client) = 0
  BY <1>1 DEF ConsistencyPoints, Points
<1>4. CrossLayerPoints(fp, info) = 0
  <2>1. TimezonePoints(fp.client, info) = 0
    BY <1>1 DEF TimezonePoints, Points
  <2>2. OffsetPoints(fp.client, info) = 0
    BY <1>1 DEF OffsetPoints, Points
  <2>3. UserAgentPoints(fp) = 0
    BY <1>1 DEF UserAgentPoints, Points
  <2> QED BY <2>1, <2>2, <2>3 DEF CrossLayerPoints
<1>5. DevicePoints(history, fp.client) = 0
  BY <1>1 DEF DevicePoints, Unseen
<1>6. TransportPoints(history, fp) \in 0 .. 30
  BY TransportBound
<1>7. NoveltyPoints(history, fp) \in 0 .. 30
  BY <1>5, <1>6, NoveltySplit
<1> QED BY <1>2, <1>3, <1>4, <1>7 DEF Score, Deductions, Clamp

(* An enrolled fingerprint pays nothing for novelty (engine.go lines       *)
(* 90-163, 218-234), so a user who comes back unchanged loses no points.   *)
LEMMA SeenItself ==
    ASSUME NEW history \in Seq(Enrollable), NEW i \in DOMAIN history
    PROVE  NoveltyPoints(history, history[i]) = 0
<1> DEFINE fp == history[i]
<1>1. \A layer : Seen(history, layer, fp)
  BY DEF Seen
<1>2. TransportPoints(history, fp) = 0
  BY <1>1 DEF TransportPoints, Points
<1>3. ~Unseen(history, "hash", fp.client)
  BY DEF Unseen, SeenClient
<1>4. DevicePoints(history, fp.client) = 0
  BY <1>3 DEF DevicePoints
<1> QED BY <1>2, <1>4, NoveltySplit

THEOREM EnrolledIsKnown == Spec => []EnrolledIsNotNovel
<1>1. HistoryOK => EnrolledIsNotNovel
  BY SeenItself DEF HistoryOK, EnrolledIsNotNovel
<1> QED BY <1>1, HistoryInvariant, PTL

(* No layer bans alone: 45, 25, 30 and 34 points are all at most 50        *)
(* (engine.go lines 31-173).                                               *)
LEMMA TwoLayers ==
    ASSUME NEW history \in Seq(Enrollable), NEW fp, NEW info,
           Evaluate(history, fp, info).verdict = "ban"
    PROVE  Deductions(history, fp, info) > 50
<1>1. Evaluate(history, fp, info).verdict = Verdict(Score(history, fp, info))
  BY DEF Evaluate
<1>2. Score(history, fp, info) < 50
  BY <1>1 DEF Verdict
<1>3. Deductions(history, fp, info) \in 0 .. 134
  BY DeductionsBound
<1>4. \A d \in 0 .. 134 : Clamp(100 - d) < 50 => d > 50
  BY DEF Clamp
<1>5. Score(history, fp, info) = Clamp(100 - Deductions(history, fp, info))
  BY DEF Score
<1> QED BY <1>2, <1>3, <1>4, <1>5

THEOREM BanTakesTwoLayers == Spec => []BanNeedsTwoLayers
<1>1. HistoryOK => BanNeedsTwoLayers
  <2> SUFFICES ASSUME HistoryOK,
                      NEW fp \in Fingerprints, NEW info \in Infos,
                      Evaluate(known, fp, info).verdict = "ban",
                      NEW n \in Layers(fp, info)
               PROVE  Deductions(known, fp, info) > n
    BY DEF BanNeedsTwoLayers
  <2>1. Deductions(known, fp, info) > 50 /\ Deductions(known, fp, info) \in 0 .. 134
    BY TwoLayers, DeductionsBound DEF HistoryOK
  <2>2. AutomationPoints(fp.client) + ConsistencyPoints(fp.client) \in 0 .. 45
    BY AutomationBound, ConsistencyBound
  <2>3. CrossLayerPoints(fp, info) \in 0 .. 25
    BY CrossLayerBound
  <2>4. TransportPoints(known, fp) \in 0 .. 30 /\ DevicePoints(known, fp.client) \in 0 .. 34
    BY TransportBound, DeviceBound
  <2>5. \/ n = AutomationPoints(fp.client) + ConsistencyPoints(fp.client)
        \/ n = CrossLayerPoints(fp, info)
        \/ n = 0
        \/ n = TransportPoints(known, fp)
        \/ n = DevicePoints(known, fp.client)
    <3>1. CASE known = << >>
      BY <3>1 DEF Layers
    <3>2. CASE known # << >>
      BY <3>2 DEF Layers
    <3> QED BY <3>1, <3>2
  <2>6. n \in 0 .. 45
    BY <2>2, <2>3, <2>4, <2>5
  <2> QED BY <2>1, <2>6
<1> QED BY <1>1, HistoryInvariant, PTL

-----------------------------------------------------------------------------
NonEmpty(history) == history # << >>

(* One browser reports no more than another one, and the same where it     *)
(* reports.                                                                *)
ReportsLess(less, client) ==
    \A a \in Attributes : Reported(less, a) => Reported(client, a) /\ less[a] = client[a]

LEMMA PointsMonotone ==
    ASSUME NEW p, NEW q, NEW n \in Nat, p => q
    PROVE  /\ Points(p, n) <= Points(q, n)
           /\ Points(p, n) \in 0 .. n /\ Points(q, n) \in 0 .. n
BY DEF Points

(* The rules on the client alone take no more from a browser that reports  *)
(* less (engine.go lines 31-57).                                           *)
LEMMA ClientShrinks ==
    ASSUME NEW less, NEW client, ReportsLess(less, client)
    PROVE  AutomationPoints(less) + ConsistencyPoints(less)
             <= AutomationPoints(client) + ConsistencyPoints(client)
<1> DEFINE Failed(c, a) == Reported(c, a) /\ c[a] = FALSE
<1>1. AutomationPoints(less) <= AutomationPoints(client)
  BY PointsMonotone DEF AutomationPoints, ReportsLess, Attributes
<1>2. \A a \in Attributes : Failed(less, a) => Failed(client, a)
  BY DEF ReportsLess
<1>3. \A a \in Attributes : Points(Failed(less, a), 5) <= Points(Failed(client, a), 5)
  BY <1>2, PointsMonotone
<1>4. \A a \in Attributes :
         Points(Failed(less, a), 5) \in 0 .. 5 /\ Points(Failed(client, a), 5) \in 0 .. 5
  BY PointsBound
<1>5. /\ ConsistencyPoints(less)
             = Points(Failed(less, "engineMatchesUA"), 5)
               + Points(Failed(less, "timezoneMatchesOffset"), 5)
               + Points(Failed(less, "pluginsMatchEngine"), 5)
               + Points(Failed(less, "webglMatchesPlatform"), 5)
      /\ ConsistencyPoints(client)
             = Points(Failed(client, "engineMatchesUA"), 5)
               + Points(Failed(client, "timezoneMatchesOffset"), 5)
               + Points(Failed(client, "pluginsMatchEngine"), 5)
               + Points(Failed(client, "webglMatchesPlatform"), 5)
  BY DEF ConsistencyPoints
<1> HIDE DEF Failed
<1>6. ConsistencyPoints(less) <= ConsistencyPoints(client)
  BY <1>3, <1>4, <1>5 DEF Attributes
<1> QED BY <1>1, <1>6, AutomationBound, ConsistencyBound

(* Neither do the rules across layers (lines 59-87).                       *)
LEMMA CrossLayerShrinks ==
    ASSUME NEW fp, NEW quiet, NEW info, ReportsLess(quiet.client, fp.client),
           quiet.userAgent = fp.userAgent
    PROVE  CrossLayerPoints(quiet, info) <= CrossLayerPoints(fp, info)
<1>1. TimezonePoints(quiet.client, info) <= TimezonePoints(fp.client, info)
  BY PointsMonotone DEF TimezonePoints, ReportsLess, Attributes
<1>2. OffsetPoints(quiet.client, info) <= OffsetPoints(fp.client, info)
  BY PointsMonotone DEF OffsetPoints, ReportsLess, Attributes
<1>3. UserAgentPoints(quiet) <= UserAgentPoints(fp)
  BY PointsMonotone DEF UserAgentPoints, ReportsLess, Attributes
<1>4. /\ TimezonePoints(quiet.client, info) \in 0 .. 5 /\ TimezonePoints(fp.client, info) \in 0 .. 5
      /\ OffsetPoints(quiet.client, info) \in 0 .. 10 /\ OffsetPoints(fp.client, info) \in 0 .. 10
      /\ UserAgentPoints(quiet) \in 0 .. 10 /\ UserAgentPoints(fp) \in 0 .. 10
  BY PointsBound DEF TimezonePoints, OffsetPoints, UserAgentPoints
<1> QED BY <1>1, <1>2, <1>3, <1>4 DEF CrossLayerPoints

(* Nor does the comparison of devices: what is not reported is not new     *)
(* (lines 105-162).                                                        *)
LEMMA DeviceShrinks ==
    ASSUME NEW history, NEW less, NEW client, ReportsLess(less, client)
    PROVE  DevicePoints(history, less) <= DevicePoints(history, client)
<1>1. \A a \in Attributes : Unseen(history, a, less) => Unseen(history, a, client)
  BY DEF Unseen, SeenClient, ReportsLess
<1>2. CASE ~Unseen(history, "hash", less)
  <2>1. DevicePoints(history, less) = 0
    BY <1>2 DEF DevicePoints
  <2>2. DevicePoints(history, client) \in 0 .. 34
    BY DeviceBound
  <2> QED BY <2>1, <2>2
<1>3. CASE Unseen(history, "hash", less)
  <2> DEFINE P(c, a, n) == Points(Unseen(history, a, c), n)
             Left(c) == P(c, "canvasHash", 5) + P(c, "audioHash", 3) + P(c, "mathHash", 3)
             Right(c) == P(c, "webglRenderer", 5) + P(c, "platform", 5) + P(c, "screenSize", 3)
  <2>1. /\ DevicePoints(history, less)
               = 10 + P(less, "canvasHash", 5) + P(less, "audioHash", 3) + P(less, "mathHash", 3)
                 + P(less, "webglRenderer", 5) + P(less, "platform", 5) + P(less, "screenSize", 3)
        /\ DevicePoints(history, client)
               = 10 + P(client, "canvasHash", 5) + P(client, "audioHash", 3)
                 + P(client, "mathHash", 3) + P(client, "webglRenderer", 5)
                 + P(client, "platform", 5) + P(client, "screenSize", 3)
    BY <1>1, <1>3 DEF DevicePoints, Attributes
  <2>2. \A a \in Attributes : \A n \in Nat : P(less, a, n) <= P(client, a, n)
    BY <1>1, PointsMonotone
  <2>3. \A c, a : \A n \in Nat : P(c, a, n) \in 0 .. n
    BY PointsBound
  <2> HIDE DEF P
  <2>4. Left(less) <= Left(client) /\ Left(less) \in 0 .. 11 /\ Left(client) \in 0 .. 11
    <3>1. /\ P(less, "canvasHash", 5) \in 0 .. 5 /\ P(client, "canvasHash", 5) \in 0 .. 5
          /\ P(less, "audioHash", 3) \in 0 .. 3 /\ P(client, "audioHash", 3) \in 0 .. 3
          /\ P(less, "mathHash", 3) \in 0 .. 3 /\ P(client, "mathHash", 3) \in 0 .. 3
      BY <2>3
    <3>2. /\ P(less, "canvasHash", 5) <= P(client, "canvasHash", 5)
          /\ P(less, "audioHash", 3) <= P(client, "audioHash", 3)
          /\ P(less, "mathHash", 3) <= P(client, "mathHash", 3)
      BY <2>2 DEF Attributes
    <3> QED BY <3>1, <3>2
  <2>5. Right(less) <= Right(client) /\ Right(less) \in 0 .. 13 /\ Right(client) \in 0 .. 13
    <3>1. /\ P(less, "webglRenderer", 5) \in 0 .. 5 /\ P(client, "webglRenderer", 5) \in 0 .. 5
          /\ P(less, "platform", 5) \in 0 .. 5 /\ P(client, "platform", 5) \in 0 .. 5
          /\ P(less, "screenSize", 3) \in 0 .. 3 /\ P(client, "screenSize", 3) \in 0 .. 3
      BY <2>3
    <3>2. /\ P(less, "webglRenderer", 5) <= P(client, "webglRenderer", 5)
          /\ P(less, "platform", 5) <= P(client, "platform", 5)
          /\ P(less, "screenSize", 3) <= P(client, "screenSize", 3)
      BY <2>2 DEF Attributes
    <3> QED BY <3>1, <3>2
  <2>6. /\ DevicePoints(history, less) = 10 + Left(less) + Right(less)
        /\ DevicePoints(history, client) = 10 + Left(client) + Right(client)
    <3>1. /\ P(less, "canvasHash", 5) \in 0 .. 5 /\ P(less, "audioHash", 3) \in 0 .. 3
          /\ P(less, "mathHash", 3) \in 0 .. 3 /\ P(less, "webglRenderer", 5) \in 0 .. 5
          /\ P(less, "platform", 5) \in 0 .. 5 /\ P(less, "screenSize", 3) \in 0 .. 3
      BY <2>3
    <3>2. /\ P(client, "canvasHash", 5) \in 0 .. 5 /\ P(client, "audioHash", 3) \in 0 .. 3
          /\ P(client, "mathHash", 3) \in 0 .. 3 /\ P(client, "webglRenderer", 5) \in 0 .. 5
          /\ P(client, "platform", 5) \in 0 .. 5 /\ P(client, "screenSize", 3) \in 0 .. 3
      BY <2>3
    <3>3. DevicePoints(history, less) = 10 + Left(less) + Right(less)
      BY <2>1, <3>1
    <3>4. DevicePoints(history, client) = 10 + Left(client) + Right(client)
      BY <2>1, <3>2
    <3> QED BY <3>3, <3>4
  <2> HIDE DEF Left, Right
  <2> QED BY <2>4, <2>5, <2>6
<1> QED BY <1>2, <1>3

(* A request that reports less over the same connection scores no less.    *)
LEMMA QuieterScoresNoLess ==
    ASSUME NEW history, NEW fp, NEW quiet, NEW info,
           ReportsLess(quiet.client, fp.client),
           /\ quiet.ja3 = fp.ja3 /\ quiet.ja4 = fp.ja4 /\ quiet.peetPrint = fp.peetPrint
           /\ quiet.userAgent = fp.userAgent
    PROVE  Score(history, quiet, info) >= Score(history, fp, info)
<1>1. AutomationPoints(quiet.client) + ConsistencyPoints(quiet.client)
        <= AutomationPoints(fp.client) + ConsistencyPoints(fp.client)
  BY ClientShrinks
<1>2. CrossLayerPoints(quiet, info) <= CrossLayerPoints(fp, info)
  BY CrossLayerShrinks
<1>3. NoveltyPoints(history, quiet) <= NoveltyPoints(history, fp)
  <2>1. TransportPoints(history, quiet) = TransportPoints(history, fp)
    BY DEF TransportPoints, Seen
  <2>2. DevicePoints(history, quiet.client) <= DevicePoints(history, fp.client)
    BY DeviceShrinks
  <2>3. /\ TransportPoints(history, fp) \in 0 .. 30
        /\ DevicePoints(history, quiet.client) \in 0 .. 34
        /\ DevicePoints(history, fp.client) \in 0 .. 34
    BY TransportBound, DeviceBound
  <2>4. CASE NonEmpty(history)
    <3>1. /\ NoveltyPoints(history, quiet)
                 = TransportPoints(history, fp) + DevicePoints(history, quiet.client)
          /\ NoveltyPoints(history, fp)
                 = TransportPoints(history, fp) + DevicePoints(history, fp.client)
      BY <2>1, <2>4 DEF NoveltyPoints, NonEmpty
    <3> QED BY <2>2, <2>3, <3>1
  <2>5. CASE ~NonEmpty(history)
    BY <2>5 DEF NoveltyPoints, NonEmpty
  <2> QED BY <2>4, <2>5
<1>4. /\ AutomationPoints(quiet.client) \in 0 .. 25 /\ ConsistencyPoints(quiet.client) \in 0 .. 20
      /\ AutomationPoints(fp.client) \in 0 .. 25 /\ ConsistencyPoints(fp.client) \in 0 .. 20
      /\ CrossLayerPoints(quiet, info) \in 0 .. 25 /\ CrossLayerPoints(fp, info) \in 0 .. 25
      /\ NoveltyPoints(history, quiet) \in 0 .. 64 /\ NoveltyPoints(history, fp) \in 0 .. 64
  BY AutomationBound, ConsistencyBound, CrossLayerBound, NoveltyBound
<1>5. /\ Deductions(history, quiet, info) <= Deductions(history, fp, info)
      /\ Deductions(history, quiet, info) \in 0 .. 134
      /\ Deductions(history, fp, info) \in 0 .. 134
  <2> DEFINE a == AutomationPoints(quiet.client)   w == AutomationPoints(fp.client)
             b == ConsistencyPoints(quiet.client)  x == ConsistencyPoints(fp.client)
             c == CrossLayerPoints(quiet, info)    y == CrossLayerPoints(fp, info)
             d == NoveltyPoints(history, quiet)    z == NoveltyPoints(history, fp)
  <2>1. /\ a \in 0 .. 25 /\ b \in 0 .. 20 /\ c \in 0 .. 25 /\ d \in 0 .. 64
        /\ w \in 0 .. 25 /\ x \in 0 .. 20 /\ y \in 0 .. 25 /\ z \in 0 .. 64
        /\ a + b <= w + x /\ c <= y /\ d <= z
    BY <1>1, <1>2, <1>3, <1>4
  <2>2. /\ Deductions(history, quiet, info) = a + b + c + d
        /\ Deductions(history, fp, info) = w + x + y + z
    BY DEF Deductions
  <2> HIDE DEF a, b, c, d, w, x, y, z
  <2>3. a + b + c + d <= w + x + y + z
    <3> DEFINE m == a + b   n == w + x
    <3>1. m \in Int /\ n \in Int /\ m <= n
      BY <2>1
    <3> HIDE DEF m, n
    <3>2. m + c <= n + y
      BY <2>1, <3>1
    <3>3. (m + c) + d <= (n + y) + z
      BY <2>1, <3>1, <3>2
    <3> QED BY <3>3 DEF m, n
  <2>4. a + b + c + d \in 0 .. 134 /\ w + x + y + z \in 0 .. 134
    BY <2>1
  <2> QED BY <2>2, <2>3, <2>4
<1>6. \A d, e \in 0 .. 134 : d <= e => Clamp(100 - d) >= Clamp(100 - e)
  BY DEF Clamp
<1>7. Clamp(100 - Deductions(history, quiet, info)) >= Clamp(100 - Deductions(history, fp, info))
  BY <1>5, <1>6
<1> QED BY <1>7 DEF Score

(* Withholding one attribute, or the whole fingerprint, never costs a      *)
(* point, whatever the history, the request and the IP record, and a       *)
(* request without a fingerprint is never banned (engine.go lines 25-173). *)
THEOREM SilenceIsFree == Spec => []SilenceNeverHurts
<1>1. SilenceNeverHurts
  <2> SUFFICES ASSUME NEW fp \in Fingerprints, NEW info \in Infos, fp.client # Nil
               PROVE  /\ Score(known, Presenting(fp, Nil), info) >= Score(known, fp, info)
                      /\ Score(known, Presenting(fp, Nil), info) >= 70
                      /\ \A a \in Attributes :
                            Score(known, Presenting(fp, Silenced(fp.client, a)), info)
                                >= Score(known, fp, info)
    BY DEF SilenceNeverHurts
  <2>1. \A c : /\ Presenting(fp, c).client = c /\ Presenting(fp, c).ja3 = fp.ja3
              /\ Presenting(fp, c).ja4 = fp.ja4 /\ Presenting(fp, c).peetPrint = fp.peetPrint
              /\ Presenting(fp, c).userAgent = fp.userAgent
    BY DEF Presenting
  <2>2. ReportsLess(Nil, fp.client)
    BY DEF ReportsLess, Reported
  <2>3. Score(known, Presenting(fp, Nil), info) >= Score(known, fp, info)
    BY <2>1, <2>2, QuieterScoresNoLess
  <2>4. Score(known, Presenting(fp, Nil), info) >= 70
    BY <2>1, NilClientScore
  <2>5. ASSUME NEW a \in Attributes
        PROVE  Score(known, Presenting(fp, Silenced(fp.client, a)), info)
                  >= Score(known, fp, info)
    <3>1. ReportsLess(Silenced(fp.client, a), fp.client)
      BY DEF ReportsLess, Reported, Silenced
    <3> QED BY <2>1, <3>1, QuieterScoresNoLess
  <2> QED BY <2>3, <2>4, <2>5
<1> QED BY <1>1, PTL

-----------------------------------------------------------------------------
(* A complete client that shows nothing the user ever showed.              *)
LEMMA NewDevicePoints ==
    ASSUME NEW history, NEW client, IsValid(client),
           \A a \in {"hash", "canvasHash", "audioHash", "mathHash", "platform"} :
               ~SeenClient(history, a, client)
    PROVE  DevicePoints(history, client) \in 26 .. 34
<1>1. \A a \in {"hash", "canvasHash", "audioHash", "mathHash", "platform"} :
         Unseen(history, a, client)
  BY DEF Unseen, Reported, IsValid, RequiredAttributes, Attributes
<1>2. /\ Points(Unseen(history, "webglRenderer", client), 5) \in 0 .. 5
      /\ Points(Unseen(history, "screenSize", client), 3) \in 0 .. 3
  BY PointsBound
<1>3. /\ Points(Unseen(history, "canvasHash", client), 5) = 5
      /\ Points(Unseen(history, "audioHash", client), 3) = 3
      /\ Points(Unseen(history, "mathHash", client), 3) = 3
      /\ Points(Unseen(history, "platform", client), 5) = 5
  BY <1>1 DEF Points
<1>4. Unseen(history, "hash", client)
  BY <1>1
<1> QED BY <1>2, <1>3, <1>4 DEF DevicePoints

(* Novelty that takes more than 50 points bans on its own.                 *)
LEMMA NoveltyBans ==
    ASSUME NEW history, NEW current, NEW info, NoveltyPoints(history, current) \in 51 .. 64
    PROVE  Evaluate(history, current, info).verdict = "ban"
<1>1. Deductions(history, current, info) \in 51 .. 134
  BY AutomationBound, ConsistencyBound, CrossLayerBound DEF Deductions
<1>2. Score(history, current, info) \in 0 .. 49
  BY <1>1 DEF Score, Clamp
<1> QED BY <1>2 DEF Evaluate, Verdict

(* Whoever logs in with the right password from a complete browser that    *)
(* shares no TLS print and none of five device attributes with the user's  *)
(* history is banned, whatever history, fingerprint and IP record: novelty *)
(* alone takes 56 points (engine.go lines 90-173).                         *)
THEOREM TakeoverFails == Spec => []TakeoverIsBanned
<1>1. TakeoverIsBanned
  <2> SUFFICES ASSUME NEW fp \in Fingerprints, NEW info \in Infos,
                      known # << >>, IsValid(fp.client),
                      \A layer \in {"ja3", "ja4", "peetPrint"} : ~Seen(known, layer, fp),
                      \A a \in {"hash", "canvasHash", "audioHash", "mathHash", "platform"} :
                          ~SeenClient(known, a, fp.client)
               PROVE  Evaluate(known, fp, info).verdict = "ban"
    BY DEF TakeoverIsBanned
  <2>1. TransportPoints(known, fp) = 30
    BY DEF TransportPoints, Points
  <2>2. DevicePoints(known, fp.client) \in 26 .. 34
    BY NewDevicePoints
  <2>3. NoveltyPoints(known, fp) = TransportPoints(known, fp) + DevicePoints(known, fp.client)
    BY DEF NoveltyPoints
  <2>4. NoveltyPoints(known, fp) \in 51 .. 64
    BY <2>1, <2>2, <2>3
  <2> QED BY <2>4, NoveltyBans
<1> QED BY <1>1, PTL
=============================================================================
