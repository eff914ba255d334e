--------------------------- MODULE OperatorProofs ----------------------------
(* What the rules of Scoring can take, for every fingerprint, history and  *)
(* IP record: no state enters here.                                        *)
EXTENDS Scoring, TLAPS

(* A rule takes its points or nothing.                                     *)
LEMMA PointsBound ==
    ASSUME NEW failed, NEW n \in Nat
    PROVE  Points(failed, n) \in 0 .. n
BY DEF Points

(* What each group of rules can take (the weights of engine.go).           *)
LEMMA AutomationBound ==
    ASSUME NEW client
    PROVE  AutomationPoints(client) \in 0 .. 25
BY PointsBound DEF AutomationPoints

LEMMA ConsistencyBound ==
    ASSUME NEW client
    PROVE  ConsistencyPoints(client) \in 0 .. 20
<1> DEFINE Failed(a) == Reported(client, a) /\ client[a] = FALSE
<1>1. /\ Points(Failed("engineMatchesUA"), 5) \in 0 .. 5
      /\ Points(Failed("timezoneMatchesOffset"), 5) \in 0 .. 5
      /\ Points(Failed("pluginsMatchEngine"), 5) \in 0 .. 5
      /\ Points(Failed("webglMatchesPlatform"), 5) \in 0 .. 5
  BY PointsBound
<1> HIDE DEF Failed
<1>2. ConsistencyPoints(client)
         = Points(Failed("engineMatchesUA"), 5)
             + Points(Failed("timezoneMatchesOffset"), 5)
             + Points(Failed("pluginsMatchEngine"), 5)
             + Points(Failed("webglMatchesPlatform"), 5)
  BY DEF ConsistencyPoints, Failed
<1> QED BY <1>1, <1>2

LEMMA CrossLayerBound ==
    ASSUME NEW current, NEW info
    PROVE  CrossLayerPoints(current, info) \in 0 .. 25
<1>1. TimezonePoints(current.client, info) \in 0 .. 5
  BY PointsBound DEF TimezonePoints
<1>2. OffsetPoints(current.client, info) \in 0 .. 10
  BY PointsBound DEF OffsetPoints
<1>3. UserAgentPoints(current) \in 0 .. 10
  BY PointsBound DEF UserAgentPoints
<1> QED BY <1>1, <1>2, <1>3 DEF CrossLayerPoints

LEMMA TransportBound ==
    ASSUME NEW history, NEW current
    PROVE  TransportPoints(history, current) \in 0 .. 30
<1>1. /\ Points(~Seen(history, "ja3", current), 10) \in 0 .. 10
      /\ Points(~Seen(history, "ja4", current), 15) \in 0 .. 15
      /\ Points(~Seen(history, "peetPrint", current), 5) \in 0 .. 5
  BY PointsBound
<1> QED BY <1>1 DEF TransportPoints

LEMMA DeviceBound ==
    ASSUME NEW history, NEW client
    PROVE  DevicePoints(history, client) \in 0 .. 34
<1>1. /\ Points(Unseen(history, "canvasHash", client), 5) \in 0 .. 5
      /\ Points(Unseen(history, "audioHash", client), 3) \in 0 .. 3
      /\ Points(Unseen(history, "mathHash", client), 3) \in 0 .. 3
      /\ Points(Unseen(history, "webglRenderer", client), 5) \in 0 .. 5
      /\ Points(Unseen(history, "platform", client), 5) \in 0 .. 5
      /\ Points(Unseen(history, "screenSize", client), 3) \in 0 .. 3
  BY PointsBound
<1> QED BY <1>1 DEF DevicePoints

(* Novelty is the sum of the two histories' points, or nothing.            *)
LEMMA NoveltySplit ==
    ASSUME NEW history, NEW current
    PROVE  \/ NoveltyPoints(history, current) = 0
           \/ NoveltyPoints(history, current)
                 = TransportPoints(history, current)
                     + DevicePoints(history, current.client)
<1>1. CASE history # << >>
  BY <1>1 DEF NoveltyPoints
<1>2. CASE history = << >>
  BY <1>2 DEF NoveltyPoints
<1> QED BY <1>1, <1>2

LEMMA NoveltyBound ==
    ASSUME NEW history, NEW current
    PROVE  NoveltyPoints(history, current) \in 0 .. 64
<1>1. TransportPoints(history, current) \in 0 .. 30
  BY TransportBound
<1>2. DevicePoints(history, current.client) \in 0 .. 34
  BY DeviceBound
<1> QED BY <1>1, <1>2, NoveltySplit

(* The deductions lie between 0 and 134, so the score needs its clamp.     *)
LEMMA DeductionsBound ==
    ASSUME NEW history, NEW current, NEW info
    PROVE  Deductions(history, current, info) \in 0 .. 134
BY AutomationBound, ConsistencyBound, CrossLayerBound, NoveltyBound DEF Deductions

LEMMA ScoreBound ==
    ASSUME NEW history, NEW current, NEW info
    PROVE  Score(history, current, info) \in 0 .. 100
BY DeductionsBound DEF Score, Clamp
=============================================================================
