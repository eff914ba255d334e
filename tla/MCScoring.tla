------------------------------ MODULE MCScoring ------------------------------
(* ScoreHistory over browsers that differ in one attribute or in many.     *)
EXTENDS AnswerPages, SampleBrowsers

MCFingerprints == SampleFingerprints

MCInfos == {[timezone |-> "", offset |-> Nil],
          [timezone |-> "Europe/Berlin", offset |-> 60],
          [timezone |-> "America/New_York", offset |-> -300]}

\* Enrolment is explored over fewer fingerprints than judgement.
MCEnrollable ==
    {fp \in MCFingerprints : \/ fp.ip = "ip2"
                            \/ fp.client \in {Nil, Home, Foreign}
                            \/ fp.client["hash"] = Nil}
=============================================================================
