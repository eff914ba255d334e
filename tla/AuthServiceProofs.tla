-------------------------- MODULE AuthServiceProofs --------------------------
(* Theorems on the request path, for every set of requests, users,         *)
(* addresses and slots, every answer of ipdata.co and every cache size.    *)
EXTENDS AuthService, OperatorProofs

\* The lemmas used are those about Put: the log of FifoCacheProofs and the
\* bound on it take no part in them.
LOCAL CacheProofs == INSTANCE FifoCacheProofs
                        WITH Keys <- IPs, Values <- Infos,
                             ConfiguredSize <- IpDataFIFOLen,
                             log <- order, MaxPuts <- 0

CacheOK == Cache!TypeOK /\ Cache!Coherent /\ Cache!Bounded

LEMMA CacheInvSame == CacheProofs!CacheInv <=> CacheOK
BY DEF CacheOK, CacheProofs!CacheInv, CacheProofs!TypeOK, CacheProofs!Coherent,
       CacheProofs!Bounded, CacheProofs!KeysInOrder, CacheProofs!Capacity,
       CacheProofs!DefaultCapacity, CacheProofs!Entries,
       Cache!TypeOK, Cache!Coherent, Cache!Bounded, Cache!KeysInOrder,
       Cache!Capacity, Cache!DefaultCapacity, Cache!Entries

LEMMA PutSame ==
    ASSUME NEW k, NEW v
    PROVE  CacheProofs!Put(k, v) <=> Cache!Put(k, v)
BY DEF CacheProofs!Put, CacheProofs!Has, CacheProofs!cacheVars, CacheProofs!Insert,
       CacheProofs!Kept, CacheProofs!KeptKeys, CacheProofs!Full, CacheProofs!NewEntry,
       CacheProofs!Capacity, CacheProofs!DefaultCapacity,
       Cache!Put, Cache!Has, Cache!cacheVars, Cache!Insert,
       Cache!Kept, Cache!KeptKeys, Cache!Full, Cache!NewEntry,
       Cache!Capacity, Cache!DefaultCapacity

LEMMA CachePut ==
    ASSUME CacheOK, NEW k \in IPs, NEW v \in Infos, Cache!Put(k, v)
    PROVE  CacheOK'
<1>1. CacheProofs!CacheInv'
  BY CacheInvSame, PutSame, CacheProofs!PutCacheInv, IpDataFIFOLenAssumption
<1>2. CacheProofs!CacheInv' <=> CacheOK'
  BY CacheInvSame, PTL
<1> QED BY <1>1, <1>2

-----------------------------------------------------------------------------
(* Type correctness.  Past the first checks of a handler the body of the   *)
(* request is there; only a request that stands at "reply" has a response. *)
BodyLabels == {"createUser", "findUser", "insertFingerprint",
               "readUser", "readFingerprints", "evaluate"}

Enriching(s) == pc[s] \in {"enrich", "enrichFetch"} /\ msg[s].route = "login"

BodyInv ==
    \A s \in Slots :
        /\ pc[s] \in BodyLabels \/ Enriching(s) => msg[s].body # Nil
        /\ reply[s].outcome \in {"registered", "evaluated", "banned"}
              => msg[s].body # Nil

ReplyInv == \A s \in Slots : pc[s] # "reply" => reply[s] = NoReply

TInv == TypeOK /\ CacheOK /\ BodyInv /\ ReplyInv

(* A step that moves one request and decides its response at most.         *)
Moves(s, label, o, res) ==
    /\ pc' = [pc EXCEPT ![s] = label]
    /\ reply' = IF label = "reply"
                THEN [reply EXCEPT ![s] = [outcome |-> o, result |-> res]]
                ELSE reply

LEMMA MovesTInv ==
    ASSUME TInv, NEW s \in Slots, NEW label \in Labels, NEW o \in Outcomes,
           NEW res \in Results, Moves(s, label, o, res),
           pc[s] # "idle", pc[s] # "reply", label # "idle",
           UNCHANGED <<msg, hadBaseline>>,
           label \in BodyLabels => msg[s].body # Nil,
           label \in {"enrich", "enrichFetch"} /\ msg[s].route = "login"
              => msg[s].body # Nil,
           o \in {"registered", "evaluated", "banned"} => msg[s].body # Nil
    PROVE  /\ pc' \in [Slots -> Labels]
           /\ msg' \in [Slots -> Messages \cup {Nil}]
           /\ \A t \in Slots : pc'[t] = "idle" <=> msg'[t] = Nil
           /\ reply' \in [Slots -> [outcome : Outcomes, result : Results]]
           /\ hadBaseline' \in [Slots -> BOOLEAN]
           /\ BodyInv'
           /\ ReplyInv'
<1>1. /\ pc \in [Slots -> Labels] /\ msg \in [Slots -> Messages \cup {Nil}]
      /\ reply \in [Slots -> [outcome : Outcomes, result : Results]]
      /\ hadBaseline \in [Slots -> BOOLEAN]
      /\ \A t \in Slots : pc[t] = "idle" <=> msg[t] = Nil
  BY DEF TInv, TypeOK
<1>2. /\ pc' \in [Slots -> Labels] /\ pc'[s] = label
      /\ \A t \in Slots : t # s => pc'[t] = pc[t]
  BY <1>1 DEF Moves
<1>3. /\ reply' \in [Slots -> [outcome : Outcomes, result : Results]]
      /\ \A t \in Slots : t # s => reply'[t] = reply[t]
      /\ label = "reply" => reply'[s] = [outcome |-> o, result |-> res]
      /\ label # "reply" => reply'[s] = reply[s]
  <2>1. CASE label = "reply"
    BY <1>1, <2>1 DEF Moves
  <2>2. CASE label # "reply"
    BY <1>1, <2>2 DEF Moves
  <2> QED BY <2>1, <2>2
<1>4. \A t \in Slots : pc'[t] = "idle" <=> msg'[t] = Nil
  BY <1>1, <1>2
<1>5. ASSUME NEW t \in Slots
      PROVE  /\ pc'[t] \in BodyLabels \/ Enriching(t)' => msg'[t].body # Nil
             /\ reply'[t].outcome \in {"registered", "evaluated", "banned"}
                   => msg'[t].body # Nil
  <2>1. CASE t = s
    <3>1. reply[s] = NoReply
      BY DEF TInv, ReplyInv
    <3> QED BY <2>1, <3>1, <1>2, <1>3 DEF Enriching, NoReply
  <2>2. CASE t # s
    BY <2>2, <1>2, <1>3 DEF TInv, BodyInv, Enriching
  <2> QED BY <2>1, <2>2
<1>6. ReplyInv'
  BY <1>2, <1>3 DEF TInv, ReplyInv
<1> QED BY <1>1, <1>2, <1>3, <1>4, <1>5, <1>6 DEF BodyInv

(* The same for the two ways in which the actions move a request, on their *)
(* own: the request path as far as one request is concerned.               *)
PathOK ==
    /\ pc \in [Slots -> Labels]
    /\ msg \in [Slots -> Messages \cup {Nil}]
    /\ \A s \in Slots : pc[s] = "idle" <=> msg[s] = Nil
    /\ reply \in [Slots -> [outcome : Outcomes, result : Results]]
    /\ hadBaseline \in [Slots -> BOOLEAN]
    /\ BodyInv /\ ReplyInv

DataOK ==
    /\ info \in [Slots -> Infos]
    /\ user \in [Slots -> [hash : Passwords \cup {Nil}, fingerprints : Seq(Prints)]]
    /\ users \in [Users -> Passwords \cup {Nil}]
    /\ rows \in [Users -> Seq(Prints)]
    /\ promised \in [Users -> Prints \cup {Nil}]
    /\ acked \subseteq Users
    /\ CacheOK

LEMMA TInvParts == TInv <=> PathOK /\ DataOK
BY DEF TInv, TypeOK, CacheOK, PathOK, DataOK

LEMMA FinishPathOK ==
    ASSUME TInv, NEW s \in Slots, NEW o \in Outcomes, Finish(s, o),
           pc[s] # "idle", pc[s] # "reply", UNCHANGED <<msg, hadBaseline>>,
           o \in {"registered", "evaluated", "banned"} => msg[s].body # Nil
    PROVE  PathOK'
<1>1. Moves(s, "reply", o, Nil)
  BY DEF Finish, Answer, GoTo, Moves
<1>2. "reply" \in Labels \ {"idle"} /\ Nil \in Results /\ "reply" \notin BodyLabels
  BY DEF Labels, Results, BodyLabels
<1> QED BY <1>1, <1>2, MovesTInv DEF PathOK

LEMMA ContinuePathOK ==
    ASSUME TInv, NEW s \in Slots, NEW label \in Labels, Continue(s, label),
           pc[s] # "idle", pc[s] # "reply", label # "idle", label # "reply",
           UNCHANGED <<msg, hadBaseline>>,
           label \in BodyLabels => msg[s].body # Nil,
           label \in {"enrich", "enrichFetch"} /\ msg[s].route = "login"
              => msg[s].body # Nil
    PROVE  PathOK'
<1>1. Moves(s, label, "none", Nil)
  BY DEF Continue, GoTo, Moves
<1>2. "none" \in Outcomes /\ Nil \in Results
  BY DEF Outcomes, Results
<1> QED BY <1>1, <1>2, MovesTInv DEF PathOK

LEMMA LocalDataOK == DataOK /\ LocalStep => DataOK'
BY DEF DataOK, LocalStep, storeVars, cacheVars, historyVars, CacheOK, Cache!TypeOK,
       Cache!Coherent, Cache!Bounded, Cache!KeysInOrder, Cache!Entries

LEMMA CacheKept == CacheOK /\ UNCHANGED cacheVars => CacheOK'
BY DEF cacheVars, CacheOK, Cache!TypeOK, Cache!Coherent, Cache!Bounded,
       Cache!KeysInOrder, Cache!Entries

LEMMA NoUserType ==
    NoUser \in [hash : Passwords \cup {Nil}, fingerprints : Seq(Prints)]
BY DEF NoUser

LEMMA ZeroInfoType == ZeroInfo \in Infos
BY DEF Infos

(* The oldest row last: a permutation of the rows.                         *)
LEMMA ReverseType ==
    ASSUME NEW S, NEW q \in Seq(S)
    PROVE  Reverse(q) \in Seq(S)
BY DEF Reverse

-----------------------------------------------------------------------------
(* Type correctness, action by action.                                     *)
LEMMA StepTInv ==
    ASSUME TInv, NEW s \in Slots, Step(s)
    PROVE  TInv'
<1> USE DEF Outcomes, Labels, BodyLabels
<1>0. PathOK /\ DataOK
  BY TInvParts
<1>1. CASE ScreenHit(s) \/ EnrichHit(s)
  <2>1. PICK from \in {"screen", "enrich"}, to \in {"blacklist", "evaluate", "inspect"} :
           /\ CacheHit(s, from, to)
           /\ to = "evaluate" => from = "enrich" /\ msg[s].route = "login"
    BY <1>1 DEF ScreenHit, EnrichHit, AfterEnrich
  <2>2. PathOK'
    BY <2>1, ContinuePathOK DEF CacheHit, TInv, BodyInv, Enriching
  <2>3. DataOK'
    <3>1. Cache!Cached(ClientIP(msg[s])) \in Infos
      BY <1>0, <2>1 DEF DataOK, CacheOK, CacheHit, Cache!TypeOK, Cache!Cached, Cache!Has,
                        Cache!Entries
    <3>2. CacheOK'
      BY <1>0, <2>1, CacheKept DEF DataOK, CacheHit
    <3> QED BY <1>0, <2>1, <3>1, <3>2 DEF DataOK, CacheHit, storeVars, historyVars
  <2> QED BY <2>2, <2>3, TInvParts, PTL
<1>2. CASE ScreenMiss(s) \/ EnrichMiss(s)
  <2>1. PICK from \in {"screen", "enrich"}, to \in {"screenFetch", "enrichFetch"} :
           /\ CacheMiss(s, from, to)
           /\ to = "enrichFetch" => from = "enrich"
    BY <1>2 DEF ScreenMiss, EnrichMiss
  <2>2. PathOK'
    BY <2>1, ContinuePathOK DEF CacheMiss, LocalStep, TInv, BodyInv, Enriching
  <2>3. DataOK'
    BY <1>0, <2>1, LocalDataOK DEF CacheMiss
  <2> QED BY <2>2, <2>3, TInvParts, PTL
<1>3. CASE ScreenFetched(s) \/ EnrichFetched(s)
  <2>1. PICK from \in {"screenFetch", "enrichFetch"},
             to \in {"blacklist", "evaluate", "inspect"} :
           /\ Fetched(s, from, to)
           /\ to = "evaluate" => from = "enrichFetch" /\ msg[s].route = "login"
    BY <1>3 DEF ScreenFetched, EnrichFetched, AfterEnrich
  <2>2. PathOK'
    BY <2>1, ContinuePathOK DEF Fetched, TInv, BodyInv, Enriching
  <2>3. DataOK'
    <3>1. PICK answer \in Answers[ClientIP(msg[s])] :
             /\ Cache!Put(ClientIP(msg[s]), answer)
             /\ info' = [info EXCEPT ![s] = answer]
      BY <2>1 DEF Fetched
    <3>2. ClientIP(msg[s]) \in IPs
      BY <1>0, <2>1, MessagesAssumption DEF PathOK, Fetched
    <3>3. answer \in Infos
      BY <3>2 DEF Infos
    <3>4. CacheOK'
      BY <1>0, <3>1, <3>2, <3>3, CachePut DEF DataOK
    <3> QED BY <1>0, <2>1, <3>1, <3>3, <3>4 DEF DataOK, Fetched, storeVars, historyVars
  <2> QED BY <2>2, <2>3, TInvParts, PTL
<1>4. CASE EnrichFailed(s)
  <2>1. PathOK'
    BY <1>4, ContinuePathOK DEF EnrichFailed, AfterEnrich, TInv, BodyInv, Enriching
  <2>2. CacheOK'
    BY <1>0, <1>4, CacheKept DEF DataOK, EnrichFailed
  <2>3. info' \in [Slots -> Infos]
    BY <1>0, <1>4, ZeroInfoType DEF DataOK, EnrichFailed
  <2>4. DataOK'
    BY <1>0, <1>4, <2>2, <2>3 DEF DataOK, EnrichFailed, storeVars, historyVars
  <2> QED BY <2>1, <2>4, TInvParts, PTL
<1>5. CASE ScreenFailed(s) \/ CheckBlacklist(s) \/ ServePage(s) \/ DebugFingerprint(s)
  <2>1. DataOK'
    BY <1>0, <1>5, LocalDataOK DEF ScreenFailed, CheckBlacklist, ServePage, DebugFingerprint
  <2>2. PathOK'
    BY <1>5, FinishPathOK, ContinuePathOK
       DEF ScreenFailed, CheckBlacklist, ServePage, DebugFingerprint, LocalStep
  <2> QED BY <2>1, <2>2, TInvParts, PTL
<1>6. CASE StartDebug(s)
  <2>1. PathOK'
    BY <1>6, ContinuePathOK DEF StartDebug, LocalStep
  <2> QED BY <1>0, <1>6, <2>1, LocalDataOK, TInvParts, PTL DEF StartDebug
<1>7. CASE Register(s)
  <2>1. DataOK'
    BY <1>0, <1>7, LocalDataOK DEF Register
  <2>2. PathOK'
    BY <1>7, FinishPathOK, ContinuePathOK DEF Register, LocalStep
  <2> QED BY <2>1, <2>2, TInvParts, PTL
<1>8. CASE Login(s)
  <2>1. DataOK'
    BY <1>0, <1>8, LocalDataOK DEF Login
  <2>2. PathOK'
    BY <1>8, FinishPathOK, ContinuePathOK DEF Login, LocalStep
  <2> QED BY <2>1, <2>2, TInvParts, PTL
<1>9. CASE CreateUser(s)
  <2>1. PathOK'
    BY <1>9, FinishPathOK, ContinuePathOK
       DEF CreateUser, UserExists, TInv, BodyInv
  <2>2. msg[s] \in Submissions
    BY <1>0, <1>9, MessagesAssumption DEF PathOK, BodyInv, CreateUser, Submissions
  <2>3. /\ Username(s) \in Users /\ msg[s].body.password \in Passwords
        /\ Fingerprint(msg[s]) \in Prints
    BY <2>2, MessagesAssumption DEF Username, Passwords, Prints
  <2>4. CacheOK'
    BY <1>0, <1>9, CacheKept DEF DataOK, CreateUser
  <2>5. DataOK'
    BY <1>0, <1>9, <2>3, <2>4 DEF DataOK, CreateUser, InsertUser, storeVars
  <2> QED BY <2>1, <2>5, TInvParts, PTL
<1>10. CASE FindUser(s)
  <2>1. PathOK'
    BY <1>10, FinishPathOK, ContinuePathOK DEF FindUser, LocalStep, TInv, BodyInv
  <2> QED BY <1>0, <1>10, <2>1, LocalDataOK, TInvParts, PTL DEF FindUser
<1>11. CASE InsertFingerprint(s)
  <2>1. PathOK'
    BY <1>11, FinishPathOK DEF InsertFingerprint, TInv, BodyInv
  <2>2. msg[s] \in Submissions
    BY <1>0, <1>11 DEF PathOK, BodyInv, InsertFingerprint, Submissions
  <2>3. Username(s) \in Users /\ Fingerprint(msg[s]) \in Prints
    BY <2>2, MessagesAssumption DEF Username, Prints
  <2>4. CacheOK'
    BY <1>0, <1>11, CacheKept DEF DataOK, InsertFingerprint
  <2>5. rows' \in [Users -> Seq(Prints)]
    <3>1. rows \in [Users -> Seq(Prints)]
      BY <1>0 DEF DataOK
    <3>2. Append(rows[Username(s)], Fingerprint(msg[s])) \in Seq(Prints)
      BY <2>3, <3>1
    <3>3. CASE UNCHANGED storeVars
      BY <3>1, <3>3 DEF storeVars
    <3>4. CASE rows' = [rows EXCEPT ![Username(s)]
                           = Append(rows[Username(s)], Fingerprint(msg[s]))]
      BY <3>1, <3>2, <3>4
    <3> QED BY <1>11, <3>3, <3>4 DEF InsertFingerprint, AppendRow
  <2>6. DataOK'
    BY <1>0, <1>11, <2>4, <2>5
       DEF DataOK, InsertFingerprint, AppendRow, storeVars, historyVars
  <2> QED BY <2>1, <2>6, TInvParts, PTL
<1>12. CASE ReadUser(s) \/ ReadFingerprints(s)
  <2>1. PathOK'
    BY <1>12, FinishPathOK, ContinuePathOK
       DEF ReadUser, ReadFingerprints, GetUserFailed, TInv, BodyInv
  <2>2. msg[s] \in Submissions
    BY <1>0, <1>12 DEF PathOK, BodyInv, ReadUser, ReadFingerprints, Submissions
  <2>3. Username(s) \in Users
    BY <2>2, MessagesAssumption DEF Username
  <2>4. CacheOK'
    BY <1>0, <1>12, CacheKept DEF DataOK, ReadUser, ReadFingerprints
  <2>5. Reverse(rows[Username(s)]) \in Seq(Prints)
    BY <1>0, <2>3, ReverseType DEF DataOK
  <2>6. user' \in [Slots -> [hash : Passwords \cup {Nil}, fingerprints : Seq(Prints)]]
    BY <1>0, <1>12, <2>3, <2>5 DEF DataOK, ReadUser, ReadFingerprints
  <2>7. DataOK'
    BY <1>0, <1>12, <2>4, <2>6 DEF DataOK, ReadUser, ReadFingerprints, storeVars, historyVars
  <2> QED BY <2>1, <2>7, TInvParts, PTL
<1>13. CASE EvaluateLogin(s)
  <2> DEFINE result == Evaluate(user[s].fingerprints, Fingerprint(msg[s]), info[s])
             banned == msg[s].body.theme = "Emerald" /\ result.verdict = "ban"
             o == IF banned THEN "banned" ELSE "evaluated"
  <2>1. result \in Results
    BY ScoreBound DEF Evaluate, Verdict, Results
  <2>2. pc[s] = "evaluate" /\ Answer(s, o, result) /\ LocalStep
    BY <1>13 DEF EvaluateLogin
  <2> HIDE DEF result, banned
  <2>3. Moves(s, "reply", o, result)
    BY <2>2 DEF Answer, GoTo, Moves
  <2>4. msg[s].body # Nil
    BY <1>0, <2>2 DEF PathOK, BodyInv
  <2>5. PathOK'
    BY <2>1, <2>2, <2>3, <2>4, MovesTInv DEF PathOK, LocalStep
  <2> QED BY <1>0, <2>2, <2>5, LocalDataOK, TInvParts, PTL
<1>14. CASE Respond(s)
  <2>1. Release({s}) /\ UNCHANGED <<storeVars, cacheVars, promised>>
    BY <1>14 DEF Respond
  <2>2. PathOK'
    BY <1>0, <2>1 DEF Release, PathOK, BodyInv, ReplyInv, Enriching, NoReply, Results
  <2>3. CacheOK'
    BY <1>0, <2>1, CacheKept DEF DataOK
  <2>4. acked' \subseteq Users
    <3>1. reply[s].outcome = "registered" => Username(s) \in Users
      BY <1>0, <1>14, MessagesAssumption
         DEF PathOK, BodyInv, Respond, Submissions, Username
    <3> QED BY <1>0, <1>14, <3>1 DEF DataOK, Respond
  <2>5. info' \in [Slots -> Infos]
    BY <1>0, <2>1, ZeroInfoType DEF DataOK, Release
  <2>6. user' \in [Slots -> [hash : Passwords \cup {Nil}, fingerprints : Seq(Prints)]]
    BY <1>0, <2>1, NoUserType DEF DataOK, Release
  <2>7. DataOK'
    BY <1>0, <2>1, <2>3, <2>4, <2>5, <2>6 DEF DataOK, storeVars
  <2> QED BY <2>2, <2>7, TInvParts, PTL
<1> QED BY <1>1, <1>2, <1>3, <1>4, <1>5, <1>6, <1>7, <1>8, <1>9, <1>10, <1>11, <1>12,
           <1>13, <1>14 DEF Step

LEMMA ArriveTInv ==
    ASSUME TInv, NEW s \in Slots, NEW m \in Messages, Arrive(s, m)
    PROVE  TInv'
<1>0. PathOK /\ DataOK
  BY TInvParts
<1>1. PathOK'
  <2>1. m # Nil
    BY MessagesAssumption
  <2>2. PICK label \in {"reply", "screen"}, o \in {"none", "probe"} :
           /\ pc' = [pc EXCEPT ![s] = label]
           /\ reply' = IF label = "reply"
                       THEN [reply EXCEPT ![s] = [outcome |-> o, result |-> Nil]]
                       ELSE reply
    BY DEF Arrive, Finish, Answer, GoTo, Continue
  <2>3. msg' = [msg EXCEPT ![s] = m]
    BY DEF Arrive
  <2>4. reply[s] = NoReply
    BY <1>0 DEF PathOK, ReplyInv, Arrive
  <2>5. hadBaseline' \in [Slots -> BOOLEAN]
    BY <1>0 DEF Arrive, PathOK
  <2>6. reply' \in [Slots -> [outcome : Outcomes, result : Results]]
    BY <1>0, <2>2 DEF PathOK, Outcomes, Results
  <2>7. pc' \in [Slots -> Labels] /\ msg' \in [Slots -> Messages \cup {Nil}]
    BY <1>0, <2>2, <2>3 DEF PathOK, Labels
  <2>8. ASSUME NEW t \in Slots
        PROVE  /\ pc'[t] = "idle" <=> msg'[t] = Nil
               /\ pc'[t] \in BodyLabels \/ Enriching(t)' => msg'[t].body # Nil
               /\ reply'[t].outcome \in {"registered", "evaluated", "banned"}
                     => msg'[t].body # Nil
               /\ pc'[t] # "reply" => reply'[t] = NoReply
    <3>1. CASE t = s
      BY <1>0, <2>1, <2>2, <2>3, <2>4, <3>1
         DEF PathOK, BodyLabels, Enriching, NoReply
    <3>2. CASE t # s
      BY <1>0, <2>2, <2>3, <3>2 DEF PathOK, BodyInv, ReplyInv, Enriching
    <3> QED BY <3>1, <3>2
  <2> QED BY <2>5, <2>6, <2>7, <2>8 DEF PathOK, BodyInv, ReplyInv
<1>2. CacheOK'
  BY <1>0, CacheKept DEF DataOK, Arrive
<1>3. DataOK'
  BY <1>0, <1>2 DEF DataOK, Arrive, storeVars, historyVars
<1> QED BY <1>1, <1>3, TInvParts, PTL

(* A cache that has just been made.                                        *)
LEMMA NewCacheOK == Cache!Init => CacheOK
<1> SUFFICES ASSUME Cache!Init PROVE CacheOK
  OBVIOUS
<1>1. CacheProofs!Init
  BY DEF Cache!Init, CacheProofs!Init, Cache!NoItems, CacheProofs!NoItems
<1> QED BY <1>1, CacheProofs!InitCacheInv, CacheInvSame, IpDataFIFOLenAssumption

LEMMA CrashTInv ==
    ASSUME TInv, Crash
    PROVE  TInv'
<1>0. PathOK /\ DataOK
  BY TInvParts
<1>1. PathOK'
  BY <1>0 DEF Crash, Release, PathOK, BodyInv, ReplyInv, Enriching, NoReply, Results,
              Labels, Outcomes, BodyLabels
<1>2. CacheOK'
  <2>1. Cache!Init'
    BY DEF Crash, Cache!Init, Cache!NoItems
  <2> QED BY <2>1, NewCacheOK, PTL
<1>3. info' \in [Slots -> Infos]
  BY ZeroInfoType DEF Crash, Release
<1>4. user' \in [Slots -> [hash : Passwords \cup {Nil}, fingerprints : Seq(Prints)]]
  BY NoUserType DEF Crash, Release
<1>5. DataOK'
  BY <1>0, <1>2, <1>3, <1>4 DEF DataOK, Crash, storeVars, historyVars
<1> QED BY <1>1, <1>5, TInvParts, PTL

LEMMA InitTInv == Init => TInv
<1> SUFFICES ASSUME Init PROVE TInv
  OBVIOUS
<1>1. PathOK
  BY DEF Init, PathOK, BodyInv, ReplyInv, Enriching, NoReply, Results, Labels, Outcomes,
         BodyLabels
<1>2. info \in [Slots -> Infos]
  BY ZeroInfoType DEF Init
<1>3. user \in [Slots -> [hash : Passwords \cup {Nil}, fingerprints : Seq(Prints)]]
  BY NoUserType DEF Init
<1>4. CacheOK
  BY NewCacheOK DEF Init
<1>5. DataOK
  BY <1>2, <1>3, <1>4 DEF Init, DataOK
<1> QED BY <1>1, <1>5, TInvParts

LEMMA StutterTInv == TInv /\ UNCHANGED vars => TInv'
<1> SUFFICES ASSUME TInv, UNCHANGED vars PROVE TInv'
  OBVIOUS
<1>0. PathOK /\ DataOK
  BY TInvParts
<1>1. PathOK'
  BY <1>0 DEF PathOK, BodyInv, ReplyInv, Enriching, vars, requestVars
<1>2. CacheOK'
  BY <1>0, CacheKept DEF DataOK, vars
<1>3. DataOK'
  BY <1>0, <1>2 DEF DataOK, vars, requestVars, storeVars, historyVars
<1> QED BY <1>1, <1>3, TInvParts, PTL

LEMMA NextTInv == TInv /\ [Next]_vars => TInv'
BY StepTInv, ArriveTInv, CrashTInv, StutterTInv DEF Next

(* Whatever the requests, the interleaving, the failures and the crashes,  *)
(* each response is one of those the handlers can give, each score lies in *)
(* 0 .. 100, and the tables and the cache hold well-formed entries.        *)
THEOREM TypeCorrect == Spec => []TypeOK
<1>1. TInv => TypeOK
  BY DEF TInv
<1> QED BY <1>1, InitTInv, NextTInv, PTL DEF Spec

-----------------------------------------------------------------------------
(* Baselines.  A registration that may still insert a row has created its  *)
(* account, is the only one of that account, and its row is the promised   *)
(* one: this is what makes BaselineIsCreators inductive.                   *)
Adding(s) == pc[s] \in {"findUser", "insertFingerprint"}

AccountInv ==
    /\ \A u \in Users : users[u] = Nil => rows[u] = << >>
    /\ BaselineIsCreators
    /\ \A s \in Slots : Adding(s) =>
          /\ users[Username(s)] # Nil
          /\ rows[Username(s)] = << >>
          /\ promised[Username(s)] = Fingerprint(msg[s])
    /\ \A s, t \in Slots :
          Adding(s) /\ Adding(t) /\ Username(s) = Username(t) => s = t

(* The requests that are about to write leave the tables alone and none    *)
(* joins them.                                                             *)
Quiet ==
    /\ UNCHANGED <<users, rows, promised>>
    /\ \A t \in Slots : Adding(t)' => Adding(t) /\ msg'[t] = msg[t]

LEMMA QuietAccountInv == AccountInv /\ Quiet => AccountInv'
<1> SUFFICES ASSUME AccountInv, Quiet PROVE AccountInv'
  OBVIOUS
<1>1. \A u \in Users : users'[u] = Nil => rows'[u] = << >>
  BY DEF AccountInv, Quiet
<1>2. BaselineIsCreators'
  BY DEF AccountInv, Quiet, BaselineIsCreators
<1>3. ASSUME NEW s \in Slots, Adding(s)'
      PROVE  /\ Adding(s) /\ Username(s)' = Username(s)
             /\ Fingerprint(msg[s])' = Fingerprint(msg[s])
  <2>1. Adding(s) /\ msg'[s] = msg[s]
    BY <1>3 DEF Quiet
  <2> QED BY <2>1 DEF Username, Fingerprint, ExtractFingerprint, Header, ClientIP
<1>4. ASSUME NEW s \in Slots, Adding(s)'
      PROVE  /\ users'[Username(s)'] # Nil
             /\ rows'[Username(s)'] = << >>
             /\ promised'[Username(s)'] = Fingerprint(msg[s])'
  BY <1>3, <1>4 DEF AccountInv, Quiet
<1>5. ASSUME NEW s \in Slots, NEW t \in Slots, Adding(s)', Adding(t)',
             Username(s)' = Username(t)'
      PROVE  s = t
  BY <1>3, <1>5 DEF AccountInv
<1> QED BY <1>1, <1>2, <1>4, <1>5 DEF AccountInv

(* Every step is quiet but the two that write.                             *)
LEMMA StepQuiet ==
    ASSUME TInv, NEW s \in Slots, Step(s), ~CreateUser(s), ~InsertFingerprint(s)
    PROVE  Quiet
<1>0. pc \in [Slots -> Labels]
  BY DEF TInv, TypeOK
<1>1. SUFFICES /\ UNCHANGED <<users, rows, promised>>
               /\ \A t \in Slots \ {s} : pc'[t] = pc[t] /\ msg'[t] = msg[t]
               /\ Adding(s)' => Adding(s) /\ msg'[s] = msg[s]
  BY DEF Quiet, Adding
<1> USE DEF LocalStep, storeVars, historyVars, Finish, Answer, Continue, GoTo, Adding
<1>2. CASE ScreenHit(s) \/ EnrichHit(s)
  BY <1>0, <1>2 DEF ScreenHit, EnrichHit, CacheHit, AfterEnrich
<1>3. CASE ScreenMiss(s) \/ EnrichMiss(s)
  BY <1>0, <1>3 DEF ScreenMiss, EnrichMiss, CacheMiss
<1>4. CASE ScreenFetched(s) \/ EnrichFetched(s)
  BY <1>0, <1>4 DEF ScreenFetched, EnrichFetched, Fetched, AfterEnrich
<1>5. CASE ScreenFailed(s) \/ EnrichFailed(s)
  BY <1>0, <1>5 DEF ScreenFailed, EnrichFailed, AfterEnrich
<1>6. CASE CheckBlacklist(s) \/ ServePage(s)
  BY <1>0, <1>6 DEF CheckBlacklist, ServePage
<1>7. CASE Register(s) \/ Login(s) \/ StartDebug(s)
  BY <1>0, <1>7 DEF Register, Login, StartDebug
<1>8. CASE FindUser(s)
  BY <1>0, <1>8 DEF FindUser
<1>9. CASE ReadUser(s) \/ ReadFingerprints(s)
  BY <1>0, <1>9 DEF ReadUser, ReadFingerprints, GetUserFailed
<1>10. CASE EvaluateLogin(s) \/ DebugFingerprint(s)
  BY <1>0, <1>10 DEF EvaluateLogin, DebugFingerprint
<1>11. CASE Respond(s)
  BY <1>0, <1>11 DEF Respond, Release
<1> QED BY <1>2, <1>3, <1>4, <1>5, <1>6, <1>7, <1>8, <1>9, <1>10, <1>11 DEF Step

(* What a request that writes brings with it.                              *)
LEMMA WriterBody ==
    ASSUME TInv, NEW s \in Slots, pc[s] \in {"createUser", "findUser", "insertFingerprint"}
    PROVE  /\ Username(s) \in Users
           /\ msg[s].body.password \in Passwords
           /\ msg[s].body.password # Nil
           /\ Fingerprint(msg[s]) \in Prints
<1>1. msg[s] \in Submissions
  BY DEF TInv, TypeOK, BodyInv, BodyLabels, Submissions
<1> QED BY <1>1, MessagesAssumption DEF Username, Passwords, Prints

LEMMA CreateUserAccountInv ==
    ASSUME TInv, AccountInv, NEW s \in Slots, CreateUser(s)
    PROVE  AccountInv'
<1> DEFINE u == Username(s)
<1>0. pc \in [Slots -> Labels] /\ users \in [Users -> Passwords \cup {Nil}]
      /\ promised \in [Users -> Prints \cup {Nil}]
  BY DEF TInv, TypeOK
<1>1. u \in Users /\ msg[s].body.password # Nil /\ pc[s] = "createUser"
  BY WriterBody DEF CreateUser
<1>2. UNCHANGED <<msg, rows>> /\ \A t \in Slots \ {s} : pc'[t] = pc[t]
  BY <1>0 DEF CreateUser, InsertUser, storeVars, Continue, Finish, Answer, GoTo, UserExists
<1>3. CASE UNCHANGED <<users, promised>> /\ ~Adding(s)'
  BY <1>2, <1>3, QuietAccountInv DEF Quiet, Adding
<1>4. CASE /\ users[u] = Nil
           /\ users' = [users EXCEPT ![u] = msg[s].body.password]
           /\ promised' = [promised EXCEPT ![u] = Fingerprint(msg[s])]
  <2>1. rows[u] = << >> /\ \A t \in Slots : Adding(t) => Username(t) # u
    BY <1>1, <1>4 DEF AccountInv
  <2>2. \A v \in Users : v # u => users'[v] = users[v] /\ promised'[v] = promised[v]
    BY <1>0, <1>1, <1>4
  <2>3. users'[u] # Nil /\ promised'[u] = Fingerprint(msg[s])
    BY <1>0, <1>1, <1>4
  <2>4. \A v \in Users : users'[v] = Nil => rows'[v] = << >>
    BY <1>2, <2>1, <2>2, <2>3 DEF AccountInv
  <2>5. BaselineIsCreators'
    BY <1>2, <2>1, <2>2 DEF AccountInv, BaselineIsCreators
  <2>6. \A t \in Slots : /\ Username(t)' = Username(t)
                         /\ Fingerprint(msg[t])' = Fingerprint(msg[t])
    BY <1>2 DEF Username, Fingerprint, ExtractFingerprint, Header, ClientIP
  <2>7. \A t \in Slots : Adding(t)' => t = s \/ Adding(t)
    BY <1>2 DEF Adding
  <2>8. ASSUME NEW t \in Slots, Adding(t)'
        PROVE  /\ users'[Username(t)] # Nil
               /\ rows'[Username(t)] = << >>
               /\ promised'[Username(t)] = Fingerprint(msg[t])
    <3>1. CASE t = s
      BY <1>2, <2>1, <2>3, <3>1
    <3>2. CASE Adding(t)
      <4>1. Username(t) \in Users /\ Username(t) # u
        BY <2>1, <3>2, WriterBody DEF Adding
      <4> QED BY <1>2, <2>2, <3>2, <4>1 DEF AccountInv
    <3> QED BY <2>7, <2>8, <3>1, <3>2
  <2>9. ASSUME NEW t \in Slots, NEW r \in Slots, Adding(t)', Adding(r)',
               Username(t) = Username(r)
        PROVE  t = r
    BY <2>1, <2>7, <2>9 DEF AccountInv
  <2> QED BY <2>4, <2>5, <2>6, <2>8, <2>9 DEF AccountInv
<1> QED BY <1>0, <1>1, <1>3, <1>4
        DEF CreateUser, InsertUser, UniqueViolation, UserExists, storeVars,
            Continue, Finish, Answer, GoTo, Adding

LEMMA InsertFingerprintAccountInv ==
    ASSUME TInv, AccountInv, NEW s \in Slots, InsertFingerprint(s)
    PROVE  AccountInv'
<1> DEFINE u == Username(s)
<1>0. pc \in [Slots -> Labels] /\ rows \in [Users -> Seq(Prints)]
  BY DEF TInv, TypeOK
<1>1. u \in Users /\ Adding(s) /\ ~Adding(s)'
  BY <1>0, WriterBody DEF InsertFingerprint, Adding, Finish, Answer, GoTo
<1>2. /\ UNCHANGED <<msg, users, promised>>
      /\ \A t \in Slots \ {s} : pc'[t] = pc[t]
  BY <1>0 DEF InsertFingerprint, AppendRow, storeVars, historyVars, Finish, Answer, GoTo
<1>3. CASE UNCHANGED storeVars
  BY <1>1, <1>2, <1>3, QuietAccountInv DEF Quiet, Adding, storeVars
<1>4. CASE rows' = [rows EXCEPT ![u] = Append(@, Fingerprint(msg[s]))]
  <2>1. rows[u] = << >> /\ promised[u] = Fingerprint(msg[s]) /\ users[u] # Nil
    BY <1>1 DEF AccountInv
  <2>2. rows'[u] = <<promised'[u]>>
    BY <1>0, <1>1, <1>2, <1>4, <2>1
  <2>3. \A v \in Users : v # u => rows'[v] = rows[v]
    BY <1>0, <1>1, <1>4
  <2>4. \A v \in Users : users'[v] = Nil => rows'[v] = << >>
    BY <1>2, <2>1, <2>3 DEF AccountInv
  <2>5. BaselineIsCreators'
    BY <1>2, <2>2, <2>3 DEF AccountInv, BaselineIsCreators
  <2>6. \A t \in Slots : /\ Username(t)' = Username(t)
                         /\ Fingerprint(msg[t])' = Fingerprint(msg[t])
    BY <1>2 DEF Username, Fingerprint, ExtractFingerprint, Header, ClientIP
  <2>7. \A t \in Slots : Adding(t)' => t # s /\ Adding(t)
    BY <1>1, <1>2 DEF Adding
  <2>8. ASSUME NEW t \in Slots, Adding(t)'
        PROVE  /\ users'[Username(t)] # Nil
               /\ rows'[Username(t)] = << >>
               /\ promised'[Username(t)] = Fingerprint(msg[t])
    <3>1. Username(t) \in Users /\ Username(t) # u
      BY <1>1, <2>7, <2>8, WriterBody DEF AccountInv, Adding
    <3> QED BY <1>2, <2>3, <2>7, <2>8, <3>1 DEF AccountInv
  <2>9. ASSUME NEW t \in Slots, NEW r \in Slots, Adding(t)', Adding(r)',
               Username(t) = Username(r)
        PROVE  t = r
    BY <2>7, <2>9 DEF AccountInv
  <2> QED BY <2>4, <2>5, <2>6, <2>8, <2>9 DEF AccountInv
<1> QED BY <1>3, <1>4 DEF InsertFingerprint, AppendRow

LEMMA NextAccountInv == TInv /\ AccountInv /\ [Next]_vars => AccountInv'
<1> SUFFICES ASSUME TInv, AccountInv, [Next]_vars PROVE AccountInv'
  OBVIOUS
<1>0. pc \in [Slots -> Labels]
  BY DEF TInv, TypeOK
<1>1. ASSUME NEW s \in Slots, Step(s) PROVE AccountInv'
  BY <1>1, StepQuiet, QuietAccountInv, CreateUserAccountInv, InsertFingerprintAccountInv
<1>2. ASSUME NEW s \in Slots, NEW m \in Messages, Arrive(s, m) PROVE AccountInv'
  <2>1. Quiet
    BY <1>0, <1>2 DEF Quiet, Arrive, storeVars, historyVars, Adding, Finish, Answer,
                      Continue, GoTo
  <2> QED BY <2>1, QuietAccountInv
<1>3. CASE Crash
  <2>1. Quiet
    BY <1>3 DEF Quiet, Crash, Release, storeVars, historyVars, Adding
  <2> QED BY <2>1, QuietAccountInv
<1>4. CASE UNCHANGED vars
  <2>1. Quiet
    BY <1>4 DEF Quiet, vars, requestVars, storeVars, historyVars, Adding
  <2> QED BY <2>1, QuietAccountInv
<1> QED BY <1>1, <1>2, <1>3, <1>4 DEF Next

LEMMA InitAccountInv == Init => AccountInv
BY DEF Init, AccountInv, BaselineIsCreators, Adding

(* However many registrations of a username race, fail half way, are       *)
(* repeated or cut off by a crash, the account has one baseline at most,   *)
(* and it came with the password that was stored.                          *)
THEOREM BaselineOfCreator == Spec => []BaselineIsCreators
<1>1. AccountInv => BaselineIsCreators
  BY DEF AccountInv
<1> QED BY <1>1, InitTInv, NextTInv, InitAccountInv, NextAccountInv, PTL DEF Spec

-----------------------------------------------------------------------------
(* Credentials.  From the comparison of the password to the response the   *)
(* stored password is that of the request: no statement changes the        *)
(* password of an account that exists.                                     *)
Trusted(s) ==
    \/ Enriching(s) \/ pc[s] = "evaluate"
    \/ reply[s].outcome \in {"evaluated", "banned"}

Credible(s) ==
    /\ pc[s] = "readFingerprints"
          => user[s].hash # Nil /\ user[s].hash = users[Username(s)]
    /\ Trusted(s) => users[Username(s)] = msg[s].body.password

CredInv == \A s \in Slots : Credible(s)

\* What becomes of the other requests when one request takes a step.
Unmoved(t) ==
    /\ pc'[t] = pc[t] /\ msg'[t] = msg[t]
    /\ user'[t] = user[t] /\ reply'[t] = reply[t]

PasswordsKept == \A u \in Users : users[u] # Nil => users'[u] = users[u]

LEMMA UnmovedCredible ==
    ASSUME TInv, NEW t \in Slots, Credible(t), Unmoved(t), PasswordsKept
    PROVE  Credible(t)'
<1>1. pc[t] = "readFingerprints" \/ Trusted(t) => msg[t] \in Submissions
  BY DEF TInv, TypeOK, BodyInv, BodyLabels, ReplyInv, NoReply, Trusted, Enriching,
         Submissions
<1>2. msg[t] \in Submissions
         => Username(t) \in Users /\ msg[t].body.password # Nil
  BY MessagesAssumption DEF Username, Passwords
<1>3. Trusted(t)' <=> Trusted(t)
  BY DEF Trusted, Enriching, Unmoved
<1>4. Username(t)' = Username(t)
  BY DEF Username, Unmoved
<1> QED BY <1>1, <1>2, <1>3, <1>4 DEF Credible, Unmoved, PasswordsKept

LEMMA StepCredInv ==
    ASSUME TInv, CredInv, NEW s \in Slots, Step(s)
    PROVE  CredInv'
<1>0. /\ pc \in [Slots -> Labels]
      /\ msg \in [Slots -> Messages \cup {Nil}]
      /\ user \in [Slots -> [hash : Passwords \cup {Nil}, fingerprints : Seq(Prints)]]
      /\ reply \in [Slots -> [outcome : Outcomes, result : Results]]
      /\ users \in [Users -> Passwords \cup {Nil}]
  BY DEF TInv, TypeOK
<1>1. pc[s] # "reply" => ~(reply[s].outcome \in {"evaluated", "banned"})
  BY DEF TInv, ReplyInv, NoReply
<1>2. Credible(s)
  BY DEF CredInv
<1>3. SUFFICES /\ PasswordsKept
               /\ \A t \in Slots \ {s} : Unmoved(t)
               /\ Credible(s)'
  BY UnmovedCredible DEF CredInv
<1> USE DEF LocalStep, storeVars, historyVars, Finish, Answer, Continue, GoTo,
            PasswordsKept, Unmoved, Credible, Trusted, Enriching, Username
<1>4. CASE ScreenHit(s) \/ EnrichHit(s)
  BY <1>0, <1>1, <1>2, <1>4 DEF ScreenHit, EnrichHit, CacheHit, AfterEnrich
<1>5. CASE ScreenMiss(s) \/ EnrichMiss(s)
  BY <1>0, <1>1, <1>2, <1>5 DEF ScreenMiss, EnrichMiss, CacheMiss
<1>6. CASE ScreenFetched(s) \/ EnrichFetched(s)
  BY <1>0, <1>1, <1>2, <1>6 DEF ScreenFetched, EnrichFetched, Fetched, AfterEnrich
<1>7. CASE ScreenFailed(s) \/ EnrichFailed(s)
  BY <1>0, <1>1, <1>2, <1>7 DEF ScreenFailed, EnrichFailed, AfterEnrich
<1>8. CASE CheckBlacklist(s) \/ ServePage(s)
  BY <1>0, <1>1, <1>2, <1>8 DEF CheckBlacklist, ServePage
<1>9. CASE Register(s) \/ Login(s) \/ StartDebug(s)
  <2>1. PICK label \in {"createUser", "readUser", "enrich", "reply"}, o \in Outcomes :
           /\ pc' = [pc EXCEPT ![s] = label]
           /\ label # "reply" => reply' = reply
           /\ label = "reply" =>
                  reply' = [reply EXCEPT ![s] = [outcome |-> o, result |-> Nil]]
           /\ o \notin {"evaluated", "banned"}
           /\ label = "enrich" => msg[s].route = "debug"
    BY <1>9 DEF Register, Login, StartDebug, Outcomes
  <2>2. pc[s] = "handle" /\ UNCHANGED <<msg, user, users>>
    BY <1>9 DEF Register, Login, StartDebug
  <2> QED BY <1>0, <1>1, <2>1, <2>2
<1>10. CASE CreateUser(s)
  BY <1>0, <1>1, <1>2, <1>10 DEF CreateUser, InsertUser, UniqueViolation, UserExists
<1>11. CASE FindUser(s) \/ InsertFingerprint(s)
  BY <1>0, <1>1, <1>2, <1>11 DEF FindUser, InsertFingerprint, AppendRow
<1>12. CASE ReadUser(s) \/ ReadFingerprints(s)
  BY <1>0, <1>1, <1>2, <1>12 DEF ReadUser, ReadFingerprints, GetUserFailed, PasswordMatches
<1>13. CASE EvaluateLogin(s) \/ DebugFingerprint(s)
  BY <1>0, <1>1, <1>2, <1>13 DEF EvaluateLogin, DebugFingerprint
<1>14. CASE Respond(s)
  BY <1>0, <1>14 DEF Respond, Release, NoReply
<1> QED BY <1>4, <1>5, <1>6, <1>7, <1>8, <1>9, <1>10, <1>11, <1>12, <1>13, <1>14 DEF Step

LEMMA NextCredInv == TInv /\ CredInv /\ [Next]_vars => CredInv'
<1> SUFFICES ASSUME TInv, CredInv, [Next]_vars PROVE CredInv'
  OBVIOUS
<1>0. pc \in [Slots -> Labels] /\ msg \in [Slots -> Messages \cup {Nil}]
      /\ reply \in [Slots -> [outcome : Outcomes, result : Results]]
  BY DEF TInv, TypeOK
<1>1. ASSUME NEW s \in Slots, Step(s) PROVE CredInv'
  BY <1>1, StepCredInv
<1>2. ASSUME NEW s \in Slots, NEW m \in Messages, Arrive(s, m) PROVE CredInv'
  <2>1. PasswordsKept /\ \A t \in Slots \ {s} : Unmoved(t)
    BY <1>0, <1>2 DEF Arrive, storeVars, PasswordsKept, Unmoved, Finish, Answer,
                      Continue, GoTo
  <2>2. reply[s] = NoReply
    BY <1>2 DEF TInv, ReplyInv, Arrive
  <2>3. Credible(s)'
    BY <1>0, <1>2, <2>2 DEF Arrive, Credible, Trusted, Enriching, NoReply, Finish, Answer,
                            Continue, GoTo
  <2> QED BY <2>1, <2>3, UnmovedCredible DEF CredInv
<1>3. CASE Crash
  BY <1>3 DEF Crash, Release, CredInv, Credible, Trusted, Enriching, NoReply
<1>4. CASE UNCHANGED vars
  BY <1>4, UnmovedCredible
     DEF vars, requestVars, storeVars, CredInv, Unmoved, PasswordsKept
<1> QED BY <1>1, <1>2, <1>3, <1>4 DEF Next

LEMMA InitCredInv == Init => CredInv
BY DEF Init, CredInv, Credible, Trusted, Enriching, NoReply

(* No score leaves the server without the stored password, although the    *)
(* two queries of GetUser and the comparison are separate steps and other  *)
(* requests write to the tables in between.                                *)
THEOREM ScoresNeedThePassword == Spec => []CredentialsChecked
<1>1. CredInv => CredentialsChecked
  BY DEF CredInv, Credible, Trusted, CredentialsChecked
<1> QED BY <1>1, InitTInv, NextTInv, InitCredInv, NextCredInv, PTL DEF Spec

-----------------------------------------------------------------------------
(* What a request leaves alone: every other request, what the accounts     *)
(* that exist were created with, and the rows that are there.              *)
Untouched(t) == Unmoved(t) /\ info'[t] = info[t] /\ hadBaseline'[t] = hadBaseline[t]

StoreGrows ==
    \A u \in Users :
        /\ users[u] # Nil => users'[u] = users[u] /\ promised'[u] = promised[u]
        /\ rows[u] # << >> => rows'[u] # << >>

LEMMA StepUntouched ==
    ASSUME TInv, NEW s \in Slots, Step(s)
    PROVE  \A t \in Slots \ {s} : Untouched(t)
<1>0. /\ pc \in [Slots -> Labels] /\ msg \in [Slots -> Messages \cup {Nil}]
      /\ info \in [Slots -> Infos]
      /\ user \in [Slots -> [hash : Passwords \cup {Nil}, fingerprints : Seq(Prints)]]
      /\ reply \in [Slots -> [outcome : Outcomes, result : Results]]
  BY DEF TInv, TypeOK
<1> USE DEF LocalStep, Finish, Answer, Continue, GoTo, Untouched, Unmoved
<1>1. CASE ScreenHit(s) \/ EnrichHit(s)
  BY <1>0, <1>1 DEF ScreenHit, EnrichHit, CacheHit
<1>2. CASE ScreenMiss(s) \/ EnrichMiss(s)
  BY <1>0, <1>2 DEF ScreenMiss, EnrichMiss, CacheMiss
<1>3. CASE ScreenFetched(s) \/ EnrichFetched(s)
  BY <1>0, <1>3 DEF ScreenFetched, EnrichFetched, Fetched
<1>4. CASE ScreenFailed(s) \/ EnrichFailed(s)
  BY <1>0, <1>4 DEF ScreenFailed, EnrichFailed
<1>5. CASE CheckBlacklist(s) \/ ServePage(s)
  BY <1>0, <1>5 DEF CheckBlacklist, ServePage
<1>6. CASE Register(s) \/ Login(s) \/ StartDebug(s)
  BY <1>0, <1>6 DEF Register, Login, StartDebug
<1>7. CASE CreateUser(s) \/ FindUser(s) \/ InsertFingerprint(s)
  BY <1>0, <1>7 DEF CreateUser, UserExists, FindUser, InsertFingerprint
<1>8. CASE ReadUser(s) \/ ReadFingerprints(s)
  BY <1>0, <1>8 DEF ReadUser, ReadFingerprints, GetUserFailed
<1>9. CASE EvaluateLogin(s) \/ DebugFingerprint(s)
  BY <1>0, <1>9 DEF EvaluateLogin, DebugFingerprint
<1>10. CASE Respond(s)
  BY <1>0, <1>10 DEF Respond, Release
<1> QED BY <1>1, <1>2, <1>3, <1>4, <1>5, <1>6, <1>7, <1>8, <1>9, <1>10 DEF Step

LEMMA StepGrows ==
    ASSUME TInv, NEW s \in Slots, Step(s)
    PROVE  StoreGrows
<1>1. CASE CreateUser(s)
  <2>1. /\ users \in [Users -> Passwords \cup {Nil}] /\ promised \in [Users -> Prints \cup {Nil}]
        /\ Username(s) \in Users
    BY <1>1, WriterBody DEF TInv, TypeOK, CreateUser
  <2>2. rows' = rows
    BY <1>1 DEF CreateUser, InsertUser, storeVars
  <2>3. \/ UNCHANGED <<users, promised>>
        \/ /\ users[Username(s)] = Nil
           /\ users' = [users EXCEPT ![Username(s)] = msg[s].body.password]
           /\ promised' = [promised EXCEPT ![Username(s)] = Fingerprint(msg[s])]
    BY <1>1 DEF CreateUser, InsertUser, UniqueViolation, storeVars
  <2> QED BY <2>1, <2>2, <2>3 DEF StoreGrows
<1>2. CASE InsertFingerprint(s)
  <2>1. rows \in [Users -> Seq(Prints)] /\ Username(s) \in Users
        /\ Fingerprint(msg[s]) \in Prints
    BY <1>2, WriterBody DEF TInv, TypeOK, InsertFingerprint
  <2>2. UNCHANGED <<users, promised>>
    BY <1>2 DEF InsertFingerprint, AppendRow, storeVars, historyVars
  <2>3. ASSUME NEW u \in Users, rows[u] # << >> PROVE rows'[u] # << >>
    <3>1. CASE rows' = rows
      BY <2>3, <3>1
    <3>2. CASE rows' = [rows EXCEPT ![Username(s)] = Append(@, Fingerprint(msg[s]))]
      BY <2>1, <2>3, <3>2
    <3> QED BY <1>2, <3>1, <3>2 DEF InsertFingerprint, AppendRow, storeVars
  <2> QED BY <2>2, <2>3 DEF StoreGrows
<1>3. CASE ~CreateUser(s) /\ ~InsertFingerprint(s)
  BY <1>3, StepQuiet DEF Quiet, StoreGrows
<1> QED BY <1>1, <1>2, <1>3

(* The steps that are not of one request: an arrival changes one, a crash  *)
(* clears all.                                                             *)
LEMMA ArriveUntouched ==
    ASSUME TInv, NEW s \in Slots, NEW m \in Messages, Arrive(s, m)
    PROVE  /\ \A t \in Slots \ {s} : Untouched(t)
           /\ StoreGrows
           /\ pc'[s] \in {"reply", "screen"} /\ msg'[s] = m
           /\ reply'[s].outcome \in {"none", "probe"}
<1>0. /\ pc \in [Slots -> Labels] /\ msg \in [Slots -> Messages \cup {Nil}]
      /\ reply \in [Slots -> [outcome : Outcomes, result : Results]]
      /\ hadBaseline \in [Slots -> BOOLEAN]
      /\ reply[s].outcome = "none"
  BY DEF TInv, TypeOK, ReplyInv, Arrive, NoReply
<1>1. \A t \in Slots \ {s} : Untouched(t)
  BY <1>0 DEF Arrive, Untouched, Unmoved, Finish, Answer, Continue, GoTo
<1>2. StoreGrows
  BY DEF Arrive, StoreGrows, storeVars, historyVars
<1>3. \/ /\ pc' = [pc EXCEPT ![s] = "reply"]
         /\ reply' = [reply EXCEPT ![s] = [outcome |-> "probe", result |-> Nil]]
      \/ pc' = [pc EXCEPT ![s] = "screen"] /\ reply' = reply
  BY DEF Arrive, Finish, Answer, Continue, GoTo
<1>4. msg'[s] = m
  BY <1>0 DEF Arrive
<1> QED BY <1>0, <1>1, <1>2, <1>3, <1>4

LEMMA StutterUntouched ==
    ASSUME UNCHANGED vars
    PROVE  StoreGrows /\ \A t \in Slots : Untouched(t)
BY DEF vars, requestVars, storeVars, historyVars, StoreGrows, Untouched, Unmoved

-----------------------------------------------------------------------------
(* The cache.  Only answers are put into it.                               *)
EntriesAnswer ==
    \A ip \in DOMAIN items : items[ip].key = ip /\ items[ip].value \in Answers[ip]

LEMMA PutEntriesAnswer ==
    ASSUME EntriesAnswer, NEW k \in IPs, NEW v \in Answers[k], Cache!Put(k, v)
    PROVE  EntriesAnswer'
<1>1. CASE Cache!Has(k)
  BY <1>1 DEF Cache!Put, Cache!cacheVars, EntriesAnswer
<1>2. CASE ~Cache!Has(k)
  <2>1. items' = [x \in Cache!KeptKeys \cup {k} |->
                     IF x = k THEN Cache!NewEntry(k, v) ELSE items[x]]
    BY <1>2 DEF Cache!Put, Cache!Insert
  <2>2. Cache!KeptKeys \subseteq DOMAIN items
    BY DEF Cache!KeptKeys
  <2> QED BY <2>1, <2>2 DEF EntriesAnswer, Cache!NewEntry
<1> QED BY <1>1, <1>2

LEMMA StepEntriesAnswer ==
    ASSUME TInv, EntriesAnswer, NEW s \in Slots, Step(s)
    PROVE  EntriesAnswer'
<1>1. CASE ScreenFetched(s) \/ EnrichFetched(s)
  <2>1. PICK answer \in Answers[ClientIP(msg[s])] : Cache!Put(ClientIP(msg[s]), answer)
    BY <1>1 DEF ScreenFetched, EnrichFetched, Fetched
  <2>2. ClientIP(msg[s]) \in IPs
    BY <1>1, MessagesAssumption DEF ScreenFetched, EnrichFetched, Fetched, TInv, TypeOK
  <2> QED BY <2>1, <2>2, PutEntriesAnswer
<1>2. CASE ~(ScreenFetched(s) \/ EnrichFetched(s))
  <2>1. items' = items
    BY <1>2 DEF Step, cacheVars, LocalStep, ScreenHit, EnrichHit, CacheHit, ScreenMiss,
           EnrichMiss, CacheMiss, ScreenFailed, EnrichFailed, CheckBlacklist, ServePage,
           Register, Login, StartDebug, CreateUser, FindUser, InsertFingerprint, ReadUser,
           ReadFingerprints, EvaluateLogin, DebugFingerprint, Respond
  <2> QED BY <2>1 DEF EntriesAnswer
<1> QED BY <1>1, <1>2

LEMMA NextEntriesAnswer == TInv /\ EntriesAnswer /\ [Next]_vars => EntriesAnswer'
<1> SUFFICES ASSUME TInv, EntriesAnswer, [Next]_vars PROVE EntriesAnswer'
  OBVIOUS
<1>1. CASE Crash
  BY <1>1 DEF Crash, Cache!NoItems, EntriesAnswer
<1>2. CASE UNCHANGED vars \/ \E s \in Slots, m \in Messages : Arrive(s, m)
  BY <1>2 DEF Arrive, vars, cacheVars, EntriesAnswer
<1> QED BY <1>1, <1>2, StepEntriesAnswer DEF Next

LEMMA InitEntriesAnswer == Init => EntriesAnswer
BY DEF Init, Cache!Init, Cache!NoItems, EntriesAnswer

(* Whatever lookups race, fail or are answered twice, what the cache has   *)
(* for an address is an answer of ipdata.co for it (client.go lines        *)
(* 71-95).                                                                 *)
THEOREM CacheIsTrue == Spec => []CacheHoldsAnswers
<1>1. TInv /\ EntriesAnswer => CacheHoldsAnswers
  BY DEF TInv, CacheOK, EntriesAnswer, CacheHoldsAnswers
<1> QED BY <1>1, InitTInv, NextTInv, InitEntriesAnswer, NextEntriesAnswer, PTL DEF Spec

-----------------------------------------------------------------------------
(* The guard.  A request that a handler works on has passed the blacklist, *)
(* and some answer for its address would not stop it.  Where ipdata.co     *)
(* does not change its mind, no answer would: neither a second one nor the *)
(* zero record of a lookup that failed makes it a request that the guard   *)
(* would refuse.                                                           *)
GuardLabels == {"idle", "screen", "screenFetch", "blacklist", "reply"}

Passed(m) ==
    \E answer \in Answers[ClientIP(m)] : ~Declined(ExtractFingerprint(m).ja3, answer)

Screened(s) ==
    /\ pc[s] = "blacklist" => info[s] \in Answers[ClientIP(msg[s])]
    /\ pc[s] \notin GuardLabels => Passed(msg[s])
    /\ pc[s] \in {"evaluate", "inspect"} => info[s] \in Answers[ClientIP(msg[s])] \cup {ZeroInfo}

ScreenInv == \A s \in Slots : Screened(s)

LEMMA StepScreened ==
    ASSUME TInv, EntriesAnswer, NEW s \in Slots, Step(s), Screened(s)
    PROVE  Screened(s)'
<1>0. /\ pc \in [Slots -> Labels] /\ msg \in [Slots -> Messages \cup {Nil}]
      /\ info \in [Slots -> Infos]
  BY DEF TInv, TypeOK
<1>1. msg'[s] = msg[s] \/ pc'[s] = "idle"
  BY <1>0 DEF Step, LocalStep, ScreenHit, EnrichHit, CacheHit, ScreenMiss, EnrichMiss,
         CacheMiss, ScreenFetched, EnrichFetched, Fetched, ScreenFailed, EnrichFailed,
         CheckBlacklist, ServePage, Register, Login, StartDebug, CreateUser, FindUser,
         InsertFingerprint, ReadUser, ReadFingerprints, EvaluateLogin, DebugFingerprint,
         Respond, Release
<1> USE DEF LocalStep, Finish, Answer, Continue, GoTo, Screened, GuardLabels
<1>2. CASE ScreenHit(s) \/ EnrichHit(s)
  <2>1. Cache!Cached(ClientIP(msg[s])) \in Answers[ClientIP(msg[s])]
    BY <1>2 DEF ScreenHit, EnrichHit, CacheHit, Cache!Has, Cache!Cached, EntriesAnswer
  <2> QED BY <1>0, <1>2, <2>1 DEF ScreenHit, EnrichHit, CacheHit, AfterEnrich
<1>3. CASE ScreenMiss(s) \/ EnrichMiss(s)
  BY <1>0, <1>3 DEF ScreenMiss, EnrichMiss, CacheMiss
<1>4. CASE ScreenFetched(s) \/ EnrichFetched(s)
  BY <1>0, <1>4 DEF ScreenFetched, EnrichFetched, Fetched, AfterEnrich
<1>5. CASE ScreenFailed(s) \/ EnrichFailed(s)
  BY <1>0, <1>5 DEF ScreenFailed, EnrichFailed, AfterEnrich
<1>6. CASE CheckBlacklist(s)
  <2>1. CASE pc'[s] = "reply"
    BY <2>1
  <2>2. CASE pc'[s] # "reply"
    <3>1. /\ pc[s] = "blacklist" /\ pc'[s] = "handle" /\ msg' = msg
          /\ ~Declined(ExtractFingerprint(msg[s]).ja3, info[s])
      BY <1>0, <1>6, <2>2 DEF CheckBlacklist
    <3>2. info[s] \in Answers[ClientIP(msg[s])]
      BY <3>1
    <3>3. Passed(msg[s])
      BY <3>1, <3>2 DEF Passed
    <3> QED BY <3>1, <3>3
  <2> QED BY <2>1, <2>2
<1>7. CASE ServePage(s) \/ DebugFingerprint(s) \/ EvaluateLogin(s) \/ InsertFingerprint(s)
  BY <1>0, <1>7 DEF ServePage, DebugFingerprint, EvaluateLogin, InsertFingerprint
<1>8. CASE Register(s) \/ Login(s) \/ StartDebug(s)
  BY <1>0, <1>8 DEF Register, Login, StartDebug
<1>9. CASE CreateUser(s) \/ FindUser(s)
  BY <1>0, <1>9 DEF CreateUser, UserExists, FindUser
<1>10. CASE ReadUser(s) \/ ReadFingerprints(s)
  BY <1>0, <1>10 DEF ReadUser, ReadFingerprints, GetUserFailed
<1>11. CASE Respond(s)
  BY <1>0, <1>11 DEF Respond, Release
<1> QED BY <1>2, <1>3, <1>4, <1>5, <1>6, <1>7, <1>8, <1>9, <1>10, <1>11 DEF Step

LEMMA UntouchedScreened ==
    ASSUME NEW t \in Slots, Screened(t), Untouched(t)
    PROVE  Screened(t)'
BY DEF Screened, Untouched, Unmoved, Passed, ExtractFingerprint, Header, ClientIP

LEMMA NextScreenInv ==
    TInv /\ EntriesAnswer /\ ScreenInv /\ [Next]_vars => ScreenInv'
<1> SUFFICES ASSUME TInv, EntriesAnswer, ScreenInv, [Next]_vars
             PROVE  ScreenInv'
  OBVIOUS
<1>1. ASSUME NEW s \in Slots, Step(s) PROVE ScreenInv'
  BY <1>1, StepScreened, StepUntouched, UntouchedScreened DEF ScreenInv
<1>2. ASSUME NEW s \in Slots, NEW m \in Messages, Arrive(s, m) PROVE ScreenInv'
  <2>1. Screened(s)'
    BY <1>2, ArriveUntouched DEF Screened, GuardLabels
  <2> QED BY <1>2, <2>1, ArriveUntouched, UntouchedScreened DEF ScreenInv
<1>3. CASE Crash
  BY <1>3 DEF Crash, Release, ScreenInv, Screened, GuardLabels
<1>4. CASE UNCHANGED vars
  BY <1>4, StutterUntouched, UntouchedScreened DEF ScreenInv
<1> QED BY <1>1, <1>2, <1>3, <1>4 DEF Next

LEMMA InitScreenInv == Init => ScreenInv
BY DEF Init, ScreenInv, Screened, GuardLabels

LEMMA ScreenedIsSafe == TInv /\ ScreenInv => NoThreatHandled
<1> SUFFICES ASSUME TInv, ScreenInv, StableAnswers,
                    NEW s \in Slots, pc[s] \in {"evaluate", "inspect"}
             PROVE  ~Declined(ExtractFingerprint(msg[s]).ja3, info[s])
  BY DEF NoThreatHandled
<1>1. Passed(msg[s]) /\ info[s] \in Answers[ClientIP(msg[s])] \cup {ZeroInfo}
  BY DEF ScreenInv, Screened, GuardLabels
<1>2. ClientIP(msg[s]) \in IPs
  BY MessagesAssumption DEF TInv, TypeOK
<1>3. PICK passing \in Answers[ClientIP(msg[s])] :
          ~Declined(ExtractFingerprint(msg[s]).ja3, passing)
  BY <1>1 DEF Passed
<1>4. info[s] \in {passing, ZeroInfo}
  BY <1>1, <1>2 DEF StableAnswers
<1>5. ZeroInfo.flags = {}
  BY DEF ZeroInfo
<1> QED BY <1>3, <1>4, <1>5 DEF Declined

(* Where the answers of ipdata.co are stable, the lookup that a handler    *)
(* repeats, with its errors ignored, never brings up a request that the    *)
(* guard would have refused: not through a cache that others fill or a     *)
(* crash empties in between (main.go lines 53-100, handler.go lines 111    *)
(* and 139).                                                               *)
THEOREM NoThreatReachesScoring == Spec => []NoThreatHandled
<1> QED
  BY ScreenedIsSafe, InitTInv, NextTInv, InitEntriesAnswer, NextEntriesAnswer, InitScreenInv,
     NextScreenInv, PTL DEF Spec

(* An account keeps what its request has passed with.                      *)
LEMMA NextPassedGuard ==
    TInv /\ ScreenInv /\ AccountsPassedGuard /\ [Next]_vars => AccountsPassedGuard'
<1> SUFFICES ASSUME TInv, ScreenInv, AccountsPassedGuard, [Next]_vars
             PROVE  AccountsPassedGuard'
  OBVIOUS
<1>1. ASSUME NEW s \in Slots, CreateUser(s) PROVE AccountsPassedGuard'
  <2> DEFINE f == Fingerprint(msg[s])
  <2>1. /\ users \in [Users -> Passwords \cup {Nil}] /\ promised \in [Users -> Prints \cup {Nil}]
        /\ Username(s) \in Users
    BY <1>1, WriterBody DEF TInv, TypeOK, CreateUser
  <2>2. \/ UNCHANGED <<users, promised>>
        \/ /\ users' = [users EXCEPT ![Username(s)] = msg[s].body.password]
           /\ promised' = [promised EXCEPT ![Username(s)] = f]
    BY <1>1 DEF CreateUser, InsertUser, storeVars
  <2>3. Passed(msg[s])
    BY <1>1 DEF CreateUser, ScreenInv, Screened, GuardLabels
  <2>4. f.ip = ClientIP(msg[s]) /\ f.ja3 = ExtractFingerprint(msg[s]).ja3
    BY DEF Fingerprint, ExtractFingerprint
  <2>5. \E answer \in Answers[f.ip] : ~Declined(f.ja3, answer)
    BY <2>3, <2>4 DEF Passed
  <2> HIDE DEF f
  <2> QED BY <2>1, <2>2, <2>5 DEF AccountsPassedGuard, Declined
<1>2. ASSUME UNCHANGED <<users, promised>> PROVE AccountsPassedGuard'
  BY <1>2 DEF AccountsPassedGuard, Declined
<1>3. ASSUME NEW s \in Slots, Step(s), ~CreateUser(s) PROVE UNCHANGED <<users, promised>>
  <2>1. CASE InsertFingerprint(s)
    BY <2>1 DEF InsertFingerprint, AppendRow, storeVars, historyVars
  <2>2. CASE ~InsertFingerprint(s)
    BY <1>3, <2>2, StepQuiet DEF Quiet
  <2> QED BY <2>1, <2>2
<1>4. ASSUME \/ Crash \/ UNCHANGED vars
             \/ \E s \in Slots, m \in Messages : Arrive(s, m)
      PROVE  UNCHANGED <<users, promised>>
  BY <1>4 DEF Crash, Arrive, vars, storeVars, historyVars
<1> QED BY <1>1, <1>2, <1>3, <1>4 DEF Next

(* No account without the guard: its creator had no blacklisted JA3 and an *)
(* answer of ipdata.co that passes, for any number of requests, with       *)
(* answers that may change, lookups that fail and crashes that lose the    *)
(* cache (main.go lines 53-100, sentinel.go lines 59-75).                  *)
THEOREM EnrolledPassedGuard == Spec => []AccountsPassedGuard
<1>1. Init => AccountsPassedGuard
  BY DEF Init, AccountsPassedGuard
<1> QED
  BY <1>1, InitTInv, NextTInv, InitEntriesAnswer, NextEntriesAnswer, InitScreenInv,
     NextScreenInv, NextPassedGuard, PTL DEF Spec

-----------------------------------------------------------------------------
(* Baselines that were there when the login arrived.                       *)
AtScoring(s) == pc[s] \in {"enrich", "enrichFetch", "evaluate"}

Seeing(s) ==
    hadBaseline[s] =>
        /\ msg[s] \in Submissions /\ rows[Username(s)] # << >>
        /\ AtScoring(s) => user[s].fingerprints # << >> \/ msg[s].route # "login"

SeenInv == \A s \in Slots : Seeing(s)

LEMMA ReverseOfRows ==
    ASSUME NEW S, NEW q \in Seq(S)
    PROVE  /\ q # << >> => Reverse(q) # << >>
           /\ \A x : q = <<x>> => Reverse(q) = <<x>>
           /\ q = << >> => Reverse(q) = << >>
<1>1. /\ Reverse(q) \in Seq(S) /\ Len(Reverse(q)) = Len(q)
      /\ \A i \in 1 .. Len(q) : Reverse(q)[i] = q[(Len(q) - i) + 1]
  BY DEF Reverse
<1>2. q = << >> <=> Len(q) = 0
  OBVIOUS
<1>3. Reverse(q) = << >> <=> Len(Reverse(q)) = 0
  BY <1>1
<1>4. ASSUME NEW x, q = <<x>> PROVE Reverse(q) = <<x>>
  <2>1. Len(q) = 1 /\ q[1] = x
    BY <1>4
  <2>2. Len(Reverse(q)) = 1 /\ Reverse(q)[1] = x
    BY <1>1, <2>1
  <2> QED BY <1>1, <2>2
<1> QED BY <1>1, <1>2, <1>3, <1>4

LEMMA UntouchedSeeing ==
    ASSUME NEW t \in Slots, Seeing(t), Untouched(t), StoreGrows
    PROVE  Seeing(t)'
<1>1. hadBaseline[t] => Username(t) \in Users
  BY MessagesAssumption DEF Seeing, Username
<1> QED BY <1>1 DEF Seeing, Untouched, Unmoved, StoreGrows, Username, AtScoring

LEMMA StepSeeing ==
    ASSUME TInv, NEW s \in Slots, Step(s), Seeing(s)
    PROVE  Seeing(s)'
<1>0. /\ pc \in [Slots -> Labels] /\ msg \in [Slots -> Messages \cup {Nil}]
      /\ user \in [Slots -> [hash : Passwords \cup {Nil}, fingerprints : Seq(Prints)]]
      /\ rows \in [Users -> Seq(Prints)]
  BY DEF TInv, TypeOK
<1>1. CASE Respond(s)
  BY <1>0, <1>1 DEF Respond, Release, Seeing
<1>2. CASE ~Respond(s)
  <2>1. msg' = msg /\ hadBaseline' = hadBaseline
    BY <1>2 DEF Step, LocalStep, ScreenHit, EnrichHit, CacheHit, ScreenMiss, EnrichMiss,
           CacheMiss, ScreenFetched, EnrichFetched, Fetched, ScreenFailed, EnrichFailed,
           CheckBlacklist, ServePage, Register, Login, StartDebug, CreateUser, FindUser,
           InsertFingerprint, ReadUser, ReadFingerprints, EvaluateLogin, DebugFingerprint
  <2>2. hadBaseline[s] => Username(s) \in Users /\ rows[Username(s)] # << >>
    BY MessagesAssumption DEF Seeing, Username
  <2>3. hadBaseline[s] => rows'[Username(s)] # << >>
    BY <2>2, StepGrows DEF StoreGrows
  <2>4. SUFFICES ASSUME hadBaseline[s], AtScoring(s)', msg[s].route = "login"
                 PROVE  user'[s].fingerprints # << >>
    BY <2>1, <2>3 DEF Seeing, Username
  <2> USE DEF LocalStep, Finish, Answer, Continue, GoTo, AtScoring
  <2>5. CASE ReadFingerprints(s)
    <3>1. user' = [user EXCEPT ![s].fingerprints = Reverse(rows[Username(s)])]
      BY <1>0, <2>4, <2>5 DEF ReadFingerprints, GetUserFailed
    <3>2. Reverse(rows[Username(s)]) # << >>
      BY <1>0, <2>2, <2>4, ReverseOfRows
    <3> QED BY <1>0, <3>1, <3>2
  <2>6. CASE AtScoring(s) /\ user' = user
    BY <2>4, <2>6 DEF Seeing
  <2>7. CASE ~AtScoring(s) /\ ~ReadFingerprints(s)
    <3>1. CASE ScreenHit(s) \/ ScreenMiss(s) \/ ScreenFetched(s) \/ ScreenFailed(s)
      BY <1>0, <2>4, <3>1 DEF ScreenHit, CacheHit, ScreenMiss, CacheMiss, ScreenFetched,
             Fetched, ScreenFailed
    <3>2. CASE EnrichHit(s) \/ EnrichMiss(s) \/ EnrichFetched(s) \/ EnrichFailed(s)
               \/ EvaluateLogin(s)
      BY <1>0, <2>7, <3>2 DEF EnrichHit, CacheHit, EnrichMiss, CacheMiss, EnrichFetched,
             Fetched, EnrichFailed, EvaluateLogin
    <3>3. CASE CheckBlacklist(s) \/ ServePage(s) \/ DebugFingerprint(s)
      BY <1>0, <2>4, <3>3 DEF CheckBlacklist, ServePage, DebugFingerprint
    <3>4. CASE Register(s) \/ Login(s) \/ StartDebug(s)
      BY <1>0, <2>4, <3>4 DEF Register, Login, StartDebug
    <3>5. CASE CreateUser(s) \/ FindUser(s) \/ InsertFingerprint(s) \/ ReadUser(s)
      BY <1>0, <2>4, <3>5 DEF CreateUser, UserExists, FindUser, InsertFingerprint,
             ReadUser, GetUserFailed
    <3> QED BY <1>2, <2>7, <3>1, <3>2, <3>3, <3>4, <3>5 DEF Step
  <2>8. AtScoring(s) /\ ~ReadFingerprints(s) => user' = user
    BY <1>2 DEF Step, ScreenHit, EnrichHit, CacheHit, ScreenMiss, EnrichMiss, CacheMiss,
           ScreenFetched, EnrichFetched, Fetched, ScreenFailed, EnrichFailed,
           CheckBlacklist, ServePage, Register, Login, StartDebug, CreateUser, FindUser,
           InsertFingerprint, ReadUser, EvaluateLogin, DebugFingerprint
  <2> QED BY <2>5, <2>6, <2>7, <2>8
<1> QED BY <1>1, <1>2

LEMMA NextSeenInv == TInv /\ SeenInv /\ [Next]_vars => SeenInv'
<1> SUFFICES ASSUME TInv, SeenInv, [Next]_vars PROVE SeenInv'
  OBVIOUS
<1>1. ASSUME NEW s \in Slots, Step(s) PROVE SeenInv'
  BY <1>1, StepSeeing, StepGrows, StepUntouched, UntouchedSeeing DEF SeenInv
<1>2. ASSUME NEW s \in Slots, NEW m \in Messages, Arrive(s, m) PROVE SeenInv'
  <2>1. /\ hadBaseline'[s] = (m.body # Nil /\ rows[m.body.username] # << >>)
        /\ rows' = rows
    BY <1>2 DEF Arrive, TInv, TypeOK, storeVars
  <2>2. Seeing(s)'
    BY <1>2, <2>1, ArriveUntouched DEF Seeing, Submissions, Username, AtScoring
  <2> QED BY <1>2, <2>2, ArriveUntouched, UntouchedSeeing DEF SeenInv
<1>3. CASE Crash
  BY <1>3 DEF Crash, Release, SeenInv, Seeing
<1>4. CASE UNCHANGED vars
  BY <1>4, StutterUntouched, UntouchedSeeing DEF SeenInv
<1> QED BY <1>1, <1>2, <1>3, <1>4 DEF Next

LEMMA InitSeenInv == Init => SeenInv
BY DEF Init, SeenInv, Seeing

(* No failure between the two queries of GetUser, and no write of another  *)
(* request, hides a baseline that was stored when the login arrived        *)
(* (postgres.go lines 83-117).                                             *)
THEOREM StoredBaselineIsSeen == Spec => []BaselineIsSeen
<1>1. SeenInv => BaselineIsSeen
  BY DEF SeenInv, Seeing, AtScoring, BaselineIsSeen
<1> QED BY <1>1, InitTInv, NextTInv, InitSeenInv, NextSeenInv, PTL DEF Spec

-----------------------------------------------------------------------------
(* The returning browser.  Against its own fingerprint, or against none,   *)
(* novelty takes nothing, and what the network adds takes 25 at most.      *)
LEMMA OwnBaselineIsKnown ==
    ASSUME NEW f, NEW g, SameBrowser(f, g), NEW known \in {<< >>, <<f>>}
    PROVE  NoveltyPoints(known, g) = 0
<1>1. CASE known = << >>
  BY <1>1 DEF NoveltyPoints
<1>2. CASE known = <<f>>
  <2>1. 1 \in DOMAIN known /\ known[1] = f
    BY <1>2
  <2>2. f.ja3 = g.ja3 /\ f.ja4 = g.ja4 /\ f.peetPrint = g.peetPrint /\ f.client = g.client
    BY DEF SameBrowser
  <2>3. Seen(known, "ja3", g) /\ Seen(known, "ja4", g) /\ Seen(known, "peetPrint", g)
    BY <2>1, <2>2 DEF Seen
  <2>4. ~Unseen(known, "hash", g.client)
    BY <2>1, <2>2 DEF Unseen, SeenClient
  <2> QED BY <2>3, <2>4 DEF NoveltyPoints, TransportPoints, DevicePoints, Points
<1> QED BY <1>1, <1>2

LEMMA CleanKnownAllowed ==
    ASSUME NEW known, NEW g, NEW record, NoveltyPoints(known, g) = 0,
           ~(AutomationPoints(g.client) + ConsistencyPoints(g.client) > 0)
    PROVE  Evaluate(known, g, record).verdict = "allow"
<1>1. /\ AutomationPoints(g.client) \in 0 .. 25 /\ ConsistencyPoints(g.client) \in 0 .. 20
      /\ CrossLayerPoints(g, record) \in 0 .. 25
  BY AutomationBound, ConsistencyBound, CrossLayerBound
<1>2. Deductions(known, g, record) \in 0 .. 25
  BY <1>1 DEF Deductions
<1>3. Score(known, g, record) \in 75 .. 100
  BY <1>2 DEF Score, Clamp
<1> QED BY <1>3 DEF Evaluate, Verdict

Scoring(s) == Enriching(s) \/ pc[s] = "evaluate"

Excused(s) ==
    \/ ~SameBrowser(promised[Username(s)], Fingerprint(msg[s]))
    \/ AutomationPoints(msg[s].body.client) + ConsistencyPoints(msg[s].body.client) > 0

Returning(s) ==
    /\ Scoring(s) => user[s].fingerprints \in {<< >>, <<promised[Username(s)]>>}
    /\ reply[s].outcome = "banned" => Excused(s)

ReturnerInv == \A s \in Slots : Returning(s)

LEMMA UntouchedReturning ==
    ASSUME TInv, CredInv, NEW t \in Slots, Returning(t), Untouched(t), StoreGrows
    PROVE  Returning(t)'
<1>1. CASE Trusted(t)
  <2>1. msg[t] \in Submissions
    BY <1>1 DEF TInv, TypeOK, BodyInv, BodyLabels, ReplyInv, NoReply, Trusted, Enriching,
           Submissions
  <2>2. Username(t) \in Users /\ users[Username(t)] # Nil
    BY <1>1, <2>1, MessagesAssumption DEF CredInv, Credible, Username, Passwords
  <2>3. promised'[Username(t)] = promised[Username(t)]
    BY <2>2 DEF StoreGrows
  <2> QED BY <2>3 DEF Returning, Excused, Scoring, Enriching, Untouched, Unmoved, Username,
                      Fingerprint, ExtractFingerprint, Header, ClientIP
<1>2. CASE ~Trusted(t)
  BY <1>2 DEF Trusted, Scoring, Returning, Enriching, Untouched, Unmoved
<1> QED BY <1>1, <1>2

LEMMA StepReturning ==
    ASSUME TInv, AccountInv, NEW s \in Slots, Step(s), Returning(s)
    PROVE  Returning(s)'
<1>0. /\ pc \in [Slots -> Labels] /\ msg \in [Slots -> Messages \cup {Nil}]
      /\ user \in [Slots -> [hash : Passwords \cup {Nil}, fingerprints : Seq(Prints)]]
      /\ reply \in [Slots -> [outcome : Outcomes, result : Results]]
      /\ rows \in [Users -> Seq(Prints)]
      /\ pc[s] # "reply" => reply[s].outcome = "none"
  BY DEF TInv, TypeOK, ReplyInv, NoReply
<1> USE DEF LocalStep, Finish, Answer, Continue, GoTo
<1>1. CASE Respond(s)
  BY <1>0, <1>1 DEF Respond, Release, Returning, Scoring, Enriching, NoReply
<1>2. CASE ReadFingerprints(s)
  <2>1. /\ UNCHANGED <<msg, promised>> /\ pc[s] = "readFingerprints"
    BY <1>2 DEF ReadFingerprints, historyVars
  <2>2. Username(s) \in Users
    <3>1. msg[s] \in Submissions
      BY <2>1 DEF TInv, TypeOK, BodyInv, BodyLabels, Submissions
    <3> QED BY <3>1, MessagesAssumption DEF Username
  <2>3. reply'[s].outcome # "banned"
    BY <1>0, <1>2, <2>1 DEF ReadFingerprints, GetUserFailed
  <2>4. ASSUME pc'[s] \in {"enrich", "enrichFetch", "evaluate"}
        PROVE  user'[s].fingerprints \in {<< >>, <<promised[Username(s)]>>}
    <3>1. user' = [user EXCEPT ![s].fingerprints = Reverse(rows[Username(s)])]
      BY <1>0, <1>2, <2>4 DEF ReadFingerprints, GetUserFailed
    <3>2. rows[Username(s)] \in {<< >>, <<promised[Username(s)]>>} /\ rows[Username(s)] \in Seq(Prints)
      BY <1>0, <2>2 DEF AccountInv, BaselineIsCreators
    <3>3. Reverse(rows[Username(s)]) \in {<< >>, <<promised[Username(s)]>>}
      BY <3>2, ReverseOfRows
    <3> QED BY <1>0, <3>1, <3>3
  <2> QED BY <2>1, <2>3, <2>4 DEF Returning, Scoring, Enriching, Username
<1>3. CASE EvaluateLogin(s)
  <2> DEFINE g == Fingerprint(msg[s])
             result == Evaluate(user[s].fingerprints, g, info[s])
  <2>1. /\ UNCHANGED <<msg, promised>> /\ pc[s] = "evaluate" /\ pc'[s] = "reply"
        /\ reply'[s].outcome = "banned" => result.verdict = "ban"
    BY <1>0, <1>3 DEF EvaluateLogin, historyVars
  <2>2. user[s].fingerprints \in {<< >>, <<promised[Username(s)]>>}
    BY <2>1 DEF Returning, Scoring
  <2>3. g.client = msg[s].body.client
    BY DEF Fingerprint, ExtractFingerprint
  <2>4. result.verdict = "ban" => Excused(s)
    <3> HIDE DEF g
    <3>1. CASE SameBrowser(promised[Username(s)], g)
               /\ ~(AutomationPoints(g.client) + ConsistencyPoints(g.client) > 0)
      <4>1. Evaluate(user[s].fingerprints, g, info[s]).verdict = "allow"
        <5>1. NoveltyPoints(user[s].fingerprints, g) = 0
          BY <2>2, <3>1, OwnBaselineIsKnown
        <5> QED BY <3>1, <5>1, CleanKnownAllowed
      <4> QED BY <4>1
    <3> QED BY <2>3, <3>1 DEF Excused, g
  <2>5. Excused(s)' <=> Excused(s)
    BY <2>1 DEF Excused, Username, Fingerprint, ExtractFingerprint, Header, ClientIP
  <2> QED BY <2>1, <2>4, <2>5 DEF Returning, Scoring, Enriching
<1>4. CASE CreateUser(s) \/ FindUser(s) \/ InsertFingerprint(s)
  <2>1. pc'[s] \in {"findUser", "insertFingerprint", "reply"} /\ reply'[s].outcome # "banned"
    BY <1>0, <1>4 DEF CreateUser, FindUser, InsertFingerprint, UserExists
  <2> QED BY <2>1 DEF Returning, Scoring, Enriching
<1>5. CASE ScreenHit(s) \/ ScreenMiss(s) \/ ScreenFetched(s) \/ ScreenFailed(s)
  <2>1. pc'[s] \in {"blacklist", "screenFetch", "reply"} /\ reply'[s].outcome # "banned"
    BY <1>0, <1>5 DEF ScreenHit, CacheHit, ScreenMiss, CacheMiss, ScreenFetched, Fetched,
           ScreenFailed
  <2> QED BY <2>1 DEF Returning, Scoring, Enriching
<1>6. CASE EnrichHit(s) \/ EnrichMiss(s) \/ EnrichFetched(s) \/ EnrichFailed(s)
  <2>1. /\ UNCHANGED <<msg, user, promised, reply>>
        /\ Scoring(s)' => Scoring(s)
        /\ reply[s].outcome = "none"
    BY <1>0, <1>6 DEF EnrichHit, CacheHit, EnrichMiss, CacheMiss, EnrichFetched, Fetched,
           EnrichFailed, AfterEnrich, historyVars, Scoring, Enriching
  <2> QED BY <2>1 DEF Returning, Username
<1>7. CASE CheckBlacklist(s) \/ ServePage(s) \/ DebugFingerprint(s)
  <2>1. pc'[s] \in {"handle", "reply"} /\ reply'[s].outcome # "banned"
    BY <1>0, <1>7 DEF CheckBlacklist, ServePage, DebugFingerprint
  <2> QED BY <2>1 DEF Returning, Scoring, Enriching
<1>8. CASE Register(s) \/ Login(s)
  <2>1. PICK label \in {"createUser", "readUser", "reply"},
             o \in {"undecodable", "corrupted", "missing", "internal"} :
           /\ pc' = [pc EXCEPT ![s] = label]
           /\ reply' = IF label = "reply"
                       THEN [reply EXCEPT ![s] = [outcome |-> o, result |-> Nil]]
                       ELSE reply
    BY <1>8 DEF Register, Login
  <2>2. pc[s] = "handle"
    BY <1>8 DEF Register, Login
  <2>3. pc'[s] \in {"createUser", "readUser", "reply"} /\ reply'[s].outcome # "banned"
    BY <1>0, <2>1, <2>2
  <2> QED BY <2>3 DEF Returning, Scoring, Enriching
<1>9. CASE StartDebug(s)
  <2>1. msg'[s].route = "debug" /\ pc'[s] = "enrich" /\ reply'[s].outcome # "banned"
    BY <1>0, <1>9 DEF StartDebug
  <2> QED BY <2>1 DEF Returning, Scoring, Enriching
<1>10. CASE ReadUser(s)
  <2>1. pc'[s] \in {"readFingerprints", "reply"} /\ reply'[s].outcome # "banned"
    BY <1>0, <1>10 DEF ReadUser, GetUserFailed
  <2> QED BY <2>1 DEF Returning, Scoring, Enriching
<1> QED BY <1>1, <1>2, <1>3, <1>4, <1>5, <1>6, <1>7, <1>8, <1>9, <1>10 DEF Step

LEMMA NextReturnerInv ==
    TInv /\ AccountInv /\ CredInv /\ ReturnerInv /\ [Next]_vars => ReturnerInv'
<1> SUFFICES ASSUME TInv, AccountInv, CredInv, ReturnerInv, [Next]_vars
             PROVE  ReturnerInv'
  OBVIOUS
<1>1. ASSUME NEW s \in Slots, Step(s) PROVE ReturnerInv'
  BY <1>1, StepReturning, StepGrows, StepUntouched, UntouchedReturning DEF ReturnerInv
<1>2. ASSUME NEW s \in Slots, NEW m \in Messages, Arrive(s, m) PROVE ReturnerInv'
  <2>1. Returning(s)'
    BY <1>2, ArriveUntouched DEF Returning, Scoring, Enriching
  <2> QED BY <1>2, <2>1, ArriveUntouched, UntouchedReturning DEF ReturnerInv
<1>3. CASE Crash
  BY <1>3 DEF Crash, Release, ReturnerInv, Returning, Scoring, Enriching, NoReply
<1>4. CASE UNCHANGED vars
  BY <1>4, StutterUntouched, UntouchedReturning DEF ReturnerInv
<1> QED BY <1>1, <1>2, <1>3, <1>4 DEF Next

LEMMA InitReturnerInv == Init => ReturnerInv
BY DEF Init, ReturnerInv, Returning, Scoring, Enriching, NoReply

(* A clean browser that registered the account is never banned, although   *)
(* its baseline may be missing, the lookup of its address may fail, and    *)
(* other registrations of the name and logins run beside it (handler.go    *)
(* lines 69-71 and 108-124 with engine.go).                                *)
THEOREM ReturnerIsAllowed == Spec => []ReturningBrowserAllowed
<1>1. ReturnerInv => ReturningBrowserAllowed
  BY DEF ReturnerInv, Returning, Excused, ReturningBrowserAllowed
<1> QED
  BY <1>1, InitTInv, NextTInv, InitAccountInv, NextAccountInv, InitCredInv, NextCredInv,
     InitReturnerInv, NextReturnerInv, PTL DEF Spec

-----------------------------------------------------------------------------
(* The accounts seen from outside.  The status of an account, case by      *)
(* case, and what it depends on.                                           *)
Statuses ==
    \A u \in Users :
        /\ users[u] = Nil => Status(u) = "none"
        /\ users[u] # Nil /\ rows[u] # << >> => Status(u) = "enrolled"
        /\ users[u] # Nil /\ rows[u] = << >> /\ Pending(u) => Status(u) = "pending"
        /\ users[u] # Nil /\ rows[u] = << >> /\ ~Pending(u) => Status(u) = "bare"

LEMMA StatusesHold == Statuses
BY DEF Statuses, Status

LEMMA PendingIs ==
    ASSUME NEW u
    PROVE  Pending(u) <=> \E s \in Slots : Adding(s) /\ Username(s) = u
BY DEF Pending, Adding

LEMMA StatusKept ==
    ASSUME NEW u \in Users, users'[u] = users[u], rows'[u] = rows[u],
           Pending(u)' <=> Pending(u)
    PROVE  Status(u)' = Status(u)
<1>1. Statuses /\ Statuses'
  BY StatusesHold, PTL
<1> QED BY <1>1 DEF Statuses

(* Steps that neither write nor begin nor end a registration.              *)
Still ==
    /\ UNCHANGED <<users, rows, promised>>
    /\ \A t \in Slots : Adding(t)' <=> Adding(t)
    /\ \A t \in Slots : Adding(t) => msg'[t] = msg[t]

LEMMA StillStutters ==
    ASSUME Still
    PROVE  UNCHANGED Accounts!vars
<1>1. ASSUME NEW u \in Users PROVE Pending(u)' <=> Pending(u)
  BY DEF Still, Pending, Adding, Username
<1>2. \A u \in Users : Status(u)' = Status(u)
  BY <1>1, StatusKept DEF Still
<1> QED BY <1>2 DEF Still, Accounts!vars

(* A request whose step neither creates, finds nor enrols.                 *)
LEMMA OtherStepsStill ==
    ASSUME TInv, NEW s \in Slots, Step(s),
           ~CreateUser(s), ~FindUser(s), ~InsertFingerprint(s)
    PROVE  Still
<1>1. ~Adding(s)
  BY DEF Adding, Step, ScreenHit, EnrichHit, CacheHit, ScreenMiss, EnrichMiss, CacheMiss,
         ScreenFetched, EnrichFetched, Fetched, ScreenFailed, EnrichFailed,
         CheckBlacklist, ServePage, Register, Login, StartDebug, ReadUser,
         ReadFingerprints, EvaluateLogin, DebugFingerprint, Respond
<1>2. \A t \in Slots \ {s} : pc'[t] = pc[t] /\ msg'[t] = msg[t]
  BY StepUntouched DEF Untouched, Unmoved
<1>3. Quiet
  BY StepQuiet
<1> QED BY <1>1, <1>2, <1>3 DEF Still, Quiet, Adding

(* The registration of one request ends without a row.                     *)
LEMMA EndAbandons ==
    ASSUME TInv, AccountInv, NEW s \in Slots, Adding(s), ~Adding(s)',
           UNCHANGED <<users, rows, promised>>,
           \A t \in Slots \ {s} : pc'[t] = pc[t] /\ msg'[t] = msg[t],
           NEW u, u = Username(s)
    PROVE  u \in Users /\ Accounts!Abandon({u})
<1>1. u \in Users /\ users[u] # Nil /\ rows[u] = << >> /\ Pending(u)
  BY WriterBody DEF AccountInv, Adding, Pending
<1>2. \A t \in Slots : Adding(t) /\ Username(t) = u => t = s
  BY DEF AccountInv
<1>3. ~Pending(u)'
  BY <1>2 DEF Pending, Adding, Username
<1>4. ASSUME NEW v \in Users, v # u PROVE Pending(v)' <=> Pending(v)
  BY <1>4 DEF Pending, Adding, Username
<1>5. Statuses /\ Statuses'
  BY StatusesHold, PTL
<1>6. Status(u) = "pending" /\ Status(u)' = "bare"
  BY <1>1, <1>3, <1>5 DEF Statuses
<1>7. \A v \in Users : v # u => Status(v)' = Status(v)
  BY <1>4, StatusKept
<1> QED BY <1>1, <1>6, <1>7 DEF Accounts!Abandon

(* An account is created, and its registration goes on or not.             *)
LEMMA CreateUserCreates ==
    ASSUME TInv, AccountInv, NEW s \in Slots, CreateUser(s)
    PROVE  [Accounts!Next]_(Accounts!vars)
<1>0. /\ pc \in [Slots -> Labels] /\ users \in [Users -> Passwords \cup {Nil}]
      /\ promised \in [Users -> Prints \cup {Nil}]
      /\ pc[s] = "createUser" /\ msg' = msg
  BY DEF TInv, TypeOK, CreateUser
<1>1. PICK u : u = Username(s)
  OBVIOUS
<1>2. /\ u \in Users /\ msg[s].body.password \in Passwords
      /\ msg[s].body.password # Nil /\ Fingerprint(msg[s]) \in Prints
  BY <1>0, <1>1, WriterBody
<1>3. \A t \in Slots \ {s} : pc'[t] = pc[t]
  BY <1>0 DEF CreateUser, UserExists, Continue, Finish, Answer, GoTo
<1>4. ASSUME NEW v \in Users, v # u PROVE Pending(v)' <=> Pending(v)
  BY <1>0, <1>1, <1>3, <1>4 DEF Pending, Adding, Username
<1>5. Statuses /\ Statuses'
  BY StatusesHold, PTL
<1>6. CASE UniqueViolation(u) \/ UNCHANGED <<storeVars, promised>>
  <2>1. pc'[s] = "reply" /\ UNCHANGED <<users, rows, promised>>
    BY <1>0, <1>1, <1>2, <1>6 DEF CreateUser, UserExists, UniqueViolation, InsertUser,
           Continue, Finish, Answer, GoTo, storeVars
  <2>2. Still
    BY <1>0, <1>3, <2>1 DEF Still, Adding
  <2> QED BY <2>2, StillStutters
<1>7. CASE /\ users[u] = Nil
           /\ users' = [users EXCEPT ![u] = msg[s].body.password]
           /\ promised' = [promised EXCEPT ![u] = Fingerprint(msg[s])]
           /\ rows' = rows
  <2>1. rows[u] = << >> /\ users'[u] # Nil /\ Status(u) = "none"
    BY <1>0, <1>2, <1>5, <1>7 DEF AccountInv, Statuses
  <2>2. Status(u)' \in {"pending", "bare"}
    BY <1>2, <1>5, <1>7, <2>1 DEF Statuses
  <2>3. \A v \in Users : v # u => Status(v)' = Status(v)
    BY <1>0, <1>4, <1>7, StatusKept
  <2>4. Accounts!Create(u, msg[s].body.password, Fingerprint(msg[s]))
    BY <1>2, <1>7, <2>1, <2>2, <2>3 DEF Accounts!Create
  <2> QED BY <1>2, <2>4 DEF Accounts!Next
<1> QED BY <1>1, <1>6, <1>7 DEF CreateUser, InsertUser, UniqueViolation

LEMMA InsertFingerprintEnrols ==
    ASSUME TInv, AccountInv, NEW s \in Slots, InsertFingerprint(s)
    PROVE  [Accounts!Next]_(Accounts!vars)
<1>0. /\ pc \in [Slots -> Labels] /\ rows \in [Users -> Seq(Prints)]
      /\ pc[s] = "insertFingerprint" /\ pc'[s] = "reply"
      /\ \A t \in Slots \ {s} : pc'[t] = pc[t]
      /\ UNCHANGED <<msg, users, promised>>
  BY DEF TInv, TypeOK, InsertFingerprint, Finish, Answer, GoTo, AppendRow, storeVars,
         historyVars
<1>1. PICK u : u = Username(s)
  OBVIOUS
<1>2. /\ u \in Users /\ users[u] # Nil /\ rows[u] = << >> /\ Pending(u)
      /\ promised[u] = Fingerprint(msg[s])
  BY <1>0, <1>1, WriterBody DEF AccountInv, Adding, Pending
<1>3. CASE UNCHANGED storeVars
  <2>1. Accounts!Abandon({u})
    BY <1>0, <1>1, <1>3, EndAbandons DEF Adding, storeVars
  <2> QED BY <1>2, <2>1 DEF Accounts!Next
<1>4. CASE rows' = [rows EXCEPT ![u] = Append(@, Fingerprint(msg[s]))]
  <2>1. rows' = [rows EXCEPT ![u] = <<promised[u]>>] /\ rows'[u] # << >>
    BY <1>0, <1>2, <1>4
  <2>2. ASSUME NEW v \in Users, v # u PROVE Pending(v)' <=> Pending(v)
    BY <1>0, <1>1, <2>2 DEF Pending, Adding, Username
  <2>3. Statuses /\ Statuses'
    BY StatusesHold, PTL
  <2>4. Status(u) = "pending" /\ Status(u)' = "enrolled"
    BY <1>0, <1>2, <2>1, <2>3 DEF Statuses
  <2>5. \A v \in Users : v # u => Status(v)' = Status(v)
    BY <1>0, <2>1, <2>2, StatusKept
  <2>6. Accounts!Enrol(u)
    BY <1>0, <1>2, <2>1, <2>4, <2>5 DEF Accounts!Enrol
  <2> QED BY <1>2, <2>6 DEF Accounts!Next
<1> QED BY <1>1, <1>3, <1>4 DEF InsertFingerprint, AppendRow

LEMMA FindUserAbandons ==
    ASSUME TInv, AccountInv, NEW s \in Slots, FindUser(s)
    PROVE  [Accounts!Next]_(Accounts!vars)
<1>0. /\ pc \in [Slots -> Labels] /\ pc[s] = "findUser"
      /\ pc'[s] \in {"insertFingerprint", "reply"}
      /\ \A t \in Slots \ {s} : pc'[t] = pc[t]
      /\ UNCHANGED <<msg, users, rows, promised>>
  BY DEF TInv, TypeOK, FindUser, Continue, Finish, Answer, GoTo, LocalStep, storeVars,
         historyVars
<1>1. CASE pc'[s] = "insertFingerprint"
  <2>1. Still
    BY <1>0, <1>1 DEF Still, Adding
  <2> QED BY <2>1, StillStutters
<1>2. CASE pc'[s] = "reply"
  <2>1. PICK u : u = Username(s)
    OBVIOUS
  <2>2. u \in Users /\ Accounts!Abandon({u})
    BY <1>0, <1>2, <2>1, EndAbandons DEF Adding
  <2> QED BY <2>2 DEF Accounts!Next
<1> QED BY <1>0, <1>1, <1>2

(* All registrations that are under way end at once.                       *)
LEMMA CrashAbandons ==
    ASSUME TInv, AccountInv, Crash
    PROVE  [Accounts!Next]_(Accounts!vars)
<1> DEFINE lost == {u \in Users : Status(u) = "pending"}
<1>1. /\ UNCHANGED <<users, rows, promised>>
      /\ \A u \in Users : ~Pending(u)'
  BY DEF Crash, Release, storeVars, historyVars, Pending
<1>2. Statuses /\ Statuses'
  BY StatusesHold, PTL
<1>3. \A u \in Users : Status(u)' = IF Status(u) = "pending" THEN "bare" ELSE Status(u)
  BY <1>1, <1>2 DEF Statuses
<1>4. CASE lost = {}
  BY <1>1, <1>3, <1>4 DEF Accounts!vars
<1>5. CASE lost # {}
  <2>1. [u \in Users |-> Status(u)']
          = [u \in Users |-> IF u \in lost THEN "bare" ELSE Status(u)]
    BY <1>3
  <2>2. Accounts!Abandon(lost)
    BY <1>1, <1>5, <2>1 DEF Accounts!Abandon
  <2>3. lost \in SUBSET Users
    OBVIOUS
  <2> QED BY <2>2, <2>3 DEF Accounts!Next
<1> QED BY <1>4, <1>5

LEMMA NextRefines ==
    TInv /\ AccountInv /\ [Next]_vars => [Accounts!Next]_(Accounts!vars)
<1> SUFFICES ASSUME TInv, AccountInv, [Next]_vars PROVE [Accounts!Next]_(Accounts!vars)
  OBVIOUS
<1>1. ASSUME NEW s \in Slots, Step(s) PROVE [Accounts!Next]_(Accounts!vars)
  BY <1>1, CreateUserCreates, FindUserAbandons, InsertFingerprintEnrols, OtherStepsStill,
     StillStutters
<1>2. ASSUME NEW s \in Slots, NEW m \in Messages, Arrive(s, m)
      PROVE  [Accounts!Next]_(Accounts!vars)
  <2>1. ~Adding(s) /\ ~Adding(s)' /\ UNCHANGED <<users, rows, promised>>
    BY <1>2, ArriveUntouched DEF Arrive, Adding, storeVars, historyVars
  <2>2. Still
    BY <1>2, <2>1, ArriveUntouched DEF Still, Adding, Untouched, Unmoved
  <2> QED BY <2>2, StillStutters
<1>3. CASE Crash
  BY <1>3, CrashAbandons
<1>4. CASE UNCHANGED vars
  <2>1. Still
    BY <1>4 DEF vars, requestVars, storeVars, historyVars, Still, Adding
  <2> QED BY <2>1, StillStutters
<1> QED BY <1>1, <1>2, <1>3, <1>4 DEF Next

LEMMA InitRefines == Init => Accounts!Init
<1> SUFFICES ASSUME Init PROVE Accounts!Init
  OBVIOUS
<1>1. \A u \in Users : Status(u) = "none"
  BY StatusesHold DEF Statuses, Init
<1> QED BY <1>1 DEF Init, Accounts!Init

(* The request path implements the enrolment of accounts: whatever races,  *)
(* fails or crashes, seen from outside an account is created once, with    *)
(* one password, its baseline is the fingerprint of that registration,     *)
(* stored once or never, and never after the registration has ended.       *)
THEOREM ServiceEnrols == Spec => AccountsEnrolled
<1> QED
  BY InitTInv, NextTInv, InitAccountInv, NextAccountInv, InitRefines, NextRefines, PTL
  DEF Spec, AccountsEnrolled, Accounts!Spec
=============================================================================
