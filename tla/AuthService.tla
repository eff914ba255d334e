----------------------------- MODULE AuthService -----------------------------
(***************************************************************************)
(* The request path of the server: the guard (pkg/sentinel/sentinel.go and *)
(* evaluateRequest of cmd/server/main.go), the three API handlers of       *)
(* internal/handler/handler.go, the ipdata client with its cache           *)
(* (pkg/sentinel/ipdata/client.go, pkg/fifocache) and the PostgreSQL store *)
(* (pkg/store/postgres.go).                                                *)
(*                                                                         *)
(* Go serves every request in a goroutine of its own.  A slot is such a    *)
(* goroutine: idle, or between two of the calls at which requests can      *)
(* interleave, which are the cache, the HTTP call to ipdata.co and the     *)
(* SQL statements (each one a transaction).                                *)
(***************************************************************************)
EXTENDS Scoring, SequencesExt

CONSTANTS
    Slots,            \* concurrent requests
    Messages,         \* the requests clients may send
    Users,            \* the usernames occurring in Messages
    IPs,              \* the addresses occurring in Messages
    Answers,          \* what ipdata.co may answer for each address
    Blacklist,        \* the hashes of table blacklisted_ja3
    LongPasswords,    \* the passwords bcrypt refuses (over 72 bytes)
    IpDataFIFOLen     \* flag IPDATA_FIFO_LEN

VARIABLES
    pc,               \* where each request stands
    msg,              \* the request in each slot, Nil when idle
    info,             \* the IP record its last Lookup returned
    user,             \* what GetUser has read: [hash, fingerprints]
    reply,            \* the response decided: [outcome, result]
    users,            \* table users: password of each username, Nil if absent
    rows,             \* table fingerprints: the rows of each username, by age
    order, items,     \* the ipdata cache
    promised,         \* history: the fingerprint sent with the registration
                      \* that created the account, Nil before
    acked,            \* history: users whose registration the client saw succeed
    hadBaseline       \* history: the user had a baseline when the request arrived

requestVars == <<pc, msg, info, user, reply, hadBaseline>>
storeVars == <<users, rows>>
cacheVars == <<order, items>>
historyVars == <<acked, promised>>
vars == <<requestVars, storeVars, cacheVars, historyVars>>

ZeroInfo == [timezone |-> "", offset |-> Nil, flags |-> {}]

Infos == (UNION {Answers[ip] : ip \in IPs}) \cup {ZeroInfo}

Cache == INSTANCE FifoCache
            WITH Keys <- IPs, Values <- Infos, ConfiguredSize <- IpDataFIFOLen

NoUser == [hash |-> Nil, fingerprints |-> << >>]

NoReply == [outcome |-> "none", result |-> Nil]

-----------------------------------------------------------------------------
(* What a request is taken to be.                                          *)

\* ExtractClientIP: the first address of X-Forwarded-For, or the peer's.
ClientIP(m) == IF m.forwarded # << >> THEN Head(m.forwarded) ELSE m.remote

\* An injector that fails or yields "" leaves the header as it came.
Header(m, h) == IF m.computed[h] # "" THEN m.computed[h] ELSE m.supplied[h]

ExtractFingerprint(m) ==
    [ja3 |-> Header(m, "ja3"), ja4 |-> Header(m, "ja4"),
     peetPrint |-> Header(m, "peetPrint"), userAgent |-> m.userAgent,
     ip |-> ClientIP(m), client |-> Nil]

\* The fingerprint that Register enrols and Login scores.
Fingerprint(m) == [ExtractFingerprint(m) EXCEPT !.client = m.body.client]

Username(s) == msg[s].body.username

Corrupted(body) == body.theme = "Emerald" /\ ~IsValid(body.client)

DecliningFlags == {"isTor", "isVPN", "isDatacenter", "isKnownAttacker",
                   "isKnownAbuser", "isThreat", "blocklists"}

Declined(ja3, record) == ja3 \in Blacklist \/ record.flags \cap DecliningFlags # {}

Submissions == {m \in Messages : m.body # Nil}

Passwords == {m.body.password : m \in Submissions}

Prints == {Fingerprint(m) : m \in Submissions}

(* Every address and username of a request is among the constants, and Nil *)
(* stands for no request, no password and no fingerprint.                  *)
ASSUME MessagesAssumption ==
    /\ \A m \in Messages : ClientIP(m) \in IPs
    /\ \A m \in Submissions : m.body.username \in Users
    /\ Nil \notin Messages /\ Nil \notin Passwords /\ Nil \notin Prints

ASSUME IpDataFIFOLenAssumption == IpDataFIFOLen \in Nat

-----------------------------------------------------------------------------
Init ==
    /\ pc = [s \in Slots |-> "idle"]
    /\ msg = [s \in Slots |-> Nil]
    /\ info = [s \in Slots |-> ZeroInfo]
    /\ user = [s \in Slots |-> NoUser]
    /\ reply = [s \in Slots |-> NoReply]
    /\ hadBaseline = [s \in Slots |-> FALSE]
    /\ users = [u \in Users |-> Nil]
    /\ rows = [u \in Users |-> << >>]
    /\ Cache!Init
    /\ acked = {}
    /\ promised = [u \in Users |-> Nil]

GoTo(s, label) == pc' = [pc EXCEPT ![s] = label]

Answer(s, outcome, result) ==
    /\ GoTo(s, "reply")
    /\ reply' = [reply EXCEPT ![s] = [outcome |-> outcome, result |-> result]]

Finish(s, outcome) == Answer(s, outcome, Nil)

Continue(s, label) == GoTo(s, label) /\ UNCHANGED reply

\* A step that changes nothing but where the request stands.
LocalStep ==
    UNCHANGED <<msg, info, user, hadBaseline, storeVars, cacheVars, historyVars>>

-----------------------------------------------------------------------------
(* The guard: HTTPHandler.ServeHTTP.                                       *)

Arrive(s, m) ==
    /\ pc[s] = "idle"
    /\ msg' = [msg EXCEPT ![s] = m]
    /\ hadBaseline' = [hadBaseline EXCEPT
                          ![s] = m.body # Nil /\ rows[m.body.username] # << >>]
    /\ IF m.probe THEN Finish(s, "probe") ELSE Continue(s, "screen")
    /\ UNCHANGED <<info, user, storeVars, cacheVars, historyVars>>

\* Client.Lookup from the cache, on behalf of the guard or of a handler.
CacheHit(s, from, to) ==
    /\ pc[s] = from
    /\ Cache!Has(ClientIP(msg[s]))
    /\ info' = [info EXCEPT ![s] = Cache!Cached(ClientIP(msg[s]))]
    /\ Continue(s, to)
    /\ UNCHANGED <<msg, user, hadBaseline, storeVars, cacheVars, historyVars>>

CacheMiss(s, from, to) ==
    /\ pc[s] = from
    /\ ~Cache!Has(ClientIP(msg[s]))
    /\ Continue(s, to)
    /\ LocalStep

\* ipdata.co answered: the answer is cached unless another request has been
\* faster, and returned in any case.
Fetched(s, from, to) ==
    /\ pc[s] = from
    /\ \E answer \in Answers[ClientIP(msg[s])] :
          /\ Cache!Put(ClientIP(msg[s]), answer)
          /\ info' = [info EXCEPT ![s] = answer]
    /\ Continue(s, to)
    /\ UNCHANGED <<msg, user, hadBaseline, storeVars, historyVars>>

ScreenHit(s) == CacheHit(s, "screen", "blacklist")

ScreenMiss(s) == CacheMiss(s, "screen", "screenFetch")

ScreenFetched(s) == Fetched(s, "screenFetch", "blacklist")

\* No answer in 5 seconds, a status other than 200, or a body that does not
\* decode: the guard refuses the request.
\* (ScreenFailedOpen and ScreenFailedRetries are MUTANTS of ScreenFailed.)
ScreenFailedOpen(s) ==
    /\ pc[s] = "screenFetch"
    /\ info' = [info EXCEPT ![s] = ZeroInfo]
    /\ Continue(s, "blacklist")
    /\ UNCHANGED <<msg, user, hadBaseline, storeVars, cacheVars, historyVars>>

ScreenFailedRetries(s) ==
    /\ pc[s] = "screenFetch"
    /\ Continue(s, "screen")
    /\ LocalStep

ScreenFailed(s) ==
    /\ pc[s] = "screenFetch"
    /\ Finish(s, "failed")
    /\ LocalStep

\* CheckJA3Blacklist, then the verdict on the flags of the IP record.
CheckBlacklist(s) ==
    /\ pc[s] = "blacklist"
    /\ \/ Finish(s, "failed")
       \/ /\ Declined(ExtractFingerprint(msg[s]).ja3, info[s])
          /\ Finish(s, "declined")
       \/ /\ ~Declined(ExtractFingerprint(msg[s]).ja3, info[s])
          /\ Continue(s, "handle")
    /\ LocalStep

\* The embedded frontend, and 404 for unknown API paths.
ServePage(s) ==
    /\ pc[s] = "handle"
    /\ msg[s].route = "page"
    /\ Finish(s, "page")
    /\ LocalStep

-----------------------------------------------------------------------------
(* Handler.Register, up to the first statement and statement by statement. *)

Register(s) ==
    LET body == msg[s].body
    IN  /\ pc[s] = "handle"
        /\ msg[s].route = "register"
        /\ IF body = Nil THEN Finish(s, "undecodable")
           ELSE IF Corrupted(body) THEN Finish(s, "corrupted")
           ELSE IF body.username = "" \/ body.password = "" THEN Finish(s, "missing")
           ELSE IF body.password \in LongPasswords THEN Finish(s, "internal")
           ELSE Continue(s, "createUser")
        /\ LocalStep

\* MUTANT of InsertUser: the parameters of the statement are swapped.
InsertUserSwapped(u, pwd) == users' = [users EXCEPT ![u] = u] /\ UNCHANGED rows

InsertUser(u, pwd) == users' = [users EXCEPT ![u] = pwd] /\ UNCHANGED rows

\* MUTANT of UniqueViolation: table users without its primary key.
NoPrimaryKey(u) == FALSE

UniqueViolation(u) == users[u] # Nil

\* MUTANT of UserExists: the error is ignored like that of AddFingerprint.
UserExistsIgnored(s) == Continue(s, "findUser")

UserExists(s) == Finish(s, "conflict")

\* INSERT INTO users.  An error may hide an insertion that was committed: the
\* deadline passed, or the connection was lost, after the commit.
CreateUser(s) ==
    LET u == Username(s)
    IN  /\ pc[s] = "createUser"
        /\ \/ /\ ~UniqueViolation(u)
              /\ InsertUser(u, msg[s].body.password)
              /\ promised' = [promised EXCEPT ![u] = Fingerprint(msg[s])]
              /\ Continue(s, "findUser") \/ Finish(s, "internal")
           \/ /\ UniqueViolation(u)
              /\ UNCHANGED <<storeVars, promised>>
              /\ UserExists(s)
           \/ /\ UNCHANGED <<storeVars, promised>>
              /\ Finish(s, "internal")
        /\ UNCHANGED <<msg, info, user, hadBaseline, cacheVars, acked>>

\* AddFingerprint, SELECT EXISTS.  Register ignores the error it returns.
FindUser(s) ==
    /\ pc[s] = "findUser"
    /\ \/ users[Username(s)] # Nil /\ Continue(s, "insertFingerprint")
       \/ Finish(s, "registered")
    /\ LocalStep

\* MUTANT of AppendRow: client_raw is not among the columns.
AppendRowWithoutClient(u, fp) ==
    rows' = [rows EXCEPT ![u] = Append(@, [fp EXCEPT !.client = Nil])] /\ UNCHANGED users

AppendRow(u, fp) == rows' = [rows EXCEPT ![u] = Append(@, fp)] /\ UNCHANGED users

\* AddFingerprint, INSERT INTO fingerprints.
InsertFingerprint(s) ==
    /\ pc[s] = "insertFingerprint"
    /\ \/ AppendRow(Username(s), Fingerprint(msg[s]))
       \/ UNCHANGED storeVars
    /\ Finish(s, "registered")
    /\ UNCHANGED <<msg, info, user, hadBaseline, cacheVars, historyVars>>

-----------------------------------------------------------------------------
(* Handler.Login.                                                          *)

Login(s) ==
    LET body == msg[s].body
    IN  /\ pc[s] = "handle"
        /\ msg[s].route = "login"
        /\ IF body = Nil THEN Finish(s, "undecodable")
           ELSE IF Corrupted(body) THEN Finish(s, "corrupted")
           ELSE Continue(s, "readUser")
        /\ LocalStep

\* MUTANT of GetUserFailed: the error of GetUser is ignored.
GetUserFailedIgnored(s) == Continue(s, "enrich")

\* Any error of GetUser reads as invalid credentials.
GetUserFailed(s) == Finish(s, "unauthorized")

\* GetUser, the first query.
ReadUser(s) ==
    /\ pc[s] = "readUser"
    /\ \/ /\ users[Username(s)] # Nil
          /\ user' = [user EXCEPT ![s].hash = users[Username(s)]]
          /\ Continue(s, "readFingerprints")
       \/ GetUserFailed(s) /\ UNCHANGED user
    /\ UNCHANGED <<msg, info, hadBaseline, storeVars, cacheVars, historyVars>>

\* MUTANT of PasswordMatches: the error of CompareHashAndPassword is ignored.
PasswordUnchecked(s) == TRUE

\* CompareHashAndPassword: only the password that was hashed matches.
PasswordMatches(s) == user[s].hash = msg[s].body.password

\* GetUser, the second query (newest row first), then the comparison of the
\* password; an error of the query ends the login.
ReadFingerprints(s) ==
    /\ pc[s] = "readFingerprints"
    /\ \/ /\ user' = [user EXCEPT ![s].fingerprints = Reverse(rows[Username(s)])]
          /\ IF PasswordMatches(s) THEN Continue(s, "enrich") ELSE Finish(s, "unauthorized")
       \/ GetUserFailed(s) /\ UNCHANGED user
    /\ UNCHANGED <<msg, info, hadBaseline, storeVars, cacheVars, historyVars>>

\* The second Lookup of the request, by Login and by DebugFingerprint.
AfterEnrich(s) == IF msg[s].route = "login" THEN "evaluate" ELSE "inspect"

EnrichHit(s) == CacheHit(s, "enrich", AfterEnrich(s))

EnrichMiss(s) == CacheMiss(s, "enrich", "enrichFetch")

EnrichFetched(s) == Fetched(s, "enrichFetch", AfterEnrich(s))

\* MUTANT of EnrichFailed: the failure is cached.
EnrichFailedCached(s) ==
    /\ pc[s] = "enrichFetch"
    /\ info' = [info EXCEPT ![s] = ZeroInfo]
    /\ Cache!Put(ClientIP(msg[s]), ZeroInfo)
    /\ Continue(s, AfterEnrich(s))
    /\ UNCHANGED <<msg, user, hadBaseline, storeVars, historyVars>>

\* The handlers drop the error of Lookup and go on with the zero record.
EnrichFailed(s) ==
    /\ pc[s] = "enrichFetch"
    /\ info' = [info EXCEPT ![s] = ZeroInfo]
    /\ Continue(s, AfterEnrich(s))
    /\ UNCHANGED <<msg, user, hadBaseline, storeVars, cacheVars, historyVars>>

\* MUTANT of EvaluateLogin: a login repairs a missing baseline.
EvaluateLoginEnrols(s) ==
    LET result == Evaluate(user[s].fingerprints, Fingerprint(msg[s]), info[s])
    IN  /\ pc[s] = "evaluate"
        /\ Answer(s, "evaluated", result)
        /\ IF rows[Username(s)] = << >>
           THEN AppendRow(Username(s), Fingerprint(msg[s]))
           ELSE UNCHANGED storeVars
        /\ UNCHANGED <<msg, info, user, hadBaseline, cacheVars, historyVars>>

EvaluateLogin(s) ==
    LET result == Evaluate(user[s].fingerprints, Fingerprint(msg[s]), info[s])
        banned == msg[s].body.theme = "Emerald" /\ result.verdict = "ban"
    IN  /\ pc[s] = "evaluate"
        /\ Answer(s, IF banned THEN "banned" ELSE "evaluated", result)
        /\ LocalStep

-----------------------------------------------------------------------------
(* Handler.DebugFingerprint.                                               *)

StartDebug(s) ==
    /\ pc[s] = "handle"
    /\ msg[s].route = "debug"
    /\ Continue(s, "enrich")
    /\ LocalStep

\* CheckJA3Blacklist again; an error only leaves that part of the report out.
DebugFingerprint(s) ==
    /\ pc[s] = "inspect"
    /\ Finish(s, "debug")
    /\ LocalStep

-----------------------------------------------------------------------------
Release(S) ==
    /\ pc' = [s \in Slots |-> IF s \in S THEN "idle" ELSE pc[s]]
    /\ msg' = [s \in Slots |-> IF s \in S THEN Nil ELSE msg[s]]
    /\ info' = [s \in Slots |-> IF s \in S THEN ZeroInfo ELSE info[s]]
    /\ user' = [s \in Slots |-> IF s \in S THEN NoUser ELSE user[s]]
    /\ reply' = [s \in Slots |-> IF s \in S THEN NoReply ELSE reply[s]]
    /\ hadBaseline' = [s \in Slots |-> IF s \in S THEN FALSE ELSE hadBaseline[s]]

\* The response is written; the client receives it, or has gone.
Respond(s) ==
    /\ pc[s] = "reply"
    /\ \/ /\ reply[s].outcome = "registered"
          /\ acked' = acked \cup {Username(s)}
       \/ UNCHANGED acked
    /\ Release({s})
    /\ UNCHANGED <<storeVars, cacheVars, promised>>

\* The process stops and starts again: only the database survives.
Crash ==
    /\ \E s \in Slots : pc[s] # "idle"
    /\ Release(Slots)
    /\ order' = << >>
    /\ items' = Cache!NoItems
    /\ UNCHANGED <<storeVars, historyVars>>

Step(s) ==
    \/ ScreenHit(s) \/ ScreenMiss(s) \/ ScreenFetched(s) \/ ScreenFailed(s)
    \/ CheckBlacklist(s) \/ ServePage(s)
    \/ Register(s) \/ CreateUser(s) \/ FindUser(s) \/ InsertFingerprint(s)
    \/ Login(s) \/ ReadUser(s) \/ ReadFingerprints(s)
    \/ EnrichHit(s) \/ EnrichMiss(s) \/ EnrichFetched(s) \/ EnrichFailed(s)
    \/ EvaluateLogin(s)
    \/ StartDebug(s) \/ DebugFingerprint(s)
    \/ Respond(s)

Next ==
    \/ \E s \in Slots : Step(s) \/ \E m \in Messages : Arrive(s, m)
    \/ Crash

Spec == Init /\ [][Next]_vars

(* Every call a request makes returns: the cache never blocks for ever,    *)
(* the HTTP client and each store operation give up after 5 seconds.       *)
Fairness == \A s \in Slots : WF_vars(Step(s))

FairSpec == Spec /\ Fairness
-----------------------------------------------------------------------------
Labels == {"idle", "screen", "screenFetch", "blacklist", "handle", "createUser",
           "findUser", "insertFingerprint", "readUser", "readFingerprints",
           "enrich", "enrichFetch", "evaluate", "inspect", "reply"}

Outcomes == {"none", "probe", "failed", "declined", "page", "undecodable",
             "corrupted", "missing", "internal", "conflict", "registered",
             "unauthorized", "banned", "evaluated", "debug"}

Results == [score : 0 .. 100, verdict : {"allow", "ban"}] \cup {Nil}

TypeOK ==
    /\ pc \in [Slots -> Labels]
    /\ msg \in [Slots -> Messages \cup {Nil}]
    /\ \A s \in Slots : pc[s] = "idle" <=> msg[s] = Nil
    /\ info \in [Slots -> Infos]
    /\ user \in [Slots -> [hash : Passwords \cup {Nil}, fingerprints : Seq(Prints)]]
    /\ reply \in [Slots -> [outcome : Outcomes, result : Results]]
    /\ hadBaseline \in [Slots -> BOOLEAN]
    /\ users \in [Users -> Passwords \cup {Nil}]
    /\ rows \in [Users -> Seq(Prints)]
    /\ promised \in [Users -> Prints \cup {Nil}]
    /\ acked \subseteq Users
    /\ Cache!TypeOK

(* However registrations race, fail or are repeated, an account has at     *)
(* most one baseline, and it is the fingerprint that came with the         *)
(* password stored for the account (Register, handler.go lines 60-71).     *)
BaselineIsCreators ==
    \A u \in Users : rows[u] \in {<< >>, <<promised[u]>>}

(* No score leaves the server unless the password sent with the request is *)
(* the stored one, whatever the two queries of GetUser saw (handler.go     *)
(* lines 97-106, postgres.go lines 66-120).                                *)
CredentialsChecked ==
    \A s \in Slots :
        reply[s].outcome \in {"evaluated", "banned"}
            => users[Username(s)] = msg[s].body.password

(* A login that arrives when the baseline is stored is compared with it:   *)
(* no failure of the second query of GetUser passes for an empty history,  *)
(* which Evaluate would not compare at all (postgres.go lines 83-117).     *)
BaselineIsSeen ==
    \A s \in Slots :
        (hadBaseline[s] /\ pc[s] \in {"enrich", "enrichFetch", "evaluate"})
            => user[s].fingerprints # << >> \/ msg[s].route # "login"

SameBrowser(f, g) ==
    f # Nil /\ \A part \in {"ja3", "ja4", "peetPrint", "client"} : f[part] = g[part]

(* A clean browser that is the one its account was registered with is      *)
(* never banned, whatever became of its baseline and of the IP lookup      *)
(* (handler.go lines 69-71 and 108-124 with engine.go).                    *)
ReturningBrowserAllowed ==
    \A s \in Slots :
        reply[s].outcome = "banned"
            => \/ ~SameBrowser(promised[Username(s)], Fingerprint(msg[s]))
               \/ AutomationPoints(msg[s].body.client)
                     + ConsistencyPoints(msg[s].body.client) > 0

(* Where ipdata.co does not change its mind, no handler works on a record  *)
(* that the guard would refuse, although it looks the address up again and *)
(* ignores the errors of that lookup (main.go lines 53-100, handler.go     *)
(* lines 111 and 139).                                                     *)
StableAnswers == \A ip \in IPs : \A a, b \in Answers[ip] : a = b

NoThreatHandled ==
    StableAnswers =>
        \A s \in Slots : pc[s] \in {"evaluate", "inspect"}
            => ~Declined(ExtractFingerprint(msg[s]).ja3, info[s])

(* Whoever has an account was let in by the guard: not with a blacklisted  *)
(* JA3, and not from an address for which ipdata.co gives no answer that   *)
(* passes, whether the lookups fail, the cache is lost in a crash, or the  *)
(* answers change (main.go lines 53-100, sentinel.go lines 59-75).         *)
AccountsPassedGuard ==
    \A u \in Users : users[u] # Nil =>
        \E answer \in Answers[promised[u].ip] : ~Declined(promised[u].ja3, answer)

(* The cache holds answers of ipdata.co for the address they are filed     *)
(* under, never the zero record of a failed call (client.go lines 71-95).  *)
CacheHoldsAnswers ==
    /\ Cache!Coherent
    /\ \A ip \in DOMAIN items : items[ip].key = ip /\ items[ip].value \in Answers[ip]

(* Every request is answered: no error path drops it or retries for ever.  *)
EveryRequestAnswered == \A s \in Slots : pc[s] # "idle" ~> pc[s] = "idle"

(* README line 118: register stores the baseline fingerprint.  The handler *)
(* answers 201 whether or not AddFingerprint stored it (handler.go line    *)
(* 71), and nothing repairs the account afterwards.                        *)
RegisteredHasBaseline == \A u \in acked : rows[u] # << >>

(* README line 13: each authentication request is evaluated across three   *)
(* independent layers.  The network layer is missing when the lookup of    *)
(* the handler fails, its error being ignored (handler.go line 111).       *)
NetworkLayerEvaluated ==
    \A s \in Slots : pc[s] = "evaluate" => info[s] # ZeroInfo

-----------------------------------------------------------------------------
(* What the accounts look like from outside: Enrolment.                    *)
Pending(u) ==
    \E s \in Slots : /\ pc[s] \in {"findUser", "insertFingerprint"}
                     /\ Username(s) = u

Status(u) ==
    CASE users[u] = Nil -> "none"
      [] users[u] # Nil /\ rows[u] # << >> -> "enrolled"
      [] users[u] # Nil /\ rows[u] = << >> /\ Pending(u) -> "pending"
      [] OTHER -> "bare"

Accounts == INSTANCE Enrolment
                WITH Fingerprints <- Prints,
                     status <- [u \in Users |-> Status(u)],
                     password <- users,
                     baseline <- rows

(* The service implements Enrolment: an account is created once and never  *)
(* changes its password, its baseline is the one promised at creation, it  *)
(* is stored once or never, and never after the registration has ended.    *)
AccountsEnrolled == Accounts!Spec
=============================================================================
