# A TLA+ development of FingerAuth

FingerAuth is a Go server that registers users with a password and a *baseline
fingerprint*, and scores every later login against it.  This directory holds
TLA+ models of the server, the TLC runs that check them on small instances and
the theorems about them that TLAPS proves for every instance.

Paths below are those of the repository (`pkg/...`, `internal/...`, `cmd/...`).

## 1. Inventory

### The parts and how they interact

```
 browser ── TLS ──► proxyserver (fingerproxy) ──► guard ──► mux ──► handlers
 (React pages,        keeps the ClientHello       │                 │  │  │
  collector)          of the connection           │ evaluateRequest │  │  │
                                                  ▼                 ▼  │  ▼
                                    header injectors          scorer   │  store ──► PostgreSQL
                                    (JA3, JA4, PeetPrint)              ▼
                                                  └────────────► ipdata client ──► ipdata.co
                                                                  └ FIFO cache
```

| Component | State | Operations | Module |
|---|---|---|---|
| FIFO cache (`pkg/fifocache`) | list of entries, map of list elements, read-write lock | `New`, `Get`, `Put`, `Len` | `FifoCache`, `FifoCacheImpl` |
| Scoring engine (`pkg/sentinel/scoring`, `js_fingerprint/valid.go`) | none | `Evaluate`, `IsValid` | `Scoring`, `ScoreHistory`, `AnswerPages` |
| Guard (`pkg/sentinel/sentinel.go`, `evaluateRequest` of `cmd/server/main.go`) | none of its own | `ServeHTTP` | `AuthService` |
| ipdata client (`pkg/sentinel/ipdata`) | the cache | `Lookup` | `AuthService` |
| Handlers (`internal/handler`) | locals of each request | `Register`, `Login`, `DebugFingerprint` | `AuthService` |
| PostgreSQL store (`pkg/store/postgres.go`, `migrations`) | tables `users`, `fingerprints`, `blacklisted_ja3`; a pool of 10 connections | `CreateUser`, `GetUser`, `AddFingerprint`, `CheckJA3Blacklist` | `AuthService` |
| Request extraction (`internal/httputil`) | none | `ExtractFingerprint`, `ExtractClientIP` | `AuthService` |
| TLS fingerprints (`ja3`, `ja4`, `peetprint`, `fingerprint`) | none | from a ClientHello to a string | `TlsFingerprints`, `TlsConnections` |
| Browser pages (`frontend/src`) | page, theme, answer shown, form and its fields, requests in flight | type, submit, answer, navigate, toggle, show an answer | `ClientPages`, `FormPages`, `AnswerPages` |
| Collector (`frontend/src/utils/fingerprint.ts`) | what it has read, across four awaits | `collectFingerprint` | `Collector` |
| In-memory store (`pkg/store/memory.go`) | map of users, lock | as the store; the server does not use it | not modelled |
| Wiring (`pkg/server`, flags, env), presentation | configuration | none | not modelled |

Every request runs in a goroutine of its own.  Requests meet in the cache (under
its lock), in the database (each SQL statement is a transaction, the operations of
the store are not) and nowhere else.

### What is hard, and what correctness is

* **Registration** is three statements (`INSERT` user, `SELECT EXISTS`, `INSERT`
  fingerprint) without a transaction around them.  Registrations of a username
  race, the process may stop in between, a deadline may pass after a commit, and
  the error of the last two is dropped.  Correct: an account is created once, its
  password never changes, and it never holds a fingerprint other than the one that
  came with that password.
* **Login** reads the password and the history in two statements, then looks the
  address up a second time and ignores a failure.  Correct: no score without the
  stored password; a stored baseline is always compared with; the owner's own
  clean browser is not banned whatever fails.
* **Screening** is done on the guard's lookup, the handlers do another.  Correct:
  no handler works on a record that screening would have refused; nobody has an account
  whose request could not have passed; failures of ipdata.co are not cached.
* **The cache** keeps two structures in step.  Correct: they agree, the capacity is
  respected, entries leave in the order of their insertion, concurrent callers see
  atomic operations, every call returns.
* **The score** is a sum of rules over nullable attributes.  Correct: it lies in
  0..100; a user who comes back unchanged loses nothing; one layer of evidence does
  not ban, a foreign browser with the stolen password is banned; what a browser does
  not report is never held against it.
* **The pages** submit in three turns (collect, send, answer) between which the user
  toggles, navigates and logs out.  Correct: a form waits for its own submission and
  no other; a page is shown with the data it reads; the theme is sent as it was shown.
* **The forms** build the body of a request after an await while their inputs stay
  editable, and an answer may be lost after the server acted.  Correct: an account
  has the password that was typed twice and agreed to; who is told of success has that
  password; no form fails without a word.
* **The collector** waits for audio, battery and digests while its surroundings
  change.  Correct: what it sends fits together; the time zone check accepts every
  honest browser and flags every zone that is two hours off; the hash does not depend
  on the moment; every run ends; the engine allows the owner who comes back with the
  enrolled device, whatever harmless signals fire, but for one case that is known.
* **The answer** is a score, a verdict and reasons, shown by pages with thresholds and
  keys of their own.  Correct: the reasons account for the points that were lost; colours
  agree with the verdict.
* **The TLS fingerprints** must be blind to what a browser draws at random (GREASE,
  the order of the extensions) and to nothing else.

The hazards, each at its line with the properties that watch it, are listed in
`PROJECT.json`.

## 2. Modules

| Module | What it is |
|---|---|
| `FifoCache` | The cache with atomic operations. `order` is the list, `items` the map. |
| `MCFifoCache` | `FifoCache` with a log of the entries admitted, bounded by `MaxPuts`. |
| `FifoCacheImpl` | The statements of `cache.go` under Go's `sync.RWMutex`; implements `FifoCache`. |
| `Scoring` | The rules of `Evaluate` and the completeness test, as operators. |
| `ScoreHistory` | The rules over a growing history (one action, `AddFingerprint`). |
| `SampleBrowsers` | The family of fingerprints that `MCScoring` draws from. |
| `MCScoring` | The histories and IP records of the scoring runs. |
| `Enrolment` | What registration promises of an account, without requests or failures. |
| `AuthService` | Guard, handlers, ipdata client, cache and store, request by request. Instantiates `FifoCache`, extends `Scoring`, implements `Enrolment`. |
| `MCAuthService` | The browsers, requests and answers of the runs of `AuthService`. |
| `ClientPages` | The React client: pages, form, submissions in flight. |
| `FormPages` | The fields of the two forms, the requests built from them, and the server's accounts. Extends `ClientPages`: every step of a page is a step of it. |
| `AnswerPages` | The reasons of a score, and what the dashboard shows of them. Extends `ScoreHistory`. |
| `Collector` | `collectFingerprint`, turn by turn, in a changing environment; enrolment and scoring of the result. Extends `Scoring`. |
| `MCCollector` | The devices, zones and minutes of its run. |
| `TlsFingerprints` | Sorted JA3, JA4 and PeetPrint of a ClientHello, as operators. |
| `TlsConnections` | A browser that connects and resumes, shuffling and drawing GREASE. |
| `MCTlsConnections` | The TLS stacks of its run. |
| `OperatorProofs`, `FifoCacheProofs`, `FifoCacheImplProofs`, `ScoreHistoryProofs`, `AuthServiceProofs`, `FormPagesProofs`, `CollectorProofs`, `TlsConnectionsProofs` | The theorems. |

Operators whose comment starts with `MUTANT` are wrong variants of the definition
they are named after.  The specification never uses them; each one shows that the
property it is listed with in `PROJECT.json` fails when the code has that bug.

### AuthService and the code

A *slot* is a request being served; `pc[s]` is the call at which it stands:

| `pc` | code |
|---|---|
| `screen`, `screenFetch` | the guard's `Lookup`: before the cache, before the answer of ipdata.co |
| `blacklist` | `CheckJA3Blacklist` and the verdict of `evaluateRequest` |
| `handle` | the guard calls the mux; up to the first call of a handler |
| `createUser`, `findUser`, `insertFingerprint` | the statements of `Register` |
| `readUser`, `readFingerprints` | the statements of `GetUser`; the second step also compares the password |
| `enrich`, `enrichFetch` | the handler's `Lookup` |
| `evaluate`, `inspect` | the rest of `Login` and of `DebugFingerprint` |
| `reply` | the response is decided and not yet written |

`users` and `rows` are the tables.  `promised`, `acked` and `hadBaseline` are
history variables that no action reads: the fingerprint an account was registered
with, the users whose client saw the 201, and whether a baseline was stored when the
request arrived.

Failures: a store call may fail before it does anything, the `INSERT` of a user also
after it took effect; a lookup may fail; the client may be gone when the response is
written; `Crash` ends all requests and empties the cache, while the tables stay.
The handlers pass no request context to the store, so a client that disconnects
cancels nothing.

Abstractions:

* A request carries the TLS strings its injectors compute (`""` when one fails) and
  those the client supplied; which one counts is modelled (`Header`), how they are
  computed is not.
* A bcrypt hash is represented by its password: the comparison succeeds for the
  password that was hashed and no other.  Passwords that bcrypt refuses (over 72
  bytes) are the set `LongPasswords`.
* The HTTP call and the `Put` that follows are one step.  Answers are chosen
  when the step is taken, so a late `Put` is a late step.
* `CompareHashAndPassword` joins the step of the query before it: it reads nothing
  shared.
* Nested structures of the client fingerprint are flattened: `Evaluate` and `IsValid`
  treat an absent structure and an absent attribute alike.  Attributes that only
  `IsValid` reads are one attribute, `others`.
* The offset string of ipdata.co is represented here by the minutes it denotes, or `Nil`;
  `Collector` has the string and its parser.
* `fingerprints` rows come newest first from `GetUser`; the time stamps themselves
  are left out.

`ScoreHistory` lets a history grow to any length although today's handlers never
store a second fingerprint (the call in `Login` is commented out, `handler.go` line
110): the engine and the schema are written for it, and the properties are about
the engine.

### FifoCacheImpl and FifoCache

A `Put` takes effect, for its callers, with its last statement.  The refinement
mapping therefore puts the entry that was removed back in front and hides the entry
that was pushed until the map holds it.  The lock is modelled after Go's: a writer
first gets an inner mutex, then waits for the readers that are inside while new ones
queue; on release all queued readers enter before the next writer.

### ClientPages and the code

`theme`, `page`, `authData` and `banInfo` are the state of `App`; `form` is that of
the mounted form.  A submission is a run of `onSubmit`: it is `collecting` until
`collectFingerprint` returns and `sent` until the answer is decoded.  What follows an
`await` runs in one turn, and React renders once after it, so each answer is one
action.  `mounted` holds the submissions whose form is still on the screen: the
theme is the `key` of the tree (`App.tsx` line 32), so a toggle mounts the form anew,
and so does a change of the page.  `setLoading` and `setError` of an older form reach
nobody; `onLogin`, `onRegister` and `onBan` reach `App` all the same.  A late answer
can therefore take the user off the dashboard or the ban page, or log in after a
logout: `ClientPages` has these behaviours, and its properties say what still holds.

What is typed is a name and, for a registration, whether the passwords match and the
terms are agreed to (`RejectInput`).  The answer is any that the server may give: an
error (also the guard's text, which is no JSON and ends in the `catch`), success, or a
ban, which the server sends only for the theme `Emerald`.

### FormPages and the code

`fields` are the inputs whose value matters: password, confirmation, terms.  The name
is chosen at the submission, as in `ClientPages`.  `Filled` is the `required` attribute
of the inputs, `Accepted` the two tests of `RegisterPage.onSubmit`.  `body` is the
password a submission captured; it is fixed at the click because the handler is a
closure over the values of its render, although the request is built after the await
(mutant `SendCurrentFields`).  The server answers with any outcome that its handlers
have for the state of `accounts`; 500 may follow a creation.  `"text"` is an answer
that is not JSON: the guard's refusals.  `GiveUp` is the `catch` clause: the
answer is no JSON, is lost, or never comes; a registration that was not served yet then
stays in `abandoned` and may be served at any later time, also after a second attempt.
`confirmed` and `told` are history.

Each action conjoins the action of `ClientPages` with what happens to the added state, so
a behaviour of `FormPages` is one of `ClientPages` by construction and its invariants are
not checked again (`FormPagesProofs!FormsArePages` proves it; `FormTypeOK` includes the
`TypeOK` of `ClientPages`, and ties the error that is shown to the flag there).  Left out, because no request and no page depends on them:
`showPwd`, `showConfirm`, `showRaw`, and `rememberMe` and `fullName`, which are sent
and ignored by the server (`types.go` lines 8 and 14).

### AnswerPages and the code

What an evaluated login shows, as operators over the history of `ScoreHistory`.
`FiredRules` holds the conditions of `Evaluate` beside which a reason is
appended, nested as they are there, and `PointsOf` what the same branch subtracts;
`Scoring` has the deductions rule by rule, so that comparing the two says something.
`scoreColor` is the threshold of `ScoreRing`, `badgeStyle` the style of `VerdictBadge`,
`Dashboard` what the page makes of score, verdict and reasons.  Which answer is shown when is in `ClientPages`.

### Collector and the code

| `pc` | the await at which `collectFingerprint` stands |
|---|---|
| `audio` | `getAudioHash` (line 525); engine, canvas and WebGL are read |
| `battery` | `getBattery` (536); signals, fonts, math, plugins, connection and storage are read |
| `digests` | the digests of canvas and math (559-560); the screen is read |
| `hash` | the digest of the whole (590); the literal is built |
| `done`, `rejected` | the promise is settled |

A device is a record of what never changes (browser, interfaces it has, traces of
automation tools), `env` what may change at any await: the zone, the window's gap to its
contents, the link, the charger, the orientation, the permission for notifications.
Time is a minute of the UTC day, drawn where the code reads the clock.  On iOS the width of
the screen does not follow the orientation (`turns`).

`Deliver` is the server's side of a registration.  `Accepts` is the test of `handler.go`
line 33: under `Emerald` a fingerprint has to be complete, under `Rubine` whatever the
browser sent is enrolled (lines 69-71).  The first enrolment stays, and `enrolledUnder`
remembers its theme.  Later fingerprints are evaluated in
`GenuineReturnerAllowed`, with the IP record that ipdata has for the zone, its
offset parsed by `Scoring!ipOffsetToMinutes`, and over a connection that shows the TLS
prints that were enrolled.  That last is a premise: a resumed handshake shows others, and
costs 30 points more (`TlsConnections!ResumptionShows`).

Abstractions: the zone named by Intl has a constant offset in whole minutes; a change
of daylight saving time is a change of the zone.  SHA-256 is injective.  The
chain of single tests for one trace each (`webdriver`, `selenium`, ...) is the set
`markers`.  Reads that nothing compares or demands (`doNotTrack`, `deviceMemory`, ...)
are left out.

### TlsFingerprints and the code

The input is the hello after parsing, which tlsx and utls do.  Lists of numbers stand
for the strings in which they are printed with separators, and digests for what they
digest.  PeetPrint sorts its extensions as strings; only that the order is fixed
matters, so numbers are sorted instead.  PeetPrint leaves out the extensions whose `Len()` is
0 (`peetprint.go` lines 133-135): the padding, which utls reads as empty unless told to pad,
as only `ja4.go` does (line 223), and the server name, which utls does not keep when it parses a
hello (`Unsized`).  PeetPrint joins the names of protocols with `-` (line 182), and a name may
contain one: `[h2, a-b]` and `[h2, a, b]` are two lists here and one text there.

`Without` is the loops that skip elements, and `Sorted` the sorts, as what they return: the
value at place k is the one that fewer than k elements are below and at least k are not
above.  The run compares both with `SelectSeq` and `SortSeq` of the standard modules on
all lists of up to four elements out of four values (`WithoutAsSelectSeq`,
`SortedAsSortSeq`); the theorems say it for every list.

## 3. Runs

| Run | Instance | What it shows |
|---|---|---|
| `fifo_cache` | 4 keys, 2 values, capacity 2, 4 insertions | list and map agree; the cache is the window of the last insertions, hence within its capacity |
| `fifo_cache_locks` | 3 goroutines, 2 keys, 2 values, capacity 1, under fairness | reads see no half-done `Put`; the statements implement the atomic cache; nobody deadlocks, and every call returns |
| `scoring` | 35 clients × TLS stacks × 3 IP records, histories up to 2 | when the engine bans, when it cannot, and that what is not reported costs nothing; the reasons shown account for the score, and are true; ring, badge and verdict agree |
| `registration` | 3 requests at a time: registrations of one name by two browsers with different passwords, and logins of one of them, abroad and behind a proxy | baselines, passwords, the returning browser, and the refinement of `Enrolment` |
| `requests` | 2 requests at a time of fifteen kinds, 3 addresses, a cache of one entry, under fairness | screening, of requests and of accounts; the content of the cache; every request ends |
| `client_pages` | 2 submissions in flight, 2 names, under fairness | the pages and the form under late answers; forms are released |
| `form_pages` | one submission in flight, any number of abandoned registrations, 2 passwords | what accounts hold and users are told; no silent failure |
| `collector` | 10 devices, 6 zones, 10 minutes of the day, 2 changes of the environment, under fairness | the time zone check, the consistency of a fingerprint, its hash, completeness and score; every run ends |
| `tls_connections` | 16 stacks, 3 GREASE values, every order of up to 4 extensions | stability and separation of the fingerprints |
| `location_change`, `unenrolled`, `no_network_layer` | as above | the three findings below |

**Why the bounds are enough.**  Two registrations and a login make every pair of
writes and reads of the tables meet; a third slot lets a loser, a winner and a reader
stand between their statements together.  Slots are reused, so a behaviour has any
number of requests one after the other; no counter bounds it.  A cache of
one entry and three addresses make every lookup subject to eviction by the other
request.  In the scoring family each attribute is absent once and different
once, so each rule fires alone and together with all others; two enrolled
fingerprints are what it takes to tell "matches one of them" from "matches all" and
from "matches the newest".  Four insertions wrap a cache of two entries twice.
The lock needs three goroutines, two readers that overlap for ever while a writer waits;
a capacity of one makes every insertion after the first evict.

Two passwords are what it takes for a field, its confirmation, a body and an account to
differ; the submission's slot is reused, and attempts that were given up stay in
`abandoned`, so an old and a new registration race.  The ten minutes lie before and after
full, half and quarter hours and midnight; the six zones include a quarter hour, a
negative half hour, two an hour and a quarter apart (for which the exception of
`QuietDeviceKeepsHash` is needed) and both ends of the range.  `MaxChanges` = 2 lets two facts change
between the reads of one run, or one between enrolment and return and one
during it; `GenuineReturnerAllowed` needs that.  Its two extremes are reached in the run:
48 points lost of the 50 that may be, and the one case beyond, Edge without plugins
enrolled under `Rubine` when audio failed, back with audio and a rotated screen under
suspicion of automation, which loses 51 and is banned.

Two submissions are enough for an answer to meet a form, a page or data of another
one; slots are reused, so any number follow.  Thirteen of the TLS stacks are the browser and
stacks that differ from it in one respect each, so that a fingerprint blind to that respect is
caught.  Of the other three, one is the browser drawn anew, which the fingerprints must not
tell, and the last two show where a full handshake looks like a resumed one.  Three GREASE
values let a draw change the set of values, not only their places.

`CHECK_DEADLOCK FALSE` is set for `fifo_cache` and the scoring runs, which stop at
their bound on insertions and histories.

**Fairness.**  `AuthService`: each request that can take a step eventually takes
one.  The code justifies it: the HTTP client gives up after 5 seconds
(`client.go` line 65), every store operation runs under a deadline of 5
seconds, the cache never blocks for ever (`fifo_cache_locks`), and goroutines are
scheduled fairly.  Nothing is assumed of the *outcome* of a call.  `FifoCacheImpl`:
weak fairness of each goroutine, and strong fairness for entering the writers' mutex,
because Go's mutex hands over to a waiter that has starved for a millisecond.  No
fairness is assumed of new calls or requests.  `ClientPages`: each submission goes on
as long as it can.  The collector waits for the audio rendering, the battery status and
digests, which settle; the server answers (`requests`) or the connection
breaks, and either way `fetch` settles.  Nothing is assumed of the user.  `Collector`:
the step it stands at is eventually taken, which is the same assumption; that the battery
is given or the rendering succeeds is not assumed.

### Findings

1. `unenrolled`: a registration is acknowledged although `AddFingerprint` failed
   (`handler.go` line 71 drops the error); the README of the repository (line
   118) says that register stores the baseline.  Nothing repairs the account later,
   and its logins are then compared with nothing.
2. `no_network_layer`: a login may be evaluated without the network layer (`handler.go`
   line 111 drops the error of the lookup), against README line 13.  It takes an
   eviction between the two lookups and a failure of the second, and no guard record
   is passed on.
3. `location_change`: README line 131 announces a deduction for changes of the network
   location; the engine has none.

Observed, without a run of their own:

* README line 15 promises the detection of proxies.  ipdata's `is_proxy` is decoded
  and sent on, but neither the guard (`main.go` lines 72-93) nor the engine reads it, and
  `DashboardPage.tsx` (lines 25-33) looks for the flags, the country and the
  organization at the top level of `ip_info`, while the server sends `country_name` and
  puts the flags under `threat` (`ipdata/client.go` lines 12-40; `types.ts` lines 25-46
  say the same): the warnings are never shown.
* `BanPage.tsx` line 223 calls a ban final whenever `expires` is null, which it always is
  (`handler.go` lines 37, 90 and 119).  No ban is stored, and the next login is judged
  afresh.
* The message "server unreachable" is also shown when the guard refused (its answer is
  no JSON) and when the page has no `crypto.subtle`.
* `VerdictBadge.tsx` has no style for the verdict `ban`, which is shown like a challenge,
  in yellow, beside a red score ring (`AnswerPages!badgeStyle`).
* A genuine owner can be banned in one case: see `GenuineReturnerAllowed`.
* The hash of a browser that names another zone, less than two hours from its own, may
  change from one minute to the next: whether such a zone passes the check of
  `fingerprint.ts` line 489 depends on the minute when the offsets are not whole hours
  apart, and the outcome is hashed.  `QuietDeviceKeepsHash` excepts these browsers.
* `fingerprint.ts` declares `battery` as an object (line 52) and sends a string,
  which is what the server decodes.

## 4. Theorems

Proved by TLAPS for every value of the constants, under the assumptions named in the
modules, which TLC evaluates in the runs.  They say that configured sizes are natural
numbers, that `Nil` is none of the values it stands beside, that the usernames and
addresses of the requests are among `Users` and `IPs`, that zones are less than a day
from UTC and minutes less than a day, which types the facts of a device have
(`DevicesAssumption`), and that TLS stacks send what a parsed hello can be
(`StacksAssumption`).

**Cache** (`FifoCacheProofs`, `FifoCacheImplProofs`)

* `CacheCorrect`: `Spec => [](Coherent /\ Bounded)`.  The eviction lemma needs that no
  key occurs twice in the list: only then does the deletion of the front's key from the
  map leave the map of the rest.
* `CacheIsWindow`: `MCSpec => []WindowOfInsertions`.  `WindowInv` adds to the above that
  the list is a suffix of the log; `PutWindow` moves the suffix by one when an entry leaves.
* `CriticalSectionsImplement`: `FifoCacheImpl` implements `FifoCache`, for any number of
  goroutines.  `LockInv` says who holds the lock and which mutex, hence that nobody
  else stands in a critical section beside a writer; `DataInv` says what list and map
  look like after each statement of a `Put`.  With both, the refinement mapping changes in the
  last statement of a `Put` only, and there as the atomic `Put` does.
* `ReadsSeeWholePuts`: from the same invariant and what a reader has read so far.
* `NobodyDeadlocks`: `Spec => []WaitsEnd`, the safety half of `EveryCallReturns`.  By
  `LockInv` a goroutine waits for the owner of the mutex, which is inside a `Put`, and that
  one for readers, none of which waits: no chain is longer than two.

**Engine** (`OperatorProofs`, `ScoreHistoryProofs`), for histories of any length

* `ScoreBound`: the score is in 0..100 for *any* arguments, by bounding each rule and
  adding up (the deductions reach 134, so the clamp matters).
* `BanTakesTwoLayers`: each layer is bounded below 51 points, so that a ban needs two.
* `SilenceIsFree`: `Spec => []SilenceNeverHurts`.  Rule by rule, an attribute that is withheld
  either leaves a rule as it is or makes it not apply; without any client only the three TLS
  rules are left, 30 points in all.
* `ScoresInRange` (the score stays in 0..100, the claim of the repository's README, line 135)
  and `EnrolledIsKnown` (an enrolled fingerprint is not novel): proved, and left out of the
  run, because they follow from one operator each.
* `TakeoverFails`: `Spec => []TakeoverIsBanned`.  A new device and new TLS prints take at
  least 56 points, before any other rule.

**Request path** (`AuthServiceProofs`), for any number of concurrent requests

* `TypeCorrect`: `Spec => []TypeOK`.  The inductive invariant `TInv` adds that the body
  of a request is there wherever a handler uses it (`BodyInv`), that only requests at
  `reply` have a response (`ReplyInv`), and the cache invariant, which is taken from
  `FifoCacheProofs` through `INSTANCE`.
* `BaselineOfCreator`: `Spec => []BaselineIsCreators`.  The property is not inductive: a
  second request standing before its `INSERT` would break it.  `AccountInv` adds that
  a request between its two `INSERT`s owns an account that exists and has no row, that
  its fingerprint is the promised one, and that it is the only such request of its
  username.  All actions but `CreateUser` and `InsertFingerprint` leave the tables alone.
* `ScoresNeedThePassword`: `Spec => []CredentialsChecked`.  `CredInv` carries the
  comparison from the step that made it to the response: no action changes the
  password of an account that exists.
* `CacheIsTrue`: `Spec => []CacheHoldsAnswers`.
* `NoThreatReachesScoring`: `Spec => []NoThreatHandled`.  A request past the guard has
  passed the blacklist, and some answer for its address would not stop it (`Screened`); the
  record it is scored with is an answer too, by `CacheIsTrue`, or the zero record.  Only the
  last step needs that the answers are stable: then the two are the same.
* `EnrolledPassedGuard`: `Spec => []AccountsPassedGuard`, from `Screened` at the `INSERT`,
  without that assumption.
* `StoredBaselineIsSeen`: `Spec => []BaselineIsSeen`.  What was stored when a login arrived
  is still there when its second query runs, and a query that fails ends the login.
* `ReturnerIsAllowed`: `Spec => []ReturningBrowserAllowed`.  The history a login holds is
  empty or the promised fingerprint alone (`Returning`), so that novelty takes nothing, and
  what the network can add takes 25 points at most.
* `ServiceEnrols`: `Spec => AccountsEnrolled`, the refinement of `Enrolment`, action by
  action.  `CreateUser` creates, `InsertFingerprint` enrols or abandons, a `FindUser` that
  fails abandons, a `Crash` abandons all that is pending at once; every other step stutters
  (`Still`).

**Pages and forms** (`FormPagesProofs`), for any number of submissions in flight

* `OneSubmissionPerForm`, `PagesHaveTheirData` and `ThemeOfSubmission`, theorems of the
  specification of `ClientPages`.  `PagesInv` adds
  that a submission in flight has a name, hence that its answer is not null, and that its
  theme is the one shown from the start.
* `FormsArePages`: every step of `FormPages` is one of `ClientPages` or leaves the pages
  alone; hence `PagesInv` holds of the forms too, which `FormTypes` uses.
* `AccountsAreConfirmed` and `AcknowledgedIsKept`.  `AccountsInv` adds that every registration
  in flight or abandoned carries a confirmed password (`BodiesKept`), and that an answer on
  its way back that tells of a registration is true (`AnswersTrue`).
* `NoFormFailsSilently`, an action property.

**Collector** (`CollectorProofs`), for any devices, zones and minutes, and any
number of changes

* `HonestZones` and `SpoofedZones`.  The arithmetic comes first: the named hour less the UTC
  hour is the offset rounded down, or up when the minute carries (`NamedHours`), so the
  two offsets that are compared differ by less than 60 minutes or by more than 1380 around the
  day (`ZoneMargin`; a difference of exactly 60, where the code divides in floating point,
  never occurs).  Conversely a zone that passes is less than two hours away
  (`PassingZoneIsNear`).
* `Snapshots`, `CollectorTypes` and `ThreeAreDemanded`.  `IInv` says what has been read
  together, await by await; `TInv` gives the types; `FixedInv` says which readings, and which
  attributes of the baseline, are those of the device whatever changed.
* `OwnerIsAllowed`: `Spec => []GenuineReturnerAllowed`.  The attributes behind the hash that
  `FixedInv` fixes are all seen, the layers agree (`OwnersLayers`; `OffsetReads` shows that
  `ipOffsetToMinutes` returns the offset whose text it is given).  What is left can take 48
  points (`OwnersDeductions`), or 51 if audio failed at the registration and everything else
  speaks against the owner too; by `FixedInv` a baseline enrolled under `Emerald` has audio, so
  this takes a registration under `Rubine`.  The property says exactly when the verdict is which.
* `HashIsKept`: `Spec => []QuietDeviceKeepsHash`.  `QuietInv` says that a run in quiet
  surroundings has read what it would read now (`AtAudio` to `AtHash`), and that the baseline's
  hash is that of such a literal for some minute; `ZoneVerdict` shows that the minute does
  not matter.  The proof does not go through without the exception for zones close by, and TLC
  finds the counterexample.

**TLS** (`TlsConnectionsProofs`), for any TLS stacks and any set of GREASE values

* `GreaseTablesAgree`: the table of `ja3.go` and `peetprint.go` and the bit test of
  `ja4/helper.go` agree on all code points.
* `SortedSorts`: `Sorted` is a rearrangement in ascending order.  The elements are numbered by
  how many are less, or equal and not later (`PlacesNumbered`), and an element with number k
  is one that `Sorted` may put at place k (`ElementHasPlace`, `PlacesOrdered`).
* `WithoutKeepsOrder`: the recursion of `Without` is unfolded into ranks, place k holding the
  k-th smallest place that stays.  No induction over lists is needed: the function that the
  recursion chooses agrees with the one of that form at a least place where it would not
  (`WithoutRecurs`).
* `ReturningStackIsKnown`: `Spec => []OneFingerprintPerBrowser`.  The extensions of a hello and
  of its stack are `Paired` by a bijection that respects everything but the values of GREASE;
  filters keep lists paired (`PairedWithoutGrease`), and sorts make paired lists equal once
  GREASE is gone or marked (`PairedSorted`).  All other lists keep their order.  `FingerprintsInv`
  is then that nothing is ever seen but the fingerprints of the stack itself, and of the
  stack with a pre-shared key.
* `FingerprintsTell`: two hellos have the same three fingerprints *if and only if* they are
  `SameButDrawn`.  So nothing is lost but the values of GREASE, the order of the extensions and
  of the point formats, and how a version of HTTP is spelled (`H2`, `h2`) in a protocol that
  is not the first.  The list of ciphers, for one, is sorted in JA3 and in JA4 and is told by
  PeetPrint.  The extensions take two fingerprints: PeetPrint pairs
  all but the padding, JA3 all but GREASE, and a pairing of the whole lists is put together
  from both (`PlacesPaired`, `ExtensionsTell`).  As said of the model above, printed lists are
  taken to be readable again; that is so for lists of numbers, while a protocol name that
  contains `-` could read as two: for such names `FingerprintsTell` and
  `StacksAreDistinguished` speak of the lists and not of the text.
* `StacksAreDistinguished`: `Spec => []StacksAreTold`, from both.
* `KeyIsSeen`: `Spec => []ResumptionShows`; each list of extensions is longer by one.
* `ConnectionTypes`: `Spec => []TypeOK`.

Model-checked only:

* the liveness properties (`EveryCallReturns`, `EveryRequestAnswered`, `FormsAreReleased`,
  `CollectionEnds`): liveness under fairness is out of the prover's reach;
* `LossesAreExplained`: the score is compared with a sum over a *set* of reasons, and what a
  fold over a set adds up to takes an induction over it;
* the three findings, which are counterexamples.

## 5. Plan

Done: the cache, the engine with its parser, the request path with its abstract
specification, the client's pages and forms and what they show, the collector, the TLS
fingerprints, and the theorems above.  Every safety property of the passing runs is a
theorem, but for `LossesAreExplained`.  Worth adding when
the code changes: the second call of `AddFingerprint`, should the one in `Login` be enabled
again (the engine's side of it is `ScoreHistory`), and the queue of the connection pool, should
a store call ever hold a connection across another one.

## 6. Not modelled

TLS termination, the certificate watcher and metrics (the fingerproxy library), flags
and environment (read once), the embedded files, logging, the wording of responses and
of `reasons`, animation, all other colours and layout (`components/`, `themes.ts`, the tilt and pulse
of the cards).  The in-memory store, which the server does not use.  The queue of the
connection pool and the order of the shutdown: a call that gets no connection, or finds
the pool closed, is one of the failures every store call may have.  The time stamps of tables and ban pages have no
effect on any decision.  The HTTP/2 fingerprint is injected and read by nobody.
