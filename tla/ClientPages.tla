----------------------------- MODULE ClientPages -----------------------------
(***************************************************************************)
(* The browser pages: App.tsx, LoginPage.tsx, RegisterPage.tsx, and the    *)
(* data that BanPage.tsx and DashboardPage.tsx are shown with.             *)
(*                                                                         *)
(* A click is handled to its end before the next event, and so is all that *)
(* follows an await: React renders once after it.  Between the awaits of a *)
(* submission the user goes on clicking.  The theme is the key of the      *)
(* page, so a toggle unmounts the form and mounts it anew; a submission    *)
(* outlives its form, and then its setLoading and setError reach nobody    *)
(* while onLogin, onRegister and onBan still reach the App.                *)
(***************************************************************************)
EXTENDS FiniteSets

CONSTANTS
    Submissions,      \* submissions in flight at one time, at most
    Names,            \* what users type as their name
    Nil               \* null

ASSUME NilAssumption == Nil \notin [user : Names, theme : {"Emerald", "Rubine"}]

VARIABLES
    theme, page,      \* useState of the App
    authData, banInfo,
    form,             \* useState of the mounted form: [loading, error]
    stage,            \* of each submission: idle, collecting or sent
    request,          \* its page, the name typed and the theme it is sent with
    mounted,          \* the submissions whose form is mounted
    shown,            \* history: the theme on the screen at each submission
    latest            \* history: the last answer that opened each page

appVars == <<theme, page, authData, banInfo>>
submissionVars == <<stage, request>>
historyVars == <<shown, latest>>
vars == <<appVars, form, submissionVars, mounted, historyVars>>

Themes == {"Emerald", "Rubine"}

Forms == {"login", "register"}

FreshForm == [loading |-> FALSE, error |-> FALSE]

NoRequest == [page |-> "login", user |-> Nil, theme |-> "Emerald"]

InFlight == {r \in Submissions : stage[r] # "idle"}

Init ==
    /\ theme = "Emerald" /\ page = "login"
    /\ authData = Nil /\ banInfo = Nil
    /\ form = FreshForm
    /\ stage = [r \in Submissions |-> "idle"]
    /\ request = [r \in Submissions |-> NoRequest]
    /\ mounted = {}
    /\ shown = [r \in Submissions |-> "Emerald"]
    /\ latest = [dashboard |-> Nil, banned |-> Nil]

-----------------------------------------------------------------------------
(* What the user does.                                                     *)

Remount == form' = FreshForm /\ mounted' = {}

\* MUTANT of ToggleTheme: the page is not keyed by the theme, and only a form
\* at rest is drawn again.
ToggleThemeKeepsRequests ==
    /\ theme' = CHOOSE t \in Themes : t # theme
    /\ form' = FreshForm
    /\ UNCHANGED <<page, authData, banInfo, submissionVars, mounted, historyVars>>

ToggleTheme ==
    /\ theme' = CHOOSE t \in Themes : t # theme
    /\ Remount
    /\ UNCHANGED <<page, authData, banInfo, submissionVars, historyVars>>

\* onGoRegister, onGoLogin
GoTo(from, to) ==
    /\ page = from
    /\ page' = to
    /\ Remount
    /\ UNCHANGED <<theme, authData, banInfo, submissionVars, historyVars>>

LogoutDashboard ==
    /\ page = "dashboard"
    /\ page' = "login" /\ authData' = Nil
    /\ Remount
    /\ UNCHANGED <<theme, banInfo, submissionVars, historyVars>>

LogoutBanned ==
    /\ page = "banned"
    /\ page' = "login" /\ authData' = Nil /\ banInfo' = Nil
    /\ Remount
    /\ UNCHANGED <<theme, submissionVars, historyVars>>

\* RegisterPage: the passwords differ, or the terms are not agreed to.
RejectInput ==
    /\ page = "register" /\ ~form.loading
    /\ form' = [form EXCEPT !.error = TRUE]
    /\ UNCHANGED <<appVars, submissionVars, mounted, historyVars>>

\* MUTANT of Submit: the error of the attempt before stays.
SubmitKeepsError(r, name) ==
    /\ page \in Forms /\ ~form.loading
    /\ stage[r] = "idle"
    /\ stage' = [stage EXCEPT ![r] = "collecting"]
    /\ request' = [request EXCEPT ![r] = [page |-> page, user |-> name, theme |-> theme]]
    /\ form' = [form EXCEPT !.loading = TRUE]
    /\ mounted' = mounted \cup {r}
    /\ shown' = [shown EXCEPT ![r] = theme]
    /\ UNCHANGED <<appVars, latest>>

\* The submit button is disabled while loading.
Submit(r, name) ==
    /\ page \in Forms /\ ~form.loading
    /\ stage[r] = "idle"
    /\ stage' = [stage EXCEPT ![r] = "collecting"]
    /\ request' = [request EXCEPT ![r] = [page |-> page, user |-> name, theme |-> theme]]
    /\ form' = [loading |-> TRUE, error |-> FALSE]
    /\ mounted' = mounted \cup {r}
    /\ shown' = [shown EXCEPT ![r] = theme]
    /\ UNCHANGED <<appVars, latest>>

-----------------------------------------------------------------------------
(* What a submission does, in the turns after its awaits.                  *)

\* MUTANT of Send: the theme is read when the request leaves.
SendWithCurrentTheme(r) ==
    /\ stage[r] = "collecting"
    /\ stage' = [stage EXCEPT ![r] = "sent"]
    /\ request' = [request EXCEPT ![r].theme = theme]
    /\ UNCHANGED <<appVars, form, mounted, historyVars>>

\* collectFingerprint returns and fetch is called.
Send(r) ==
    /\ stage[r] = "collecting"
    /\ stage' = [stage EXCEPT ![r] = "sent"]
    /\ UNCHANGED <<appVars, form, request, mounted, historyVars>>

End(r) ==
    /\ stage' = [stage EXCEPT ![r] = "idle"]
    /\ request' = [request EXCEPT ![r] = NoRequest]
    /\ UNCHANGED <<theme, shown>>

\* MUTANT of StopLoading: setLoading(false) is missing where setError is called.
StopLoadingUnlessError(r, error) ==
    form' = IF r \in mounted
            THEN [loading |-> error, error |-> form.error \/ error]
            ELSE form

\* setLoading(false), with setError if error: of the form that submitted.
StopLoading(r, error) ==
    form' = IF r \in mounted
            THEN [loading |-> FALSE, error |-> form.error \/ error]
            ELSE form

\* setPage: a form that stays on the screen keeps its state.
Open(r, p) ==
    /\ page' = p
    /\ IF p = page
       THEN StopLoading(r, FALSE) /\ mounted' = mounted \ {r}
       ELSE Remount

\* The answer is an error, or the catch clause runs: the fingerprint cannot be
\* computed, the server is not reached or what it says is not JSON.
Fail(r) ==
    /\ stage[r] # "idle"
    /\ StopLoading(r, TRUE)
    /\ mounted' = mounted \ {r}
    /\ End(r)
    /\ UNCHANGED <<page, authData, banInfo, latest>>

\* MUTANT of Data: read after the request was cleared.
DataOfCleared(r) == [user |-> NoRequest.user, theme |-> NoRequest.theme]

Data(r) == [user |-> request[r].user, theme |-> request[r].theme]

\* MUTANT of LoggedIn: data that is there already is kept.
LoggedInKeepsData(r) ==
    /\ stage[r] = "sent" /\ request[r].page = "login"
    /\ authData' = IF authData = Nil THEN Data(r) ELSE authData
    /\ Open(r, "dashboard")
    /\ latest' = [latest EXCEPT !.dashboard = Data(r)]
    /\ End(r)
    /\ UNCHANGED banInfo

LoggedIn(r) ==
    /\ stage[r] = "sent" /\ request[r].page = "login"
    /\ authData' = Data(r)
    /\ Open(r, "dashboard")
    /\ latest' = [latest EXCEPT !.dashboard = Data(r)]
    /\ End(r)
    /\ UNCHANGED banInfo

Registered(r) ==
    /\ stage[r] = "sent" /\ request[r].page = "register"
    /\ Open(r, "login")
    /\ End(r)
    /\ UNCHANGED <<authData, banInfo, latest>>

\* The server bans those who sent the theme that enforces.
Banned(r) ==
    /\ stage[r] = "sent" /\ request[r].theme = "Emerald"
    /\ banInfo' = Data(r)
    /\ Open(r, "banned")
    /\ latest' = [latest EXCEPT !.banned = Data(r)]
    /\ End(r)
    /\ UNCHANGED authData

-----------------------------------------------------------------------------
Answered(r) == Send(r) \/ Fail(r) \/ LoggedIn(r) \/ Registered(r) \/ Banned(r)

Next ==
    \/ ToggleTheme
    \/ GoTo("login", "register")
    \/ GoTo("register", "login")
    \/ LogoutDashboard
    \/ LogoutBanned
    \/ RejectInput
    \/ \E r \in Submissions, name \in Names : Submit(r, name)
    \/ \E r \in Submissions : Answered(r)

\* Every promise settles: see the README.  Nothing is assumed of the user.
Fairness == \A r \in Submissions : WF_vars(Answered(r))

Spec == Init /\ [][Next]_vars /\ Fairness

-----------------------------------------------------------------------------
Answers == [user : Names, theme : Themes] \cup {Nil}

(* The type invariant: the values the pages' state and the submissions     *)
(* range over.                                                             *)
TypeOK ==
    /\ theme \in Themes
    /\ page \in Forms \cup {"dashboard", "banned"}
    /\ authData \in Answers /\ banInfo \in Answers
    /\ form \in [loading : BOOLEAN, error : BOOLEAN]
    /\ stage \in [Submissions -> {"idle", "collecting", "sent"}]
    /\ request \in [Submissions -> [page : Forms, user : Names \cup {Nil}, theme : Themes]]
    /\ mounted \subseteq Submissions
    /\ shown \in [Submissions -> Themes]
    /\ latest \in [dashboard : Answers, banned : Answers]

(* The form on the screen is loading exactly while one submission of its   *)
(* own is in flight: it never waits for an answer that has come, and it    *)
(* never submits twice.                                                    *)
LoadingTracksRequest ==
    /\ mounted \subseteq InFlight
    /\ form.loading <=> mounted # {}
    /\ \A r, q \in mounted : r = q

(* An error and the spinner are never shown together: an error on the      *)
(* screen is that of the latest attempt.                                   *)
ErrorIsOfLastAttempt == ~(form.error /\ form.loading)

(* The dashboard and the ban page are on the screen only with an answer,   *)
(* and it is the one that came last, also when late answers and logouts    *)
(* cross (BanPage reads banInfo.expires without a test).                   *)
PagesShowTheirAnswer ==
    /\ page = "dashboard" => authData # Nil /\ authData = latest.dashboard
    /\ page = "banned" => banInfo # Nil /\ banInfo = latest.banned

(* A submission is judged under the theme that was on the screen when it   *)
(* was made, however often the user toggles while it is collecting.        *)
SentAsShown ==
    \A r \in Submissions : stage[r] = "sent" => request[r].theme = shown[r]

(* A form that waits stops waiting, whatever becomes of its submission.    *)
FormsAreReleased == form.loading ~> ~form.loading
=============================================================================
