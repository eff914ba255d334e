---------------------------- MODULE FormPagesProofs ----------------------------
(* Theorems on the pages of ClientPages, and on the two forms and the      *)
(* accounts behind them, for any number of submissions in flight, any      *)
(* names and any passwords.                                                *)
EXTENDS FormPages, TLAPS

(* A submission in flight has the name that was typed.                     *)
RequestsNamed == \A r \in InFlight : request[r].user \in Names

(* LoadingTracksRequest and SentAsShown talk of different parts of the     *)
(* state.  What the pages show is an answer only because the request it    *)
(* answers has a name, hence RequestsNamed; and a theme is sent as shown   *)
(* because it was so while it was collecting.                              *)
ThemeAsShown == \A r \in InFlight : request[r].theme = shown[r]

PagesInv ==
    /\ TypeOK
    /\ RequestsNamed
    /\ ThemeAsShown
    /\ LoadingTracksRequest
    /\ ErrorIsOfLastAttempt
    /\ PagesShowTheirAnswer

-----------------------------------------------------------------------------
(* The answer to a submission in flight is a value other than null.        *)
LEMMA DataIsAnswer ==
    ASSUME TypeOK, RequestsNamed, NEW r \in Submissions, stage[r] # "idle"
    PROVE  Data(r) \in Answers /\ Data(r) # Nil
BY NilAssumption DEF TypeOK, RequestsNamed, InFlight, Data,
                     Answers, Themes

(* The end of a submission keeps what is known of the others.              *)
LEMMA EndKeepsRequests ==
    ASSUME TypeOK, RequestsNamed, ThemeAsShown, NEW r \in Submissions, End(r)
    PROVE  /\ stage' \in [Submissions -> {"idle", "collecting", "sent"}]
           /\ request' \in [Submissions -> [page : Forms, user : Names \cup {Nil},
                                            theme : Themes]]
           /\ shown' \in [Submissions -> Themes] /\ theme' \in Themes
           /\ InFlight' = InFlight \ {r}
           /\ RequestsNamed' /\ ThemeAsShown'
BY DEF TypeOK, RequestsNamed, ThemeAsShown, End, InFlight,
       NoRequest, Forms, Themes

(* Clearing the spinner of the one form that waits, with or without an     *)
(* error, leaves no submission with that form.                             *)
LEMMA StopLoadingReleases ==
    ASSUME TypeOK, LoadingTracksRequest, ErrorIsOfLastAttempt,
           NEW r \in Submissions, NEW error \in BOOLEAN, StopLoading(r, error),
           mounted' = mounted \ {r}, InFlight' = InFlight \ {r}
    PROVE  /\ form' \in [loading : BOOLEAN, error : BOOLEAN]
           /\ LoadingTracksRequest' /\ ErrorIsOfLastAttempt'
<1>1. CASE r \in mounted
  <2>1. mounted = {r}
    BY <1>1 DEF LoadingTracksRequest
  <2>2. form' = [loading |-> FALSE, error |-> form.error \/ error] /\ mounted' = {}
    BY <1>1, <2>1 DEF StopLoading
  <2>3. QED
    BY <2>2 DEF LoadingTracksRequest, ErrorIsOfLastAttempt
<1>2. CASE r \notin mounted
  <2>1. form' = form /\ mounted' = mounted
    BY <1>2 DEF StopLoading
  <2>2. QED
    BY <1>2, <2>1 DEF LoadingTracksRequest, ErrorIsOfLastAttempt, TypeOK
<1>3. QED
  BY <1>1, <1>2

(* A form mounted anew waits for nothing.                                  *)
LEMMA RemountReleases ==
    ASSUME Remount
    PROVE  /\ form' \in [loading : BOOLEAN, error : BOOLEAN] /\ mounted' = {}
           /\ LoadingTracksRequest' /\ ErrorIsOfLastAttempt'
BY DEF Remount, FreshForm, LoadingTracksRequest, ErrorIsOfLastAttempt

LEMMA OpenReleases ==
    ASSUME TypeOK, LoadingTracksRequest, ErrorIsOfLastAttempt,
           NEW r \in Submissions, NEW p, Open(r, p),
           InFlight' = InFlight \ {r}
    PROVE  /\ page' = p /\ mounted' \subseteq Submissions
           /\ form' \in [loading : BOOLEAN, error : BOOLEAN]
           /\ LoadingTracksRequest' /\ ErrorIsOfLastAttempt'
<1>1. CASE p = page
  <2>1. StopLoading(r, FALSE) /\ mounted' = mounted \ {r}
    BY <1>1 DEF Open
  <2>2. QED
    BY <2>1, StopLoadingReleases DEF Open, TypeOK
<1>2. CASE p # page
  <2>1. Remount
    BY <1>2 DEF Open
  <2>2. QED
    BY <2>1, RemountReleases DEF Open
<1>3. QED
  BY <1>1, <1>2

-----------------------------------------------------------------------------
(* Clicks that mount the page anew and leave the submissions alone.        *)
LEMMA RemountKeepsInv ==
    ASSUME PagesInv, Remount, UNCHANGED <<submissionVars, historyVars>>,
           theme' \in Themes, page' \in Forms \cup {"dashboard", "banned"},
           authData' \in {authData, Nil}, banInfo' \in {banInfo, Nil},
           page' = "dashboard" => page = page' /\ authData' = authData,
           page' = "banned" => page = page' /\ banInfo' = banInfo
    PROVE  PagesInv'
<1>1. stage' = stage /\ request' = request /\ shown' = shown /\ latest' = latest
  BY DEF submissionVars, historyVars
<1>2. /\ form' \in [loading : BOOLEAN, error : BOOLEAN] /\ mounted' = {}
      /\ LoadingTracksRequest' /\ ErrorIsOfLastAttempt'
  BY RemountReleases
<1>3. TypeOK'
  BY <1>1, <1>2 DEF PagesInv, TypeOK, Answers
<1>4. RequestsNamed' /\ ThemeAsShown'
  BY <1>1 DEF PagesInv, RequestsNamed, ThemeAsShown, InFlight
<1>5. PagesShowTheirAnswer'
  BY <1>1 DEF PagesInv, PagesShowTheirAnswer
<1>6. QED
  BY <1>2, <1>3, <1>4, <1>5 DEF PagesInv

(* A submission occupies the form that made it.                            *)
LEMMA SubmitKeepsInv ==
    ASSUME PagesInv, NEW r \in Submissions, NEW name \in Names, Submit(r, name)
    PROVE  PagesInv'
<1>1. /\ page \in Forms /\ ~form.loading /\ stage[r] = "idle"
      /\ stage' = [stage EXCEPT ![r] = "collecting"]
      /\ request' = [request EXCEPT ![r] = [page |-> page, user |-> name, theme |-> theme]]
      /\ form' = [loading |-> TRUE, error |-> FALSE]
      /\ mounted' = mounted \cup {r}
      /\ shown' = [shown EXCEPT ![r] = theme]
      /\ theme' = theme /\ page' = page /\ authData' = authData
      /\ banInfo' = banInfo /\ latest' = latest
  BY DEF Submit, appVars
<1>2. mounted = {}
  BY <1>1 DEF PagesInv, LoadingTracksRequest
<1>3. InFlight' = InFlight \cup {r}
  BY <1>1 DEF PagesInv, TypeOK, InFlight
<1>4. TypeOK'
  BY <1>1 DEF PagesInv, TypeOK
<1>5. RequestsNamed'
  BY <1>1, <1>3 DEF PagesInv, TypeOK, RequestsNamed, InFlight
<1>6. ThemeAsShown'
  BY <1>1, <1>3 DEF PagesInv, TypeOK, ThemeAsShown, InFlight
<1>7. LoadingTracksRequest' /\ ErrorIsOfLastAttempt'
  BY <1>1, <1>2, <1>3 DEF LoadingTracksRequest, ErrorIsOfLastAttempt
<1>8. PagesShowTheirAnswer'
  BY <1>1 DEF PagesInv, PagesShowTheirAnswer
<1>9. QED
  BY <1>4, <1>5, <1>6, <1>7, <1>8 DEF PagesInv

(* A request leaves with what it was made with.                            *)
LEMMA SendKeepsInv ==
    ASSUME PagesInv, NEW r \in Submissions, Send(r)
    PROVE  PagesInv'
<1>1. /\ stage[r] = "collecting" /\ stage' = [stage EXCEPT ![r] = "sent"]
      /\ theme' = theme /\ page' = page /\ authData' = authData
      /\ banInfo' = banInfo /\ form' = form /\ request' = request
      /\ mounted' = mounted /\ shown' = shown /\ latest' = latest
  BY DEF Send, appVars, historyVars
<1>2. InFlight' = InFlight
  BY <1>1 DEF PagesInv, TypeOK, InFlight
<1>3. TypeOK'
  BY <1>1 DEF PagesInv, TypeOK
<1>4. RequestsNamed' /\ ThemeAsShown'
  BY <1>1, <1>2 DEF PagesInv, RequestsNamed, ThemeAsShown
<1>5. LoadingTracksRequest' /\ ErrorIsOfLastAttempt' /\ PagesShowTheirAnswer'
  BY <1>1, <1>2 DEF PagesInv, LoadingTracksRequest, ErrorIsOfLastAttempt,
                    PagesShowTheirAnswer
<1>6. QED
  BY <1>3, <1>4, <1>5 DEF PagesInv

(* An answer that opens a page, and the history that records it.           *)
LEMMA OpenKeepsInv ==
    ASSUME PagesInv, NEW r \in Submissions, End(r),
           NEW p \in Forms \cup {"dashboard", "banned"}, Open(r, p),
           authData' \in Answers, banInfo' \in Answers,
           latest' \in [dashboard : Answers, banned : Answers],
           p = "dashboard" => authData' # Nil /\ authData' = latest'.dashboard,
           p = "banned" => banInfo' # Nil /\ banInfo' = latest'.banned
    PROVE  PagesInv'
<1>1. /\ TypeOK /\ RequestsNamed /\ ThemeAsShown
      /\ LoadingTracksRequest /\ ErrorIsOfLastAttempt
  BY DEF PagesInv
<1>2. /\ stage' \in [Submissions -> {"idle", "collecting", "sent"}]
      /\ request' \in [Submissions -> [page : Forms, user : Names \cup {Nil},
                                       theme : Themes]]
      /\ shown' \in [Submissions -> Themes] /\ theme' \in Themes
      /\ InFlight' = InFlight \ {r}
      /\ RequestsNamed' /\ ThemeAsShown'
  BY <1>1, EndKeepsRequests
<1>3. /\ page' = p /\ mounted' \subseteq Submissions
      /\ form' \in [loading : BOOLEAN, error : BOOLEAN]
      /\ LoadingTracksRequest' /\ ErrorIsOfLastAttempt'
  BY <1>1, <1>2, OpenReleases
<1>4. TypeOK'
  BY <1>2, <1>3 DEF TypeOK
<1>5. PagesShowTheirAnswer'
  BY <1>3 DEF PagesShowTheirAnswer
<1>6. QED
  BY <1>2, <1>3, <1>4, <1>5 DEF PagesInv

(* An answer that only shows an error.                                     *)
LEMMA FailKeepsInv ==
    ASSUME PagesInv, NEW r \in Submissions, Fail(r)
    PROVE  PagesInv'
<1>1. /\ TypeOK /\ RequestsNamed /\ ThemeAsShown
      /\ LoadingTracksRequest /\ ErrorIsOfLastAttempt
  BY DEF PagesInv
<1>2. /\ StopLoading(r, TRUE) /\ mounted' = mounted \ {r} /\ End(r)
      /\ page' = page /\ authData' = authData /\ banInfo' = banInfo /\ latest' = latest
  BY DEF Fail
<1>3. /\ stage' \in [Submissions -> {"idle", "collecting", "sent"}]
      /\ request' \in [Submissions -> [page : Forms, user : Names \cup {Nil},
                                       theme : Themes]]
      /\ shown' \in [Submissions -> Themes] /\ theme' \in Themes
      /\ InFlight' = InFlight \ {r}
      /\ RequestsNamed' /\ ThemeAsShown'
  BY <1>1, <1>2, EndKeepsRequests
<1>4. /\ form' \in [loading : BOOLEAN, error : BOOLEAN]
      /\ LoadingTracksRequest' /\ ErrorIsOfLastAttempt'
  BY <1>1, <1>2, <1>3, StopLoadingReleases
<1>5. TypeOK'
  BY <1>1, <1>2, <1>3, <1>4 DEF TypeOK
<1>6. PagesShowTheirAnswer'
  BY <1>2 DEF PagesInv, PagesShowTheirAnswer
<1>7. QED
  BY <1>3, <1>4, <1>5, <1>6 DEF PagesInv

-----------------------------------------------------------------------------
(* Every step of the pages.                                                *)
LEMMA StepKeepsInv == PagesInv /\ [Next]_vars => PagesInv'
<1> SUFFICES ASSUME PagesInv, [Next]_vars PROVE PagesInv'
  OBVIOUS
<1>0. TypeOK
  BY DEF PagesInv
<1>1. CASE ToggleTheme
  <2>1. theme' \in Themes
    BY <1>1 DEF ToggleTheme, Themes
  <2>2. QED
    BY <1>0, <1>1, <2>1, RemountKeepsInv DEF ToggleTheme, TypeOK
<1>2. CASE GoTo("login", "register") \/ GoTo("register", "login")
  BY <1>0, <1>2, RemountKeepsInv DEF GoTo, TypeOK, Forms
<1>3. CASE LogoutDashboard
  BY <1>0, <1>3, RemountKeepsInv DEF LogoutDashboard, TypeOK, Forms
<1>4. CASE LogoutBanned
  BY <1>0, <1>4, RemountKeepsInv DEF LogoutBanned, TypeOK, Forms
<1>5. CASE RejectInput
  <2>1. /\ ~form.loading /\ form' = [form EXCEPT !.error = TRUE]
        /\ UNCHANGED <<theme, page, authData, banInfo, stage, request, mounted, shown, latest>>
    BY <1>5 DEF RejectInput, appVars, submissionVars, historyVars
  <2>2. InFlight' = InFlight
    BY <2>1 DEF InFlight
  <2>3. QED
    BY <2>1, <2>2 DEF PagesInv, TypeOK, RequestsNamed, ThemeAsShown,
          LoadingTracksRequest, ErrorIsOfLastAttempt, PagesShowTheirAnswer
<1>6. CASE \E r \in Submissions, name \in Names : Submit(r, name)
  BY <1>6, SubmitKeepsInv
<1>7. ASSUME NEW r \in Submissions, Answered(r) PROVE PagesInv'
  <2>1. CASE Send(r)
    BY <2>1, SendKeepsInv
  <2>2. CASE Fail(r)
    BY <2>2, FailKeepsInv
  <2>3. CASE LoggedIn(r)
    <3>1. Data(r) \in Answers /\ Data(r) # Nil
      BY <1>0, <2>3, DataIsAnswer DEF PagesInv, LoggedIn
    <3>2. /\ authData' = Data(r) /\ banInfo' = banInfo
          /\ latest' = [latest EXCEPT !.dashboard = Data(r)]
          /\ Open(r, "dashboard") /\ End(r)
      BY <2>3 DEF LoggedIn
    <3>3. QED
      BY <1>0, <3>1, <3>2, OpenKeepsInv DEF TypeOK
  <2>4. CASE Registered(r)
    BY <1>0, <2>4, OpenKeepsInv DEF Registered, TypeOK, Forms
  <2>5. CASE Banned(r)
    <3>1. Data(r) \in Answers /\ Data(r) # Nil
      BY <1>0, <2>5, DataIsAnswer DEF PagesInv, Banned
    <3>2. /\ banInfo' = Data(r) /\ authData' = authData
          /\ latest' = [latest EXCEPT !.banned = Data(r)]
          /\ Open(r, "banned") /\ End(r)
      BY <2>5 DEF Banned
    <3>3. QED
      BY <1>0, <3>1, <3>2, OpenKeepsInv DEF TypeOK
  <2>6. QED
    BY <1>7, <2>1, <2>2, <2>3, <2>4, <2>5 DEF Answered
<1>8. CASE UNCHANGED vars
  BY <1>8 DEF vars, appVars, submissionVars, historyVars,
        PagesInv, TypeOK, RequestsNamed, ThemeAsShown, InFlight,
        LoadingTracksRequest, ErrorIsOfLastAttempt, PagesShowTheirAnswer
<1>9. QED
  BY <1>1, <1>2, <1>3, <1>4, <1>5, <1>6, <1>7, <1>8 DEF Next

LEMMA InitPagesInv == Init => PagesInv
BY DEF Init, PagesInv, TypeOK, RequestsNamed, ThemeAsShown, InFlight,
       Forms, Themes, Answers, FreshForm, NoRequest,
       LoadingTracksRequest, ErrorIsOfLastAttempt, PagesShowTheirAnswer

LEMMA PagesInvariant == Spec => []PagesInv
BY InitPagesInv, StepKeepsInv, PTL DEF Spec

(* However many submissions are in flight, the form on the screen waits    *)
(* for exactly the one it made (LoginPage.tsx lines 30-67).                *)
THEOREM OneSubmissionPerForm == Spec => []LoadingTracksRequest
<1>1. PagesInv => LoadingTracksRequest
  BY DEF PagesInv
<1>2. QED
  BY <1>1, PagesInvariant, PTL

(* The ban page and the dashboard always have the data they read: the      *)
(* answer that opened them (App.tsx lines 44-90, BanPage.tsx line 39).     *)
THEOREM PagesHaveTheirData == Spec => []PagesShowTheirAnswer
<1>1. PagesInv => PagesShowTheirAnswer
  BY DEF PagesInv
<1>2. QED
  BY <1>1, PagesInvariant, PTL

(* Toggling the theme during a submission does not change the theme it is  *)
(* sent with (LoginPage.tsx lines 36-48).                                  *)
THEOREM ThemeOfSubmission == Spec => []SentAsShown
<1>1. PagesInv => SentAsShown
  BY DEF PagesInv, ThemeAsShown, SentAsShown, InFlight
<1>2. QED
  BY <1>1, PagesInvariant, PTL

-----------------------------------------------------------------------------
(* A form waits only for submissions of its own page.                      *)
MountedOnPage == \A r \in mounted : page \in Forms /\ request[r].page = page

(* What is on its way to the server: the body is there as long as the      *)
(* submission is, and of a registration its password was typed twice.      *)
BodiesKept ==
    \A r \in Submissions : stage[r] # "idle" =>
        /\ request[r].user \in Names
        /\ body[r] \in Passwords \ {Nil}
        /\ request[r].page = "register" => <<request[r].user, body[r]>> \in confirmed

(* What is on its way back: an answer to a request that was sent, and the  *)
(* news of a registration is true.                                         *)
AnswersTrue ==
    \A r \in Submissions : served[r] # Nil =>
        /\ stage[r] = "sent"
        /\ served[r] = "registered" =>
               request[r].page = "register" /\ accounts[request[r].user] = body[r]

(* The table of accounts: AcknowledgedKeepsPassword holds because no       *)
(* account is ever overwritten, which no empty password may contradict.    *)
AccountsInv ==
    /\ BodiesKept
    /\ AnswersTrue
    /\ abandoned \subseteq confirmed
    /\ \A c \in confirmed \cup told : c[2] # Nil
    /\ RegisteredAsConfirmed
    /\ AcknowledgedKeepsPassword

FormInv == FormTypeOK /\ MountedOnPage /\ AccountsInv

-----------------------------------------------------------------------------
(* Every step is one of ClientPages, or leaves the pages alone.            *)
LEMMA StepOfPages == [FormNext]_allVars => [Next]_vars
<1> SUFFICES ASSUME [FormNext]_allVars PROVE [Next]_vars
  OBVIOUS
<1>1. CASE Agree \/ \E p \in Passwords :
                       LoginPassword(p) \/ RegisterPassword(p) \/ ConfirmPassword(p)
  BY <1>1 DEF Agree, LoginPassword, RegisterPassword, ConfirmPassword, Edit
<1>2. CASE Leave
  BY <1>2 DEF Leave, Next
<1>3. CASE Reject
  BY <1>3 DEF Reject, Next
<1>4. CASE \E r \in Submissions, name \in Names : SubmitForm(r, name)
  BY <1>4 DEF SubmitForm, Next
<1>5. ASSUME NEW r \in Submissions, SubmissionStep(r) PROVE [Next]_vars
  <2>1. CASE ServeRegistration(r) \/ ServeLogin(r) \/ ServeBan(r) \/ ServeRefusal(r)
    BY <2>1 DEF ServeRegistration, ServeLogin, ServeBan, ServeRefusal, Reply
  <2>2. CASE SendForm(r) \/ ReceiveError(r) \/ GiveUp(r) \/ ReceiveRegistered(r)
                \/ ReceiveEvaluation(r) \/ ReceiveBan(r)
    BY <2>2 DEF SendForm, ReceiveError, GiveUp, ReceiveRegistered, ReceiveEvaluation,
                ReceiveBan, Next, Answered
  <2> QED BY <1>5, <2>1, <2>2 DEF SubmissionStep
<1>6. CASE \E n \in Names, p \in Passwords : ServeAbandoned(n, p)
  BY <1>6 DEF ServeAbandoned
<1>7. CASE UNCHANGED allVars
  BY <1>7 DEF allVars
<1> QED BY <1>1, <1>2, <1>3, <1>4, <1>5, <1>6, <1>7 DEF FormNext

-----------------------------------------------------------------------------
(* The accounts.  A row is written for a name without one, by a            *)
(* registration whose password was confirmed, and never again.             *)
LEMMA CreateUserKeeps ==
    ASSUME AccountsInv, FormTypeOK, NEW n \in Names, NEW p, p # Nil,
           <<n, p>> \in confirmed, CreateUser(n, p), UNCHANGED <<confirmed, told>>
    PROVE  /\ RegisteredAsConfirmed' /\ AcknowledgedKeepsPassword'
           /\ \A m \in Names : accounts[m] # Nil => accounts'[m] = accounts[m]
           /\ accounts'[n] = p
<1>1. accounts[n] = Nil /\ accounts' = [accounts EXCEPT ![n] = p]
  BY DEF CreateUser
<1>2. accounts'[n] = p /\ \A m \in Names : m # n => accounts'[m] = accounts[m]
  BY <1>1 DEF FormTypeOK
<1>3. \A c \in told : c[1] \in Names /\ accounts[c[1]] # Nil
  BY DEF FormTypeOK, Credentials, AccountsInv, AcknowledgedKeepsPassword
<1> QED
  BY <1>1, <1>2, <1>3 DEF AccountsInv, RegisteredAsConfirmed, AcknowledgedKeepsPassword

(* What becomes of the submissions in flight while an account is created.  *)
LEMMA AccountsGrow ==
    ASSUME AccountsInv, UNCHANGED <<stage, request, body, served, confirmed>>,
           \A m \in Names : accounts[m] # Nil => accounts'[m] = accounts[m]
    PROVE  BodiesKept' /\ AnswersTrue'
BY DEF AccountsInv, BodiesKept, AnswersTrue

(* The end of a submission tells nothing about the others.                 *)
LEMMA EndKeeps ==
    ASSUME AccountsInv, FormTypeOK, NEW r \in Submissions, End(r), Settle(r)
    PROVE  BodiesKept' /\ AnswersTrue' /\ RegisteredAsConfirmed'
<1>1. /\ stage' = [stage EXCEPT ![r] = "idle"]
      /\ request' = [request EXCEPT ![r] = NoRequest]
      /\ body' = [body EXCEPT ![r] = Nil] /\ served' = [served EXCEPT ![r] = Nil]
      /\ accounts' = accounts /\ confirmed' = confirmed
  BY DEF End, Settle
<1>2. stage'[r] = "idle" /\ served'[r] = Nil
  BY <1>1 DEF FormTypeOK, TypeOK
<1>3. \A q \in Submissions \ {r} : /\ stage'[q] = stage[q] /\ request'[q] = request[q]
                                   /\ body'[q] = body[q] /\ served'[q] = served[q]
  BY <1>1 DEF FormTypeOK, TypeOK
<1> QED
  BY <1>1, <1>2, <1>3 DEF AccountsInv, BodiesKept, AnswersTrue, RegisteredAsConfirmed

(* Nothing but the forms changes.                                          *)
LEMMA FormKeepsAccounts ==
    ASSUME AccountsInv,
           UNCHANGED <<stage, request, body, served, abandoned, accounts, confirmed, told>>
    PROVE  AccountsInv'
BY DEF AccountsInv, BodiesKept, AnswersTrue, RegisteredAsConfirmed,
       AcknowledgedKeepsPassword

LEMMA SubmitKeepsAccounts ==
    ASSUME AccountsInv, FormTypeOK, NEW r \in Submissions, NEW name \in Names,
           SubmitForm(r, name)
    PROVE  AccountsInv'
<1>1. /\ stage[r] = "idle" /\ page \in Forms
      /\ stage' = [stage EXCEPT ![r] = "collecting"]
      /\ request' = [request EXCEPT ![r] = [page |-> page, user |-> name, theme |-> theme]]
  BY DEF SubmitForm, Submit
<1>2. /\ fields.password # Nil
      /\ body' = [body EXCEPT ![r] = fields.password]
      /\ UNCHANGED <<served, abandoned, accounts, told>>
      /\ confirmed \subseteq confirmed'
      /\ confirmed' \subseteq confirmed \cup {<<name, fields.password>>}
      /\ page = "register" => <<name, fields.password>> \in confirmed'
  BY DEF SubmitForm, Filled, Accepted, Mismatch
<1>3. fields.password \in Passwords
  BY <1>2 DEF FormTypeOK
<1>4. /\ stage'[r] = "collecting" /\ body'[r] = fields.password
      /\ request'[r].page = page /\ request'[r].user = name
      /\ \A q \in Submissions \ {r} : /\ stage'[q] = stage[q] /\ request'[q] = request[q]
                                      /\ body'[q] = body[q]
  BY <1>1, <1>2 DEF FormTypeOK, TypeOK
<1>5. BodiesKept'
  BY <1>2, <1>3, <1>4 DEF AccountsInv, BodiesKept
<1>6. AnswersTrue'
  BY <1>1, <1>2, <1>4 DEF AccountsInv, AnswersTrue
<1> QED
  BY <1>2, <1>5, <1>6
  DEF AccountsInv, RegisteredAsConfirmed, AcknowledgedKeepsPassword

LEMMA SendKeepsAccounts ==
    ASSUME AccountsInv, FormTypeOK, NEW r \in Submissions, SendForm(r)
    PROVE  AccountsInv'
<1>1. /\ stage[r] = "collecting" /\ stage' = [stage EXCEPT ![r] = "sent"]
      /\ UNCHANGED <<request, wireVars, accounts, accountHistory>>
  BY DEF SendForm, Send
<1>2. stage'[r] = "sent" /\ \A q \in Submissions \ {r} : stage'[q] = stage[q]
  BY <1>1 DEF FormTypeOK, TypeOK
<1> QED
  BY <1>1, <1>2 DEF wireVars, accountHistory, AccountsInv, BodiesKept, AnswersTrue,
                    RegisteredAsConfirmed, AcknowledgedKeepsPassword

(* The server answers one request.                                         *)
LEMMA ServeKeepsAccounts ==
    ASSUME AccountsInv, FormTypeOK, NEW r \in Submissions,
           ServeRegistration(r) \/ ServeLogin(r) \/ ServeBan(r) \/ ServeRefusal(r)
    PROVE  AccountsInv'
<1>1. PICK outcome \in Outcomes :
          /\ Unserved(r)
          /\ served' = [served EXCEPT ![r] = outcome]
          /\ UNCHANGED <<stage, request, body, abandoned, confirmed, told>>
          /\ \/ UNCHANGED accounts /\ outcome # "registered"
             \/ /\ request[r].page = "register"
                /\ CreateUser(request[r].user, body[r])
  BY DEF ServeRegistration, ServeLogin, ServeBan, ServeRefusal, Reply, Outcomes, vars,
         appVars, submissionVars, historyVars, accountHistory
<1>2. /\ served'[r] = outcome /\ \A q \in Submissions \ {r} : served'[q] = served[q]
      /\ stage[r] = "sent" /\ served[r] = Nil
  BY <1>1 DEF FormTypeOK, Unserved
<1>3. /\ request[r].user \in Names /\ body[r] # Nil
      /\ request[r].page = "register" => <<request[r].user, body[r]>> \in confirmed
  BY <1>2 DEF AccountsInv, BodiesKept
<1>4. /\ RegisteredAsConfirmed' /\ AcknowledgedKeepsPassword'
      /\ \A m \in Names : accounts[m] # Nil => accounts'[m] = accounts[m]
      /\ outcome = "registered" =>
            request[r].page = "register" /\ accounts'[request[r].user] = body[r]
  <2>1. CASE UNCHANGED accounts /\ outcome # "registered"
    BY <1>1, <2>1 DEF AccountsInv, RegisteredAsConfirmed, AcknowledgedKeepsPassword
  <2>2. CASE request[r].page = "register" /\ CreateUser(request[r].user, body[r])
    BY <1>1, <1>3, <2>2, CreateUserKeeps
  <2> QED BY <1>1, <2>1, <2>2
<1>5. BodiesKept'
  BY <1>1 DEF AccountsInv, BodiesKept
<1>6. AnswersTrue'
  <2>1. ASSUME NEW q \in Submissions, q # r, served[q] # Nil
        PROVE  /\ stage'[q] = "sent"
               /\ served[q] = "registered" =>
                    request'[q].page = "register" /\ accounts'[request'[q].user] = body'[q]
    BY <1>1, <1>4, <2>1 DEF AccountsInv, AnswersTrue, BodiesKept
  <2> QED BY <1>1, <1>2, <1>4, <2>1 DEF AnswersTrue
<1> QED
  BY <1>1, <1>4, <1>5, <1>6 DEF AccountsInv

LEMMA ServeAbandonedKeepsAccounts ==
    ASSUME AccountsInv, FormTypeOK, NEW n \in Names, NEW p \in Passwords, ServeAbandoned(n, p)
    PROVE  AccountsInv'
<1>1. /\ <<n, p>> \in confirmed /\ p # Nil
      /\ abandoned' \subseteq abandoned
      /\ CreateUser(n, p) \/ UNCHANGED accounts
      /\ UNCHANGED <<stage, request, body, served, confirmed, told>>
  BY DEF ServeAbandoned, AccountsInv, vars, appVars, submissionVars, historyVars,
         accountHistory
<1>2. /\ RegisteredAsConfirmed' /\ AcknowledgedKeepsPassword'
      /\ \A m \in Names : accounts[m] # Nil => accounts'[m] = accounts[m]
  <2>1. CASE UNCHANGED accounts
    BY <1>1, <2>1 DEF AccountsInv, RegisteredAsConfirmed, AcknowledgedKeepsPassword
  <2>2. CASE CreateUser(n, p)
    BY <1>1, <2>2, CreateUserKeeps
  <2> QED BY <1>1, <2>1, <2>2
<1>3. BodiesKept' /\ AnswersTrue'
  BY <1>1, <1>2, AccountsGrow
<1> QED
  BY <1>1, <1>2, <1>3 DEF AccountsInv

(* An answer arrives, or the form gives up on it: then the registration    *)
(* may still be on its way.                                                *)
LEMMA EndKeepsAccounts ==
    ASSUME AccountsInv, FormTypeOK, NEW r \in Submissions,
           \/ ReceiveError(r) \/ GiveUp(r) \/ ReceiveRegistered(r)
           \/ ReceiveEvaluation(r) \/ ReceiveBan(r)
    PROVE  AccountsInv'
<1>1. End(r) /\ Settle(r) /\ stage[r] # "idle"
  BY DEF ReceiveError, GiveUp, ReceiveRegistered, ReceiveEvaluation, ReceiveBan,
         Fail, Registered, LoggedIn, Banned
<1>2. BodiesKept' /\ AnswersTrue' /\ RegisteredAsConfirmed'
  BY <1>1, EndKeeps
<1>3. accounts' = accounts /\ confirmed' = confirmed
  BY <1>1 DEF Settle
<1>4. body[r] # Nil
  BY <1>1 DEF AccountsInv, BodiesKept
<1>5. abandoned' \subseteq confirmed'
  <2>1. Unanswered(r) \subseteq confirmed
    BY <1>1 DEF Unanswered, AccountsInv, BodiesKept
  <2> QED BY <1>3, <2>1 DEF ReceiveError, GiveUp, ReceiveRegistered, ReceiveEvaluation,
                            ReceiveBan, AccountsInv
<1>6. \A c \in told' : c[2] # Nil /\ accounts'[c[1]] = c[2]
  <2>1. CASE told' = told
    BY <1>3, <2>1 DEF AccountsInv, AcknowledgedKeepsPassword
  <2>2. CASE Created(r) /\ told' = told \cup {<<request[r].user, body[r]>>}
    <3>1. accounts[request[r].user] = body[r]
      BY <2>2, OutcomeAssumption DEF AccountsInv, AnswersTrue, Created, Outcomes
    <3> QED BY <1>3, <1>4, <2>2, <3>1 DEF AccountsInv, AcknowledgedKeepsPassword
  <2> QED BY <2>1, <2>2 DEF ReceiveError, GiveUp, ReceiveRegistered, ReceiveEvaluation,
                            ReceiveBan
<1> QED
  BY <1>2, <1>3, <1>5, <1>6 DEF AccountsInv, AcknowledgedKeepsPassword

-----------------------------------------------------------------------------
(* The forms.  Types of what ClientPages does not know, the form in two    *)
(* parts: a form on the screen has an error with every kind of error.      *)
FormOK ==
    /\ fields \in [password : Passwords \cup {Nil}, confirm : Passwords \cup {Nil},
                   agree : BOOLEAN]
    /\ message \in Kinds \cup {Nil}
    /\ form.error <=> message # Nil

WireOK ==
    /\ body \in [Submissions -> Passwords \cup {Nil}]
    /\ served \in [Submissions -> Outcomes \cup {Nil}]
    /\ abandoned \subseteq Credentials
    /\ accounts \in [Names -> Passwords \cup {Nil}]
    /\ confirmed \subseteq Credentials /\ told \subseteq Credentials

LEMMA TypeOKParts == FormTypeOK <=> TypeOK /\ FormOK /\ WireOK
BY DEF FormTypeOK, FormOK, WireOK

LEMMA EmptyFieldsType ==
    EmptyFields \in [password : Passwords \cup {Nil}, confirm : Passwords \cup {Nil},
                     agree : BOOLEAN]
BY DEF EmptyFields

(* A form mounted anew is empty and waits for nothing.                     *)
LEMMA ClearedForm ==
    ASSUME Remount, ClearForm
    PROVE  FormOK' /\ MountedOnPage'
BY EmptyFieldsType DEF Remount, FreshForm, ClearForm, FormOK, MountedOnPage

(* The end of a submission whose form, if it is there, shows an error.     *)
LEMMA FailedForm ==
    ASSUME FormTypeOK, MountedOnPage, NEW r \in Submissions, NEW kind \in Kinds,
           Fail(r), ShowError(r, kind)
    PROVE  FormOK' /\ MountedOnPage'
<1>1. /\ form' = IF r \in mounted THEN [loading |-> FALSE, error |-> form.error \/ TRUE]
                                  ELSE form
      /\ mounted' = mounted \ {r} /\ page' = page
      /\ request' = [request EXCEPT ![r] = NoRequest]
      /\ fields' = fields /\ message' = IF r \in mounted THEN kind ELSE message
  BY DEF Fail, StopLoading, End, ShowError
<1>2. FormOK'
  <2>1. kind # Nil
    BY OutcomeAssumption
  <2>2. CASE r \in mounted
    BY <1>1, <2>1, <2>2 DEF FormTypeOK, FormOK
  <2>3. CASE r \notin mounted
    BY <1>1, <2>3 DEF FormTypeOK, FormOK
  <2> QED BY <2>2, <2>3
<1>3. MountedOnPage'
  BY <1>1 DEF FormTypeOK, TypeOK, MountedOnPage
<1> QED BY <1>2, <1>3

(* The end of a submission that opens a page.                              *)
LEMMA OpenedForm ==
    ASSUME FormTypeOK, MountedOnPage, NEW r \in Submissions, NEW p,
           Open(r, p), End(r), KeepForm
    PROVE  FormOK' /\ MountedOnPage'
<1>1. CASE p = page
  <2>1. /\ page' = page /\ mounted' = mounted \ {r} /\ UNCHANGED <<fields, message>>
        /\ request' = [request EXCEPT ![r] = NoRequest]
        /\ form' = IF r \in mounted THEN [loading |-> FALSE, error |-> form.error \/ FALSE]
                                    ELSE form
    BY <1>1 DEF Open, StopLoading, End, KeepForm, formVars
  <2>2. FormOK'
    BY <2>1 DEF FormTypeOK, TypeOK, FormOK
  <2>3. MountedOnPage'
    BY <2>1 DEF FormTypeOK, TypeOK, MountedOnPage
  <2> QED BY <2>2, <2>3
<1>2. CASE p # page
  BY <1>2, ClearedForm DEF Open, KeepForm
<1> QED BY <1>1, <1>2

(* The form and the submissions it waits for, action by action.            *)
LEMMA StepKeepsForm ==
    ASSUME FormTypeOK, MountedOnPage, [FormNext]_allVars
    PROVE  FormOK' /\ MountedOnPage'
<1>1. CASE \E p \in Passwords : LoginPassword(p) \/ RegisterPassword(p) \/ ConfirmPassword(p)
  BY <1>1 DEF LoginPassword, RegisterPassword, ConfirmPassword, Edit, vars, appVars,
         submissionVars, historyVars, FormTypeOK, FormOK, MountedOnPage
<1>2. CASE Agree
  BY <1>2 DEF Agree, Edit, vars, appVars, submissionVars, historyVars, FormTypeOK, FormOK,
         MountedOnPage
<1>3. CASE Leave
  <2>1. Remount /\ ClearForm
    BY <1>3 DEF Leave, ToggleTheme, GoTo, LogoutDashboard,
                LogoutBanned
  <2> QED BY <2>1, ClearedForm
<1>4. CASE Reject
  <2>1. /\ form' = [form EXCEPT !.error = TRUE] /\ UNCHANGED <<fields, page, request, mounted>>
        /\ message' \in {"mismatch", "terms"}
    BY <1>4 DEF Reject, RejectInput, appVars, submissionVars
  <2>2. message' \in Kinds /\ message' # Nil
    BY <2>1, OutcomeAssumption DEF Kinds
  <2>3. form'.error
    BY <2>1 DEF FormTypeOK, TypeOK
  <2> QED BY <2>1, <2>2, <2>3 DEF FormTypeOK, FormOK, MountedOnPage
<1>5. ASSUME NEW r \in Submissions, NEW name \in Names, SubmitForm(r, name)
      PROVE  FormOK' /\ MountedOnPage'
  <2>1. /\ page \in Forms /\ page' = page
        /\ request' = [request EXCEPT ![r] = [page |-> page, user |-> name, theme |-> theme]]
        /\ form' = [loading |-> TRUE, error |-> FALSE] /\ mounted' = mounted \cup {r}
        /\ fields' = fields /\ message' = Nil
    BY <1>5 DEF SubmitForm, Submit, appVars
  <2> QED BY <2>1 DEF FormTypeOK, TypeOK, FormOK, MountedOnPage
<1>6. ASSUME NEW r \in Submissions, SubmissionStep(r)
      PROVE  FormOK' /\ MountedOnPage'
  <2>1. CASE SendForm(r)
    BY <2>1 DEF SendForm, Send, appVars, formVars, FormTypeOK, FormOK, MountedOnPage
  <2>2. CASE ServeRegistration(r) \/ ServeLogin(r) \/ ServeBan(r) \/ ServeRefusal(r)
    BY <2>2 DEF ServeRegistration, ServeLogin, ServeBan, ServeRefusal, Reply, vars, appVars,
         submissionVars, historyVars, formVars, FormTypeOK, FormOK, MountedOnPage
  <2>3. CASE ReceiveError(r) \/ GiveUp(r)
    BY <2>3, FailedForm DEF ReceiveError, GiveUp, Kinds
  <2>4. CASE ReceiveRegistered(r) \/ ReceiveEvaluation(r) \/ ReceiveBan(r)
    BY <2>4, OpenedForm DEF ReceiveRegistered, ReceiveEvaluation, ReceiveBan,
                            Registered, LoggedIn, Banned
  <2> QED BY <1>6, <2>1, <2>2, <2>3, <2>4 DEF SubmissionStep
<1>7. CASE \E n \in Names, p \in Passwords : ServeAbandoned(n, p)
  BY <1>7 DEF ServeAbandoned, vars, appVars, submissionVars, historyVars, formVars,
         FormTypeOK, FormOK, MountedOnPage
<1>8. CASE UNCHANGED allVars
  BY <1>8 DEF allVars, vars, appVars, submissionVars, historyVars, formVars, FormTypeOK,
         FormOK, MountedOnPage
<1> QED BY <1>1, <1>2, <1>3, <1>4, <1>5, <1>6, <1>7, <1>8 DEF FormNext

(* What is on the wire and in the table keeps its types.                   *)
LEMMA StepKeepsWire == FormTypeOK /\ AccountsInv /\ [FormNext]_allVars => WireOK'
<1> SUFFICES ASSUME FormTypeOK, AccountsInv, [FormNext]_allVars PROVE WireOK'
  OBVIOUS
<1>0. WireOK
  BY TypeOKParts
<1>1. CASE UNCHANGED <<wireVars, accounts, accountHistory>>
  BY <1>0, <1>1 DEF WireOK, wireVars, accountHistory
<1>2. ASSUME NEW r \in Submissions, NEW name \in Names, SubmitForm(r, name) PROVE WireOK'
  <2>1. fields.password \in Passwords
    BY <1>2 DEF SubmitForm, Filled, FormTypeOK
  <2>2. /\ body' = [body EXCEPT ![r] = fields.password]
        /\ confirmed' \subseteq confirmed \cup {<<name, fields.password>>}
        /\ UNCHANGED <<served, abandoned, accounts, told>>
    BY <1>2 DEF SubmitForm
  <2> QED BY <1>0, <1>2, <2>1, <2>2 DEF WireOK, Credentials
<1>3. ASSUME NEW r \in Submissions,
             ServeRegistration(r) \/ ServeLogin(r) \/ ServeBan(r) \/ ServeRefusal(r)
      PROVE  WireOK'
  <2>1. PICK outcome \in Outcomes :
            /\ stage[r] = "sent"
            /\ served' = [served EXCEPT ![r] = outcome]
            /\ UNCHANGED <<body, abandoned, confirmed, told>>
            /\ UNCHANGED accounts \/ CreateUser(request[r].user, body[r])
    BY <1>3 DEF ServeRegistration, ServeLogin, ServeBan, ServeRefusal, Reply, Outcomes,
           Unserved, accountHistory
  <2>2. body[r] \in Passwords /\ request[r].user \in Names
    BY <2>1 DEF AccountsInv, BodiesKept
  <2>3. accounts' \in [Names -> Passwords \cup {Nil}]
    BY <1>0, <2>1, <2>2 DEF WireOK, CreateUser
  <2> QED BY <1>0, <1>3, <2>1, <2>3 DEF WireOK
<1>4. ASSUME NEW r \in Submissions,
             \/ ReceiveError(r) \/ GiveUp(r) \/ ReceiveRegistered(r)
             \/ ReceiveEvaluation(r) \/ ReceiveBan(r)
      PROVE  WireOK'
  <2>1. stage[r] # "idle" /\ Settle(r)
    BY <1>4 DEF ReceiveError, GiveUp, ReceiveRegistered, ReceiveEvaluation, ReceiveBan,
           Fail, Registered, LoggedIn, Banned
  <2>2. <<request[r].user, body[r]>> \in Credentials
    BY <1>4, <2>1 DEF AccountsInv, BodiesKept, Credentials
  <2>3. abandoned' \subseteq Credentials /\ told' \subseteq Credentials
    BY <1>0, <1>4, <2>2 DEF WireOK, ReceiveError, GiveUp, ReceiveRegistered,
           ReceiveEvaluation, ReceiveBan, Unanswered
  <2> QED BY <1>0, <1>4, <2>1, <2>3 DEF WireOK, Settle
<1>5. ASSUME NEW n \in Names, NEW p \in Passwords, ServeAbandoned(n, p) PROVE WireOK'
  BY <1>0, <1>5 DEF ServeAbandoned, CreateUser, WireOK, accountHistory
<1> QED
  <2>1. CASE Agree \/ Leave \/ Reject \/ UNCHANGED allVars
             \/ \E p \in Passwords :
                   LoginPassword(p) \/ RegisterPassword(p) \/ ConfirmPassword(p)
    BY <1>1, <2>1 DEF Agree, Leave, Reject, allVars, LoginPassword, RegisterPassword,
           ConfirmPassword, Edit
  <2>2. ASSUME NEW r \in Submissions, SubmissionStep(r) PROVE WireOK'
    <3>1. CASE SendForm(r)
      BY <1>1, <3>1 DEF SendForm
    <3> QED BY <1>3, <1>4, <2>2, <3>1 DEF SubmissionStep
  <2> QED BY <1>2, <1>5, <2>1, <2>2 DEF FormNext

LEMMA StepKeepsAccounts == FormTypeOK /\ AccountsInv /\ [FormNext]_allVars => AccountsInv'
<1> SUFFICES ASSUME FormTypeOK, AccountsInv, [FormNext]_allVars PROVE AccountsInv'
  OBVIOUS
<1>1. CASE Agree \/ UNCHANGED allVars
           \/ \E p \in Passwords :
                 LoginPassword(p) \/ RegisterPassword(p) \/ ConfirmPassword(p)
  BY <1>1, FormKeepsAccounts DEF Agree, allVars, vars, appVars, submissionVars, historyVars,
         wireVars, accountHistory, LoginPassword, RegisterPassword, ConfirmPassword, Edit
<1>2. CASE Leave
  BY <1>2, FormKeepsAccounts DEF Leave, wireVars, accountHistory, ToggleTheme,
         GoTo, LogoutDashboard, LogoutBanned, submissionVars
<1>3. CASE Reject
  BY <1>3, FormKeepsAccounts DEF Reject, wireVars, accountHistory, RejectInput,
         submissionVars
<1>4. ASSUME NEW r \in Submissions, SubmissionStep(r) PROVE AccountsInv'
  BY <1>4, SendKeepsAccounts, ServeKeepsAccounts, EndKeepsAccounts DEF SubmissionStep
<1> QED
  BY <1>1, <1>2, <1>3, <1>4, SubmitKeepsAccounts, ServeAbandonedKeepsAccounts DEF FormNext

-----------------------------------------------------------------------------
LEMMA PagesStep == PagesInv /\ [FormNext]_allVars => PagesInv'
BY StepOfPages, StepKeepsInv

LEMMA InitFormInv == FormInit => PagesInv /\ FormInv
<1> SUFFICES ASSUME FormInit PROVE PagesInv /\ FormInv
  OBVIOUS
<1>1. PagesInv
  BY InitPagesInv DEF FormInit
<1>2. FormTypeOK
  <2>1. FormOK
    BY EmptyFieldsType DEF FormInit, Init, FreshForm, FormOK
  <2>2. WireOK
    BY DEF FormInit, WireOK
  <2> QED BY <1>1, <2>1, <2>2, TypeOKParts DEF PagesInv
<1>3. MountedOnPage
  BY DEF FormInit, Init, MountedOnPage
<1>4. AccountsInv
  BY DEF FormInit, Init, AccountsInv, BodiesKept, AnswersTrue, RegisteredAsConfirmed,
         AcknowledgedKeepsPassword
<1> QED BY <1>1, <1>2, <1>3, <1>4 DEF FormInv

LEMMA StepKeepsFormInv == PagesInv /\ FormInv /\ [FormNext]_allVars => PagesInv' /\ FormInv'
<1> SUFFICES ASSUME PagesInv, FormInv, [FormNext]_allVars PROVE PagesInv' /\ FormInv'
  OBVIOUS
<1>1. PagesInv'
  BY PagesStep
<1>2. TypeOK'
  BY <1>1 DEF PagesInv
<1>3. FormTypeOK'
  <2>1. FormOK' /\ WireOK'
    BY StepKeepsForm, StepKeepsWire DEF FormInv
  <2> QED BY <1>2, <2>1 DEF FormTypeOK, FormOK, WireOK
<1> QED
  BY <1>1, <1>3, StepKeepsForm, StepKeepsAccounts DEF FormInv

LEMMA FormInvariant == FormSpec => [](PagesInv /\ FormInv)
BY InitFormInv, StepKeepsFormInv, PTL DEF FormSpec

-----------------------------------------------------------------------------
(* The states of the forms, of the requests and of the accounts range over *)
(* the values meant for them, and an error is shown exactly with a kind.   *)
THEOREM FormTypes == FormSpec => []FormTypeOK
<1>1. FormInv => FormTypeOK
  BY DEF FormInv
<1> QED BY <1>1, FormInvariant, PTL

(* No account has a password that was not typed twice, in whatever order   *)
(* edits, requests, lost answers and late registrations follow each other  *)
(* (RegisterPage.tsx lines 36-56).                                         *)
THEOREM AccountsAreConfirmed == FormSpec => []RegisteredAsConfirmed
<1>1. FormInv => RegisteredAsConfirmed
  BY DEF FormInv, AccountsInv
<1> QED BY <1>1, FormInvariant, PTL

(* An account that was acknowledged keeps its password for ever            *)
(* (RegisterPage.tsx lines 63-81 with CreateUser of postgres.go).          *)
THEOREM AcknowledgedIsKept == FormSpec => []AcknowledgedKeepsPassword
<1>1. FormInv => AcknowledgedKeepsPassword
  BY DEF FormInv, AccountsInv
<1> QED BY <1>1, FormInvariant, PTL

(* A form of a page that is opened did not make the submission that opens  *)
(* it: login opens after register, and the other two have no form.         *)
LEMMA OpenLeavesForm ==
    ASSUME MountedOnPage, NEW r \in Submissions, NEW p, Open(r, p), page' = page,
           r \in mounted => p \notin Forms \/ request[r].page # p
    PROVE  form' = form
BY DEF MountedOnPage, Open, StopLoading

LEMMA StepSpeaks ==
    ASSUME FormInv, [FormNext]_allVars,
           form.loading, ~form'.loading, page' = page, theme' = theme
    PROVE  message' # Nil
<1>0. /\ form \in [loading : BOOLEAN, error : BOOLEAN] /\ theme \in Themes
      /\ MountedOnPage /\ form' # form
  BY DEF FormInv, FormTypeOK, TypeOK
<1>1. CASE Agree \/ UNCHANGED allVars
           \/ \E p \in Passwords :
                 LoginPassword(p) \/ RegisterPassword(p) \/ ConfirmPassword(p)
  BY <1>0, <1>1 DEF Agree, allVars, vars, appVars, submissionVars, historyVars,
         LoginPassword, RegisterPassword, ConfirmPassword, Edit
<1>2. CASE Leave
  <2>1. ~ToggleTheme
    BY <1>0 DEF ToggleTheme, Themes
  <2> QED BY <1>0, <1>2, <2>1 DEF Leave, GoTo, LogoutDashboard,
                                  LogoutBanned
<1>3. CASE Reject
  BY <1>3 DEF Reject, RejectInput
<1>4. CASE \E r \in Submissions, name \in Names : SubmitForm(r, name)
  BY <1>4 DEF SubmitForm, Submit
<1>5. ASSUME NEW r \in Submissions, SubmissionStep(r) PROVE message' # Nil
  <2>1. CASE SendForm(r) \/ ServeRegistration(r) \/ ServeLogin(r) \/ ServeBan(r)
             \/ ServeRefusal(r)
    BY <1>0, <2>1 DEF SendForm, Send, ServeRegistration, ServeLogin, ServeBan, ServeRefusal,
         Reply, vars, appVars, submissionVars, historyVars
  <2>2. CASE ReceiveError(r) \/ GiveUp(r)
    <3>1. PICK kind \in Kinds : Fail(r) /\ ShowError(r, kind)
      BY <2>2 DEF ReceiveError, GiveUp, Kinds
    <3>2. r \in mounted
      BY <1>0, <3>1 DEF Fail, StopLoading
    <3> QED BY <3>1, <3>2, OutcomeAssumption DEF ShowError
  <2>3. CASE ReceiveRegistered(r) \/ ReceiveEvaluation(r) \/ ReceiveBan(r)
    <3>1. PICK p \in {"login", "dashboard", "banned"} :
              /\ Open(r, p)
              /\ p = "login" => request[r].page = "register"
      BY <2>3 DEF ReceiveRegistered, ReceiveEvaluation, ReceiveBan, Registered,
             LoggedIn, Banned
    <3>2. form' = form
      BY <1>0, <3>1, OpenLeavesForm DEF Forms
    <3> QED BY <1>0, <3>2
  <2> QED BY <1>5, <2>1, <2>2, <2>3 DEF SubmissionStep
<1>6. CASE \E n \in Names, p \in Passwords : ServeAbandoned(n, p)
  BY <1>0, <1>6 DEF ServeAbandoned, vars, appVars, submissionVars, historyVars
<1> QED BY <1>1, <1>2, <1>3, <1>4, <1>5, <1>6 DEF FormNext

(* A form stops loading with an error, or because it leaves the screen: no *)
(* late answer of an earlier form clears the spinner of this one, and no   *)
(* catch clause is silent (LoginPage.tsx lines 49-67, RegisterPage.tsx     *)
(* lines 63-81).                                                           *)
THEOREM NoFormFailsSilently == FormSpec => NoSilentFailure
<1>1. FormInv /\ [FormNext]_allVars
      => [form.loading /\ ~form'.loading /\ page' = page /\ theme' = theme
             => message' # Nil]_allVars
  BY StepSpeaks
<1> QED BY <1>1, FormInvariant, PTL DEF FormSpec, NoSilentFailure

(* The forms with their server are the pages that ClientPages describes:   *)
(* every step is one of its steps or does not touch them.                  *)
THEOREM FormsArePages == FormSpec => Init /\ [][Next]_vars
<1>1. FormInit => Init
  BY DEF FormInit
<1> QED BY <1>1, StepOfPages, PTL DEF FormSpec
=============================================================================
