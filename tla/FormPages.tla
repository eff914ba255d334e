------------------------------ MODULE FormPages ------------------------------
(***************************************************************************)
(* The two forms and the accounts behind them: what the user types, what   *)
(* LoginPage.tsx and RegisterPage.tsx send of it, what the server makes of *)
(* it, and what the answer does to the page.                               *)
(*                                                                         *)
(* Every step of the pages is a step of ClientPages, to which the fields,  *)
(* the bodies of the requests, the error shown and the server are added.   *)
(* The fields stay editable while a submission is in flight; a body is     *)
(* built after the await of the collector, from the values of the click.   *)
(* A request whose answer is lost may be served before, or after, the form *)
(* gives up on it.                                                         *)
(***************************************************************************)
EXTENDS ClientPages

CONSTANT Passwords    \* what users type as their password; Nil is an empty input

VARIABLES
    fields,           \* useState of the mounted form: password, confirmPwd, agree
    message,          \* the kind of error in the ErrorBanner
    body,             \* of each submission: the password it sends
    served,           \* of each submission: the answer that is on its way
    abandoned,        \* registrations on their way that no form waits for
    accounts,         \* the server's table users: the password of each name
    confirmed,        \* history: <<name, password>> typed twice and agreed to
    told              \* history: <<name, password>> acknowledged with 201

formVars == <<fields, message>>
wireVars == <<body, served, abandoned>>
accountHistory == <<confirmed, told>>
allVars == <<vars, formVars, wireVars, accounts, accountHistory>>

Kinds == {"mismatch", "terms", "server", "unreachable"}

Outcomes == {"registered", "evaluated", "ban", "error", "text"}

ASSUME OutcomeAssumption == Nil \notin Kinds /\ Nil \notin Outcomes

EmptyFields == [password |-> Nil, confirm |-> Nil, agree |-> FALSE]

FormInit ==
    /\ Init
    /\ fields = EmptyFields /\ message = Nil
    /\ body = [r \in Submissions |-> Nil]
    /\ served = [r \in Submissions |-> Nil]
    /\ abandoned = {}
    /\ accounts = [n \in Names |-> Nil]
    /\ confirmed = {} /\ told = {}

-----------------------------------------------------------------------------
(* What the user does.  No input is disabled while a form is loading.      *)

Edit(field, value) ==
    /\ fields' = [fields EXCEPT ![field] = value]
    /\ UNCHANGED <<vars, message, wireVars, accounts, accountHistory>>

LoginPassword(p) == page = "login" /\ Edit("password", p)

RegisterPassword(p) == page = "register" /\ Edit("password", p)

ConfirmPassword(p) == page = "register" /\ Edit("confirm", p)

Agree == page = "register" /\ Edit("agree", ~fields.agree)

ClearForm == fields' = EmptyFields /\ message' = Nil

\* The theme is the key of the page: a toggle mounts the form anew.
Leave ==
    /\ \/ ToggleTheme
       \/ GoTo("login", "register")
       \/ GoTo("register", "login")
       \/ LogoutDashboard
       \/ LogoutBanned
    /\ ClearForm
    /\ UNCHANGED <<wireVars, accounts, accountHistory>>

\* The browser submits no form whose required inputs are empty.
Filled == fields.password # Nil /\ (page = "register" => fields.confirm # Nil)

Mismatch == fields.password # fields.confirm

\* MUTANT of Accepted: the terms are tested, the passwords are not compared.
AcceptedUnconfirmed == page = "register" => fields.agree

Accepted == page = "register" => ~Mismatch /\ fields.agree

Reject ==
    /\ Filled /\ ~Accepted
    /\ RejectInput
    /\ message' = IF Mismatch THEN "mismatch" ELSE "terms"
    /\ UNCHANGED <<fields, wireVars, accounts, accountHistory>>

SubmitForm(r, name) ==
    /\ Filled /\ Accepted
    /\ Submit(r, name)
    /\ body' = [body EXCEPT ![r] = fields.password]
    /\ message' = Nil
    /\ confirmed' = IF page = "register" /\ ~Mismatch
                    THEN confirmed \cup {<<name, fields.password>>}
                    ELSE confirmed
    /\ UNCHANGED <<fields, served, abandoned, accounts, told>>

-----------------------------------------------------------------------------
(* The submission and the server.                                          *)

\* MUTANT of SendForm: the body is read from the inputs when the request leaves.
SendCurrentFields(r) ==
    /\ Send(r)
    /\ body' = [body EXCEPT ![r] = fields.password]
    /\ UNCHANGED <<formVars, served, abandoned, accounts, accountHistory>>

\* The collector is done, and fetch is called with the values of the click.
SendForm(r) ==
    /\ Send(r)
    /\ UNCHANGED <<formVars, wireVars, accounts, accountHistory>>

\* MUTANT of CreateUser: INSERT ... ON CONFLICT DO UPDATE.
CreateUserUpserts(n, p) == accounts' = [accounts EXCEPT ![n] = p]

\* INSERT INTO users, which the primary key refuses for a name that is taken.
CreateUser(n, p) == accounts[n] = Nil /\ accounts' = [accounts EXCEPT ![n] = p]

Unserved(r) == stage[r] = "sent" /\ served[r] = Nil

Reply(r, outcome) ==
    /\ served' = [served EXCEPT ![r] = outcome]
    /\ UNCHANGED <<vars, formVars, body, abandoned, accountHistory>>

\* 201, or 500 although the account was created.
ServeRegistration(r) ==
    /\ Unserved(r) /\ request[r].page = "register"
    /\ CreateUser(request[r].user, body[r])
    /\ Reply(r, "registered") \/ Reply(r, "error")

\* 200: the password is the account's.
ServeLogin(r) ==
    /\ Unserved(r) /\ request[r].page = "login"
    /\ accounts[request[r].user] = body[r]
    /\ Reply(r, "evaluated")
    /\ UNCHANGED accounts

\* 403 with a ban: an incomplete fingerprint, or the verdict on a login with the
\* right password, under the theme that enforces.
ServeBan(r) ==
    /\ Unserved(r) /\ request[r].theme = "Emerald"
    /\ Reply(r, "ban")
    /\ UNCHANGED accounts

\* 400, 401, 409 and 500 with an error, 403 and 405 of the guard in plain text.
ServeRefusal(r) ==
    /\ Unserved(r)
    /\ Reply(r, "error") \/ Reply(r, "text")
    /\ UNCHANGED accounts

\* A registration that nobody waits for any more is served nevertheless.
ServeAbandoned(n, p) ==
    /\ <<n, p>> \in abandoned
    /\ abandoned' = abandoned \ {<<n, p>>}
    /\ CreateUser(n, p) \/ UNCHANGED accounts
    /\ UNCHANGED <<vars, formVars, body, served, accountHistory>>

-----------------------------------------------------------------------------
(* The answer, in the turn after the awaits of fetch and of json.          *)

Settle(r) ==
    /\ body' = [body EXCEPT ![r] = Nil]
    /\ served' = [served EXCEPT ![r] = Nil]
    /\ UNCHANGED <<accounts, confirmed>>

\* The page that is opened: a form that is on the screen already keeps its
\* state, another one is mounted new.
KeepForm == IF page' = page THEN UNCHANGED formVars ELSE ClearForm

\* MUTANT of ShowError: the catch clause only stops the spinner.
ShowErrorOfServer(r, kind) ==
    /\ message' = IF r \in mounted /\ kind = "server" THEN kind ELSE message
    /\ UNCHANGED fields

\* setError reaches the form that submitted, if it is still mounted.
ShowError(r, kind) ==
    /\ message' = IF r \in mounted THEN kind ELSE message
    /\ UNCHANGED fields

\* data.error of an answer that is not ok.
ReceiveError(r) ==
    /\ served[r] = "error"
    /\ Fail(r)
    /\ ShowError(r, "server")
    /\ Settle(r)
    /\ UNCHANGED <<abandoned, told>>

\* MUTANT of Unanswered: read after the submission was cleared.
UnansweredCleared(r) ==
    IF Unserved(r) /\ request[r].page = "register"
    THEN {<<request[r].user, body'[r]>>}
    ELSE {}

\* The registration that may still reach the server.
Unanswered(r) ==
    IF Unserved(r) /\ request[r].page = "register"
    THEN {<<request[r].user, body[r]>>}
    ELSE {}

\* catch: the fingerprint could not be computed, the answer is not JSON, or it
\* is lost on its way.
GiveUp(r) ==
    /\ Fail(r)
    /\ ShowError(r, "unreachable")
    /\ Settle(r)
    /\ abandoned' = abandoned \cup Unanswered(r)
    /\ UNCHANGED told

\* MUTANT of Created: a name that is taken (409) counts as registered.
CreatedOrTaken(r) == served[r] \in {"registered", "error"}

Created(r) == served[r] = "registered"

ReceiveRegistered(r) ==
    /\ Created(r)
    /\ Registered(r)
    /\ KeepForm
    /\ told' = told \cup {<<request[r].user, body[r]>>}
    /\ Settle(r)
    /\ UNCHANGED abandoned

ReceiveEvaluation(r) ==
    /\ served[r] = "evaluated"
    /\ LoggedIn(r)
    /\ KeepForm
    /\ Settle(r)
    /\ UNCHANGED <<abandoned, told>>

ReceiveBan(r) ==
    /\ served[r] = "ban"
    /\ Banned(r)
    /\ KeepForm
    /\ Settle(r)
    /\ UNCHANGED <<abandoned, told>>

-----------------------------------------------------------------------------
SubmissionStep(r) ==
    \/ SendForm(r)
    \/ ServeRegistration(r) \/ ServeLogin(r) \/ ServeBan(r) \/ ServeRefusal(r)
    \/ ReceiveError(r) \/ GiveUp(r)
    \/ ReceiveRegistered(r) \/ ReceiveEvaluation(r) \/ ReceiveBan(r)

FormNext ==
    \/ \E p \in Passwords : LoginPassword(p) \/ RegisterPassword(p) \/ ConfirmPassword(p)
    \/ Agree
    \/ Leave
    \/ Reject
    \/ \E r \in Submissions, name \in Names : SubmitForm(r, name)
    \/ \E r \in Submissions : SubmissionStep(r)
    \/ \E n \in Names, p \in Passwords : ServeAbandoned(n, p)

FormSpec == FormInit /\ [][FormNext]_allVars

-----------------------------------------------------------------------------
Credentials == Names \X Passwords

(* The type invariant of what is added to ClientPages, whose form has an   *)
(* error exactly when a kind of error is shown.                            *)
FormTypeOK ==
    /\ TypeOK
    /\ fields \in [password : Passwords \cup {Nil}, confirm : Passwords \cup {Nil},
                   agree : BOOLEAN]
    /\ message \in Kinds \cup {Nil}
    /\ form.error <=> message # Nil
    /\ body \in [Submissions -> Passwords \cup {Nil}]
    /\ served \in [Submissions -> Outcomes \cup {Nil}]
    /\ abandoned \subseteq Credentials
    /\ accounts \in [Names -> Passwords \cup {Nil}]
    /\ confirmed \subseteq Credentials /\ told \subseteq Credentials

(* No account has a password that its user did not type twice: not when    *)
(* the inputs are edited while the fingerprint is being collected, and not *)
(* when a registration is served after its form gave up (RegisterPage.tsx  *)
(* lines 36-56).                                                           *)
RegisteredAsConfirmed ==
    \A n \in Names : accounts[n] # Nil => <<n, accounts[n]>> \in confirmed

(* Who was told that the account is created has it, with the password of   *)
(* that form, for ever: no earlier attempt whose answer was lost and no    *)
(* later one replaces it (RegisterPage.tsx lines 63-81 with CreateUser).   *)
AcknowledgedKeepsPassword == \A c \in told : accounts[c[1]] = c[2]

(* A form does not stop loading without a word: either it leaves the       *)
(* screen, or its answer was that the account is created, or it shows an   *)
(* error (LoginPage.tsx lines 49-67, RegisterPage.tsx lines 63-81).        *)
NoSilentFailure ==
    [][form.loading /\ ~form'.loading /\ page' = page /\ theme' = theme
          => message' # Nil]_allVars
=============================================================================
