------------------------------ MODULE Enrolment ------------------------------
(***************************************************************************)
(* What registration promises about an account, without requests, queries  *)
(* or failures: an account is created once, with one password, by one      *)
(* registration; the fingerprint of that registration is the only one ever *)
(* enrolled, at most once; and an account whose registration went away     *)
(* stays without a fingerprint.  AuthService implements this module.       *)
(*                                                                         *)
(* The accounts are the two tables of migrations/001_init.sql, the         *)
(* operations those of Register in internal/handler/handler.go.            *)
(***************************************************************************)
EXTENDS Sequences

CONSTANTS Users, Passwords, Fingerprints, Nil

VARIABLES
    status,      \* "none", "pending", "enrolled" or "bare"
    password,    \* the password of each account, Nil when there is none
    promised,    \* the fingerprint each account was registered with
    baseline     \* the fingerprints enrolled for each account

vars == <<status, password, promised, baseline>>

Init ==
    /\ status = [u \in Users |-> "none"]
    /\ password = [u \in Users |-> Nil]
    /\ promised = [u \in Users |-> Nil]
    /\ baseline = [u \in Users |-> << >>]

\* The registration goes on to enrol, or it was told that it failed.
Create(u, pwd, fp) ==
    /\ status[u] = "none"
    /\ \E s \in {"pending", "bare"} : status' = [status EXCEPT ![u] = s]
    /\ password' = [password EXCEPT ![u] = pwd]
    /\ promised' = [promised EXCEPT ![u] = fp]
    /\ UNCHANGED baseline

Enrol(u) ==
    /\ status[u] = "pending"
    /\ status' = [status EXCEPT ![u] = "enrolled"]
    /\ baseline' = [baseline EXCEPT ![u] = <<promised[u]>>]
    /\ UNCHANGED <<password, promised>>

\* The registrations of these accounts end without enrolling: one alone by
\* an error of the store, all that are under way by a crash.
Abandon(accounts) ==
    /\ accounts # {}
    /\ \A u \in accounts : status[u] = "pending"
    /\ status' = [u \in Users |-> IF u \in accounts THEN "bare" ELSE status[u]]
    /\ UNCHANGED <<password, promised, baseline>>

Next ==
    \/ \E u \in Users, pwd \in Passwords, fp \in Fingerprints : Create(u, pwd, fp)
    \/ \E u \in Users : Enrol(u)
    \/ \E accounts \in SUBSET Users : Abandon(accounts)

Spec == Init /\ [][Next]_vars
=============================================================================
