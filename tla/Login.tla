-------------------------------- MODULE Login --------------------------------
(***************************************************************************)
(* Logging in and changing a password: handleLogin, the login rate limiter *)
(* and handlePutPassword of internal/api, for one account and one client   *)
(* address.  Requests are concurrent: the limiter is asked, the account    *)
(* read and the failure recorded in steps of their own, and bcrypt makes   *)
(* the time between them long.                                             *)
(***************************************************************************)
EXTENDS Naturals, FiniteSets

CONSTANTS Logins, Changes, Passwords, First, None,
          MaxFailures,   \* loginRateLimitMaxFailures, 5
          Window,        \* loginRateLimitWindow in ticks
          AuditFails     \* the audit log may be unavailable

VARIABLES password,  \* users.password_hash
          failures,  \* the limiter's window for the address: count, age; count 0 is no window
          log,       \* logins with a success event in the audit log
          login,     \* the login requests
          change     \* the password changes

vars == <<password, failures, log, login, change>>

NewLogin == [at |-> "new", typed |-> None, answer |-> 0]
NewChange == [at |-> "new", typed |-> None, wanted |-> None, answer |-> 0]
NoWindow == [count |-> 0, age |-> 0]

Init ==
    /\ password = First /\ failures = NoWindow /\ log = {}
    /\ login = [r \in Logins |-> NewLogin] /\ change = [r \in Changes |-> NewChange]

---------------------------------------------------------------------------
(* The limiter *)

Over == failures.age > Window

\* Variant: the limit is not looked at.
Allowed_any == TRUE

Allowed == failures.count = 0 \/ Over \/ failures.count < MaxFailures

AfterAllow == IF Over THEN NoWindow ELSE failures

\* Variant: every failure starts a window, and the count goes on.
recordFailure_sliding == [count |-> failures.count + 1, age |-> 0]

recordFailure ==
    IF failures.count = 0 \/ Over THEN [count |-> 1, age |-> 0] ELSE [failures EXCEPT !.count = @ + 1]

---------------------------------------------------------------------------
(* handleLogin *)

Login(r, from, new) == login[r].at = from /\ login' = [login EXCEPT ![r] = new]

Answer(r, a) == [login[r] EXCEPT !.at = "over", !.answer = a]

\* A request arrives and asks the limiter.
allow(r, p) ==
    /\ Login(r, "new", IF Allowed THEN [login[r] EXCEPT !.at = "check", !.typed = p]
                       ELSE [NewLogin EXCEPT !.at = "over", !.answer = 429])
    /\ failures' = AfterAllow /\ UNCHANGED <<password, log, change>>

\* GetUserByEmail and the comparison.
CheckPassword(r) ==
    /\ Login(r, "check", [login[r] EXCEPT !.at = IF login[r].typed = password THEN "good" ELSE "bad"])
    /\ UNCHANGED <<password, failures, log, change>>

\* The failure event, and the failure counts; without the event it does not.
Refuse(r) ==
    \/ /\ Login(r, "bad", Answer(r, 401)) /\ failures' = recordFailure
       /\ UNCHANGED <<password, log, change>>
    \/ /\ AuditFails /\ Login(r, "bad", Answer(r, 503)) /\ UNCHANGED <<password, failures, log, change>>

Reset(r) ==
    /\ Login(r, "good", [login[r] EXCEPT !.at = "audit"]) /\ failures' = NoWindow
    /\ UNCHANGED <<password, log, change>>

\* Variant: the token is handed out whatever becomes of the event.
AnswerWithoutEvent_token(r) == Answer(r, 200)

AnswerWithoutEvent(r) == Answer(r, 503)

\* The token is minted; it is handed out once the success event is written.
GenerateToken(r) ==
    \/ Login(r, "audit", Answer(r, 200)) /\ log' = log \cup {r} /\ UNCHANGED <<password, failures, change>>
    \/ AuditFails /\ Login(r, "audit", AnswerWithoutEvent(r)) /\ UNCHANGED <<password, failures, log, change>>

\* The client goes on with another request.
Again(r) ==
    /\ login[r].at = "over" /\ login' = [login EXCEPT ![r] = NewLogin] /\ log' = log \ {r}
    /\ UNCHANGED <<password, failures, change>>

---------------------------------------------------------------------------
(* handlePutPassword *)

Change(r, from, new) == change[r].at = from /\ change' = [change EXCEPT ![r] = new]

BeginChange(r, p, n) ==
    /\ p # n /\ Change(r, "new", [change[r] EXCEPT !.at = "check", !.typed = p, !.wanted = n])
    /\ UNCHANGED <<password, failures, log, login>>

CheckCurrent(r) ==
    /\ Change(r, "check", IF change[r].typed = password THEN [change[r] EXCEPT !.at = "update"]
                          ELSE [change[r] EXCEPT !.at = "over", !.answer = 401])
    /\ UNCHANGED <<password, failures, log, login>>

\* UpdateUser; the audit event comes after it.
UpdateUser(r) ==
    /\ \E a \in IF AuditFails THEN {204, 503} ELSE {204} : Change(r, "update", [change[r] EXCEPT !.at = "over", !.answer = a])
    /\ password' = change[r].wanted /\ UNCHANGED <<failures, log, login>>

\* The clock.
Tick ==
    /\ failures.count > 0 /\ ~ (failures.age > Window) /\ failures' = [failures EXCEPT !.age = @ + 1]
    /\ UNCHANGED <<password, log, login, change>>

LoginStep(r) == CheckPassword(r) \/ Refuse(r) \/ Reset(r) \/ GenerateToken(r)

Next ==
    \/ Tick
    \/ \E r \in Logins : LoginStep(r) \/ Again(r) \/ \E p \in Passwords : allow(r, p)
    \/ \E r \in Changes : \/ CheckCurrent(r) \/ UpdateUser(r)
                          \/ \E p, n \in Passwords : BeginChange(r, p, n)

Spec == Init /\ [][Next]_vars
---------------------------------------------------------------------------

\* The limiter is asked before bcrypt and told after it, so requests that are
\* under way together overshoot the limit, but by no more than their number.
FailuresAreBounded == failures.count <= MaxFailures - 1 + Cardinality(Logins)

\* A token is only handed out with its event in the audit log.
TokensAreAudited == \A r \in Logins : login[r].answer = 200 => r \in log

\* A lockout begins within one window of its first failure and ends with it:
\* recording failures never moves the end of a window that is running.
WindowIsFixed ==
    [][failures.count > 0 /\ failures'.count > failures.count => failures'.age >= failures.age]_vars
=============================================================================
