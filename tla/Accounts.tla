------------------------------- MODULE Accounts -------------------------------
(***************************************************************************)
(* Registration, login and the session of a browser (routes/auth.py,       *)
(* services/auth.py; auth-provider.tsx, lib/api.ts and the login and       *)
(* register pages of the frontend).                                        *)
(*                                                                         *)
(* The server keeps accounts and no sessions: a token is valid until it    *)
(* expires, for an account that is stored and active when a request        *)
(* arrives. The browser keeps the token in its local storage and the user  *)
(* it shows in memory, and writes both when answers arrive, in whatever    *)
(* order they do.                                                          *)
(*                                                                         *)
(* With the FastAPI release that uv.lock pins, a dependency with yield is  *)
(* left after the answer was sent: get_db commits a registration that the  *)
(* client has already been told of.                                        *)
(***************************************************************************)
EXTENDS Naturals

CONSTANTS
    Signups,      \* registration requests; the account one makes has its name
    Emails,
    EmailOf,      \* the address of a registration, in lower case
    TokenLife,    \* jwt_access_token_expire_minutes
    MaxTime,      \* bound: the clock stops here
    NoOne,
    NoToken

ASSUME EmailAssumption == EmailOf \in [Signups -> Emails]
ASSUME TimeAssumption == TokenLife \in Nat /\ MaxTime \in Nat
ASSUME NoneAssumption == NoOne \notin Signups /\ NoToken \notin [sub : Signups, exp : Nat]

VARIABLES
    now,
    signup,       \* signup[s]: how far the registration is, see SignupStages
    inactive,     \* the accounts an operator has deactivated
    token,        \* localStorage "access_token"
    shown,        \* the user the AuthProvider holds
    page,         \* "auth": the login or the register page; "app": any other
    form,         \* the form submitted on the auth page
    check,        \* the request to /auth/me made when a page is loaded
    api,          \* any other request of the page
    late          \* history: shown is from an answer to another token than token

server  == <<now, signup, inactive>>
browser == <<token, shown, page, form, check, api, late>>
vars    == <<server, browser>>

Tokens       == [sub : Signups, exp : 0..(MaxTime + TokenLife)]
SignupStages == {"idle", "sent", "checked", "flushed", "told",
                 "stored", "lost", "conflict", "error"}
CallStages   == {"none", "sent", "accepted", "refused"}

NoForm == [stage |-> "none", who |-> NoOne, token |-> NoToken]
NoCall == [stage |-> "none", token |-> NoToken]

\* The rows of the users table that are committed.
Accounts == {s \in Signups : signup[s] = "stored"}

\* Registrations for the address of s, other than s.
Rivals(s) == {t \in Signups \ {s} : EmailOf[t] = EmailOf[s]}

TypeOK ==
    /\ now \in 0..MaxTime
    /\ signup \in [Signups -> SignupStages]
    /\ inactive \subseteq Signups
    /\ token \in Tokens \cup {NoToken}
    /\ shown \in Signups \cup {NoOne}
    /\ page \in {"auth", "app"}
    /\ form \in [stage : {"none", "register", "login", "ok"},
                 who : Signups \cup {NoOne}, token : Tokens \cup {NoToken}]
    /\ check \in [stage : CallStages, token : Tokens \cup {NoToken}]
    /\ api \in [stage : CallStages, token : Tokens \cup {NoToken}]
    /\ late \in BOOLEAN

Init ==
    /\ now = 0
    /\ signup = [s \in Signups |-> "idle"]
    /\ inactive = {}
    /\ token = NoToken
    /\ shown = NoOne
    /\ page = "auth"
    /\ form = NoForm
    /\ check = NoCall
    /\ api = NoCall
    /\ late = FALSE

-----------------------------------------------------------------------------
(***************************************************************************)
(* register: SELECT, INSERT, answer, COMMIT                                *)
(***************************************************************************)
Advance(s, from, to) ==
    /\ signup[s] = from
    /\ signup' = [signup EXCEPT ![s] = to]
    /\ UNCHANGED <<now, inactive, browser>>

\* Another client registers.
RegisterElsewhere(s) == Advance(s, "idle", "sent")

\* 409 if the address is taken.
CheckEmail(s) ==
    \/ Rivals(s) \cap Accounts = {} /\ Advance(s, "sent", "checked")
    \/ Rivals(s) \cap Accounts # {} /\ Advance(s, "sent", "conflict")

\* Mutant of InsertUser: the index on the address is not unique.
InsertUserAnyway(s) == Advance(s, "checked", "flushed")

\* The unique index makes the INSERT wait for one that is not committed yet;
\* IntegrityError is no AurenixException and is answered with 500.
InsertUser(s) ==
    /\ \A t \in Rivals(s) : signup[t] \notin {"flushed", "told"}
    /\ \/ Rivals(s) \cap Accounts = {} /\ Advance(s, "checked", "flushed")
       \/ Rivals(s) \cap Accounts # {} /\ Advance(s, "checked", "error")

AnswerSignup(s) == Advance(s, "flushed", "told")
CommitUser(s)   == Advance(s, "told", "stored")

\* A statement fails or the server stops, before the answer or after it.
SignupFails(s) ==
    \/ Advance(s, "sent", "error")
    \/ Advance(s, "checked", "error")
    \/ Advance(s, "flushed", "error")
    \/ Advance(s, "told", "lost")

-----------------------------------------------------------------------------
(***************************************************************************)
(* The tokens                                                              *)
(***************************************************************************)
\* create_access_token
TokenFor(s) == [sub |-> s, exp |-> now + TokenLife]

\* decode_access_token and get_current_user. The library refuses a token only
\* after the second in which it expires.
Valid(t) ==
    /\ t # NoToken
    /\ now <= t.exp
    /\ t.sub \in Accounts \ inactive

Tick ==
    /\ now < MaxTime
    /\ now' = now + 1
    /\ UNCHANGED <<signup, inactive, browser>>

\* No route does this; the routes expect that it was done.
Deactivate(s) ==
    /\ s \in Accounts \ inactive
    /\ inactive' = inactive \cup {s}
    /\ UNCHANGED <<now, signup, browser>>

\* login, with the password of the registration s: a row with this address and
\* another password is refused like an unknown address. A refusal shows a message
\* and, on the auth page, leaves the local storage alone; so does an answer that
\* does not come.
ServeLogin ==
    /\ form.stage = "login"
    /\ form' = IF form.who \in Accounts \ inactive
                 THEN [form EXCEPT !.stage = "ok", !.token = TokenFor(form.who)]
                 ELSE NoForm
    /\ UNCHANGED <<server, token, shown, page, check, api, late>>

ServeCheck ==
    /\ check.stage = "sent"
    /\ check' = [check EXCEPT !.stage = IF Valid(check.token) THEN "accepted" ELSE "refused"]
    /\ UNCHANGED <<server, token, shown, page, form, api, late>>

\* An answer other than 401 changes nothing here.
ServeApi ==
    /\ api.stage = "sent"
    /\ api' = IF Valid(api.token) THEN NoCall ELSE [api EXCEPT !.stage = "refused"]
    /\ UNCHANGED <<server, token, shown, page, form, check, late>>

\* Mutant of RequestFails: any failure counts as a refusal.
RequestFailsAsRefused ==
    /\ api.stage = "sent"
    /\ api' = [api EXCEPT !.stage = "refused"]
    /\ UNCHANGED <<server, token, shown, page, form, check, late>>

\* The network fails, or the answer is an error other than 401.
RequestFails ==
    \/ /\ api.stage = "sent"
       /\ api' = NoCall
       /\ UNCHANGED <<server, token, shown, page, form, check, late>>
    \/ /\ form.stage = "login"
       /\ form' = NoForm
       /\ UNCHANGED <<server, token, shown, page, check, api, late>>

-----------------------------------------------------------------------------
(***************************************************************************)
(* The browser                                                             *)
(***************************************************************************)
\* A page is loaded with t in the local storage: what the last one held in
\* memory or waited for is gone, and checkAuth runs. Without a token it ends at
\* once.
LoadPage(p, t) ==
    /\ page' = p
    /\ token' = t
    /\ shown' = NoOne
    /\ form' = NoForm
    /\ check' = IF t = NoToken THEN NoCall ELSE [stage |-> "sent", token |-> t]
    /\ api' = NoCall
    /\ late' = FALSE
    /\ UNCHANGED server

OpenPage(p) == LoadPage(p, token)

\* The register page; the form is disabled until the answer is there.
RegisterHere(s) ==
    /\ page = "auth" /\ form.stage = "none"
    /\ signup[s] = "idle"
    /\ signup' = [signup EXCEPT ![s] = "sent"]
    /\ form' = [NoForm EXCEPT !.stage = "register", !.who = s]
    /\ UNCHANGED <<now, inactive, token, shown, page, check, api, late>>

\* "Automatically log in after registration": at once, whether the account has
\* been committed or not.
AfterSignup ==
    /\ form.stage = "register"
    /\ \/ /\ signup[form.who] \in {"told", "stored", "lost"}
          /\ form' = [form EXCEPT !.stage = "login"]
       \/ /\ signup[form.who] \in {"conflict", "error"}
          /\ form' = NoForm
    /\ UNCHANGED <<server, token, shown, page, check, api, late>>

Login(s) ==
    /\ page = "auth" /\ form.stage = "none"
    /\ form' = [NoForm EXCEPT !.stage = "login", !.who = s]
    /\ UNCHANGED <<server, token, shown, page, check, api, late>>

\* login() of the AuthProvider.
AfterLogin ==
    /\ form.stage = "ok"
    /\ token' = form.token
    /\ shown' = form.who
    /\ page' = "app"
    /\ late' = FALSE
    /\ form' = NoForm
    /\ UNCHANGED <<server, check, api>>

\* Mutant of Logout: the user stays in memory.
LogoutKeepsUser ==
    /\ page = "app" /\ shown # NoOne
    /\ token' = NoToken
    /\ page' = "auth"
    /\ UNCHANGED <<server, shown, form, check, api, late>>

Logout ==
    /\ page = "app" /\ shown # NoOne
    /\ token' = NoToken
    /\ shown' = NoOne
    /\ page' = "auth"
    /\ late' = FALSE
    /\ UNCHANGED <<server, form, check, api>>

\* checkAuth: any error, an answer that does not come too, removes whatever token
\* is stored by now; a 401 outside the auth page loads the login page as well.
AfterCheck ==
    \/ /\ check.stage = "accepted"
       /\ shown' = check.token.sub
       /\ late' = (check.token # token)
       /\ check' = NoCall
       /\ UNCHANGED <<server, token, page, form, api>>
    \/ /\ check.stage = "refused" /\ page = "app"
       /\ LoadPage("auth", NoToken)
    \/ /\ check.stage = "sent" \/ (check.stage = "refused" /\ page = "auth")
       /\ token' = NoToken /\ shown' = NoOne /\ late' = FALSE
       /\ check' = NoCall
       /\ UNCHANGED <<server, page, form, api>>

\* fetchWithAuth reads the token when it is called.
CallApi ==
    /\ api.stage = "none"
    /\ api' = [stage |-> "sent", token |-> token]
    /\ UNCHANGED <<server, token, shown, page, form, check, late>>

AfterCall ==
    /\ api.stage = "refused"
    /\ IF page = "app" THEN LoadPage("auth", NoToken)
       ELSE api' = NoCall /\ UNCHANGED <<server, token, shown, page, form, check, late>>

Register(s) == CheckEmail(s) \/ InsertUser(s) \/ AnswerSignup(s) \/ CommitUser(s) \/ SignupFails(s)

Next ==
    \/ \E s \in Signups : Register(s) \/ RegisterElsewhere(s) \/ RegisterHere(s)
                          \/ Login(s) \/ Deactivate(s)
    \/ Tick \/ ServeLogin \/ ServeCheck \/ ServeApi \/ RequestFails
    \/ \E p \in {"auth", "app"} : OpenPage(p)
    \/ AfterSignup \/ AfterLogin \/ Logout \/ AfterCheck \/ CallApi \/ AfterCall

Spec == Init /\ [][Next]_vars

-----------------------------------------------------------------------------
(***************************************************************************)
(* Safety                                                                  *)
(***************************************************************************)
\* However registrations for one address overlap, one of them at most inserts
\* its row while another may still commit, so one at most is answered with 201
\* at a time and one account exists in the end (register: the SELECT alone, which
\* both may pass, does not ensure that).
OneAccountPerAddress ==
    \A s, t \in Signups :
        /\ s # t /\ EmailOf[s] = EmailOf[t]
        /\ signup[s] \in {"flushed", "told", "stored"}
        => signup[t] \notin {"flushed", "told", "stored"}

\* The user whose name the page shows is the one its requests are made for. Only
\* the answer to the check of an earlier token, which arrives after a login or a
\* logout, makes the page show somebody else (auth-provider.tsx, checkAuth).
OnlyLateAnswersMisidentify ==
    shown # NoOne => late \/ (token # NoToken /\ token.sub = shown)

\* A token that the server would still accept is removed only by the user, by a
\* check that got no answer, or by the refusal of an earlier token that arrives
\* late (checkAuth, fetchWithAuth, logout).
SignedOutForACause ==
    [][token' = NoToken /\ Valid(token) =>
         \/ Logout
         \/ check.stage = "sent"
         \/ check.stage = "refused" /\ check.token # token
         \/ api.stage = "refused" /\ api.token # token]_vars
=============================================================================
