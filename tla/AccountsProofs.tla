---------------------------- MODULE AccountsProofs ----------------------------
(***************************************************************************)
(* Theorems about Accounts, for any number of registrations, any lifetime  *)
(* of the tokens and any clock.                                            *)
(***************************************************************************)
EXTENDS Accounts, TLAPS

-----------------------------------------------------------------------------
(***************************************************************************)
(* The inductive invariant                                                 *)
(***************************************************************************)
\* The form of a running registration or login names one, and a token that was
\* issued is for the account that logged in.
FormIsNamed ==
    /\ form.stage # "none" => form.who \in Signups
    /\ form.stage = "ok" => form.token # NoToken /\ form.token.sub = form.who

\* The check of a page is made only when there is a token.
CheckHasToken == check.stage # "none" => check.token # NoToken

\* Tokens are issued for accounts that are stored.
Issued(t) == t # NoToken => t.sub \in Accounts
TokensAreIssued ==
    Issued(token) /\ Issued(form.token) /\ Issued(check.token) /\ Issued(api.token)

\* What the server refused it would refuse again.
RefusedForGood ==
    /\ check.stage = "refused" => ~Valid(check.token)
    /\ api.stage = "refused" => ~Valid(api.token)

AccountInv ==
    /\ TypeOK
    /\ OneAccountPerAddress
    /\ FormIsNamed
    /\ CheckHasToken
    /\ TokensAreIssued
    /\ OnlyLateAnswersMisidentify
    /\ RefusedForGood

-----------------------------------------------------------------------------
(***************************************************************************)
(* Groups of steps                                                         *)
(***************************************************************************)
\* What happens to a registration on the server.
LEMMA AccountStepAdvances ==
  ASSUME NEW s \in Signups, Register(s) \/ RegisterElsewhere(s)
  PROVE  \E from, to \in SignupStages : /\ Advance(s, from, to) /\ from # "stored"
                                        /\ to = "stored" => from = "told"
                                        /\ to = "told" => from = "flushed"
                                        /\ to = "flushed" => InsertUser(s) /\ from = "checked"
  BY DEF Register, RegisterElsewhere, CheckEmail, InsertUser, AnswerSignup, CommitUser,
         SignupFails, SignupStages

\* A stored account stays, and so does its deactivation and the time.
LEMMA ServerGrows ==
  ASSUME TypeOK, [Next]_vars
  PROVE  /\ Accounts \subseteq Accounts' /\ inactive \subseteq inactive'
         /\ now <= now' /\ now \in Nat /\ now' \in Nat
<1> USE DEF TypeOK
<1>1. CASE UNCHANGED vars
  BY <1>1 DEF vars, server, Accounts
<1>2. ASSUME NEW s \in Signups, Register(s) \/ RegisterElsewhere(s)
      PROVE  Accounts \subseteq Accounts' /\ UNCHANGED <<inactive, now>>
  BY <1>2, AccountStepAdvances DEF Advance, Accounts
<1>3. ASSUME NEW s \in Signups, RegisterHere(s)
      PROVE  Accounts \subseteq Accounts' /\ UNCHANGED <<inactive, now>>
  BY <1>3 DEF RegisterHere, Accounts
<1>4. ASSUME NEW s \in Signups, Deactivate(s)
      PROVE  Accounts \subseteq Accounts' /\ inactive \subseteq inactive' /\ now' = now
  BY <1>4 DEF Deactivate, Accounts
<1>5. CASE Tick
  BY <1>5, TimeAssumption DEF Tick, Accounts
<1>6. CASE UNCHANGED server
  BY <1>6 DEF server, Accounts
<1>7. ASSUME NEW s \in Signups, Login(s) PROVE UNCHANGED server
  BY <1>7 DEF Login
<1>8. ASSUME ServeLogin \/ ServeCheck \/ ServeApi \/ RequestFails PROVE UNCHANGED server
  BY <1>8 DEF ServeLogin, ServeCheck, ServeApi, RequestFails
<1>9. ASSUME NEW p \in {"auth", "app"}, OpenPage(p) PROVE UNCHANGED server
  BY <1>9 DEF OpenPage, LoadPage
<1>10. ASSUME AfterSignup \/ AfterLogin \/ Logout \/ AfterCheck \/ CallApi \/ AfterCall
       PROVE  UNCHANGED server
  BY <1>10 DEF AfterSignup, AfterLogin, Logout, AfterCheck, CallApi, AfterCall, LoadPage
<1>11. QED
  BY <1>1, <1>2, <1>3, <1>4, <1>5, <1>6, <1>7, <1>8, <1>9, <1>10 DEF Next

\* A token that is refused now is refused later.
LEMMA StaysInvalid ==
  ASSUME TypeOK, [Next]_vars, NEW t \in Tokens \cup {NoToken}, Issued(t)
  PROVE  ~Valid(t) => ~(t # NoToken /\ now' <= t.exp /\ t.sub \in Accounts' \ inactive')
<1>1. t # NoToken => t.exp \in Nat
  BY TimeAssumption DEF Tokens
<1>2. QED
  BY <1>1, ServerGrows DEF Issued, Valid

-----------------------------------------------------------------------------
(***************************************************************************)
(* Type correctness                                                        *)
(***************************************************************************)
LEMMA TokenTypes ==
  ASSUME TypeOK, NEW s \in Signups
  PROVE  TokenFor(s) \in Tokens /\ NoToken \notin Tokens
<1>1. now + TokenLife \in 0..(MaxTime + TokenLife)
  BY TimeAssumption DEF TypeOK
<1>2. Tokens \subseteq [sub : Signups, exp : Nat]
  BY TimeAssumption DEF Tokens
<1>3. QED
  BY <1>1, <1>2, NoneAssumption DEF TokenFor, Tokens

\* The type of the form.
FormTypes ==
    form \in [stage : {"none", "register", "login", "ok"},
              who : Signups \cup {NoOne}, token : Tokens \cup {NoToken}]

LEMMA TypeStep == TypeOK /\ FormIsNamed /\ CheckHasToken /\ [Next]_vars => TypeOK'
<1> SUFFICES ASSUME TypeOK, FormIsNamed, CheckHasToken, [Next]_vars PROVE TypeOK'
  OBVIOUS
<1>1. CASE UNCHANGED vars
  BY <1>1 DEF vars, server, browser, TypeOK
<1>2. ASSUME NEW s \in Signups, Register(s) \/ RegisterElsewhere(s) PROVE TypeOK'
  BY <1>2, AccountStepAdvances DEF Advance, browser, TypeOK
<1>3. ASSUME NEW s \in Signups, RegisterHere(s) \/ Login(s) \/ Deactivate(s) PROVE TypeOK'
  BY <1>3 DEF RegisterHere, Login, Deactivate, NoForm, SignupStages, browser, server, TypeOK
<1>4. CASE Tick
  BY <1>4, TimeAssumption DEF Tick, browser, TypeOK
<1>5. CASE ServeLogin
  <2>1. form.who \in Signups
    BY <1>5 DEF ServeLogin, FormIsNamed
  <2>2. form' \in [stage : {"none", "register", "login", "ok"},
                   who : Signups \cup {NoOne}, token : Tokens \cup {NoToken}]
    BY <1>5, <2>1, TokenTypes DEF ServeLogin, NoForm, TypeOK
  <2>3. QED
    BY <1>5, <2>2 DEF ServeLogin, server, TypeOK
<1>6. CASE ServeCheck \/ ServeApi \/ RequestFails
  BY <1>6 DEF ServeCheck, ServeApi, RequestFails, CallStages, NoCall, NoForm, server, TypeOK
<1>7. ASSUME NEW p \in {"auth", "app"}, NEW t \in Tokens \cup {NoToken}, LoadPage(p, t)
      PROVE  TypeOK'
  <2>1. check' \in [stage : CallStages, token : Tokens \cup {NoToken}]
    BY <1>7 DEF LoadPage, NoCall, CallStages
  <2>2. QED
    BY <1>7, <2>1 DEF LoadPage, NoForm, NoCall, CallStages, server, TypeOK
<1>8. ASSUME NEW p \in {"auth", "app"}, OpenPage(p) PROVE TypeOK'
  <2>1. token \in Tokens \cup {NoToken}
    BY DEF TypeOK
  <2>2. QED
    BY <1>7, <1>8, <2>1 DEF OpenPage
<1>9. CASE AfterSignup \/ AfterLogin
  <2>1. FormTypes
    BY DEF TypeOK, FormTypes
  <2>2. [form EXCEPT !.stage = "login"]
          \in [stage : {"none", "register", "login", "ok"},
               who : Signups \cup {NoOne}, token : Tokens \cup {NoToken}]
    BY <2>1 DEF FormTypes
  <2>3. FormTypes'
    BY <1>9, <2>2 DEF AfterSignup, AfterLogin, NoForm, FormTypes
  <2>4. form.who \in Signups \cup {NoOne} /\ form.token \in Tokens \cup {NoToken}
    BY <2>1 DEF FormTypes
  <2>5. QED
    BY <1>9, <2>3, <2>4 DEF AfterSignup, AfterLogin, FormTypes, server, TypeOK
<1>10. CASE Logout
  BY <1>10 DEF Logout, server, TypeOK
<1>11. CASE AfterCheck
  <2>1. CASE LoadPage("auth", NoToken)
    BY <1>7, <2>1
  <2>2. CASE ~LoadPage("auth", NoToken)
    <3>1. check.stage = "accepted" => check.token.sub \in Signups \cup {NoOne}
      BY DEF TypeOK, CheckHasToken, Tokens
    <3>2. late' \in BOOLEAN
      BY <1>11, <2>2 DEF AfterCheck, TypeOK
    <3>3. QED
      BY <1>11, <2>2, <3>1, <3>2 DEF AfterCheck, NoCall, CallStages, server, TypeOK
  <2>3. QED
    BY <2>1, <2>2
<1>12. CASE CallApi
  BY <1>12 DEF CallApi, CallStages, server, TypeOK
<1>13. CASE AfterCall
  BY <1>7, <1>13 DEF AfterCall, NoCall, CallStages, server, TypeOK
<1>14. QED
  BY <1>1, <1>2, <1>3, <1>4, <1>5, <1>6, <1>8, <1>9, <1>10, <1>11, <1>12, <1>13 DEF Next

-----------------------------------------------------------------------------
(***************************************************************************)
(* The other parts of the invariant                                        *)
(***************************************************************************)
LEMMA OneAccountStep == TypeOK /\ OneAccountPerAddress /\ [Next]_vars => OneAccountPerAddress'
<1> DEFINE Has(s) == signup[s] \in {"flushed", "told", "stored"}
<1> SUFFICES ASSUME TypeOK, OneAccountPerAddress, [Next]_vars
             PROVE  OneAccountPerAddress'
  OBVIOUS
<1>1. CASE UNCHANGED signup
  BY <1>1 DEF OneAccountPerAddress
<1>2. ASSUME NEW r \in Signups, Register(r) \/ RegisterElsewhere(r) PROVE OneAccountPerAddress'
  <2>1. PICK from, to \in SignupStages : /\ Advance(r, from, to) /\ from # "stored"
                                         /\ to = "stored" => from = "told"
                                         /\ to = "told" => from = "flushed"
                                         /\ to = "flushed" => InsertUser(r) /\ from = "checked"
    BY <1>2, AccountStepAdvances
  <2>2. CASE to = "flushed"
    <3>1. InsertUser(r) /\ signup' = [signup EXCEPT ![r] = "flushed"]
      BY <2>1, <2>2 DEF Advance
    <3>2. Rivals(r) \cap Accounts = {}
      BY <3>1 DEF InsertUser, Advance, TypeOK
    <3>3. \A t \in Rivals(r) : ~Has(t)
      BY <3>1, <3>2 DEF InsertUser, Accounts, Rivals
    <3>4. QED
      BY <3>1, <3>3 DEF OneAccountPerAddress, Rivals, TypeOK
  <2>3. CASE to # "flushed"
    <3>1. \A s \in Signups : Has(s)' => Has(s)
      BY <2>1, <2>3 DEF Advance, TypeOK
    <3>2. QED
      BY <3>1 DEF OneAccountPerAddress
  <2>4. QED
    BY <2>2, <2>3
<1>3. ASSUME NEW r \in Signups, RegisterHere(r) PROVE OneAccountPerAddress'
  BY <1>3 DEF RegisterHere, OneAccountPerAddress, TypeOK
<1>4. QED
  BY <1>1, <1>2, <1>3
     DEF Next, Login, Deactivate, Tick, ServeLogin, ServeCheck, ServeApi, RequestFails, OpenPage,
         LoadPage, AfterSignup, AfterLogin, Logout, AfterCheck, CallApi, AfterCall, vars, server

LEMMA FormStep == TypeOK /\ FormIsNamed /\ [Next]_vars => FormIsNamed'
<1> SUFFICES ASSUME TypeOK, FormIsNamed, [Next]_vars PROVE FormIsNamed'
  OBVIOUS
<1>1. CASE UNCHANGED form \/ form' = NoForm
  BY <1>1 DEF FormIsNamed, NoForm
<1>2. ASSUME NEW s \in Signups, RegisterHere(s) \/ Login(s) PROVE FormIsNamed'
  BY <1>2 DEF RegisterHere, Login, NoForm, FormIsNamed
<1>3. CASE ServeLogin
  <2>1. form.who \in Signups /\ TokenFor(form.who).sub = form.who /\ TokenFor(form.who) # NoToken
    BY <1>3, TokenTypes DEF ServeLogin, FormIsNamed, TokenFor
  <2>2. QED
    BY <1>3, <2>1 DEF ServeLogin, NoForm, FormIsNamed, TypeOK
<1>4. CASE AfterSignup
  <2>1. form.who \in Signups
    BY <1>4 DEF AfterSignup, FormIsNamed
  <2>2. QED
    BY <1>4, <2>1 DEF AfterSignup, NoForm, FormIsNamed, TypeOK
<1>5. ASSUME NEW s \in Signups, Register(s) \/ RegisterElsewhere(s) PROVE UNCHANGED form
  BY <1>5, AccountStepAdvances DEF Advance, browser
<1>6. ASSUME NEW s \in Signups, Deactivate(s) PROVE UNCHANGED form
  BY <1>6 DEF Deactivate, browser
<1>7. ASSUME UNCHANGED vars \/ Tick \/ ServeCheck \/ ServeApi \/ CallApi PROVE UNCHANGED form
  BY <1>7 DEF vars, browser, Tick, ServeCheck, ServeApi, CallApi
<1>8. ASSUME \/ RequestFails \/ AfterLogin \/ Logout \/ AfterCheck \/ AfterCall
             \/ \E p \in {"auth", "app"} : OpenPage(p)
      PROVE  UNCHANGED form \/ form' = NoForm
  BY <1>8 DEF RequestFails, AfterLogin, Logout, AfterCheck, AfterCall, OpenPage, LoadPage
<1>9. QED
  BY <1>1, <1>2, <1>3, <1>4, <1>5, <1>6, <1>7, <1>8 DEF Next

\* What the steps do to the two requests of the page, to its token and user.
LEMMA BrowserSteps ==
  ASSUME TypeOK, FormIsNamed, CheckHasToken, [Next]_vars
  PROVE  /\ \/ UNCHANGED check \/ check' = NoCall
            \/ token # NoToken /\ check' = [stage |-> "sent", token |-> token]
            \/ ServeCheck
         /\ \/ UNCHANGED api \/ api' = NoCall \/ ServeApi
            \/ api' = [stage |-> "sent", token |-> token]
         /\ \/ UNCHANGED <<token, shown, late>>
            \/ shown' = NoOne /\ token' \in {token, NoToken}
            \/ AfterLogin
            \/ /\ check.stage = "accepted" /\ shown' = check.token.sub
               /\ late' = (check.token # token) /\ token' = token
<1>1. ASSUME NEW s \in Signups, Register(s) \/ RegisterElsewhere(s) PROVE UNCHANGED browser
  BY <1>1, AccountStepAdvances DEF Advance
<1>2. ASSUME NEW s \in Signups, Deactivate(s) PROVE UNCHANGED browser
  BY <1>2 DEF Deactivate
<1>3. ASSUME UNCHANGED vars \/ Tick PROVE UNCHANGED browser
  BY <1>3 DEF vars, Tick
<1>4. ASSUME \/ \E s \in Signups : RegisterHere(s) \/ Login(s)
             \/ ServeLogin \/ AfterSignup
      PROVE  UNCHANGED <<token, shown, late, check, api>>
  BY <1>4 DEF RegisterHere, Login, ServeLogin, AfterSignup
<1>5. ASSUME NEW p \in {"auth", "app"}, NEW t \in {token, NoToken}, LoadPage(p, t)
      PROVE  /\ shown' = NoOne /\ token' = t /\ api' = NoCall
             /\ \/ check' = NoCall
                \/ token # NoToken /\ check' = [stage |-> "sent", token |-> token]
  BY <1>5 DEF LoadPage
<1>6. ASSUME NEW p \in {"auth", "app"}, OpenPage(p)
      PROVE  /\ shown' = NoOne /\ token' = token /\ api' = NoCall
             /\ \/ check' = NoCall
                \/ token # NoToken /\ check' = [stage |-> "sent", token |-> token]
  BY <1>5, <1>6 DEF OpenPage
<1>7. ASSUME ServeCheck PROVE UNCHANGED <<token, shown, late, api>>
  BY <1>7 DEF ServeCheck
<1>8. ASSUME ServeApi PROVE UNCHANGED <<token, shown, late, check>>
  BY <1>8 DEF ServeApi
<1>9. ASSUME RequestFails \/ CallApi
      PROVE  /\ UNCHANGED <<token, shown, late, check>>
             /\ UNCHANGED api \/ api' = NoCall \/ api' = [stage |-> "sent", token |-> token]
  BY <1>9 DEF RequestFails, CallApi
<1>10. ASSUME AfterLogin PROVE UNCHANGED <<check, api>>
  BY <1>10 DEF AfterLogin
<1>11. ASSUME Logout
       PROVE  UNCHANGED <<check, api>> /\ shown' = NoOne /\ token' = NoToken
  BY <1>11 DEF Logout
<1>12. ASSUME AfterCheck
       PROVE  /\ check' = NoCall /\ (UNCHANGED api \/ api' = NoCall)
              /\ \/ shown' = NoOne /\ token' = NoToken
                 \/ /\ check.stage = "accepted" /\ shown' = check.token.sub
                    /\ late' = (check.token # token) /\ token' = token
  BY <1>12 DEF AfterCheck, LoadPage
<1>13. ASSUME AfterCall
       PROVE  /\ UNCHANGED check \/ check' = NoCall
              /\ api' = NoCall
              /\ UNCHANGED <<token, shown, late>> \/ (shown' = NoOne /\ token' = NoToken)
  BY <1>13 DEF AfterCall, LoadPage
<1>14. QED
  BY <1>1, <1>2, <1>3, <1>4, <1>6, <1>7, <1>8, <1>9, <1>10, <1>11, <1>12, <1>13
     DEF Next, browser

LEMMA CheckStep == TypeOK /\ FormIsNamed /\ CheckHasToken /\ [Next]_vars => CheckHasToken'
<1> SUFFICES ASSUME TypeOK, FormIsNamed, CheckHasToken, [Next]_vars PROVE CheckHasToken'
  OBVIOUS
<1>1. CASE ServeCheck
  BY <1>1 DEF ServeCheck, CheckHasToken, TypeOK
<1>2. QED
  BY <1>1, BrowserSteps DEF CheckHasToken, NoCall

LEMMA IssuedStep ==
  TypeOK /\ FormIsNamed /\ CheckHasToken /\ TokensAreIssued /\ [Next]_vars => TokensAreIssued'
<1> SUFFICES ASSUME TypeOK, FormIsNamed, CheckHasToken, TokensAreIssued, [Next]_vars
             PROVE  TokensAreIssued'
  OBVIOUS
<1>1. /\ token \in Tokens \cup {NoToken} /\ form.token \in Tokens \cup {NoToken}
      /\ check.token \in Tokens \cup {NoToken} /\ api.token \in Tokens \cup {NoToken}
  BY DEF TypeOK
<1>2. \A t \in Tokens \cup {NoToken} : t # NoToken /\ t.sub \in Accounts => t.sub \in Accounts'
  BY ServerGrows
<1>3. check'.token \in {check.token, token, NoToken}
  BY BrowserSteps DEF ServeCheck, NoCall, TypeOK
<1>4. api'.token \in {api.token, token, NoToken}
  BY BrowserSteps DEF ServeApi, NoCall, TypeOK
<1>5. token' \in {token, NoToken, form.token}
  BY BrowserSteps DEF AfterLogin
<1>6. form'.token \in {form.token, NoToken} \/ form'.token.sub \in Accounts
  <2>1. CASE ServeLogin
    BY <2>1 DEF ServeLogin, NoForm, TokenFor, TypeOK
  <2>2. CASE form'.token = form.token \/ form' = NoForm
    BY <2>2 DEF NoForm
  <2>3. ASSUME NEW s \in Signups,
               \/ Register(s) \/ RegisterElsewhere(s) \/ RegisterHere(s) \/ Login(s) \/ Deactivate(s)
        PROVE  UNCHANGED form \/ form'.token = NoToken
    BY <2>3, AccountStepAdvances DEF Advance, browser, RegisterHere, Login, NoForm, Deactivate
  <2>4. ASSUME \/ UNCHANGED vars \/ Tick \/ ServeCheck \/ ServeApi \/ CallApi \/ AfterSignup
               \/ RequestFails \/ AfterLogin \/ Logout \/ AfterCheck \/ AfterCall
               \/ \E p \in {"auth", "app"} : OpenPage(p)
        PROVE  form'.token = form.token \/ form' = NoForm
    BY <2>4 DEF vars, browser, Tick, ServeCheck, ServeApi, CallApi, AfterSignup, RequestFails,
                AfterLogin, Logout, AfterCheck, AfterCall, OpenPage, LoadPage, TypeOK
  <2>5. QED
    BY <2>1, <2>2, <2>3, <2>4 DEF Next
<1>7. Accounts \subseteq Accounts'
  BY ServerGrows
<1>8. QED
  BY <1>1, <1>2, <1>3, <1>4, <1>5, <1>6, <1>7 DEF TokensAreIssued, Issued

LEMMA LateStep ==
  /\ TypeOK /\ FormIsNamed /\ CheckHasToken /\ OnlyLateAnswersMisidentify /\ [Next]_vars
  => OnlyLateAnswersMisidentify'
<1> SUFFICES ASSUME TypeOK, FormIsNamed, CheckHasToken, OnlyLateAnswersMisidentify, [Next]_vars
             PROVE  OnlyLateAnswersMisidentify'
  OBVIOUS
<1>1. CASE AfterLogin
  BY <1>1 DEF AfterLogin, FormIsNamed, OnlyLateAnswersMisidentify
<1>2. QED
  BY <1>1, BrowserSteps DEF CheckHasToken, OnlyLateAnswersMisidentify

LEMMA RefusedStep ==
  /\ TypeOK /\ FormIsNamed /\ CheckHasToken /\ TokensAreIssued /\ RefusedForGood /\ [Next]_vars
  => RefusedForGood'
<1> SUFFICES ASSUME TypeOK, FormIsNamed, CheckHasToken, TokensAreIssued, RefusedForGood, [Next]_vars
             PROVE  RefusedForGood'
  OBVIOUS
<1>1. check.token \in Tokens \cup {NoToken} /\ api.token \in Tokens \cup {NoToken}
  BY DEF TypeOK
<1>2. ASSUME check'.stage = "refused" PROVE ~Valid(check.token) /\ check'.token = check.token
  <2>1. UNCHANGED check \/ ServeCheck
    BY <1>2, BrowserSteps DEF NoCall
  <2>2. QED
    BY <1>2, <2>1 DEF ServeCheck, RefusedForGood, TypeOK
<1>3. ASSUME api'.stage = "refused" PROVE ~Valid(api.token) /\ api'.token = api.token
  <2>1. UNCHANGED api \/ ServeApi
    BY <1>3, BrowserSteps DEF NoCall
  <2>2. QED
    BY <1>3, <2>1 DEF ServeApi, NoCall, RefusedForGood, TypeOK
<1>4. Issued(check.token) /\ Issued(api.token)
  BY DEF TokensAreIssued
<1>5. check'.stage = "refused" => ~Valid(check.token)'
  BY <1>1, <1>2, <1>4, StaysInvalid DEF Valid
<1>6. api'.stage = "refused" => ~Valid(api.token)'
  BY <1>1, <1>3, <1>4, StaysInvalid DEF Valid
<1>7. QED
  BY <1>5, <1>6 DEF RefusedForGood

-----------------------------------------------------------------------------
(***************************************************************************)
(* The theorems                                                            *)
(***************************************************************************)
LEMMA AccountInvInit == Init => AccountInv
<1> SUFFICES ASSUME Init PROVE AccountInv
  OBVIOUS
<1>1. TypeOK
  <2>1. now \in 0..MaxTime
    BY TimeAssumption DEF Init
  <2>2. /\ signup \in [Signups -> SignupStages] /\ inactive \subseteq Signups
        /\ token \in Tokens \cup {NoToken} /\ shown \in Signups \cup {NoOne}
        /\ page \in {"auth", "app"} /\ late \in BOOLEAN
    BY DEF Init, SignupStages
  <2>3. /\ form \in [stage : {"none", "register", "login", "ok"},
                     who : Signups \cup {NoOne}, token : Tokens \cup {NoToken}]
        /\ check \in [stage : CallStages, token : Tokens \cup {NoToken}]
        /\ api \in [stage : CallStages, token : Tokens \cup {NoToken}]
    BY DEF Init, CallStages, NoForm, NoCall
  <2>4. QED
    BY <2>1, <2>2, <2>3 DEF TypeOK
<1>2. OneAccountPerAddress /\ FormIsNamed /\ CheckHasToken
  BY DEF Init, OneAccountPerAddress, FormIsNamed, CheckHasToken, NoForm, NoCall
<1>3. TokensAreIssued /\ OnlyLateAnswersMisidentify /\ RefusedForGood
  BY DEF Init, TokensAreIssued, Issued, OnlyLateAnswersMisidentify, RefusedForGood, NoForm, NoCall
<1>4. QED
  BY <1>1, <1>2, <1>3 DEF AccountInv

LEMMA AccountInvStep == AccountInv /\ [Next]_vars => AccountInv'
  BY TypeStep, OneAccountStep, FormStep, CheckStep, IssuedStep, LateStep, RefusedStep
     DEF AccountInv

\* The inductive invariant holds.
THEOREM AccountInvariant == Spec => []AccountInv
  BY AccountInvInit, AccountInvStep, PTL DEF Spec

\* The types: accounts, tokens and the parts of the page stay in their sets.
THEOREM TypeCorrect == Spec => []TypeOK
<1>1. AccountInv => TypeOK
  BY DEF AccountInv
<1>2. QED
  BY <1>1, AccountInvariant, PTL

\* However many registrations for an address overlap, one at most keeps its row.
THEOREM OneAccountPerAddressHolds == Spec => []OneAccountPerAddress
<1>1. AccountInv => OneAccountPerAddress
  BY DEF AccountInv
<1>2. QED
  BY <1>1, AccountInvariant, PTL

\* The page shows the user its requests are made for, unless a late answer to
\* the check of an earlier token said otherwise.
THEOREM OnlyLateAnswersMisidentifyHolds == Spec => []OnlyLateAnswersMisidentify
<1>1. AccountInv => OnlyLateAnswersMisidentify
  BY DEF AccountInv
<1>2. QED
  BY <1>1, AccountInvariant, PTL

\* A token that is still good goes only for one of the causes listed.
THEOREM SignedOutForACauseHolds == Spec => SignedOutForACause
<1>1. ASSUME AccountInv, [Next]_vars, token' = NoToken, Valid(token)
      PROVE  \/ Logout
             \/ check.stage = "sent"
             \/ check.stage = "refused" /\ check.token # token
             \/ api.stage = "refused" /\ api.token # token
  <2>1. TypeOK /\ FormIsNamed /\ RefusedForGood /\ token # NoToken
    BY <1>1 DEF AccountInv, Valid
  <2>2. ASSUME NEW s \in Signups,
               \/ Register(s) \/ RegisterElsewhere(s) \/ RegisterHere(s) \/ Login(s) \/ Deactivate(s)
        PROVE  UNCHANGED token
    BY <2>2, AccountStepAdvances DEF Advance, browser, RegisterHere, Login, Deactivate
  <2>3. ASSUME \/ UNCHANGED vars \/ Tick \/ ServeLogin \/ ServeCheck \/ ServeApi \/ CallApi
               \/ AfterSignup \/ RequestFails \/ \E p \in {"auth", "app"} : OpenPage(p)
        PROVE  UNCHANGED token
    BY <2>3 DEF vars, browser, Tick, ServeLogin, ServeCheck, ServeApi, CallApi, AfterSignup,
                RequestFails, OpenPage, LoadPage
  <2>4. AfterLogin \/ Logout \/ AfterCheck \/ AfterCall
    BY <1>1, <2>1, <2>2, <2>3 DEF Next
  <2>5. CASE AfterLogin
    BY <1>1, <2>1, <2>5 DEF AfterLogin, FormIsNamed
  <2>6. CASE AfterCheck
    <3>1. check.stage \in {"sent", "refused"}
      BY <1>1, <2>1, <2>6 DEF AfterCheck
    <3>2. QED
      BY <1>1, <2>1, <3>1 DEF RefusedForGood
  <2>7. CASE AfterCall
    BY <1>1, <2>1, <2>7 DEF AfterCall, RefusedForGood
  <2>8. QED
    BY <2>4, <2>5, <2>6, <2>7
<1>2. AccountInv /\ [Next]_vars =>
        [token' = NoToken /\ Valid(token) =>
           \/ Logout
           \/ check.stage = "sent"
           \/ check.stage = "refused" /\ check.token # token
           \/ api.stage = "refused" /\ api.token # token]_vars
  BY <1>1
<1>3. QED
  BY <1>2, AccountInvariant, PTL DEF Spec, SignedOutForACause
=============================================================================
