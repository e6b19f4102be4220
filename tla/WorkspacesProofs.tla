--------------------------- MODULE WorkspacesProofs ---------------------------
(***************************************************************************)
(* Theorems about Workspaces, for any sets of users, workspaces and        *)
(* requests: what TLC sees of two requests is shown here for any number.   *)
(***************************************************************************)
EXTENDS Workspaces, TLAPS

-----------------------------------------------------------------------------
(***************************************************************************)
(* The inductive invariant                                                 *)
(***************************************************************************)
\* A request that got past the check of its role, or made a workspace, names one
\* that exists or existed: no later "create" can make it again.
SpacesAreOld ==
    \A r \in Requests :
        \/ stage[r] \in {"authorised", "loaded", "committed"}
        \/ At(r, "done", AuditedOps)
        => space[call[r].space] # "none"

\* A request that committed while another one ran has its parameters for good.
CommittedHaveBegun == \A r \in Requests : \A q \in during[r] : stage[q] # "idle"

\* The role a request acts with is one its caller has had since it began.
RoleWasHeld ==
    \A r \in Requests : stage[r] \in {"authorised", "loaded"} =>
        seen[r].caller \in held[r] \cap AllowedRoles(call[r].op)

\* The history of a running request has the role its caller has now.
RoleIsHeld == \A r \in Requests : Running(r) => CallerRole(r) \in held[r]

\* Only a role the code knows gets past LoadTarget.
KnownRoles == \A r \in Requests : At(r, "loaded", {"role"}) => call[r].to \in Roles

\* Some request that committed while r ran makes u an owner.
Promoted(r, u) == \E q \in during[r] : call[q].target = u /\ call[q].to = "owner"

PromotedNext(r, u) == \E q \in during'[r] : call'[q].target = u /\ call'[q].to = "owner"

\* Whoever is not an owner has not read an owner's row: an owner's role in the
\* row by now was put there meanwhile.
OwnersArePromoted ==
    \A r \in Requests :
        LET c == call[r] IN
        /\ At(r, "authorised", {"role", "remove"}) /\ seen[r].caller # "owner" =>
             role[c.space][c.by] # "owner" \/ Promoted(r, c.by)
        /\ At(r, "loaded", {"role", "remove"}) /\ seen[r].caller # "owner" =>
             /\ role[c.space][c.target] # "owner" \/ Promoted(r, c.target)
             /\ c.to # "owner"

\* Another request for the settings of the workspace committed while r ran.
SettingsChanged(r) ==
    \E q \in during[r] : call[q].op = "settings" /\ call[q].space = call[r].space

SettingsAreFresh ==
    \A r \in Requests : At(r, "loaded", {"settings"}) =>
        \/ /\ seen[r].docs = info[call[r].space].docs
           /\ seen[r].msgs = info[call[r].space].msgs
        \/ SettingsChanged(r)

SpaceInv ==
    /\ TypeOK
    /\ KnownRoles
    /\ SpacesAreOld
    /\ CommittedHaveBegun
    /\ RoleIsHeld
    /\ RoleWasHeld
    /\ OwnersArePromoted
    /\ SettingsAreFresh
    /\ DeletedSpaceIsEmpty
    /\ AuditMatchesAnswers

-----------------------------------------------------------------------------
(***************************************************************************)
(* Type correctness                                                        *)
(***************************************************************************)
\* What a request may name.
LEMMA CallTypes ==
  ASSUME TypeOK, NEW r \in Requests
  PROVE  /\ call[r].by \in Users /\ call[r].space \in Spaces
         /\ call[r].op \in {"role", "remove"} => call[r].target \in Users
         /\ call[r].op = "role" => call[r].to \in Roles \cup {"viewer"}
         /\ call[r].op = "remove" => call[r].to = "none"
<1>1. call[r] \in Calls \cup {NoCall}
  BY DEF TypeOK
<1>2. CASE call[r] = NoCall
  BY <1>2, UsersAssumption DEF NoCall
<1>3. CASE call[r] \in Calls
  BY <1>3 DEF Calls, ListOps
<1>4. QED
  BY <1>1, <1>2, <1>3

\* The roles in the table are roles, and so is what a request has read.
LEMMA RoleTypes ==
  ASSUME TypeOK, NEW r \in Requests
  PROVE  /\ CallerRole(r) \in Roles \cup {"none"}
         /\ call[r].op \in {"role", "remove"} => TargetRole(r) \in Roles \cup {"none"}
         /\ seen[r].caller \in Roles \cup {"none"}
         /\ seen[r].docs \in Requests \cup {Nothing}
         /\ seen[r].msgs \in Requests \cup {Nothing}
<1>1. seen[r] \in [caller : Roles \cup {"none"}, target : Roles \cup {"none"},
                   docs : Requests \cup {Nothing}, msgs : Requests \cup {Nothing}]
  BY DEF TypeOK
<1>2. \A w \in Spaces, u \in Users : role[w][u] \in Roles \cup {"none"}
  BY DEF TypeOK
<1>3. QED
  BY <1>1, <1>2, CallTypes DEF CallerRole, TargetRole

\* A role that is read into what a request has seen.
LEMMA SeenTypes ==
  ASSUME TypeOK, NEW r \in Requests, NEW x \in Roles \cup {"none"}
  PROVE  LET Seen == [caller : Roles \cup {"none"}, target : Roles \cup {"none"},
                      docs : Requests \cup {Nothing}, msgs : Requests \cup {Nothing}]
         IN  /\ [seen EXCEPT ![r].caller = x] \in [Requests -> Seen]
             /\ [seen EXCEPT ![r].target = x] \in [Requests -> Seen]
<1> DEFINE Seen == [caller : Roles \cup {"none"}, target : Roles \cup {"none"},
                    docs : Requests \cup {Nothing}, msgs : Requests \cup {Nothing}]
<1>1. seen \in [Requests -> Seen]
  BY DEF TypeOK
<1>2. [seen[r] EXCEPT !.caller = x] \in Seen /\ [seen[r] EXCEPT !.target = x] \in Seen
  BY <1>1
<1>3. QED
  <2> HIDE DEF Seen
  <2>1. \A y \in Seen : [seen EXCEPT ![r] = y] \in [Requests -> Seen]
    BY <1>1
  <2>2. /\ [seen EXCEPT ![r].caller = x] = [seen EXCEPT ![r] = [seen[r] EXCEPT !.caller = x]]
        /\ [seen EXCEPT ![r].target = x] = [seen EXCEPT ![r] = [seen[r] EXCEPT !.target = x]]
    BY <1>1
  <2>3. /\ [seen EXCEPT ![r].caller = x] \in [Requests -> Seen]
        /\ [seen EXCEPT ![r].target = x] \in [Requests -> Seen]
    BY <1>2, <2>1, <2>2
  <2>4. QED
    BY <2>3 DEF Seen

LEMMA TypeInit == Init => TypeOK
<1> SUFFICES ASSUME Init PROVE TypeOK
  OBVIOUS
<1> USE DEF Init
<1>1. /\ space \in [Spaces -> {"none", "live", "deleted"}]
      /\ role \in [Spaces -> [Users -> Roles \cup {"none"}]]
      /\ keys \in [Spaces -> SUBSET Requests]
      /\ log \in [Spaces -> SUBSET Requests]
      /\ call \in [Requests -> Calls \cup {NoCall}]
      /\ stage \in [Requests -> Stages]
      /\ held \in [Requests -> SUBSET (Roles \cup {"none"})]
      /\ during \in [Requests -> SUBSET Requests]
  BY DEF Stages
<1>2. info \in [Spaces -> [name : Requests \cup {Nothing}, docs : Requests \cup {Nothing},
                           msgs : Requests \cup {Nothing}]]
  OBVIOUS
<1>3. seen \in [Requests -> [caller : Roles \cup {"none"}, target : Roles \cup {"none"},
                             docs : Requests \cup {Nothing}, msgs : Requests \cup {Nothing}]]
  BY DEF NotSeen
<1>4. QED
  BY <1>1, <1>2, <1>3 DEF TypeOK

\* A row of info.
Infos == [name : Requests \cup {Nothing}, docs : Requests \cup {Nothing},
          msgs : Requests \cup {Nothing}]

\* The parts of the types that are about the tables and about the histories.
RowTypes ==
    /\ space \in [Spaces -> {"none", "live", "deleted"}]
    /\ role \in [Spaces -> [Users -> Roles \cup {"none"}]]
    /\ info \in [Spaces -> Infos]
    /\ keys \in [Spaces -> SUBSET Requests]
    /\ log \in [Spaces -> SUBSET Requests]

HistoryTypes ==
    /\ held \in [Requests -> SUBSET (Roles \cup {"none"})]
    /\ during \in [Requests -> SUBSET Requests]

\* What all commits do to the histories.
LEMMA CommitTypes ==
  ASSUME TypeOK, NEW r \in Requests, Commits(r),
         role' \in [Spaces -> [Users -> Roles \cup {"none"}]]
  PROVE  HistoryTypes'
<1>1. \A q \in Requests : role'[call[q].space][call[q].by] \in Roles \cup {"none"}
  BY CallTypes
<1>2. held' \in [Requests -> SUBSET (Roles \cup {"none"})]
  BY <1>1 DEF TypeOK, Commits
<1>3. during' \in [Requests -> SUBSET Requests]
  BY DEF TypeOK, Commits
<1>4. QED
  BY <1>2, <1>3 DEF HistoryTypes

\* No step leaves the types.
LEMMA TypeStep == TypeOK /\ KnownRoles /\ [Next]_vars => TypeOK'
<1> SUFFICES ASSUME TypeOK, KnownRoles, [Next]_vars PROVE TypeOK'
  OBVIOUS
<1>1. CASE UNCHANGED vars
  BY <1>1 DEF vars, rows, TypeOK
<1>2. ASSUME NEW r \in Requests, Begin(r) PROVE TypeOK'
  <2>1. PICK c \in Calls : /\ call' = [call EXCEPT ![r] = c]
                           /\ held' = [held EXCEPT ![r] = {role[c.space][c.by]}]
    BY <1>2 DEF Begin
  <2>2. c.by \in Users /\ c.space \in Spaces
    BY DEF Calls
  <2>3. role[c.space][c.by] \in Roles \cup {"none"}
    BY <2>2 DEF TypeOK
  <2>4. QED
    BY <1>2, <2>1, <2>3 DEF Begin, Go, rows, TypeOK, Stages
<1>3. ASSUME NEW r \in Requests, NEW s \in Stages, Go(r, s), Reads(r), UNCHANGED seen
      PROVE  TypeOK'
  BY <1>3 DEF Go, Reads, rows, TypeOK
<1>4. ASSUME NEW r \in Requests, Fail(r) PROVE TypeOK'
  BY <1>3, <1>4 DEF Fail, Stages
<1>5. ASSUME NEW r \in Requests, Authorise(r) PROVE TypeOK'
  <2>1. CASE seen' = [seen EXCEPT ![r].caller = CallerRole(r)]
    <3>1. CallerRole(r) \in Roles \cup {"none"}
      BY RoleTypes
    <3>2. seen' \in [Requests -> [caller : Roles \cup {"none"}, target : Roles \cup {"none"},
                                  docs : Requests \cup {Nothing}, msgs : Requests \cup {Nothing}]]
      BY <2>1, <3>1, SeenTypes
    <3>3. QED
      BY <1>5, <3>2 DEF Authorise, Go, Reads, rows, TypeOK, Stages
  <2>2. CASE UNCHANGED seen
    BY <1>5, <2>2 DEF Authorise, Go, Reads, rows, TypeOK, Stages
  <2>3. QED
    BY <1>5, <2>1, <2>2 DEF Authorise
<1>6. ASSUME NEW r \in Requests, LoadTarget(r) PROVE TypeOK'
  <2>1. CASE seen' = [seen EXCEPT ![r].target = TargetRole(r)]
    <3>1. TargetRole(r) \in Roles \cup {"none"}
      BY <1>6, RoleTypes DEF LoadTarget, At
    <3>2. seen' \in [Requests -> [caller : Roles \cup {"none"}, target : Roles \cup {"none"},
                                  docs : Requests \cup {Nothing}, msgs : Requests \cup {Nothing}]]
      BY <2>1, <3>1, SeenTypes
    <3>3. QED
      BY <1>6, <3>2 DEF LoadTarget, Go, Reads, rows, TypeOK, Stages
  <2>2. CASE UNCHANGED seen
    BY <1>6, <2>2 DEF LoadTarget, Go, Reads, rows, TypeOK, Stages
  <2>3. QED
    BY <1>6, <2>1, <2>2 DEF LoadTarget
<1>7. ASSUME NEW r \in Requests, LoadSettings(r) PROVE TypeOK'
  <2> DEFINE i == info[call[r].space]
  <2>1. CASE seen' = [seen EXCEPT ![r].docs = i.docs, ![r].msgs = i.msgs]
    <3>1. i.docs \in Requests \cup {Nothing} /\ i.msgs \in Requests \cup {Nothing}
      BY CallTypes DEF TypeOK
    <3> HIDE DEF i
    <3>2. seen' = [seen EXCEPT ![r] = [seen[r] EXCEPT !.docs = i.docs, !.msgs = i.msgs]]
      BY <2>1 DEF TypeOK
    <3>3. [seen[r] EXCEPT !.docs = i.docs, !.msgs = i.msgs]
            \in [caller : Roles \cup {"none"}, target : Roles \cup {"none"},
                 docs : Requests \cup {Nothing}, msgs : Requests \cup {Nothing}]
      <4>1. seen[r] \in [caller : Roles \cup {"none"}, target : Roles \cup {"none"},
                         docs : Requests \cup {Nothing}, msgs : Requests \cup {Nothing}]
        BY DEF TypeOK
      <4>2. QED
        BY <3>1, <4>1
    <3>4. seen' \in [Requests -> [caller : Roles \cup {"none"}, target : Roles \cup {"none"},
                                  docs : Requests \cup {Nothing}, msgs : Requests \cup {Nothing}]]
      BY <3>2, <3>3 DEF TypeOK
    <3>5. QED
      BY <1>7, <3>4 DEF LoadSettings, Go, Reads, rows, TypeOK, Stages
  <2>2. CASE UNCHANGED seen
    BY <1>7, <2>2 DEF LoadSettings, Go, Reads, rows, TypeOK, Stages
  <2>3. QED
    BY <1>7, <2>1, <2>2 DEF LoadSettings
<1>8. ASSUME NEW r \in Requests,
             \/ ListWorkspaces(r) \/ GetWorkspace(r) \/ ListMembers(r)
             \/ ListApiKeys(r) \/ ListAuditLogs(r) \/ LoadKey(r)
      PROVE  TypeOK'
  BY <1>3, <1>8 DEF ListWorkspaces, GetWorkspace, ListMembers, ListApiKeys, ListAuditLogs,
                    Lists, LoadKey, Stages
<1>9. ASSUME NEW r \in Requests, RaisesAtCommit(r) PROVE TypeOK'
  BY <1>3, <1>9 DEF RaisesAtCommit, Stages
<1>10. ASSUME NEW r \in Requests, NEW s \in Stages, Go(r, s), Commits(r), RowTypes'
       PROVE  TypeOK'
  <2>1. HistoryTypes'
    BY <1>10, CommitTypes DEF RowTypes
  <2>2. stage' \in [Requests -> Stages] /\ UNCHANGED <<call, seen>>
    BY <1>10 DEF Go, Commits, TypeOK
  <2>3. QED
    BY <1>10, <2>1, <2>2 DEF HistoryTypes, RowTypes, TypeOK, Infos
<1>11. ASSUME NEW r \in Requests, CreateWorkspace(r) \/ AddDefaultWorkspace(r) PROVE TypeOK'
  <2>1. AddSpace(call[r].space, call[r].by) /\ call[r].space \in Spaces /\ call[r].by \in Users
    BY <1>11, CallTypes DEF CreateWorkspace, AddDefaultWorkspace
  <2>2. role' \in [Spaces -> [Users -> Roles \cup {"none"}]]
    BY <2>1 DEF AddSpace, TypeOK, Roles
  <2>3. RowTypes'
    BY <2>1, <2>2 DEF AddSpace, TypeOK, RowTypes, Infos
  <2>4. Commits(r) /\ (Go(r, "committed") \/ Go(r, "done"))
    BY <1>11 DEF CreateWorkspace, AddDefaultWorkspace
  <2>5. QED
    BY <1>10, <2>3, <2>4 DEF Stages
<1>12. ASSUME NEW r \in Requests, UpdateWorkspace(r) PROVE TypeOK'
  <2> DEFINE w == call[r].space
  <2>1. CASE space[w] # "live"
    BY <1>3, <1>12, <2>1 DEF UpdateWorkspace, Stages
  <2>2. CASE space[w] = "live"
    <3>1. info[w] \in Infos /\ w \in Spaces
      BY CallTypes DEF TypeOK, Infos
    <3>2. [info[w] EXCEPT !.name = r] \in Infos
      BY <3>1 DEF Infos
    <3>3. info' = [info EXCEPT ![w] = [info[w] EXCEPT !.name = r]]
      BY <1>12, <2>2 DEF UpdateWorkspace
    <3>4. info' \in [Spaces -> Infos]
      BY <3>2, <3>3 DEF TypeOK, Infos
    <3>5. RowTypes'
      BY <1>12, <2>2, <3>4 DEF UpdateWorkspace, TypeOK, RowTypes
    <3>6. Commits(r) /\ Go(r, "committed")
      BY <1>12, <2>2 DEF UpdateWorkspace
    <3>7. QED
      BY <1>10, <3>5, <3>6 DEF Stages
  <2>3. QED
    BY <2>1, <2>2
<1>13. ASSUME NEW r \in Requests, UpdateSettings(r) PROVE TypeOK'
  <2> DEFINE w == call[r].space
             d == IF call[r].to = "docs" THEN r ELSE seen[r].docs
             m == IF call[r].to = "msgs" THEN r ELSE seen[r].msgs
  <2>1. CASE space[w] # "live"
    BY <1>9, <1>13, <2>1 DEF UpdateSettings
  <2>2. CASE space[w] = "live"
    <3>1. info[w] \in Infos /\ w \in Spaces
      BY CallTypes DEF TypeOK, Infos
    <3>2. d \in Requests \cup {Nothing} /\ m \in Requests \cup {Nothing}
      BY RoleTypes
    <3> HIDE DEF d, m
    <3>3. [info[w] EXCEPT !.docs = d, !.msgs = m] \in Infos
      BY <3>1, <3>2 DEF Infos
    <3>4. info' = [info EXCEPT ![w].docs = d, ![w].msgs = m]
      BY <1>13, <2>2 DEF UpdateSettings, d, m
    <3>5. info' \in [Spaces -> Infos]
      <4>1. info' = [info EXCEPT ![w] = [info[w] EXCEPT !.docs = d, !.msgs = m]]
        BY <3>1, <3>4 DEF TypeOK
      <4>2. QED
        BY <3>3, <4>1 DEF TypeOK, Infos
    <3>6. RowTypes'
      BY <1>13, <2>2, <3>5 DEF UpdateSettings, TypeOK, RowTypes
    <3>7. Commits(r) /\ Go(r, "committed")
      BY <1>13, <2>2 DEF UpdateSettings
    <3>8. QED
      BY <1>10, <3>6, <3>7 DEF Stages
  <2>3. QED
    BY <2>1, <2>2
<1>14. ASSUME NEW r \in Requests, UpdateMemberRole(r) PROVE TypeOK'
  <2> DEFINE c == call[r]
  <2>1. CASE RaisesAtCommit(r)
    BY <1>9, <2>1
  <2>2. CASE ~RaisesAtCommit(r)
    <3>1. c.space \in Spaces /\ c.target \in Users /\ c.to \in Roles
      BY <1>14, CallTypes DEF UpdateMemberRole, At, KnownRoles
    <3>2. /\ role' = role \/ role' = [role EXCEPT ![c.space][c.target] = c.to]
          /\ UNCHANGED <<space, info, keys, log>>
          /\ Go(r, "committed") /\ Commits(r)
      BY <1>14, <2>2 DEF UpdateMemberRole
    <3>3. role' \in [Spaces -> [Users -> Roles \cup {"none"}]]
      <4>1. role \in [Spaces -> [Users -> Roles \cup {"none"}]]
        BY DEF TypeOK
      <4>2. [role[c.space] EXCEPT ![c.target] = c.to] \in [Users -> Roles \cup {"none"}]
        BY <3>1, <4>1
      <4> HIDE DEF c
      <4>3. [role EXCEPT ![c.space] = [role[c.space] EXCEPT ![c.target] = c.to]]
              \in [Spaces -> [Users -> Roles \cup {"none"}]]
        BY <3>1, <4>1, <4>2
      <4>4. QED
        BY <3>2, <4>1, <4>3
    <3>4. RowTypes'
      BY <3>2, <3>3 DEF TypeOK, RowTypes, Infos
    <3>5. QED
      BY <1>10, <3>2, <3>4 DEF Stages
  <2>3. QED
    BY <2>1, <2>2
<1>15. ASSUME NEW r \in Requests, RemoveMember(r) PROVE TypeOK'
  <2>1. call[r].space \in Spaces /\ call[r].target \in Users
    BY <1>15, CallTypes DEF RemoveMember, At
  <2>2. role' \in [Spaces -> [Users -> Roles \cup {"none"}]]
    BY <1>15, <2>1 DEF RemoveMember, TypeOK
  <2>3. RowTypes'
    BY <1>15, <2>2 DEF RemoveMember, TypeOK, RowTypes, Infos
  <2>4. Go(r, "committed") /\ Commits(r)
    BY <1>15 DEF RemoveMember
  <2>5. QED
    BY <1>10, <2>3, <2>4 DEF Stages
<1>16. ASSUME NEW r \in Requests, CreateKey(r) \/ DeleteKey(r) PROVE TypeOK'
  <2>1. CASE RaisesAtCommit(r)
    BY <1>9, <2>1
  <2>2. CASE ~RaisesAtCommit(r)
    <3>1. /\ UNCHANGED <<space, role, info, log>>
          /\ \/ keys' = [keys EXCEPT ![call[r].space] = @ \cup {r}]
             \/ keys' = [keys EXCEPT ![call[r].space] = @ \ {call[r].target}]
          /\ Go(r, "committed") /\ Commits(r)
      BY <1>16, <2>2 DEF CreateKey, DeleteKey
    <3>2. RowTypes'
      BY <3>1 DEF TypeOK, RowTypes, Infos
    <3>3. QED
      BY <1>10, <3>1, <3>2 DEF Stages
  <2>3. QED
    BY <2>1, <2>2
<1>17. ASSUME NEW r \in Requests, DeleteWorkspace(r) PROVE TypeOK'
  <2>1. CASE space[call[r].space] # "live"
    BY <1>3, <1>17, <2>1 DEF DeleteWorkspace, Stages
  <2>2. CASE space[call[r].space] = "live"
    <3>1. /\ space' = [space EXCEPT ![call[r].space] = "deleted"]
          /\ role' = [role EXCEPT ![call[r].space] = [u \in Users |-> "none"]]
          /\ keys' = [keys EXCEPT ![call[r].space] = {}]
          /\ log' = [log EXCEPT ![call[r].space] = {}]
          /\ UNCHANGED info
          /\ Go(r, "done") /\ Commits(r)
      BY <1>17, <2>2 DEF DeleteWorkspace
    <3>2. RowTypes'
      BY <3>1 DEF TypeOK, RowTypes, Infos
    <3>3. QED
      BY <1>10, <3>1, <3>2 DEF Stages
  <2>3. QED
    BY <2>1, <2>2
<1>18. ASSUME NEW r \in Requests, Audit(r) PROVE TypeOK'
  <2>1. CASE RaisesAtCommit(r)
    BY <1>9, <2>1
  <2>2. CASE ~RaisesAtCommit(r)
    <3>1. /\ log' = [log EXCEPT ![call[r].space] = @ \cup {r}]
          /\ UNCHANGED <<space, role, info, keys, call, seen, held, during>>
          /\ stage' = [stage EXCEPT ![r] = "done"] \/ stage' = [stage EXCEPT ![r] = "logged"]
      BY <1>18, <2>2 DEF Audit, Go
    <3>2. stage' \in [Requests -> Stages]
      BY <3>1 DEF TypeOK, Stages
    <3>3. log' \in [Spaces -> SUBSET Requests]
      BY <3>1, CallTypes DEF TypeOK
    <3>4. QED
      BY <3>1, <3>2, <3>3 DEF TypeOK
  <2>3. QED
    BY <2>1, <2>2
<1>19. QED
  BY <1>1, <1>2, <1>4, <1>5, <1>6, <1>7, <1>8, <1>11, <1>12, <1>13, <1>14, <1>15, <1>16,
     <1>17, <1>18 DEF Next, Handle

-----------------------------------------------------------------------------
(***************************************************************************)
(* What the steps have in common                                           *)
(***************************************************************************)
\* A step of r is r's alone, and takes it on.
LEMMA OneActs ==
  ASSUME TypeOK, NEW r \in Requests, Begin(r) \/ Handle(r) \/ Fail(r)
  PROVE  /\ \A q \in Requests \ {r} :
               stage'[q] = stage[q] /\ call'[q] = call[q] /\ seen'[q] = seen[q]
         /\ stage'[r] # "idle"
         /\ stage[r] # "idle" => call'[r] = call[r]
         /\ stage[r] \notin {"done", "logged"}
         /\ Begin(r) \/ stage[r] # "idle"
<1> USE DEF TypeOK, Go, Reads, Commits, At
<1>1. CASE Begin(r)
  BY <1>1 DEF Begin
<1>2. CASE Fail(r)
  BY <1>2 DEF Fail, Running
<1>3. CASE Authorise(r) \/ LoadTarget(r) \/ LoadSettings(r)
  BY <1>3 DEF Authorise, LoadTarget, LoadSettings
<1>4. CASE \/ ListWorkspaces(r) \/ GetWorkspace(r) \/ ListMembers(r) \/ ListApiKeys(r)
           \/ ListAuditLogs(r) \/ LoadKey(r)
  BY <1>4 DEF ListWorkspaces, GetWorkspace, ListMembers, ListApiKeys, ListAuditLogs, Lists, LoadKey
<1>5. CASE CreateWorkspace(r) \/ AddDefaultWorkspace(r)
  BY <1>5 DEF CreateWorkspace, AddDefaultWorkspace
<1>6. CASE \/ UpdateWorkspace(r) \/ UpdateMemberRole(r) \/ RemoveMember(r) \/ UpdateSettings(r)
           \/ CreateKey(r) \/ DeleteKey(r) \/ DeleteWorkspace(r) \/ Audit(r)
  BY <1>6 DEF UpdateWorkspace, UpdateMemberRole, RemoveMember, UpdateSettings, CreateKey,
              DeleteKey, DeleteWorkspace, Audit, RaisesAtCommit
<1>7. QED
  BY <1>1, <1>2, <1>3, <1>4, <1>5, <1>6 DEF Handle

\* The steps that change rows, and what they change.
Writes(r) ==
    LET c == call[r]
        w == c.space
    IN
    \/ /\ At(r, "begun", {"create"}) \/ At(r, "lacking", {"list"})
       /\ AddSpace(w, c.by)
    \/ /\ At(r, "authorised", {"update"}) /\ space[w] = "live"
       /\ info' = [info EXCEPT ![w].name = r] /\ UNCHANGED <<space, role, keys, log>>
    \/ /\ At(r, "loaded", {"role"})
       /\ \/ role' = role
          \/ role[w][c.target] # "none" /\ role' = [role EXCEPT ![w][c.target] = c.to]
       /\ UNCHANGED <<space, info, keys, log>>
    \/ /\ At(r, "loaded", {"remove"})
       /\ role' = [role EXCEPT ![w][c.target] = "none"]
       /\ UNCHANGED <<space, info, keys, log>>
    \/ /\ At(r, "loaded", {"settings"}) /\ space[w] = "live"
       /\ info' = [info EXCEPT ![w].docs = IF c.to = "docs" THEN r ELSE seen[r].docs,
                               ![w].msgs = IF c.to = "msgs" THEN r ELSE seen[r].msgs]
       /\ UNCHANGED <<space, role, keys, log>>
    \/ /\ At(r, "authorised", {"new_key"}) /\ space[w] = "live"
       /\ keys' = [keys EXCEPT ![w] = @ \cup {r}] /\ UNCHANGED <<space, role, info, log>>
    \/ /\ At(r, "loaded", {"drop_key"})
       /\ keys' = [keys EXCEPT ![w] = @ \ {c.target}] /\ UNCHANGED <<space, role, info, log>>
    \/ /\ At(r, "authorised", {"delete"}) /\ space[w] = "live"
       /\ space' = [space EXCEPT ![w] = "deleted"]
       /\ role' = [role EXCEPT ![w] = [u \in Users |-> "none"]]
       /\ keys' = [keys EXCEPT ![w] = {}] /\ log' = [log EXCEPT ![w] = {}] /\ UNCHANGED info

\* What a step that writes nothing may come to.
Looks(r) ==
    /\ Reads(r)
    /\ \/ Authorise(r) \/ LoadTarget(r) \/ LoadSettings(r) \/ LoadKey(r)
       \/ stage'[r] \in {"refused", "error"} /\ UNCHANGED seen
       \/ stage[r] = "begun" /\ stage'[r] = "lacking" /\ UNCHANGED seen
       \/ stage'[r] = "done" /\ call[r].op \notin AuditedOps /\ UNCHANGED seen

\* Every step begins a request, reads, commits rows, or writes an audit entry.
LEMMA Kinds ==
  ASSUME TypeOK, NEW r \in Requests, Handle(r) \/ Fail(r)
  PROVE  \/ Looks(r)
         \/ Commits(r) /\ Writes(r) /\ stage' = [stage EXCEPT ![r] =
                            IF At(r, "lacking", {"list"}) \/ call[r].op = "delete"
                              THEN "done" ELSE "committed"]
         \/ /\ stage[r] = "committed" /\ space[call[r].space] = "live"
            /\ stage' = [stage EXCEPT ![r] = "done"] \/ stage' = [stage EXCEPT ![r] = "logged"]
            /\ log' = [log EXCEPT ![call[r].space] = @ \cup {r}]
            /\ UNCHANGED <<space, role, info, keys, call, seen, held, during>>
<1>1. CASE Fail(r)
  BY <1>1 DEF Fail, Looks, Go, TypeOK
<1>12. CASE Authorise(r) \/ LoadTarget(r) \/ LoadSettings(r) \/ LoadKey(r)
  BY <1>12 DEF Authorise, LoadTarget, LoadSettings, LoadKey, Looks
<1>13. CASE \/ ListWorkspaces(r) \/ GetWorkspace(r) \/ ListMembers(r)
            \/ ListApiKeys(r) \/ ListAuditLogs(r)
  BY <1>13 DEF ListWorkspaces, GetWorkspace, ListMembers, ListApiKeys, ListAuditLogs, Lists,
               Looks, Go, At, AuditedOps, TypeOK
<1>14. CASE RaisesAtCommit(r)
  BY <1>14 DEF RaisesAtCommit, Looks, Go, TypeOK
<1>2. CASE CreateWorkspace(r)
  BY <1>2 DEF CreateWorkspace, Writes, Go, At
<1>3. CASE AddDefaultWorkspace(r)
  BY <1>3 DEF AddDefaultWorkspace, Writes, Go, At
<1>4. CASE UpdateWorkspace(r)
  BY <1>4 DEF UpdateWorkspace, Writes, Go, At, Looks, TypeOK
<1>5. CASE UpdateMemberRole(r)
  BY <1>5, <1>14 DEF UpdateMemberRole, Writes, Go, At
<1>6. CASE RemoveMember(r)
  BY <1>6 DEF RemoveMember, Writes, Go, At
<1>7. CASE UpdateSettings(r)
  BY <1>7, <1>14 DEF UpdateSettings, Writes, Go, At
<1>8. CASE CreateKey(r) \/ DeleteKey(r)
  BY <1>8, <1>14 DEF CreateKey, DeleteKey, Writes, Go, At
<1>9. CASE DeleteWorkspace(r)
  BY <1>9 DEF DeleteWorkspace, Writes, Go, At, Looks, TypeOK
<1>10. CASE Audit(r)
  BY <1>10, <1>14 DEF Audit, Go
<1>11. QED
  BY <1>1, <1>2, <1>3, <1>4, <1>5, <1>6, <1>7, <1>8, <1>9, <1>10, <1>12, <1>13
     DEF Handle

\* Only what has begun is noted, nothing is forgotten and no workspace unmade.
LEMMA Grows ==
  ASSUME TypeOK, [Next]_vars, NEW q \in Requests
  PROVE  /\ stage[q] # "idle" => /\ stage'[q] # "idle" /\ call'[q] = call[q]
                                 /\ held[q] \subseteq held'[q]
         /\ stage[q] \in {"done", "logged"} => stage'[q] = stage[q]
         /\ during[q] \subseteq during'[q]
         /\ \A p \in during'[q] : p \in Requests /\ (p \in during[q] \/ stage'[p] # "idle")
         /\ \A w \in Spaces : /\ space[w] # "none" => space'[w] # "none"
                              /\ space[w] = "deleted" => space'[w] = "deleted"
<1>1. CASE UNCHANGED vars
  BY <1>1 DEF vars, rows, TypeOK
<1>2. ASSUME NEW r \in Requests, Begin(r) \/ Handle(r) \/ Fail(r)
      PROVE  /\ stage[q] # "idle" => stage'[q] # "idle" /\ call'[q] = call[q]
             /\ stage[q] \in {"done", "logged"} => stage'[q] = stage[q]
             /\ stage'[r] # "idle"
  BY <1>2, OneActs
<1>3. ASSUME NEW r \in Requests, Begin(r)
      PROVE  /\ stage[q] # "idle" => held[q] \subseteq held'[q]
             /\ UNCHANGED <<during, space>>
  BY <1>3 DEF Begin, rows, TypeOK
<1>4. ASSUME NEW r \in Requests, Commits(r)
      PROVE  /\ held[q] \subseteq held'[q]
             /\ during[q] \subseteq during'[q]
             /\ during'[q] \subseteq during[q] \cup {r}
  BY <1>4 DEF Commits, TypeOK
<1>5. ASSUME NEW r \in Requests, Writes(r), NEW w \in Spaces
      PROVE  /\ space[w] # "none" => space'[w] # "none"
             /\ space[w] = "deleted" => space'[w] = "deleted"
  BY <1>5, CallTypes DEF Writes, AddSpace, TypeOK
<1>6. ASSUME NEW r \in Requests, Handle(r) \/ Fail(r)
      PROVE  \/ UNCHANGED <<held, during, space>>
             \/ Commits(r) /\ Writes(r)
  BY <1>6, Kinds DEF Looks, Reads, rows
<1>7. QED
  BY <1>1, <1>2, <1>3, <1>4, <1>5, <1>6 DEF Next, TypeOK

-----------------------------------------------------------------------------
(***************************************************************************)
(* The parts of the invariant, one by one                                  *)
(***************************************************************************)
LEMMA KnownRolesStep == TypeOK /\ KnownRoles /\ [Next]_vars => KnownRoles'
<1> SUFFICES ASSUME TypeOK, KnownRoles, [Next]_vars, NEW q \in Requests,
                    stage'[q] = "loaded", call'[q].op = "role"
             PROVE  call'[q].to \in Roles
  BY DEF KnownRoles, At
<1>1. CASE stage[q] = "loaded"
  BY <1>1, Grows DEF KnownRoles, At
<1>2. CASE stage[q] # "loaded"
  <2>1. PICK r \in Requests : Begin(r) \/ Handle(r) \/ Fail(r)
    BY <1>2 DEF Next, vars
  <2>2. r = q
    BY <1>2, <2>1, OneActs
  <2>3. ~Begin(q)
    BY DEF Begin, Go, TypeOK
  <2>4. stage[q] # "idle" /\ call'[q] = call[q]
    BY <2>1, <2>2, <2>3, OneActs
  <2>5. call[q].op = "role" /\ stage'[q] = "loaded"
    BY <2>4
  <2>6. ~Authorise(q) /\ ~LoadSettings(q) /\ ~LoadKey(q)
    BY <2>5 DEF Authorise, LoadSettings, LoadKey, Go, At, TypeOK
  <2>7. LoadTarget(q)
    <3>1. \A s : stage' = [stage EXCEPT ![q] = s] => s = "loaded"
      BY <2>5 DEF TypeOK
    <3>2. Looks(q)
      BY <2>1, <2>2, <2>3, <3>1, Kinds
    <3>3. QED
      BY <2>5, <2>6, <3>2 DEF Looks
  <2>8. call[q].to # "viewer"
    BY <2>7 DEF LoadTarget, Go, TypeOK
  <2>9. QED
    BY <2>4, <2>8, CallTypes
<1>3. QED
  BY <1>1, <1>2

\* The workspace of whoever is past the check of the role is there.
LEMMA OldStep == TypeOK /\ SpacesAreOld /\ [Next]_vars => SpacesAreOld'
<1> DEFINE Past(q) == \/ stage[q] \in {"authorised", "loaded", "committed"}
                      \/ At(q, "done", AuditedOps)
<1> SUFFICES ASSUME TypeOK, SpacesAreOld, [Next]_vars, NEW q \in Requests, Past(q)'
             PROVE  space'[call'[q].space] # "none"
  BY DEF SpacesAreOld
<1>1. CASE Past(q)
  <2>1. space[call[q].space] # "none" /\ stage[q] # "idle"
    BY <1>1 DEF SpacesAreOld, At
  <2>2. QED
    BY <2>1, Grows, CallTypes
<1>2. CASE ~Past(q)
  <2>1. PICK r \in Requests : Begin(r) \/ Handle(r) \/ Fail(r)
    BY <1>2 DEF Next, vars, At
  <2>2. r = q
    BY <1>2, <2>1, OneActs DEF At
  <2>3. ~Begin(q)
    BY DEF Begin, Go, TypeOK, At
  <2>4. stage[q] # "idle" /\ call'[q] = call[q] /\ call[q].space \in Spaces
    BY <2>1, <2>2, <2>3, OneActs, CallTypes
  <2>5. CASE Looks(q)
    <3>1. Authorise(q) /\ stage'[q] = "authorised"
      BY <1>2, <2>4, <2>5 DEF Looks, At, LoadTarget, LoadSettings, LoadKey, Authorise, Go, TypeOK
    <3>2. space[call[q].space] = "live" /\ UNCHANGED space
      BY <3>1, <2>5 DEF Authorise, Go, TypeOK, MayEnter, Looks, Reads, rows
    <3>3. QED
      BY <2>4, <3>2
  <2>6. CASE /\ Writes(q)
             /\ stage' = [stage EXCEPT ![q] =
                     IF At(q, "lacking", {"list"}) \/ call[q].op = "delete"
                       THEN "done" ELSE "committed"]
    <3>1. At(q, "begun", {"create"})
      BY <1>2, <2>4, <2>6 DEF Writes, At, TypeOK, AuditedOps
    <3>2. AddSpace(call[q].space, call[q].by)
      BY <3>1, <2>6 DEF Writes, At
    <3>3. QED
      BY <2>4, <3>2 DEF AddSpace, TypeOK
  <2>7. QED
    BY <1>2, <2>1, <2>2, <2>3, <2>5, <2>6, Kinds
<1>3. QED
  BY <1>1, <1>2

\* Who has committed has begun.
LEMMA BegunStep == TypeOK /\ CommittedHaveBegun /\ [Next]_vars => CommittedHaveBegun'
<1> SUFFICES ASSUME TypeOK, CommittedHaveBegun, [Next]_vars,
                    NEW q \in Requests, NEW p \in during'[q]
             PROVE  stage'[p] # "idle"
  BY DEF CommittedHaveBegun
<1>1. p \in Requests /\ (p \in during[q] \/ stage'[p] # "idle")
  BY Grows
<1>2. CASE p \in during[q]
  BY <1>1, <1>2, Grows DEF CommittedHaveBegun
<1>3. QED
  BY <1>1, <1>2

\* The parameters of who has committed are for good.
LEMMA SameCall ==
  ASSUME TypeOK, CommittedHaveBegun, [Next]_vars, NEW q \in Requests, NEW p \in during[q]
  PROVE  call'[p] = call[p] /\ p \in during'[q] /\ p \in Requests
<1>1. p \in Requests /\ stage[p] # "idle"
  BY DEF CommittedHaveBegun, TypeOK
<1>2. QED
  BY <1>1, Grows

\* Each commit is noted by those it may concern.
LEMMA HeldStep == TypeOK /\ RoleIsHeld /\ [Next]_vars => RoleIsHeld'
<1> SUFFICES ASSUME TypeOK, RoleIsHeld, [Next]_vars, NEW q \in Requests, Running(q)'
             PROVE  CallerRole(q)' \in held'[q]
  BY DEF RoleIsHeld
<1>1. CASE UNCHANGED vars
  BY <1>1 DEF vars, rows, Running, CallerRole, RoleIsHeld
<1>2. ASSUME NEW r \in Requests, Begin(r) PROVE CallerRole(q)' \in held'[q]
  <2>1. PICK c \in Calls : /\ call' = [call EXCEPT ![r] = c]
                           /\ held' = [held EXCEPT ![r] = {role[c.space][c.by]}]
    BY <1>2 DEF Begin
  <2>2. CASE q = r
    BY <1>2, <2>1, <2>2 DEF Begin, rows, CallerRole, TypeOK
  <2>3. CASE q # r
    BY <1>2, <2>1, <2>3 DEF Begin, Go, rows, CallerRole, Running, RoleIsHeld, TypeOK
  <2>4. QED
    BY <2>2, <2>3
<1>3. ASSUME NEW r \in Requests, Handle(r) \/ Fail(r) PROVE CallerRole(q)' \in held'[q]
  <2>1. CASE q # r \/ Running(q)
    <3>1. Running(q)
      BY <1>3, <2>1, OneActs DEF Running
    <3>2. CASE Commits(r)
      BY <3>1, <3>2 DEF Commits, CallerRole
    <3>3. CASE UNCHANGED <<role, call, held>>
      BY <3>1, <3>3 DEF CallerRole, RoleIsHeld
    <3>4. QED
      BY <1>3, <3>2, <3>3, Kinds DEF Looks, Reads, rows
  <2>2. CASE q = r /\ ~Running(q)
    <3>1. ~Looks(r)
      BY <2>2 DEF Looks, Authorise, LoadTarget, LoadSettings, LoadKey, Running, At, Handle, Fail
    <3>2. QED
      BY <1>3, <2>2, <3>1, Kinds DEF Running, TypeOK
  <2>3. QED
    BY <2>1, <2>2
<1>4. QED
  BY <1>1, <1>2, <1>3 DEF Next

\* The role that require_workspace_role saw.
LEMMA WasHeldStep == TypeOK /\ RoleIsHeld /\ RoleWasHeld /\ [Next]_vars => RoleWasHeld'
<1> SUFFICES ASSUME TypeOK, RoleIsHeld, RoleWasHeld, [Next]_vars, NEW q \in Requests,
                    stage'[q] \in {"authorised", "loaded"}
             PROVE  seen'[q].caller \in held'[q] \cap AllowedRoles(call'[q].op)
  BY DEF RoleWasHeld
<1>1. CASE UNCHANGED <<stage[q], seen[q].caller>>
  BY <1>1, Grows DEF RoleWasHeld
<1>2. CASE ~UNCHANGED <<stage[q], seen[q].caller>>
  <2>1. PICK r \in Requests : Begin(r) \/ Handle(r) \/ Fail(r)
    BY <1>2 DEF Next, vars
  <2>2. r = q
    BY <1>2, <2>1, OneActs
  <2>3. ~Begin(q)
    BY DEF Begin, Go, TypeOK
  <2>4. stage[q] # "idle" /\ call'[q] = call[q]
    BY <2>1, <2>2, <2>3, OneActs
  <2>5. Looks(q)
    BY <2>1, <2>2, <2>3, Kinds DEF TypeOK
  <2>6. CASE Authorise(q)
    BY <2>4, <2>5, <2>6 DEF Authorise, Go, Looks, Reads, Running, RoleIsHeld, TypeOK, At
  <2>7. CASE LoadTarget(q) \/ LoadSettings(q) \/ LoadKey(q)
    <3>1. stage[q] = "authorised" /\ seen'[q].caller = seen[q].caller
      BY <2>7 DEF LoadTarget, LoadSettings, LoadKey, At, TypeOK
    <3>2. QED
      BY <2>4, <3>1, Grows DEF RoleWasHeld
  <2>8. QED
    BY <2>5, <2>6, <2>7 DEF Looks
<1>3. QED
  BY <1>1, <1>2

\* A workspace is emptied when it is deleted, and no late write finds it.
LEMMA EmptyStep == TypeOK /\ KnownRoles /\ DeletedSpaceIsEmpty /\ [Next]_vars => DeletedSpaceIsEmpty'
<1> SUFFICES ASSUME TypeOK, KnownRoles, DeletedSpaceIsEmpty, [Next]_vars,
                    NEW w \in Spaces, space'[w] = "deleted"
             PROVE  keys'[w] = {} /\ log'[w] = {} /\ \A u \in Users : role'[w][u] = "none"
  BY DEF DeletedSpaceIsEmpty
<1>1. CASE UNCHANGED rows
  BY <1>1 DEF rows, DeletedSpaceIsEmpty
<1>2. CASE ~UNCHANGED rows
  <2>1. PICK r \in Requests : Handle(r) \/ Fail(r)
    BY <1>2 DEF Next, vars, Begin
  <2>2. CASE Looks(r)
    BY <1>2, <2>2 DEF Looks, Reads
  <2>3. CASE /\ space[call[r].space] = "live"
             /\ log' = [log EXCEPT ![call[r].space] = @ \cup {r}]
             /\ UNCHANGED <<space, role, info, keys, call, seen, held, during>>
    BY <2>3 DEF DeletedSpaceIsEmpty, TypeOK
  <2>4. CASE Writes(r)
    <3>1. CASE space[w] = "deleted"
      <4>1. keys[w] = {} /\ log[w] = {} /\ \A u \in Users : role[w][u] = "none"
        BY <3>1 DEF DeletedSpaceIsEmpty
      <4>2. call[r].space \in Spaces /\ call[r].by \in Users
            /\ (At(r, "loaded", {"role", "remove"}) => call[r].target \in Users)
        BY CallTypes DEF At
      <4>3. CASE call[r].space # w
        <5>1. keys'[w] = keys[w] /\ log'[w] = log[w] /\ role'[w] = role[w]
          BY <2>4, <4>2, <4>3 DEF Writes, AddSpace, TypeOK
        <5>2. QED
          BY <4>1, <5>1
      <4>4. CASE call[r].space = w
        <5>1. \/ /\ UNCHANGED <<keys, log>> /\ role[w][call[r].target] = "none"
                 /\ \/ role' = role
                    \/ role' = [role EXCEPT ![w][call[r].target] = "none"]
              \/ UNCHANGED <<role, log>> /\ keys' = [keys EXCEPT ![w] = @ \ {call[r].target}]
          BY <2>4, <3>1, <4>1, <4>2, <4>4 DEF Writes, AddSpace, At
        <5>2. QED
          BY <4>1, <5>1 DEF TypeOK
      <4>5. QED
        BY <4>3, <4>4
    <3>2. CASE space[w] # "deleted"
      BY <2>4, <3>2, CallTypes DEF Writes, AddSpace, TypeOK
    <3>3. QED
      BY <3>1, <3>2
  <2>5. QED
    BY <2>1, <2>2, <2>3, <2>4, Kinds
<1>3. QED
  BY <1>1, <1>2

\* An entry is written after its commit and before its answer.
LEMMA AuditStep ==
    TypeOK /\ SpacesAreOld /\ AuditMatchesAnswers /\ [Next]_vars => AuditMatchesAnswers'
<1> SUFFICES ASSUME TypeOK, SpacesAreOld, AuditMatchesAnswers, [Next]_vars, NEW q \in Requests
             PROVE  /\ \A w \in Spaces :
                          q \in log'[w] => stage'[q] \in {"done", "logged"} /\ call'[q].space = w
                    /\ /\ At(q, "done", AuditedOps)'
                       /\ space'[call'[q].space] = "live"
                       => q \in log'[call'[q].space]
  BY DEF AuditMatchesAnswers
<1>2. CASE UNCHANGED <<space, log>>
  <2>1. ASSUME NEW w \in Spaces, q \in log'[w]
        PROVE  stage'[q] \in {"done", "logged"} /\ call'[q].space = w
    <3>1. stage[q] \in {"done", "logged"} /\ call[q].space = w
      BY <1>2, <2>1 DEF AuditMatchesAnswers
    <3>2. QED
      BY <3>1, Grows
  <2>2. CASE stage[q] = "done"
    BY <1>2, <2>1, <2>2, Grows DEF AuditMatchesAnswers, At
  <2>3. CASE stage[q] # "done"
    <3>1. ~At(q, "done", AuditedOps)'
      <4>1. SUFFICES ASSUME At(q, "done", AuditedOps)' PROVE FALSE
        OBVIOUS
      <4>2. PICK r \in Requests : Begin(r) \/ Handle(r) \/ Fail(r)
        BY <2>3, <4>1 DEF Next, vars, At
      <4>3. r = q /\ ~Begin(q)
        BY <2>3, <4>1, <4>2, OneActs DEF At, Begin, Go, TypeOK
      <4>4. call'[q] = call[q]
        BY <4>2, <4>3, OneActs
      <4>5. CASE Looks(q)
        BY <4>1, <4>4, <4>5 DEF Looks, At, Authorise, LoadTarget, LoadSettings, LoadKey, Go, TypeOK
      <4>6. CASE /\ Writes(q)
                 /\ stage' = [stage EXCEPT ![q] =
                         IF At(q, "lacking", {"list"}) \/ call[q].op = "delete"
                           THEN "done" ELSE "committed"]
        BY <4>1, <4>4, <4>6 DEF At, AuditedOps, TypeOK
      <4>7. CASE log' = [log EXCEPT ![call[q].space] = @ \cup {q}]
        <5>1. q \in log[call[q].space] /\ call[q].space \in Spaces
          BY <1>2, <4>7, CallTypes DEF TypeOK
        <5>2. QED
          BY <2>3, <4>2, <4>3, <5>1, OneActs DEF AuditMatchesAnswers
      <4>8. QED
        BY <4>2, <4>3, <4>5, <4>6, <4>7, Kinds
    <3>2. QED
      BY <2>1, <3>1
  <2>4. QED
    BY <2>2, <2>3
<1>3. CASE ~UNCHANGED <<space, log>>
  <2>1. PICK r \in Requests : Handle(r) \/ Fail(r)
    BY <1>3 DEF Next, vars, rows, Begin
  <2>2. call[r].space \in Spaces /\ call[q].space \in Spaces
    BY CallTypes
  <2>3. CASE /\ stage[r] = "committed"
             /\ stage' = [stage EXCEPT ![r] = "done"] \/ stage' = [stage EXCEPT ![r] = "logged"]
             /\ log' = [log EXCEPT ![call[r].space] = @ \cup {r}]
             /\ UNCHANGED <<space, call>>
    BY <2>2, <2>3 DEF AuditMatchesAnswers, At, TypeOK
  <2>4. CASE /\ Commits(r) /\ Writes(r)
             /\ stage' = [stage EXCEPT ![r] =
                     IF At(r, "lacking", {"list"}) \/ call[r].op = "delete"
                       THEN "done" ELSE "committed"]
    <3>1. /\ At(r, "begun", {"create"}) \/ At(r, "lacking", {"list"}) \/ At(r, "authorised", {"delete"})
          /\ \/ space[call[r].space] = "none" /\ UNCHANGED log
                /\ space' = [space EXCEPT ![call[r].space] = "live"]
             \/ /\ space' = [space EXCEPT ![call[r].space] = "deleted"]
                /\ log' = [log EXCEPT ![call[r].space] = {}]
      BY <1>3, <2>4 DEF Writes, AddSpace
    <3>2. UNCHANGED call /\ (q # r => stage'[q] = stage[q])
      BY <2>4 DEF Commits, TypeOK
    <3>3. ASSUME NEW w \in Spaces, q \in log'[w]
          PROVE  stage'[q] \in {"done", "logged"} /\ call'[q].space = w
      <4>1. q \in log[w]
        BY <3>1, <3>3 DEF TypeOK
      <4>2. stage[q] \in {"done", "logged"} /\ call[q].space = w
        BY <4>1 DEF AuditMatchesAnswers
      <4>3. QED
        BY <3>2, <4>2, Grows
    <3>4. ASSUME At(q, "done", AuditedOps)', space'[call'[q].space] = "live"
          PROVE  q \in log'[call'[q].space]
      <4>1. q # r
        BY <2>4, <3>1, <3>2, <3>4 DEF At, AuditedOps, TypeOK
      <4>2. At(q, "done", AuditedOps) /\ space[call[q].space] # "none"
        BY <3>2, <3>4, <4>1 DEF At, SpacesAreOld
      <4>3. space[call[q].space] = "live" /\ log'[call[q].space] = log[call[q].space]
        BY <2>2, <3>1, <3>2, <3>4, <4>2 DEF TypeOK
      <4>4. QED
        BY <3>2, <4>2, <4>3 DEF AuditMatchesAnswers
    <3>5. QED
      BY <3>3, <3>4
  <2>5. CASE Looks(r)
    BY <1>3, <2>5 DEF Looks, Reads, rows
  <2>6. QED
    BY <2>1, <2>3, <2>4, <2>5, Kinds
<1>4. QED
  BY <1>2, <1>3

\* What a step puts into the row of a member of an old workspace.
LEMMA NewOwners ==
  ASSUME TypeOK, CommittedHaveBegun, NEW r \in Requests, Handle(r) \/ Fail(r),
         NEW w \in Spaces, space[w] # "none", NEW u \in Users,
         role[w][u] # "owner", role'[w][u] = "owner"
  PROVE  /\ Commits(r) /\ At(r, "loaded", {"role"})
         /\ call[r].space = w /\ call[r].target = u /\ call[r].to = "owner"
<1>1. Commits(r) /\ Writes(r)
  BY Kinds DEF Looks, Reads, rows
<1>2. call[r].space \in Spaces /\ call[r].by \in Users
      /\ (At(r, "loaded", {"role", "remove"}) => call[r].target \in Users)
  BY CallTypes DEF At
<1>3. role \in [Spaces -> [Users -> Roles \cup {"none"}]]
  BY DEF TypeOK
<1>4. CASE At(r, "loaded", {"role"})
  <2>1. role' = [role EXCEPT ![call[r].space][call[r].target] = call[r].to]
    BY <1>1, <1>4 DEF Writes, At
  <2>2. QED
    BY <1>1, <1>2, <1>3, <1>4, <2>1 DEF At
<1>5. CASE ~At(r, "loaded", {"role"})
  <2>1. \/ space[call[r].space] = "none" /\ role' = [role EXCEPT ![call[r].space][call[r].by] = "owner"]
        \/ role' = [role EXCEPT ![call[r].space][call[r].target] = "none"]
        \/ role' = [role EXCEPT ![call[r].space] = [v \in Users |-> "none"]]
    BY <1>1, <1>5 DEF Writes, AddSpace
  <2>2. QED
    BY <1>2, <1>3, <2>1
<1>6. QED
  BY <1>1, <1>4, <1>5

\* A row that did not make its user an owner when a request read it.
LEMMA StillNoOwner ==
  ASSUME TypeOK, CommittedHaveBegun, [Next]_vars, NEW q \in Requests, Running(q),
         NEW w \in Spaces, space[w] # "none", NEW u \in Users,
         role[w][u] # "owner" \/ Promoted(q, u),
         \/ UNCHANGED <<stage[q], seen[q].caller>> \/ UNCHANGED role
  PROVE  role'[w][u] # "owner" \/ PromotedNext(q, u)
<1>1. CASE Promoted(q, u)
  BY <1>1, SameCall DEF Promoted, PromotedNext
<1>2. CASE role[w][u] # "owner" /\ role'[w][u] = "owner"
  <2>1. PICK r \in Requests : Handle(r) \/ Fail(r)
    BY <1>2 DEF Next, vars, rows, Begin
  <2>2. /\ Commits(r) /\ call[r].target = u /\ call[r].to = "owner" /\ At(r, "loaded", {"role"})
    BY <1>2, <2>1, NewOwners
  <2>3. r # q
    <3>1. stage'[r] # stage[r]
      BY <1>2, <2>1, <2>2, Kinds DEF Looks, Reads, rows, At, TypeOK
    <3>2. QED
      BY <1>2, <3>1
  <2>4. r \in during'[q] /\ call'[r] = call[r]
    BY <2>2, <2>3 DEF Commits, TypeOK
  <2>5. QED
    BY <2>2, <2>4 DEF PromotedNext
<1>3. QED
  BY <1>1, <1>2

LEMMA OwnersStep ==
    /\ TypeOK /\ SpacesAreOld /\ CommittedHaveBegun /\ RoleWasHeld /\ OwnersArePromoted
    /\ [Next]_vars
    => OwnersArePromoted'
<1> SUFFICES ASSUME TypeOK, SpacesAreOld, CommittedHaveBegun, RoleWasHeld, OwnersArePromoted,
                    [Next]_vars, NEW q \in Requests,
                    At(q, "authorised", {"role", "remove"})' \/ At(q, "loaded", {"role", "remove"})',
                    seen'[q].caller # "owner"
             PROVE  LET c == call'[q] IN
                    /\ At(q, "authorised", {"role", "remove"})' =>
                         role'[c.space][c.by] # "owner" \/ PromotedNext(q, c.by)
                    /\ At(q, "loaded", {"role", "remove"})' =>
                         /\ role'[c.space][c.target] # "owner" \/ PromotedNext(q, c.target)
                         /\ c.to # "owner"
  BY DEF OwnersArePromoted, Promoted, PromotedNext
<1>1. CASE UNCHANGED <<stage[q], seen[q].caller>>
  <2>1. call'[q] = call[q] /\ Running(q) /\ space[call[q].space] # "none"
    BY <1>1, Grows DEF At, Running, SpacesAreOld
  <2>2. call[q].space \in Spaces /\ call[q].by \in Users /\ call[q].target \in Users
    BY <2>1, CallTypes DEF At
  <2>3. ASSUME At(q, "authorised", {"role", "remove"})'
        PROVE  role'[call[q].space][call[q].by] # "owner" \/ PromotedNext(q, call[q].by)
    <3>1. role[call[q].space][call[q].by] # "owner" \/ Promoted(q, call[q].by)
      BY <1>1, <2>1, <2>3 DEF At, OwnersArePromoted
    <3>2. QED
      BY <1>1, <2>1, <2>2, <3>1, StillNoOwner
  <2>4. ASSUME At(q, "loaded", {"role", "remove"})'
        PROVE  /\ role'[call[q].space][call[q].target] # "owner" \/ PromotedNext(q, call[q].target)
               /\ call[q].to # "owner"
    <3>1. /\ role[call[q].space][call[q].target] # "owner" \/ Promoted(q, call[q].target)
          /\ call[q].to # "owner"
      BY <1>1, <2>1, <2>4 DEF At, OwnersArePromoted
    <3>2. QED
      BY <1>1, <2>1, <2>2, <3>1, StillNoOwner
  <2>5. QED
    BY <2>1, <2>3, <2>4
<1>2. CASE ~UNCHANGED <<stage[q], seen[q].caller>>
  <2>1. PICK r \in Requests : Begin(r) \/ Handle(r) \/ Fail(r)
    BY <1>2 DEF Next, vars
  <2>2. r = q
    BY <1>2, <2>1, OneActs
  <2>3. ~Begin(q)
    BY DEF Begin, Go, TypeOK, At
  <2>4. stage[q] # "idle" /\ call'[q] = call[q] /\ call[q].space \in Spaces /\ call[q].by \in Users
        /\ call[q].target \in Users
    BY <2>1, <2>2, <2>3, OneActs, CallTypes DEF At
  <2>5. Looks(q) /\ UNCHANGED role
    BY <2>1, <2>2, <2>3, Kinds DEF TypeOK, At, Looks, Reads, rows
  <2>6. CASE Authorise(q)
    <3>1. stage'[q] = "authorised" /\ seen'[q].caller = role[call[q].space][call[q].by]
      BY <2>4, <2>6 DEF Authorise, Go, At, CallerRole, TypeOK
    <3>2. QED
      BY <2>4, <2>5, <3>1 DEF At
  <2>7. CASE LoadTarget(q)
    <3> DEFINE c == call[q]
    <3>1. /\ stage[q] = "authorised" /\ stage'[q] = "loaded" /\ c.op \in {"role", "remove"}
          /\ seen'[q].caller = seen[q].caller
          /\ TargetRole(q) # "owner"
          /\ ~(c.op = "role" /\ seen[q].caller = "admin" /\ c.to = "owner")
      BY <2>4, <2>7 DEF LoadTarget, Go, At, TypeOK
    <3>2. c.to # "owner"
      <4>1. seen[q].caller = "admin"
        BY <3>1 DEF RoleWasHeld, AllowedRoles
      <4>2. QED
        BY <3>1, <4>1, CallTypes
    <3>3. role[c.space][c.target] # "owner" \/ Promoted(q, c.target)
      <4>1. CASE c.target = c.by
        BY <3>1, <4>1 DEF OwnersArePromoted, At
      <4>2. CASE c.target # c.by
        BY <3>1, <4>2 DEF TargetRole
      <4>3. QED
        BY <4>1, <4>2
    <3>4. role'[c.space][c.target] # "owner" \/ PromotedNext(q, c.target)
      BY <2>5, <3>3, SameCall DEF Promoted, PromotedNext
    <3>5. QED
      BY <2>4, <3>1, <3>2, <3>4 DEF At
  <2>8. QED
    BY <1>2, <2>4, <2>5, <2>6, <2>7 DEF Looks, LoadSettings, LoadKey, At
<1>3. QED
  BY <1>1, <1>2

\* The settings a request has read are those in the row, or it was overtaken.
LEMMA SettingsStep ==
    TypeOK /\ CommittedHaveBegun /\ SettingsAreFresh /\ [Next]_vars => SettingsAreFresh'
<1> SUFFICES ASSUME TypeOK, CommittedHaveBegun, SettingsAreFresh, [Next]_vars, NEW q \in Requests,
                    At(q, "loaded", {"settings"})', ~SettingsChanged(q)'
             PROVE  /\ seen'[q].docs = info'[call'[q].space].docs
                    /\ seen'[q].msgs = info'[call'[q].space].msgs
  BY DEF SettingsAreFresh
<1>1. CASE UNCHANGED <<stage[q], seen[q]>>
  <2>1. call'[q] = call[q] /\ At(q, "loaded", {"settings"}) /\ call[q].space \in Spaces
    BY <1>1, Grows, CallTypes DEF At
  <2>2. ~SettingsChanged(q)
    BY <2>1, SameCall DEF SettingsChanged
  <2>3. /\ seen[q].docs = info[call[q].space].docs
        /\ seen[q].msgs = info[call[q].space].msgs
    BY <2>1, <2>2 DEF SettingsAreFresh
  <2>4. /\ info'[call[q].space].docs = info[call[q].space].docs
        /\ info'[call[q].space].msgs = info[call[q].space].msgs
    <3>1. SUFFICES ASSUME info' # info
                   PROVE  /\ info'[call[q].space].docs = info[call[q].space].docs
                          /\ info'[call[q].space].msgs = info[call[q].space].msgs
      OBVIOUS
    <3>2. PICK r \in Requests : Handle(r) \/ Fail(r)
      BY <3>1 DEF Next, vars, rows, Begin
    <3>3. Commits(r) /\ Writes(r) /\ stage'[r] # stage[r]
      BY <3>1, <3>2, Kinds DEF Looks, Reads, rows, Writes, AddSpace, At, TypeOK
    <3>4. r \in during'[q] /\ call'[r] = call[r]
      BY <1>1, <2>1, <3>3 DEF Commits, Running, At, TypeOK
    <3>5. ~(call[r].op = "settings" /\ call[r].space = call[q].space)
      BY <2>1, <3>4 DEF SettingsChanged
    <3>6. call[r].space \in Spaces /\ info \in [Spaces -> Infos]
      BY CallTypes DEF TypeOK, Infos
    <3>7. CASE At(r, "authorised", {"update"})
      <4>1. info' = [info EXCEPT ![call[r].space].name = r]
        BY <3>3, <3>7 DEF Writes, At
      <4>2. QED
        BY <2>1, <3>6, <4>1 DEF Infos
    <3>8. CASE At(r, "loaded", {"settings"})
      <4>1. call[r].space # call[q].space
        BY <3>5, <3>8 DEF At
      <4>2. info'[call[q].space] = info[call[q].space]
        BY <2>1, <3>3, <3>6, <3>8, <4>1 DEF Writes, At
      <4>3. QED
        BY <2>1, <4>2
    <3>9. QED
      BY <3>1, <3>3, <3>7, <3>8 DEF Writes, AddSpace
  <2>5. QED
    BY <1>1, <2>1, <2>3, <2>4
<1>2. CASE ~UNCHANGED <<stage[q], seen[q]>>
  <2>1. PICK r \in Requests : Begin(r) \/ Handle(r) \/ Fail(r)
    BY <1>2 DEF Next, vars
  <2>2. r = q /\ ~Begin(q)
    BY <1>2, <2>1, OneActs DEF Begin, Go, TypeOK, At
  <2>3. Looks(q) /\ call'[q] = call[q] /\ call[q].space \in Spaces
    BY <2>1, <2>2, Kinds, OneActs, CallTypes DEF TypeOK, At
  <2>4. LoadSettings(q)
    BY <2>2, <2>3 DEF Looks, LoadKey, LoadTarget, Authorise, Go, At, TypeOK
  <2>5. QED
    BY <2>3, <2>4 DEF LoadSettings, Looks, Reads, rows, Go, At, TypeOK
<1>3. QED
  BY <1>1, <1>2

-----------------------------------------------------------------------------
(***************************************************************************)
(* The theorems                                                            *)
(***************************************************************************)
LEMMA SpaceInvInit == Init => SpaceInv
<1> SUFFICES ASSUME Init PROVE SpaceInv
  OBVIOUS
<1>1. TypeOK
  BY TypeInit
<1>2. KnownRoles /\ SpacesAreOld /\ CommittedHaveBegun /\ RoleIsHeld /\ RoleWasHeld
      /\ OwnersArePromoted /\ SettingsAreFresh
  BY DEF Init, KnownRoles, SpacesAreOld, CommittedHaveBegun, RoleIsHeld, RoleWasHeld,
         OwnersArePromoted, SettingsAreFresh, At, Running
<1>3. DeletedSpaceIsEmpty /\ AuditMatchesAnswers
  BY DEF Init, DeletedSpaceIsEmpty, AuditMatchesAnswers, At
<1>4. QED
  BY <1>1, <1>2, <1>3 DEF SpaceInv

LEMMA SpaceInvStep == SpaceInv /\ [Next]_vars => SpaceInv'
  BY TypeStep, KnownRolesStep, OldStep, BegunStep, HeldStep, WasHeldStep, OwnersStep,
     SettingsStep, EmptyStep, AuditStep DEF SpaceInv

\* The inductive invariant holds.
THEOREM SpaceInvariant == Spec => []SpaceInv
  BY SpaceInvInit, SpaceInvStep, PTL DEF Spec

\* The types: every row, request and history stays in its set.
THEOREM TypeCorrect == Spec => []TypeOK
<1>1. SpaceInv => TypeOK
  BY DEF SpaceInv
<1>2. QED
  BY <1>1, SpaceInvariant, PTL

\* Nothing is left of a deleted workspace and nothing comes back, whatever
\* request was under way when it was deleted.
THEOREM DeletedSpaceIsEmptyHolds == Spec => []DeletedSpaceIsEmpty
<1>1. SpaceInv => DeletedSpaceIsEmpty
  BY DEF SpaceInv
<1>2. QED
  BY <1>1, SpaceInvariant, PTL

\* An audit entry is there only for a committed change, and an answered change
\* has its entry.
THEOREM AuditMatchesAnswersHolds == Spec => []AuditMatchesAnswers
<1>1. SpaceInv => AuditMatchesAnswers
  BY DEF SpaceInv
<1>2. QED
  BY <1>1, SpaceInvariant, PTL

\* Every change to a live workspace was made for somebody with the authority.
THEOREM ChangesWereAuthorisedHolds == Spec => ChangesWereAuthorised
<1>1. ASSUME SpaceInv, [Next]_vars, NEW w \in Spaces, space[w] = "live", space'[w] = "live"
      PROVE  /\ role'[w] # role[w] \/ info'[w] # info[w] \/ keys'[w] # keys[w] =>
                  \E r \in Requests : /\ Changes(r) /\ call[r].space = w
                                      /\ held[r] \cap {"admin", "owner"} # {}
             /\ (\E u \in Users : role[w][u] # "owner" /\ role'[w][u] = "owner") =>
                  \E r \in Requests : Changes(r) /\ call[r].space = w /\ "owner" \in held[r]
             /\ \A u \in Users : role[w][u] = "owner" /\ role'[w][u] # "owner" =>
                  \E r \in Requests :
                      /\ Changes(r) /\ call[r].space = w
                      /\ \/ "owner" \in held[r]
                         \/ \E q \in during[r] : call[q].target = u /\ call[q].to = "owner"
  <2>1. SUFFICES ASSUME role'[w] # role[w] \/ info'[w] # info[w] \/ keys'[w] # keys[w]
                 PROVE  \E r \in Requests :
                          /\ Changes(r) /\ call[r].space = w
                          /\ held[r] \cap {"admin", "owner"} # {}
                          /\ \A u \in Users :
                               /\ role[w][u] # "owner" /\ role'[w][u] = "owner" => "owner" \in held[r]
                               /\ role[w][u] = "owner" /\ role'[w][u] # "owner" =>
                                    "owner" \in held[r] \/ Promoted(r, u)
    BY DEF Promoted
  <2>2. TypeOK /\ CommittedHaveBegun /\ RoleWasHeld /\ OwnersArePromoted
    BY <1>1 DEF SpaceInv
  <2>3. PICK r \in Requests : Handle(r) \/ Fail(r)
    BY <1>1, <2>1 DEF Next, vars, rows, Begin
  <2>4. /\ Commits(r) /\ Writes(r)
        /\ stage' = [stage EXCEPT ![r] = IF At(r, "lacking", {"list"}) \/ call[r].op = "delete"
                                           THEN "done" ELSE "committed"]
    BY <2>1, <2>2, <2>3, Kinds DEF Looks, Reads, rows
  <2>5. /\ call[r].space \in Spaces /\ call[r].by \in Users
        /\ (At(r, "loaded", {"role", "remove"}) => call[r].target \in Users)
    BY <2>2, CallTypes DEF At
  <2>6. /\ role \in [Spaces -> [Users -> Roles \cup {"none"}]]
        /\ info \in [Spaces -> Infos] /\ keys \in [Spaces -> SUBSET Requests]
        /\ space \in [Spaces -> {"none", "live", "deleted"}] /\ r \in DOMAIN stage
    BY <2>2 DEF TypeOK, Infos
  <2>7. /\ call[r].space = w /\ stage[r] \in {"authorised", "loaded"}
        /\ call[r].op # "delete"
    <3>1. CASE AddSpace(call[r].space, call[r].by)
      <4>1. call[r].space # w
        BY <1>1, <3>1 DEF AddSpace
      <4>2. QED
        BY <2>1, <2>5, <2>6, <3>1, <4>1 DEF AddSpace
    <3>2. CASE At(r, "authorised", {"delete"}) /\ space[call[r].space] = "live"
      <4>1. call[r].space # w
        BY <1>1, <2>4, <2>6, <3>2 DEF Writes, AddSpace, At
      <4>2. QED
        BY <2>1, <2>4, <2>5, <2>6, <3>2, <4>1 DEF Writes, AddSpace, At
    <3>3. CASE ~AddSpace(call[r].space, call[r].by) /\ ~At(r, "authorised", {"delete"})
      <4>1. stage[r] \in {"authorised", "loaded"} /\ call[r].op # "delete"
        BY <2>4, <3>3 DEF Writes, At
      <4>2. CASE call[r].space # w
        BY <2>1, <2>4, <2>6, <3>3, <4>2 DEF Writes
      <4>3. QED
        BY <4>1, <4>2
    <3>4. QED
      BY <2>4, <3>1, <3>2, <3>3 DEF Writes, At
  <2>8. Changes(r)
    BY <2>4, <2>6, <2>7 DEF Changes, At
  <2>9. seen[r].caller \in held[r] /\ seen[r].caller \in {"admin", "owner"}
    BY <2>2, <2>7 DEF RoleWasHeld, AllowedRoles
  <2>10. ASSUME NEW u \in Users, (role[w][u] = "owner") # (role'[w][u] = "owner"),
                seen[r].caller # "owner"
         PROVE  role[w][u] = "owner" /\ Promoted(r, u)
    <3>1. At(r, "loaded", {"role", "remove"}) /\ call[r].target = u
      <4>1. role' # role
        BY <2>10
      <4>2. \/ /\ At(r, "loaded", {"role"})
               /\ role' = [role EXCEPT ![w][call[r].target] = call[r].to]
            \/ /\ At(r, "loaded", {"remove"})
               /\ role' = [role EXCEPT ![w][call[r].target] = "none"]
        BY <2>4, <2>7, <4>1 DEF Writes, At
      <4>3. QED
        BY <2>6, <2>10, <4>2 DEF At
    <3>2. /\ role[w][u] # "owner" \/ Promoted(r, u)
          /\ call[r].to # "owner"
      BY <2>2, <2>7, <2>10, <3>1 DEF OwnersArePromoted
    <3>3. role'[w][u] # "owner"
      <4>1. space[w] # "none"
        BY <1>1
      <4>2. CASE role[w][u] # "owner" /\ role'[w][u] = "owner"
        BY <2>2, <2>3, <3>2, <4>1, <4>2, NewOwners
      <4>3. QED
        BY <2>10, <4>2
    <3>4. QED
      BY <2>10, <3>2, <3>3
  <2>11. QED
    BY <2>7, <2>8, <2>9, <2>10
<1>2. SpaceInv /\ [Next]_vars =>
        [\A w \in Spaces :
           space[w] = "live" /\ space'[w] = "live" =>
             /\ role'[w] # role[w] \/ info'[w] # info[w] \/ keys'[w] # keys[w] =>
                  \E r \in Requests : /\ Changes(r) /\ call[r].space = w
                                      /\ held[r] \cap {"admin", "owner"} # {}
             /\ (\E u \in Users : role[w][u] # "owner" /\ role'[w][u] = "owner") =>
                  \E r \in Requests : Changes(r) /\ call[r].space = w /\ "owner" \in held[r]
             /\ \A u \in Users : role[w][u] = "owner" /\ role'[w][u] # "owner" =>
                  \E r \in Requests :
                      /\ Changes(r) /\ call[r].space = w
                      /\ \/ "owner" \in held[r]
                         \/ \E q \in during[r] : call[q].target = u /\ call[q].to = "owner"
        ]_vars
  BY <1>1
<1>3. QED
  BY <1>2, SpaceInvariant, PTL DEF Spec, ChangesWereAuthorised

\* A request for the settings undoes only what was committed while it ran.
THEOREM OnlyOverlappingWritesAreLostHolds == Spec => OnlyOverlappingWritesAreLost
<1>1. ASSUME SpaceInv, [Next]_vars, NEW w \in Spaces, NEW r \in Requests,
             Changes(r), call[r].op = "settings", call[r].space = w,
             \/ call[r].to # "docs" /\ info'[w].docs # info[w].docs
             \/ call[r].to # "msgs" /\ info'[w].msgs # info[w].msgs
      PROVE  \E q \in during[r] : call[q].op = "settings" /\ call[q].space = w
  <2>1. TypeOK /\ SettingsAreFresh
    BY <1>1 DEF SpaceInv
  <2>2. PICK p \in Requests : Begin(p) \/ Handle(p) \/ Fail(p)
    BY <1>1 DEF Next, vars, Changes
  <2>3. p = r /\ ~Begin(r)
    BY <1>1, <2>1, <2>2, OneActs DEF Changes, Begin, Go, TypeOK
  <2>4. Writes(r)
    BY <1>1, <2>1, <2>2, <2>3, Kinds
       DEF Changes, Looks, Authorise, LoadTarget, LoadSettings, LoadKey, Go, At, TypeOK
  <2>5. /\ At(r, "loaded", {"settings"})
        /\ info' = [info EXCEPT ![w].docs = IF call[r].to = "docs" THEN r ELSE seen[r].docs,
                                ![w].msgs = IF call[r].to = "msgs" THEN r ELSE seen[r].msgs]
    BY <1>1, <2>4 DEF Writes, At
  <2>6. info \in [Spaces -> Infos]
    BY <2>1 DEF TypeOK, Infos
  <2>7. /\ call[r].to # "docs" => info'[w].docs = seen[r].docs
        /\ call[r].to # "msgs" => info'[w].msgs = seen[r].msgs
    BY <2>5, <2>6 DEF Infos
  <2>8. QED
    BY <1>1, <2>1, <2>5, <2>7 DEF SettingsAreFresh, SettingsChanged
<1>2. SpaceInv /\ [Next]_vars =>
        [\A w \in Spaces, r \in Requests :
           /\ Changes(r) /\ call[r].op = "settings" /\ call[r].space = w
           /\ \/ call[r].to # "docs" /\ info'[w].docs # info[w].docs
              \/ call[r].to # "msgs" /\ info'[w].msgs # info[w].msgs
           => \E q \in during[r] : call[q].op = "settings" /\ call[q].space = w
        ]_vars
  BY <1>1
<1>3. QED
  BY <1>2, SpaceInvariant, PTL DEF Spec, OnlyOverlappingWritesAreLost
=============================================================================
