------------------------------ MODULE Workspaces ------------------------------
(***************************************************************************)
(* Workspaces, their members, settings, API keys and audit log             *)
(* (routes/workspaces.py, routes/api_keys.py, routes/audit.py,             *)
(* dependencies.py, services/audit/service.py).                            *)
(*                                                                         *)
(* Every request has a session of its own and awaits each statement, so    *)
(* what it read is old when it writes: the caller's role is read by the    *)
(* dependency require_workspace_role, the target row by the handler, the   *)
(* change is one commit and its audit entry is a second one. A row is read *)
(* as committed at that moment, and written without any version check.     *)
(***************************************************************************)
EXTENDS Naturals, FiniteSets

CONSTANTS
    Users,
    Spaces,       \* workspace ids
    Requests,
    Founder,      \* the user who created the workspace First
    First,
    Nothing       \* the parameter of a call that takes none, the initial value

ASSUME UsersAssumption == Founder \in Users /\ First \in Spaces
ASSUME NothingAssumption == Nothing \notin Users \cup Spaces \cup Requests

VARIABLES
    space,        \* space[w] \in {"none", "live", "deleted"}
    role,         \* role[w][u]: the row of workspace_members, or "none"
    info,         \* info[w].name, .docs and .msgs: the request that wrote it last
    keys,         \* keys[w]: the API keys, named by the request that created them
    log,          \* log[w]: the audit entries, named by the request
    call,         \* call[r]: the endpoint and its parameters
    stage,        \* stage[r]: how far r is, see Stages
    seen,         \* seen[r]: what r has read: caller, target and settings
    held,         \* history: held[r]: the roles its caller has had since r began
    during        \* history: during[r]: the requests that committed since r began

rows    == <<space, role, info, keys, log>>
vars    == <<rows, call, stage, seen, held, during>>

Roles  == {"member", "admin", "owner"}
Stages == {"idle", "begun", "lacking", "authorised", "loaded",
           "committed", "done", "logged", "refused", "error"}
Fields == {"docs", "msgs"}

-----------------------------------------------------------------------------
(***************************************************************************)
(* The endpoints                                                           *)
(***************************************************************************)
ListOps    == {"members", "key_list", "audit_list"}
StaffOps   == {"update", "role", "remove", "settings", "new_key", "drop_key"} \cup ListOps
AuditedOps == {"create", "update", "role", "remove", "settings", "new_key", "drop_key"}

\* The workspace of "create" and "list" is the id that uuid4 will draw if a row
\* is made. "viewer" is a role the documentation names and the code does not know.
Calls ==
    LET Call(ops, ws, ts, tos) ==
            [op : ops, by : Users, space : ws, target : ts, to : tos]
    IN       Call({"create", "list", "get", "update", "delete", "new_key"} \cup ListOps,
                  Spaces, {Nothing}, {"none"})
        \cup Call({"role"}, Spaces, Users, Roles \cup {"viewer"})
        \cup Call({"remove"}, Spaces, Users, {"none"})
        \cup Call({"settings"}, Spaces, {Nothing}, Fields)
        \cup Call({"drop_key"}, Spaces, Requests, {"none"})

NoCall  == [op |-> "none", by |-> Founder, space |-> First, target |-> Nothing, to |-> "none"]
NotSeen == [caller |-> "none", target |-> "none", docs |-> Nothing, msgs |-> Nothing]

\* The roles require_workspace_role is given.
AllowedRoles(op) == IF op = "delete" THEN {"owner"} ELSE {"admin", "owner"}

TypeOK ==
    /\ space \in [Spaces -> {"none", "live", "deleted"}]
    /\ role \in [Spaces -> [Users -> Roles \cup {"none"}]]
    /\ info \in [Spaces -> [name : Requests \cup {Nothing}, docs : Requests \cup {Nothing},
                            msgs : Requests \cup {Nothing}]]
    /\ keys \in [Spaces -> SUBSET Requests]
    /\ log \in [Spaces -> SUBSET Requests]
    /\ call \in [Requests -> Calls \cup {NoCall}]
    /\ stage \in [Requests -> Stages]
    /\ seen \in [Requests -> [caller : Roles \cup {"none"}, target : Roles \cup {"none"},
                              docs : Requests \cup {Nothing}, msgs : Requests \cup {Nothing}]]
    /\ held \in [Requests -> SUBSET (Roles \cup {"none"})]
    /\ during \in [Requests -> SUBSET Requests]

\* No endpoint adds a member: the rows of the others are there from the start.
Init ==
    /\ space = [w \in Spaces |-> IF w = First THEN "live" ELSE "none"]
    /\ role \in [Spaces -> [Users -> Roles \cup {"none"}]]
    /\ \A w \in Spaces, u \in Users :
          IF w # First THEN role[w][u] = "none" ELSE u = Founder => role[w][u] = "owner"
    /\ info = [w \in Spaces |-> [name |-> Nothing, docs |-> Nothing, msgs |-> Nothing]]
    /\ keys = [w \in Spaces |-> {}]
    /\ log = [w \in Spaces |-> {}]
    /\ call = [r \in Requests |-> NoCall]
    /\ stage = [r \in Requests |-> "idle"]
    /\ seen = [r \in Requests |-> NotSeen]
    /\ held = [r \in Requests |-> {}]
    /\ during = [r \in Requests |-> {}]

-----------------------------------------------------------------------------
(***************************************************************************)
(* Steps that all requests share                                           *)
(***************************************************************************)
At(r, s, ops) == stage[r] = s /\ call[r].op \in ops
Go(r, s)      == stage' = [stage EXCEPT ![r] = s]
Running(r)    == stage[r] \in {"begun", "lacking", "authorised", "loaded"}

\* The role of the caller in the workspace of the request.
CallerRole(r) == role[call[r].space][call[r].by]

\* A request that only reads at this step.
Reads(r) == UNCHANGED <<rows, call, held, during>>

\* A commit by r is noted by the requests that are running.
Commits(r) ==
    /\ held' = [q \in Requests |->
                  IF Running(q) THEN held[q] \cup {role'[call[q].space][call[q].by]}
                                ELSE held[q]]
    /\ during' = [q \in Requests |->
                    IF Running(q) /\ q # r THEN during[q] \cup {r} ELSE during[q]]
    /\ UNCHANGED <<call, seen>>

\* get_current_user has accepted the token of the caller.
Begin(r) ==
    /\ stage[r] = "idle"
    /\ \E c \in Calls :
          /\ call' = [call EXCEPT ![r] = c]
          /\ held' = [held EXCEPT ![r] = {role[c.space][c.by]}]
    /\ Go(r, "begun")
    /\ UNCHANGED <<rows, seen, during>>

\* get_workspace_member: the caller's row, if the workspace is there.
MayEnter(r) == space[call[r].space] = "live" /\ CallerRole(r) # "none"

\* require_workspace_role: 404 for strangers, 403 for other roles.
Authorise(r) ==
    /\ At(r, "begun", StaffOps \cup {"delete"})
    /\ IF MayEnter(r) /\ CallerRole(r) \in AllowedRoles(call[r].op)
         THEN /\ seen' = [seen EXCEPT ![r].caller = CallerRole(r)]
              /\ Go(r, "authorised")
         ELSE Go(r, "refused") /\ UNCHANGED seen
    /\ Reads(r)

\* The connection fails or the server stops: the transaction is rolled back,
\* and an audit entry that was still to be written is not.
Fail(r) ==
    /\ Running(r) \/ stage[r] = "committed"
    /\ Go(r, "error")
    /\ Reads(r) /\ UNCHANGED seen

-----------------------------------------------------------------------------
(***************************************************************************)
(* create_workspace, list_workspaces, get_workspace                        *)
(***************************************************************************)
\* The workspace and its owner, in one transaction.
AddSpace(w, u) ==
    /\ space[w] = "none"
    /\ space' = [space EXCEPT ![w] = "live"]
    /\ role' = [role EXCEPT ![w][u] = "owner"]
    /\ UNCHANGED <<info, keys, log>>

CreateWorkspace(r) ==
    /\ At(r, "begun", {"create"})
    /\ AddSpace(call[r].space, call[r].by)
    /\ Go(r, "committed")
    /\ Commits(r)

\* The live workspaces of a user.
SpacesOf(u) == {w \in Spaces : space[w] = "live" /\ role[w][u] # "none"}

ListWorkspaces(r) ==
    /\ At(r, "begun", {"list"})
    /\ Go(r, IF SpacesOf(call[r].by) = {} THEN "lacking" ELSE "done")
    /\ Reads(r) /\ UNCHANGED seen

\* The default workspace of a user for whom none was found; without audit entry.
AddDefaultWorkspace(r) ==
    /\ At(r, "lacking", {"list"})
    /\ AddSpace(call[r].space, call[r].by)
    /\ Go(r, "done")
    /\ Commits(r)

\* The row of the caller first, whether the workspace is active or not.
GetWorkspace(r) ==
    /\ At(r, "begun", {"get"})
    /\ Go(r, IF MayEnter(r) THEN "done" ELSE "refused")
    /\ Reads(r) /\ UNCHANGED seen

\* The lists for staff: the rows of this workspace and of no other, as they are
\* when they are read, which may be after the caller lost the role.
Lists(r, op) ==
    /\ At(r, "authorised", {op})
    /\ Go(r, "done")
    /\ Reads(r) /\ UNCHANGED seen

ListMembers(r)   == Lists(r, "members")
ListApiKeys(r)   == Lists(r, "key_list")
ListAuditLogs(r) == Lists(r, "audit_list")

-----------------------------------------------------------------------------
(***************************************************************************)
(* What a handler reads before it writes                                   *)
(***************************************************************************)
\* The session answers with the caller's own row as it read it before.
TargetRole(r) ==
    LET c == call[r] IN
    IF c.target = c.by /\ role[c.space][c.by] # "none" THEN seen[r].caller
                                                       ELSE role[c.space][c.target]

\* Mutant of LoadTarget: admins may promote to owner.
LoadTargetPromoting(r) ==
    /\ At(r, "authorised", {"role", "remove"})
    /\ IF call[r].to = "viewer" THEN Go(r, "error") /\ UNCHANGED seen
       ELSE IF TargetRole(r) = "none" \/ (TargetRole(r) = "owner" /\ seen[r].caller # "owner")
         THEN Go(r, "refused") /\ UNCHANGED seen
         ELSE /\ seen' = [seen EXCEPT ![r].target = TargetRole(r)]
              /\ Go(r, "loaded")
    /\ Reads(r)

\* The checks of update_member_role and remove_member, in the order that matters.
LoadTarget(r) ==
    LET c == call[r]
        forbidden == \/ c.op = "role" /\ seen[r].caller = "admin" /\ c.to = "owner"
                     \/ TargetRole(r) = "owner" /\ seen[r].caller # "owner"
    IN
    /\ At(r, "authorised", {"role", "remove"})
    /\ IF c.to = "viewer" THEN Go(r, "error") /\ UNCHANGED seen
       ELSE IF forbidden \/ TargetRole(r) = "none" THEN Go(r, "refused") /\ UNCHANGED seen
       ELSE /\ seen' = [seen EXCEPT ![r].target = TargetRole(r)]
            /\ Go(r, "loaded")
    /\ Reads(r)

\* Mutant of LoadSettings: the other field is filled with its default.
LoadSettingsDefaults(r) ==
    /\ At(r, "authorised", {"settings"})
    /\ Go(r, IF space[call[r].space] = "live" THEN "loaded" ELSE "refused")
    /\ Reads(r) /\ UNCHANGED seen

LoadSettings(r) ==
    LET i == info[call[r].space] IN
    /\ At(r, "authorised", {"settings"})
    /\ IF space[call[r].space] = "live"
         THEN /\ seen' = [seen EXCEPT ![r].docs = i.docs, ![r].msgs = i.msgs]
              /\ Go(r, "loaded")
         ELSE Go(r, "refused") /\ UNCHANGED seen
    /\ Reads(r)

LoadKey(r) ==
    /\ At(r, "authorised", {"drop_key"})
    /\ Go(r, IF call[r].target \in keys[call[r].space] THEN "loaded" ELSE "refused")
    /\ Reads(r) /\ UNCHANGED seen

-----------------------------------------------------------------------------
(***************************************************************************)
(* The commits. An UPDATE that finds its row gone raises StaleDataError, a *)
(* DELETE that does only warns, an INSERT fails its foreign key.           *)
(***************************************************************************)
\* Mutant of RaisesAtCommit: the failed commit is answered like a success.
RaisesUnnoticed(r) == Go(r, "done") /\ Reads(r) /\ UNCHANGED seen

\* The answer is 500 and nothing is written.
RaisesAtCommit(r) == Go(r, "error") /\ Reads(r) /\ UNCHANGED seen

UpdateWorkspace(r) ==
    LET w == call[r].space IN
    /\ At(r, "authorised", {"update"})
    /\ \/ /\ space[w] = "live"
          /\ info' = [info EXCEPT ![w].name = r]
          /\ UNCHANGED <<space, role, keys, log>>
          /\ Go(r, "committed") /\ Commits(r)
       \/ /\ space[w] # "live"
          /\ Go(r, "refused") /\ Reads(r) /\ UNCHANGED seen

\* A role that equals the one read is no change to the ORM, and no UPDATE.
UpdateMemberRole(r) ==
    LET c == call[r] IN
    /\ At(r, "loaded", {"role"})
    /\ \/ /\ role[c.space][c.target] # "none" \/ c.to = seen[r].target
          /\ role' = IF c.to = seen[r].target THEN role
                     ELSE [role EXCEPT ![c.space][c.target] = c.to]
          /\ UNCHANGED <<space, info, keys, log>>
          /\ Go(r, "committed") /\ Commits(r)
       \/ /\ role[c.space][c.target] = "none" /\ c.to # seen[r].target
          /\ RaisesAtCommit(r)

RemoveMember(r) ==
    LET c == call[r] IN
    /\ At(r, "loaded", {"remove"})
    /\ role' = [role EXCEPT ![c.space][c.target] = "none"]
    /\ UNCHANGED <<space, info, keys, log>>
    /\ Go(r, "committed") /\ Commits(r)

\* The whole JSON column is written: the field of the request and the other
\* one as it was read.
UpdateSettings(r) ==
    LET w == call[r].space IN
    /\ At(r, "loaded", {"settings"})
    /\ \/ /\ space[w] = "live"
          /\ info' = [info EXCEPT
                        ![w].docs = IF call[r].to = "docs" THEN r ELSE seen[r].docs,
                        ![w].msgs = IF call[r].to = "msgs" THEN r ELSE seen[r].msgs]
          /\ UNCHANGED <<space, role, keys, log>>
          /\ Go(r, "committed") /\ Commits(r)
       \/ space[w] # "live" /\ RaisesAtCommit(r)

\* Mutant of CreateKey: the row has no foreign key.
CreateKeyUnchecked(r) ==
    /\ At(r, "authorised", {"new_key"})
    /\ keys' = [keys EXCEPT ![call[r].space] = @ \cup {r}]
    /\ UNCHANGED <<space, role, info, log>>
    /\ Go(r, "committed") /\ Commits(r)

CreateKey(r) ==
    LET w == call[r].space IN
    /\ At(r, "authorised", {"new_key"})
    /\ \/ /\ space[w] = "live"
          /\ keys' = [keys EXCEPT ![w] = @ \cup {r}]
          /\ UNCHANGED <<space, role, info, log>>
          /\ Go(r, "committed") /\ Commits(r)
       \/ space[w] # "live" /\ RaisesAtCommit(r)

DeleteKey(r) ==
    LET c == call[r] IN
    /\ At(r, "loaded", {"drop_key"})
    /\ keys' = [keys EXCEPT ![c.space] = @ \ {c.target}]
    /\ UNCHANGED <<space, role, info, log>>
    /\ Go(r, "committed") /\ Commits(r)

\* All rows of the workspace, in one transaction; no audit entry. The rows that
\* belong to documents, conversations and memories are in DocumentLifecycle,
\* ChatStream and MemoryStore, and so is the purge of Qdrant that follows.
DeleteWorkspace(r) ==
    LET w == call[r].space IN
    /\ At(r, "authorised", {"delete"})
    /\ \/ /\ space[w] = "live"
          /\ space' = [space EXCEPT ![w] = "deleted"]
          /\ role' = [role EXCEPT ![w] = [u \in Users |-> "none"]]
          /\ keys' = [keys EXCEPT ![w] = {}]
          /\ log' = [log EXCEPT ![w] = {}]
          /\ UNCHANGED info
          /\ Go(r, "done") /\ Commits(r)
       \/ /\ space[w] # "live"
          /\ Go(r, "refused") /\ Reads(r) /\ UNCHANGED seen

\* AuditService.log_action, with a commit of its own. The entry is read back
\* then; where that fails the answer is 500 although the entry is written.
Audit(r) ==
    LET w == call[r].space IN
    /\ stage[r] = "committed"
    /\ \/ /\ space[w] = "live"
          /\ log' = [log EXCEPT ![w] = @ \cup {r}]
          /\ UNCHANGED <<space, role, info, keys, call, seen, held, during>>
          /\ Go(r, "done") \/ Go(r, "logged")
       \/ space[w] # "live" /\ RaisesAtCommit(r)

Handle(r) ==
    \/ Authorise(r) \/ CreateWorkspace(r) \/ ListWorkspaces(r) \/ AddDefaultWorkspace(r)
    \/ GetWorkspace(r) \/ ListMembers(r) \/ ListApiKeys(r) \/ ListAuditLogs(r)
    \/ LoadTarget(r) \/ LoadSettings(r) \/ LoadKey(r)
    \/ UpdateWorkspace(r) \/ UpdateMemberRole(r) \/ RemoveMember(r) \/ UpdateSettings(r)
    \/ CreateKey(r) \/ DeleteKey(r) \/ DeleteWorkspace(r) \/ Audit(r)

Next == \E r \in Requests : Begin(r) \/ Handle(r) \/ Fail(r)

Spec == Init /\ [][Next]_vars

-----------------------------------------------------------------------------
(***************************************************************************)
(* Safety                                                                  *)
(***************************************************************************)
\* r commits its change in this step.
Changes(r) == stage[r] # "committed" /\ stage'[r] = "committed"

\* Every change inside a workspace that stays (to its members, name, settings or
\* keys; its deletion is not looked at) was made for somebody who had the
\* authority while the request ran: admin or owner for any change, owner for
\* making somebody an owner or for taking that role away, unless the owner was
\* made one meanwhile. A role that was lost before the request began is never used, however
\* the requests interleave (dependencies.py, require_workspace_role, and the
\* checks of update_member_role and remove_member). The exception is real: the row
\* is written without a second look, so an admin can demote a new owner although
\* the messages say "Only owners can modify other owners." and "Admins cannot
\* remove owners."
ChangesWereAuthorised ==
    [][\A w \in Spaces :
         space[w] = "live" /\ space'[w] = "live" =>
           /\ role'[w] # role[w] \/ info'[w] # info[w] \/ keys'[w] # keys[w] =>
                \E r \in Requests : /\ Changes(r) /\ call[r].space = w
                                    /\ held[r] \cap {"admin", "owner"} # {}
           /\ (\E u \in Users : role[w][u] # "owner" /\ role'[w][u] = "owner") =>
                \E r \in Requests : Changes(r) /\ call[r].space = w /\ "owner" \in held[r]
           /\ \A u \in Users : role[w][u] = "owner" /\ role'[w][u] # "owner" =>
                \E r \in Requests :
                    /\ Changes(r) /\ call[r].space = w
                    /\ \/ "owner" \in held[r]
                       \/ \E q \in during[r] : call[q].target = u /\ call[q].to = "owner"
      ]_vars

\* The audit log tells the truth and leaves out little: an entry is there only
\* for a change that was committed, and a request that was answered with success
\* has its entry for as long as the workspace exists. Only a request that failed
\* between its two commits changes something without an entry, and only one that
\* failed right after the second has an entry without its answer. (What was
\* committed may be no change: a role that is given again, a row another request
\* removed first.)
AuditMatchesAnswers ==
    \A r \in Requests :
        /\ \A w \in Spaces : r \in log[w] => stage[r] \in {"done", "logged"} /\ call[r].space = w
        /\ At(r, "done", AuditedOps) /\ space[call[r].space] = "live" =>
             r \in log[call[r].space]

\* Nothing is left of a deleted workspace and nothing comes back: a key that was
\* being created, a role that was being changed or an audit entry still to be
\* written find the workspace gone.
DeletedSpaceIsEmpty ==
    \A w \in Spaces : space[w] = "deleted" =>
        keys[w] = {} /\ log[w] = {} /\ \A u \in Users : role[w][u] = "none"

\* Settings are written whole from an earlier read, so a request may undo a change
\* to the field it does not name; but only if another request for the settings of
\* this workspace committed while it ran (update_settings).
OnlyOverlappingWritesAreLost ==
    [][\A w \in Spaces, r \in Requests :
         /\ Changes(r) /\ call[r].op = "settings" /\ call[r].space = w
         /\ \/ call[r].to # "docs" /\ info'[w].docs # info[w].docs
            \/ call[r].to # "msgs" /\ info'[w].msgs # info[w].msgs
         => \E q \in during[r] : call[q].op = "settings" /\ call[q].space = w
      ]_vars
=============================================================================
