------------------------------- MODULE Access -------------------------------
(***************************************************************************)
(* Who may use the controller: the setup that creates the first            *)
(* administrator, logging in and out, the sessions and API keys that sign  *)
(* a request in, and the forms that administer users and roles.  A request *)
(* is a chain of statements; a row is named by the request that inserted   *)
(* it.  Passwords and what a page shows are left out.                      *)
(* Definitions whose name begins with Bug are mutants: see Scheduler.      *)
(***************************************************************************)
EXTENDS Integers

CONSTANTS
  Requests,
  Emails,
  MaxFaults,  \* bound on the statements that throw
  Null

RoleNames == {"admin", "viewer"}

ASSUME AccessAssumption == Null \notin Requests \cup RoleNames /\ MaxFaults \in Nat

VARIABLES
  user,     \* users: by row, "enabled", "disabled" or "absent"
  email,    \* ... and its email, or Null
  role,     \* roles: by row, its name, or Null
  links,    \* user_roles: pairs of a user and a role
  token,    \* user_sessions and api_keys: by row, the user it signs in, or Null
  site,     \* is there a site
  pc,       \* the next statement of each request, or how it ended
  form,     \* what it asks for
  actor,    \* locals.user, or who logs in
  faults,   \* statements that have thrown
  given,    \* history: the roles that a user was last given
  muddled,  \* history: users whose roles two requests changed at once, or one in part
  crossed,  \* history: have two users been about to disable or remove somebody at once
  twoSetups \* history: have two setups been at work at once

tables == <<user, email, role, links, token, site>>
past   == <<given, muddled, crossed, twoSetups>>
vars   == <<tables, pc, form, actor, faults, past>>

Users  == {u \in Requests : user[u] # "absent"}
Roles  == {o \in Requests : role[o] # Null}
Tokens == {t \in Requests : token[t] # Null}
IsKey(t) == form[t].kind = "createKey"

Ended == {"done", "failed", "refused"}
Plain(kind, text) == [kind |-> kind, token |-> Null, whom |-> Null, roles |-> {}, text |-> text]
Blank == Plain("none", Null)

\* Nobody has set the controller up, or one administrator has, and has invited another.
Init ==
  /\ form = [r \in Requests |-> Blank] /\ actor = [r \in Requests |-> Null]
  /\ faults = 0 /\ muddled = {} /\ crossed = FALSE /\ twoSetups = FALSE
  /\ \E Admins \in SUBSET Requests, first \in Requests :
       /\ Admins = {} \/ first \in Admins
       /\ email \in [Requests -> Emails \cup {Null}]
       /\ \A u \in Requests : email[u] # Null <=> u \in Admins
       /\ \A u, v \in Admins : email[u] = email[v] => u = v
       /\ user = [u \in Requests |-> IF u \in Admins THEN "enabled" ELSE "absent"]
       /\ role = [o \in Requests |-> IF o = first /\ o \in Admins THEN "admin" ELSE Null]
       /\ links = Admins \X {first}
       /\ given = [u \in Requests |-> IF u \in Admins THEN {first} ELSE {}]
       /\ token = [t \in Requests |-> IF t \in Admins THEN t ELSE Null]
       /\ site = (Admins # {})
       /\ pc = [r \in Requests |-> IF r \in Admins THEN "done" ELSE "new"]

Goes(r, to) == pc' = [pc EXCEPT ![r] = to]
AtWork(r) == pc[r] \notin Ended \cup {"new"}
Changes(r, u) ==  \* r is between two statements that change the roles of u
  \/ pc[r] = "link" /\ form[r].whom = u
  \/ pc[r] \in {"findRole", "createRole", "assign"} /\ r = u
Strikes(r) == pc[r] = "act" /\ form[r].kind \in {"disable", "remove"}

-----------------------------------------------------------------------------
(* Signing in *)

Opens(r, f, to) ==
  /\ pc[r] = "new"
  /\ form' = [form EXCEPT ![r] = f]
  /\ Goes(r, to)
  /\ UNCHANGED <<tables, faults, past>>

\* The setup's page asks nobody who they are.
OpenSetup(r) ==
  /\ \E e \in Emails : Opens(r, Plain("setup", e), "count")
  /\ UNCHANGED actor

loginUser(r) == \E u \in Users :
  /\ Opens(r, Plain("login", Null), IF user[u] = "enabled" THEN "session" ELSE "refused")
  /\ actor' = [actor EXCEPT ![r] = u]

\* The forms of the administration, with what their pages have listed.
Asks ==
  [kind : {"disable", "enable", "remove"}, whom : Users, roles : {{}}, text : {Null}]
    \cup [kind : {"setRoles"}, whom : Users, roles : SUBSET Roles, text : {Null}]
    \cup [kind : {"invite"}, whom : {Null}, roles : SUBSET Roles, text : Emails]
    \cup [kind : {"logout"}, whom : {Null}, roles : {{}}, text : {Null}]
    \cup [kind : {"createKey"}, whom : Users, roles : {{}}, text : {Null}]
    \cup [kind : {"revokeKey"}, whom : {t \in Tokens : IsKey(t)}, roles : {{}}, text : {Null}]
    \cup [kind : {"createRole"}, whom : {Null}, roles : {{}}, text : RoleNames]
    \cup [kind : {"updateRole"}, whom : Roles, roles : {{}}, text : RoleNames]
    \cup [kind : {"deleteRole"}, whom : Roles, roles : {{}}, text : {Null}]

\* The session, or the key, is found first, and its user next.
FindSession(r) == \E t \in Tokens, a \in Asks :
  /\ Opens(r, [kind |-> a.kind, token |-> t, roles |-> a.roles, text |-> a.text,
               whom |-> IF a.kind = "invite" THEN r ELSE a.whom], "user")
  /\ actor' = [actor EXCEPT ![r] = token[t]]

SignsIn(u) == u \in Users /\ user[u] = "enabled"

FindUser(r) ==
  /\ pc[r] = "user"
  /\ Goes(r, IF ~SignsIn(actor[r]) THEN "refused"
             ELSE IF form[r].kind = "setRoles" THEN "unlink" ELSE "act")
  /\ crossed' = (crossed \/ /\ SignsIn(actor[r]) /\ form[r].kind \in {"disable", "remove"}
                            /\ \E q \in Requests : Strikes(q) /\ actor[q] # actor[r])
  /\ UNCHANGED <<tables, form, actor, faults, given, muddled, twoSetups>>

-----------------------------------------------------------------------------
(* The setup *)

SettingUp(r) == form[r].kind = "setup" /\ AtWork(r) /\ pc[r] # "count"

BugCountUsers(r) ==
  /\ pc[r] = "count"
  /\ Goes(r, "create")
  /\ UNCHANGED <<tables, form, actor, faults, past>>
CountUsers(r) ==
  /\ pc[r] = "count"
  /\ Goes(r, IF Users = {} THEN "create" ELSE "failed")
  /\ twoSetups' = (twoSetups \/ (Users = {} /\ \E q \in Requests : SettingUp(q)))
  /\ UNCHANGED <<tables, form, actor, faults, given, muddled, crossed>>

InsertUser(r, stage) ==
  /\ user' = [user EXCEPT ![r] = "enabled"] /\ email' = [email EXCEPT ![r] = form[r].text]
  /\ Goes(r, stage)
  /\ UNCHANGED <<role, links, token, site, form, faults, past>>
Taken(e) == \E u \in Users : email[u] = e

CreateUser(r) ==
  /\ pc[r] = "create" /\ ~Taken(form[r].text)
  /\ InsertUser(r, "findRole")
  /\ actor' = [actor EXCEPT ![r] = r]

\* The role found is remembered as the request's whom.
FindRole(r) ==
  /\ pc[r] = "findRole"
  /\ \/ /\ \A o \in Roles : role[o] # "admin"
        /\ Goes(r, "createRole") /\ UNCHANGED form
     \/ \E o \in Roles : /\ role[o] = "admin"
                         /\ Goes(r, "assign") /\ form' = [form EXCEPT ![r].whom = o]
  /\ UNCHANGED <<tables, actor, faults, past>>

Named(n) == \E o \in Roles : role[o] = n

InsertRole(r, name, stage) ==
  /\ ~Named(name)
  /\ role' = [role EXCEPT ![r] = name]
  /\ Goes(r, stage)
  /\ UNCHANGED <<user, email, links, token, site, actor, faults, past>>

CreateAdminRole(r) ==
  /\ pc[r] = "createRole"
  /\ InsertRole(r, "admin", "assign")
  /\ form' = [form EXCEPT ![r].whom = r]

Assign(r) == LET o == form[r].whom IN
  /\ pc[r] = "assign" /\ r \in Users /\ o \in Roles
  /\ links' = links \cup {<<r, o>>}
  /\ given' = [given EXCEPT ![r] = {o}]
  /\ Goes(r, "findSite")
  /\ UNCHANGED <<user, email, role, token, site, form, actor, faults, muddled, crossed, twoSetups>>

FindSite(r) ==
  /\ pc[r] = "findSite"
  /\ Goes(r, IF site THEN "session" ELSE "createSite")
  /\ UNCHANGED <<tables, form, actor, faults, past>>

CreateSite(r) ==
  /\ pc[r] = "createSite" /\ ~site
  /\ site' = TRUE
  /\ Goes(r, "session")
  /\ UNCHANGED <<user, email, role, links, token, form, actor, faults, past>>

\* Of a setup and of a login.
createLoginSession(r) ==
  /\ pc[r] = "session" /\ actor[r] \in Users
  /\ token' = [token EXCEPT ![r] = actor[r]]
  /\ Goes(r, "done")
  /\ UNCHANGED <<user, email, role, links, site, form, actor, faults, past>>

-----------------------------------------------------------------------------
(* The forms *)

Acts(r, kind) == pc[r] = "act" /\ form[r].kind = kind
Leaves == UNCHANGED <<form, actor, faults, past>>

\* "Cannot disable yourself", "Cannot delete yourself".
BugOneself(r) == FALSE
Oneself(r) == form[r].whom = actor[r]
RefuseOneself(r) ==
  /\ Strikes(r) /\ Oneself(r)
  /\ Goes(r, "refused")
  /\ UNCHANGED tables /\ Leaves

Switch(r, kind, to) == LET u == form[r].whom IN
  /\ Acts(r, kind)
  /\ user' = [user EXCEPT ![u] = IF u \in Users THEN to ELSE "absent"]
  /\ Goes(r, "done")
  /\ UNCHANGED <<email, role, links, token, site>> /\ Leaves
Disable(r) == ~Oneself(r) /\ Switch(r, "disable", "disabled")
Enable(r)  == Switch(r, "enable", "enabled")

\* The rows that refer to the user go with it.
Remove(r) == LET u == form[r].whom IN
  /\ Acts(r, "remove") /\ ~Oneself(r)
  /\ user' = [user EXCEPT ![u] = "absent"] /\ email' = [email EXCEPT ![u] = Null]
  /\ links' = {l \in links : l[1] # u}
  /\ token' = [t \in Requests |-> IF token[t] = u THEN Null ELSE token[t]]
  /\ Goes(r, "done")
  /\ UNCHANGED <<role, site>> /\ Leaves

Invite(r) ==
  /\ Acts(r, "invite") /\ ~Taken(form[r].text)
  /\ InsertUser(r, IF form[r].roles = {} THEN "done" ELSE "unlink")
  /\ UNCHANGED actor

\* setRoles: two statements, the second unless no role was chosen.
BugCleared(u) == links
Cleared(u) == {l \in links : l[1] # u}
Unlink(r) == LET u == form[r].whom IN
  /\ pc[r] = "unlink"
  /\ links' = Cleared(u)
  /\ given' = IF form[r].roles = {} THEN [given EXCEPT ![u] = {}] ELSE given
  /\ muddled' = IF \E q \in Requests \ {r} : Changes(q, u) THEN muddled \cup {u} ELSE muddled \ {u}
  /\ Goes(r, IF form[r].roles = {} THEN "done" ELSE "link")
  /\ UNCHANGED <<user, email, role, token, site, form, actor, faults, crossed, twoSetups>>

Link(r) == LET u == form[r].whom IN
  /\ pc[r] = "link" /\ u \in Users /\ form[r].roles \subseteq Roles
  /\ links' = links \cup ({u} \X form[r].roles)
  /\ given' = [given EXCEPT ![u] = form[r].roles]
  /\ Goes(r, "done")
  /\ UNCHANGED <<user, email, role, token, site, form, actor, faults, muddled, crossed, twoSetups>>

CreateRole(r) == Acts(r, "createRole") /\ InsertRole(r, form[r].text, "done") /\ UNCHANGED form

Clashes(r) ==
  /\ form[r].whom \in Roles
  /\ \E o \in Roles \ {form[r].whom} : role[o] = form[r].text
UpdateRole(r) == LET o == form[r].whom IN
  /\ Acts(r, "updateRole") /\ ~Clashes(r)
  /\ role' = [role EXCEPT ![o] = IF o \in Roles THEN form[r].text ELSE Null]
  /\ Goes(r, "done")
  /\ UNCHANGED <<user, email, links, token, site>> /\ Leaves

DeleteRole(r) == LET o == form[r].whom IN
  /\ Acts(r, "deleteRole")
  /\ role' = [role EXCEPT ![o] = Null]
  /\ links' = {l \in links : l[2] # o}
  /\ Goes(r, "done")
  /\ UNCHANGED <<user, email, token, site>> /\ Leaves

CreateKey(r) == LET u == form[r].whom IN
  /\ Acts(r, "createKey") /\ u \in Users
  /\ token' = [token EXCEPT ![r] = u]
  /\ Goes(r, "done")
  /\ UNCHANGED <<user, email, role, links, site>> /\ Leaves

\* A key that is revoked; the session that is logged out, if it was one that signed in.
Drops(r, t) ==
  /\ token' = [token EXCEPT ![t] = Null]
  /\ Goes(r, "done")
  /\ UNCHANGED <<user, email, role, links, site>> /\ Leaves
RevokeKey(r) == Acts(r, "revokeKey") /\ Drops(r, form[r].whom)
logout(r) == Acts(r, "logout") /\ ~IsKey(form[r].token) /\ Drops(r, form[r].token)
LogoutByKey(r) ==
  /\ Acts(r, "logout") /\ IsKey(form[r].token)
  /\ Goes(r, "done")
  /\ UNCHANGED tables /\ Leaves

-----------------------------------------------------------------------------
(* What fails *)

\* A unique index, or a reference to a row that is gone, refuses the statement.
Refused(r) ==
  \/ pc[r] = "create" /\ Taken(form[r].text)
  \/ pc[r] = "createRole" /\ Named("admin")
  \/ pc[r] = "assign" /\ (r \notin Users \/ form[r].whom \notin Roles)
  \/ pc[r] = "createSite" /\ site
  \/ pc[r] = "session" /\ actor[r] \notin Users
  \/ Acts(r, "invite") /\ Taken(form[r].text)
  \/ pc[r] = "link" /\ ~(form[r].whom \in Users /\ form[r].roles \subseteq Roles)
  \/ Acts(r, "createRole") /\ Named(form[r].text)
  \/ Acts(r, "updateRole") /\ Clashes(r)
  \/ Acts(r, "createKey") /\ form[r].whom \notin Users

\* What was done before stays done.  So it does when the process dies, which is
\* as if the next statement of every request had thrown.
StatementFails(r) ==
  /\ AtWork(r)
  /\ \/ Refused(r) /\ UNCHANGED faults
     \/ faults < MaxFaults /\ faults' = faults + 1
  /\ Goes(r, "failed")
  /\ muddled' = muddled \cup {u \in Requests : Changes(r, u)}
  /\ UNCHANGED <<tables, form, actor, given, crossed, twoSetups>>

Expire(t) ==
  /\ t \in Tokens
  /\ token' = [token EXCEPT ![t] = Null]
  /\ UNCHANGED <<user, email, role, links, site, pc, form, actor, faults, past>>

Request(r) ==
  \/ OpenSetup(r) \/ loginUser(r) \/ FindSession(r) \/ FindUser(r)
  \/ CountUsers(r) \/ CreateUser(r) \/ FindRole(r) \/ CreateAdminRole(r) \/ Assign(r)
  \/ FindSite(r) \/ CreateSite(r) \/ createLoginSession(r)
  \/ RefuseOneself(r) \/ Disable(r) \/ Enable(r) \/ Remove(r) \/ Invite(r) \/ Unlink(r) \/ Link(r)
  \/ CreateRole(r) \/ UpdateRole(r) \/ DeleteRole(r)
  \/ CreateKey(r) \/ RevokeKey(r) \/ logout(r) \/ LogoutByKey(r)
  \/ StatementFails(r)

Next == \E r \in Requests : Request(r) \/ Expire(r)
Spec == Init /\ [][Next]_vars

-----------------------------------------------------------------------------
(* Properties *)

Kinds ==
  {"none", "setup", "login", "logout", "invite", "disable", "enable", "remove", "setRoles",
   "createRole", "updateRole", "deleteRole", "createKey", "revokeKey"}
Stages ==
  Ended \cup {"new", "user", "act", "unlink", "link", "count", "create", "findRole", "createRole",
             "assign", "findSite", "createSite", "session"}
MaybeRow  == Requests \cup {Null}
MaybeText == Emails \cup RoleNames \cup {Null}

TypeOK ==
  /\ user \in [Requests -> {"enabled", "disabled", "absent"}]
  /\ email \in [Requests -> MaybeText] /\ role \in [Requests -> MaybeText]
  /\ links \subseteq Requests \X Requests
  /\ token \in [Requests -> MaybeRow]
  /\ site \in BOOLEAN
  /\ pc \in [Requests -> Stages]
  /\ form \in [Requests -> [kind : Kinds, token : MaybeRow, whom : MaybeRow, roles : SUBSET Requests,
                            text : MaybeText]]
  /\ actor \in [Requests -> MaybeRow]
  /\ faults \in 0..MaxFaults
  /\ given \in [Requests -> SUBSET Requests]
  /\ muddled \subseteq MaybeRow
  /\ crossed \in BOOLEAN /\ twoSetups \in BOOLEAN

\* Once the controller is set up somebody can log in: no sequence of forms
\* disables or removes everybody, unless two users were about to disable or
\* remove somebody at the same time.  (Then both may go; without a user the
\* setup is open to anyone again.)
SomeoneIsLeft == (Users # {} \/ site) /\ ~crossed => \E u \in Users : user[u] = "enabled"

Admin(u) == user[u] = "enabled" /\ \E o \in Roles : role[o] = "admin" /\ <<u, o>> \in links

\* While nobody has administered anything and no setup is at work: whoever has
\* completed a setup is an enabled administrator of a controller with a site,
\* whatever threw and however many setups were at work.  If nothing threw there is
\* such an administrator as soon as there is a user.  And without two setups at the
\* same time either every user is one, and at most one of them set it up.
SetupLeavesAnAdmin ==
  (\A r \in Requests :
     form[r].kind \in {"none", "login"} \/ (form[r].kind = "setup" /\ ~AtWork(r)))
  => /\ \A u \in Requests : form[u].kind = "setup" /\ pc[u] = "done" => Admin(u) /\ site
     /\ Users # {} /\ faults = 0 => site /\ \E u \in Users : Admin(u)
     /\ faults = 0 /\ ~twoSetups
        => /\ \A u \in Users : Admin(u)
           /\ \A u, v \in Users : form[u].kind = "setup" => u = v

\* A user has the roles that were given last, as far as they exist, unless two
\* requests changed them at the same time or one got only half-way.
RolesAsGiven ==
  \A u \in Users \ muddled :
    (\A r \in Requests : ~Changes(r, u)) => {o \in Roles : <<u, o>> \in links} = given[u] \cap Roles
=============================================================================
