---------------------------- MODULE AccessProofs ----------------------------
(***************************************************************************)
(* What is proved of Access, for any number of requests, emails and        *)
(* failing statements: somebody can always log in, a setup leaves an       *)
(* administrator, and a user has the roles given last.  None of them is    *)
(* inductive.  What is: while no two users were about to strike at once,   *)
(* all the requests about to disable or remove somebody are of one user,   *)
(* who is enabled (Safe); a row that is not there yet is referred to by    *)
(* nobody, and a user whose roles one request changes has none (RolesInv); *)
(* the tables hold only what the one setup at work has inserted            *)
(* (SetupInv); of several, each has what it has come to, and without a     *)
(* fault one of them is on its way to the role and the site (SetupsInv).   *)
(***************************************************************************)
EXTENDS Access, TLAPS

\* Every step keeps the types.
LEMMA TypeStep ==
  ASSUME TypeOK, [Next]_vars
  PROVE  TypeOK'
<1> USE AccessAssumption
<1> SUFFICES ASSUME NEW r \in Requests, Request(r) \/ Expire(r) PROVE TypeOK'
  BY DEF Next, TypeOK, vars, tables, past
<1> USE DEF TypeOK, tables, past, Goes, MaybeRow, MaybeText, Stages, Ended, Kinds, Plain
<1>1. CASE OpenSetup(r)
  BY <1>1 DEF OpenSetup, Opens
<1>2. CASE loginUser(r)
  BY <1>2 DEF loginUser, Opens, Users
<1>3. CASE FindSession(r)
  BY <1>3 DEF FindSession, Opens, Asks, Tokens, Users, Roles, IsKey
<1>4. CASE FindUser(r)
  BY <1>4 DEF FindUser
<1>5. CASE CountUsers(r)
  BY <1>5 DEF CountUsers
<1>6. CASE CreateUser(r)
  BY <1>6 DEF CreateUser, InsertUser
<1>7. CASE FindRole(r)
  <2>1. CASE UNCHANGED form
    BY <1>7, <2>1 DEF FindRole
  <2>2. ASSUME NEW o \in Roles, form' = [form EXCEPT ![r].whom = o]
        PROVE  form' \in [Requests -> [kind : Kinds, token : MaybeRow, whom : MaybeRow,
                                      roles : SUBSET Requests, text : MaybeText]]
    <3>1. o \in Requests
      BY DEF Roles
    <3>. QED
      BY <2>2, <3>1
  <2>. QED
    BY <1>7, <2>1, <2>2 DEF FindRole
<1>8. CASE CreateAdminRole(r)
  BY SMTT(30), <1>8 DEF CreateAdminRole, InsertRole, RoleNames
<1>9. CASE Assign(r)
  BY <1>9 DEF Assign, Roles
<1>10. CASE FindSite(r)
  BY <1>10 DEF FindSite
<1>11. CASE CreateSite(r)
  BY <1>11 DEF CreateSite
<1>12. CASE createLoginSession(r)
  BY <1>12 DEF createLoginSession, Users
<1>13. CASE RefuseOneself(r)
  BY <1>13 DEF RefuseOneself, Leaves
<1>14. CASE Disable(r)
  BY <1>14 DEF Disable, Switch, Leaves
<1>15. CASE Enable(r)
  BY <1>15 DEF Enable, Switch, Leaves
<1>16. CASE Remove(r)
  BY <1>16 DEF Remove, Leaves
<1>17. CASE Invite(r)
  BY <1>17 DEF Invite, InsertUser, Acts
<1>18. CASE Unlink(r)
  BY ZenonT(60), <1>18 DEF Unlink, Cleared
<1>19. CASE Link(r)
  <2>1. form[r].whom \in Requests /\ form[r].roles \subseteq Requests
    BY <1>19 DEF Link, Users
  <2>2. links' \subseteq Requests \X Requests
    BY <1>19, <2>1 DEF Link
  <2>. QED
    BY <1>19, <2>1, <2>2 DEF Link
<1>20. CASE CreateRole(r)
  BY <1>20 DEF CreateRole, InsertRole, Acts
<1>21. CASE UpdateRole(r)
  BY <1>21 DEF UpdateRole, Leaves
<1>22. CASE DeleteRole(r)
  BY <1>22 DEF DeleteRole, Leaves
<1>23. CASE CreateKey(r)
  BY <1>23 DEF CreateKey, Leaves
<1>24. CASE RevokeKey(r)
  BY <1>24 DEF RevokeKey, Drops, Leaves
<1>25. CASE logout(r)
  BY <1>25 DEF logout, Drops, Leaves
<1>26. CASE LogoutByKey(r)
  BY <1>26 DEF LogoutByKey, Leaves
<1>27. CASE StatementFails(r)
  BY <1>27 DEF StatementFails
<1>28. CASE Expire(r)
  BY <1>28 DEF Expire
<1>. QED
  BY <1>1, <1>2, <1>3, <1>4, <1>5, <1>6, <1>7, <1>8, <1>9, <1>10, <1>11, <1>12, <1>13, <1>14,
     <1>15, <1>16, <1>17, <1>18, <1>19, <1>20, <1>21, <1>22, <1>23, <1>24, <1>25, <1>26,
     <1>27, <1>28 DEF Request

\* A step is a step of one request.
LEMMA OthersRest ==
  ASSUME TypeOK, NEW r \in Requests, Request(r) \/ Expire(r), NEW q \in Requests \ {r}
  PROVE  pc'[q] = pc[q] /\ form'[q] = form[q] /\ actor'[q] = actor[q]
BY DEF TypeOK, Goes, Request, OpenSetup, loginUser, FindSession, FindUser, CountUsers,
       CreateUser, FindRole, CreateAdminRole, Assign, FindSite, CreateSite,
       createLoginSession, RefuseOneself, Disable, Enable, Remove, Invite, Unlink, Link,
       CreateRole, UpdateRole, DeleteRole, CreateKey, RevokeKey, logout, LogoutByKey,
       StatementFails, Expire, Opens, InsertUser, InsertRole, Switch, Drops, Leaves

\* What a request asks for stays, and what has gone wrong stays so.
LEMMA OnlyForward ==
  ASSUME TypeOK, NEW r \in Requests, Request(r) \/ Expire(r)
  PROVE  /\ twoSetups => twoSetups'
         /\ faults <= faults'
         /\ pc[r] = "new" \/ form'[r].kind = form[r].kind
<1> USE AccessAssumption DEF Request, OpenSetup, loginUser, FindSession, FindUser, CountUsers,
       CreateUser, FindRole, CreateAdminRole, Assign, FindSite, CreateSite,
       createLoginSession, RefuseOneself, Disable, Enable, Remove, Invite, Unlink, Link,
       CreateRole, UpdateRole, DeleteRole, CreateKey, RevokeKey, logout, LogoutByKey,
       StatementFails, Expire, Opens, InsertUser, InsertRole, Switch, Drops, Leaves, past,
       TypeOK
<1>1. twoSetups => twoSetups'
  OBVIOUS
<1>2. faults <= faults'
  OBVIOUS
<1>3. pc[r] = "new" \/ form'[r].kind = form[r].kind
  OBVIOUS
<1>. QED
  BY <1>1, <1>2, <1>3

\* While no two users were about to strike at once, whoever is about to disable or
\* remove somebody is enabled, and all who are about to are one user.
StrikersAreEnabled ==
  \A r \in Requests : Strikes(r) => actor[r] \in Requests /\ user[actor[r]] = "enabled"
StrikersAreOne ==
  \A r, q \in Requests : Strikes(r) /\ Strikes(q) => actor[r] = actor[q]
\* The controller is set up, or is being set up.
AfterUser == {"findRole", "createRole", "assign", "findSite", "createSite"}
Populated == Users # {} \/ site \/ \E r \in Requests : pc[r] \in AfterUser
SomeoneEnabled == Populated => \E u \in Users : user[u] = "enabled"

Safe == ~crossed => StrikersAreEnabled /\ StrikersAreOne /\ SomeoneEnabled

\* A step that disables and removes nobody, and makes nobody a striker, keeps Safe.
LEMMA QuietStep ==
  ASSUME TypeOK, TypeOK', Safe, UNCHANGED crossed,
         \A u \in Requests : user[u] = "enabled" => user'[u] = "enabled",
         Populated' => Populated \/ \E u \in Requests : user'[u] = "enabled",
         \A q \in Requests : Strikes(q)' => Strikes(q) /\ actor'[q] = actor[q]
  PROVE  Safe'
<1> SUFFICES ASSUME ~crossed PROVE (StrikersAreEnabled /\ StrikersAreOne /\ SomeoneEnabled)'
  BY DEF Safe
<1>1. StrikersAreEnabled /\ StrikersAreOne /\ SomeoneEnabled
  BY DEF Safe
<1>2. StrikersAreEnabled'
  BY <1>1 DEF StrikersAreEnabled
<1>3. StrikersAreOne'
  BY <1>1 DEF StrikersAreOne
<1>4. SomeoneEnabled'
  BY <1>1 DEF SomeoneEnabled, Users
<1>. QED
  BY <1>2, <1>3, <1>4

\* Every step keeps Safe.
LEMMA SafeStep ==
  ASSUME TypeOK, Safe, [Next]_vars
  PROVE  Safe'
<1>0. TypeOK /\ TypeOK' /\ Safe
  BY TypeStep
<1>s. CASE UNCHANGED vars
  <2>1. \A q \in Requests : Strikes(q)' <=> Strikes(q)
    BY <1>s DEF vars, Strikes
  <2>2. Populated' => Populated
    BY <1>s DEF vars, tables, Populated, Users
  <2>. QED
    BY <1>0, <1>s, <2>1, <2>2, QuietStep DEF vars, tables, past
<1> SUFFICES ASSUME NEW r \in Requests, Request(r) \/ Expire(r) PROVE Safe'
  BY <1>s DEF Next
\* The steps that leave the users alone.
<1>1. ASSUME pc'[r] # "act"
      PROVE  \A q \in Requests : Strikes(q)' => Strikes(q) /\ actor'[q] = actor[q]
  BY <1>1, OthersRest DEF Strikes
<1>p. ASSUME Users' # {} => Users # {}, site' => site \/ pc[r] \in AfterUser,
             pc'[r] \in AfterUser => pc[r] \in AfterUser
      PROVE  Populated' => Populated
  BY <1>p, OthersRest DEF Populated
<1>2. ASSUME UNCHANGED <<user, crossed>>, pc'[r] # "act", site' => site \/ pc[r] \in AfterUser,
             pc'[r] \in AfterUser => pc[r] \in AfterUser
      PROVE  Safe'
  <2>1. Users' = Users
    BY <1>2 DEF Users
  <2>. QED
    BY <1>0, <1>1, <1>2, <1>p, <2>1, QuietStep
<1>3. CASE OpenSetup(r)
  BY <1>2, <1>3 DEF OpenSetup, Opens, Goes, tables, past,
    AfterUser, TypeOK
<1>4. CASE loginUser(r)
  BY <1>2, <1>4 DEF loginUser, Opens, Goes, tables, past,
    AfterUser, TypeOK
<1>5. CASE FindSession(r)
  BY <1>2, <1>5 DEF FindSession, Opens, Goes, tables, past,
    AfterUser, TypeOK
<1>6. CASE CountUsers(r)
  BY <1>2, <1>6 DEF CountUsers, Goes, tables, past,
    AfterUser, TypeOK
<1>7. CASE FindRole(r)
  BY <1>2, <1>7 DEF FindRole, Goes, tables, past,
    AfterUser, TypeOK
<1>8. CASE CreateAdminRole(r)
  BY <1>2, <1>8 DEF CreateAdminRole, InsertRole, Goes, tables, past,
    AfterUser, TypeOK
<1>9. CASE Assign(r)
  BY <1>2, <1>9 DEF Assign, Goes, tables, past,
    AfterUser, TypeOK
<1>10. CASE FindSite(r)
  BY <1>2, <1>10 DEF FindSite, Goes, tables, past,
    AfterUser, TypeOK
<1>11. CASE CreateSite(r)
  BY <1>2, <1>11 DEF CreateSite, Goes, tables, past,
    AfterUser, TypeOK
<1>12. CASE createLoginSession(r)
  BY <1>2, <1>12 DEF createLoginSession, Goes, tables, past,
    AfterUser, TypeOK
<1>13. CASE RefuseOneself(r)
  BY <1>2, <1>13 DEF RefuseOneself, Leaves, Goes, tables, past,
    AfterUser, TypeOK
<1>14. CASE Unlink(r)
  BY <1>2, <1>14 DEF Unlink, Goes, tables, past,
    AfterUser, TypeOK
<1>15. CASE Link(r)
  BY <1>2, <1>15 DEF Link, Goes, tables, past,
    AfterUser, TypeOK
<1>16. CASE CreateRole(r)
  BY <1>2, <1>16 DEF CreateRole, InsertRole, Goes, tables, past,
    AfterUser, TypeOK
<1>17. CASE UpdateRole(r)
  BY <1>2, <1>17 DEF UpdateRole, Leaves, Goes, tables, past,
    AfterUser, TypeOK
<1>18. CASE DeleteRole(r)
  BY <1>2, <1>18 DEF DeleteRole, Leaves, Goes, tables, past,
    AfterUser, TypeOK
<1>19. CASE CreateKey(r)
  BY <1>2, <1>19 DEF CreateKey, Leaves, Goes, tables, past,
    AfterUser, TypeOK
<1>20. CASE RevokeKey(r)
  BY <1>2, <1>20 DEF RevokeKey, Drops, Leaves, Goes, tables, past,
    AfterUser, TypeOK
<1>21. CASE logout(r)
  BY <1>2, <1>21 DEF logout, Drops, Leaves, Goes, tables, past,
    AfterUser, TypeOK
<1>22. CASE LogoutByKey(r)
  BY <1>2, <1>22 DEF LogoutByKey, Leaves, Goes, tables, past,
    AfterUser, TypeOK
<1>23. CASE StatementFails(r)
  BY <1>2, <1>23 DEF StatementFails, Goes, tables, past,
    AfterUser, TypeOK
<1>24. CASE Expire(r)
  <2>1. Populated' => Populated
    BY <1>24, <1>p DEF Expire, Users
  <2>. QED
    BY <1>0, <1>24, <2>1, QuietStep DEF Expire, past, Strikes
\* Those that only enable.
<1>25. CASE CreateUser(r)
  <2>1. user' = [user EXCEPT ![r] = "enabled"] /\ UNCHANGED crossed /\ pc'[r] # "act"
    BY <1>25 DEF CreateUser, InsertUser, past, Goes, TypeOK
  <2>. QED
    BY <1>0, <1>1, <2>1, QuietStep DEF TypeOK
<1>26. CASE Invite(r)
  <2>1. user' = [user EXCEPT ![r] = "enabled"] /\ UNCHANGED crossed /\ pc'[r] # "act"
    BY <1>26 DEF Invite, InsertUser, past, Goes, TypeOK
  <2>. QED
    BY <1>0, <1>1, <2>1, QuietStep DEF TypeOK
<1>27. CASE Enable(r)
  <2>1. UNCHANGED crossed /\ pc'[r] # "act"
    BY <1>27 DEF Enable, Switch, Leaves, past, Goes, TypeOK
  <2>2. \A u \in Requests : user[u] = "enabled" => user'[u] = "enabled"
    BY <1>0, <1>27 DEF Enable, Switch, Users, TypeOK
  <2>3. Users' # {} => Users # {}
    BY <1>0, <1>27 DEF Enable, Switch, Users, TypeOK
  <2>4. site' = site /\ pc'[r] \notin AfterUser
    BY <1>27 DEF Enable, Switch, Goes, AfterUser, TypeOK
  <2>5. Populated' => Populated
    BY <1>p, <2>3, <2>4
  <2>. QED
    BY <1>0, <1>1, <2>1, <2>2, <2>5, QuietStep
\* Those that strike: whoever is enabled by then is somebody else than their victim.
<1>28. ASSUME Strikes(r), ~Oneself(r), Goes(r, "done"), UNCHANGED <<form, actor, crossed>>,
             \A u \in Requests : u # form[r].whom => user'[u] = user[u]
      PROVE  Safe'
  <2> SUFFICES ASSUME ~crossed PROVE (StrikersAreEnabled /\ StrikersAreOne /\ SomeoneEnabled)'
    BY <1>28 DEF Safe
  <2>1. StrikersAreEnabled /\ StrikersAreOne
    BY <1>0 DEF Safe
  <2>2. actor[r] \in Requests /\ user[actor[r]] = "enabled"
    BY <1>28, <2>1 DEF StrikersAreEnabled
  <2>3. user'[actor[r]] = "enabled"
    BY <1>28, <2>2 DEF Oneself
  <2>4. \A q \in Requests : Strikes(q)' => Strikes(q) /\ actor'[q] = actor[r]
    BY <1>0, <1>28, <2>1 DEF Strikes, Goes, TypeOK, StrikersAreOne
  <2>5. StrikersAreEnabled' /\ StrikersAreOne'
    BY <2>2, <2>3, <2>4 DEF StrikersAreEnabled, StrikersAreOne
  <2>6. SomeoneEnabled'
    BY <2>2, <2>3 DEF SomeoneEnabled, Users
  <2>. QED
    BY <2>5, <2>6
<1>29. CASE Disable(r)
  BY <1>0, <1>28, <1>29 DEF Disable, Switch, Acts, Strikes, Leaves, past, TypeOK
<1>30. CASE Remove(r)
  BY <1>0, <1>28, <1>30 DEF Remove, Acts, Strikes, Leaves, past, TypeOK
\* The one that makes a striker of a user it finds enabled.
<1>31. CASE FindUser(r)
  <2>1. UNCHANGED <<user, form, actor>> /\ \A q \in Requests \ {r} : pc'[q] = pc[q]
    BY <1>0, <1>31 DEF FindUser, Goes, tables, TypeOK
  <2> SUFFICES ASSUME ~crossed' PROVE (StrikersAreEnabled /\ StrikersAreOne /\ SomeoneEnabled)'
    BY DEF Safe
  <2>2. ~crossed /\ StrikersAreEnabled /\ StrikersAreOne /\ SomeoneEnabled
    BY <1>0, <1>31 DEF FindUser, Safe, TypeOK
  <2>3. Strikes(r)' => SignsIn(actor[r])
    BY <1>0, <1>31, <2>1 DEF FindUser, Strikes, Goes, TypeOK
  <2>4. Strikes(r)' => \A q \in Requests : Strikes(q) => actor[q] = actor[r]
    BY <1>31, <2>1, <2>3 DEF FindUser, Strikes
  <2>5. Strikes(r)' => actor[r] \in Requests /\ user[actor[r]] = "enabled"
    BY <2>3 DEF SignsIn, Users
  <2>6. \A q \in Requests \ {r} : Strikes(q)' => Strikes(q)
    BY <2>1 DEF Strikes
  <2>7. StrikersAreEnabled'
    BY <2>1, <2>2, <2>5, <2>6 DEF StrikersAreEnabled
  <2>8. StrikersAreOne'
    BY <2>1, <2>2, <2>4, <2>6 DEF StrikersAreOne
  <2>9. SomeoneEnabled'
    <3>1. Users' = Users /\ site' = site /\ pc'[r] \notin AfterUser
      BY <1>31, <2>1 DEF FindUser, Goes, tables, Users, AfterUser, TypeOK
    <3>. QED
      BY <1>p, <2>1, <2>2, <3>1 DEF SomeoneEnabled
  <2>. QED
    BY <2>7, <2>8, <2>9
<1>. QED
  BY <1>3, <1>4, <1>5, <1>6, <1>7, <1>8, <1>9, <1>10, <1>11, <1>12, <1>13, <1>14, <1>15,
     <1>16, <1>17, <1>18, <1>19, <1>20, <1>21, <1>22, <1>23, <1>24, <1>25, <1>26, <1>27,
     <1>29, <1>30, <1>31 DEF Request

-----------------------------------------------------------------------------
\* What is under way fits what was asked for.
KindFits(r) ==
  /\ pc[r] = "new" => form[r].kind = "none"
  /\ pc[r] \in {"user", "act", "unlink", "link"} => form[r].kind \notin {"none", "login", "setup"}
  /\ pc[r] \in {"count", "create", "findRole", "createRole", "assign", "findSite", "createSite"}
       => form[r].kind = "setup"
  /\ pc[r] = "session" => form[r].kind \in {"setup", "login"}

KindInv == \A r \in Requests : KindFits(r)

LEMMA KindStep ==
  ASSUME TypeOK, KindInv, [Next]_vars
  PROVE  KindInv'
<1> USE DEF KindFits, Goes, TypeOK, Ended
<1>s. CASE UNCHANGED vars
  BY <1>s DEF vars, KindInv
<1> SUFFICES ASSUME NEW r \in Requests, Request(r) \/ Expire(r) PROVE KindFits(r)'
  BY <1>s, OthersRest DEF Next, KindInv
<1>0. KindFits(r)
  BY DEF KindInv
<1>1. CASE OpenSetup(r)
  BY <1>0, <1>1 DEF OpenSetup, Opens, Plain
<1>2. CASE loginUser(r)
  BY <1>0, <1>2 DEF loginUser, Opens, Plain
<1>3. CASE FindSession(r)
  BY <1>0, <1>3 DEF FindSession, Opens, Asks
<1>4. CASE FindUser(r)
  BY <1>0, <1>4 DEF FindUser
<1>5. CASE CountUsers(r)
  BY <1>0, <1>5 DEF CountUsers
<1>6. CASE CreateUser(r)
  BY <1>0, <1>6 DEF CreateUser, InsertUser
<1>7. CASE FindRole(r)
  BY <1>0, <1>7 DEF FindRole
<1>8. CASE CreateAdminRole(r)
  BY <1>0, <1>8 DEF CreateAdminRole, InsertRole
<1>9. CASE Assign(r)
  BY <1>0, <1>9 DEF Assign
<1>10. CASE FindSite(r)
  BY <1>0, <1>10 DEF FindSite
<1>11. CASE CreateSite(r)
  BY <1>0, <1>11 DEF CreateSite
<1>12. CASE createLoginSession(r)
  BY <1>0, <1>12 DEF createLoginSession
<1>13. CASE RefuseOneself(r)
  BY <1>0, <1>13 DEF RefuseOneself, Leaves
<1>14. CASE Disable(r)
  BY <1>0, <1>14 DEF Disable, Switch, Acts, Leaves
<1>15. CASE Enable(r)
  BY <1>0, <1>15 DEF Enable, Switch, Acts, Leaves
<1>16. CASE Remove(r)
  BY <1>0, <1>16 DEF Remove, Acts, Leaves
<1>17. CASE Invite(r)
  BY <1>0, <1>17 DEF Invite, Acts, InsertUser
<1>18. CASE Unlink(r)
  BY <1>0, <1>18 DEF Unlink
<1>19. CASE Link(r)
  BY <1>0, <1>19 DEF Link
<1>20. CASE CreateRole(r)
  BY <1>0, <1>20 DEF CreateRole, Acts, InsertRole
<1>21. CASE UpdateRole(r)
  BY <1>0, <1>21 DEF UpdateRole, Acts, Leaves
<1>22. CASE DeleteRole(r)
  BY <1>0, <1>22 DEF DeleteRole, Acts, Leaves
<1>23. CASE CreateKey(r)
  BY <1>0, <1>23 DEF CreateKey, Acts, Leaves
<1>24. CASE RevokeKey(r)
  BY <1>0, <1>24 DEF RevokeKey, Acts, Drops, Leaves
<1>25. CASE logout(r)
  BY <1>0, <1>25 DEF logout, Acts, Drops, Leaves
<1>26. CASE LogoutByKey(r)
  BY <1>0, <1>26 DEF LogoutByKey, Acts, Leaves
<1>27. CASE StatementFails(r)
  BY <1>0, <1>27 DEF StatementFails
<1>28. CASE Expire(r)
  BY <1>0, <1>28 DEF Expire
<1>. QED
  BY <1>1, <1>2, <1>3, <1>4, <1>5, <1>6, <1>7, <1>8, <1>9, <1>10, <1>11, <1>12, <1>13, <1>14,
     <1>15, <1>16, <1>17, <1>18, <1>19, <1>20, <1>21, <1>22, <1>23, <1>24, <1>25, <1>26,
     <1>27, <1>28 DEF Request

-----------------------------------------------------------------------------
(* Who changes whose roles *)

\* Where a request has not yet inserted a user, and where not yet a role.
BeforeUser == {"new", "user", "act", "count", "create"}
BeforeRole == BeforeUser \cup {"findRole", "createRole"}

\* A row that is not there yet is referred to by nobody.
UserIsNew(r) ==
  pc[r] \in BeforeUser =>
    /\ user[r] = "absent"
    /\ \A o \in Requests : <<r, o>> \notin links
    /\ given[r] = {}
    /\ \A q \in Requests : form[q].kind = "setRoles" => form[q].whom # r
RoleIsNew(r) ==
  pc[r] \in BeforeRole =>
    /\ role[r] = Null
    /\ \A u \in Requests : <<u, r>> \notin links /\ r \notin given[u]
    /\ \A q \in Requests : r \notin form[q].roles /\ (pc[q] = "assign" => form[q].whom # r)

\* Roles are set for a user that is listed, or for the one that the request has invited.
GivesTo(r) ==
  /\ pc[r] \in {"unlink", "link"} => form[r].kind \in {"setRoles", "invite"}
  /\ form[r].kind = "invite" => form[r].whom = r

\* While one request changes the roles of a user there are none; else they are as given.
RolesFit(u) ==
  u \in Users \ muddled =>
    /\ \A q, s \in Requests : Changes(q, u) /\ Changes(s, u) => q = s
    /\ \A q, o \in Requests : Changes(q, u) => <<u, o>> \notin links
    /\ (\A q \in Requests : ~Changes(q, u)) =>
         \A o \in Roles : <<u, o>> \in links <=> o \in given[u]

RolesInv == \A r \in Requests : UserIsNew(r) /\ RoleIsNew(r) /\ GivesTo(r) /\ RolesFit(r)

\* A step that inserts nothing, and ends a change only by telling that it is in part.
LEMMA TameStep ==
  ASSUME TypeOK, TypeOK', RolesInv, UNCHANGED <<form, given>>, muddled \subseteq muddled',
         \A u \in Requests : user[u] = "absent" => user'[u] = "absent",
         \A o \in Requests : role[o] = Null => role'[o] = Null,
         links' \subseteq links,
         \A u, o \in Requests :
           user'[u] # "absent" /\ role'[o] # Null /\ <<u, o>> \in links => <<u, o>> \in links',
         \A q \in Requests : pc'[q] = pc[q] \/ (pc'[q] = "act" /\ pc[q] = "user")
                              \/ (pc'[q] = "create" /\ pc[q] = "count")
                              \/ (pc'[q] = "unlink" /\ form[q].kind = "setRoles")
                              \/ pc'[q] \in Ended \cup {"findSite", "createSite", "session"},
         \A q, u \in Requests : Changes(q, u) => Changes(q, u)' \/ u \in muddled'
  PROVE  RolesInv'
<1> SUFFICES ASSUME NEW r \in Requests
             PROVE  (UserIsNew(r) /\ RoleIsNew(r) /\ GivesTo(r) /\ RolesFit(r))'
  BY DEF RolesInv
<1>0. UserIsNew(r) /\ RoleIsNew(r) /\ GivesTo(r) /\ RolesFit(r)
  BY DEF RolesInv
<1>1. pc'[r] \in BeforeUser => pc[r] \in BeforeUser
  BY DEF BeforeUser, Ended
<1>2. \A q \in Requests : pc'[q] \in BeforeRole => pc[q] \in BeforeRole
  BY DEF BeforeRole, BeforeUser, Ended
<1>3. \A q, u \in Requests : Changes(q, u)' => Changes(q, u)
  BY DEF Changes, Ended
<1>4. UserIsNew(r)'
  BY <1>0, <1>1 DEF UserIsNew
<1>5. RoleIsNew(r)'
  <2>1. \A q \in Requests : pc'[q] = "assign" => pc[q] = "assign"
    BY DEF Ended
  <2>. QED
    BY <1>0, <1>2, <2>1 DEF RoleIsNew
<1>6. GivesTo(r)'
  BY <1>0 DEF GivesTo, Ended
<1>7. RolesFit(r)'
  <2> SUFFICES ASSUME r \in Users', r \notin muddled'
               PROVE  /\ \A q, s \in Requests : Changes(q, r)' /\ Changes(s, r)' => q = s
                      /\ \A q, o \in Requests : Changes(q, r)' => <<r, o>> \notin links'
                      /\ (\A q \in Requests : ~Changes(q, r)') =>
                           \A o \in Roles' : <<r, o>> \in links' <=> o \in given'[r]
    BY DEF RolesFit
  <2>1. r \in Users \ muddled /\ \A o \in Roles' : o \in Roles
    BY DEF Users, Roles
  <2>2. \A o \in Roles' : <<r, o>> \in links' <=> <<r, o>> \in links
    BY DEF Users, Roles
  <2>. QED
    BY <1>0, <1>3, <2>1, <2>2 DEF RolesFit
<1>. QED
  BY <1>4, <1>5, <1>6, <1>7

\* A request that comes in may name what its page has listed.
LEMMA OpeningStep ==
  ASSUME TypeOK, TypeOK', RolesInv, NEW r \in Requests,
         NEW f, NEW to \in Ended \cup {"count", "user", "session"}, Opens(r, f, to),
         f.kind = "setRoles" => f.whom \in Users,
         f.kind = "invite" => f.whom = r,
         f.roles \subseteq Roles
  PROVE  RolesInv'
<1>0. /\ UNCHANGED <<user, role, links, given, muddled>> /\ pc[r] = "new"
      /\ form'[r] = f /\ \A q \in Requests \ {r} : form'[q] = form[q] /\ pc'[q] = pc[q]
  BY DEF Opens, Goes, tables, past, TypeOK
<1>1. pc'[r] \in Ended \cup {"count", "user", "session"}
  BY DEF Opens, Goes, TypeOK
<1>2. \A q, u \in Requests : Changes(q, u)' <=> Changes(q, u)
  BY <1>0, <1>1 DEF Changes, Ended
<1> SUFFICES ASSUME NEW v \in Requests
             PROVE  (UserIsNew(v) /\ RoleIsNew(v) /\ GivesTo(v) /\ RolesFit(v))'
  BY DEF RolesInv
<1>3. UserIsNew(v) /\ RoleIsNew(v) /\ GivesTo(v) /\ RolesFit(v)
  BY DEF RolesInv
<1>4. UserIsNew(v)'
  <2>1. pc'[v] \in BeforeUser => pc[v] \in BeforeUser
    BY <1>0 DEF BeforeUser
  <2>. QED
    BY <1>0, <1>3, <2>1 DEF UserIsNew, Users
<1>5. RoleIsNew(v)'
  <2>1. pc'[v] \in BeforeRole => pc[v] \in BeforeRole
    BY <1>0 DEF BeforeRole, BeforeUser
  <2>2. \A q \in Requests : pc'[q] = "assign" => pc[q] = "assign" /\ q # r
    BY <1>0, <1>1 DEF Ended
  <2>. QED
    BY <1>0, <1>3, <2>1, <2>2 DEF RoleIsNew, Roles
<1>6. GivesTo(v)'
  BY <1>0, <1>1, <1>3 DEF GivesTo, Ended
<1>7. RolesFit(v)'
  BY <1>0, <1>2, <1>3 DEF RolesFit, Users, Roles
<1>. QED
  BY <1>4, <1>5, <1>6, <1>7

\* A user that is inserted is nobody's yet.
LEMMA InsertUserStep ==
  ASSUME TypeOK, TypeOK', RolesInv, NEW r \in Requests, pc[r] \in BeforeUser,
         NEW stage \in {"findRole", "done", "unlink"},
         stage = "unlink" => form[r].kind = "invite",
         InsertUser(r, stage)
  PROVE  RolesInv'
<1>0. /\ UNCHANGED <<role, links, form, given, muddled>> /\ user' = [user EXCEPT ![r] = "enabled"]
      /\ pc'[r] = stage /\ \A q \in Requests \ {r} : pc'[q] = pc[q]
  BY DEF InsertUser, Goes, past, TypeOK
<1>1. \A v \in Requests : UserIsNew(v) /\ RoleIsNew(v) /\ GivesTo(v) /\ RolesFit(v)
  BY DEF RolesInv
<1> SUFFICES ASSUME NEW v \in Requests
             PROVE  (UserIsNew(v) /\ RoleIsNew(v) /\ GivesTo(v) /\ RolesFit(v))'
  BY DEF RolesInv
<1>2. UserIsNew(v)'
  BY <1>0, <1>1 DEF UserIsNew, BeforeUser, TypeOK
<1>3. RoleIsNew(v)'
  BY <1>0, <1>1 DEF RoleIsNew, BeforeRole, BeforeUser
<1>4. GivesTo(v)'
  BY <1>0, <1>1 DEF GivesTo
<1>5. CASE v = r
  <2>1. \A q \in Requests \ {r} : ~Changes(q, r)'
    <3> SUFFICES ASSUME NEW q \in Requests \ {r}, Changes(q, r)' PROVE FALSE
      OBVIOUS
    <3>1. pc[q] = "link" /\ form[q].whom = r
      BY <1>0 DEF Changes
    <3>. QED
      BY <1>1, <3>1 DEF GivesTo, UserIsNew
  <2>2. \A o \in Requests : <<r, o>> \notin links' /\ o \notin given'[r]
    BY <1>0, <1>1 DEF UserIsNew
  <2>. QED
    BY <1>2, <1>3, <1>4, <1>5, <2>1, <2>2 DEF RolesFit, Roles
<1>6. CASE v # r
  <2>1. \A q \in Requests : Changes(q, v)' <=> Changes(q, v)
    BY <1>0, <1>6 DEF Changes, BeforeUser
  <2>2. (v \in Users)' <=> v \in Users
    BY <1>0, <1>6 DEF Users, TypeOK
  <2>. QED
    BY <1>0, <1>1, <1>2, <1>3, <1>4, <2>1, <2>2 DEF RolesFit, Roles
<1>. QED
  BY <1>5, <1>6

\* A role that is inserted has been given to nobody.
LEMMA InsertRoleStep ==
  ASSUME TypeOK, TypeOK', RolesInv, NEW r \in Requests, pc[r] \in BeforeRole,
         NEW name, NEW stage \in {"assign", "done"}, InsertRole(r, name, stage),
         stage = "assign" <=> pc[r] = "createRole", pc[r] # "findRole",
         IF stage = "assign" THEN form' = [form EXCEPT ![r].whom = r] ELSE UNCHANGED form
  PROVE  RolesInv'
<1>0. /\ UNCHANGED <<user, links, given, muddled>> /\ \A o \in Requests \ {r} : role'[o] = role[o]
      /\ pc'[r] = stage /\ \A q \in Requests \ {r} : pc'[q] = pc[q] /\ form'[q] = form[q]
      /\ form'[r].kind = form[r].kind /\ form'[r].roles = form[r].roles
      /\ form'[r].whom = IF stage = "assign" THEN r ELSE form[r].whom
  BY DEF InsertRole, Goes, past, TypeOK
<1>1. \A v \in Requests : UserIsNew(v) /\ RoleIsNew(v) /\ GivesTo(v) /\ RolesFit(v)
  BY DEF RolesInv
<1> SUFFICES ASSUME NEW v \in Requests
             PROVE  (UserIsNew(v) /\ RoleIsNew(v) /\ GivesTo(v) /\ RolesFit(v))'
  BY DEF RolesInv
<1>2. UserIsNew(v)'
  BY <1>0, <1>1 DEF UserIsNew, BeforeUser
<1>3. RoleIsNew(v)'
  BY <1>0, <1>1 DEF RoleIsNew, BeforeRole, BeforeUser
<1>4. GivesTo(v)'
  BY <1>0, <1>1 DEF GivesTo
<1>5. \A q \in Requests : Changes(q, v)' <=> Changes(q, v)
  BY <1>0 DEF Changes, BeforeRole, BeforeUser
<1>6. \A o \in Roles' : o = r \/ o \in Roles
  BY <1>0 DEF Roles
<1>7. <<v, r>> \notin links /\ r \notin given[v]
  BY <1>1 DEF RoleIsNew
<1>8. RolesFit(v)'
  BY <1>0, <1>1, <1>5, <1>6, <1>7 DEF RolesFit, Users
<1>. QED
  BY <1>2, <1>3, <1>4, <1>8

\* Every step keeps who has which roles.
LEMMA RolesStep ==
  ASSUME TypeOK, KindInv, RolesInv, [Next]_vars
  PROVE  RolesInv'
<1>0. TypeOK'
  BY TypeStep
<1>s. CASE UNCHANGED vars
  BY <1>0, <1>s, TameStep DEF vars, tables, past, Changes
<1> SUFFICES ASSUME NEW r \in Requests, Request(r) \/ Expire(r) PROVE RolesInv'
  BY <1>s DEF Next
<1>a. \A v \in Requests : UserIsNew(v) /\ RoleIsNew(v) /\ GivesTo(v) /\ RolesFit(v)
  BY DEF RolesInv
\* The steps that insert nothing and move no request into a change or out of one.
<1>1. CASE FindUser(r)
  <2>1. UNCHANGED <<form, given, muddled>> /\ \A q \in Requests \ {r} : pc'[q] = pc[q]
    BY <1>1 DEF FindUser, SignsIn, Goes, tables, past, TypeOK
  <2>2. /\ pc'[r] = pc[r] \/ (pc'[r] = "act" /\ pc[r] = "user")
                         \/ (pc'[r] = "create" /\ pc[r] = "count")
                         \/ (pc'[r] = "unlink" /\ form[r].kind = "setRoles")
                         \/ pc'[r] \in Ended \cup {"findSite", "createSite", "session"}
        /\ pc[r] \notin {"link", "findRole", "createRole", "assign"}
    BY <1>1 DEF FindUser, SignsIn, Goes, Ended, TypeOK
  <2>3. /\ \A u \in Requests : user[u] = "absent" => user'[u] = "absent"
        /\ \A o \in Requests : role[o] = Null => role'[o] = Null
        /\ links' \subseteq links
        /\ \A u, o \in Requests :
             user'[u] # "absent" /\ role'[o] # Null /\ <<u, o>> \in links => <<u, o>> \in links'
    BY <1>1 DEF FindUser, SignsIn, tables, TypeOK
  <2>. QED
    BY <1>0, <2>1, <2>2, <2>3, TameStep DEF Changes
<1>2. CASE CountUsers(r)
  <2>1. UNCHANGED <<form, given, muddled>> /\ \A q \in Requests \ {r} : pc'[q] = pc[q]
    BY <1>2 DEF CountUsers, Goes, tables, past, TypeOK
  <2>2. /\ pc'[r] = pc[r] \/ (pc'[r] = "act" /\ pc[r] = "user")
                         \/ (pc'[r] = "create" /\ pc[r] = "count")
                         \/ (pc'[r] = "unlink" /\ form[r].kind = "setRoles")
                         \/ pc'[r] \in Ended \cup {"findSite", "createSite", "session"}
        /\ pc[r] \notin {"link", "findRole", "createRole", "assign"}
    BY <1>2 DEF CountUsers, Goes, Ended, TypeOK
  <2>3. /\ \A u \in Requests : user[u] = "absent" => user'[u] = "absent"
        /\ \A o \in Requests : role[o] = Null => role'[o] = Null
        /\ links' \subseteq links
        /\ \A u, o \in Requests :
             user'[u] # "absent" /\ role'[o] # Null /\ <<u, o>> \in links => <<u, o>> \in links'
    BY <1>2 DEF CountUsers, tables, TypeOK
  <2>. QED
    BY <1>0, <2>1, <2>2, <2>3, TameStep DEF Changes
<1>3. CASE FindSite(r)
  <2>1. UNCHANGED <<form, given, muddled>> /\ \A q \in Requests \ {r} : pc'[q] = pc[q]
    BY <1>3 DEF FindSite, Goes, tables, past, TypeOK
  <2>2. /\ pc'[r] = pc[r] \/ (pc'[r] = "act" /\ pc[r] = "user")
                         \/ (pc'[r] = "create" /\ pc[r] = "count")
                         \/ (pc'[r] = "unlink" /\ form[r].kind = "setRoles")
                         \/ pc'[r] \in Ended \cup {"findSite", "createSite", "session"}
        /\ pc[r] \notin {"link", "findRole", "createRole", "assign"}
    BY <1>3 DEF FindSite, Goes, Ended, TypeOK
  <2>3. /\ \A u \in Requests : user[u] = "absent" => user'[u] = "absent"
        /\ \A o \in Requests : role[o] = Null => role'[o] = Null
        /\ links' \subseteq links
        /\ \A u, o \in Requests :
             user'[u] # "absent" /\ role'[o] # Null /\ <<u, o>> \in links => <<u, o>> \in links'
    BY <1>3 DEF FindSite, tables, TypeOK
  <2>. QED
    BY <1>0, <2>1, <2>2, <2>3, TameStep DEF Changes
<1>4. CASE CreateSite(r)
  <2>1. UNCHANGED <<form, given, muddled>> /\ \A q \in Requests \ {r} : pc'[q] = pc[q]
    BY <1>4 DEF CreateSite, Goes, tables, past, TypeOK
  <2>2. /\ pc'[r] = pc[r] \/ (pc'[r] = "act" /\ pc[r] = "user")
                         \/ (pc'[r] = "create" /\ pc[r] = "count")
                         \/ (pc'[r] = "unlink" /\ form[r].kind = "setRoles")
                         \/ pc'[r] \in Ended \cup {"findSite", "createSite", "session"}
        /\ pc[r] \notin {"link", "findRole", "createRole", "assign"}
    BY <1>4 DEF CreateSite, Goes, Ended, TypeOK
  <2>3. /\ \A u \in Requests : user[u] = "absent" => user'[u] = "absent"
        /\ \A o \in Requests : role[o] = Null => role'[o] = Null
        /\ links' \subseteq links
        /\ \A u, o \in Requests :
             user'[u] # "absent" /\ role'[o] # Null /\ <<u, o>> \in links => <<u, o>> \in links'
    BY <1>4 DEF CreateSite, tables, TypeOK
  <2>. QED
    BY <1>0, <2>1, <2>2, <2>3, TameStep DEF Changes
<1>5. CASE createLoginSession(r)
  <2>1. UNCHANGED <<form, given, muddled>> /\ \A q \in Requests \ {r} : pc'[q] = pc[q]
    BY <1>5 DEF createLoginSession, Goes, tables, past, TypeOK
  <2>2. /\ pc'[r] = pc[r] \/ (pc'[r] = "act" /\ pc[r] = "user")
                         \/ (pc'[r] = "create" /\ pc[r] = "count")
                         \/ (pc'[r] = "unlink" /\ form[r].kind = "setRoles")
                         \/ pc'[r] \in Ended \cup {"findSite", "createSite", "session"}
        /\ pc[r] \notin {"link", "findRole", "createRole", "assign"}
    BY <1>5 DEF createLoginSession, Goes, Ended, TypeOK
  <2>3. /\ \A u \in Requests : user[u] = "absent" => user'[u] = "absent"
        /\ \A o \in Requests : role[o] = Null => role'[o] = Null
        /\ links' \subseteq links
        /\ \A u, o \in Requests :
             user'[u] # "absent" /\ role'[o] # Null /\ <<u, o>> \in links => <<u, o>> \in links'
    BY <1>5 DEF createLoginSession, tables, TypeOK
  <2>. QED
    BY <1>0, <2>1, <2>2, <2>3, TameStep DEF Changes
<1>6. CASE RefuseOneself(r)
  <2>1. UNCHANGED <<form, given, muddled>> /\ \A q \in Requests \ {r} : pc'[q] = pc[q]
    BY <1>6 DEF RefuseOneself, Strikes, Leaves, Goes, tables, past, TypeOK
  <2>2. /\ pc'[r] = pc[r] \/ (pc'[r] = "act" /\ pc[r] = "user")
                         \/ (pc'[r] = "create" /\ pc[r] = "count")
                         \/ (pc'[r] = "unlink" /\ form[r].kind = "setRoles")
                         \/ pc'[r] \in Ended \cup {"findSite", "createSite", "session"}
        /\ pc[r] \notin {"link", "findRole", "createRole", "assign"}
    BY <1>6 DEF RefuseOneself, Strikes, Leaves, Goes, Ended, TypeOK
  <2>3. /\ \A u \in Requests : user[u] = "absent" => user'[u] = "absent"
        /\ \A o \in Requests : role[o] = Null => role'[o] = Null
        /\ links' \subseteq links
        /\ \A u, o \in Requests :
             user'[u] # "absent" /\ role'[o] # Null /\ <<u, o>> \in links => <<u, o>> \in links'
    BY <1>6 DEF RefuseOneself, Strikes, Leaves, tables, TypeOK
  <2>. QED
    BY <1>0, <2>1, <2>2, <2>3, TameStep DEF Changes
<1>7. CASE Disable(r)
  <2>1. UNCHANGED <<form, given, muddled>> /\ \A q \in Requests \ {r} : pc'[q] = pc[q]
    BY <1>7 DEF Disable, Switch, Acts, Leaves, Goes, tables, past, TypeOK
  <2>2. /\ pc'[r] = pc[r] \/ (pc'[r] = "act" /\ pc[r] = "user")
                         \/ (pc'[r] = "create" /\ pc[r] = "count")
                         \/ (pc'[r] = "unlink" /\ form[r].kind = "setRoles")
                         \/ pc'[r] \in Ended \cup {"findSite", "createSite", "session"}
        /\ pc[r] \notin {"link", "findRole", "createRole", "assign"}
    BY <1>7 DEF Disable, Switch, Acts, Leaves, Goes, Ended, TypeOK
  <2>3. /\ \A u \in Requests : user[u] = "absent" => user'[u] = "absent"
        /\ \A o \in Requests : role[o] = Null => role'[o] = Null
        /\ links' \subseteq links
        /\ \A u, o \in Requests :
             user'[u] # "absent" /\ role'[o] # Null /\ <<u, o>> \in links => <<u, o>> \in links'
    BY <1>7 DEF Disable, Switch, Acts, Leaves, tables, TypeOK, Users, Roles
  <2>. QED
    BY <1>0, <2>1, <2>2, <2>3, TameStep DEF Changes
<1>8. CASE Enable(r)
  <2>1. UNCHANGED <<form, given, muddled>> /\ \A q \in Requests \ {r} : pc'[q] = pc[q]
    BY <1>8 DEF Enable, Switch, Acts, Leaves, Goes, tables, past, TypeOK
  <2>2. /\ pc'[r] = pc[r] \/ (pc'[r] = "act" /\ pc[r] = "user")
                         \/ (pc'[r] = "create" /\ pc[r] = "count")
                         \/ (pc'[r] = "unlink" /\ form[r].kind = "setRoles")
                         \/ pc'[r] \in Ended \cup {"findSite", "createSite", "session"}
        /\ pc[r] \notin {"link", "findRole", "createRole", "assign"}
    BY <1>8 DEF Enable, Switch, Acts, Leaves, Goes, Ended, TypeOK
  <2>3. /\ \A u \in Requests : user[u] = "absent" => user'[u] = "absent"
        /\ \A o \in Requests : role[o] = Null => role'[o] = Null
        /\ links' \subseteq links
        /\ \A u, o \in Requests :
             user'[u] # "absent" /\ role'[o] # Null /\ <<u, o>> \in links => <<u, o>> \in links'
    BY <1>8 DEF Enable, Switch, Acts, Leaves, tables, TypeOK, Users, Roles
  <2>. QED
    BY <1>0, <2>1, <2>2, <2>3, TameStep DEF Changes
<1>9. CASE Remove(r)
  <2>1. UNCHANGED <<form, given, muddled>> /\ \A q \in Requests \ {r} : pc'[q] = pc[q]
    BY <1>9 DEF Remove, Acts, Leaves, Goes, tables, past, TypeOK
  <2>2. /\ pc'[r] = pc[r] \/ (pc'[r] = "act" /\ pc[r] = "user")
                         \/ (pc'[r] = "create" /\ pc[r] = "count")
                         \/ (pc'[r] = "unlink" /\ form[r].kind = "setRoles")
                         \/ pc'[r] \in Ended \cup {"findSite", "createSite", "session"}
        /\ pc[r] \notin {"link", "findRole", "createRole", "assign"}
    BY <1>9 DEF Remove, Acts, Leaves, Goes, Ended, TypeOK
  <2>3. /\ \A u \in Requests : user[u] = "absent" => user'[u] = "absent"
        /\ \A o \in Requests : role[o] = Null => role'[o] = Null
        /\ links' \subseteq links
        /\ \A u, o \in Requests :
             user'[u] # "absent" /\ role'[o] # Null /\ <<u, o>> \in links => <<u, o>> \in links'
    BY <1>9 DEF Remove, Acts, Leaves, tables, TypeOK, Users, Roles
  <2>. QED
    BY <1>0, <2>1, <2>2, <2>3, TameStep DEF Changes
<1>10. CASE UpdateRole(r)
  <2>1. UNCHANGED <<form, given, muddled>> /\ \A q \in Requests \ {r} : pc'[q] = pc[q]
    BY <1>10 DEF UpdateRole, Acts, Leaves, Goes, tables, past, TypeOK
  <2>2. /\ pc'[r] = pc[r] \/ (pc'[r] = "act" /\ pc[r] = "user")
                         \/ (pc'[r] = "create" /\ pc[r] = "count")
                         \/ (pc'[r] = "unlink" /\ form[r].kind = "setRoles")
                         \/ pc'[r] \in Ended \cup {"findSite", "createSite", "session"}
        /\ pc[r] \notin {"link", "findRole", "createRole", "assign"}
    BY <1>10 DEF UpdateRole, Acts, Leaves, Goes, Ended, TypeOK
  <2>3. /\ \A u \in Requests : user[u] = "absent" => user'[u] = "absent"
        /\ \A o \in Requests : role[o] = Null => role'[o] = Null
        /\ links' \subseteq links
        /\ \A u, o \in Requests :
             user'[u] # "absent" /\ role'[o] # Null /\ <<u, o>> \in links => <<u, o>> \in links'
    BY <1>10 DEF UpdateRole, Acts, Leaves, tables, TypeOK, Users, Roles
  <2>. QED
    BY <1>0, <2>1, <2>2, <2>3, TameStep DEF Changes
<1>11. CASE DeleteRole(r)
  <2>1. UNCHANGED <<form, given, muddled>> /\ \A q \in Requests \ {r} : pc'[q] = pc[q]
    BY <1>11 DEF DeleteRole, Acts, Leaves, Goes, tables, past, TypeOK
  <2>2. /\ pc'[r] = pc[r] \/ (pc'[r] = "act" /\ pc[r] = "user")
                         \/ (pc'[r] = "create" /\ pc[r] = "count")
                         \/ (pc'[r] = "unlink" /\ form[r].kind = "setRoles")
                         \/ pc'[r] \in Ended \cup {"findSite", "createSite", "session"}
        /\ pc[r] \notin {"link", "findRole", "createRole", "assign"}
    BY <1>11 DEF DeleteRole, Acts, Leaves, Goes, Ended, TypeOK
  <2>3. /\ \A u \in Requests : user[u] = "absent" => user'[u] = "absent"
        /\ \A o \in Requests : role[o] = Null => role'[o] = Null
        /\ links' \subseteq links
        /\ \A u, o \in Requests :
             user'[u] # "absent" /\ role'[o] # Null /\ <<u, o>> \in links => <<u, o>> \in links'
    BY <1>11 DEF DeleteRole, Acts, Leaves, tables, TypeOK, Users, Roles
  <2>. QED
    BY <1>0, <2>1, <2>2, <2>3, TameStep DEF Changes
<1>12. CASE CreateKey(r)
  <2>1. UNCHANGED <<form, given, muddled>> /\ \A q \in Requests \ {r} : pc'[q] = pc[q]
    BY <1>12 DEF CreateKey, Acts, Leaves, Goes, tables, past, TypeOK
  <2>2. /\ pc'[r] = pc[r] \/ (pc'[r] = "act" /\ pc[r] = "user")
                         \/ (pc'[r] = "create" /\ pc[r] = "count")
                         \/ (pc'[r] = "unlink" /\ form[r].kind = "setRoles")
                         \/ pc'[r] \in Ended \cup {"findSite", "createSite", "session"}
        /\ pc[r] \notin {"link", "findRole", "createRole", "assign"}
    BY <1>12 DEF CreateKey, Acts, Leaves, Goes, Ended, TypeOK
  <2>3. /\ \A u \in Requests : user[u] = "absent" => user'[u] = "absent"
        /\ \A o \in Requests : role[o] = Null => role'[o] = Null
        /\ links' \subseteq links
        /\ \A u, o \in Requests :
             user'[u] # "absent" /\ role'[o] # Null /\ <<u, o>> \in links => <<u, o>> \in links'
    BY <1>12 DEF CreateKey, Acts, Leaves, tables, TypeOK
  <2>. QED
    BY <1>0, <2>1, <2>2, <2>3, TameStep DEF Changes
<1>13. CASE RevokeKey(r)
  <2>1. UNCHANGED <<form, given, muddled>> /\ \A q \in Requests \ {r} : pc'[q] = pc[q]
    BY <1>13 DEF RevokeKey, Acts, Drops, Leaves, Goes, tables, past, TypeOK
  <2>2. /\ pc'[r] = pc[r] \/ (pc'[r] = "act" /\ pc[r] = "user")
                         \/ (pc'[r] = "create" /\ pc[r] = "count")
                         \/ (pc'[r] = "unlink" /\ form[r].kind = "setRoles")
                         \/ pc'[r] \in Ended \cup {"findSite", "createSite", "session"}
        /\ pc[r] \notin {"link", "findRole", "createRole", "assign"}
    BY <1>13 DEF RevokeKey, Acts, Drops, Leaves, Goes, Ended, TypeOK
  <2>3. /\ \A u \in Requests : user[u] = "absent" => user'[u] = "absent"
        /\ \A o \in Requests : role[o] = Null => role'[o] = Null
        /\ links' \subseteq links
        /\ \A u, o \in Requests :
             user'[u] # "absent" /\ role'[o] # Null /\ <<u, o>> \in links => <<u, o>> \in links'
    BY <1>13 DEF RevokeKey, Acts, Drops, Leaves, tables, TypeOK
  <2>. QED
    BY <1>0, <2>1, <2>2, <2>3, TameStep DEF Changes
<1>14. CASE logout(r)
  <2>1. UNCHANGED <<form, given, muddled>> /\ \A q \in Requests \ {r} : pc'[q] = pc[q]
    BY <1>14 DEF logout, Acts, Drops, Leaves, Goes, tables, past, TypeOK
  <2>2. /\ pc'[r] = pc[r] \/ (pc'[r] = "act" /\ pc[r] = "user")
                         \/ (pc'[r] = "create" /\ pc[r] = "count")
                         \/ (pc'[r] = "unlink" /\ form[r].kind = "setRoles")
                         \/ pc'[r] \in Ended \cup {"findSite", "createSite", "session"}
        /\ pc[r] \notin {"link", "findRole", "createRole", "assign"}
    BY <1>14 DEF logout, Acts, Drops, Leaves, Goes, Ended, TypeOK
  <2>3. /\ \A u \in Requests : user[u] = "absent" => user'[u] = "absent"
        /\ \A o \in Requests : role[o] = Null => role'[o] = Null
        /\ links' \subseteq links
        /\ \A u, o \in Requests :
             user'[u] # "absent" /\ role'[o] # Null /\ <<u, o>> \in links => <<u, o>> \in links'
    BY <1>14 DEF logout, Acts, Drops, Leaves, tables, TypeOK
  <2>. QED
    BY <1>0, <2>1, <2>2, <2>3, TameStep DEF Changes
<1>15. CASE LogoutByKey(r)
  <2>1. UNCHANGED <<form, given, muddled>> /\ \A q \in Requests \ {r} : pc'[q] = pc[q]
    BY <1>15 DEF LogoutByKey, Acts, Leaves, Goes, tables, past, TypeOK
  <2>2. /\ pc'[r] = pc[r] \/ (pc'[r] = "act" /\ pc[r] = "user")
                         \/ (pc'[r] = "create" /\ pc[r] = "count")
                         \/ (pc'[r] = "unlink" /\ form[r].kind = "setRoles")
                         \/ pc'[r] \in Ended \cup {"findSite", "createSite", "session"}
        /\ pc[r] \notin {"link", "findRole", "createRole", "assign"}
    BY <1>15 DEF LogoutByKey, Acts, Leaves, Goes, Ended, TypeOK
  <2>3. /\ \A u \in Requests : user[u] = "absent" => user'[u] = "absent"
        /\ \A o \in Requests : role[o] = Null => role'[o] = Null
        /\ links' \subseteq links
        /\ \A u, o \in Requests :
             user'[u] # "absent" /\ role'[o] # Null /\ <<u, o>> \in links => <<u, o>> \in links'
    BY <1>15 DEF LogoutByKey, Acts, Leaves, tables, TypeOK
  <2>. QED
    BY <1>0, <2>1, <2>2, <2>3, TameStep DEF Changes
<1>16. CASE Expire(r)
  <2>1. UNCHANGED <<user, role, links, pc, form, given, muddled>>
    BY <1>16 DEF Expire, past
  <2>. QED
    BY <1>0, <2>1, TameStep DEF Changes
<1>17. CASE StatementFails(r)
  <2>1. /\ UNCHANGED <<user, role, links, form, given>>
        /\ pc'[r] = "failed" /\ \A q \in Requests \ {r} : pc'[q] = pc[q]
        /\ muddled' = muddled \cup {u \in Requests : Changes(r, u)}
    BY <1>17 DEF StatementFails, Goes, tables, TypeOK
  <2>2. \A q, u \in Requests : Changes(q, u) => Changes(q, u)' \/ u \in muddled'
    BY <2>1 DEF Changes
  <2>3. \A q \in Requests : pc'[q] = pc[q] \/ pc'[q] \in Ended
    BY <2>1 DEF Ended
  <2>. QED
    BY <1>0, <2>1, <2>2, <2>3, TameStep
\* The requests that come in.
<1>18. CASE OpenSetup(r)
  <2>1. PICK e \in Emails : Opens(r, Plain("setup", e), "count")
    BY <1>18 DEF OpenSetup
  <2>2. Plain("setup", e).kind = "setup" /\ Plain("setup", e).roles = {}
    BY DEF Plain
  <2>. QED
    BY <1>0, <2>1, <2>2, OpeningStep
<1>19. CASE loginUser(r)
  <2>1. PICK u \in Users :
          Opens(r, Plain("login", Null), IF user[u] = "enabled" THEN "session" ELSE "refused")
    BY <1>19 DEF loginUser
  <2>2. Plain("login", Null).kind = "login" /\ Plain("login", Null).roles = {}
    BY DEF Plain
  <2>3. (IF user[u] = "enabled" THEN "session" ELSE "refused")
          \in Ended \cup {"count", "user", "session"}
    BY DEF Ended
  <2>. QED
    BY <1>0, <2>1, <2>2, <2>3, OpeningStep
<1>20. CASE FindSession(r)
  <2> DEFINE f(t, a) == [kind |-> a.kind, token |-> t, roles |-> a.roles, text |-> a.text,
                         whom |-> IF a.kind = "invite" THEN r ELSE a.whom]
  <2>1. PICK t \in Tokens, a \in Asks : Opens(r, f(t, a), "user")
    BY <1>20 DEF FindSession
  <2>2. /\ f(t, a).kind = "setRoles" => f(t, a).whom \in Users
        /\ f(t, a).kind = "invite" => f(t, a).whom = r
        /\ f(t, a).roles \subseteq Roles
    BY DEF Asks
  <2> HIDE DEF f
  <2>. QED
    BY <1>0, <2>1, <2>2, OpeningStep
\* Those that insert.
<1>21. CASE CreateUser(r)
  BY <1>0, <1>21, InsertUserStep DEF CreateUser, BeforeUser
<1>22. CASE Invite(r)
  <2>1. PICK stage \in {"findRole", "done", "unlink"} : InsertUser(r, stage)
    BY <1>22 DEF Invite
  <2>. QED
    BY <1>0, <1>22, <2>1, InsertUserStep DEF Invite, Acts, BeforeUser
<1>23. CASE CreateAdminRole(r)
  BY <1>0, <1>23, InsertRoleStep DEF CreateAdminRole, BeforeRole
<1>24. CASE CreateRole(r)
  BY <1>0, <1>24, InsertRoleStep DEF CreateRole, Acts, BeforeRole, BeforeUser
\* Those that change the roles of a user.
<1>b. \A q \in Requests \ {r} : pc'[q] = pc[q] /\ form'[q] = form[q]
  BY OthersRest
<1>25. CASE FindRole(r)
  <2>1. /\ UNCHANGED <<user, role, links, given, muddled>> /\ pc[r] = "findRole"
        /\ pc'[r] = "createRole" \/ (pc'[r] = "assign" /\ form'[r].whom \in Roles)
        /\ form'[r].kind = form[r].kind /\ form'[r].roles = form[r].roles
    BY <1>25 DEF FindRole, Goes, tables, past, TypeOK
  <2>2. form[r].kind = "setup"
    BY <2>1 DEF KindInv, KindFits
  <2> SUFFICES ASSUME NEW v \in Requests
               PROVE  (UserIsNew(v) /\ RoleIsNew(v) /\ GivesTo(v) /\ RolesFit(v))'
    BY DEF RolesInv
  <2>3. \A q \in Requests : Changes(q, v)' <=> Changes(q, v)
    BY <1>b, <2>1 DEF Changes
  <2>4. UserIsNew(v)'
    BY <1>a, <1>b, <2>1, <2>2 DEF UserIsNew, BeforeUser
  <2>5. RoleIsNew(v)'
    BY <1>a, <1>b, <2>1 DEF RoleIsNew, BeforeRole, BeforeUser, Roles
  <2>6. GivesTo(v)'
    BY <1>a, <1>b, <2>1, <2>2 DEF GivesTo
  <2>. QED
    BY <1>a, <2>1, <2>3, <2>4, <2>5, <2>6 DEF RolesFit, Users, Roles
<1>26. CASE Assign(r)
  <2> DEFINE o == form[r].whom
  <2>1. /\ UNCHANGED <<user, role, form, muddled>> /\ pc[r] = "assign" /\ pc'[r] = "findSite"
        /\ r \in Users /\ o \in Roles
        /\ links' = links \cup {<<r, o>>} /\ given' = [given EXCEPT ![r] = {o}]
    BY <1>26 DEF Assign, Goes, TypeOK
  <2> HIDE DEF o
  <2> SUFFICES ASSUME NEW v \in Requests
               PROVE  (UserIsNew(v) /\ RoleIsNew(v) /\ GivesTo(v) /\ RolesFit(v))'
    BY DEF RolesInv
  <2>2. UserIsNew(v)'
    BY <1>a, <1>b, <2>1 DEF UserIsNew, BeforeUser, TypeOK
  <2>3. RoleIsNew(v)'
    <3>1. pc[v] \in BeforeRole => o # v
      BY <1>a, <2>1 DEF RoleIsNew, o
    <3>. QED
      BY <1>a, <1>b, <2>1, <3>1 DEF RoleIsNew, BeforeRole, BeforeUser, TypeOK
  <2>4. GivesTo(v)'
    BY <1>a, <1>b, <2>1 DEF GivesTo
  <2>5. CASE v = r
    <3>1. Changes(r, r) /\ ~Changes(r, r)'
      BY <2>1 DEF Changes
    <3>2. \A q \in Requests \ {r} : Changes(q, r)' <=> Changes(q, r)
      BY <1>b, <2>1 DEF Changes
    <3>. QED
      BY SMTT(30), <1>a, <2>1, <2>2, <2>3, <2>4, <2>5, <3>1, <3>2 DEF RolesFit, Users, Roles, TypeOK
  <2>6. CASE v # r
    <3>1. \A q \in Requests : Changes(q, v)' <=> Changes(q, v)
      BY <1>b, <2>1, <2>6 DEF Changes
    <3>2. given'[v] = given[v] /\ \A p \in Requests : <<v, p>> \in links' <=> <<v, p>> \in links
      BY <2>1, <2>6 DEF TypeOK
    <3>. QED
      BY <1>a, <2>1, <2>2, <2>3, <2>4, <3>1, <3>2 DEF RolesFit, Users, Roles
  <2>. QED
    BY <2>5, <2>6
<1>27. CASE Unlink(r)
  <2> DEFINE u == form[r].whom
  <2>1. /\ UNCHANGED <<user, role, form>> /\ pc[r] = "unlink"
        /\ links' = {l \in links : l[1] # u}
        /\ given' = IF form[r].roles = {} THEN [given EXCEPT ![u] = {}] ELSE given
        /\ muddled' = IF \E q \in Requests \ {r} : Changes(q, u)
                      THEN muddled \cup {u} ELSE muddled \ {u}
        /\ pc'[r] = IF form[r].roles = {} THEN "done" ELSE "link"
    BY <1>27 DEF Unlink, Cleared, Goes, TypeOK
  <2>2. u \in Requests => pc[u] \notin BeforeUser
    BY <1>a, <2>1 DEF GivesTo, UserIsNew, BeforeUser
  <2> HIDE DEF u
  <2> SUFFICES ASSUME NEW v \in Requests
               PROVE  (UserIsNew(v) /\ RoleIsNew(v) /\ GivesTo(v) /\ RolesFit(v))'
    BY DEF RolesInv
  <2>3. UserIsNew(v)'
    BY <1>a, <1>b, <2>1, <2>2 DEF UserIsNew, BeforeUser, TypeOK
  <2>4. RoleIsNew(v)'
    BY <1>a, <1>b, <2>1 DEF RoleIsNew, BeforeRole, BeforeUser, TypeOK
  <2>5. GivesTo(v)'
    BY <1>a, <1>b, <2>1 DEF GivesTo
  <2>6. CASE v = u
    <3>1. \A q \in Requests \ {r} : Changes(q, v)' <=> Changes(q, v)
      BY <1>b, <2>1 DEF Changes
    <3>2. v \notin muddled' => \A q \in Requests \ {r} : ~Changes(q, v)
      BY <2>1, <2>6
    <3>3. \A p \in Requests : <<v, p>> \notin links'
      BY <2>1, <2>6
    <3>4. ~Changes(r, v)' => given'[v] = {}
      BY <2>1, <2>6 DEF Changes, TypeOK, u
    <3>. QED
      BY <2>3, <2>4, <2>5, <3>1, <3>2, <3>3, <3>4 DEF RolesFit, Roles
  <2>7. CASE v # u
    <3>1. \A q \in Requests : Changes(q, v)' <=> Changes(q, v)
      BY <1>b, <2>1, <2>7 DEF Changes, u
    <3>2. given'[v] = given[v] /\ \A p \in Requests : <<v, p>> \in links' <=> <<v, p>> \in links
      BY <2>1, <2>7 DEF TypeOK
    <3>3. v \in muddled' <=> v \in muddled
      BY <2>1, <2>7
    <3>. QED
      BY <1>a, <2>1, <2>3, <2>4, <2>5, <3>1, <3>2, <3>3 DEF RolesFit, Users, Roles
  <2>. QED
    BY <2>6, <2>7
<1>28. CASE Link(r)
  <2> DEFINE u == form[r].whom
             os == form[r].roles
  <2>1. /\ UNCHANGED <<user, role, form, muddled>> /\ pc[r] = "link" /\ pc'[r] = "done"
        /\ u \in Users /\ os \subseteq Roles
        /\ links' = links \cup ({u} \X os) /\ given' = [given EXCEPT ![u] = os]
    BY <1>28 DEF Link, Goes, TypeOK
  <2>2. pc[u] \notin BeforeUser
    BY <1>a, <2>1 DEF GivesTo, UserIsNew, BeforeUser, Users
  <2>3. Changes(r, u) /\ \A v \in Requests \ {u} : ~Changes(r, v)
    BY <2>1 DEF Changes
  <2>h. \A v \in Requests : pc[v] \in BeforeRole => v \notin os
    BY <1>a DEF RoleIsNew
  <2> HIDE DEF u, os
  <2> SUFFICES ASSUME NEW v \in Requests
               PROVE  (UserIsNew(v) /\ RoleIsNew(v) /\ GivesTo(v) /\ RolesFit(v))'
    BY DEF RolesInv
  <2>4. UserIsNew(v)'
    <3>1. pc'[v] \in BeforeUser => pc[v] \in BeforeUser /\ v # u
      BY <1>b, <2>1, <2>2 DEF BeforeUser
    <3>. QED
      BY <1>a, <2>1, <3>1 DEF UserIsNew, TypeOK
  <2>5. RoleIsNew(v)'
    <3>1. pc'[v] \in BeforeRole => pc[v] \in BeforeRole
      BY <1>b, <2>1 DEF BeforeRole, BeforeUser
    <3>2. \A q \in Requests : pc'[q] = "assign" => pc[q] = "assign"
      BY <1>b, <2>1
    <3>. QED
      BY <1>a, <2>1, <2>h, <3>1, <3>2 DEF RoleIsNew, TypeOK
  <2>6. GivesTo(v)'
    BY <1>a, <1>b, <2>1 DEF GivesTo
  <2>c. \A q \in Requests \ {r} : Changes(q, v)' <=> Changes(q, v)
    BY <1>b, <2>1 DEF Changes
  <2>d. ~Changes(r, v)'
    BY <2>1 DEF Changes
  <2>7. CASE v = u
    <3>1. \A p \in Requests : <<v, p>> \in links' <=> <<v, p>> \in links \/ p \in os
      BY <2>1, <2>7
    <3>2. given'[v] = os
      BY <2>1, <2>7 DEF TypeOK
    <3>. QED
      BY <1>a, <2>1, <2>3, <2>4, <2>5, <2>6, <2>7, <2>c, <2>d, <3>1, <3>2 DEF RolesFit, Users, Roles
  <2>8. CASE v # u
    <3>1. given'[v] = given[v] /\ \A p \in Requests : <<v, p>> \in links' <=> <<v, p>> \in links
      BY <2>1, <2>8 DEF TypeOK
    <3>. QED
      BY <1>a, <2>1, <2>3, <2>4, <2>5, <2>6, <2>8, <2>c, <2>d, <3>1 DEF RolesFit, Users, Roles
  <2>. QED
    BY <2>7, <2>8
<1>. QED
  BY <1>1, <1>2, <1>3, <1>4, <1>5, <1>6, <1>7, <1>8, <1>9, <1>10, <1>11, <1>12, <1>13, <1>14,
     <1>15, <1>16, <1>17, <1>18, <1>19, <1>20, <1>21, <1>22, <1>23, <1>24, <1>25, <1>26,
     <1>27, <1>28 DEF Request

-----------------------------------------------------------------------------
(* A setup on its own *)

\* Nothing is there before a setup inserts the user; then only what it has inserted.
SetupFits(r) ==
  /\ pc[r] = "create" => Users = {}
  /\ pc[r] # "create" => Users = {r} /\ user[r] = "enabled" /\ actor[r] = r
  /\ pc[r] \in {"create", "findRole", "createRole"} => Roles = {}
  /\ pc[r] = "assign" => form[r].whom \in Roles /\ role[form[r].whom] = "admin"
  /\ pc[r] \in {"findSite", "createSite", "session"} => Admin(r)
  /\ site <=> pc[r] = "session"

Untouched ==
  faults = 0 /\ ~twoSetups /\ \A r \in Requests : form[r].kind \in {"none", "login", "setup"}

SetupInv ==
  Untouched =>
    /\ \A r, q \in Requests : SettingUp(r) /\ SettingUp(q) => r = q
    /\ \A r \in Requests : SettingUp(r) => SetupFits(r)
    /\ (\A r \in Requests : ~SettingUp(r)) =>
         \/ Users = {} /\ Roles = {} /\ ~site
         \/ /\ Users # {} /\ site
            /\ \A u \in Users : Admin(u)
            /\ \A u, v \in Users : form[u].kind = "setup" => u = v

\* A step past the setup.
LEMMA BesideSetup ==
  ASSUME SetupInv, Untouched, UNCHANGED <<user, role, links, site>>,
         \A q \in Requests : SettingUp(q)' <=> SettingUp(q),
         \A q \in Requests :
           SettingUp(q) => pc'[q] = pc[q] /\ form'[q] = form[q] /\ actor'[q] = actor[q],
         \A u \in Users : form'[u].kind = form[u].kind
  PROVE  SetupInv'
<1>1. Users' = Users /\ Roles' = Roles
  BY DEF Users, Roles
<1>2. \A q \in Requests : Admin(q)' <=> Admin(q)
  BY <1>1 DEF Admin
<1>3. \A q \in Requests : SettingUp(q) /\ SetupFits(q) => SetupFits(q)'
  BY <1>1, <1>2 DEF SetupFits
<1>4. \A u \in Users : u \in Requests
  BY DEF Users
<1>. QED
  BY <1>1, <1>2, <1>3, <1>4 DEF SetupInv

\* A step of the setup at work that goes on with it.
LEMMA SetupGoesOn ==
  ASSUME SetupInv, Untouched, NEW r \in Requests, SettingUp(r), SetupFits(r)',
         \A q \in Requests \ {r} : SettingUp(q)' <=> SettingUp(q),
         SettingUp(r)'
  PROVE  SetupInv'
BY DEF SetupInv

\* Every step keeps what a setup on its own leaves behind.
LEMMA SetupStep ==
  ASSUME TypeOK, KindInv, RolesInv, SetupInv, [Next]_vars
  PROVE  SetupInv'
<1>0. TypeOK' /\ KindInv'
  BY TypeStep, KindStep
<1>s. CASE UNCHANGED vars
  BY <1>s, BesideSetup DEF vars, tables, past, SettingUp, AtWork, SetupInv, Untouched
<1> SUFFICES ASSUME NEW r \in Requests, Request(r) \/ Expire(r), Untouched' PROVE SetupInv'
  BY <1>s DEF Next, SetupInv
<1>1. \A q \in Requests \ {r} :
        /\ pc'[q] = pc[q] /\ form'[q] = form[q] /\ actor'[q] = actor[q]
        /\ SettingUp(q)' <=> SettingUp(q)
  BY OthersRest DEF SettingUp, AtWork
\* No form has been sent.
<1>2. /\ pc[r] \notin {"user", "act", "unlink", "link"}
      /\ pc'[r] \notin {"user", "act", "unlink", "link"}
  <2>1. form'[r].kind \in {"none", "login", "setup"} /\ KindFits(r)'
    BY <1>0 DEF Untouched, KindInv
  <2>2. pc'[r] \notin {"user", "act", "unlink", "link"}
    BY <2>1 DEF KindFits
  <2>3. pc[r] \in {"user", "act", "unlink", "link"} => form'[r].kind = form[r].kind
    BY OnlyForward
  <2>4. KindFits(r)
    BY DEF KindInv
  <2>. QED
    BY <2>1, <2>2, <2>3, <2>4 DEF KindFits
<1>3. Untouched
  <2>1. ~twoSetups /\ faults = 0
    BY OnlyForward DEF Untouched, TypeOK
  <2>2. form'[r].kind = form[r].kind \/ form[r].kind = "none"
    BY OnlyForward DEF KindInv, KindFits
  <2>. QED
    BY <1>1, <2>1, <2>2 DEF Untouched
<1>4. \A q \in Requests : SettingUp(q) => SetupFits(q) /\ \A v \in Requests : SettingUp(v) => v = q
  BY <1>3 DEF SetupInv
<1>5. KindFits(r) /\ KindFits(r)'
  BY <1>0 DEF KindInv
\* The steps past the setup.
<1>6. CASE OpenSetup(r)
  <2>1. /\ UNCHANGED <<user, role, links, site, actor>> /\ pc[r] = "new" /\ pc'[r] = "count"
        /\ form'[r].kind = "setup"
    BY <1>6 DEF OpenSetup, Opens, Plain, Goes, tables, TypeOK
  <2>2. ~SettingUp(r) /\ ~SettingUp(r)'
    BY <2>1 DEF SettingUp, AtWork
  <2>3. r \notin Users
    BY <2>1 DEF RolesInv, UserIsNew, BeforeUser, Users
  <2>4. \A u \in Users : form'[u].kind = form[u].kind
    BY <1>1, <2>3 DEF Users
  <2>. QED
    BY <1>1, <1>3, <2>1, <2>2, <2>4, BesideSetup
<1>7. CASE loginUser(r)
  <2>1. /\ UNCHANGED <<user, role, links, site>> /\ pc[r] = "new" /\ form'[r].kind = "login"
    BY <1>7 DEF loginUser, Opens, Plain, Goes, tables, TypeOK
  <2>2. ~SettingUp(r) /\ ~SettingUp(r)'
    BY <2>1 DEF SettingUp, AtWork
  <2>3. r \notin Users
    BY <2>1 DEF RolesInv, UserIsNew, BeforeUser, Users
  <2>4. \A u \in Users : form'[u].kind = form[u].kind
    BY <1>1, <2>3 DEF Users
  <2>. QED
    BY <1>1, <1>3, <2>1, <2>2, <2>4, BesideSetup
<1>8. CASE Expire(r)
  BY <1>3, <1>8, BesideSetup DEF Expire, SettingUp, AtWork
<1>9. CASE createLoginSession(r) /\ form[r].kind # "setup"
  <2>1. UNCHANGED <<user, role, links, site, form, actor>> /\ pc[r] = "session" /\ pc'[r] = "done"
    BY <1>9 DEF createLoginSession, Goes, TypeOK
  <2>2. ~SettingUp(r) /\ ~SettingUp(r)'
    BY <1>9, <2>1 DEF SettingUp
  <2>. QED
    BY <1>1, <1>3, <2>1, <2>2, BesideSetup
<1>10. CASE StatementFails(r)
  <2>1. UNCHANGED <<user, role, links, site, form, actor>> /\ pc'[r] = "failed" /\ AtWork(r)
    BY <1>10 DEF StatementFails, tables, Goes, TypeOK
  <2>2. ~SettingUp(r)'
    BY <2>1 DEF SettingUp, AtWork, Ended
  <2>3. ~SettingUp(r)
    <3> SUFFICES ASSUME SettingUp(r) PROVE FALSE
      OBVIOUS
    <3>1. Refused(r)
      <4>1. faults = 0 /\ faults' = 0
        BY <1>3 DEF Untouched
      <4>. QED
        BY <1>10, <4>1 DEF StatementFails
    <3>2. SetupFits(r)
      BY <1>4
    <3>3. /\ ~Acts(r, "invite") /\ ~Acts(r, "createRole") /\ ~Acts(r, "updateRole")
          /\ ~Acts(r, "createKey") /\ pc[r] # "link"
      BY <1>2 DEF Acts
    <3>. QED
      BY <3>1, <3>2, <3>3 DEF Refused, SetupFits, Taken, Named, Users, Roles
  <2>. QED
    BY <1>1, <1>3, <2>1, <2>2, <2>3, BesideSetup
<1>11. CASE CountUsers(r)
  <2>1. UNCHANGED <<user, role, links, site, form, actor>> /\ pc[r] = "count"
    BY <1>11 DEF CountUsers, tables
  <2>2. ~SettingUp(r)
    BY <2>1 DEF SettingUp
  <2>3. CASE Users # {}
    <3>1. pc'[r] = "failed"
      BY <1>11, <2>3 DEF CountUsers, Goes, TypeOK
    <3>2. ~SettingUp(r)'
      BY <3>1 DEF SettingUp, AtWork, Ended
    <3>. QED
      BY <1>1, <1>3, <2>1, <2>2, <3>2, BesideSetup
  <2>4. CASE Users = {}
    <3>1. pc'[r] = "create"
      BY <1>11, <2>4 DEF CountUsers, Goes, TypeOK
    <3>2. \A q \in Requests : ~SettingUp(q)
      BY <1>11, <2>4 DEF CountUsers, Untouched
    <3>3. Roles = {} /\ ~site
      BY <1>3, <2>4, <3>2 DEF SetupInv
    <3>4. SetupFits(r)'
      BY <2>1, <2>4, <3>1, <3>3 DEF SetupFits, Users, Roles
    <3>5. SettingUp(r)'
      BY <1>5, <2>1, <3>1 DEF KindFits, SettingUp, AtWork, Ended
    <3>. QED
      BY <1>1, <3>2, <3>4, <3>5 DEF SetupInv
  <2>. QED
    BY <2>3, <2>4
\* The steps of the setup at work.
<1>a. ASSUME pc[r] \in {"create", "findRole", "createRole", "assign", "findSite", "createSite"}
      PROVE  SettingUp(r) /\ SetupFits(r)
  BY <1>a, <1>4, <1>5 DEF KindFits, SettingUp, AtWork, Ended
<1>b. ASSUME pc'[r] \in {"findRole", "createRole", "assign", "findSite", "createSite", "session"},
             form'[r].kind = "setup"
      PROVE  SettingUp(r)'
  BY <1>b DEF SettingUp, AtWork, Ended
<1>12. CASE CreateUser(r)
  <2>1. /\ pc[r] = "create" /\ pc'[r] = "findRole" /\ user' = [user EXCEPT ![r] = "enabled"]
        /\ UNCHANGED <<role, site, form>> /\ actor'[r] = r
    BY <1>12 DEF CreateUser, InsertUser, Goes, TypeOK
  <2>2. SettingUp(r) /\ SetupFits(r) /\ SettingUp(r)'
    BY <1>a, <1>b, <1>5, <2>1 DEF KindFits
  <2>3. SetupFits(r)'
    BY <2>1, <2>2 DEF SetupFits, Users, Roles, TypeOK
  <2>. QED
    BY <1>1, <1>3, <2>2, <2>3, SetupGoesOn
<1>13. CASE FindRole(r)
  <2>1. pc[r] = "findRole" /\ UNCHANGED <<user, role, links, site, actor>>
    BY <1>13 DEF FindRole, tables
  <2>2. SettingUp(r) /\ SetupFits(r)
    BY <1>a, <2>1
  <2>3. pc'[r] = "createRole" /\ UNCHANGED form
    BY <1>13, <2>1, <2>2 DEF FindRole, SetupFits, Goes, TypeOK
  <2>4. SettingUp(r)' /\ SetupFits(r)'
    BY <1>b, <1>5, <2>1, <2>2, <2>3 DEF KindFits, SetupFits, Users, Roles
  <2>. QED
    BY <1>1, <1>3, <2>2, <2>4, SetupGoesOn
<1>14. CASE CreateAdminRole(r)
  <2>1. /\ pc[r] = "createRole" /\ pc'[r] = "assign" /\ role' = [role EXCEPT ![r] = "admin"]
        /\ UNCHANGED <<user, site, actor>> /\ form'[r].whom = r
    BY <1>14 DEF CreateAdminRole, InsertRole, Goes, TypeOK
  <2>2. SettingUp(r) /\ SetupFits(r) /\ SettingUp(r)'
    BY <1>a, <1>b, <1>5, <2>1 DEF KindFits
  <2>3. r \in Roles' /\ role'[r] = "admin"
    BY <2>1, AccessAssumption DEF Roles, RoleNames, TypeOK
  <2>4. SetupFits(r)'
    BY <2>1, <2>2, <2>3 DEF SetupFits, Users
  <2>. QED
    BY <1>1, <1>3, <2>2, <2>4, SetupGoesOn
<1>15. CASE Assign(r)
  <2>1. /\ pc[r] = "assign" /\ pc'[r] = "findSite" /\ UNCHANGED <<user, role, site, form, actor>>
        /\ links' = links \cup {<<r, form[r].whom>>}
    BY <1>15 DEF Assign, Goes, TypeOK
  <2>2. SettingUp(r) /\ SetupFits(r) /\ SettingUp(r)'
    BY <1>a, <1>b, <1>5, <2>1 DEF KindFits
  <2>3. Admin(r)'
    BY <2>1, <2>2 DEF SetupFits, Admin, Roles
  <2>4. SetupFits(r)'
    BY <2>1, <2>2, <2>3 DEF SetupFits, Users
  <2>. QED
    BY <1>1, <1>3, <2>2, <2>4, SetupGoesOn
<1>16. CASE FindSite(r) \/ CreateSite(r)
  <2>1. /\ pc[r] \in {"findSite", "createSite"} /\ UNCHANGED <<user, role, links, form, actor>>
    BY <1>16 DEF FindSite, CreateSite, tables
  <2>2. SettingUp(r) /\ SetupFits(r)
    BY <1>a, <2>1
  <2>3. \/ pc'[r] = "createSite" /\ ~site'
        \/ pc'[r] = "session" /\ site'
    BY <1>16, <2>2 DEF FindSite, CreateSite, SetupFits, tables, Goes, TypeOK
  <2>4. SettingUp(r)'
    BY <1>b, <1>5, <2>1, <2>3 DEF KindFits
  <2>5. Admin(r)'
    BY <2>1, <2>2 DEF SetupFits, Admin, Roles
  <2>6. SetupFits(r)'
    BY <2>1, <2>2, <2>3, <2>5 DEF SetupFits, Users
  <2>. QED
    BY <1>1, <1>3, <2>2, <2>4, <2>6, SetupGoesOn
<1>17. CASE createLoginSession(r) /\ form[r].kind = "setup"
  <2>1. UNCHANGED <<user, role, links, site>> /\ pc[r] = "session" /\ pc'[r] = "done"
    BY <1>17 DEF createLoginSession, Goes, TypeOK
  <2>2. SettingUp(r) /\ ~SettingUp(r)'
    BY <1>17, <2>1 DEF SettingUp, AtWork, Ended
  <2>3. \A q \in Requests : ~SettingUp(q)'
    BY <1>1, <1>4, <2>2
  <2>4. Users = {r} /\ site /\ Admin(r)
    BY <1>4, <2>1, <2>2 DEF SetupFits
  <2>5. Users' = {r} /\ site' /\ Admin(r)'
    BY <2>1, <2>4 DEF Users, Admin, Roles
  <2>. QED
    BY <2>3, <2>5 DEF SetupInv
<1>18. ~(FindSession(r) \/ FindUser(r) \/ RefuseOneself(r) \/ Disable(r) \/ Enable(r) \/ Remove(r)
        \/ Invite(r) \/ Unlink(r) \/ Link(r) \/ CreateRole(r) \/ UpdateRole(r) \/ DeleteRole(r)
        \/ CreateKey(r) \/ RevokeKey(r) \/ logout(r) \/ LogoutByKey(r))
  <2>1. ~FindSession(r)
    BY <1>2 DEF FindSession, Opens, Goes, TypeOK
  <2>. QED
    BY <1>2, <2>1 DEF FindUser, RefuseOneself, Strikes, Disable, Enable, Switch, Remove,
       Invite, Unlink, Link, CreateRole, UpdateRole, DeleteRole, CreateKey, RevokeKey, logout,
       LogoutByKey, Acts
<1>. QED
  BY <1>6, <1>7, <1>8, <1>9, <1>10, <1>11, <1>12, <1>13, <1>14, <1>15, <1>16, <1>17,
     <1>18 DEF Request

-----------------------------------------------------------------------------
(* Several setups, and setups that fail *)

Unsent == \A r \in Requests : form[r].kind \in {"none", "login", "setup"}

\* How far a setup has come, whatever the others do.
AtSite == {"findSite", "createSite", "session", "done"}
HasCome(r) ==
  /\ pc[r] \in {"findRole", "createRole", "assign"} \cup AtSite
       => user[r] = "enabled" /\ actor[r] = r
  /\ pc[r] = "assign" => form[r].whom \in Roles /\ role[form[r].whom] = "admin"
  /\ pc[r] \in AtSite => Admin(r)
  /\ pc[r] \in {"session", "done"} => site

\* Without a fault somebody brings the role, and who has brought it the site.
SomeoneBrings ==
  /\ Users # {} /\ Roles = {} => \E r \in Requests : pc[r] \in {"findRole", "createRole"}
  /\ \A o \in Roles : pc[o] = "assign" \/ Admin(o)
  /\ site => Roles # {}
  /\ Roles # {} /\ ~site => \E o \in Roles : pc[o] \in {"assign", "findSite", "createSite"}

SetupsInv ==
  Unsent => /\ \A r \in Requests : form[r].kind = "setup" => HasCome(r)
            /\ faults = 0 => SomeoneBrings

\* Nothing that a setup has brought goes.
Grows ==
  /\ \A u \in Requests : user[u] = "enabled" => user'[u] = "enabled"
  /\ \A o \in Roles : o \in Roles' /\ role'[o] = role[o]
  /\ links \subseteq links' /\ (site => site')

LEMMA GrowthKeeps ==
  ASSUME Grows, NEW q \in Requests
  PROVE  /\ Admin(q) => Admin(q)'
         /\ HasCome(q) /\ UNCHANGED <<pc[q], form[q], actor[q]>> => HasCome(q)'
<1>1. Admin(q) => Admin(q)'
  BY DEF Grows, Admin
<1>2. ASSUME HasCome(q), UNCHANGED <<pc[q], form[q], actor[q]>> PROVE HasCome(q)'
  BY <1>1, <1>2 DEF Grows, HasCome
<1>. QED
  BY <1>1, <1>2

\* A step beside the role and the site.
LEMMA BringersStay ==
  ASSUME TypeOK, Grows, UNCHANGED <<user, role, site>>, NEW r \in Requests, SomeoneBrings,
         \A q \in Requests \ {r} : pc'[q] = pc[q],
         pc[r] \in {"findRole", "createRole"}
           => Roles # {} \/ pc'[r] \in {"findRole", "createRole"},
         pc[r] = "assign" => Admin(r)',
         pc[r] \in {"assign", "findSite", "createSite"}
           => site \/ pc'[r] \in {"assign", "findSite", "createSite"}
  PROVE  SomeoneBrings'
<1>1. Users' = Users /\ Roles' = Roles
  BY DEF Users, Roles
<1>2. \A o \in Roles : Admin(o) => Admin(o)'
  BY GrowthKeeps DEF Roles
<1>3. \A o \in Roles : o \in Requests
  BY DEF Roles
<1>4. \A o \in Roles' : pc'[o] = "assign" \/ Admin(o)'
  BY <1>1, <1>2, <1>3 DEF SomeoneBrings
<1>5. Users' # {} /\ Roles' = {} => \E q \in Requests : pc'[q] \in {"findRole", "createRole"}
  BY <1>1 DEF SomeoneBrings
<1>6. Roles' # {} /\ ~site' => \E o \in Roles' : pc'[o] \in {"assign", "findSite", "createSite"}
  BY <1>1, <1>3 DEF SomeoneBrings
<1>. QED
  BY <1>1, <1>4, <1>5, <1>6 DEF SomeoneBrings

\* Every step keeps what the setups have brought.
LEMMA SetupsStep ==
  ASSUME TypeOK, KindInv, RolesInv, SetupsInv, [Next]_vars
  PROVE  SetupsInv'
<1>0. TypeOK' /\ KindInv'
  BY TypeStep, KindStep
<1>s. CASE UNCHANGED vars
  <2>1. UNCHANGED <<user, role, links, site, pc, form, actor, faults>>
    BY <1>s DEF vars, tables
  <2>2. UNCHANGED <<Users, Roles>>
    BY <2>1 DEF Users, Roles
  <2>3. \A q \in Requests : (Admin(q) => Admin(q)') /\ (HasCome(q) => HasCome(q)')
    BY <2>1, <2>2 DEF Admin, HasCome
  <2>4. \A o \in Roles : o \in Requests
    BY DEF Roles
  <2>5. SomeoneBrings => SomeoneBrings'
    BY <2>1, <2>2, <2>3, <2>4 DEF SomeoneBrings
  <2>. QED
    BY <2>1, <2>3, <2>5 DEF SetupsInv, Unsent
<1> SUFFICES ASSUME NEW r \in Requests, Request(r) \/ Expire(r), Unsent' PROVE SetupsInv'
  BY <1>s DEF Next, SetupsInv
<1>1. \A q \in Requests \ {r} : pc'[q] = pc[q] /\ form'[q] = form[q] /\ actor'[q] = actor[q]
  BY OthersRest
<1>2. /\ pc[r] \notin {"user", "act", "unlink", "link"}
      /\ pc'[r] \notin {"user", "act", "unlink", "link"}
  <2>1. form'[r].kind \in {"none", "login", "setup"} /\ KindFits(r)'
    BY <1>0 DEF Unsent, KindInv
  <2>2. pc'[r] \notin {"user", "act", "unlink", "link"}
    BY <2>1 DEF KindFits
  <2>3. pc[r] \in {"user", "act", "unlink", "link"} => form'[r].kind = form[r].kind
    BY OnlyForward
  <2>4. KindFits(r)
    BY DEF KindInv
  <2>. QED
    BY <2>1, <2>2, <2>3, <2>4 DEF KindFits
<1>3. Unsent
  <2>1. form'[r].kind = form[r].kind \/ form[r].kind = "none"
    BY OnlyForward DEF KindInv, KindFits
  <2>. QED
    BY <1>1, <2>1 DEF Unsent
<1>4. KindFits(r) /\ KindFits(r)'
  BY <1>0 DEF KindInv
<1>5. /\ form[r].kind = "setup" => HasCome(r)
      /\ faults = 0 => SomeoneBrings
  BY <1>3 DEF SetupsInv
<1>6. faults' = 0 => faults = 0
  BY OnlyForward DEF TypeOK
<1>7. ASSUME Grows, form'[r].kind = "setup" => HasCome(r)', faults' = 0 => SomeoneBrings'
      PROVE  SetupsInv'
  <2>1. \A q \in Requests \ {r} : form[q].kind = "setup" => HasCome(q)
    BY <1>3 DEF SetupsInv
  <2>2. \A q \in Requests \ {r} : form'[q].kind = "setup" => HasCome(q)'
    BY <1>1, <1>7, <2>1, GrowthKeeps
  <2>. QED
    BY <1>7, <2>2 DEF SetupsInv
\* A step of a request that brings nothing.
<1>8. ASSUME UNCHANGED <<user, role, links, site>>,
             pc[r] \notin {"findRole", "createRole", "assign", "findSite", "createSite"},
             pc'[r] \notin {"findRole", "createRole", "assign"} \cup AtSite
               \/ form'[r].kind # "setup"
      PROVE  SetupsInv'
  <2>1. Grows
    BY <1>8 DEF Grows, Roles
  <2>2. form'[r].kind = "setup" => HasCome(r)'
    BY <1>8 DEF HasCome, AtSite
  <2>3. faults' = 0 => SomeoneBrings'
    BY <1>1, <1>5, <1>6, <1>8, <2>1, BringersStay
  <2>. QED
    BY <1>7, <2>1, <2>2, <2>3
<1>9. CASE OpenSetup(r)
  BY <1>8, <1>9 DEF OpenSetup, Opens, Goes, tables, TypeOK, AtSite
<1>10. CASE loginUser(r)
  BY <1>8, <1>10 DEF loginUser, Opens, Plain, Goes, tables, TypeOK
<1>11. CASE CountUsers(r)
  BY <1>8, <1>11 DEF CountUsers, Goes, tables, TypeOK, AtSite
<1>12. CASE Expire(r)
  <2>1. UNCHANGED <<user, role, links, site, pc, form, actor, faults>>
    BY <1>12 DEF Expire
  <2>2. Grows
    BY <2>1 DEF Grows, Roles
  <2>3. form'[r].kind = "setup" => HasCome(r)'
    BY <1>5, <2>1, <2>2, GrowthKeeps
  <2>4. UNCHANGED <<Users, Roles>> /\ \A u \in Requests : Admin(u)' <=> Admin(u)
    BY <2>1 DEF Users, Roles, Admin
  <2>5. \A o \in Roles : o \in Requests
    BY DEF Roles
  <2>6. faults' = 0 => SomeoneBrings'
    BY <1>5, <2>1, <2>4, <2>5 DEF SomeoneBrings
  <2>. QED
    BY <1>7, <2>2, <2>3, <2>6
<1>13. CASE CreateUser(r)
  <2>1. /\ pc[r] = "create" /\ pc'[r] = "findRole" /\ user' = [user EXCEPT ![r] = "enabled"]
        /\ UNCHANGED <<role, links, site, form, faults>> /\ actor'[r] = r
    BY <1>13 DEF CreateUser, InsertUser, Goes, TypeOK
  <2>2. Grows
    BY <2>1 DEF Grows, Roles, TypeOK
  <2>3. HasCome(r)'
    BY <2>1 DEF HasCome, AtSite, TypeOK
  <2>4. Roles' = Roles /\ \A o \in Roles : o \in Requests
    BY <2>1 DEF Roles
  <2>5. \A o \in Roles : Admin(o) => Admin(o)'
    BY <2>2, <2>4, GrowthKeeps
  <2>6. ASSUME faults' = 0 PROVE SomeoneBrings'
    <3>1. SomeoneBrings
      BY <1>5, <1>6, <2>6
    <3>2. \A o \in Roles' : pc'[o] = "assign" \/ Admin(o)'
      BY <1>1, <2>1, <2>4, <2>5, <3>1 DEF SomeoneBrings
    <3>3. Roles' # {} /\ ~site' => \E o \in Roles' : pc'[o] \in {"assign", "findSite", "createSite"}
      BY <1>1, <2>1, <2>4, <3>1 DEF SomeoneBrings
    <3>. QED
      BY <2>1, <2>4, <3>1, <3>2, <3>3 DEF SomeoneBrings
  <2>. QED
    BY <1>7, <2>2, <2>3, <2>6
<1>14. CASE FindRole(r)
  <2>1. pc[r] = "findRole" /\ UNCHANGED <<user, role, links, site, actor, faults>>
    BY <1>14 DEF FindRole, tables
  <2>2. Grows
    BY <2>1 DEF Grows, Roles
  <2>3. HasCome(r)
    BY <1>4, <1>5, <2>1 DEF KindFits
  <2>4. \/ pc'[r] = "createRole"
        \/ /\ pc'[r] = "assign"
           /\ \E o \in Roles : role[o] = "admin" /\ form'[r].whom = o
    BY <1>14 DEF FindRole, Goes, TypeOK
  <2>5. HasCome(r)'
    BY <2>1, <2>2, <2>3, <2>4 DEF HasCome, AtSite, Grows
  <2>6. faults' = 0 => SomeoneBrings'
    BY <1>1, <1>5, <1>6, <2>1, <2>2, <2>4, BringersStay
  <2>. QED
    BY <1>7, <2>2, <2>5, <2>6
<1>15. CASE CreateAdminRole(r)
  <2>1. /\ pc[r] = "createRole" /\ pc'[r] = "assign" /\ role' = [role EXCEPT ![r] = "admin"]
        /\ UNCHANGED <<user, links, site, actor, faults>> /\ form'[r].whom = r
    BY <1>15 DEF CreateAdminRole, InsertRole, Goes, TypeOK
  <2>2. role[r] = Null
    BY <2>1 DEF RolesInv, RoleIsNew, BeforeRole
  <2>3. Roles' = Roles \cup {r} /\ role'[r] = "admin"
    BY <2>1, AccessAssumption DEF Roles, RoleNames, TypeOK
  <2>4. Grows
    BY <2>1, <2>2, <2>3 DEF Grows, Roles, TypeOK
  <2>5. HasCome(r)
    BY <1>4, <1>5, <2>1 DEF KindFits
  <2>6. HasCome(r)'
    BY <2>1, <2>3, <2>4, <2>5 DEF HasCome, AtSite, Grows
  <2>7. ASSUME faults' = 0 PROVE SomeoneBrings'
    <3>1. SomeoneBrings
      BY <1>5, <1>6, <2>7
    <3>2. \A o \in Roles : o \in Requests /\ (Admin(o) => Admin(o)')
      BY <2>4, GrowthKeeps DEF Roles
    <3>3. \A o \in Roles' : pc'[o] = "assign" \/ Admin(o)'
      BY <1>1, <2>1, <2>3, <3>1, <3>2 DEF SomeoneBrings
    <3>. QED
      BY <2>1, <2>3, <3>3 DEF SomeoneBrings
  <2>. QED
    BY <1>7, <2>4, <2>6, <2>7
<1>16. CASE Assign(r)
  <2>1. /\ pc[r] = "assign" /\ pc'[r] = "findSite"
        /\ UNCHANGED <<user, role, site, form, actor, faults>>
        /\ links' = links \cup {<<r, form[r].whom>>}
    BY <1>16 DEF Assign, Goes, TypeOK
  <2>2. Grows
    BY <2>1 DEF Grows, Roles
  <2>3. HasCome(r)
    BY <1>4, <1>5, <2>1 DEF KindFits
  <2>4. Admin(r)'
    BY <2>1, <2>3 DEF HasCome, Admin, Roles
  <2>5. HasCome(r)'
    BY <2>1, <2>3, <2>4 DEF HasCome, AtSite
  <2>6. faults' = 0 => SomeoneBrings'
    BY <1>1, <1>5, <1>6, <2>1, <2>2, <2>4, BringersStay
  <2>. QED
    BY <1>7, <2>2, <2>5, <2>6
<1>17. CASE FindSite(r)
  <2>1. /\ pc[r] = "findSite" /\ UNCHANGED <<user, role, links, site, form, actor, faults>>
        /\ \/ pc'[r] = "createSite" /\ ~site
           \/ pc'[r] = "session" /\ site
    BY <1>17 DEF FindSite, tables, Goes, TypeOK
  <2>2. Grows
    BY <2>1 DEF Grows, Roles
  <2>3. HasCome(r)
    BY <1>4, <1>5, <2>1 DEF KindFits
  <2>4. HasCome(r)'
    BY <2>1, <2>2, <2>3, GrowthKeeps DEF HasCome, AtSite, Grows
  <2>5. faults' = 0 => SomeoneBrings'
    BY <1>1, <1>5, <1>6, <2>1, <2>2, BringersStay
  <2>. QED
    BY <1>7, <2>2, <2>4, <2>5
<1>18. CASE CreateSite(r)
  <2>1. /\ pc[r] = "createSite" /\ pc'[r] = "session" /\ site' = TRUE
        /\ UNCHANGED <<user, role, links, form, actor, faults>>
    BY <1>18 DEF CreateSite, Goes, TypeOK
  <2>2. Grows
    BY <2>1 DEF Grows, Roles
  <2>3. HasCome(r)
    BY <1>4, <1>5, <2>1 DEF KindFits
  <2>4. Admin(r) /\ Admin(r)'
    BY <2>1, <2>2, <2>3, GrowthKeeps DEF HasCome, AtSite
  <2>5. HasCome(r)'
    BY <2>1, <2>3, <2>4 DEF HasCome, AtSite
  <2>6. ASSUME faults' = 0 PROVE SomeoneBrings'
    <3>1. SomeoneBrings
      BY <1>5, <1>6, <2>6
    <3>2. Roles' = Roles /\ Roles # {}
      BY <2>1, <2>4 DEF Roles, Admin
    <3>3. \A o \in Roles : o \in Requests /\ (Admin(o) => Admin(o)')
      BY <2>2, GrowthKeeps DEF Roles
    <3>4. \A o \in Roles' : pc'[o] = "assign" \/ Admin(o)'
      BY <1>1, <2>1, <3>1, <3>2, <3>3 DEF SomeoneBrings
    <3>. QED
      BY <2>1, <3>2, <3>4 DEF SomeoneBrings
  <2>. QED
    BY <1>7, <2>2, <2>5, <2>6
<1>19. CASE createLoginSession(r)
  <2>1. /\ pc[r] = "session" /\ pc'[r] = "done"
        /\ UNCHANGED <<user, role, links, site, form, actor, faults>>
    BY <1>19 DEF createLoginSession, Goes, TypeOK
  <2>2. Grows
    BY <2>1 DEF Grows, Roles
  <2>3. form'[r].kind = "setup" => HasCome(r)'
    BY <1>5, <2>1, <2>2, GrowthKeeps DEF HasCome, AtSite, Grows
  <2>4. faults' = 0 => SomeoneBrings'
    BY <1>1, <1>5, <1>6, <2>1, <2>2, BringersStay
  <2>. QED
    BY <1>7, <2>2, <2>3, <2>4
<1>20. CASE StatementFails(r)
  <2>1. /\ UNCHANGED <<user, role, links, site, form, actor>> /\ pc'[r] = "failed" /\ AtWork(r)
        /\ Refused(r) \/ faults' # 0
    BY <1>20 DEF StatementFails, tables, Goes, TypeOK
  <2>2. Grows
    BY <2>1 DEF Grows, Roles
  <2>3. HasCome(r)'
    BY <2>1 DEF HasCome, AtSite
  <2>4. ASSUME faults' = 0 PROVE SomeoneBrings'
    <3>1. Refused(r) /\ SomeoneBrings
      BY <1>5, <1>6, <2>1, <2>4
    <3>2. pc[r] = "assign" => r \in Users /\ form[r].whom \in Roles
      BY <1>4, <1>5 DEF KindFits, HasCome, Users
    <3>3. /\ ~Acts(r, "invite") /\ ~Acts(r, "createRole") /\ ~Acts(r, "updateRole")
          /\ ~Acts(r, "createKey") /\ pc[r] # "link"
      BY <1>2 DEF Acts
    <3>4. /\ pc[r] \notin {"findRole", "assign", "findSite"}
          /\ pc[r] = "createRole" => Roles # {}
          /\ pc[r] = "createSite" => site
      BY <3>1, <3>2, <3>3 DEF Refused, Named
    <3>. QED
      BY <1>1, <2>1, <2>2, <3>1, <3>4, BringersStay
  <2>. QED
    BY <1>7, <2>2, <2>3, <2>4
<1>21. ~(FindSession(r) \/ FindUser(r) \/ RefuseOneself(r) \/ Disable(r) \/ Enable(r) \/ Remove(r)
        \/ Invite(r) \/ Unlink(r) \/ Link(r) \/ CreateRole(r) \/ UpdateRole(r) \/ DeleteRole(r)
        \/ CreateKey(r) \/ RevokeKey(r) \/ logout(r) \/ LogoutByKey(r))
  <2>1. ~FindSession(r)
    BY <1>2 DEF FindSession, Opens, Goes, TypeOK
  <2>. QED
    BY <1>2, <2>1 DEF FindUser, RefuseOneself, Strikes, Disable, Enable, Switch, Remove,
       Invite, Unlink, Link, CreateRole, UpdateRole, DeleteRole, CreateKey, RevokeKey, logout,
       LogoutByKey, Acts
<1>. QED
  BY <1>9, <1>10, <1>11, <1>12, <1>13, <1>14, <1>15, <1>16, <1>17, <1>18, <1>19, <1>20,
     <1>21 DEF Request

-----------------------------------------------------------------------------
(* The theorems *)

IInv == TypeOK /\ Safe /\ KindInv /\ RolesInv /\ SetupInv /\ SetupsInv

LEMMA InitIInv ==
  ASSUME Init
  PROVE  IInv
<1>0. PICK Admins \in SUBSET Requests, first \in Requests :
        /\ Admins = {} \/ first \in Admins
        /\ email \in [Requests -> Emails \cup {Null}]
        /\ user = [u \in Requests |-> IF u \in Admins THEN "enabled" ELSE "absent"]
        /\ role = [o \in Requests |-> IF o = first /\ o \in Admins THEN "admin" ELSE Null]
        /\ links = Admins \X {first}
        /\ given = [u \in Requests |-> IF u \in Admins THEN {first} ELSE {}]
        /\ token = [t \in Requests |-> IF t \in Admins THEN t ELSE Null]
        /\ site = (Admins # {})
        /\ pc = [r \in Requests |-> IF r \in Admins THEN "done" ELSE "new"]
  BY ZenonT(60) DEF Init
<1>a. user \in [Requests -> {"enabled", "disabled", "absent"}] /\ site \in BOOLEAN
  BY <1>0
<1>b. email \in [Requests -> MaybeText] /\ role \in [Requests -> MaybeText]
  BY <1>0 DEF MaybeText, RoleNames
<1>c. links \subseteq Requests \X Requests /\ given \in [Requests -> SUBSET Requests]
  BY <1>0
<1>d. token \in [Requests -> MaybeRow] /\ pc \in [Requests -> Stages]
  BY <1>0 DEF MaybeRow, Stages, Ended
<1>e. Blank \in [kind : Kinds, token : MaybeRow, whom : MaybeRow, roles : SUBSET Requests,
                  text : MaybeText]
  BY DEF Blank, Plain, Kinds, MaybeRow, MaybeText
<1>f. form \in [Requests -> [kind : Kinds, token : MaybeRow, whom : MaybeRow,
                           roles : SUBSET Requests, text : MaybeText]]
  BY <1>e DEF Init
<1>g. actor \in [Requests -> MaybeRow] /\ faults \in 0..MaxFaults
  BY AccessAssumption DEF Init, MaybeRow
<1>h. muddled \subseteq MaybeRow /\ crossed \in BOOLEAN /\ twoSetups \in BOOLEAN
  BY DEF Init
<1>1. TypeOK
  BY <1>a, <1>b, <1>c, <1>d, <1>f, <1>g, <1>h DEF TypeOK
<1>2. \A r \in Requests : ~Strikes(r)
  BY DEF Init, Strikes
<1>3. SomeoneEnabled
  BY <1>0 DEF SomeoneEnabled, Populated, AfterUser, Users
<1>4. Safe
  BY <1>2, <1>3 DEF Safe, StrikersAreEnabled, StrikersAreOne
<1>5. form = [r \in Requests |-> Blank] /\ muddled = {}
  BY DEF Init
<1>6. KindInv
  BY <1>0, <1>5 DEF KindInv, KindFits, Blank, Plain
<1>7. RolesInv
  <2> SUFFICES ASSUME NEW v \in Requests
               PROVE  UserIsNew(v) /\ RoleIsNew(v) /\ GivesTo(v) /\ RolesFit(v)
    BY DEF RolesInv
  <2>1. \A q \in Requests : /\ form[q].kind = "none" /\ form[q].roles = {}
                           /\ pc[q] \in {"new", "done"} /\ (q \in Admins <=> pc[q] = "done")
    BY <1>0, <1>5 DEF Blank, Plain
  <2>2. Admins # {} => first \in Admins
    BY <1>0
  <2>3. UserIsNew(v)
    BY <1>0, <2>1 DEF UserIsNew, BeforeUser
  <2>4. RoleIsNew(v)
    BY <1>0, <2>1, <2>2 DEF RoleIsNew, BeforeRole, BeforeUser
  <2>5. GivesTo(v)
    BY <2>1 DEF GivesTo
  <2>6. \A q \in Requests : ~Changes(q, v)
    BY <2>1 DEF Changes
  <2>7. v \in Users => \A o \in Roles : <<v, o>> \in links <=> o \in given[v]
    BY <1>0, <2>1 DEF Users, Roles
  <2>. QED
    BY <2>3, <2>4, <2>5, <2>6, <2>7 DEF RolesFit
<1>8. SetupInv
  <2>1. \A r \in Requests : ~SettingUp(r)
    BY <1>5 DEF SettingUp, Blank, Plain
  <2>2. CASE Admins = {}
    <3>1. Users = {} /\ Roles = {} /\ ~site
      BY <1>0, <2>2 DEF Users, Roles
    <3>. QED
      BY <2>1, <3>1 DEF SetupInv
  <2>3. CASE Admins # {}
    <3>1. Users = Admins /\ site /\ first \in Admins
      BY <1>0, <2>3 DEF Users
    <3>2. role[first] = "admin" /\ first \in Roles
      BY <1>0, <3>1, AccessAssumption DEF Roles, RoleNames
    <3>3. \A u \in Users : Admin(u)
      BY <1>0, <3>1, <3>2 DEF Admin
    <3>4. \A u \in Users : form[u].kind # "setup"
      BY <1>5, <3>1 DEF Blank, Plain
    <3>. QED
      BY <2>1, <2>3, <3>1, <3>3, <3>4 DEF SetupInv
  <2>. QED
    BY <2>2, <2>3
<1>9. SetupsInv
  <2>1. \A r \in Requests : form[r].kind # "setup"
    BY <1>5 DEF Blank, Plain
  <2>2. CASE Admins = {}
    <3>1. Users = {} /\ Roles = {} /\ ~site
      BY <1>0, <2>2 DEF Users, Roles
    <3>. QED
      BY <2>1, <3>1 DEF SetupsInv, SomeoneBrings
  <2>3. CASE Admins # {}
    <3>1. Users = Admins /\ site /\ first \in Admins
      BY <1>0, <2>3 DEF Users
    <3>2. role[first] = "admin" /\ Roles = {first}
      BY <1>0, <3>1, AccessAssumption DEF Roles, RoleNames
    <3>3. Admin(first)
      BY <1>0, <3>1, <3>2 DEF Admin
    <3>. QED
      BY <2>1, <3>1, <3>2, <3>3 DEF SetupsInv, SomeoneBrings
  <2>. QED
    BY <2>2, <2>3
<1>. QED
  BY <1>1, <1>4, <1>6, <1>7, <1>8, <1>9 DEF IInv

THEOREM Inductive == Spec => []IInv
<1>1. IInv /\ [Next]_vars => IInv'
  BY TypeStep, SafeStep, KindStep, RolesStep, SetupStep, SetupsStep DEF IInv
<1>. QED
  BY InitIInv, <1>1, PTL DEF Spec

\* As long as somebody has an account somebody can log in, whatever the forms did
\* in any order, unless two users were about to disable or remove somebody at once.
THEOREM SomeoneCanLogIn == Spec => []SomeoneIsLeft
<1>1. IInv => SomeoneIsLeft
  BY DEF IInv, Safe, SomeoneEnabled, Populated, SomeoneIsLeft
<1>. QED
  BY <1>1, Inductive, PTL

\* While nobody has administered the controller and no setup is at work, whoever has
\* completed a setup is an administrator and has a site, whatever threw and however
\* many were at work; without a fault there is one as soon as there is a user; and
\* without two at once every user is one, at most one of them by a setup.
THEOREM SetupIsWhole == Spec => []SetupLeavesAnAdmin
<1>1. IInv => SetupLeavesAnAdmin
  <2> SUFFICES ASSUME IInv,
                      \A r \in Requests : \/ form[r].kind \in {"none", "login"}
                                          \/ form[r].kind = "setup" /\ ~AtWork(r)
               PROVE  /\ \A u \in Requests :
                           form[u].kind = "setup" /\ pc[u] = "done" => Admin(u) /\ site
                      /\ Users # {} /\ faults = 0 => site /\ \E u \in Users : Admin(u)
                      /\ faults = 0 /\ ~twoSetups
                           => /\ \A u \in Users : Admin(u)
                              /\ \A u, v \in Users : form[u].kind = "setup" => u = v
    BY DEF SetupLeavesAnAdmin
  <2>1. Unsent /\ \A r \in Requests : ~SettingUp(r)
    BY DEF Unsent, SettingUp
  <2>2. ASSUME NEW u \in Requests, form[u].kind = "setup", pc[u] = "done"
        PROVE  Admin(u) /\ site
    BY <2>1, <2>2 DEF IInv, SetupsInv, HasCome, AtSite
  <2>3. \A r \in Requests :
          pc[r] \notin {"findRole", "createRole", "assign", "findSite", "createSite"}
    BY DEF IInv, KindInv, KindFits, AtWork, Ended
  <2>4. ASSUME Users # {}, faults = 0 PROVE site /\ \E u \in Users : Admin(u)
    <3>1. SomeoneBrings
      BY <2>1, <2>4 DEF IInv, SetupsInv
    <3>2. \A o \in Roles : o \in Requests
      BY DEF Roles
    <3>3. Roles # {} /\ site /\ \A o \in Roles : Admin(o)
      BY <2>3, <2>4, <3>1, <3>2 DEF SomeoneBrings
    <3>. QED
      BY <3>2, <3>3 DEF Admin, Users
  <2>5. ASSUME faults = 0, ~twoSetups
        PROVE  /\ \A u \in Users : Admin(u)
               /\ \A u, v \in Users : form[u].kind = "setup" => u = v
    BY <2>1, <2>5 DEF IInv, SetupInv, Untouched, Unsent
  <2>. QED
    BY <2>2, <2>4, <2>5
<1>. QED
  BY <1>1, Inductive, PTL

\* A user has the roles given last, as far as they still exist, as long as its roles
\* were not changed by two requests at once or by one that got half-way.
THEOREM RolesAreAsGiven == Spec => []RolesAsGiven
<1>1. IInv => RolesAsGiven
  BY DEF IInv, RolesInv, RolesFit, RolesAsGiven, Users, Roles
<1>. QED
  BY <1>1, Inductive, PTL
=============================================================================
