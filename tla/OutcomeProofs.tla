---------------------------- MODULE OutcomeProofs ----------------------------
(***************************************************************************)
(* Theorems about what tells of a job: the attempt and the device that an  *)
(* adoption leaves, and the list of jobs in a browser.                     *)
(*                                                                         *)
(* Adoption, for any number of adoptions and removals of one router in any *)
(* interleaving, with any failing calls and statements, lost answers and   *)
(* crashes.                                                                *)
(* Past(j, i, n) says that a job has the n-th call of its i-th step behind *)
(* it and may still go on.  What the job that started last has made so far *)
(* is told call by call with it (MadeSoFar); this holds while no two jobs  *)
(* have overlapped, so that nobody else can have taken it away.  What the  *)
(* attempt of a job says depends on its own calls alone (AttemptFits).     *)
(*                                                                         *)
(* JobFeed, for any number of jobs, readers and pages.  What was read of a *)
(* job stays true of it (Behind), since no status goes back, no row is     *)
(* undone and a finished job rests; with the rows, read later, it hangs    *)
(* together (Coherent).  Who has read a job stands behind those that have  *)
(* read it before (StandsBehind), and that makes the list a View.          *)
(***************************************************************************)
EXTENDS Adoption, JobFeed, SchedulerProofs

-----------------------------------------------------------------------------
(* The jobs are the scheduler's *)

\* A call that is answered is no step of the scheduler, or the end of a step.
LEMMA CallIsStep ==
  ASSUME NEW j \in Jobs, AdoptionStep(j)
  PROVE  pc[j] = "exec" /\ (UNCHANGED vars \/ ExecuteOk(j) \/ ExecuteFails(j))
BY DEF AdoptionStep, Due, CreateAttempt, MarkSyncing, UpsertDevice, Promote, FinishAttempt, Pass,
       SetPassword, RemoveKeys, ImportKey, Deactivate, Insert, FindDevice, FindTrust, ResetRouter,
       DeleteDevice, CallFails, StepThrows, Answered, AnswerLost

\* The scheduler's own step of a job that lives on, and the death of the process.
OwnStep(j) ==
  /\ Schedule(j) \/ StatementFails(j) \/ (pc[j] # "exec" /\ Advance(j))
  /\ refers' \in {refers, refers \cup {j}}
  /\ UNCHANGED <<at, failing, attempt, device, active, resets, routerVars, unrecorded>>

Death ==
  /\ Die
  /\ faults' = 0 => faults = 0
  /\ UNCHANGED <<task, persisted, cur, at, failing, rowVars, routerVars, unrecorded>>

LEMMA StepSplits ==
  ASSUME TypeOK, AdoptionNext
  PROVE  /\ Death \/ \E j \in Jobs : AdoptionStep(j) \/ OwnStep(j)
         /\ Record /\ UNCHANGED kind
         /\ [Next]_vars
<1>1. ASSUME NEW j \in Jobs, Request(j) PROVE OwnStep(j) /\ [Next]_vars
  BY <1>1 DEF Request, OwnStep, Next
<1>2. ASSUME NEW j \in Jobs, SchedulerStep(j) PROVE (OwnStep(j) \/ Death) /\ [Next]_vars
  <2>1. CatchFails(j) => faults' # 0
    BY ConstantsAssumption DEF TypeOK, CatchFails
  <2> QED BY <1>2, <2>1 DEF SchedulerStep, OwnStep, Death, CatchFails, Next, rowVars
<1>3. ASSUME NEW j \in Jobs, AdoptionStep(j) PROVE [Next]_vars
  BY <1>3, CallIsStep DEF Next, Advance
<1>4. ASSUME Crash, UNCHANGED <<at, failing, rowVars, routerVars, unrecorded>>
      PROVE  Death /\ [Next]_vars
  BY <1>4 DEF Crash, Death, Next
<1> QED BY <1>1, <1>2, <1>3, <1>4 DEF AdoptionNext

\* Adoptions and removals run as jobs of the scheduler.
THEOREM AdoptionRunsOnScheduler == AdoptionSpec => Spec
<1>1. AdoptionInit => Init /\ IInv
  BY InitIInv DEF AdoptionInit
<1>2. IInv /\ [AdoptionNext]_adoptionVars => IInv' /\ [Next]_vars
  <2>1. UNCHANGED adoptionVars => UNCHANGED vars
    BY DEF adoptionVars
  <2> QED BY <2>1, StepSplits, NextIInv DEF IInv
<1> QED BY <1>1, <1>2, PTL DEF AdoptionSpec, Spec

-----------------------------------------------------------------------------
(* The calls *)

\* Each step's calls, in a form the provers can use.
LEMMA CallsAre ==
  /\ CallsOf("managed", 1) = <<"create">>
  /\ CallsOf("managed", 2) = <<"inventory", "syncing", "upsert", "relate">>
  /\ CallsOf("managed", 3) = <<"password", "remove_keys", "import_key", "settle">>
  /\ CallsOf("managed", 4) =
       <<"drop_read_only", "add_password", "drop_write", "add_key", "promote", "settle">>
  /\ CallsOf("managed", 5) = <<"finish", "relate">>
  /\ CallsOf("read_only", 1) = <<"create">>
  /\ CallsOf("read_only", 2) = <<"inventory">>
  /\ CallsOf("read_only", 3) = <<"syncing", "upsert", "relate">>
  /\ CallsOf("read_only", 4) = <<"drop_all", "add_login">>
  /\ CallsOf("read_only", 5) = <<"finish", "relate">>
  /\ CallsOf("removal", 1) = <<"find", "credentials">>
  /\ CallsOf("removal", 2) = <<"reset">>
  /\ CallsOf("removal", 3) = <<"relate", "delete">>
<1> DEFINE managed == << <<"create">>,
          <<"inventory", "syncing", "upsert", "relate">>,
          <<"password", "remove_keys", "import_key", "settle">>,
          <<"drop_read_only", "add_password", "drop_write", "add_key", "promote", "settle">>,
          <<"finish", "relate">> >>
<1> DEFINE readOnly == << <<"create">>,
          <<"inventory">>,
          <<"syncing", "upsert", "relate">>,
          <<"drop_all", "add_login">>,
          <<"finish", "relate">> >>
<1> DEFINE removal == << <<"find", "credentials">>, <<"reset">>, <<"relate", "delete">> >>
<1>1. /\ CallsOf("managed", 1) = managed[1] /\ CallsOf("managed", 2) = managed[2]
      /\ CallsOf("managed", 3) = managed[3] /\ CallsOf("managed", 4) = managed[4]
      /\ CallsOf("managed", 5) = managed[5]
  BY Zenon DEF CallsOf
<1>2. /\ CallsOf("read_only", 1) = readOnly[1] /\ CallsOf("read_only", 2) = readOnly[2]
      /\ CallsOf("read_only", 3) = readOnly[3] /\ CallsOf("read_only", 4) = readOnly[4]
      /\ CallsOf("read_only", 5) = readOnly[5]
  BY Zenon DEF CallsOf
<1>3. /\ CallsOf("removal", 1) = removal[1] /\ CallsOf("removal", 2) = removal[2]
      /\ CallsOf("removal", 3) = removal[3]
  BY Zenon DEF CallsOf
<1> QED BY <1>1, <1>2, <1>3

\* A job has its task, begins each step at its first call and awaits one of the
\* step's calls, unless it is about to throw.
JobFits(j) ==
  /\ task[j] = TaskOf(kind[j])
  /\ pc[j] \notin {"exec", "lost"} => at[j] = 1 /\ ~failing[j]
  /\ pc[j] = "exec" /\ ~failing[j] => at[j] \in 1..Len(Calls(j))

StateFits ==
  /\ kind \in [Jobs -> Kinds]
  /\ at \in [Jobs -> Nat]
  /\ failing \in [Jobs -> BOOLEAN]
  /\ attempt \in [Jobs -> {"none", "validating_credentials", "syncing_inventory", "succeeded",
                           "failed"}]
  /\ active \subseteq Credentials
  /\ refers \subseteq Jobs
  /\ resets \in [Jobs -> BOOLEAN]
  /\ managedKey \in BOOLEAN
  /\ unrecorded \subseteq Jobs

CallInv == StateFits /\ \A j \in Jobs : JobFits(j)

\* The job has the n-th call of its i-th step behind it, and no step has failed.
Past(j, i, n) ==
  \/ pc[j] \in {"open", "exec"} /\ i < cur[j]
  \/ pc[j] = "exec" /\ i = cur[j] /\ n < at[j]
  \/ pc[j] \in {"record_ok", "progress"} /\ i <= cur[j]
  \/ pc[j] = "finish" \/ status[j] = "succeeded"

-----------------------------------------------------------------------------
(* The attempt *)

\* The attempt is created by the first step and closed in the last; every step
\* between them that fails closes it, unless that fails as well.
AttemptFits(j) ==
  LET told == faults = 0 /\ j \notin unrecorded
  IN  /\ pc[j] \in {"new", "rows", "start"} \/ (pc[j] \in {"open", "exec"} /\ cur[j] <= 1) =>
           attempt[j] = "none"
      /\ Past(j, 5, 1) => attempt[j] = "succeeded"
      /\ pc[j] \notin {"finish_failed", "catch", "lost", "done"} => rows[j][1] # "failed"
      /\ pc[j] = "record_failed" /\ told =>
           attempt[j] = IF cur[j] = 1 THEN "none" ELSE "failed"
      /\ (pc[j] = "finish_failed" \/ status[j] = "failed") /\ told =>
           attempt[j] = IF rows[j][1] = "failed" THEN "none" ELSE "failed"

AttemptInv == \A j \in Jobs : kind[j] # "removal" => AttemptFits(j)

-----------------------------------------------------------------------------
(* The device *)

\* What the calls of an adoption have made of the device, of the store and of the
\* router, while the job has had them for itself.
ManagedSoFar(j) ==
  /\ Past(j, 2, 3) =>
       j \in refers /\ device = IF Past(j, 4, 5) THEN "fully_managed" ELSE "inventoried"
  /\ Past(j, 3, 1) => restPassword = j
  /\ Past(j, 3, 3) => managedKey
  /\ Past(j, 4, 1) /\ ~Past(j, 4, 2) => \A c \in active : c[1] # "read_only"
  /\ Past(j, 4, 2) /\ ~Past(j, 4, 3) =>
       /\ <<"read_only", j>> \in active
       /\ \A c \in active : c[1] = "read_only" => c = <<"read_only", j>>
  /\ Past(j, 4, 3) /\ ~Past(j, 4, 4) => active = {<<"read_only", j>>}
  /\ Past(j, 4, 4) => active = {<<"read_only", j>>, <<"write", "ssh_key">>}

ReadOnlySoFar(j) ==
  /\ Past(j, 3, 2) => j \in refers /\ device = "inventoried"
  /\ Past(j, 4, 1) /\ ~Past(j, 4, 2) => active = {}
  /\ Past(j, 4, 2) => active = {<<"read_only", "login">>}

RemovalSoFar(j) ==
  /\ Past(j, 3, 1) /\ ~Past(j, 3, 2) => j \in refers
  /\ Past(j, 3, 2) => device = "absent" /\ active = {}

MadeSoFar(j) ==
  /\ kind[j] = "managed" => ManagedSoFar(j)
  /\ kind[j] = "read_only" => ReadOnlySoFar(j)
  /\ kind[j] = "removal" => RemovalSoFar(j)

\* A removal that is to reset the router and has come as far.
MayHaveReset(j) ==
  resets[j] /\ pc[j] \notin {"new", "rows", "start"} /\ (pc[j] \in {"open", "exec"} => cur[j] > 1)

Reachable ==
  device = "fully_managed" =>
    \/ active = {<<"read_only", restPassword>>, <<"write", "ssh_key">>} /\ managedKey
    \/ Blank /\ \E j \in Jobs : MayHaveReset(j)

\* While no two jobs have overlapped.
AloneInv ==
  /\ \A j, k \in Jobs : Working(j) /\ Working(k) => j = k
  /\ \A j \in Jobs : Working(j) => latest = j
  /\ \A j \in Jobs : latest = j => MadeSoFar(j)
  /\ Reachable

AdoptionInv ==
  /\ CallInv
  /\ AttemptInv
  /\ ~overlapped => AloneInv

-----------------------------------------------------------------------------
(* Where a call is made *)

LEMMA WhichStep ==
  ASSUME IInv, CallInv, NEW j \in Jobs
  PROVE  /\ kind[j] \in {"managed", "read_only", "removal"}
         /\ task[j].policy = "stop"
         /\ task[j].size = IF kind[j] = "removal" THEN 3 ELSE 5
         /\ pc[j] \in Forward =>
              /\ cur[j] \in {1, 2, 3, 4, 5} /\ cur[j] \in Steps
              /\ kind[j] = "removal" => cur[j] \in {1, 2, 3}
<1>1. task[j] = TaskOf(kind[j]) /\ kind[j] \in {"managed", "read_only", "removal"}
  BY DEF CallInv, StateFits, JobFits, Kinds
<1>2. task[j].policy = "stop" /\ task[j].size = IF kind[j] = "removal" THEN 3 ELSE 5
  BY <1>1 DEF TaskOf
<1>3. pc[j] \in Forward => cur[j] \in 1..task[j].size /\ cur[j] \in Steps
  BY AtWork DEF StepsOf
<1> QED BY <1>1, <1>2, <1>3

\* The call of this sort is the n-th of the l calls of the i-th step.
Place(j, i, n, l) == cur[j] = i /\ at[j] = n /\ Len(Calls(j)) = l

LEMMA DueAt ==
  ASSUME IInv, CallInv, NEW j \in Jobs, NEW call, Due(j, call)
  PROVE  /\ pc[j] = "exec" /\ ~failing[j] /\ at[j] \in 1..Len(Calls(j))
         /\ call = "create" => kind[j] # "removal" /\ Place(j, 1, 1, 1)
         /\ call = "syncing" => \/ kind[j] = "managed" /\ Place(j, 2, 2, 4)
                                \/ kind[j] = "read_only" /\ Place(j, 3, 1, 3)
         /\ call = "upsert" => \/ kind[j] = "managed" /\ Place(j, 2, 3, 4)
                               \/ kind[j] = "read_only" /\ Place(j, 3, 2, 3)
         /\ call = "promote" => kind[j] = "managed" /\ Place(j, 4, 5, 6)
         /\ call = "finish" => kind[j] # "removal" /\ Place(j, 5, 1, 2)
         /\ call = "inventory" => \/ kind[j] = "managed" /\ Place(j, 2, 1, 4)
                                  \/ kind[j] = "read_only" /\ Place(j, 2, 1, 1)
         /\ call = "settle" => \/ kind[j] = "managed" /\ Place(j, 3, 4, 4)
                               \/ kind[j] = "managed" /\ Place(j, 4, 6, 6)
         /\ call = "relate" => \/ kind[j] = "managed" /\ Place(j, 2, 4, 4)
                               \/ kind[j] = "read_only" /\ Place(j, 3, 3, 3)
                               \/ kind[j] # "removal" /\ Place(j, 5, 2, 2)
                               \/ kind[j] = "removal" /\ Place(j, 3, 1, 2)
         /\ call = "password" => kind[j] = "managed" /\ Place(j, 3, 1, 4)
         /\ call = "remove_keys" => kind[j] = "managed" /\ Place(j, 3, 2, 4)
         /\ call = "import_key" => kind[j] = "managed" /\ Place(j, 3, 3, 4)
         /\ call = "drop_read_only" => kind[j] = "managed" /\ Place(j, 4, 1, 6)
         /\ call = "add_password" => kind[j] = "managed" /\ Place(j, 4, 2, 6)
         /\ call = "drop_write" => kind[j] = "managed" /\ Place(j, 4, 3, 6)
         /\ call = "add_key" => kind[j] = "managed" /\ Place(j, 4, 4, 6)
         /\ call = "drop_all" => kind[j] = "read_only" /\ Place(j, 4, 1, 2)
         /\ call = "add_login" => kind[j] = "read_only" /\ Place(j, 4, 2, 2)
         /\ call = "find" => kind[j] = "removal" /\ Place(j, 1, 1, 2)
         /\ call = "credentials" => kind[j] = "removal" /\ Place(j, 1, 2, 2)
         /\ call = "reset" => kind[j] = "removal" /\ Place(j, 2, 1, 1)
         /\ call = "delete" => kind[j] = "removal" /\ Place(j, 3, 2, 2)
<1> DEFINE k == kind[j]
           i == cur[j]
           n == at[j]
<1>1. /\ pc[j] = "exec" /\ ~failing[j] /\ n \in 1..Len(CallsOf(k, i))
      /\ CallsOf(k, i)[n] = call /\ Calls(j) = CallsOf(k, i)
  BY DEF Due, Calls, CallInv, JobFits
<1>2. /\ k \in {"managed", "read_only", "removal"} /\ i \in {1, 2, 3, 4, 5}
      /\ k = "removal" => i \in {1, 2, 3}
  BY <1>1, WhichStep DEF Forward
<1>3. CASE k = "managed" /\ i = 1
  BY <1>1, <1>3, CallsAre DEF Place
<1>4. CASE k = "managed" /\ i = 2
  <2>1. /\ Len(CallsOf(k, i)) = 4
        /\ CallsOf(k, i)[1] = "inventory"
        /\ CallsOf(k, i)[2] = "syncing"
        /\ CallsOf(k, i)[3] = "upsert"
        /\ CallsOf(k, i)[4] = "relate"
    BY <1>4, CallsAre
  <2> QED BY <1>1, <1>4, <2>1 DEF Place
<1>5. CASE k = "managed" /\ i = 3
  <2>1. /\ Len(CallsOf(k, i)) = 4
        /\ CallsOf(k, i)[1] = "password"
        /\ CallsOf(k, i)[2] = "remove_keys"
        /\ CallsOf(k, i)[3] = "import_key"
        /\ CallsOf(k, i)[4] = "settle"
    BY <1>5, CallsAre
  <2> QED BY <1>1, <1>5, <2>1 DEF Place
<1>6. CASE k = "managed" /\ i = 4
  <2>1. /\ Len(CallsOf(k, i)) = 6
        /\ CallsOf(k, i)[1] = "drop_read_only"
        /\ CallsOf(k, i)[2] = "add_password"
        /\ CallsOf(k, i)[3] = "drop_write"
        /\ CallsOf(k, i)[4] = "add_key"
        /\ CallsOf(k, i)[5] = "promote"
        /\ CallsOf(k, i)[6] = "settle"
    BY <1>6, CallsAre
  <2> QED BY <1>1, <1>6, <2>1 DEF Place
<1>7. CASE k = "managed" /\ i = 5
  BY <1>1, <1>7, CallsAre DEF Place
<1>8. CASE k = "read_only" /\ i = 1
  BY <1>1, <1>8, CallsAre DEF Place
<1>9. CASE k = "read_only" /\ i = 2
  BY <1>1, <1>9, CallsAre DEF Place
<1>10. CASE k = "read_only" /\ i = 3
  <2>1. /\ Len(CallsOf(k, i)) = 3
        /\ CallsOf(k, i)[1] = "syncing"
        /\ CallsOf(k, i)[2] = "upsert"
        /\ CallsOf(k, i)[3] = "relate"
    BY <1>10, CallsAre
  <2> QED BY <1>1, <1>10, <2>1 DEF Place
<1>11. CASE k = "read_only" /\ i = 4
  BY <1>1, <1>11, CallsAre DEF Place
<1>12. CASE k = "read_only" /\ i = 5
  BY <1>1, <1>12, CallsAre DEF Place
<1>13. CASE k = "removal" /\ i = 1
  BY <1>1, <1>13, CallsAre DEF Place
<1>14. CASE k = "removal" /\ i = 2
  BY <1>1, <1>14, CallsAre DEF Place
<1>15. CASE k = "removal" /\ i = 3
  BY <1>1, <1>15, CallsAre DEF Place
<1> QED BY <1>2, <1>3, <1>4, <1>5, <1>6, <1>7, <1>8, <1>9, <1>10, <1>11, <1>12, <1>13, <1>14, <1>15

\* There is a call to begin a step with.
LEMMA SomeCall ==
  ASSUME IInv, CallInv, NEW j \in Jobs, pc[j] \in Forward
  PROVE  1 \in 1..Len(Calls(j))
<1> DEFINE k == kind[j]
           i == cur[j]
<1>1. /\ k \in {"managed", "read_only", "removal"} /\ i \in {1, 2, 3, 4, 5}
      /\ k = "removal" => i \in {1, 2, 3}
  BY WhichStep
<1>2. CASE k = "managed"
  BY <1>1, <1>2, CallsAre DEF Calls
<1>3. CASE k = "read_only"
  BY <1>1, <1>3, CallsAre DEF Calls
<1>4. CASE k = "removal"
  BY <1>1, <1>4, CallsAre DEF Calls
<1> QED BY <1>1, <1>2, <1>3, <1>4

-----------------------------------------------------------------------------
(* Where a step leads *)

\* A call that is answered leads to the next one or ends the step, ...
LEMMA CallLeads ==
  ASSUME IInv, CallInv, NEW j \in Jobs, AdoptionStep(j)
  PROVE  /\ pc[j] = "exec" /\ status[j] = "running"
         /\ UNCHANGED <<task, status, rows, cur, faults>>
         /\ at' \in [Jobs -> Nat] /\ failing' \in [Jobs -> BOOLEAN]
         /\ \A k \in Jobs \ {j} :
              /\ pc'[k] = pc[k] /\ at'[k] = at[k] /\ failing'[k] = failing[k]
              /\ attempt'[k] = attempt[k] /\ resets'[k] = resets[k]
         /\ \/ pc'[j] = "exec" /\ (failing'[j] \/ at'[j] \in 1..Len(Calls(j)))
            \/ pc'[j] \in {"record_ok", "record_failed"} /\ at'[j] = 1 /\ ~failing'[j]
<1>1. /\ TypeOK /\ StateFits /\ JobFits(j) /\ pc[j] = "exec" /\ status[j] = "running"
  BY CallIsStep DEF IInv, CallInv, JobInv, StatusFits, Forward
<1> USE <1>1 DEF TypeOK, StateFits, persisted, bounds, Goto
<1>2. CASE StepThrows(j)
  BY <1>2 DEF StepThrows, ExecuteFails, SetAttempt
<1>3. CASE CallFails(j)
  BY <1>3 DEF CallFails, vars, memory, rowVars
<1>4. ASSUME Answered(j) \/ AnswerLost(j), ~failing[j]
      PROVE  /\ UNCHANGED <<task, status, rows, cur, faults>>
             /\ at' \in [Jobs -> Nat] /\ failing' \in [Jobs -> BOOLEAN]
             /\ \A k \in Jobs \ {j} :
                  pc'[k] = pc[k] /\ at'[k] = at[k] /\ failing'[k] = failing[k]
             /\ \/ pc'[j] = "exec" /\ (failing'[j] \/ at'[j] \in 1..Len(Calls(j)))
                \/ pc'[j] = "record_ok" /\ at'[j] = 1 /\ ~failing'[j]
  <2>1. CASE AnswerLost(j)
    BY <2>1 DEF AnswerLost, vars, memory
  <2>2. CASE Answered(j)
    BY <1>4, <2>2 DEF Answered, ExecuteOk, vars, memory, JobFits
  <2> QED BY <1>4, <2>1, <2>2
<1>5. CASE ~StepThrows(j) /\ ~CallFails(j)
  <2>1. (Answered(j) \/ AnswerLost(j)) /\ ~failing[j]
    BY <1>5 DEF AdoptionStep, Due, CreateAttempt, MarkSyncing, UpsertDevice, Promote,
       FinishAttempt, Pass, SetPassword, RemoveKeys, ImportKey, Deactivate, Insert, FindDevice,
       FindTrust, ResetRouter, DeleteDevice
  <2>2. \A k \in Jobs \ {j} : attempt'[k] = attempt[k] /\ resets'[k] = resets[k]
    BY <1>5 DEF AdoptionStep, CreateAttempt, MarkSyncing, UpsertDevice, Promote,
       FinishAttempt, Pass, SetPassword, RemoveKeys, ImportKey, Deactivate, Insert, FindDevice,
       FindTrust, ResetRouter, DeleteDevice, SetAttempt, rowVars
  <2> QED BY <1>4, <2>1, <2>2
<1> QED BY <1>2, <1>3, <1>5

\* ... and a step of the scheduler's own changes nothing of what a job has behind it,
\* unless the job is on its way to its end.
LEMMA OwnLeads ==
  ASSUME IInv, CallInv, NEW j \in Jobs, OwnStep(j)
  PROVE  /\ task' = task
         /\ \A k \in Jobs \ {j} :
              pc'[k] = pc[k] /\ cur'[k] = cur[k] /\ status'[k] = status[k] /\ rows'[k] = rows[k]
         /\ pc[j] \notin {"exec", "lost"} /\ pc'[j] # "lost"
         /\ pc'[j] = "exec" => pc[j] = "open" /\ cur'[j] = cur[j]
         /\ \/ \A i \in 1..task[j].size, n \in Nat \ {0} : ~Past(j, i, n)'
            \/ \A i \in 1..task[j].size, n \in Nat \ {0} : Past(j, i, n)' <=> Past(j, i, n)
<1>0. TypeOK /\ JobInv(j) /\ JobFits(j)
  BY DEF IInv, CallInv
<1>1. /\ task[j].policy = "stop" /\ task[j].size \in Nat \ {0}
      /\ pc[j] \in Forward => cur[j] \in 1..task[j].size
      /\ pc[j] # "empty"
      /\ status[j] = "succeeded" => pc[j] = "done"
      /\ at'[j] = at[j] /\ (pc[j] \notin {"exec", "lost"} => at[j] = 1)
      /\ Schedule(j) \/ StatementFails(j) \/ (pc[j] # "exec" /\ Advance(j))
  BY <1>0, WhichStep, FinishedRests DEF OwnStep, JobFits, JobInv, StepFits, StepsOf, Terminal
<1>2. ASSUME NEW k \in Jobs \ {j}
      PROVE  /\ task' = task
             /\ pc'[k] = pc[k] /\ cur'[k] = cur[k] /\ status'[k] = status[k] /\ rows'[k] = rows[k]
  BY <1>0, <1>1, Frame
<1>3. /\ task' = task
      /\ pc[j] \notin {"exec", "lost"} /\ pc'[j] # "lost"
      /\ pc'[j] = "exec" => pc[j] = "open" /\ cur'[j] = cur[j]
  BY <1>0, <1>1 DEF TypeOK, Goto, NextStep, NextRevert, Schedule, StatementFails, UncaughtPoints,
     StepTryPoints, RevertTryPoints, Advance, PersistSteps, StartJob, FinishEmpty, OpenStep,
     ExecuteOk, ExecuteFails, RecordSuccess, RecordProgress, RecordFailure, FinishFailed,
     FinishSucceeded, BeginRollback, SkipRevert, OpenRevert, RevertOk, RevertFails,
     RecordReverted, RecordRevertFailed, FinishRollback, CatchJob
<1> DEFINE Barren == \A i \in 1..task[j].size, n \in Nat \ {0} : ~Past(j, i, n)'
           Same   == \A i \in 1..task[j].size, n \in Nat \ {0} : Past(j, i, n)' <=> Past(j, i, n)
<1> SUFFICES Barren \/ Same
  BY <1>2, <1>3
<1> USE <1>0, <1>1 DEF TypeOK, Goto, SetStatus, persisted, Past
<1>4. CASE Schedule(j)
  BY <1>4 DEF Schedule
<1>5. CASE StatementFails(j)
  BY <1>5 DEF StatementFails, UncaughtPoints, StepTryPoints, RevertTryPoints, JobInv, StatusFits
<1>6. CASE PersistSteps(j) \/ StartJob(j)
  BY <1>6 DEF PersistSteps, StartJob
<1>7. CASE OpenStep(j)
  BY <1>7 DEF OpenStep
<1>8. CASE RecordSuccess(j)
  BY <1>8 DEF RecordSuccess
<1>9. CASE RecordProgress(j)
  BY <1>9 DEF RecordProgress, NextStep, Forward
<1>10. CASE RecordFailure(j)
  BY <1>10 DEF RecordFailure, NextStep
<1>11. CASE FinishFailed(j) \/ CatchJob(j)
  BY <1>11 DEF FinishFailed, CatchJob
<1>12. CASE FinishSucceeded(j)
  BY <1>12 DEF FinishSucceeded
<1>13. CASE pc[j] \in Rolling \cup {"begin_rollback"}
  BY <1>13 DEF JobInv, RollbackFits
<1> QED
  BY <1>4, <1>5, <1>6, <1>7, <1>8, <1>9, <1>10, <1>11, <1>12, <1>13
     DEF Advance, FinishEmpty, ExecuteOk, ExecuteFails, BeginRollback, SkipRevert, OpenRevert,
         RevertOk, RevertFails, RecordReverted, RecordRevertFailed, FinishRollback, Rolling,
         Reverting

LEMMA CallInvStep ==
  ASSUME IInv, CallInv, AdoptionNext
  PROVE  CallInv'
<1>1. ASSUME NEW j \in Jobs, AdoptionStep(j) PROVE CallInv'
  <2>1. StateFits'
    <3>1. /\ at' \in [Jobs -> Nat] /\ failing' \in [Jobs -> BOOLEAN] /\ kind' \in [Jobs -> Kinds]
      BY <1>1, CallLeads DEF CallInv, StateFits, AdoptionNext
    <3>2. /\ attempt' \in [Jobs -> {"none", "validating_credentials", "syncing_inventory",
                                    "succeeded", "failed"}]
          /\ active' \subseteq Credentials /\ refers' \subseteq Jobs
          /\ resets' \in [Jobs -> BOOLEAN] /\ managedKey' \in BOOLEAN /\ unrecorded' \subseteq Jobs
      <4> USE DEF CallInv, StateFits
      <4>1. CASE CreateAttempt(j) \/ MarkSyncing(j) \/ UpsertDevice(j) \/ Promote(j)
              \/ FinishAttempt(j) \/ Pass(j) \/ SetPassword(j) \/ RemoveKeys(j) \/ ImportKey(j)
        BY <4>1 DEF CreateAttempt, MarkSyncing, UpsertDevice, Promote, FinishAttempt, Pass,
           SetPassword, RemoveKeys, ImportKey, SetAttempt, Answered, AnswerLost, rowVars,
           routerVars
      <4>2. CASE Deactivate(j) \/ Insert(j) \/ DeleteDevice(j)
        BY <4>2 DEF Deactivate, Insert, DeleteDevice, Answered, routerVars, Credentials, Purposes
      <4>3. CASE FindDevice(j) \/ FindTrust(j) \/ ResetRouter(j)
        BY <4>3 DEF FindDevice, FindTrust, ResetRouter, Answered, AnswerLost, rowVars, routerVars
      <4>4. CASE CallFails(j) \/ StepThrows(j)
        BY <4>4 DEF CallFails, StepThrows, SetAttempt, rowVars, routerVars
      <4> QED BY <1>1, <4>1, <4>2, <4>3, <4>4 DEF AdoptionStep
    <3> QED BY <3>1, <3>2 DEF StateFits
  <2>2. ASSUME NEW k \in Jobs PROVE JobFits(k)'
    <3>1. kind' = kind
      BY DEF AdoptionNext
    <3>2. CASE k # j
      BY <1>1, <3>1, <3>2, CallLeads DEF CallInv, JobFits, Calls
    <3>3. CASE k = j
      BY <1>1, <3>1, <3>3, CallLeads DEF CallInv, JobFits, Calls
    <3> QED BY <3>2, <3>3
  <2> QED BY <2>1, <2>2 DEF CallInv
<1>2. ASSUME NEW j \in Jobs, OwnStep(j) PROVE CallInv'
  <2>1. StateFits'
    BY <1>2 DEF OwnStep, CallInv, StateFits, routerVars, AdoptionNext
  <2>2. ASSUME NEW k \in Jobs PROVE JobFits(k)'
    <3>1. kind' = kind /\ at' = at /\ failing' = failing
      BY <1>2 DEF OwnStep, AdoptionNext
    <3>2. CASE k # j
      BY <1>2, <3>1, <3>2, OwnLeads DEF CallInv, JobFits, Calls
    <3>3. CASE k = j
      <4>1. pc'[j] = "exec" => 1 \in 1..Len(Calls(j)) /\ Calls(j)' = Calls(j)
        BY <1>2, <3>1, OwnLeads, SomeCall DEF Forward, Calls
      <4> QED BY <1>2, <3>1, <3>3, <4>1, OwnLeads DEF CallInv, JobFits
    <3> QED BY <3>2, <3>3
  <2> QED BY <2>1, <2>2 DEF CallInv
<1>3. CASE Death
  <2>1. StateFits'
    BY <1>3 DEF Death, CallInv, StateFits, rowVars, routerVars, AdoptionNext
  <2>2. ASSUME NEW k \in Jobs PROVE JobFits(k)'
    BY <1>3 DEF Death, Die, Stopped, IInv, TypeOK, CallInv, JobFits, Calls, AdoptionNext
  <2> QED BY <2>1, <2>2 DEF CallInv
<1> QED BY <1>1, <1>2, <1>3, StepSplits DEF IInv

-----------------------------------------------------------------------------
(* The attempt tells how its job ends *)

LEMMA AttemptOfCall ==
  ASSUME IInv, CallInv, NEW j \in Jobs, kind[j] # "removal", AttemptFits(j), AdoptionStep(j)
  PROVE  AttemptFits(j)'
<1>0. /\ TypeOK /\ StateFits
      /\ pc[j] = "exec" /\ status[j] = "running" /\ cur[j] \in {1, 2, 3, 4, 5}
      /\ UNCHANGED <<task, status, rows, cur, faults>>
  BY CallLeads, WhichStep DEF IInv, CallInv, Forward
<1>1. CASE StepThrows(j)
  BY <1>0, <1>1 DEF StepThrows, ExecuteFails, Goto, SetAttempt, TypeOK, StateFits, AttemptFits, Past
<1>2. CASE ~StepThrows(j)
  <2>1. /\ pc'[j] \in {"exec", "record_ok"} /\ unrecorded' = unrecorded
        /\ pc'[j] = "exec" => at'[j] \in {at[j], at[j] + 1}
    BY <1>0, <1>2 DEF AdoptionStep, CreateAttempt, MarkSyncing, UpsertDevice, Promote,
       FinishAttempt, Pass, SetPassword, RemoveKeys, ImportKey, Deactivate, Insert, FindDevice,
       FindTrust, ResetRouter, DeleteDevice, CallFails, Answered, AnswerLost, ExecuteOk, vars,
       memory, Goto, TypeOK, StateFits
  <2>2. CASE FinishAttempt(j)
    <3>1. cur[j] = 5 /\ attempt'[j] = "succeeded"
      BY <1>0, <2>2, DueAt DEF FinishAttempt, SetAttempt, StateFits, Place
    <3> QED BY <1>0, <2>1, <3>1 DEF AttemptFits, Past
  <2>3. CASE CreateAttempt(j)
    <3>1. cur[j] = 1 /\ at[j] = 1 /\ Len(Calls(j)) = 1
      BY <2>3, DueAt DEF CreateAttempt, Place
    <3>2. pc'[j] = "record_ok"
      BY <1>0, <2>3, <3>1 DEF CreateAttempt, Answered, ExecuteOk, Goto, TypeOK
    <3> QED BY <1>0, <2>1, <3>1, <3>2 DEF AttemptFits, Past
  <2>4. CASE MarkSyncing(j)
    <3>1. cur[j] \in {2, 3}
      BY <2>4, DueAt DEF MarkSyncing, Place
    <3> QED BY <1>0, <2>1, <3>1 DEF AttemptFits, Past
  <2>5. CASE ~FinishAttempt(j) /\ ~CreateAttempt(j) /\ ~MarkSyncing(j)
    <3>1. attempt' = attempt
      BY <1>2, <2>5 DEF AdoptionStep, UpsertDevice, Promote, Pass, SetPassword, RemoveKeys,
         ImportKey, Deactivate, Insert, FindDevice, FindTrust, ResetRouter, DeleteDevice,
         CallFails, rowVars
    <3>2. CASE CallFails(j)
      BY <1>0, <3>1, <3>2 DEF CallFails, vars, memory, AttemptFits, Past
    <3>3. CASE ~CallFails(j)
      <4>1. PICK call \in {"upsert", "promote", "inventory", "settle", "relate", "password",
                          "remove_keys", "import_key", "drop_read_only", "add_password",
                          "drop_write", "add_key", "drop_all", "add_login", "find",
                          "credentials", "reset", "delete"} : Due(j, call)
        BY <1>2, <2>5, <3>3 DEF AdoptionStep, UpsertDevice, Promote, Pass, SetPassword,
           RemoveKeys, ImportKey, Deactivate, Insert, FindDevice, FindTrust, ResetRouter,
           DeleteDevice
      <4>2. at[j] \in Nat \ {0} /\ cur[j] # 1 /\ (cur[j] = 5 => at[j] = 2)
        BY <4>1, DueAt DEF Place
      <4> QED BY <1>0, <2>1, <3>1, <4>2 DEF AttemptFits, Past
    <3> QED BY <3>2, <3>3
  <2> QED BY <2>2, <2>3, <2>4, <2>5
<1> QED BY <1>1, <1>2

LEMMA AttemptOfOwn ==
  ASSUME IInv, OInv, CallInv, NEW j \in Jobs, kind[j] # "removal", AttemptFits(j), OwnStep(j)
  PROVE  AttemptFits(j)'
<1>0. /\ TypeOK /\ JobInv(j) /\ 1 \in Steps /\ MaxSteps \in Nat
      /\ task[j].policy = "stop" /\ task[j].size = 5
      /\ pc[j] \in Forward => cur[j] \in {1, 2, 3, 4, 5}
      /\ pc[j] = "catch" => faults # 0
      /\ status[j] \in Terminal => pc[j] = "done"
  BY WhichStep, FinishedRests, AdoptionAssumption DEF IInv, OInv, OrderInv, InTurn, FailureKnown,
         Steps
<1>1. /\ attempt' = attempt /\ unrecorded' = unrecorded
      /\ Schedule(j) \/ StatementFails(j) \/ (pc[j] # "exec" /\ Advance(j))
  BY DEF OwnStep
<1>2. faults' = 0 => faults = 0
  BY <1>0, <1>1, FaultsGrow
<1>3. Past(j, 5, 1)' => Past(j, 5, 1)
  BY <1>0, OwnLeads
<1> DEFINE told == faults = 0 /\ j \notin unrecorded
           First == pc'[j] \in {"new", "rows", "start"}
           \/ (pc'[j] \in {"open", "exec"} /\ cur'[j] <= 1) =>
                      attempt'[j] = "none"
           Row == pc'[j] \notin {"finish_failed", "catch", "lost", "done"} => rows'[j][1] # "failed"
           Failed == pc'[j] = "record_failed" /\ told' =>
                       attempt'[j] = IF cur'[j] = 1 THEN "none" ELSE "failed"
           Ended == (pc'[j] = "finish_failed" \/ status'[j] = "failed") /\ told' =>
                      attempt'[j] = IF rows'[j][1] = "failed" THEN "none" ELSE "failed"
<1>4. First /\ Row /\ Failed /\ Ended
  <2> USE <1>0, <1>1, <1>2 DEF TypeOK, Goto, SetStatus, SetRow, persisted, AttemptFits
  <2>1. CASE Schedule(j)
    BY <2>1 DEF Schedule
  <2>2. CASE StatementFails(j)
    BY <2>2, ConstantsAssumption DEF StatementFails, UncaughtPoints, StepTryPoints,
       RevertTryPoints, JobInv, StatusFits, Terminal
  <2>3. CASE PersistSteps(j) \/ StartJob(j)
    BY <2>3 DEF PersistSteps, StartJob
  <2>4. CASE OpenStep(j)
    BY <2>4 DEF OpenStep, JobInv, StatusFits, Forward
  <2>5. CASE RecordSuccess(j) \/ RecordProgress(j)
    BY <2>5 DEF RecordSuccess, RecordProgress, NextStep, JobInv, StatusFits, Forward
  <2>6. CASE RecordFailure(j)
    BY <2>6 DEF RecordFailure, JobInv, StatusFits, Forward
  <2>7. CASE FinishFailed(j) \/ CatchJob(j) \/ FinishSucceeded(j)
    BY <2>7 DEF FinishFailed, CatchJob, FinishSucceeded, JobInv, StatusFits, Terminal
  <2>8. CASE pc[j] \in Rolling \cup {"begin_rollback", "empty", "exec"}
    BY <2>8, <1>1, OwnLeads DEF JobInv, RollbackFits, StepFits
  <2> QED
    BY <2>1, <2>2, <2>3, <2>4, <2>5, <2>6, <2>7, <2>8
       DEF Advance, FinishEmpty, ExecuteOk, ExecuteFails, BeginRollback, SkipRevert, OpenRevert,
           RevertOk, RevertFails, RecordReverted, RecordRevertFailed, FinishRollback, Rolling,
           Reverting
<1> QED BY <1>1, <1>3, <1>4 DEF AttemptFits

LEMMA AttemptInvStep ==
  ASSUME IInv, OInv, CallInv, AttemptInv, AdoptionNext
  PROVE  AttemptInv'
<1>0. TypeOK /\ kind' = kind
  BY DEF IInv, AdoptionNext
<1>1. ASSUME NEW j \in Jobs, AdoptionStep(j), NEW k \in Jobs, kind[k] # "removal"
      PROVE  AttemptFits(k)'
  <2>1. CASE k = j
    BY <1>1, <2>1, AttemptOfCall DEF AttemptInv
  <2>2. CASE k # j
    <3>1. unrecorded \subseteq unrecorded'
      BY <1>1 DEF AdoptionStep, CreateAttempt, MarkSyncing, UpsertDevice, Promote,
         FinishAttempt, Pass, SetPassword, RemoveKeys, ImportKey, Deactivate, Insert, FindDevice,
         FindTrust, ResetRouter, DeleteDevice, CallFails, StepThrows, Answered, AnswerLost
    <3> QED BY <1>1, <2>2, <3>1, CallLeads DEF AttemptInv, AttemptFits, Past
  <2> QED BY <2>1, <2>2
<1>2. ASSUME NEW j \in Jobs, OwnStep(j), NEW k \in Jobs, kind[k] # "removal"
      PROVE  AttemptFits(k)'
  <2>1. CASE k = j
    BY <1>2, <2>1, AttemptOfOwn DEF AttemptInv
  <2>2. CASE k # j
    <3>1. faults' = 0 => faults = 0
      BY <1>0, <1>2, FaultsGrow DEF OwnStep
    <3> QED BY <1>2, <2>2, <3>1, OwnLeads DEF AttemptInv, AttemptFits, Past, OwnStep
  <2> QED BY <2>1, <2>2
<1>3. ASSUME Death, NEW k \in Jobs, kind[k] # "removal" PROVE AttemptFits(k)'
  <2>1. AttemptFits(k) /\ pc'[k] = IF pc[k] \in Stopped THEN pc[k] ELSE "lost"
    BY <1>3 DEF AttemptInv, Death, Die
  <2> QED
    BY <1>0, <1>3, <2>1 DEF Death, Stopped, TypeOK, AttemptFits, Past, persisted, rowVars
<1> QED BY <1>0, <1>1, <1>2, <1>3, StepSplits DEF AttemptInv

-----------------------------------------------------------------------------
(* What the last job has made *)

\* After a call that was answered, or whose answer is lost, everything up to it is behind.
LEMMA PastAfter ==
  ASSUME IInv, CallInv, NEW j \in Jobs, pc[j] = "exec", ~failing[j], at[j] \in 1..Len(Calls(j)),
         Answered(j) \/ AnswerLost(j)
  PROVE  /\ pc'[j] \in {"exec", "record_ok"} /\ cur' = cur
         /\ \A i \in 1..5, n \in 1..6 : (i = cur[j] => n <= Len(Calls(j))) =>
              (Past(j, i, n)' <=> (i < cur[j] \/ (i = cur[j] /\ n <= at[j])))
<1>1. /\ TypeOK /\ status[j] # "succeeded" /\ cur[j] \in 0..MaxSteps /\ MaxSteps \in Nat
      /\ at \in [Jobs -> Nat]
  BY ConstantsAssumption DEF IInv, TypeOK, JobInv, StatusFits, Forward, CallInv, StateFits
<1>2. CASE AnswerLost(j)
  BY SMTT(30), <1>1, <1>2 DEF AnswerLost, vars, memory, persisted, Past
<1>3. CASE Answered(j) /\ at[j] < Len(Calls(j))
  BY SMTT(30), <1>1, <1>3 DEF Answered, vars, memory, persisted, Past
<1>4. CASE Answered(j) /\ at[j] = Len(Calls(j))
  BY <1>1, <1>4 DEF Answered, ExecuteOk, Goto, persisted, TypeOK, Past
<1> QED BY <1>1, <1>2, <1>3, <1>4 DEF Answered

LEMMA ResetStays ==
  ASSUME IInv, CallInv, NEW j \in Jobs, AdoptionStep(j), resets' = resets, NEW k \in Jobs,
         MayHaveReset(k)
  PROVE  MayHaveReset(k)'
BY CallLeads DEF MayHaveReset

\* Calls that make nothing of the device lie between those that do.
LEMMA PassedBy ==
  ASSUME IInv, CallInv, NEW j \in Jobs, kind[j] = "managed",
         NEW call \in {"create", "syncing", "finish", "inventory", "settle", "relate"},
         Due(j, call), Answered(j)
  PROVE  /\ Past(j, 2, 3)' <=> Past(j, 2, 3)
         /\ Past(j, 3, 1)' <=> Past(j, 3, 1)
         /\ Past(j, 3, 3)' <=> Past(j, 3, 3)
         /\ Past(j, 4, 1)' <=> Past(j, 4, 1)
         /\ Past(j, 4, 2)' <=> Past(j, 4, 2)
         /\ Past(j, 4, 3)' <=> Past(j, 4, 3)
         /\ Past(j, 4, 4)' <=> Past(j, 4, 4)
         /\ Past(j, 4, 5)' <=> Past(j, 4, 5)
<1> DEFINE l == Len(Calls(j))
<1>1. /\ \A i \in 1..5, n \in 1..6 : Past(j, i, n) <=> i < cur[j] \/ (i = cur[j] /\ n < at[j])
      /\ \A i \in 1..5, n \in 1..6 : (i = cur[j] => n <= l) =>
              (Past(j, i, n)' <=> (i < cur[j] \/ (i = cur[j] /\ n <= at[j])))
  BY DueAt, PastAfter DEF IInv, JobInv, StatusFits, Forward, Past
<1>2. \/ cur[j] = 1 /\ at[j] = 1 /\ l = 1
      \/ cur[j] = 2 /\ at[j] \in {1, 2, 4} /\ l = 4
      \/ cur[j] = 3 /\ at[j] = 4 /\ l = 4
      \/ cur[j] = 4 /\ at[j] = 6 /\ l = 6
      \/ cur[j] = 5 /\ at[j] \in {1, 2} /\ l = 2
  BY DueAt DEF Place
<1> HIDE DEF l
<1>3. CASE cur[j] = 1 /\ at[j] = 1 /\ l = 1
  BY <1>1, <1>3
<1>4. CASE cur[j] = 2 /\ at[j] \in {1, 2, 4} /\ l = 4
  BY <1>1, <1>4
<1>5. CASE cur[j] = 3 /\ at[j] = 4 /\ l = 4
  BY <1>1, <1>5
<1>6. CASE cur[j] = 4 /\ at[j] = 6 /\ l = 6
  BY <1>1, <1>6
<1>7. CASE cur[j] = 5 /\ at[j] \in {1, 2} /\ l = 2
  BY <1>1, <1>7
<1> QED BY <1>2, <1>3, <1>4, <1>5, <1>6, <1>7

\* A call of the job that has the device for itself.
LEMMA AloneCall ==
  ASSUME IInv, CallInv, NEW j \in Jobs, AdoptionStep(j), kind' = kind, MadeSoFar(j), Reachable
  PROVE  MadeSoFar(j)' /\ Reachable'
<1>0. /\ kind[j] \in {"managed", "read_only", "removal"} /\ pc[j] = "exec"
      /\ status[j] = "running" /\ StateFits
  BY WhichStep, CallLeads DEF CallInv
<1> USE <1>0 DEF MadeSoFar, ManagedSoFar, ReadOnlySoFar, RemovalSoFar
<1>1. CASE StepThrows(j)
  <2>1. \A i, n \in Nat : ~Past(j, i, n)'
    BY <1>1 DEF StepThrows, ExecuteFails, Goto, IInv, TypeOK, persisted, Past
  <2> QED BY <1>1, <2>1, ResetStays DEF StepThrows, Reachable, Blank, routerVars
<1>2. CASE CallFails(j)
  <2>1. \A i, n \in Nat : Past(j, i, n)' <=> Past(j, i, n)
    BY <1>2 DEF CallFails, vars, memory, persisted, Past
  <2> QED BY <1>2, <2>1, ResetStays DEF CallFails, Reachable, Blank, rowVars, routerVars
<1>3. ASSUME NEW call, Due(j, call), Answered(j) \/ AnswerLost(j)
      PROVE  /\ \A i \in 1..5, n \in 1..6 : Past(j, i, n) <=> i < cur[j]
                \/ (i = cur[j] /\ n < at[j])
             /\ \A i \in 1..5, n \in 1..6 : (i = cur[j] => n <= Len(Calls(j))) =>
                  (Past(j, i, n)' <=> (i < cur[j] \/ (i = cur[j] /\ n <= at[j])))
  BY <1>3, DueAt, PastAfter DEF Past
<1>4. CASE CreateAttempt(j) \/ MarkSyncing(j) \/ FinishAttempt(j) \/ Pass(j)
  <2>1. PICK call \in {"create", "syncing", "finish", "inventory", "settle", "relate"} : Due(j,
        call)
    BY <1>4 DEF CreateAttempt, MarkSyncing, FinishAttempt, Pass
  <2>2. /\ Answered(j) /\ UNCHANGED <<device, active, refers, resets, routerVars>>
        /\ call = "relate" => j \in refers
    BY <1>4, <2>1, DueAt DEF CreateAttempt, MarkSyncing, FinishAttempt, Pass, rowVars, Place
  <2>3. Reachable'
    BY <2>2, ResetStays DEF Reachable, Blank, routerVars
  <2>4. CASE kind[j] = "managed"
    BY <2>1, <2>2, <2>3, <2>4, PassedBy DEF routerVars
  <2>5. CASE kind[j] = "read_only"
    BY <1>3, <2>1, <2>2, <2>3, <2>5, DueAt DEF Place, routerVars
  <2>6. CASE kind[j] = "removal"
    BY SMTT(30), <1>3, <2>1, <2>2, <2>3, <2>6, DueAt DEF Place, routerVars
  <2> QED BY <2>4, <2>5, <2>6
<1>5. CASE UpsertDevice(j)
  <2>1. /\ Due(j, "upsert") /\ Answered(j) /\ device' = "inventoried" /\ refers' = refers \cup {j}
        /\ UNCHANGED <<active, resets, restPassword, managedKey>>
    BY <1>5 DEF UpsertDevice, routerVars
  <2>2. Reachable'
    BY <2>1 DEF Reachable
  <2>3. CASE kind[j] = "managed"
    BY <1>3, <2>1, <2>2, <2>3, DueAt DEF Place
  <2>4. CASE kind[j] = "read_only"
    BY <1>3, <2>1, <2>2, <2>4, DueAt DEF Place
  <2> QED BY <2>1, <2>3, <2>4, DueAt
<1>6. CASE Promote(j)
  <2>1. /\ Due(j, "promote") /\ Answered(j)
        /\ device' = IF j \in refers THEN "fully_managed" ELSE device
        /\ UNCHANGED <<active, refers, resets, restPassword, managedKey>>
    BY <1>6 DEF Promote, routerVars
  <2>2. kind[j] = "managed" /\ cur[j] = 4 /\ at[j] = 5 /\ Len(Calls(j)) = 6
    BY <2>1, DueAt DEF Place
  <2>3. /\ j \in refers /\ restPassword = j /\ managedKey
        /\ active = {<<"read_only", j>>, <<"write", "ssh_key">>}
    BY <1>3, <2>1, <2>2
  <2> QED BY <1>3, <2>1, <2>2, <2>3 DEF Reachable
<1>7. CASE SetPassword(j) \/ RemoveKeys(j) \/ ImportKey(j)
  <2>1. PICK call \in {"password", "remove_keys", "import_key"} : Due(j, call)
    BY <1>7 DEF SetPassword, RemoveKeys, ImportKey
  <2>2. /\ Answered(j) \/ AnswerLost(j)
        /\ UNCHANGED <<device, active, refers>>
        /\ kind[j] = "managed" /\ cur[j] = 3 /\ Len(Calls(j)) = 4
        /\ at[j] \in {1, 2, 3}
        /\ at[j] = 1 => restPassword' = j
        /\ at[j] # 1 => UNCHANGED restPassword
        /\ at[j] = 3 => managedKey'
    BY <1>7, DueAt DEF SetPassword, RemoveKeys, ImportKey, rowVars, Place
  <2>3. device = "inventoried"
    BY <1>3, <2>1, <2>2
  <2> QED BY <1>3, <2>1, <2>2, <2>3 DEF Reachable
<1>8. CASE Deactivate(j)
  <2>1. PICK call \in {"drop_write", "drop_read_only", "drop_all"} : Due(j, call)
    BY <1>8 DEF Deactivate
  <2>2. /\ Answered(j) /\ UNCHANGED <<device, refers, resets, restPassword, managedKey>>
        /\ cur[j] = 4
        /\ \/ /\ kind[j] = "managed" /\ at[j] = 1 /\ Len(Calls(j)) = 6
              /\ active' = {c \in active : j \in refers => c[1] # "read_only"}
           \/ /\ kind[j] = "managed" /\ at[j] = 3 /\ Len(Calls(j)) = 6
              /\ active' = {c \in active : j \in refers => c[1] # "write"}
           \/ /\ kind[j] = "read_only" /\ at[j] = 1 /\ Len(Calls(j)) = 2
              /\ active' = {c \in active : j \notin refers}
    BY <1>8, DueAt DEF Deactivate, Place, routerVars
  <2>3. j \in refers /\ device = "inventoried"
    BY <1>3, <2>1, <2>2
  <2>4. Reachable'
    BY <2>2, <2>3 DEF Reachable
  <2>5. CASE kind[j] = "managed" /\ at[j] = 1
    BY SMTT(30), <1>3, <2>1, <2>2, <2>3, <2>4, <2>5
  <2>6. CASE kind[j] = "managed" /\ at[j] = 3
    <3>1. \A c \in active : c[1] \in {"read_only", "write"}
      BY DEF StateFits, Credentials, Purposes
    <3>2. <<"read_only", j>> \in active /\ \A c \in active : c[1] = "read_only" =>
            c = <<"read_only", j>>
      BY <1>3, <2>1, <2>2, <2>6
    <3>3. active' = {<<"read_only", j>>}
      BY <2>2, <2>3, <2>6, <3>1, <3>2
    <3> QED BY <1>3, <2>1, <2>2, <2>3, <2>4, <2>6, <3>3
  <2>7. CASE kind[j] = "read_only" /\ at[j] = 1
    <3>1. active' = {}
      BY <2>2, <2>3, <2>7
    <3> QED BY <1>3, <2>1, <2>2, <2>3, <2>4, <2>7, <3>1
  <2> QED BY <2>2, <2>5, <2>6, <2>7
<1>9. CASE Insert(j)
  <2>1. PICK call \in {"add_password", "add_key", "add_login"} : Due(j, call)
    BY <1>9 DEF Insert
  <2>2. /\ Answered(j) /\ UNCHANGED <<device, refers, resets, restPassword, managedKey>>
        /\ cur[j] = 4 /\ j \in refers
        /\ \/ /\ kind[j] = "managed" /\ at[j] = 2 /\ Len(Calls(j)) = 6
              /\ active' = active \cup {<<"read_only", j>>}
           \/ /\ kind[j] = "managed" /\ at[j] = 4 /\ Len(Calls(j)) = 6
              /\ active' = active \cup {<<"write", "ssh_key">>}
           \/ /\ kind[j] = "read_only" /\ at[j] = 2 /\ Len(Calls(j)) = 2
              /\ active' = active \cup {<<"read_only", "login">>}
    BY <1>9, DueAt DEF Insert, Place, routerVars
  <2>3. device = "inventoried"
    BY <1>3, <2>1, <2>2
  <2>4. Reachable'
    BY <2>2, <2>3 DEF Reachable
  <2>5. CASE kind[j] = "managed" /\ at[j] = 2
    BY <1>3, <2>1, <2>2, <2>3, <2>4, <2>5
  <2>6. CASE kind[j] = "managed" /\ at[j] = 4
    BY <1>3, <2>1, <2>2, <2>3, <2>4, <2>6
  <2>7. CASE kind[j] = "read_only" /\ at[j] = 2
    BY SMTT(30), <1>3, <2>1, <2>2, <2>3, <2>4, <2>7
  <2> QED BY <2>2, <2>5, <2>6, <2>7
<1>10. CASE FindDevice(j) \/ FindTrust(j)
  <2>1. PICK call \in {"find", "credentials"} : Due(j, call)
    BY <1>10 DEF FindDevice, FindTrust
  <2>2. /\ Answered(j) /\ UNCHANGED <<device, active, refers, restPassword, managedKey>>
        /\ kind[j] = "removal" /\ cur[j] = 1 /\ Len(Calls(j)) = 2 /\ at[j] \in {1, 2}
    BY <1>10, DueAt DEF FindDevice, FindTrust, Place, routerVars
  <2>3. \A k \in Jobs : MayHaveReset(k) => MayHaveReset(k)'
    BY <2>2, CallLeads DEF MayHaveReset
  <2>4. Reachable'
    BY <2>2, <2>3 DEF Reachable, Blank
  <2> QED BY <1>3, <2>1, <2>2, <2>4
<1>11. CASE ResetRouter(j)
  <2>1. /\ Due(j, "reset") /\ (Answered(j) \/ AnswerLost(j))
        /\ UNCHANGED <<device, active, refers, resets>>
        /\ \/ resets[j] /\ restPassword' = None /\ managedKey' = FALSE
           \/ UNCHANGED <<restPassword, managedKey>>
    BY <1>11 DEF ResetRouter, rowVars, routerVars
  <2>2. kind[j] = "removal" /\ cur[j] = 2 /\ Len(Calls(j)) = 1 /\ at[j] = 1
    BY <2>1, DueAt DEF Place
  <2>3. resets[j] => MayHaveReset(j)'
    BY <2>1, <2>2, CallLeads DEF MayHaveReset
  <2>4. Reachable'
    BY <2>1, <2>3, ResetStays DEF Reachable, Blank
  <2> QED BY <1>3, <2>1, <2>2, <2>4
<1>12. CASE DeleteDevice(j)
  <2>1. /\ Due(j, "delete") /\ Answered(j)
        /\ j \in refers => device' = "absent" /\ active' = {}
    BY <1>12 DEF DeleteDevice
  <2>2. kind[j] = "removal" /\ cur[j] = 3 /\ Len(Calls(j)) = 2 /\ at[j] = 2
    BY <2>1, DueAt DEF Place
  <2>3. j \in refers
    BY <1>3, <2>1, <2>2
  <2> QED BY <1>3, <2>1, <2>2, <2>3 DEF Reachable
<1> QED
  BY <1>1, <1>2, <1>4, <1>5, <1>6, <1>7, <1>8, <1>9, <1>10, <1>11, <1>12 DEF AdoptionStep

\* A job begins at its start, where it has nothing behind it.
LEMMA BeginsWithNothing ==
  ASSUME IInv, CallInv, NEW j \in Jobs, OwnStep(j), ~Working(j), Working(j)'
  PROVE  \A i \in 1..task[j].size, n \in Nat \ {0} : ~Past(j, i, n)'
<1>1. /\ TypeOK /\ JobInv(j)
      /\ Schedule(j) \/ StatementFails(j) \/ (pc[j] # "exec" /\ Advance(j))
  BY DEF IInv, OwnStep
<1>2. pc[j] = "start"
  BY <1>1 DEF TypeOK, Working, Stopped, Goto, Schedule, StatementFails, UncaughtPoints,
     StepTryPoints, RevertTryPoints, Advance, PersistSteps, StartJob, FinishEmpty, OpenStep,
     ExecuteOk, ExecuteFails, RecordSuccess, RecordProgress, RecordFailure, FinishFailed,
     FinishSucceeded, BeginRollback, SkipRevert, OpenRevert, RevertOk, RevertFails,
     RecordReverted, RecordRevertFailed, FinishRollback, CatchJob
<1>3. \A i, n \in Nat : ~Past(j, i, n)
  BY <1>1, <1>2 DEF JobInv, StatusFits, Past
<1> QED BY <1>3, OwnLeads

\* What was made stays as long as nobody touches it.
LEMMA SoFarStays ==
  ASSUME NEW j \in Jobs, MadeSoFar(j), UNCHANGED <<kind, device, active, routerVars>>,
         refers \subseteq refers', task[j].size = IF kind[j] = "removal" THEN 3 ELSE 5,
         \/ \A i \in 1..task[j].size, n \in Nat \ {0} : ~Past(j, i, n)'
         \/ \A i \in 1..task[j].size, n \in Nat \ {0} : Past(j, i, n)' <=> Past(j, i, n)
  PROVE  MadeSoFar(j)'
<1>1. CASE kind[j] = "managed"
  BY <1>1 DEF MadeSoFar, ManagedSoFar, routerVars
<1>2. CASE kind[j] = "read_only"
  BY <1>2 DEF MadeSoFar, ReadOnlySoFar
<1>3. CASE kind[j] = "removal"
  BY <1>3 DEF MadeSoFar, RemovalSoFar
<1> QED BY <1>1, <1>2, <1>3 DEF MadeSoFar

LEMMA AloneStep ==
  ASSUME IInv, CallInv, AloneInv, AdoptionNext, ~overlapped'
  PROVE  AloneInv'
<1>0. /\ TypeOK /\ kind' = kind /\ Record
      /\ \A j, k \in Jobs : Working(j)' /\ Working(k)' => j = k
  BY DEF IInv, AdoptionNext, Record
<1>1. ASSUME NEW j \in Jobs, AdoptionStep(j) PROVE AloneInv'
  <2>1. Working(j) /\ Working(j)' /\ \A k \in Jobs \ {j} : Working(k)' <=> Working(k)
    BY <1>1, CallLeads DEF Working, Stopped
  <2>2. latest = j /\ latest' = j
    BY <1>0, <2>1 DEF AloneInv, Record
  <2>3. MadeSoFar(j)' /\ Reachable'
    BY <1>0, <1>1, <2>2, AloneCall DEF AloneInv
  <2> QED BY <1>0, <2>1, <2>2, <2>3 DEF AloneInv
<1>2. ASSUME NEW j \in Jobs, OwnStep(j) PROVE AloneInv'
  <2>1. /\ UNCHANGED <<kind, device, active, resets, routerVars>> /\ refers \subseteq refers'
        /\ \A k \in Jobs \ {j} : pc'[k] = pc[k] /\ cur'[k] = cur[k] /\ status'[k] = status[k]
        /\ at' = at /\ task' = task
    BY <1>0, <1>2, OwnLeads DEF OwnStep
  <2>2. ASSUME NEW k \in Jobs
        PROVE  /\ \/ \A i \in 1..task[k].size, n \in Nat \ {0} : ~Past(k, i, n)'
                  \/ \A i \in 1..task[k].size, n \in Nat \ {0} : Past(k, i, n)' <=> Past(k, i, n)
               /\ task[k].size = IF kind[k] = "removal" THEN 3 ELSE 5
               /\ k # j => (Working(k)' <=> Working(k))
    BY <1>2, <2>1, OwnLeads, WhichStep DEF Past, Working
  <2>3. Reachable'
    <3>1. ASSUME NEW k \in Jobs, MayHaveReset(k) PROVE MayHaveReset(k)'
      <4>1. CASE k # j
        BY <2>1, <3>1, <4>1 DEF MayHaveReset
      <4>2. CASE k = j
        <5>1. /\ Schedule(j) \/ StatementFails(j) \/ (pc[j] # "exec" /\ Advance(j))
              /\ pc[j] \in Forward => cur[j] \in {1, 2, 3, 4, 5}
          BY <1>2, WhichStep DEF OwnStep
        <5> QED
          BY <1>0, <2>1, <3>1, <4>2, <5>1 DEF MayHaveReset, TypeOK, Forward, Goto, NextStep,
             NextRevert, Schedule, StatementFails, UncaughtPoints, StepTryPoints,
             RevertTryPoints, Advance, PersistSteps, StartJob, FinishEmpty, OpenStep, ExecuteOk,
             ExecuteFails, RecordSuccess, RecordProgress, RecordFailure, FinishFailed,
             FinishSucceeded, BeginRollback, SkipRevert, OpenRevert, RevertOk, RevertFails,
             RecordReverted, RecordRevertFailed, FinishRollback, CatchJob
      <4> QED BY <4>1, <4>2
    <3> QED BY <2>1, <3>1 DEF AloneInv, Reachable, Blank, routerVars
  <2>4. CASE Working(j)' /\ ~Working(j)
    <3>1. latest' = j
      BY <1>0, <2>2, <2>4 DEF Record
    <3>2. MadeSoFar(j)'
      <4>1. \A i \in 1..task[j].size, n \in Nat \ {0} : ~Past(j, i, n)'
        BY <1>2, <2>4, BeginsWithNothing
      <4>2. kind'[j] = kind[j] /\ task[j].size = IF kind[j] = "removal" THEN 3 ELSE 5
        BY <1>0, <2>2
      <4> QED BY <4>1, <4>2 DEF MadeSoFar, ManagedSoFar, ReadOnlySoFar, RemovalSoFar
    <3> QED BY <1>0, <2>3, <2>4, <3>1, <3>2 DEF AloneInv
  <2>5. CASE ~(Working(j)' /\ ~Working(j))
    <3>1. latest' = latest /\ \A k \in Jobs : Working(k)' => Working(k)
      BY <1>0, <2>2, <2>5 DEF Record
    <3>2. ASSUME NEW k \in Jobs, latest = k PROVE MadeSoFar(k)'
      BY <2>1, <2>2, <3>2, SoFarStays DEF AloneInv
    <3> QED BY <1>0, <2>3, <3>1, <3>2 DEF AloneInv
  <2> QED BY <2>4, <2>5
<1>3. CASE Death
  <2>1. ASSUME NEW k \in Jobs
        PROVE  /\ ~Working(k)'
               /\ \/ \A i \in 1..task[k].size, n \in Nat \ {0} : ~Past(k, i, n)'
                  \/ \A i \in 1..task[k].size, n \in Nat \ {0} : Past(k, i, n)' <=> Past(k, i, n)
               /\ task[k].size = IF kind[k] = "removal" THEN 3 ELSE 5
               /\ MayHaveReset(k) => MayHaveReset(k)'
    BY <1>0, <1>3, WhichStep DEF Death, Die, Stopped, TypeOK, Working, Past, MayHaveReset,
       persisted, rowVars
  <2>2. latest' = latest /\ UNCHANGED <<kind, device, active, refers, routerVars>>
    BY <1>0, <1>3, <2>1 DEF Record, Death, rowVars
  <2>3. ASSUME NEW k \in Jobs, latest = k PROVE MadeSoFar(k)'
    BY <2>1, <2>2, <2>3, SoFarStays DEF AloneInv
  <2>4. Reachable'
    BY <2>1, <2>2 DEF AloneInv, Reachable, Blank, routerVars
  <2> QED BY <2>1, <2>2, <2>3, <2>4 DEF AloneInv
<1> QED BY <1>0, <1>1, <1>2, <1>3, StepSplits

-----------------------------------------------------------------------------
(* The theorems *)

LEMMA InitAdoptionInv == AdoptionInit => AdoptionInv
<1> SUFFICES ASSUME AdoptionInit PROVE AdoptionInv
  OBVIOUS
<1>1. CallInv
  <2>1. active \subseteq Credentials
    BY DEF AdoptionInit, Credentials, Purposes
  <2>2. StateFits
    BY <2>1 DEF AdoptionInit, StateFits
  <2>3. \A j \in Jobs : JobFits(j)
    BY DEF AdoptionInit, Init, JobFits
  <2> QED BY <2>2, <2>3 DEF CallInv
<1>2. AttemptInv
  <2>1. 1 \in Steps
    BY AdoptionAssumption DEF Steps
  <2> QED BY <2>1 DEF AdoptionInit, Init, AttemptInv, AttemptFits, Past
<1>3. AloneInv
  BY AdoptionAssumption DEF AdoptionInit, Init, AloneInv, Working, Stopped, Reachable
<1> QED BY <1>1, <1>2, <1>3 DEF AdoptionInv

LEMMA NextAdoptionInv ==
  IInv /\ OInv /\ AdoptionInv /\ [AdoptionNext]_adoptionVars => AdoptionInv'
<1> SUFFICES ASSUME IInv, OInv, AdoptionInv, [AdoptionNext]_adoptionVars PROVE AdoptionInv'
  OBVIOUS
<1>1. CASE AdoptionNext
  <2>1. overlapped => overlapped'
    BY <1>1 DEF AdoptionNext, Record
  <2> QED BY <1>1, <2>1, CallInvStep, AttemptInvStep, AloneStep DEF AdoptionInv
<1>2. CASE UNCHANGED adoptionVars
  <2> USE <1>2 DEF adoptionVars, rowVars, routerVars, vars, memory, persisted, bounds
  <2>1. CallInv'
    BY DEF AdoptionInv, CallInv, StateFits, JobFits, Calls
  <2>2. AttemptInv'
    BY DEF AdoptionInv, AttemptInv, AttemptFits, Past
  <2>3. ~overlapped' => AloneInv'
    <3>1. ASSUME NEW j \in Jobs PROVE /\ Working(j)' <=> Working(j)
                                      /\ MayHaveReset(j) => MayHaveReset(j)'
                                      /\ MadeSoFar(j) => MadeSoFar(j)'
      BY DEF Working, MayHaveReset, MadeSoFar, ManagedSoFar, ReadOnlySoFar, RemovalSoFar, Past
    <3> QED BY <3>1 DEF AdoptionInv, AloneInv, Reachable, Blank
  <2> QED BY <2>1, <2>2, <2>3 DEF AdoptionInv
<1> QED BY <1>1, <1>2

\* What is said of the calls, of the attempts and of the last job's work holds throughout.
THEOREM AdoptionInvariant == AdoptionSpec => [](IInv /\ AdoptionInv)
BY InitAdoptionInv, NextAdoptionInv, AdoptionRunsOnScheduler, Inductive, InOrder, PTL
   DEF AdoptionSpec

\* While the jobs of the router have not overlapped, a device that says fully_managed has
\* its password and trust in the store and the controller's key on the router, however jobs
\* fail and whenever the process dies, but for a removal that has reset the router and
\* given up.
THEOREM ManagedCanBeReached == AdoptionSpec => []ManagedIsReachable
<1>1. AdoptionInv => ManagedIsReachable
  BY DEF AdoptionInv, AloneInv, Reachable, MayHaveReset, ManagedIsReachable
<1> QED BY <1>1, AdoptionInvariant, PTL

\* The last job on the router, if it succeeds and nobody has overlapped it, leaves what its
\* kind promises.
THEOREM SuccessTakesHold == AdoptionSpec => []AdoptionTakesHold
<1>1. IInv /\ AdoptionInv => AdoptionTakesHold
  <2> SUFFICES ASSUME IInv, AdoptionInv, NEW j \in Jobs, ~overlapped, latest = j,
                      status[j] = "succeeded"
               PROVE  \/ kind[j] = "managed" /\ device = "fully_managed" /\ restPassword = j
                      \/ /\ kind[j] = "read_only" /\ device = "inventoried"
                         /\ active = {<<"read_only", "login">>}
                      \/ kind[j] = "removal" /\ device = "absent" /\ active = {}
    BY DEF AdoptionTakesHold
  <2>1. MadeSoFar(j) /\ kind[j] \in {"managed", "read_only", "removal"}
    BY WhichStep DEF AdoptionInv, AloneInv
  <2>2. \A i, n \in Nat : Past(j, i, n)
    BY DEF Past
  <2> QED BY <2>1, <2>2 DEF MadeSoFar, ManagedSoFar, ReadOnlySoFar, RemovalSoFar
<1> QED BY <1>1, AdoptionInvariant, PTL

\* The attempts tell what became of the jobs that adopt.
THEOREM AttemptsAreTrue == AdoptionSpec => []AttemptTellsOutcome
<1>1. AdoptionInv => AttemptTellsOutcome
  BY DEF AdoptionInv, AttemptInv, AttemptFits, Past, AttemptTellsOutcome
<1> QED BY <1>1, AdoptionInvariant, PTL

-----------------------------------------------------------------------------
(* JobFeed: the rows of a job *)

\* A row of a step that has not been dealt with.
Undone == {"absent", "queued", "running"}

\* The rows of the steps that the job has not come to.
QueueFits(j) ==
  /\ pc[j] \in {"new", "rows"} => \A i \in Steps : rows[j][i] = "absent"
  /\ pc[j] = "start" => \A i \in StepsOf(j) : rows[j][i] = "queued"
  /\ pc[j] = "open" => \A i \in StepsOf(j) : i >= cur[j] => rows[j][i] = "queued"
  /\ pc[j] \in Forward => \A i \in StepsOf(j) : i > cur[j] => rows[j][i] = "queued"

\* The steps that a progress counts have been dealt with.
Counted(p, j) ==
  \A i \in StepsOf(j) : p > Percent(i - 1, task[j].size) => rows[j][i] \notin Undone

\* The scheduler's part of the invariant.
RowsInv == \A j \in Jobs : QueueFits(j) /\ Counted(progress[j], j)

\* The percentage does not fall as steps are done.
LEMMA PercentGrows ==
  ASSUME NEW i \in Nat, NEW k \in Nat, NEW n \in Nat \ {0}, i <= k
  PROVE  Percent(i, n) <= Percent(k, n)
BY DEF Percent

\* A row that has been dealt with stays so.
DealtStays(j) == \A i \in Steps : rows[j][i] \notin Undone => rows'[j][i] \notin Undone

\* The job that takes a step opens a row only from the queue.
LEMMA OwnQueue ==
  ASSUME IInv, NEW j \in Jobs, QueueFits(j), Schedule(j) \/ Advance(j) \/ StatementFails(j)
  PROVE  QueueFits(j)' /\ DealtStays(j)
<1>0. /\ TypeOK /\ JobInv(j) /\ MaxSteps \in Nat /\ MaxFaults \in Nat
      /\ task[j].size \in 0..MaxSteps /\ StepsOf(j) \subseteq Steps
      /\ rows[j] \in [Steps -> RowStatus] /\ pc[j] \in Points
  BY TaskShape, ConstantsAssumption DEF IInv, TypeOK
<1> USE <1>0 DEF TypeOK, Goto, bounds, persisted, QueueFits, DealtStays, StepsOf, Undone
<1>1. CASE Schedule(j)
  BY <1>1 DEF Schedule, SetStatus, Forward
<1>2. CASE PersistSteps(j)
  BY <1>2 DEF PersistSteps, Forward, Steps
<1>3. CASE StartJob(j)
  BY <1>3 DEF StartJob, SetStatus, Forward, Steps
<1>4. CASE FinishEmpty(j)
  BY <1>4 DEF FinishEmpty, SetStatus, Forward
<1>5. CASE OpenStep(j)
  BY <1>5, AtWork DEF OpenStep, SetRow, Forward, Steps
<1>6. CASE ExecuteOk(j)
  BY <1>6 DEF ExecuteOk, Forward
<1>7. CASE ExecuteFails(j)
  BY <1>7 DEF ExecuteFails, Forward
<1>8. CASE RecordSuccess(j)
  BY <1>8, AtWork DEF RecordSuccess, SetRow, Forward, Steps
<1>9. CASE RecordProgress(j)
  BY <1>9, AtWork DEF RecordProgress, NextStep, Forward, Steps
<1>10. CASE RecordFailure(j)
  BY <1>10, AtWork DEF RecordFailure, NextStep, SetRow, Forward, Steps
<1>11. CASE FinishFailed(j)
  BY <1>11 DEF FinishFailed, SetStatus, Forward
<1>12. CASE FinishSucceeded(j)
  BY <1>12 DEF FinishSucceeded, SetStatus, Forward
<1>13. CASE BeginRollback(j)
  BY <1>13 DEF BeginRollback, SetStatus, NextRevert, Forward
<1>14. CASE SkipRevert(j)
  BY <1>14 DEF SkipRevert, SetRow, NextRevert, Forward
<1>15. CASE OpenRevert(j)
  BY <1>15 DEF OpenRevert, SetRow, Forward
<1>16. CASE RevertOk(j)
  BY <1>16 DEF RevertOk, Forward
<1>17. CASE RevertFails(j)
  BY <1>17 DEF RevertFails, Forward
<1>18. CASE RecordReverted(j)
  BY <1>18 DEF RecordReverted, SetRow, NextRevert, Forward
<1>19. CASE RecordRevertFailed(j)
  BY <1>19 DEF RecordRevertFailed, SetRow, NextRevert, Forward
<1>20. CASE FinishRollback(j)
  BY <1>20 DEF FinishRollback, SetStatus, Forward
<1>21. CASE CatchJob(j)
  BY <1>21 DEF CatchJob, SetStatus, Forward
<1>22. CASE StatementFails(j)
  BY <1>22 DEF StatementFails, Forward, UncaughtPoints, StepTryPoints, RevertTryPoints
<1> QED BY <1>1, <1>2, <1>3, <1>4, <1>5, <1>6, <1>7, <1>8, <1>9, <1>10, <1>11,
       <1>12, <1>13, <1>14, <1>15, <1>16, <1>17, <1>18, <1>19, <1>20, <1>21,
       <1>22
       DEF Advance

\* It counts a step when the row of it has been written.
LEMMA OwnProgress ==
  ASSUME IInv, NEW j \in Jobs, QueueFits(j), Counted(progress[j], j),
         Schedule(j) \/ Advance(j) \/ StatementFails(j)
  PROVE  Counted(progress[j], j)'
<1>1. /\ TypeOK /\ JobInv(j) /\ task' = task /\ progress[j] \in Nat
      /\ task[j].size \in Nat /\ StepsOf(j) = 1..task[j].size /\ StepsOf(j) \subseteq Steps
  BY SMTT(30), TaskShape, ConstantsAssumption, Frame DEF IInv, TypeOK, StepsOf, Schedule, Advance,
       StatementFails, persisted, bounds, PersistSteps, StartJob, FinishEmpty, OpenStep,
       ExecuteOk, ExecuteFails, RecordSuccess, RecordProgress, RecordFailure, FinishFailed,
       FinishSucceeded, BeginRollback, SkipRevert, OpenRevert, RevertOk, RevertFails,
       RecordReverted, RecordRevertFailed, FinishRollback, CatchJob
<1>2. DealtStays(j)
  BY OwnQueue
<1>3. ASSUME UNCHANGED progress PROVE Counted(progress[j], j)'
  BY <1>1, <1>2, <1>3 DEF Counted, DealtStays, StepsOf
<1>4. CASE RecordProgress(j)
  <2>1. /\ cur[j] \in StepsOf(j) /\ task[j].size \in Nat \ {0}
    BY <1>4, AtWork DEF RecordProgress, Forward
  <2>2. rows' = rows /\ progress'[j] = Percent(cur[j], task[j].size)
    BY <1>1, <1>4 DEF RecordProgress, TypeOK
  <2>3. \A i \in StepsOf(j) : i <= cur[j] => rows[j][i] \notin Undone
    BY <1>1, <1>4, <2>1 DEF JobInv, RowsSoFar, RecordProgress, Forward, Undone
  <2>4. \A i \in StepsOf(j) :
          Percent(cur[j], task[j].size) > Percent(i - 1, task[j].size) => i <= cur[j]
    <3> SUFFICES ASSUME NEW i \in StepsOf(j), cur[j] < i
                 PROVE  ~(Percent(cur[j], task[j].size) > Percent(i - 1, task[j].size))
      BY <1>1, <2>1
    <3>1. cur[j] \in Nat /\ i - 1 \in Nat /\ cur[j] <= i - 1
      BY <1>1, <2>1
    <3>2. Percent(cur[j], task[j].size) \in Nat /\ Percent(i - 1, task[j].size) \in Nat
      BY <3>1, <2>1, PercentIsNat
    <3>3. Percent(cur[j], task[j].size) <= Percent(i - 1, task[j].size)
      BY <3>1, <2>1, PercentGrows
    <3> QED BY <3>2, <3>3
  <2> QED BY <1>1, <2>1, <2>2, <2>3, <2>4 DEF Counted, StepsOf
<1>5. CASE FinishEmpty(j)
  BY <1>1, <1>5 DEF JobInv, StepFits, FinishEmpty, Counted, StepsOf
<1>6. CASE FinishSucceeded(j)
  BY <1>1, <1>6 DEF JobInv, RowsSoFar, FinishSucceeded, Counted, StepsOf, Undone
<1> QED
  BY <1>3, <1>4, <1>5, <1>6 DEF Schedule, Advance,
       StatementFails, persisted, bounds, PersistSteps, StartJob, OpenStep,
       ExecuteOk, ExecuteFails, RecordSuccess, RecordFailure, FinishFailed,
       BeginRollback, SkipRevert, OpenRevert, RevertOk, RevertFails,
       RecordReverted, RecordRevertFailed, FinishRollback, CatchJob

\* What a step of the scheduler does to what is read of the jobs.
Moves ==
  /\ task' = task
  /\ \A j \in Jobs :
       /\ StageOf(status[j]) <= StageOf(status'[j])
       /\ status[j] \in Terminal =>
            status'[j] = status[j] /\ progress'[j] = progress[j] /\ rows'[j] = rows[j]
       /\ DealtStays(j)

\* No status goes back.
LEMMA OwnStage ==
  ASSUME IInv, NEW j \in Jobs, Schedule(j) \/ Advance(j) \/ StatementFails(j)
  PROVE  StageOf(status[j]) <= StageOf(status'[j]) /\ StageOf(status'[j]) \in 0..4
<1>1. TypeOK /\ StatusFits(j) /\ status[j] \in JobStatus
  BY DEF IInv, TypeOK, JobInv
<1> USE <1>1 DEF TypeOK, StatusFits, SetStatus, StageOf, Terminal, JobStatus
<1>2. CASE UNCHANGED status
  BY <1>2
<1>3. CASE Schedule(j)
  BY <1>3 DEF Schedule
<1>4. CASE StartJob(j)
  BY <1>4 DEF StartJob
<1>5. CASE \/ FinishEmpty(j) \/ FinishFailed(j) \/ FinishSucceeded(j)
           \/ FinishRollback(j) \/ CatchJob(j)
  BY <1>5 DEF FinishEmpty, FinishFailed, FinishSucceeded, FinishRollback, CatchJob
<1>6. CASE BeginRollback(j)
  BY <1>6 DEF BeginRollback
<1> QED
  BY <1>2, <1>3, <1>4, <1>5, <1>6 DEF Advance, StatementFails, persisted, PersistSteps, OpenStep,
     ExecuteOk, ExecuteFails, RecordSuccess, RecordProgress, RecordFailure, SkipRevert,
     OpenRevert, RevertOk, RevertFails, RecordReverted, RecordRevertFailed

\* Nothing that is read of a job changes with this.
Rests == UNCHANGED <<task, status, progress, rows>>

\* Nothing happens to the jobs.
LEMMA RestsMoves ==
  ASSUME TypeOK, Rests PROVE Moves
BY DEF TypeOK, Rests, Moves, DealtStays, StageOf, Terminal, JobStatus

\* Only a finished job is at the last stage.
LEMMA StageIsNat ==
  ASSUME NEW s \in JobStatus
  PROVE  StageOf(s) \in 0..4 /\ (StageOf(s) = 4 <=> s \in Terminal)
BY DEF StageOf, JobStatus, Terminal

\* A step of a job.
LEMMA JobMoves ==
  ASSUME IInv, RowsInv, NEW j \in Jobs, Schedule(j) \/ Advance(j) \/ StatementFails(j)
  PROVE  Moves /\ RowsInv'
<1>0. TypeOK /\ QueueFits(j) /\ Counted(progress[j], j)
  BY DEF IInv, RowsInv
<1>1. \A k \in Jobs \ {j} :
        /\ status'[k] = status[k] /\ progress'[k] = progress[k] /\ rows'[k] = rows[k]
        /\ pc'[k] = pc[k] /\ cur'[k] = cur[k]
  BY <1>0, Frame
<1>2. task' = task
  BY DEF Schedule, Advance,
       StatementFails, persisted, bounds, PersistSteps, StartJob, FinishEmpty, OpenStep,
       ExecuteOk, ExecuteFails, RecordSuccess, RecordProgress, RecordFailure, FinishFailed,
       FinishSucceeded, BeginRollback, SkipRevert, OpenRevert, RevertOk, RevertFails,
       RecordReverted, RecordRevertFailed, FinishRollback, CatchJob
<1>3. QueueFits(j)' /\ DealtStays(j) /\ Counted(progress[j], j)'
  BY <1>0, OwnQueue, OwnProgress
<1>4. status[j] \notin Terminal
  BY FinishedRests, DoneTakesNoStep
<1>5. Moves
  <2>1. \A k \in Jobs : StageOf(status[k]) <= StageOf(status'[k])
    BY SMTT(30), <1>0, <1>1, OwnStage, StageIsNat DEF TypeOK
  <2>2. \A k \in Jobs : DealtStays(k)
    BY <1>1, <1>3 DEF DealtStays
  <2> QED BY <1>1, <1>2, <1>4, <2>1, <2>2 DEF Moves
<1>6. ASSUME NEW k \in Jobs PROVE QueueFits(k)' /\ Counted(progress[k], k)'
  <2>1. CASE k = j
    BY <1>3, <2>1
  <2>2. CASE k # j
    BY <1>1, <1>2, <2>2 DEF RowsInv, QueueFits, Counted, StepsOf
  <2> QED BY <2>1, <2>2
<1> QED BY <1>5, <1>6 DEF RowsInv

\* The death of the process writes no row.
LEMMA DeathRows ==
  ASSUME TypeOK, RowsInv, Die, UNCHANGED <<task, persisted, cur>>
  PROVE  RowsInv'
<1>1. \A j \in Jobs : pc'[j] = IF pc[j] \in Stopped THEN pc[j] ELSE "lost"
  BY DEF Die
<1> QED BY <1>1 DEF RowsInv, QueueFits, Counted, StepsOf, Stopped, Forward, persisted

\* At the start nothing is queued, and nothing counted.
LEMMA InitRows == Init => RowsInv
<1> SUFFICES ASSUME Init, NEW j \in Jobs PROVE QueueFits(j) /\ Counted(progress[j], j)
  BY DEF RowsInv
<1>1. /\ pc[j] = "new" /\ progress[j] = 0 /\ rows[j] = [i \in Steps |-> "absent"]
      /\ task[j].size \in 0..MaxSteps /\ MaxSteps \in Nat
  BY InitIInv, TaskShape, ConstantsAssumption DEF Init, IInv
<1>2. QueueFits(j)
  BY <1>1 DEF QueueFits, Forward
<1>3. ASSUME NEW i \in StepsOf(j) PROVE ~(0 > Percent(i - 1, task[j].size))
  <2>1. i - 1 \in Nat /\ task[j].size \in Nat \ {0}
    BY <1>1 DEF StepsOf
  <2>2. Percent(i - 1, task[j].size) \in Nat
    BY <2>1, PercentIsNat
  <2> QED BY <2>2
<1> QED BY <1>1, <1>2, <1>3 DEF Counted

-----------------------------------------------------------------------------
(* What the readers hold *)

\* What was read of a job is of now or of earlier.
Behind(e, j) ==
  /\ StageOf(e.status) <= StageOf(status[j])
  /\ e.status \in Terminal => e.status = status[j] /\ e.progress = progress[j]
  /\ Counted(e.progress, j)

\* With its rows it hangs together.
Coherent(e, j) ==
  /\ e.status \in Terminal => e = JobOf(j)
  /\ \A i \in StepsOf(j) :
       e.progress > Percent(i - 1, task[j].size) => e.rows[i] \notin Undone

\* What is read and shown of a job, and a reader at work on it.
Entry == [status : JobStatus, progress : Nat, rows : [Steps -> RowStatus]]
Work  == [stage : {"job", "steps", "publish"}, job : Jobs, got : Entry,
          before : SUBSET Readers, overtaken : BOOLEAN]

\* The readers of a page read one job each, and only of a page that was opened.
PageFits(r) ==
  \A p \in 1..MaxPages, j \in Jobs : r = <<"page", p, j>> /\ readers[r].stage # "idle" =>
    p <= pages /\ readers[r].job = j

\* Every variable of the feed keeps its type.
FeedType ==
  /\ readers \in [Readers -> Work \cup {Idle}]
  /\ connected \in BOOLEAN
  /\ shown \in [Jobs -> Entry]
  /\ disturbed \in BOOLEAN
  /\ pages \in 0..MaxPages

\* What a reader has read was so, and hangs together once it has the rows.
ReaderFits(r) ==
  HasRead(r) =>
    /\ Behind(readers[r].got, readers[r].job)
    /\ readers[r].stage = "publish" => Coherent(readers[r].got, readers[r].job)

\* So does what is shown.
ShownFits(j) == Behind(shown[j], j) /\ Coherent(shown[j], j)

\* How far a reader has found its job.
Far(r) == StageOf(readers[r].got.status)

\* A reader stands behind those of its job that have read before it.
StandsBehind(r) ==
  HasRead(r) =>
    /\ \A q \in readers[r].before :
         HasRead(q) /\ readers[q].job = readers[r].job /\ Far(q) <= Far(r)
    /\ \A q \in Readers : HasRead(q) /\ readers[q].job = readers[r].job =>
         q = r \/ q \in readers[r].before \/ r \in readers[q].before

\* What it will tell is no older than what is shown, unless the feed is disturbed.
InTime(r) ==
  HasRead(r) /\ ~disturbed /\ ~readers[r].overtaken =>
    StageOf(shown[readers[r].job].status) <= Far(r)

\* The invariant that is inductive once IInv and RowsInv are known.
FeedInv ==
  /\ FeedType
  /\ \A r \in Readers : PageFits(r) /\ ReaderFits(r) /\ StandsBehind(r) /\ InTime(r)
  /\ \A j \in Jobs : ShownFits(j)

\* Time does not undo what was read.
LEMMA ReadStays ==
  ASSUME TypeOK, TypeOK', Moves, NEW e \in Entry, NEW j \in Jobs
  PROVE  /\ Behind(e, j) => Behind(e, j)'
         /\ Behind(e, j) /\ Coherent(e, j) => Coherent(e, j)'
<1>1. /\ task' = task
      /\ StageOf(status[j]) <= StageOf(status'[j])
      /\ status[j] \in Terminal =>
            status'[j] = status[j] /\ progress'[j] = progress[j] /\ rows'[j] = rows[j]
      /\ \A i \in Steps : rows[j][i] \notin Undone => rows'[j][i] \notin Undone
  BY DEF Moves, DealtStays
<1>2. StepsOf(j) \subseteq Steps
  BY TaskShape
<1>3. StageOf(status[j]) \in Nat /\ StageOf(status'[j]) \in Nat /\ StageOf(e.status) \in Nat
  <2>1. status[j] \in JobStatus /\ status'[j] \in JobStatus /\ e.status \in JobStatus
    BY DEF TypeOK, Entry
  <2>2. \A s \in JobStatus : StageOf(s) \in 0..4
    BY StageIsNat
  <2> QED BY <2>1, <2>2
<1>4. Behind(e, j) => Behind(e, j)'
  BY <1>1, <1>2, <1>3 DEF Behind, Counted, StepsOf
<1>5. Behind(e, j) /\ Coherent(e, j) => Coherent(e, j)'
  BY <1>1 DEF Behind, Coherent, JobOf, StepsOf
<1> QED BY <1>4, <1>5

\* ... neither for a reader that waits ...
LEMMA HeldStays ==
  ASSUME TypeOK, TypeOK', Moves, FeedType, NEW r \in Readers, ReaderFits(r),
         readers'[r].stage = readers[r].stage, readers'[r].job = readers[r].job,
         readers'[r].got = readers[r].got
  PROVE  ReaderFits(r)'
<1> SUFFICES ASSUME HasRead(r) PROVE ReaderFits(r)'
  BY DEF ReaderFits, HasRead
<1>1. readers[r] \in Work
  BY DEF FeedType, HasRead, Idle
<1>2. PICK e \in Entry : e = readers[r].got
  BY <1>1 DEF Work
<1>3. PICK j \in Jobs : j = readers[r].job
  BY <1>1 DEF Work
<1>4. Behind(e, j) /\ (readers[r].stage = "publish" => Coherent(e, j))
  BY <1>2, <1>3 DEF ReaderFits
<1>5. Behind(e, j)' /\ (readers[r].stage = "publish" => Coherent(e, j)')
  BY <1>4, ReadStays
<1>6. readers'[r].got = e /\ readers'[r].job = j
  BY <1>2, <1>3
<1> QED
  BY <1>5, <1>6 DEF ReaderFits, Behind, Coherent, Counted, JobOf

\* ... nor for an entry of the list that stays.
LEMMA ShownStays ==
  ASSUME TypeOK, TypeOK', Moves, FeedType, NEW j \in Jobs, ShownFits(j), shown'[j] = shown[j]
  PROVE  ShownFits(j)'
<1>1. PICK e \in Entry : e = shown[j]
  BY DEF FeedType
<1>2. Behind(e, j) /\ Coherent(e, j)
  BY <1>1 DEF ShownFits
<1>3. Behind(e, j)' /\ Coherent(e, j)'
  BY <1>2, ReadStays
<1> QED
  BY <1>1, <1>3 DEF ShownFits, Behind, Coherent, Counted, JobOf

\* The scheduler goes on, a reader may begin, the socket may come and go.
LEMMA GoesOn ==
  ASSUME TypeOK, TypeOK', Moves, FeedInv, FeedType', shown' = shown, pages' = pages,
         disturbed => disturbed',
         \A r \in Readers :
           \/ readers'[r] = readers[r]
           \/ readers[r].stage = "idle" /\ readers'[r].stage = "job" /\ r \in Updates
  PROVE  FeedInv'
<1>1. ASSUME NEW r \in Readers PROVE (PageFits(r) /\ ReaderFits(r) /\ StandsBehind(r) /\ InTime(r))'
  <2>0. PageFits(r) /\ ReaderFits(r) /\ StandsBehind(r) /\ InTime(r)
    BY DEF FeedInv
  <2>1. CASE readers'[r] = readers[r]
    <3>1. PageFits(r)'
      BY <2>0, <2>1 DEF PageFits
    <3>2. ReaderFits(r)'
      BY <2>0, <2>1, HeldStays DEF FeedInv
    <3>3. StandsBehind(r)'
      <4> SUFFICES ASSUME HasRead(r) PROVE StandsBehind(r)'
        BY <2>1 DEF StandsBehind, HasRead
      <4>1. readers[r] \in Work
        BY DEF FeedInv, FeedType, HasRead, Idle
      <4>2. \A q \in Readers : HasRead(q)' => readers'[q] = readers[q]
        BY DEF HasRead
      <4>3. \A q \in Readers : HasRead(q) => readers'[q] = readers[q]
        BY DEF HasRead
      <4> QED BY <2>0, <2>1, <4>1, <4>2, <4>3 DEF StandsBehind, Far, HasRead, Work
    <3>4. InTime(r)'
      BY <2>0, <2>1 DEF InTime, HasRead, Far
    <3> QED BY <3>1, <3>2, <3>3, <3>4
  <2>2. CASE readers[r].stage = "idle" /\ readers'[r].stage = "job" /\ r \in Updates
    <3>1. \A p, j : r # <<"page", p, j>>
      BY <2>2 DEF Updates
    <3> QED BY <2>2, <3>1 DEF PageFits, ReaderFits, StandsBehind, InTime, HasRead
  <2> QED BY <2>1, <2>2
<1>2. ASSUME NEW j \in Jobs PROVE ShownFits(j)'
  BY ShownStays DEF FeedInv
<1> QED BY <1>1, <1>2 DEF FeedInv

-----------------------------------------------------------------------------
(* The readers *)

\* A reader at work.
LEMMA AtReading ==
  ASSUME FeedType, NEW r \in Readers, readers[r].stage # "idle"
  PROVE  /\ readers[r] \in Work /\ readers[r].job \in Jobs /\ readers[r].got \in Entry
         /\ readers[r].before \subseteq Readers /\ readers[r].overtaken \in BOOLEAN
BY DEF FeedType, Idle, Work

\* What a reader holds after its first statement ...
LEMMA ReadJobReads ==
  ASSUME TypeOK, FeedType, NEW r \in Readers, ReadJob(r)
  PROVE  /\ readers' \in [Readers -> Work \cup {Idle}]
         /\ readers'[r].stage = "steps" /\ readers'[r].job = readers[r].job
         /\ readers'[r].before = HaveRead(readers[r].job)
         /\ readers'[r].got.status = status[readers[r].job]
         /\ readers'[r].got.progress = progress[readers[r].job]
         /\ \A q \in Readers \ {r} : readers'[q] = readers[q]
<1>1. readers[r] \in Work /\ readers[r].job \in Jobs
  BY AtReading DEF ReadJob
<1>2. PICK j \in Jobs : j = readers[r].job
  BY <1>1
<1>3. status[j] \in JobStatus /\ progress[j] \in Nat /\ HaveRead(j) \subseteq Readers
  BY DEF TypeOK, HaveRead
<1> DEFINE got == [Nothing EXCEPT !.status = status[j], !.progress = progress[j]]
           new == [readers[r] EXCEPT !.stage = "steps", !.before = HaveRead(j), !.got = got]
<1>4. Nothing \in Entry
  BY DEF Nothing, Entry, JobStatus, RowStatus
<1>5. got \in Entry /\ got.status = status[j] /\ got.progress = progress[j]
  BY <1>3, <1>4 DEF Entry
<1>6. readers' = [readers EXCEPT ![r] = new]
  BY <1>2 DEF ReadJob
<1> HIDE DEF got
<1>7. /\ new \in Work /\ new.stage = "steps" /\ new.job = j
      /\ new.before = HaveRead(j) /\ new.got = got
  BY <1>1, <1>2, <1>3, <1>5 DEF Work
<1> HIDE DEF new
<1>8. readers' \in [Readers -> Work \cup {Idle}] /\ readers'[r] = new
      /\ \A q \in Readers \ {r} : readers'[q] = readers[q]
  BY <1>6, <1>7 DEF FeedType
<1> QED BY <1>2, <1>5, <1>7, <1>8

\* ... and after its second.
LEMMA ReadStepsReads ==
  ASSUME TypeOK, FeedType, NEW r \in Readers, ReadSteps(r)
  PROVE  /\ readers' \in [Readers -> Work \cup {Idle}]
         /\ readers[r].stage = "steps"
         /\ readers'[r].stage = "publish" /\ readers'[r].job = readers[r].job
         /\ readers'[r].before = readers[r].before /\ readers'[r].overtaken = readers[r].overtaken
         /\ readers'[r].got = [status |-> readers[r].got.status,
                               progress |-> readers[r].got.progress,
                               rows |-> rows[readers[r].job]]
         /\ \A q \in Readers \ {r} : readers'[q] = readers[q]
<1>1. readers[r] \in Work /\ readers[r].job \in Jobs /\ readers[r].got \in Entry
      /\ readers[r].stage = "steps"
  BY AtReading DEF ReadSteps, Hears
<1>3. rows[readers[r].job] \in [Steps -> RowStatus]
  BY <1>1 DEF TypeOK
<1> DEFINE got == [readers[r].got EXCEPT !.rows = rows[readers[r].job]]
           new == [readers[r] EXCEPT !.stage = "publish", !.got = got]
<1>5. /\ got \in Entry
      /\ got = [status |-> readers[r].got.status, progress |-> readers[r].got.progress,
                              rows |-> rows[readers[r].job]]
  BY <1>1, <1>3 DEF Entry
<1>6. readers' = [readers EXCEPT ![r] = new]
  BY DEF ReadSteps, Hears
<1> HIDE DEF got
<1>7. /\ new \in Work /\ new.stage = "publish" /\ new.job = readers[r].job
      /\ new.before = readers[r].before /\ new.overtaken = readers[r].overtaken /\ new.got = got
  BY <1>1, <1>5 DEF Work
<1> HIDE DEF new
<1>8. readers' \in [Readers -> Work \cup {Idle}] /\ readers'[r] = new
      /\ \A q \in Readers \ {r} : readers'[q] = readers[q]
  BY <1>6, <1>7 DEF FeedType
<1> QED BY <1>1, <1>5, <1>7, <1>8

\* Readers that are done are idle, and stand before nobody; those that told have
\* overtaken who stood before them.
LEMMA LeaveLeaves ==
  ASSUME FeedType, NEW done \in SUBSET Readers, NEW told, Leave(done, told)
  PROVE  /\ readers' \in [Readers -> Work \cup {Idle}]
         /\ \A r \in done : readers'[r].stage = "idle"
         /\ \A r \in Readers \ done :
              /\ readers'[r].stage = readers[r].stage /\ readers'[r].job = readers[r].job
              /\ readers'[r].got = readers[r].got
              /\ readers[r].stage # "idle" =>
                   /\ readers'[r].before = readers[r].before \ done
                   /\ ~readers'[r].overtaken =>
                        ~readers[r].overtaken /\ \A q \in told : r \notin readers[q].before
<1> DEFINE new(r) == [readers[r] EXCEPT !.before = @ \ done,
                        !.overtaken = @ \/ \E q \in told : r \in readers[q].before]
<1>1. ASSUME NEW r \in Readers, readers[r].stage # "idle"
      PROVE  /\ new(r) \in Work /\ new(r).stage = readers[r].stage /\ new(r).job = readers[r].job
             /\ new(r).got = readers[r].got /\ new(r).before = readers[r].before \ done
             /\ new(r).overtaken = (readers[r].overtaken \/ \E q \in told : r \in readers[q].before)
  <2>1. readers[r] \in Work
    BY <1>1, AtReading
  <2> DEFINE late == readers[r].overtaken \/ \E q \in told : r \in readers[q].before
  <2>2. /\ late \in BOOLEAN
        /\ new(r) = [readers[r] EXCEPT !.before = readers[r].before \ done, !.overtaken = late]
    BY <2>1 DEF Work
  <2> HIDE DEF late
  <2>3. /\ new(r) \in Work /\ new(r).stage = readers[r].stage /\ new(r).job = readers[r].job
        /\ new(r).got = readers[r].got /\ new(r).before = readers[r].before \ done
        /\ new(r).overtaken = late
    BY <2>1, <2>2 DEF Work
  <2> QED BY <2>3 DEF late
<1>2. ASSUME NEW r \in Readers, readers[r].stage = "idle" PROVE readers[r] = Idle
  BY <1>2 DEF FeedType, Work
<1>3. readers' = [r \in Readers |->
                    IF r \in done \/ readers[r].stage = "idle" THEN Idle ELSE new(r)]
  BY DEF Leave
<1> HIDE DEF new
<1>4. readers' \in [Readers -> Work \cup {Idle}]
  BY <1>1, <1>3
<1>5. \A r \in done : readers'[r].stage = "idle"
  BY <1>3 DEF Idle
<1>6. ASSUME NEW r \in Readers \ done
      PROVE  /\ readers'[r].stage = readers[r].stage /\ readers'[r].job = readers[r].job
             /\ readers'[r].got = readers[r].got
             /\ readers[r].stage # "idle" =>
                   /\ readers'[r].before = readers[r].before \ done
                   /\ ~readers'[r].overtaken =>
                        ~readers[r].overtaken /\ \A q \in told : r \notin readers[q].before
  BY <1>1, <1>2, <1>3, <1>6
<1> QED BY <1>4, <1>5, <1>6

-----------------------------------------------------------------------------
(* Every action keeps the invariant *)

\* A reader that has read stands behind its equals, and holds what was so.
LEMMA ReadJobKeeps ==
  ASSUME IInv, RowsInv, FeedInv, NEW r \in Readers, ReadJob(r)
  PROVE  FeedInv'
<1>0. TypeOK /\ FeedType /\ TypeOK'
  BY DEF IInv, FeedInv, ReadJob, vars, persisted, memory, bounds, TypeOK
<1>1. readers[r].stage = "job" /\ readers[r].job \in Jobs
  BY <1>0, AtReading DEF ReadJob
<1>2. PICK j \in Jobs : j = readers[r].job
  BY <1>1
<1>3. /\ readers' \in [Readers -> Work \cup {Idle}]
      /\ readers'[r].stage = "steps" /\ readers'[r].job = j
      /\ readers'[r].before = HaveRead(j)
      /\ readers'[r].got.status = status[j] /\ readers'[r].got.progress = progress[j]
      /\ \A q \in Readers \ {r} : readers'[q] = readers[q]
  BY <1>0, <1>2, ReadJobReads
<1>4. /\ task' = task /\ status' = status /\ progress' = progress /\ rows' = rows
      /\ shown' = shown /\ disturbed' = disturbed /\ pages' = pages /\ connected' = connected
  BY DEF ReadJob, vars, persisted
<1>5. FeedType'
  BY <1>0, <1>3, <1>4 DEF FeedType
<1>6. Moves
  BY <1>0, <1>4, RestsMoves DEF Rests
<1>7. ~HasRead(r) /\ \A q \in Readers \ {r} : HasRead(q)' = HasRead(q)
  BY <1>1, <1>3 DEF HasRead
<1>8. \A q \in Readers : PageFits(q)'
  BY <1>1, <1>2, <1>3, <1>4 DEF FeedInv, PageFits
<1>9. ASSUME NEW q \in Readers PROVE ReaderFits(q)'
  <2>1. CASE q = r
    BY <1>2, <1>3, <1>4, <2>1 DEF RowsInv, ReaderFits, Behind, Counted, StepsOf, StageOf,
                                 IInv, TypeOK, JobStatus, Terminal
  <2>2. CASE q # r
    BY <1>0, <1>3, <1>6, <2>2, HeldStays DEF FeedInv
  <2> QED BY <2>1, <2>2
<1>10. Far(r)' = StageOf(status[j])
  BY <1>3 DEF Far
<1>11. ASSUME NEW q \in Readers, HasRead(q), readers[q].job = j PROVE Far(q) <= StageOf(status[j])
  BY <1>11 DEF FeedInv, ReaderFits, Behind, Far
<1>12. ASSUME NEW q \in Readers PROVE StandsBehind(q)'
  <2>1. CASE q = r
    <3>1. ASSUME NEW k \in HaveRead(j)
          PROVE  HasRead(k)' /\ readers'[k].job = j /\ Far(k)' <= Far(r)'
      <4>1. k \in Readers \ {r} /\ HasRead(k) /\ readers[k].job = j
        BY <1>7, <3>1 DEF HaveRead
      <4> QED BY <1>3, <1>7, <1>10, <1>11, <4>1 DEF Far
    <3>2. ASSUME NEW k \in Readers, HasRead(k)', readers'[k].job = j
          PROVE  k = r \/ k \in HaveRead(j)
      BY <1>3, <1>7, <3>2 DEF HaveRead
    <3> QED BY <1>3, <2>1, <3>1, <3>2 DEF StandsBehind
  <2>2. CASE q # r
    <3> SUFFICES ASSUME HasRead(q) PROVE StandsBehind(q)'
      BY <1>7, <2>2 DEF StandsBehind
    <3>0. StandsBehind(q) /\ readers'[q] = readers[q] /\ readers[q].before \subseteq Readers
      BY <1>0, <1>3, <2>2, AtReading DEF FeedInv, HasRead
    <3>1. ASSUME NEW k \in readers[q].before
          PROVE  HasRead(k)' /\ readers'[k].job = readers'[q].job /\ Far(k)' <= Far(q)'
      <4>1. k \in Readers \ {r} /\ HasRead(k) /\ readers[k].job = readers[q].job /\ Far(k) <= Far(q)
        BY <1>7, <3>0, <3>1 DEF StandsBehind
      <4> QED BY <1>3, <1>7, <3>0, <4>1 DEF Far
    <3>2. ASSUME NEW k \in Readers, HasRead(k)', readers'[k].job = readers'[q].job
          PROVE  k = q \/ k \in readers'[q].before \/ q \in readers'[k].before
      <4>1. CASE k = r
        BY <1>3, <3>0, <3>2, <4>1 DEF HaveRead
      <4>2. CASE k # r
        BY <1>3, <1>7, <3>0, <3>2, <4>2 DEF StandsBehind
      <4> QED BY <4>1, <4>2
    <3> QED BY <3>0, <3>1, <3>2 DEF StandsBehind
  <2> QED BY <2>1, <2>2
<1>13. ASSUME NEW q \in Readers PROVE InTime(q)'
  <2>1. CASE q = r
    BY <1>3, <1>4, <1>10, <2>1 DEF FeedInv, ShownFits, Behind, InTime
  <2>2. CASE q # r
    BY <1>3, <1>4, <1>7, <2>2 DEF FeedInv, InTime, Far
  <2> QED BY <2>1, <2>2
<1>14. ASSUME NEW k \in Jobs PROVE ShownFits(k)'
  BY <1>0, <1>4, <1>6, ShownStays DEF FeedInv
<1> QED BY <1>5, <1>8, <1>9, <1>12, <1>13, <1>14 DEF FeedInv

\* The rows are of later, and so they have what the progress counts.
LEMMA ReadStepsKeeps ==
  ASSUME IInv, RowsInv, FeedInv, NEW r \in Readers, ReadSteps(r)
  PROVE  FeedInv'
<1>0. TypeOK /\ FeedType /\ TypeOK'
  BY DEF IInv, FeedInv, ReadSteps, Hears, vars, persisted, memory, bounds, TypeOK
<1>1. readers[r].stage = "steps" /\ readers[r].job \in Jobs /\ readers[r].got \in Entry
  BY <1>0, AtReading DEF ReadSteps, Hears
<1>2. PICK j \in Jobs : j = readers[r].job
  BY <1>1
<1>a. PICK e \in Entry : e = readers[r].got
  BY <1>1
<1>3. /\ readers' \in [Readers -> Work \cup {Idle}]
      /\ readers'[r].stage = "publish" /\ readers'[r].job = j
      /\ readers'[r].before = readers[r].before /\ readers'[r].overtaken = readers[r].overtaken
      /\ readers'[r].got = [status |-> e.status, progress |-> e.progress, rows |-> rows[j]]
      /\ \A q \in Readers \ {r} : readers'[q] = readers[q]
  BY <1>0, <1>2, <1>a, ReadStepsReads
<1>4. /\ task' = task /\ status' = status /\ progress' = progress /\ rows' = rows
      /\ shown' = shown /\ disturbed' = disturbed /\ pages' = pages /\ connected' = connected
  BY DEF ReadSteps, Hears, vars, persisted
<1>5. FeedType'
  BY <1>0, <1>3, <1>4 DEF FeedType
<1>6. Moves
  BY <1>0, <1>4, RestsMoves DEF Rests
<1>7. \A q \in Readers : HasRead(q)' = HasRead(q) /\ readers'[q].job = readers[q].job
                         /\ readers'[q].before = readers[q].before /\ Far(q)' = Far(q)
                         /\ readers'[q].overtaken = readers[q].overtaken
  BY <1>1, <1>2, <1>a, <1>3 DEF HasRead, Far
<1>8. \A q \in Readers : PageFits(q)'
  BY <1>1, <1>2, <1>3, <1>4 DEF FeedInv, PageFits
<1>9. ASSUME NEW q \in Readers PROVE ReaderFits(q)'
  <2>1. CASE q = r
    <3>1. Behind(e, j)
      BY <1>1, <1>2, <1>a DEF FeedInv, ReaderFits, HasRead
    <3> DEFINE new == [status |-> e.status, progress |-> e.progress, rows |-> rows[j]]
    <3>2. Behind(new, j)
      BY <3>1 DEF Behind
    <3>3. Coherent(new, j)
      BY <3>1 DEF Behind, Coherent, Counted, JobOf
    <3>4. /\ readers'[r].got = new
          /\ new = [status |-> e.status, progress |-> e.progress, rows |-> rows[j]]
      BY <1>3
    <3> HIDE DEF new
    <3> QED
      BY <1>3, <1>4, <2>1, <3>2, <3>3, <3>4
         DEF ReaderFits, Behind, Coherent, Counted, StepsOf, JobOf
  <2>2. CASE q # r
    BY <1>0, <1>3, <1>6, <2>2, HeldStays DEF FeedInv
  <2> QED BY <2>1, <2>2
<1>12. ASSUME NEW q \in Readers PROVE StandsBehind(q)'
  <2> SUFFICES ASSUME HasRead(q) PROVE StandsBehind(q)'
    BY <1>7 DEF StandsBehind
  <2>1. readers[q].before \subseteq Readers
    BY <1>0, AtReading DEF HasRead
  <2> QED BY <1>7, <2>1 DEF FeedInv, StandsBehind
<1>13. ASSUME NEW q \in Readers PROVE InTime(q)'
  BY <1>4, <1>7 DEF FeedInv, InTime
<1>14. ASSUME NEW k \in Jobs PROVE ShownFits(k)'
  BY <1>0, <1>4, <1>6, ShownStays DEF FeedInv
<1> QED BY <1>5, <1>8, <1>9, <1>12, <1>13, <1>14 DEF FeedInv

\* Readers leave; those that tell have read.  What remains to be shown is that
\* nobody in time is behind what is shown now.
LEMMA LeaveKeeps ==
  ASSUME TypeOK, TypeOK', Moves, FeedInv, NEW done \in SUBSET Readers, NEW told, Leave(done, told)
  PROVE  /\ readers' \in [Readers -> Work \cup {Idle}]
         /\ pages' = pages => \A r \in Readers : PageFits(r)'
         /\ \A r \in Readers : ReaderFits(r)' /\ StandsBehind(r)'
<1>0. FeedType
  BY DEF FeedInv
<1>1. /\ readers' \in [Readers -> Work \cup {Idle}]
      /\ \A r \in done : readers'[r].stage = "idle"
      /\ \A r \in Readers \ done :
           /\ readers'[r].stage = readers[r].stage /\ readers'[r].job = readers[r].job
           /\ readers'[r].got = readers[r].got
           /\ readers[r].stage # "idle" => readers'[r].before = readers[r].before \ done
  BY <1>0, LeaveLeaves
<1>2. \A r \in Readers : HasRead(r)' => r \notin done /\ HasRead(r)
  BY <1>1 DEF HasRead
<1>3. \A r \in Readers \ done : HasRead(r)' = HasRead(r) /\ Far(r)' = Far(r)
  BY <1>1 DEF HasRead, Far
<1>4. ASSUME NEW r \in Readers, pages' = pages PROVE PageFits(r)'
  BY <1>1, <1>4 DEF FeedInv, PageFits
<1>5. ASSUME NEW r \in Readers PROVE ReaderFits(r)'
  <2>1. CASE r \in done
    BY <1>2, <2>1 DEF ReaderFits
  <2>2. CASE r \notin done
    BY <1>0, <1>1, <2>2, HeldStays DEF FeedInv
  <2> QED BY <2>1, <2>2
<1>6. ASSUME NEW r \in Readers PROVE StandsBehind(r)'
  <2> SUFFICES ASSUME HasRead(r)' PROVE StandsBehind(r)'
    BY DEF StandsBehind
  <2>1. /\ r \notin done /\ HasRead(r) /\ StandsBehind(r) /\ readers[r].before \subseteq Readers
        /\ readers'[r].before = readers[r].before \ done
    BY <1>0, <1>1, <1>2, AtReading DEF FeedInv, HasRead
  <2>2. ASSUME NEW q \in readers'[r].before
        PROVE  HasRead(q)' /\ readers'[q].job = readers'[r].job /\ Far(q)' <= Far(r)'
    BY <1>1, <1>3, <2>1, <2>2 DEF StandsBehind
  <2>3. ASSUME NEW q \in Readers, HasRead(q)', readers'[q].job = readers'[r].job
        PROVE  q = r \/ q \in readers'[r].before \/ r \in readers'[q].before
    <3>1. q \notin done /\ HasRead(q) /\ readers[q].job = readers[r].job
      BY <1>1, <1>2, <2>1, <2>3
    <3>2. readers'[q].before = readers[q].before \ done
      BY <1>1, <3>1 DEF HasRead
    <3>3. q = r \/ q \in readers[r].before \/ r \in readers[q].before
      BY <2>1, <3>1 DEF StandsBehind
    <3> QED BY <2>1, <3>1, <3>2, <3>3
  <2> QED BY <2>2, <2>3 DEF StandsBehind
<1> QED BY <1>1, <1>4, <1>5, <1>6

\* What a reader would tell now, if it told it.
LEMMA PublishTells ==
  ASSUME FeedInv, NEW r \in Readers, Publish(r)
  PROVE  /\ HasRead(r) /\ readers[r].job \in Jobs /\ readers[r].got \in Entry
         /\ Behind(readers[r].got, readers[r].job) /\ Coherent(readers[r].got, readers[r].job)
         /\ shown' \in [Jobs -> Entry]
         /\ \A j \in Jobs :
              shown'[j] = IF connected /\ j = readers[r].job THEN readers[r].got ELSE shown[j]
BY AtReading DEF FeedInv, FeedType, HasRead, ReaderFits, Publish, MergeJob

\* Who is still in time after an update has stood behind its reader, and so has
\* read what is no older.
LEMMA PublishKeeps ==
  ASSUME IInv, RowsInv, FeedInv, NEW r \in Readers, Publish(r)
  PROVE  FeedInv'
<1>0. TypeOK /\ FeedType /\ TypeOK'
  BY DEF IInv, FeedInv, Publish, vars, persisted, memory, bounds, TypeOK
<1>1. /\ HasRead(r) /\ readers[r].job \in Jobs /\ readers[r].got \in Entry
      /\ Behind(readers[r].got, readers[r].job) /\ Coherent(readers[r].got, readers[r].job)
      /\ shown' \in [Jobs -> Entry]
      /\ \A j \in Jobs :
           shown'[j] = IF connected /\ j = readers[r].job THEN readers[r].got ELSE shown[j]
  BY PublishTells
<1>2. PICK j \in Jobs : j = readers[r].job
  BY <1>1
<1>3. PICK e \in Entry : e = readers[r].got
  BY <1>1
<1>4. /\ task' = task /\ status' = status /\ progress' = progress /\ rows' = rows
      /\ pages' = pages /\ connected' = connected /\ Leave({r}, {r})
      /\ disturbed' = (disturbed \/ readers[r].overtaken \/ ~connected)
  BY DEF Publish, vars, persisted
<1>5. Moves
  BY <1>0, <1>4, RestsMoves DEF Rests
<1>6. {r} \in SUBSET Readers
  OBVIOUS
<1>7. /\ readers' \in [Readers -> Work \cup {Idle}]
      /\ readers'[r].stage = "idle"
      /\ \A q \in Readers \ {r} :
           /\ readers'[q].stage = readers[q].stage /\ readers'[q].job = readers[q].job
           /\ readers'[q].got = readers[q].got
           /\ readers[q].stage # "idle" =>
                (~readers'[q].overtaken => ~readers[q].overtaken /\ q \notin readers[r].before)
  BY <1>0, <1>4, <1>6, LeaveLeaves
<1>8. \A q \in Readers : PageFits(q)' /\ ReaderFits(q)' /\ StandsBehind(q)'
  BY <1>0, <1>4, <1>5, <1>6, LeaveKeeps
<1>9. ASSUME NEW q \in Readers PROVE InTime(q)'
  <2> SUFFICES ASSUME HasRead(q)', ~disturbed', ~readers'[q].overtaken
               PROVE  StageOf(shown'[readers'[q].job].status) <= Far(q)'
    BY DEF InTime
  <2>1. /\ q \in Readers \ {r} /\ HasRead(q) /\ ~readers[q].overtaken /\ q \notin readers[r].before
        /\ Far(q)' = Far(q) /\ readers'[q].job = readers[q].job
    BY <1>7 DEF HasRead, Far
  <2>2. ~disturbed /\ connected
    BY <1>4
  <2>3. readers[q].job \in Jobs
    BY <1>0, <2>1, AtReading DEF HasRead
  <2>4. CASE readers[q].job = j
    <3>1. r \in readers[q].before
      BY <1>1, <1>2, <2>1, <2>4 DEF FeedInv, StandsBehind
    <3>2. Far(r) <= Far(q)
      BY <2>1, <3>1 DEF FeedInv, StandsBehind
    <3> QED BY <1>1, <1>2, <2>1, <2>2, <2>4, <3>2 DEF Far
  <2>5. CASE readers[q].job # j
    BY <1>1, <1>2, <2>1, <2>2, <2>3, <2>5 DEF FeedInv, InTime
  <2> QED BY <2>4, <2>5
<1>10. ASSUME NEW k \in Jobs PROVE ShownFits(k)'
  <2>1. CASE shown'[k] = shown[k]
    BY <1>0, <1>5, <2>1, ShownStays DEF FeedInv
  <2>2. CASE k = j /\ shown'[k] = e
    <3>1. Behind(e, j)' /\ Coherent(e, j)'
      BY <1>0, <1>1, <1>2, <1>3, <1>5, ReadStays
    <3> QED BY <2>2, <3>1 DEF ShownFits, Behind, Coherent, Counted, JobOf
  <2> QED BY <1>1, <1>2, <1>3, <2>1, <2>2
<1>11. FeedType'
  BY <1>0, <1>1, <1>4, <1>7 DEF FeedType
<1> QED BY <1>8, <1>9, <1>10, <1>11 DEF FeedInv

\* The readers of a page.
LEMMA PageReads ==
  ASSUME NEW p \in 1..MaxPages
  PROVE  /\ PageOf(p) \in SUBSET Readers
         /\ \A j \in Jobs : <<"page", p, j>> \in PageOf(p)
         /\ \A r \in PageOf(p) : r[3] \in Jobs /\ r = <<"page", p, r[3]>> /\ r \notin Updates
BY DEF PageOf, Readers, Updates

\* A page tells of every job what its reader has read.
LEMMA MountTells ==
  ASSUME FeedInv, NEW p \in 1..MaxPages, Mount(p), NEW j \in Jobs
  PROVE  LET r == <<"page", p, j>>
         IN  /\ r \in Readers /\ r \in PageOf(p) /\ HasRead(r) /\ readers[r].job = j
             /\ readers[r].got \in Entry
             /\ Behind(readers[r].got, j) /\ Coherent(readers[r].got, j)
             /\ shown'[j] = readers[r].got
<1> DEFINE r == <<"page", p, j>>
<1>1. r \in Readers /\ r \in PageOf(p)
  BY PageReads
<1>2. readers[r].stage = "publish" /\ shown'[j] = readers[r].got
  BY <1>1 DEF Mount
<1>3. readers[r].job = j
  BY <1>1, <1>2 DEF FeedInv, PageFits
<1>4. HasRead(r) /\ ReaderFits(r) /\ FeedType
  BY <1>1, <1>2 DEF HasRead, FeedInv
<1>5. readers[r].got \in Entry
  BY <1>1, <1>2, <1>4, AtReading
<1> HIDE DEF r
<1> QED BY <1>1, <1>2, <1>3, <1>4, <1>5 DEF ReaderFits, r

\* As with an update, for every job at once.
LEMMA MountKeeps ==
  ASSUME IInv, RowsInv, FeedInv, NEW p \in 1..MaxPages, Mount(p)
  PROVE  FeedInv'
<1>0. TypeOK /\ FeedType /\ TypeOK'
  BY DEF IInv, FeedInv, Mount, vars, persisted, memory, bounds, TypeOK
<1>1. \A j \in Jobs : LET r == <<"page", p, j>>
         IN  /\ r \in Readers /\ r \in PageOf(p) /\ HasRead(r) /\ readers[r].job = j
             /\ readers[r].got \in Entry
             /\ Behind(readers[r].got, j) /\ Coherent(readers[r].got, j)
             /\ shown'[j] = readers[r].got
  BY MountTells
<1>4. /\ task' = task /\ status' = status /\ progress' = progress /\ rows' = rows
      /\ pages' = pages /\ connected' = connected /\ Leave(PageOf(p), PageOf(p))
      /\ disturbed' = (disturbed \/ \E r \in PageOf(p) : readers[r].overtaken)
  BY DEF Mount, vars, persisted
<1>5. Moves
  BY <1>0, <1>4, RestsMoves DEF Rests
<1>6. PageOf(p) \in SUBSET Readers
  BY PageReads
<1>7. /\ readers' \in [Readers -> Work \cup {Idle}]
      /\ \A q \in PageOf(p) : readers'[q].stage = "idle"
      /\ \A q \in Readers \ PageOf(p) :
           /\ readers'[q].stage = readers[q].stage /\ readers'[q].job = readers[q].job
           /\ readers'[q].got = readers[q].got
           /\ readers[q].stage # "idle" =>
                (~readers'[q].overtaken =>
                   ~readers[q].overtaken /\ \A r \in PageOf(p) : q \notin readers[r].before)
  BY <1>0, <1>4, <1>6, LeaveLeaves
<1>8. \A q \in Readers : PageFits(q)' /\ ReaderFits(q)' /\ StandsBehind(q)'
  BY <1>0, <1>4, <1>5, <1>6, LeaveKeeps
<1>9. ASSUME NEW q \in Readers PROVE InTime(q)'
  <2> SUFFICES ASSUME HasRead(q)', ~disturbed', ~readers'[q].overtaken
               PROVE  StageOf(shown'[readers'[q].job].status) <= Far(q)'
    BY DEF InTime
  <2>1. /\ q \in Readers \ PageOf(p) /\ HasRead(q)
        /\ \A r \in PageOf(p) : q \notin readers[r].before
        /\ Far(q)' = Far(q) /\ readers'[q].job = readers[q].job
    BY <1>7 DEF HasRead, Far
  <2>2. PICK j \in Jobs : j = readers[q].job
    BY <1>0, <2>1, AtReading DEF HasRead
  <2>3. PICK r \in Readers : r \in PageOf(p) /\ HasRead(r) /\ readers[r].job = j
                             /\ shown'[j] = readers[r].got
    BY <1>1
  <2>4. r \in readers[q].before
    BY <2>1, <2>2, <2>3 DEF FeedInv, StandsBehind
  <2>5. Far(r) <= Far(q)
    BY <2>1, <2>4 DEF FeedInv, StandsBehind
  <2> QED BY <2>1, <2>2, <2>3, <2>5 DEF Far
<1>10. ASSUME NEW k \in Jobs PROVE ShownFits(k)'
  <2>1. PICK e \in Entry : Behind(e, k) /\ Coherent(e, k) /\ shown'[k] = e
    BY <1>1
  <2>2. Behind(e, k)' /\ Coherent(e, k)'
    BY <1>0, <1>5, <2>1, ReadStays
  <2> QED BY <2>1, <2>2 DEF ShownFits, Behind, Coherent, Counted, JobOf
<1>11. FeedType'
  <2>1. shown' = [j \in Jobs |-> readers[<<"page", p, j>>].got]
    BY DEF Mount
  <2>2. shown' \in [Jobs -> Entry]
    BY <1>1, <2>1
  <2> QED BY <1>0, <1>4, <1>7, <2>2 DEF FeedType
<1> QED BY <1>8, <1>9, <1>10, <1>11 DEF FeedInv

\* A reader that fails takes the page with it; the scheduler does not notice.
LEMMA FaultOnly ==
  ASSUME IInv, RowsInv, faults < MaxFaults, faults' = faults + 1,
         UNCHANGED <<task, persisted, memory, applied, announced, crashes>>
  PROVE  IInv' /\ RowsInv' /\ Moves
<1>1. TypeOK'
  BY ConstantsAssumption DEF IInv, TypeOK, persisted, memory
<1>2. \A j \in Jobs : JobInv(j)'
  BY DEF persisted, memory, IInv, JobInv, StatusFits, StepFits, EffectsFit, WholeSoFar,
         RollbackFits, RowsTell, NothingElse, RowsSoFar, Whole, StepsOf
<1>3. RowsInv'
  BY DEF persisted, memory, RowsInv, QueueFits, Counted, StepsOf
<1>4. Moves
  BY RestsMoves DEF IInv, Rests, persisted
<1> QED BY <1>1, <1>2, <1>3, <1>4 DEF IInv

\* Nobody is told anything by a reader that fails.
LEMMA ReadFailsKeeps ==
  ASSUME IInv, RowsInv, FeedInv, NEW r \in Readers, ReadFails(r)
  PROVE  FeedInv'
<1>0. IInv' /\ Moves
  BY FaultOnly DEF ReadFails
<1>1. TypeOK /\ TypeOK' /\ FeedType
  BY <1>0 DEF IInv, FeedInv
<1>2. PICK done \in SUBSET Readers : Leave(done, {})
  BY DEF ReadFails
<1>3. /\ shown' = shown /\ pages' = pages /\ connected' = connected
      /\ disturbed' = (disturbed \/ r \in Updates)
  BY DEF ReadFails
<1>4. /\ readers' \in [Readers -> Work \cup {Idle}]
      /\ \A q \in Readers : PageFits(q)' /\ ReaderFits(q)' /\ StandsBehind(q)'
  BY <1>0, <1>1, <1>2, <1>3, LeaveKeeps
<1>5. FeedType'
  BY <1>1, <1>3, <1>4 DEF FeedType
<1>6. ASSUME NEW q \in Readers PROVE InTime(q)'
  <2>1. /\ q \in done => readers'[q].stage = "idle"
        /\ q \notin done =>
             /\ readers'[q].stage = readers[q].stage /\ readers'[q].job = readers[q].job
             /\ readers'[q].got = readers[q].got
             /\ readers[q].stage # "idle" => (~readers'[q].overtaken => ~readers[q].overtaken)
    BY <1>1, <1>2, LeaveLeaves
  <2> QED BY <1>3, <2>1 DEF FeedInv, InTime, HasRead, Far
<1>7. ASSUME NEW j \in Jobs PROVE ShownFits(j)'
  BY <1>0, <1>1, <1>3, ShownStays DEF FeedInv
<1> QED BY <1>4, <1>5, <1>6, <1>7 DEF FeedInv

\* What is shown of a job that nobody has read is of earlier.
LEMMA NothingFits ==
  ASSUME TypeOK, NEW j \in Jobs
  PROVE  /\ Nothing \in Entry /\ StageOf(Nothing.status) = 0
         /\ Behind(Nothing, j) /\ Coherent(Nothing, j)
<1>1. Nothing \in Entry /\ Nothing.status = "absent" /\ Nothing.progress = 0
  BY DEF Nothing, Entry, JobStatus, RowStatus
<1>2. StageOf("absent") = 0 /\ "absent" \notin Terminal
  BY DEF StageOf, Terminal
<1>3. ASSUME NEW i \in StepsOf(j) PROVE ~(0 > Percent(i - 1, task[j].size))
  <2>1. i - 1 \in Nat /\ task[j].size \in Nat \ {0}
    BY TaskShape, ConstantsAssumption DEF StepsOf
  <2>2. Percent(i - 1, task[j].size) \in Nat
    BY <2>1, PercentIsNat
  <2> QED BY <2>2
<1>4. 0 <= StageOf(status[j])
  <2>1. status[j] \in JobStatus
    BY DEF TypeOK
  <2>2. StageOf(status[j]) \in 0..4
    BY <2>1, StageIsNat
  <2> QED BY <2>2
<1> QED BY <1>1, <1>2, <1>3, <1>4 DEF Behind, Coherent, Counted

\* The readers of a page that opens were idle, and those of jobs that are not
\* there yet are done at once.
LEMMA OpenPageOpens ==
  ASSUME FeedInv, OpenPage, NEW p, p = pages + 1
  PROVE  /\ p \in 1..MaxPages /\ pages' = p
         /\ readers' \in [Readers -> Work \cup {Idle}]
         /\ \A r \in Readers \ PageOf(p) : readers'[r] = readers[r]
         /\ \A r \in PageOf(p) :
              /\ readers[r].stage = "idle" /\ readers'[r].job = r[3]
              /\ \/ readers'[r].stage = "job"
                 \/ /\ readers'[r].stage = "publish" /\ status[r[3]] = "absent"
                    /\ readers'[r].before = HaveRead(r[3])
                    /\ readers'[r].got = Nothing
<1>1. p \in 1..MaxPages /\ pages' = p /\ FeedType
  <2>1. FeedType /\ pages \in 0..MaxPages
    BY DEF FeedInv, FeedType
  <2>2. pages < MaxPages /\ pages' = pages + 1
    BY DEF OpenPage
  <2> QED BY <2>1, <2>2, FeedAssumption
<1>2. PageOf(p) \in SUBSET Readers
      /\ \A r \in PageOf(p) : r[3] \in Jobs /\ r = <<"page", p, r[3]>>
  BY <1>1, PageReads
<1>3. ASSUME NEW r \in PageOf(p) PROVE readers[r].stage = "idle"
  <2>1. PageFits(r) /\ ~(p <= pages)
    BY <1>1, <1>2, <1>3 DEF FeedInv, FeedType
  <2> QED BY <1>1, <1>2, <1>3, <2>1 DEF PageFits
<1>4. ASSUME NEW j \in Jobs
      PROVE  /\ Reader(j) \in Work /\ Reader(j).stage = "job" /\ Reader(j).job = j
             /\ [Reader(j) EXCEPT !.stage = "publish", !.before = HaveRead(j)] \in Work
             /\ [Reader(j) EXCEPT !.stage = "publish", !.before = HaveRead(j)].stage = "publish"
             /\ [Reader(j) EXCEPT !.stage = "publish", !.before = HaveRead(j)].job = j
             /\ [Reader(j) EXCEPT !.stage = "publish", !.before = HaveRead(j)].before = HaveRead(j)
             /\ [Reader(j) EXCEPT !.stage = "publish", !.before = HaveRead(j)].got = Nothing
  <2>1. Nothing \in Entry /\ HaveRead(j) \subseteq Readers
    BY DEF Nothing, Entry, JobStatus, RowStatus, HaveRead
  <2> QED BY <2>1 DEF Reader, Work
<1>5. readers' = [r \in Readers |->
       IF r \notin PageOf(p) THEN readers[r]
       ELSE IF status[r[3]] # "absent" THEN Reader(r[3])
       ELSE [Reader(r[3]) EXCEPT !.stage = "publish", !.before = HaveRead(r[3])]]
  BY <1>1 DEF OpenPage
<1>6. readers' \in [Readers -> Work \cup {Idle}]
  BY <1>1, <1>2, <1>4, <1>5 DEF FeedType
<1>7. \A r \in Readers \ PageOf(p) : readers'[r] = readers[r]
  BY <1>5
<1>8. ASSUME NEW r \in PageOf(p)
      PROVE  /\ readers'[r].job = r[3]
             /\ \/ readers'[r].stage = "job"
                \/ /\ readers'[r].stage = "publish" /\ status[r[3]] = "absent"
                   /\ readers'[r].before = HaveRead(r[3])
                   /\ readers'[r].got = Nothing
  <2>1. r \in Readers /\ r[3] \in Jobs
    BY <1>2
  <2>2. CASE status[r[3]] # "absent"
    BY <1>4, <1>5, <2>1, <2>2
  <2>3. CASE status[r[3]] = "absent"
    BY <1>4, <1>5, <2>1, <2>3
  <2> QED BY <2>2, <2>3
<1> QED BY <1>1, <1>3, <1>6, <1>7, <1>8

\* They stand behind all that have read their jobs.
LEMMA OpenPageKeeps ==
  ASSUME IInv, RowsInv, FeedInv, OpenPage
  PROVE  FeedInv'
<1>0. TypeOK /\ FeedType /\ TypeOK'
  BY DEF IInv, FeedInv, OpenPage, vars, persisted, memory, bounds, TypeOK
<1>1. PICK p : p = pages + 1
  OBVIOUS
<1>2. /\ p \in 1..MaxPages /\ pages' = p
      /\ readers' \in [Readers -> Work \cup {Idle}]
      /\ \A r \in Readers \ PageOf(p) : readers'[r] = readers[r]
      /\ \A r \in PageOf(p) :
           /\ readers[r].stage = "idle" /\ readers'[r].job = r[3]
           /\ \/ readers'[r].stage = "job"
              \/ /\ readers'[r].stage = "publish" /\ status[r[3]] = "absent"
                 /\ readers'[r].before = HaveRead(r[3])
                 /\ readers'[r].got = Nothing
  BY <1>1, OpenPageOpens
<1>3. /\ task' = task /\ status' = status /\ progress' = progress /\ rows' = rows
      /\ shown' = shown /\ disturbed' = disturbed /\ connected' = connected
  BY DEF OpenPage, vars, persisted
<1>4. Moves
  BY <1>0, <1>3, RestsMoves DEF Rests
<1>5. /\ PageOf(p) \in SUBSET Readers
      /\ \A r \in PageOf(p) : r[3] \in Jobs /\ r = <<"page", p, r[3]>>
  BY <1>2, PageReads
<1>6. FeedType'
  BY <1>0, <1>1, <1>2, <1>3, FeedAssumption DEF FeedType
<1>7. \A q \in Readers : HasRead(q) => q \notin PageOf(p) /\ HasRead(q)' /\ readers'[q] = readers[q]
  BY <1>2 DEF HasRead
<1>8. ASSUME NEW r \in PageOf(p), HasRead(r)'
      PROVE  /\ r[3] \in Jobs /\ readers'[r].job = r[3] /\ readers'[r].stage = "publish"
             /\ status[r[3]] = "absent"
             /\ readers'[r].before = HaveRead(r[3]) /\ readers'[r].got = Nothing
  BY <1>2, <1>5, <1>8 DEF HasRead
<1>9. ASSUME NEW q \in Readers, HasRead(q)', q \notin PageOf(p)
      PROVE  HasRead(q) /\ readers'[q] = readers[q]
  BY <1>2, <1>9 DEF HasRead
<1>10. StageOf("absent") = 0 /\ Nothing.status = "absent"
  BY DEF StageOf, Nothing, Terminal
<1>11. ASSUME NEW r \in Readers PROVE PageFits(r)'
  <2>1. CASE r \in PageOf(p)
    <3>1. readers'[r].job = r[3] /\ r = <<"page", p, r[3]>>
      BY <1>2, <1>5, <2>1
    <3>2. \A n \in 1..MaxPages, j \in Jobs : r = <<"page", n, j>> => n = p /\ j = r[3]
      BY <3>1
    <3> QED BY <1>2, <3>1, <3>2 DEF PageFits
  <2>2. CASE r \notin PageOf(p)
    <3>1. readers'[r] = readers[r] /\ PageFits(r) /\ pages' = pages + 1 /\ pages \in Nat
      BY <1>0, <1>1, <1>2, <2>2, FeedAssumption DEF FeedInv, FeedType
    <3> QED BY <3>1 DEF PageFits
  <2> QED BY <2>1, <2>2
<1>12. ASSUME NEW r \in Readers PROVE ReaderFits(r)'
  <2>1. CASE r \in PageOf(p)
    <3> SUFFICES ASSUME HasRead(r)' PROVE ReaderFits(r)'
      BY DEF ReaderFits
    <3>1. PICK j \in Jobs : j = r[3]
      BY <1>5, <2>1
    <3>2. readers'[r].job = j /\ readers'[r].got = Nothing
      BY <1>8, <2>1, <3>1
    <3>3. Behind(Nothing, j)' /\ Coherent(Nothing, j)'
      BY <1>0, <1>4, NothingFits, ReadStays
    <3> QED BY <3>2, <3>3 DEF ReaderFits, Behind, Coherent, Counted, JobOf
  <2>2. CASE r \notin PageOf(p)
    BY <1>0, <1>2, <1>4, <2>2, HeldStays DEF FeedInv
  <2> QED BY <2>1, <2>2
<1>13. ASSUME NEW r \in Readers PROVE StandsBehind(r)'
  <2> SUFFICES ASSUME HasRead(r)' PROVE StandsBehind(r)'
    BY DEF StandsBehind
  <2>1. CASE r \in PageOf(p)
    <3>1. PICK j \in Jobs : j = r[3] /\ readers'[r].job = j /\ status[j] = "absent"
                            /\ readers'[r].before = HaveRead(j) /\ readers'[r].got = Nothing
      BY <1>8, <2>1
    <3>2. ASSUME NEW q \in HaveRead(j)
          PROVE  HasRead(q)' /\ readers'[q].job = j /\ Far(q)' <= Far(r)'
      <4>1. q \in Readers /\ HasRead(q) /\ readers[q].job = j
        BY <3>2 DEF HaveRead
      <4>2. Far(q) <= StageOf(status[j])
        BY <4>1 DEF FeedInv, ReaderFits, Behind, Far
      <4> QED BY <1>7, <1>10, <3>1, <4>1, <4>2 DEF Far
    <3>3. ASSUME NEW q \in Readers, HasRead(q)', readers'[q].job = j
          PROVE  q = r \/ q \in HaveRead(j)
      <4>1. CASE q \in PageOf(p)
        BY <1>5, <1>8, <2>1, <3>1, <3>3, <4>1
      <4>2. CASE q \notin PageOf(p)
        BY <1>9, <3>3, <4>2 DEF HaveRead
      <4> QED BY <4>1, <4>2
    <3> QED BY <3>1, <3>2, <3>3 DEF StandsBehind
  <2>2. CASE r \notin PageOf(p)
    <3>1. /\ HasRead(r) /\ readers'[r] = readers[r] /\ StandsBehind(r)
          /\ readers[r].before \subseteq Readers
      BY <1>0, <1>9, <2>2, AtReading DEF FeedInv, HasRead
    <3>2. ASSUME NEW q \in readers[r].before
          PROVE  HasRead(q)' /\ readers'[q].job = readers'[r].job /\ Far(q)' <= Far(r)'
      BY <1>7, <3>1, <3>2 DEF StandsBehind, Far
    <3>3. ASSUME NEW q \in Readers, HasRead(q)', readers'[q].job = readers'[r].job
          PROVE  q = r \/ q \in readers'[r].before \/ r \in readers'[q].before
      <4>1. CASE q \in PageOf(p)
        BY <1>8, <3>1, <3>3, <4>1 DEF HaveRead
      <4>2. CASE q \notin PageOf(p)
        BY <1>9, <3>1, <3>3, <4>2 DEF StandsBehind
      <4> QED BY <4>1, <4>2
    <3> QED BY <3>1, <3>2, <3>3 DEF StandsBehind
  <2> QED BY <2>1, <2>2
<1>14. ASSUME NEW r \in Readers PROVE InTime(r)'
  <2> SUFFICES ASSUME HasRead(r)' PROVE InTime(r)'
    BY DEF InTime
  <2>1. CASE r \in PageOf(p)
    <3>1. PICK j \in Jobs : readers'[r].job = j /\ status[j] = "absent" /\ readers'[r].got = Nothing
      BY <1>8, <2>1
    <3>2. StageOf(shown[j].status) <= StageOf(status[j])
      BY DEF FeedInv, ShownFits, Behind
    <3> QED BY <1>3, <1>10, <3>1, <3>2 DEF InTime, Far
  <2>2. CASE r \notin PageOf(p)
    BY <1>3, <1>9, <2>2 DEF FeedInv, InTime, Far
  <2> QED BY <2>1, <2>2
<1>15. ASSUME NEW k \in Jobs PROVE ShownFits(k)'
  BY <1>0, <1>3, <1>4, ShownStays DEF FeedInv
<1> QED BY <1>6, <1>11, <1>12, <1>13, <1>14, <1>15 DEF FeedInv

\* The scheduler goes on; at most one update begins.
LEMMA WorksKeeps ==
  ASSUME IInv, RowsInv, FeedInv, NEW j \in Jobs, Announces(j) \/ Proceeds(j)
  PROVE  [Next]_vars /\ FeedInv'
<1>2. Schedule(j) \/ Advance(j) \/ StatementFails(j)
  BY DEF Announces, Proceeds, Emits, IsQuiet, Advance
<1>3. Next /\ Moves
  BY <1>2, JobMoves DEF Next
<1>4. TypeOK /\ TypeOK' /\ FeedType
  BY <1>3, NextIInv DEF IInv, FeedInv
<1>5. UNCHANGED <<connected, shown, disturbed, pages>>
  BY DEF Announces, Proceeds, feedVars
<1>6. /\ readers' \in [Readers -> Work \cup {Idle}]
      /\ \A r \in Readers :
           \/ readers'[r] = readers[r]
           \/ readers[r].stage = "idle" /\ readers'[r].stage = "job" /\ r \in Updates
  <2>1. CASE Proceeds(j)
    BY <1>4, <2>1 DEF Proceeds, feedVars, FeedType
  <2>2. CASE Announces(j)
    <3>1. PICK r \in Updates :
            /\ readers[r].stage = "idle"
            /\ readers' = [readers EXCEPT ![r] = Reader(j)]
      BY <2>2 DEF Announces, Begin
    <3>2. Reader(j) \in Work /\ Reader(j).stage = "job"
      <4>1. Nothing \in Entry
        BY DEF Nothing, Entry, JobStatus, RowStatus
      <4> QED BY <4>1 DEF Reader, Work
    <3>3. r \in Readers
      BY DEF Readers
    <3> QED BY <1>4, <3>1, <3>2, <3>3 DEF FeedType
  <2> QED BY <2>1, <2>2
<1>7. FeedType'
  BY <1>4, <1>5, <1>6 DEF FeedType
<1>8. FeedInv'
  BY <1>3, <1>4, <1>5, <1>6, <1>7, GoesOn
<1> QED BY <1>3, <1>8

\* With the process die its readers.
LEMMA DiesKeeps ==
  ASSUME IInv, RowsInv, FeedInv, Dies
  PROVE  [Next]_vars /\ RowsInv' /\ FeedInv'
<1>1. Next
  BY DEF Dies, Next
<1>2. Die /\ UNCHANGED <<task, persisted, cur>>
  BY DEF Dies, Crash, CatchFails
<1>3. TypeOK /\ TypeOK' /\ FeedType
  BY <1>1, NextIInv DEF IInv, FeedInv
<1>4. RowsInv' /\ Moves
  BY <1>2, <1>3, DeathRows, RestsMoves DEF Rests, persisted
<1>5. /\ readers' = [r \in Readers |-> Idle] /\ connected' = FALSE /\ disturbed' = TRUE
      /\ shown' = shown /\ pages' = pages
  BY DEF Dies
<1>6. FeedType'
  BY <1>3, <1>5 DEF FeedType
<1>7. \A r \in Readers : PageFits(r)' /\ ReaderFits(r)' /\ StandsBehind(r)' /\ InTime(r)'
  <2>1. \A r \in Readers : readers'[r].stage = "idle"
    BY <1>5 DEF Idle
  <2> QED BY <2>1 DEF PageFits, ReaderFits, StandsBehind, InTime, HasRead
<1>8. \A j \in Jobs : ShownFits(j)'
  BY <1>3, <1>4, <1>5, ShownStays DEF FeedInv
<1> QED BY <1>1, <1>4, <1>6, <1>7, <1>8 DEF FeedInv

\* The scheduler stands still.
LEMMA StandsStill ==
  ASSUME IInv, RowsInv, UNCHANGED vars
  PROVE  IInv' /\ RowsInv' /\ Moves
<1>1. IInv'
  BY NextIInv
<1>2. RowsInv'
  BY DEF vars, persisted, memory, RowsInv, QueueFits, Counted, StepsOf
<1>3. Moves
  BY RestsMoves DEF IInv, Rests, vars, persisted
<1> QED BY <1>1, <1>2, <1>3

\* Nobody reads, and nothing is shown.
LEMMA InitFeed == FeedInit => IInv /\ RowsInv /\ FeedInv
<1> SUFFICES ASSUME FeedInit PROVE IInv /\ RowsInv /\ FeedInv
  OBVIOUS
<1>1. IInv /\ RowsInv /\ TypeOK
  BY InitIInv, InitRows DEF FeedInit, IInv
<1>2. \A j \in Jobs : ShownFits(j)
  BY <1>1, NothingFits DEF FeedInit, ShownFits
<1>3. \A r \in Readers : PageFits(r) /\ ReaderFits(r) /\ StandsBehind(r) /\ InTime(r)
  BY DEF FeedInit, Idle, PageFits, ReaderFits, StandsBehind, InTime, HasRead
<1>4. FeedType
  <2>1. Nothing \in Entry
    BY DEF Nothing, Entry, JobStatus, RowStatus
  <2>2. 0 \in 0..MaxPages
    BY FeedAssumption
  <2> QED BY <2>1, <2>2 DEF FeedInit, FeedType
<1> QED BY <1>1, <1>2, <1>3, <1>4 DEF FeedInv

\* Every action keeps the invariant.
LEMMA FeedStep ==
  IInv /\ RowsInv /\ FeedInv /\ [FeedNext]_allVars => IInv' /\ RowsInv' /\ FeedInv'
<1> SUFFICES ASSUME IInv, RowsInv, FeedInv, [FeedNext]_allVars PROVE IInv' /\ RowsInv' /\ FeedInv'
  OBVIOUS
<1>1. ASSUME NEW j \in Jobs, Announces(j) \/ Proceeds(j) PROVE IInv' /\ RowsInv' /\ FeedInv'
  <2>1. Schedule(j) \/ Advance(j) \/ StatementFails(j)
    BY <1>1 DEF Announces, Proceeds, Emits, IsQuiet, Advance
  <2> QED BY <1>1, <2>1, WorksKeeps, JobMoves, NextIInv
<1>2. CASE Dies
  BY <1>2, DiesKeeps, NextIInv
<1>3. ASSUME NEW r \in Readers, ReadJob(r) PROVE IInv' /\ RowsInv' /\ FeedInv'
  BY <1>3, ReadJobKeeps, StandsStill DEF ReadJob
<1>4. ASSUME NEW r \in Readers, ReadSteps(r) PROVE IInv' /\ RowsInv' /\ FeedInv'
  BY <1>4, ReadStepsKeeps, StandsStill DEF ReadSteps, Hears
<1>5. ASSUME NEW r \in Updates, Publish(r) PROVE IInv' /\ RowsInv' /\ FeedInv'
  <2>1. r \in Readers
    BY DEF Readers
  <2> QED BY <1>5, <2>1, PublishKeeps, StandsStill DEF Publish
<1>6. ASSUME NEW p \in 1..MaxPages, Mount(p) PROVE IInv' /\ RowsInv' /\ FeedInv'
  BY <1>6, MountKeeps, StandsStill DEF Mount
<1>7. ASSUME NEW r \in Readers, ReadFails(r) PROVE IInv' /\ RowsInv' /\ FeedInv'
  BY <1>7, ReadFailsKeeps, FaultOnly DEF ReadFails
<1>8. CASE OpenPage
  BY <1>8, OpenPageKeeps, StandsStill DEF OpenPage
<1>9. CASE LoseSocket \/ Reconnect \/ UNCHANGED allVars
  <2>1. /\ UNCHANGED vars /\ readers' = readers /\ shown' = shown /\ pages' = pages
        /\ disturbed => disturbed'
        /\ connected' \in BOOLEAN /\ disturbed' \in BOOLEAN
    BY <1>9 DEF LoseSocket, Reconnect, allVars, feedVars, FeedInv, FeedType
  <2>2. IInv' /\ RowsInv' /\ Moves
    BY <2>1, StandsStill
  <2>3. FeedType'
    BY <2>1 DEF FeedInv, FeedType
  <2>4. FeedInv'
    BY <2>1, <2>2, <2>3, GoesOn DEF IInv
  <2> QED BY <2>2, <2>4
<1> QED
  BY <1>1, <1>2, <1>3, <1>4, <1>5, <1>6, <1>7, <1>8, <1>9 DEF FeedNext, Read

\* The invariant of the feed, and with it that of the scheduler, holds throughout.
THEOREM FeedHolds == FeedSpec => [](IInv /\ RowsInv /\ FeedInv)
BY InitFeed, FeedStep, PTL DEF FeedSpec

\* What a page shows of a job hangs together, however its two statements fall between
\* the steps of the job: a finished job is shown as it ended, and the progress has
\* every step behind it that it counts.
THEOREM ShownHangsTogether == FeedSpec => []ShownIsCoherent
<1>1. FeedInv => ShownIsCoherent
  BY DEF FeedInv, ShownFits, Coherent, Undone, ShownIsCoherent
<1> QED BY <1>1, FeedHolds, PTL

-----------------------------------------------------------------------------
(* The list implements View *)

\* A job that goes on is told nothing of.
LEMMA ViewAdvances ==
  ASSUME IInv, RowsInv, NEW j \in Jobs, Announces(j) \/ Proceeds(j)
  PROVE  JobsView!Advance
<1>1. Schedule(j) \/ Advance(j) \/ StatementFails(j)
  BY DEF Announces, Proceeds, Emits, IsQuiet, Advance
<1>2. UNCHANGED <<shown, disturbed>>
  BY DEF Announces, Proceeds, feedVars
<1>3. \A k \in Jobs \ {j} : status'[k] = status[k]
  BY <1>1, Frame DEF IInv
<1>4. PICK s : s = StageOf(status'[j])
  OBVIOUS
<1>5. StageOf(status[j]) <= s /\ s \in 0..4 /\ StageOf(status[j]) \in 0..4
  <2>1. status[j] \in JobStatus
    BY DEF IInv, TypeOK
  <2>2. StageOf(status[j]) \in 0..4
    BY <2>1, StageIsNat
  <2> QED BY <1>1, <1>4, <2>2, OwnStage
<1>6. s \in StageOf(status[j])..4
  BY <1>5
<1>7. [k \in Jobs |-> StageOf(status'[k])] = [[k \in Jobs |-> StageOf(status[k])] EXCEPT ![j] = s]
  BY <1>3, <1>4
<1> QED BY <1>2, <1>6, <1>7 DEF JobsView!Advance

\* Whatever else happens, the list is told what was so; undisturbed, it does not
\* go back.
LEMMA ViewTold ==
  ASSUME TypeOK, FeedInv, FeedInv', status' = status, disturbed => disturbed',
         ~disturbed' =>
           \A j \in Jobs : StageOf(shown[j].status) <= StageOf(shown'[j].status)
  PROVE  JobsView!Tell \/ JobsView!TellLate
<1>1. \A j \in Jobs : /\ StageOf(shown'[j].status) <= StageOf(status[j])
                      /\ StageOf(shown'[j].status) \in 0..4
  <2> TAKE j \in Jobs
  <2>1. ShownFits(j)' /\ shown'[j].status \in JobStatus
    BY DEF FeedInv, FeedType, Entry
  <2>2. StageOf(shown'[j].status) \in 0..4
    BY <2>1, StageIsNat
  <2> QED BY <2>1, <2>2 DEF ShownFits, Behind
<1>2. disturbed \in BOOLEAN /\ disturbed' \in BOOLEAN
  BY DEF FeedInv, FeedType
<1>3. [j \in Jobs |-> StageOf(shown'[j].status)] \in [Jobs -> 0..4]
  BY <1>1
<1>4. CASE disturbed'
  BY <1>1, <1>3, <1>4 DEF JobsView!TellLate
<1>5. CASE ~disturbed'
  <2>1. disturbed' = disturbed
    BY <1>2, <1>5
  <2> QED BY <1>1, <1>3, <1>5, <2>1 DEF JobsView!Tell
<1> QED BY <1>4, <1>5

\* A list that is told nothing does not go back.
LEMMA SameShown ==
  ASSUME FeedInv, shown' = shown
  PROVE  \A j \in Jobs : StageOf(shown[j].status) <= StageOf(shown'[j].status)
<1> TAKE j \in Jobs
<1>1. shown[j].status \in JobStatus
  BY DEF FeedInv, FeedType, Entry
<1>2. StageOf(shown[j].status) \in 0..4
  BY <1>1, StageIsNat
<1> QED BY <1>2

\* Nor does one that an update reaches in time ...
LEMMA PublishGoesOn ==
  ASSUME FeedInv, NEW r \in Readers, Publish(r), ~disturbed', NEW j \in Jobs
  PROVE  StageOf(shown[j].status) <= StageOf(shown'[j].status)
<1>1. ~disturbed /\ ~readers[r].overtaken /\ connected
  BY DEF Publish
<1>2. HasRead(r) /\ shown'[j] = IF connected /\ j = readers[r].job THEN readers[r].got ELSE shown[j]
  BY PublishTells
<1>3. CASE j = readers[r].job
  BY <1>1, <1>2, <1>3 DEF FeedInv, InTime, Far
<1>4. CASE j # readers[r].job
  <2>1. shown[j].status \in JobStatus
    BY DEF FeedInv, FeedType, Entry
  <2>2. StageOf(shown[j].status) \in 0..4
    BY <2>1, StageIsNat
  <2> QED BY <1>2, <1>4, <2>2
<1> QED BY <1>3, <1>4

\* ... nor one that a page replaces in time.
LEMMA MountGoesOn ==
  ASSUME FeedInv, NEW p \in 1..MaxPages, Mount(p), ~disturbed', NEW j \in Jobs
  PROVE  StageOf(shown[j].status) <= StageOf(shown'[j].status)
<1>1. PICK r \in Readers : r \in PageOf(p) /\ HasRead(r) /\ readers[r].job = j
                           /\ shown'[j] = readers[r].got
  BY MountTells
<1>2. ~disturbed /\ ~readers[r].overtaken
  BY <1>1 DEF Mount
<1> QED BY <1>1, <1>2 DEF FeedInv, InTime, Far

\* Every step of the feed is a step of View, or none.
LEMMA ViewStep ==
  ASSUME IInv, RowsInv, FeedInv, FeedInv', [FeedNext]_allVars
  PROVE  [JobsView!Next]_(JobsView!vars)
<1>0. TypeOK /\ disturbed \in BOOLEAN
  BY DEF IInv, FeedInv, FeedType
<1>1. ASSUME NEW j \in Jobs, Announces(j) \/ Proceeds(j) PROVE JobsView!Next
  BY <1>1, ViewAdvances DEF JobsView!Next
<1>2. ASSUME status' = status, shown' = shown, disturbed => disturbed' PROVE JobsView!Next
  BY <1>0, <1>2, SameShown, ViewTold DEF JobsView!Next
<1>3. CASE Dies
  BY <1>2, <1>3 DEF Dies, Crash, CatchFails, persisted
<1>4. ASSUME NEW r \in Readers, ReadJob(r) \/ ReadSteps(r) PROVE JobsView!Next
  BY <1>2, <1>4 DEF ReadJob, ReadSteps, Hears, vars, persisted
<1>5. ASSUME NEW r \in Updates, Publish(r) PROVE JobsView!Next
  <2>1. r \in Readers
    BY DEF Readers
  <2>2. status' = status /\ (disturbed => disturbed')
    BY <1>5 DEF Publish, vars, persisted
  <2>3. ~disturbed' => \A j \in Jobs : StageOf(shown[j].status) <= StageOf(shown'[j].status)
    BY <1>5, <2>1, PublishGoesOn
  <2> QED BY <1>0, <2>2, <2>3, ViewTold DEF JobsView!Next
<1>6. ASSUME NEW p \in 1..MaxPages, Mount(p) PROVE JobsView!Next
  <2>2. status' = status /\ (disturbed => disturbed')
    BY <1>6 DEF Mount, vars, persisted
  <2>3. ~disturbed' => \A j \in Jobs : StageOf(shown[j].status) <= StageOf(shown'[j].status)
    BY <1>6, MountGoesOn
  <2> QED BY <1>0, <2>2, <2>3, ViewTold DEF JobsView!Next
<1>7. ASSUME NEW r \in Readers, ReadFails(r) PROVE JobsView!Next
  BY <1>2, <1>7 DEF ReadFails, persisted
<1>8. CASE OpenPage \/ LoseSocket \/ Reconnect
  BY <1>2, <1>8 DEF OpenPage, LoseSocket, Reconnect, vars, persisted
<1>9. CASE UNCHANGED allVars
  BY <1>9 DEF allVars, vars, persisted, feedVars, JobsView!vars
<1> QED
  BY <1>1, <1>3, <1>4, <1>5, <1>6, <1>7, <1>8, <1>9 DEF FeedNext, Read

\* The list of jobs in a browser is a view of the scheduler: it is never ahead of a
\* job, and it goes back only when a reader was overtaken or something was lost.
THEOREM ListIsView == FeedSpec => IsView
<1>1. FeedInit => JobsView!Init
  BY DEF FeedInit, Init, Nothing, StageOf, Terminal, JobsView!Init
<1>2. IInv /\ RowsInv /\ FeedInv /\ [FeedNext]_allVars => [JobsView!Next]_(JobsView!vars)
  BY FeedStep, ViewStep
<1> QED BY <1>1, <1>2, FeedStep, FeedHolds, PTL DEF FeedSpec, IsView, JobsView!Spec
=============================================================================
